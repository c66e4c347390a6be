------------------------------- MODULE Council ------------------------------
(***************************************************************************)
(* Terms of the Sangguniang Bayan, its members and its committees, from    *)
(* Backends/backend/routes/council.py.  Nothing here is deleted.           *)
(*                                                                         *)
(* A request checks the rows it reads against its payload in one step and  *)
(* commits in a later one, writing only the columns it changed; no         *)
(* constraint of the database backs the checks modelled here.  Names are   *)
(* left out.                                                               *)
(***************************************************************************)
EXTENDS Naturals, FiniteSets

CONSTANTS Terms, Members, Committees,  \* the ids, used once each
          Accounts,                    \* accounts of SB members
          Requests,                    \* slots for requests the server runs at one time
          Days                         \* BOUND: the days of terms, of leaving, and of the clock

DaysAssumption == Days \subseteq Nat \ {0}

VARIABLES today,       \* lgu_today()
          terms,       \* council_terms: first and last day
          members,     \* council_members
          committees,  \* the chair of each committee, or NoOne
          overtaken,   \* history: a request committed after another that it did not see
          reqs         \* what each request is about to write

vars == <<today, terms, members, committees, overtaken, reqs>>

POSITIONS == {"Vice Mayor", "Regular Member"}
SINGLE_SEAT_POSITIONS == {"Vice Mayor"}
NoOne == "no one"
NoTerm == [starts |-> 0, ends |-> 0]
NoMember == [term |-> NoOne, position |-> "Regular Member", account |-> NoOne, left |-> 0]
Idle == [op |-> "idle", id |-> NoOne, term |-> NoTerm, member |-> NoMember, chair |-> NoOne,
         columns |-> {}, fresh |-> TRUE]

TypeOK ==
    /\ today \in Days
    /\ terms \in [Terms -> [starts : Days \cup {0}, ends : Days \cup {0}]]
    /\ members \in [Members -> [term : Terms \cup {NoOne}, position : POSITIONS,
                                account : Accounts \cup {NoOne}, left : Days \cup {0}]]
    /\ committees \in [Committees -> Members \cup {NoOne}]
    /\ overtaken \in BOOLEAN

Init == /\ today \in Days
        /\ terms = [t \in Terms |-> NoTerm]
        /\ members = [m \in Members |-> NoMember]
        /\ committees = [c \in Committees |-> NoOne]
        /\ overtaken = FALSE
        /\ reqs = [r \in Requests |-> Idle]

TermExists(t) == terms[t] # NoTerm
MemberExists(m) == members[m].term # NoOne

(* left_on 0 stands for none. *)
IsActiveMember(row) == row.left = 0 \/ row.left > today
Overlap(a, b) == a.starts <= b.ends /\ b.starts <= a.ends

\* MUTANT: a term is compared with itself only.
CheckTermDatesLoose(t, new) == new.starts < new.ends
CheckTermDates(t, new) ==
    /\ new.starts < new.ends
    /\ \A other \in Terms \ {t} : TermExists(other) => ~Overlap(terms[other], new)

(* Of the active members of the term: one in each single seat, and one     *)
(* with an account.                                                        *)
CheckMember(m, new) ==
    \A other \in Members \ {m} : (members[other].term = new.term /\ IsActiveMember(members[other])) =>
        /\ new.position \in SINGLE_SEAT_POSITIONS => members[other].position # new.position
        /\ new.account # NoOne => members[other].account # new.account

Load(r, job) == /\ reqs[r].op = "idle"
                /\ reqs' = [reqs EXCEPT ![r] = job]
                /\ UNCHANGED <<today, terms, members, committees, overtaken>>

(* A new term, or another first and last day for one. *)
TermLoad(r, t, first, last) ==
    LET new == [starts |-> first, ends |-> last] IN
    /\ CheckTermDates(t, new)
    /\ Load(r, [Idle EXCEPT !.op = "term", !.id = t, !.term = new])

Columns(old, new) == {f \in DOMAIN new : new[f] # old[f]}

AddMemberLoad(r, m, t, position, account) ==
    LET new == [term |-> t, position |-> position, account |-> account, left |-> 0] IN
    /\ ~MemberExists(m) /\ \A q \in Requests : reqs[q].id # m
    /\ TermExists(t) /\ CheckMember(m, new)
    /\ Load(r, [Idle EXCEPT !.op = "member", !.id = m, !.member = new, !.columns = DOMAIN new])

(* A member who has left by today takes no seat. *)
UpdateMemberLoad(r, m, position, account, left) ==
    LET new == [term |-> members[m].term, position |-> position, account |-> account, left |-> left] IN
    /\ MemberExists(m)
    /\ IsActiveMember(new) => CheckMember(m, new)
    /\ Load(r, [Idle EXCEPT !.op = "member", !.id = m, !.member = new, !.columns = Columns(members[m], new)])

\* MUTANT: the chair may be someone who has left.
CommitteeLoadAny(r, c, chair) ==
    /\ chair \in Members /\ chair # committees[c] => MemberExists(chair)
    /\ Load(r, [Idle EXCEPT !.op = "committee", !.id = c, !.chair = chair])
(* A chair who is newly chosen is a current member; one who has left since *)
(* may stay on.                                                            *)
CommitteeLoad(r, c, chair) ==
    /\ chair \in Members /\ chair # committees[c] => MemberExists(chair) /\ IsActiveMember(members[chair])
    /\ Load(r, [Idle EXCEPT !.op = "committee", !.id = c, !.chair = chair])

Finish(r) ==
    /\ overtaken' = (overtaken \/ ~reqs[r].fresh)
    /\ reqs' = [q \in Requests |-> IF q = r \/ reqs[q].op = "idle" THEN Idle ELSE [reqs[q] EXCEPT !.fresh = FALSE]]
    /\ UNCHANGED today

TermCommit(r) ==
    /\ reqs[r].op = "term"
    /\ terms' = [terms EXCEPT ![reqs[r].id] = reqs[r].term]
    /\ Finish(r)
    /\ UNCHANGED <<members, committees>>

MemberCommit(r) ==
    /\ reqs[r].op = "member"
    /\ members' = [members EXCEPT ![reqs[r].id] = [f \in DOMAIN @ |->
                        IF f \in reqs[r].columns THEN reqs[r].member[f] ELSE @[f]]]
    /\ Finish(r)
    /\ UNCHANGED <<terms, committees>>

CommitteeCommit(r) ==
    /\ reqs[r].op = "committee"
    /\ committees' = [committees EXCEPT ![reqs[r].id] = reqs[r].chair]
    /\ Finish(r)
    /\ UNCHANGED <<terms, members>>

Fail(r) == /\ reqs[r].op # "idle"
           /\ reqs' = [reqs EXCEPT ![r] = Idle]
           /\ UNCHANGED <<today, terms, members, committees, overtaken>>

(* A request checks and commits on one day. *)
NextDay == /\ \A r \in Requests : reqs[r].op = "idle"
           /\ today + 1 \in Days
           /\ today' = today + 1
           /\ UNCHANGED <<terms, members, committees, overtaken, reqs>>

Next ==
    \/ \E r \in Requests, t \in Terms, first, last \in Days : TermLoad(r, t, first, last)
    \/ \E r \in Requests, m \in Members, t \in Terms, position \in POSITIONS, account \in Accounts \cup {NoOne} :
        AddMemberLoad(r, m, t, position, account)
    \/ \E r \in Requests, m \in Members, position \in POSITIONS, account \in Accounts \cup {NoOne}, left \in Days \cup {0} :
        UpdateMemberLoad(r, m, position, account, left)
    \/ \E r \in Requests, c \in Committees, chair \in Members \cup {NoOne} : CommitteeLoad(r, c, chair)
    \/ \E r \in Requests : TermCommit(r) \/ MemberCommit(r) \/ CommitteeCommit(r) \/ Fail(r)
    \/ NextDay

Spec == Init /\ [][Next]_vars

(* No day is in two terms, until a request overtakes another               *)
(* (council.py _check_term_dates, which no constraint backs).              *)
TermsApart == ~overtaken => \A t, u \in Terms :
    TermExists(t) /\ TermExists(u) /\ t # u => ~Overlap(terms[t], terms[u])

(* On no day, today or later, does a term have two holders of one seat or  *)
(* of one account, whatever days members are given to leave on, until a    *)
(* request overtakes another (council.py _check_member).                   *)
SeatsHeldOnce == ~overtaken => \A m, n \in Members :
    (m # n /\ MemberExists(m) /\ members[m].term = members[n].term
       /\ IsActiveMember(members[m]) /\ IsActiveMember(members[n])) =>
    /\ members[m].position \in SINGLE_SEAT_POSITIONS => members[n].position # members[m].position
    /\ members[m].account # NoOne => members[n].account # members[m].account

(* A member who takes the chair of a committee is in office, unless the    *)
(* choice was overtaken (council.py _chair).                               *)
ChairStep == \A c \in Committees :
    (committees'[c] # committees[c] /\ committees'[c] # NoOne) =>
        \/ MemberExists(committees'[c]) /\ IsActiveMember(members[committees'[c]])
        \/ \E r \in Requests : reqs[r].id = c /\ reqs'[r] = Idle /\ ~reqs[r].fresh
ChairsAreInOffice == [][ChairStep]_vars

(* Terms share no day and seats no holder (council.py _check_term_dates,   *)
(* _check_member).                                                         *)
SeatsAreApart == TypeOK /\ TermsApart /\ SeatsHeldOnce
=============================================================================
