----------------------------- MODULE Attendance -----------------------------
(***************************************************************************)
(* The sessions of a term, their numbers and dates, and who attended, from *)
(* Backends/backend/routes/council_sessions.py, beside members leaving     *)
(* (council.py update_member).                                             *)
(*                                                                         *)
(* A request loads the session and the rows it decides on and commits in a *)
(* later step: only the columns it changed are written, an UPDATE of a row *)
(* that is gone fails the request, a DELETE of one does not.  Sessions are *)
(* of one kind, since each kind is numbered by itself; a request marks one *)
(* member; notes and reasons are left out, and so is the order of          *)
(* business, which is in OrderOfBusiness.                                  *)
(***************************************************************************)
EXTENDS Naturals, FiniteSets

CONSTANTS Sessions,    \* sessions; one that is deleted may be created again
          Members,     \* the members of the term
          Requests,    \* slots for requests the server runs at one time
          Days,        \* the days of the term
          Leaving,     \* BOUND: the days members leave
          MaxNumber,   \* BOUND: session numbers
          MaxEntries   \* BOUND: rows of attendance

NumbersAssumption == /\ Days \subseteq Nat \ {0} /\ Leaving \subseteq Days
                     /\ MaxNumber \in Nat /\ MaxEntries \in Nat

VARIABLES sess,       \* the row of council_sessions
          left,       \* left_on of each member
          rows,       \* session_attendance
          lastId,     \* the id of its last row
          overtaken,  \* history: a request committed after another that it did not see
          reqs        \* what each request is about to write

vars == <<sess, left, rows, lastId, overtaken, reqs>>

Marks == {"Present", "Absent"}
NEXT_STATUSES == [Draft |-> {"Scheduled", "Held"}, Scheduled |-> {"Draft", "Held"}, Held |-> {}]
Statuses == DOMAIN NEXT_STATUSES
Stays == 0
NoSession == "no session"
NoMember == "no member"

Exists(s) == sess[s].status \in Statuses
Held(s) == sess[s].status = "Held"
EntryRows == [id : 1 .. MaxEntries, s : Sessions, m : Members, mark : Marks, correction : BOOLEAN]
NoRow == [status |-> "none", number |-> 0, on |-> 0]
Row == [status : Statuses \cup {"none"}, number : 0 .. MaxNumber, on : Days \cup {0}]

(* The columns a request changes (to), the entries it removes (gone), the  *)
(* one it changes or 0 (id), and its mark.                                 *)
Idle == [op |-> "idle", s |-> NoSession, to |-> NoRow, gone |-> {},
         id |-> 0, m |-> NoMember, mark |-> "Absent", fresh |-> TRUE]

TypeOK ==
    /\ sess \in [Sessions -> Row]
    /\ \A m \in Members : left[m] = Stays \/ left[m] \in Days
    /\ rows \subseteq EntryRows
    /\ lastId \in 0 .. MaxEntries
    /\ overtaken \in BOOLEAN
    /\ \A r \in Requests :
        /\ reqs[r].op \in {"idle", "create", "update", "status", "delete", "mark", "clear", "correct"}
        /\ reqs[r].to \in Row
        /\ reqs[r].id \in 0 .. MaxEntries

Init == /\ sess = [s \in Sessions |-> NoRow]
        /\ left = [m \in Members |-> Stays]
        /\ rows = {} /\ lastId = 0 /\ overtaken = FALSE
        /\ reqs = [r \in Requests |-> Idle]

(* Had not left by the day of the session. *)
InOffice(m, day) == left[m] = Stays \/ left[m] > day
EntriesOf(s) == {e \in rows : e.s = s}
Entries(s, m) == {e \in EntriesOf(s) : e.m = m}
CurrentEntry(s, m) == IF Entries(s, m) = {} THEN 0
                      ELSE CHOOSE i \in 1 .. MaxEntries : /\ \E e \in Entries(s, m) : e.id = i
                                                          /\ \A e \in Entries(s, m) : e.id <= i

Numbers == {sess[s].number : s \in {s \in Sessions : Exists(s)}}
NextNumber == IF Numbers = {} THEN 1 ELSE 1 + CHOOSE n \in Numbers : \A k \in Numbers : k <= n
Clash(s, n) == \E t \in Sessions \ {s} : Exists(t) /\ sess[t].number = n

Load(r, job) == /\ reqs[r].op = "idle"
                /\ reqs' = [reqs EXCEPT ![r] = job]
                /\ UNCHANGED <<sess, left, rows, lastId, overtaken>>

(* Under the number asked for, or the next one. *)
CreateLoad(r, s, asked, day) ==
    LET n == IF asked = 0 THEN NextNumber ELSE asked IN
    /\ ~Exists(s) /\ EntriesOf(s) = {} /\ \A q \in Requests : reqs[q].s # s
    /\ n <= MaxNumber /\ ~Clash(s, n)
    /\ Load(r, [Idle EXCEPT !.op = "create", !.s = s, !.to = [status |-> "Draft", number |-> n, on |-> day]])

(* The columns that are not as loaded. *)
Changed(s, new) == [f \in DOMAIN new |-> IF new[f] = sess[s][f] THEN NoRow[f] ELSE new[f]]
Written(old, to) == [f \in DOMAIN to |-> IF to[f] = NoRow[f] THEN old[f] ELSE to[f]]

(* Members no longer in office on the new date lose their mark. *)
UpdateLoad(r, s, n, day) ==
    /\ Exists(s) /\ ~Held(s)
    /\ ~Clash(s, n)
    /\ Load(r, [Idle EXCEPT !.op = "update", !.s = s, !.to = Changed(s, [sess[s] EXCEPT !.number = n, !.on = day]),
                            !.gone = {e.id : e \in {e \in EntriesOf(s) : ~InOffice(e.m, day)}}])

StatusLoad(r, s, status) ==
    /\ Exists(s) /\ status \in NEXT_STATUSES[sess[s].status]
    /\ Load(r, [Idle EXCEPT !.op = "status", !.s = s, !.to = Changed(s, [sess[s] EXCEPT !.status = status])])

(* Only a Draft is deleted. *)
DeleteLoad(r, s) ==
    /\ sess[s].status = "Draft"
    /\ Load(r, [Idle EXCEPT !.op = "delete", !.s = s])

MarkLoad(r, s, m, mark) ==
    /\ Exists(s) /\ ~Held(s) /\ InOffice(m, sess[s].on)
    /\ Load(r, [Idle EXCEPT !.op = "mark", !.s = s, !.m = m, !.mark = mark, !.id = CurrentEntry(s, m)])

ClearLoad(r, s, m) ==
    /\ Exists(s) /\ ~Held(s) /\ InOffice(m, sess[s].on)
    /\ CurrentEntry(s, m) # 0
    /\ Load(r, [Idle EXCEPT !.op = "clear", !.s = s, !.gone = {CurrentEntry(s, m)}])

CorrectLoad(r, s, m, mark) ==
    /\ Held(s) /\ InOffice(m, sess[s].on)
    /\ Load(r, [Idle EXCEPT !.op = "correct", !.s = s, !.m = m, !.mark = mark])

Finish(r) ==
    /\ overtaken' = (overtaken \/ ~reqs[r].fresh)
    /\ reqs' = [q \in Requests |-> IF q = r \/ reqs[q].op = "idle" THEN Idle 
                                   ELSE IF reqs[q].s = reqs[r].s THEN [reqs[q] EXCEPT !.fresh = FALSE] ELSE reqs[q]]
    /\ UNCHANGED left

CreateCommit(r) ==
    /\ reqs[r].op = "create"
    /\ ~Clash(reqs[r].s, reqs[r].to.number)
    /\ sess' = [sess EXCEPT ![reqs[r].s] = reqs[r].to]
    /\ Finish(r)
    /\ UNCHANGED <<rows, lastId>>

(* The columns it changed, unless the number was taken meanwhile. *)
WriteSession(r) ==
    LET s == reqs[r].s
        to == reqs[r].to IN
    /\ Exists(s)
    /\ to.number # 0 => ~Clash(s, to.number)
    /\ sess' = [sess EXCEPT ![s] = Written(@, to)]
    /\ rows' = {e \in rows : e.id \notin reqs[r].gone}
    /\ Finish(r)
    /\ UNCHANGED lastId

UpdateCommit(r) == reqs[r].op = "update" /\ WriteSession(r)
StatusCommit(r) == reqs[r].op = "status" /\ WriteSession(r)

\* MUTANT: the marks of a deleted session stay.
DeleteCommitSession(r) ==
    /\ reqs[r].op = "delete"
    /\ sess' = [sess EXCEPT ![reqs[r].s] = NoRow]
    /\ Finish(r)
    /\ UNCHANGED <<rows, lastId>>
DeleteCommit(r) ==
    /\ reqs[r].op = "delete"
    /\ sess' = [sess EXCEPT ![reqs[r].s] = NoRow]
    /\ rows' = {e \in rows : e.s # reqs[r].s}
    /\ Finish(r)
    /\ UNCHANGED lastId

Enter(r, correction) ==
    /\ Exists(reqs[r].s) /\ lastId < MaxEntries
    /\ lastId' = lastId + 1
    /\ rows' = rows \cup {[id |-> lastId', s |-> reqs[r].s, m |-> reqs[r].m,
                           mark |-> reqs[r].mark, correction |-> correction]}

(* The entry that was current is changed in place. *)
MarkCommit(r) ==
    /\ reqs[r].op = "mark"
    /\ \/ reqs[r].id = 0 /\ Enter(r, FALSE)
       \/ /\ \E e \in rows : e.id = reqs[r].id
          /\ rows' = {IF e.id = reqs[r].id THEN [e EXCEPT !.mark = reqs[r].mark] ELSE e : e \in rows}
          /\ UNCHANGED lastId
    /\ Finish(r)
    /\ UNCHANGED sess

ClearCommit(r) ==
    /\ reqs[r].op = "clear"
    /\ rows' = {e \in rows : e.id \notin reqs[r].gone}
    /\ Finish(r)
    /\ UNCHANGED <<sess, lastId>>

CorrectCommit(r) == reqs[r].op = "correct" /\ Enter(r, TRUE) /\ Finish(r) /\ UNCHANGED sess

(* Refused by the database: rolled back. *)
Fail(r) == /\ reqs[r].op # "idle"
           /\ reqs' = [reqs EXCEPT ![r] = Idle]
           /\ UNCHANGED <<sess, left, rows, lastId, overtaken>>

(* A member leaves, or is found to have left on another day or not at all. *)
Leave(m, day) == /\ left[m] # day
                 /\ left' = [left EXCEPT ![m] = day]
                 /\ UNCHANGED <<sess, rows, lastId, overtaken, reqs>>

Next ==
    \/ \E r \in Requests, s \in Sessions, n \in 0 .. MaxNumber, day \in Days :
        CreateLoad(r, s, n, day) \/ (n > 0 /\ UpdateLoad(r, s, n, day))
    \/ \E r \in Requests, s \in Sessions, status \in Statuses : StatusLoad(r, s, status)
    \/ \E r \in Requests, s \in Sessions : DeleteLoad(r, s)
    \/ \E r \in Requests, s \in Sessions, m \in Members, mark \in Marks :
        MarkLoad(r, s, m, mark) \/ CorrectLoad(r, s, m, mark)
    \/ \E r \in Requests, s \in Sessions, m \in Members : ClearLoad(r, s, m)
    \/ \E r \in Requests : \/ CreateCommit(r) \/ UpdateCommit(r) \/ StatusCommit(r) \/ DeleteCommit(r)
                           \/ MarkCommit(r) \/ ClearCommit(r) \/ CorrectCommit(r) \/ Fail(r)
    \/ \E m \in Members, day \in Leaving \cup {Stays} : Leave(m, day)

Spec == Init /\ [][Next]_vars

(* Two sessions never have one number, though two requests may draw it     *)
(* (council_sessions.py _next_number; models.py:112 the unique constraint).*)
NumbersUnique == \A s, t \in Sessions : Exists(s) /\ Exists(t) /\ sess[s].number = sess[t].number => s = t

(* Of a held session, the number and date, and every attendance mark, stay *)
(* as they were, corrections apart, unless the step is of a request that   *)
(* another one overtook (council_sessions.py update_session,               *)
(* record_attendance, delete_session; docs/adr/0003).                      *)
HeldStep == \A s \in Sessions : Held(s) =>
    \/ /\ sess'[s] = sess[s]
       /\ EntriesOf(s) \subseteq EntriesOf(s)'
       /\ \A e \in EntriesOf(s)' \ EntriesOf(s) : e.correction
    \/ \E r \in Requests : reqs'[r] = Idle /\ reqs[r].s = s /\ ~reqs[r].fresh
HeldStays == [][HeldStep]_vars

(* A member has one mark that is not a correction, unless requests         *)
(* overtook each other (council_sessions.py record_attendance).            *)
OneMarkEach == ~overtaken => \A d, e \in rows :
    d.s = e.s /\ d.m = e.m /\ ~d.correction /\ ~e.correction => d = e

(* No mark outlives its session (council_sessions.py delete_session).      *)
MarksOfSessions == \A e \in rows : Exists(e.s)

(* Sessions have numbers of their own, members one mark in each, and marks *)
(* a session, through changes of number, date and status and deletions     *)
(* (council_sessions.py create_session, record_attendance, delete_session).*)
SessionsAreRecorded == TypeOK /\ NumbersUnique /\ OneMarkEach /\ MarksOfSessions
=============================================================================
