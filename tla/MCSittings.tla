----------------------------- MODULE MCSittings -----------------------------
(* Votes, Attendance and Council, and Logins, on small instances.  No step *)
(* of one reads what another writes, so a run picks a part at the start    *)
(* and takes its steps only; the variables of the others rest.             *)
EXTENDS Logins, TLC

CONSTANTS Members, Sessions, Terms, Committees, Accounts, Days, Leaving, MaxFills, MaxNumber, MaxEntries

VARIABLES part, held, rows, fills, sess, left, lastId,
          today, terms, members, committees, late, jobs

Symmetry == Permutations(Requests) \cup Permutations(Members)
              \cup Permutations(Sessions) \cup Permutations(Terms)

V == INSTANCE Votes WITH overtaken <- late, reqs <- jobs
A == INSTANCE Attendance WITH overtaken <- late, reqs <- jobs
C == INSTANCE Council WITH overtaken <- late, reqs <- jobs

(* What the modules assume of their constants holds of these. *)
ASSUME Instances == /\ V!FillsAssumption /\ A!NumbersAssumption /\ C!DaysAssumption
                    /\ IsFiniteSet(Members)

(* Each part has what its properties are about: marks, one member in one   *)
(* session; numbers, sessions without marks; dates, two terms; seats, two  *)
(* members, one request at a time; chairs, one member and the committees.  *)
UntilDay(n) == /\ today <= n
               /\ \A r \in Requests : jobs[r].term.ends <= n /\ jobs[r].member.left <= n
SessionsUntilDay(n) == \A r \in Requests : jobs[r].to.on <= n
Works(ops) == \A r \in Requests : jobs[r].op \in {"idle"} \cup ops
OneMember == \E m \in Members : \A other \in Members \ {m} :
    left[other] = A!Stays /\ \A r \in Requests : jobs[r].m # other
OneSession == \E s \in Sessions : \A other \in Sessions \ {s} :
    ~A!Exists(other) /\ \A r \in Requests : jobs[r].s # other
OneTerm == \E t \in Terms : \A other \in Terms \ {t} :
    ~C!TermExists(other) /\ \A r \in Requests : jobs[r].id # other
OneRequest == \A q, r \in Requests : jobs[q].op # "idle" /\ jobs[r].op # "idle" => q = r
OneInOffice == \E m \in Members : \A other \in Members \ {m} :
    ~C!MemberExists(other) /\ \A r \in Requests : jobs[r].id # other
NoAccounts == \A r \in Requests : jobs[r].member.account = C!NoOne

MarksOnly == /\ OneSession /\ OneMember /\ SessionsUntilDay(2)
             /\ \A r \in Requests : jobs[r].to.number <= 1
NumbersOnly == lastId = 0 /\ OneMember /\ SessionsUntilDay(2)
DatesOnly == Works({"term"})
SeatsOnly == OneRequest /\ OneTerm /\ Works({"term", "member"}) /\ UntilDay(3)
ChairsOnly == OneTerm /\ OneInOffice /\ NoAccounts /\ UntilDay(2)

VotesRest == UNCHANGED <<held, fills>>
AttendanceRest == UNCHANGED <<sess, left, lastId>>
CouncilRest == UNCHANGED <<today, terms, members, committees>>
LoginsRest == UNCHANGED vars

RestVotes == held = FALSE /\ fills = 0
RestAttendance == sess = << >> /\ left = << >> /\ lastId = 0
RestCouncil == today = 0 /\ terms = << >> /\ members = << >> /\ committees = << >>

(* The account of Logins is there in every part, and nobody logs in. *)
PartsInit ==
    /\ Init
    /\ \/ part = "votes" /\ V!Init /\ RestAttendance /\ RestCouncil
       \/ part \in {"marks", "numbers"} /\ A!Init /\ RestVotes /\ RestCouncil
       \/ /\ part \in {"dates", "seats", "chairs"} /\ C!Init /\ RestVotes /\ RestAttendance /\ rows = {}
          /\ part = "seats" => UntilDay(3)
          /\ part = "chairs" => UntilDay(2)
       \/ part = "logins" /\ RestVotes /\ RestAttendance /\ RestCouncil /\ rows = {} /\ late = FALSE /\ jobs = << >>

PartsNext ==
    /\ UNCHANGED part
    /\ \/ part = "votes" /\ V!Next /\ AttendanceRest /\ CouncilRest /\ LoginsRest
       \/ /\ \/ part = "marks" /\ A!Next /\ MarksOnly'
             \/ part = "numbers" /\ A!Next /\ NumbersOnly'
          /\ VotesRest /\ CouncilRest /\ LoginsRest
       \/ /\ \/ part = "dates" /\ C!Next /\ DatesOnly'
             \/ part = "seats" /\ C!Next /\ SeatsOnly'
             \/ part = "chairs" /\ C!Next /\ ChairsOnly'
          /\ VotesRest /\ AttendanceRest /\ UNCHANGED rows /\ LoginsRest
       \/ part = "logins" /\ Next /\ VotesRest /\ AttendanceRest /\ CouncilRest /\ UNCHANGED <<rows, late, jobs>>

parts == <<vars, part, held, rows, fills, sess, left, lastId, today, terms, members, committees, late, jobs>>
PartsSpec == PartsInit /\ [][PartsNext]_parts

(* An item's votes are one vote and its corrections: see Votes.            *)
VotesAreCounted == part = "votes" => V!VotesAreCounted

(* Sessions have their own numbers and marks: see Attendance.              *)
SessionsAreRecorded == part \in {"marks", "numbers"} => A!SessionsAreRecorded

(* Terms share no day, seats and accounts no holder: see Council.          *)
SeatsAreApart == part \in {"dates", "seats", "chairs"} => C!SeatsAreApart

(* What a step may not do to a held session or its votes: see Attendance   *)
(* and Votes.                                                              *)
PartHeldStep == /\ part = "marks" => A!HeldStep
                /\ part = "votes" => V!HeldVotesStep

(* Of a held session, number, date, marks and votes stay on record.        *)
HeldStays == [][PartHeldStep]_parts

(* Who takes the chair of a committee is in office: see Council.           *)
ChairsAreInOffice == [][part = "chairs" => C!ChairStep]_parts
=============================================================================
