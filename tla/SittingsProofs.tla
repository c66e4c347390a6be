-------------------------- MODULE SittingsProofs ---------------------------
(***************************************************************************)
(* What council sessions, the council and the votes keep, for any number   *)
(* of sessions, members, terms, committees, requests and days.  The three  *)
(* models read nothing of each other; members, days, requests and the      *)
(* variable late, which each knows as overtaken, are named once for all.   *)
(* Sessions keep their numbers and attendance, and a held session stays on *)
(* record.  The invariant follows a request from what it loads to its      *)
(* commit (Good): the session it changes is not held unless another        *)
(* request came between, the rows it takes away or changes are of that     *)
(* session, and a member it marks for the first time has no row yet.  An   *)
(* id is drawn once (IdsOnce), so rows entered meanwhile are not among     *)
(* those.                                                                  *)
(***************************************************************************)
EXTENDS MCSittings, FiniteSetTheorems, SequenceTheorems, WellFoundedInduction, TLAPS

Ops == {"idle", "create", "update", "status", "delete", "mark", "clear", "correct"}
JobRows == [op : Ops, s : Sessions \cup {A!NoSession}, to : A!Row, gone : SUBSET (1 .. MaxEntries),
            id : 0 .. MaxEntries, m : Members \cup {A!NoMember}, mark : A!Marks, fresh : BOOLEAN]

Tables ==
    /\ sess \in [Sessions -> A!Row]
    /\ left \in [Members -> Days \cup {A!Stays}]
    /\ rows \subseteq A!EntryRows
    /\ lastId \in 0 .. MaxEntries
    /\ late \in BOOLEAN
    /\ jobs \in [Requests -> JobRows]

IdsOnce == /\ \A e \in rows : e.id =< lastId
           /\ \A d, e \in rows : d.id = e.id => d = e

(* A session is made by one request, before any other knows of it. *)
CreatesAlone == \A q, r \in Requests : jobs[r].op = "create" /\ jobs[q].s = jobs[r].s => q = r

(* The rows a request takes away or changes are of its session. *)
OwnRows(job) == /\ job.id =< lastId /\ \A i \in job.gone : i =< lastId
                /\ \A e \in rows : e.id \in job.gone \/ e.id = job.id => e.s = job.s
Good(job) ==
    /\ IF job.op = "idle" THEN job.s = A!NoSession ELSE job.s \in Sessions
    /\ job.op = "create" => job.s # A!NoSession /\ ~A!Exists(job.s) /\ job.to.status = "Draft"
    /\ job.op \in {"mark", "correct"} => job.m \in Members
    /\ job.op \in {"update", "status", "delete", "mark", "clear"} /\ job.fresh => ~A!Held(job.s)
    /\ OwnRows(job)
    /\ job.op = "mark" /\ job.id = 0 /\ job.fresh => A!Entries(job.s, job.m) = {}

SessionsInv ==
    /\ Tables /\ IdsOnce
    /\ CreatesAlone /\ \A r \in Requests : Good(jobs[r])
    /\ A!NumbersUnique /\ A!OneMarkEach /\ A!MarksOfSessions

-----------------------------------------------------------------------------
(* Lemmas about the operators *)

(* Some member of a bounded set of numbers is the greatest. *)
LEMMA GreatestExists ==
    ASSUME NEW max \in Nat, NEW S \in SUBSET (0 .. max), S # {}
    PROVE  \E n \in S : \A k \in S : k =< n
  <1> DEFINE Rest == {max - n : n \in S}
  <1>1. Rest \subseteq Nat /\ Rest # {}
    <2>1. \A n \in S : max - n \in Nat
      OBVIOUS
    <2> QED
      BY <2>1
  <1>2. PICK k \in Rest : \A j \in Rest : <<j, k>> \notin OpToRel(<, Nat)
    <2> HIDE DEF Rest
    <2> QED
      BY <1>1, WFMin, NatLessThanWellFounded
  <1>3. \A j \in Rest : ~(j < k)
    BY <1>1, <1>2 DEF OpToRel
  <1>4. PICK n \in S : k = max - n
    BY <1>2
  <1>5. ASSUME NEW j \in S PROVE j =< n
    <2>1. ~(max - j < max - n)
      BY <1>3, <1>4
    <2> QED
      BY <2>1
  <1> QED
    BY <1>5

(* The number proposed for a new session is one of those there are. *)
LEMMA NextNumberType ==
    ASSUME A!NumbersAssumption, Tables
    PROVE  A!NextNumber \in Nat
  <1>1. A!Numbers \in SUBSET (0 .. MaxNumber)
    BY DEF Tables, A!Row, A!Numbers
  <1>2. CASE A!Numbers = {}
    BY <1>2 DEF A!NextNumber
  <1>3. CASE A!Numbers # {}
    <2>1. \E n \in A!Numbers : \A k \in A!Numbers : k =< n
      BY <1>1, <1>3, GreatestExists DEF A!NumbersAssumption
    <2>2. A!NextNumber = 1 + (CHOOSE n \in A!Numbers : \A k \in A!Numbers : k =< n)
      BY <1>3 DEF A!NextNumber
    <2>3. PICK n \in A!Numbers : A!NextNumber = 1 + n
      BY <2>1, <2>2
    <2>4. n \in Nat
      BY <1>1, A!NumbersAssumption
    <2> QED
      BY <2>3, <2>4
  <1> QED
    BY <1>2, <1>3

(* The current row of a member is one of the member's, if there is any. *)
LEMMA CurrentEntryIsOne ==
    ASSUME A!NumbersAssumption, Tables, NEW s, NEW m
    PROVE  /\ A!CurrentEntry(s, m) \in 0 .. MaxEntries
           /\ A!CurrentEntry(s, m) = 0 => A!Entries(s, m) = {}
           /\ A!CurrentEntry(s, m) # 0 => \E e \in A!Entries(s, m) : e.id = A!CurrentEntry(s, m)
  <1> DEFINE Ids == {e.id : e \in A!Entries(s, m)}
             Latest(i) == /\ \E e \in A!Entries(s, m) : e.id = i
                          /\ \A e \in A!Entries(s, m) : e.id =< i
  <1>1. Ids \in SUBSET (0 .. MaxEntries) /\ \A e \in A!Entries(s, m) : e.id \in 1 .. MaxEntries
    BY DEF Tables, A!EntryRows, A!Entries, A!EntriesOf, A!NumbersAssumption
  <1>2. CASE A!Entries(s, m) = {}
    BY <1>2 DEF A!CurrentEntry, A!NumbersAssumption
  <1>3. CASE A!Entries(s, m) # {}
    <2>1. Ids # {}
      BY <1>3
    <2>2. PICK i \in Ids : \A k \in Ids : k =< i
      <3> HIDE DEF Ids
      <3> QED
        BY <1>1, <2>1, GreatestExists DEF A!NumbersAssumption
    <2>3. \E j \in 1 .. MaxEntries : Latest(j)
      BY <1>1, <2>2
    <2>4. A!CurrentEntry(s, m) = CHOOSE j \in 1 .. MaxEntries : Latest(j)
      BY <1>3 DEF A!CurrentEntry
    <2> HIDE DEF Latest
    <2>5. A!CurrentEntry(s, m) \in 1 .. MaxEntries /\ Latest(A!CurrentEntry(s, m))
      BY <2>3, <2>4
    <2> QED
      BY <2>5 DEF Latest, A!NumbersAssumption
  <1> QED
    BY <1>2, <1>3

(* A slot with no request is a job like any other. *)
LEMMA IdleJob == A!NumbersAssumption => A!Idle \in JobRows /\ A!Idle.op = "idle" /\ A!Idle.gone = {} /\ A!Idle.id = 0 /\ A!Idle.s = A!NoSession
  BY DEF A!Idle, JobRows, Ops, A!Row, A!NoRow, A!Marks, A!NumbersAssumption

(* What is written of a row is a row, and keeps what was not changed. *)
LEMMA WrittenRow ==
    ASSUME A!NumbersAssumption, NEW old \in A!Row, NEW to \in A!Row
    PROVE  /\ A!Written(old, to) \in A!Row
           /\ A!Written(old, to).status = IF to.status = "none" THEN old.status ELSE to.status
           /\ A!Written(old, to).number = IF to.number = 0 THEN old.number ELSE to.number
  BY DEF A!Written, A!Row, A!NoRow

(* A row with some columns changed is a row still. *)
LEMMA ChangedRow ==
    ASSUME A!NumbersAssumption, Tables, NEW s \in Sessions, NEW new \in A!Row
    PROVE  A!Changed(s, new) \in A!Row
  BY DEF A!Changed, A!Row, A!NoRow, Tables, A!NumbersAssumption

-----------------------------------------------------------------------------
(* Requests *)

(* One more request is under way, and nothing is written. *)
LEMMA LoadStep ==
    ASSUME A!NumbersAssumption, SessionsInv, NEW r \in Requests, NEW job \in JobRows, A!Load(r, job), Good(job), job.op # "idle",
           \/ job.op = "create" /\ \A q \in Requests : jobs[q].s # job.s
           \/ job.op # "create" /\ A!Exists(job.s)
    PROVE  SessionsInv' /\ A!HeldStep
  <1>1. /\ jobs' = [jobs EXCEPT ![r] = job] /\ jobs \in [Requests -> JobRows]
        /\ sess' = sess /\ left' = left /\ rows' = rows /\ lastId' = lastId /\ late' = late
    BY DEF A!Load, SessionsInv, Tables
  <1>2. Tables'
    BY <1>1 DEF Tables, SessionsInv
  <1>3. IdsOnce' /\ A!NumbersUnique' /\ A!OneMarkEach' /\ A!MarksOfSessions'
    BY <1>1 DEF SessionsInv, IdsOnce, A!NumbersUnique, A!OneMarkEach, A!MarksOfSessions, A!Exists
  <1>4. CreatesAlone'
    <2>1. ASSUME NEW p \in Requests, NEW q \in Requests, jobs'[q].op = "create", jobs'[p].s = jobs'[q].s, p # q
          PROVE  FALSE
      <3>1. CASE q = r
        BY <1>1, <2>1, <3>1
      <3>2. CASE p = r
        <4>1. jobs[q].op = "create" /\ jobs[q].s = job.s
          BY <1>1, <2>1, <3>2
        <4>2. ~A!Exists(job.s)
          BY <4>1 DEF SessionsInv, Good
        <4> QED
          BY <4>1, <4>2
      <3>3. CASE p # r /\ q # r
        BY <1>1, <2>1, <3>3 DEF SessionsInv, CreatesAlone
      <3> QED
        BY <3>1, <3>2, <3>3
    <2> QED
      BY <2>1 DEF CreatesAlone
  <1>5. \A q \in Requests : Good(jobs[q])'
    <2>1. ASSUME NEW q \in Requests PROVE Good(jobs'[q])
      BY <1>1 DEF SessionsInv
    <2>2. ASSUME NEW q \in Requests PROVE Good(jobs[q])' <=> Good(jobs'[q])
      BY <1>1 DEF Good, OwnRows, A!Exists, A!Held, A!Entries, A!EntriesOf
    <2> QED
      BY <2>1, <2>2
  <1>6. A!HeldStep
    BY <1>1 DEF A!HeldStep, A!EntriesOf
  <1> QED
    BY <1>2, <1>3, <1>4, <1>5, <1>6 DEF SessionsInv

(* What the loading of each kind of request keeps: a creation, *)
LEMMA CreateLoadStep ==
    ASSUME A!NumbersAssumption, SessionsInv, NEW r \in Requests, NEW s \in Sessions, NEW n \in 0 .. MaxNumber, NEW day \in Days,
           A!CreateLoad(r, s, n, day)
    PROVE  SessionsInv' /\ A!HeldStep
  <1> DEFINE k == IF n = 0 THEN A!NextNumber ELSE n
             to == [status |-> "Draft", number |-> k, on |-> day]
             job == [A!Idle EXCEPT !.op = "create", !.s = s, !.to = to]
  <1>1. k \in 0 .. MaxNumber
    BY NextNumberType DEF A!CreateLoad, SessionsInv, A!NumbersAssumption
  <1>2. to \in A!Row
    BY <1>1 DEF A!Row, A!Statuses, A!NEXT_STATUSES
  <1>3. A!Load(r, job) /\ ~A!Exists(s) /\ \A q \in Requests : jobs[q].s # s
    BY DEF A!CreateLoad
  <1>4. /\ job \in JobRows /\ job.op = "create" /\ job.s = s /\ job.to = to /\ job.gone = {} /\ job.id = 0
    BY <1>2, IdleJob DEF JobRows, Ops
  <1>5. to.status = "Draft"
    OBVIOUS
  <1>6. \A e \in rows : e.id # 0
    BY DEF SessionsInv, Tables, A!EntryRows, A!NumbersAssumption
  <1>7. 0 =< lastId
    BY DEF SessionsInv, Tables, A!NumbersAssumption
  <1> HIDE DEF job, to
  <1>8. s # A!NoSession
    <2>1. jobs[r].op = "idle"
      BY <1>3 DEF A!Load
    <2>2. jobs[r].s = A!NoSession
      BY <2>1 DEF SessionsInv, Good
    <2> QED
      BY <1>3, <2>2
  <1>9. Good(job)
    BY <1>3, <1>4, <1>5, <1>6, <1>7, <1>8 DEF Good, OwnRows
  <1> QED
    BY <1>3, <1>4, <1>9, LoadStep

(* A request that changes a session loads it. *)
LEMMA ChangeLoadStep ==
    ASSUME A!NumbersAssumption, SessionsInv, NEW r \in Requests, NEW job \in JobRows, A!Load(r, job),
           job.op \in {"update", "status", "delete", "mark", "clear", "correct"}, job.s \in Sessions, A!Exists(job.s),
           job.op # "correct" => ~A!Held(job.s),
           job.op \in {"mark", "correct"} => job.m \in Members,
           \A i \in job.gone : \E e \in rows : e.id = i /\ e.s = job.s,
           job.id # 0 => \E e \in rows : e.id = job.id /\ e.s = job.s,
           job.op = "mark" /\ job.id = 0 => A!Entries(job.s, job.m) = {}
    PROVE  SessionsInv' /\ A!HeldStep
  <1>1. OwnRows(job)
    <2>1. job.id =< lastId
      BY DEF SessionsInv, Tables, IdsOnce, JobRows, A!NumbersAssumption
    <2>2. \A i \in job.gone : i =< lastId
      BY DEF SessionsInv, IdsOnce
    <2>3. ASSUME NEW e \in rows, e.id \in job.gone \/ e.id = job.id PROVE e.s = job.s
      <3>1. e.id # 0
        BY DEF SessionsInv, Tables, A!EntryRows, A!NumbersAssumption
      <3>2. PICK d \in rows : d.id = e.id /\ d.s = job.s
        BY <2>3, <3>1
      <3> QED
        BY <3>2 DEF SessionsInv, IdsOnce
    <2> QED
      BY <2>1, <2>2, <2>3 DEF OwnRows
  <1>2. Good(job)
    BY <1>1 DEF Good
  <1> QED
    BY <1>2, LoadStep

(* a change of number or date, *)
LEMMA UpdateLoadStep ==
    ASSUME A!NumbersAssumption, SessionsInv, NEW r \in Requests, NEW s \in Sessions, NEW n \in 1 .. MaxNumber, NEW day \in Days,
           A!UpdateLoad(r, s, n, day)
    PROVE  SessionsInv' /\ A!HeldStep
  <1> DEFINE to == A!Changed(s, [sess[s] EXCEPT !.number = n, !.on = day])
             gone == {e.id : e \in {e \in A!EntriesOf(s) : ~A!InOffice(e.m, day)}}
             job == [A!Idle EXCEPT !.op = "update", !.s = s, !.to = to, !.gone = gone]
  <1>1. A!Load(r, job) /\ A!Exists(s) /\ ~A!Held(s)
    BY DEF A!UpdateLoad
  <1>2. to \in A!Row
    <2>1. n \in 0 .. MaxNumber
      BY DEF A!NumbersAssumption
    <2>2. [sess[s] EXCEPT !.number = n, !.on = day] \in A!Row
      BY <2>1 DEF SessionsInv, Tables, A!Row
    <2> QED
      BY <2>2, ChangedRow DEF SessionsInv
  <1>3. gone \subseteq 1 .. MaxEntries /\ \A i \in gone : \E e \in rows : e.id = i /\ e.s = s
    BY DEF A!EntriesOf, SessionsInv, Tables, A!EntryRows
  <1> HIDE DEF to, gone
  <1>4. job \in JobRows /\ job.op = "update" /\ job.s = s /\ job.gone = gone /\ job.id = 0
    BY <1>2, <1>3, IdleJob DEF JobRows, Ops
  <1> HIDE DEF job
  <1> QED
    BY <1>1, <1>3, <1>4, ChangeLoadStep

(* a change of status, *)
LEMMA StatusLoadStep ==
    ASSUME A!NumbersAssumption, SessionsInv, NEW r \in Requests, NEW s \in Sessions, NEW status \in A!Statuses,
           A!StatusLoad(r, s, status)
    PROVE  SessionsInv' /\ A!HeldStep
  <1> DEFINE to == A!Changed(s, [sess[s] EXCEPT !.status = status])
             job == [A!Idle EXCEPT !.op = "status", !.s = s, !.to = to]
  <1>1. A!Load(r, job) /\ A!Exists(s) /\ ~A!Held(s)
    BY DEF A!StatusLoad, A!Held, A!NEXT_STATUSES
  <1>2. to \in A!Row
    <2>1. [sess[s] EXCEPT !.status = status] \in A!Row
      BY DEF SessionsInv, Tables, A!Row
    <2> QED
      BY <2>1, ChangedRow DEF SessionsInv
  <1> HIDE DEF to
  <1>3. job \in JobRows /\ job.op = "status" /\ job.s = s /\ job.gone = {} /\ job.id = 0
    BY <1>2, IdleJob DEF JobRows, Ops
  <1> HIDE DEF job
  <1> QED
    BY <1>1, <1>3, ChangeLoadStep

(* a deletion, *)
LEMMA DeleteLoadStep ==
    ASSUME A!NumbersAssumption, SessionsInv, NEW r \in Requests, NEW s \in Sessions, A!DeleteLoad(r, s)
    PROVE  SessionsInv' /\ A!HeldStep
  <1> DEFINE job == [A!Idle EXCEPT !.op = "delete", !.s = s]
  <1>1. A!Load(r, job) /\ A!Exists(s) /\ ~A!Held(s)
    BY DEF A!DeleteLoad, A!Exists, A!Held, A!Statuses, A!NEXT_STATUSES
  <1>2. job \in JobRows /\ job.op = "delete" /\ job.s = s /\ job.gone = {} /\ job.id = 0
    BY IdleJob DEF JobRows, Ops
  <1> HIDE DEF job
  <1> QED
    BY <1>1, <1>2, ChangeLoadStep

(* a mark, its clearing or its correction. *)
LEMMA AttendanceLoadStep ==
    ASSUME A!NumbersAssumption, SessionsInv, NEW r \in Requests, NEW s \in Sessions, NEW m \in Members, NEW mark \in A!Marks,
           A!MarkLoad(r, s, m, mark) \/ A!ClearLoad(r, s, m) \/ A!CorrectLoad(r, s, m, mark)
    PROVE  SessionsInv' /\ A!HeldStep
  <1>1. PICK id \in 0 .. MaxEntries : /\ id = A!CurrentEntry(s, m)
                                      /\ id = 0 => A!Entries(s, m) = {}
                                      /\ id # 0 => \E e \in rows : e.id = id /\ e.s = s
    BY CurrentEntryIsOne DEF SessionsInv, A!Entries, A!EntriesOf
  <1>2. CASE A!MarkLoad(r, s, m, mark)
    <2> DEFINE job == [A!Idle EXCEPT !.op = "mark", !.s = s, !.m = m, !.mark = mark, !.id = id]
    <2>1. A!Load(r, job) /\ A!Exists(s) /\ ~A!Held(s)
      BY <1>1, <1>2 DEF A!MarkLoad
    <2>2. job \in JobRows /\ job.op = "mark" /\ job.s = s /\ job.m = m /\ job.gone = {} /\ job.id = id
      BY <1>1, IdleJob DEF JobRows, Ops
    <2> HIDE DEF job
    <2> QED
      BY <1>1, <2>1, <2>2, ChangeLoadStep
  <1>3. CASE A!ClearLoad(r, s, m)
    <2> DEFINE job == [A!Idle EXCEPT !.op = "clear", !.s = s, !.gone = {id}]
    <2>1. A!Load(r, job) /\ A!Exists(s) /\ ~A!Held(s) /\ id # 0
      BY <1>1, <1>3 DEF A!ClearLoad
    <2>2. {id} \subseteq 1 .. MaxEntries
      BY <1>1, <2>1 DEF A!NumbersAssumption
    <2>3. job \in JobRows /\ job.op = "clear" /\ job.s = s /\ job.gone = {id} /\ job.id = 0
      BY <2>2, IdleJob DEF JobRows, Ops
    <2> HIDE DEF job
    <2> QED
      BY <1>1, <2>1, <2>3, ChangeLoadStep
  <1>4. CASE A!CorrectLoad(r, s, m, mark)
    <2> DEFINE job == [A!Idle EXCEPT !.op = "correct", !.s = s, !.m = m, !.mark = mark]
    <2>1. A!Load(r, job) /\ A!Exists(s)
      BY <1>4 DEF A!CorrectLoad, A!Held, A!Exists, A!Statuses, A!NEXT_STATUSES
    <2>2. job \in JobRows /\ job.op = "correct" /\ job.s = s /\ job.m = m /\ job.gone = {} /\ job.id = 0
      BY IdleJob DEF JobRows, Ops
    <2> HIDE DEF job
    <2> QED
      BY <2>1, <2>2, ChangeLoadStep
  <1> QED
    BY <1>2, <1>3, <1>4

(* A request that ends has its session's others know that it came between. *)
LEMMA Finishes ==
    ASSUME A!NumbersAssumption, Tables, NEW r \in Requests, A!Finish(r)
    PROVE  /\ jobs' \in [Requests -> JobRows] /\ jobs'[r] = A!Idle
           /\ left' = left /\ late' = (late \/ ~jobs[r].fresh)
           /\ \A q \in Requests :
                \/ jobs'[q] = A!Idle
                \/ q # r /\ jobs[q].s # jobs[r].s /\ jobs'[q] = jobs[q]
                \/ q # r /\ jobs[q].s = jobs[r].s /\ jobs'[q] = [jobs[q] EXCEPT !.fresh = FALSE]
  <1>1. \A q \in Requests : jobs[q] \in JobRows /\ [jobs[q] EXCEPT !.fresh = FALSE] \in JobRows
    BY DEF Tables, JobRows
  <1> QED
    BY <1>1, IdleJob DEF A!Finish

(***************************************************************************)
(* A commit of r writes its session only, and rows of that.                *)
(***************************************************************************)
SameRow(d, e) == d.id = e.id /\ d.s = e.s /\ d.m = e.m /\ d.correction = e.correction
EnteredRow(r, e) == e.id = lastId + 1 /\ lastId' = lastId + 1 /\ e.s = jobs[r].s

Writes(r) ==
    /\ sess' \in [Sessions -> A!Row] /\ rows' \subseteq A!EntryRows /\ lastId' \in {lastId, lastId + 1} \cap 0 .. MaxEntries
    /\ \A s \in Sessions : s # jobs[r].s => sess'[s] = sess[s]
    /\ \A e \in rows' : (\E d \in rows : SameRow(d, e)) \/ EnteredRow(r, e)
    /\ \A d, e \in rows' : d.id = e.id => d = e

(* Other requests' jobs are good after a commit, or no longer fresh. *)
LEMMA JobsStay ==
    ASSUME A!NumbersAssumption, SessionsInv, NEW r \in Requests, A!Finish(r), Writes(r)
    PROVE  Tables' /\ IdsOnce' /\ CreatesAlone' /\ \A q \in Requests : Good(jobs[q])'
  <1>1. Tables'
    BY Finishes DEF SessionsInv, Tables, Writes
  <1>2. IdsOnce'
    <2>1. lastId \in Nat /\ lastId' \in Nat /\ lastId =< lastId'
      BY DEF SessionsInv, Tables, Writes, A!NumbersAssumption
    <2>2. \A d \in rows : d.id \in Nat /\ d.id =< lastId
      BY DEF SessionsInv, Tables, A!EntryRows, IdsOnce
    <2>3. ASSUME NEW e \in rows' PROVE e.id =< lastId'
      <3>1. CASE \E d \in rows : SameRow(d, e)
        BY <2>1, <2>2, <3>1 DEF SameRow
      <3>2. CASE EnteredRow(r, e)
        BY <2>1, <3>2 DEF EnteredRow
      <3> QED
        BY <2>3, <3>1, <3>2 DEF Writes
    <2> QED
      BY <2>3 DEF IdsOnce, Writes
  <1>3. A!Idle.op = "idle" /\ A!Idle.s = A!NoSession /\ A!Idle.gone = {} /\ A!Idle.id = 0
    BY IdleJob
  <1>4. CreatesAlone'
    <2>1. ASSUME NEW p \in Requests, NEW q \in Requests, jobs'[q].op = "create", jobs'[p].s = jobs'[q].s, p # q
          PROVE  FALSE
      <3>1. /\ jobs'[q] = jobs[q] \/ jobs'[q] = [jobs[q] EXCEPT !.fresh = FALSE]
            /\ jobs[q] \in JobRows
        BY <1>3, <2>1, Finishes DEF SessionsInv, Tables
      <3>2. jobs[q].op = "create" /\ jobs'[q].s = jobs[q].s
        BY <2>1, <3>1 DEF JobRows
      <3>3. jobs[q].s # A!NoSession
        BY <3>2 DEF SessionsInv, Good
      <3>4. jobs'[p] # A!Idle
        BY <1>3, <2>1, <3>2, <3>3
      <3>5. jobs'[p].s = jobs[p].s
        <4>1. jobs[p] \in JobRows
          BY DEF SessionsInv, Tables
        <4>2. jobs'[p] = jobs[p] \/ jobs'[p] = [jobs[p] EXCEPT !.fresh = FALSE]
          BY <3>4, Finishes DEF SessionsInv
        <4> QED
          BY <4>1, <4>2 DEF JobRows
      <3> QED
        BY <2>1, <3>2, <3>5 DEF SessionsInv, CreatesAlone
    <2> QED
      BY <2>1 DEF CreatesAlone
  <1>5. ASSUME NEW job \in JobRows, OwnRows(job) PROVE OwnRows(job)'
    <2>1. lastId \in Nat /\ lastId' \in Nat /\ lastId =< lastId'
      BY DEF SessionsInv, Tables, Writes, A!NumbersAssumption
    <2>2. job.id \in Nat /\ \A i \in job.gone : i \in Nat
      BY DEF JobRows
    <2>3. job.id =< lastId' /\ \A i \in job.gone : i =< lastId'
      BY <1>5, <2>1, <2>2 DEF OwnRows
    <2>4. ASSUME NEW e \in rows', e.id \in job.gone \/ e.id = job.id PROVE e.s = job.s
      <3>1. CASE \E d \in rows : SameRow(d, e)
        BY <1>5, <2>4, <3>1 DEF SameRow, OwnRows
      <3>2. CASE EnteredRow(r, e)
        BY <1>5, <2>1, <2>2, <2>4, <3>2 DEF EnteredRow, OwnRows
      <3> QED
        BY <2>4, <3>1, <3>2 DEF Writes
    <2> QED
      BY <2>3, <2>4 DEF OwnRows
  <1>6. ASSUME NEW q \in Requests PROVE Good(jobs[q])'
    <2>1. CASE jobs'[q] = A!Idle
      <3>1. \A e \in rows' : e.id # 0
        BY DEF Writes, A!EntryRows
      <3>2. 0 =< lastId'
        BY DEF SessionsInv, Tables, Writes, A!NumbersAssumption
      <3> QED
        BY <1>3, <2>1, <3>1, <3>2 DEF Good, OwnRows
    <2>2. PICK job \in JobRows : job = jobs[q] /\ Good(job)
      BY DEF SessionsInv, Tables
    <2>3. OwnRows(job)'
      BY <1>5, <2>2 DEF Good
    <2>4. CASE q # r /\ job.s # jobs[r].s /\ jobs'[q] = job
      <3>1. CASE job.op = "idle"
        BY <2>2, <2>3, <2>4, <3>1 DEF Good
      <3>2. CASE job.op # "idle"
        <4>1. job.s \in Sessions /\ sess'[job.s] = sess[job.s]
          BY <2>2, <2>4, <3>2 DEF Good, Writes
        <4>2. A!Exists(job.s)' <=> A!Exists(job.s)
          BY <4>1 DEF A!Exists
        <4>3. A!Held(job.s)' <=> A!Held(job.s)
          BY <4>1 DEF A!Held
        <4>4. A!Entries(job.s, job.m) = {} => A!Entries(job.s, job.m)' = {}
          BY <2>4 DEF Writes, SameRow, EnteredRow, A!Entries, A!EntriesOf
        <4> QED
          BY <2>2, <2>3, <2>4, <3>2, <4>1, <4>2, <4>3, <4>4 DEF Good
      <3> QED
        BY <3>1, <3>2
    <2>5. CASE q # r /\ job.s = jobs[r].s /\ jobs'[q] = [job EXCEPT !.fresh = FALSE]
      <3>1. /\ jobs'[q].op = job.op /\ jobs'[q].s = job.s /\ jobs'[q].to = job.to /\ jobs'[q].gone = job.gone
            /\ jobs'[q].id = job.id /\ jobs'[q].m = job.m /\ ~jobs'[q].fresh
        BY <2>2, <2>5 DEF JobRows
      <3>2. job.op # "create"
        BY <2>2, <2>5 DEF SessionsInv, CreatesAlone
      <3>3. OwnRows(jobs[q])'
        BY <2>3, <3>1 DEF OwnRows
      <3> QED
        BY <2>2, <3>1, <3>2, <3>3 DEF Good
    <2> QED
      BY <2>1, <2>2, <2>4, <2>5, Finishes DEF SessionsInv
  <1> QED
    BY <1>1, <1>2, <1>4, <1>6

(* Rows of other sessions are left alone, and a session as loaded is only  *)
(* changed before it is held, or corrected.                                *)
LeavesOthers(r) == {e \in rows' : e.s # jobs[r].s} = {e \in rows : e.s # jobs[r].s}
FirstMark(r) == \A e \in rows' : EnteredRow(r, e) /\ ~e.correction /\ jobs[r].fresh => A!Entries(jobs[r].s, e.m) = {}
NotHeld(r) == jobs[r].fresh /\ A!Held(jobs[r].s) =>
                 sess' = sess /\ rows \subseteq rows' /\ \A e \in rows' \ rows : e.correction

(* What any commit keeps that writes as its load allows. *)
LEMMA CommitStep ==
    ASSUME A!NumbersAssumption, SessionsInv, NEW r \in Requests, A!Finish(r), Writes(r), LeavesOthers(r), FirstMark(r), NotHeld(r),
           A!NumbersUnique', A!MarksOfSessions'
    PROVE  SessionsInv' /\ A!HeldStep
  <1>1. Tables' /\ IdsOnce' /\ CreatesAlone' /\ \A q \in Requests : Good(jobs[q])'
    BY JobsStay
  <1>2. jobs'[r] = A!Idle /\ late' = (late \/ ~jobs[r].fresh)
    BY Finishes DEF SessionsInv
  <1>3. A!OneMarkEach'
    <2>1. ASSUME ~late', NEW d \in rows', NEW e \in rows', d.s = e.s, d.m = e.m, ~d.correction, ~e.correction
          PROVE  d = e
      <3>1. ~late /\ jobs[r].fresh
        BY <1>2, <2>1
      <3>2. ASSUME NEW f \in rows', EnteredRow(r, f), ~f.correction, NEW g \in rows, g.s = f.s, g.m = f.m PROVE FALSE
        <4>1. A!Entries(jobs[r].s, f.m) = {}
          BY <3>1, <3>2 DEF FirstMark
        <4> QED
          BY <3>2, <4>1 DEF A!Entries, A!EntriesOf, EnteredRow
      <3>3. CASE (\E c \in rows : SameRow(c, d)) /\ \E c \in rows : SameRow(c, e)
        <4>1. PICK c \in rows : SameRow(c, d)
          BY <3>3
        <4>2. PICK f \in rows : SameRow(f, e)
          BY <3>3
        <4>3. c = f
          BY <2>1, <3>1, <4>1, <4>2 DEF SameRow, SessionsInv, A!OneMarkEach
        <4> QED
          BY <4>1, <4>2, <4>3 DEF SameRow, Writes
      <3>4. CASE EnteredRow(r, d) /\ \E c \in rows : SameRow(c, e)
        BY <2>1, <3>2, <3>4 DEF SameRow
      <3>5. CASE EnteredRow(r, e) /\ \E c \in rows : SameRow(c, d)
        BY <2>1, <3>2, <3>5 DEF SameRow
      <3>6. CASE EnteredRow(r, d) /\ EnteredRow(r, e)
        BY <3>6 DEF EnteredRow, Writes
      <3> QED
        BY <3>3, <3>4, <3>5, <3>6 DEF Writes
    <2> QED
      BY <2>1 DEF A!OneMarkEach
  <1>4. A!HeldStep
    <2>1. ASSUME NEW s \in Sessions, A!Held(s), s # jobs[r].s
          PROVE  sess'[s] = sess[s] /\ A!EntriesOf(s)' = A!EntriesOf(s)
      BY <2>1 DEF Writes, LeavesOthers, A!EntriesOf
    <2>2. ASSUME NEW s \in Sessions, A!Held(s), s = jobs[r].s, jobs[r].fresh
          PROVE  /\ sess'[s] = sess[s] /\ A!EntriesOf(s) \subseteq A!EntriesOf(s)'
                 /\ \A e \in A!EntriesOf(s)' \ A!EntriesOf(s) : e.correction
      BY <2>2 DEF NotHeld, A!EntriesOf
    <2>3. ASSUME NEW s \in Sessions, s = jobs[r].s, ~jobs[r].fresh
          PROVE  \E q \in Requests : jobs'[q] = A!Idle /\ jobs[q].s = s /\ ~jobs[q].fresh
      BY <1>2, <2>3
    <2> QED
      BY <2>1, <2>2, <2>3 DEF A!HeldStep
  <1> QED
    BY <1>1, <1>3, <1>4 DEF SessionsInv

(* The commits in turn, each of them such a commit. *)
LEMMA CreateCommitStep ==
    ASSUME A!NumbersAssumption, SessionsInv, NEW r \in Requests, A!CreateCommit(r)
    PROVE  SessionsInv' /\ A!HeldStep
  <1>1. PICK job \in JobRows : job = jobs[r] /\ Good(job) /\ job.op = "create"
    BY DEF SessionsInv, Tables, A!CreateCommit
  <1>2. /\ job.s \in Sessions /\ ~A!Exists(job.s) /\ job.to \in A!Row /\ job.to.status = "Draft"
        /\ sess \in [Sessions -> A!Row] /\ sess' = [sess EXCEPT ![job.s] = job.to]
        /\ ~A!Clash(job.s, job.to.number) /\ rows' = rows /\ lastId' = lastId /\ A!Finish(r)
    BY <1>1 DEF Good, A!CreateCommit, JobRows, SessionsInv, Tables
  <1>3. Writes(r)
    BY <1>1, <1>2 DEF Writes, SameRow, SessionsInv, Tables, IdsOnce, A!NumbersAssumption
  <1>4. LeavesOthers(r) /\ FirstMark(r) /\ NotHeld(r)
    <2>1. ~A!Held(job.s)
      BY <1>2 DEF A!Exists, A!Held, A!Statuses, A!NEXT_STATUSES
    <2>2. \A e \in rows : ~EnteredRow(r, e)
      BY <1>2 DEF EnteredRow, SessionsInv, Tables, A!NumbersAssumption
    <2> QED
      BY <1>1, <1>2, <2>1, <2>2 DEF LeavesOthers, FirstMark, NotHeld
  <1>5. \A t \in Sessions : A!Exists(t)' <=> A!Exists(t) \/ t = job.s
    BY <1>2 DEF A!Exists, A!Statuses, A!NEXT_STATUSES
  <1>6. A!NumbersUnique'
    BY <1>2, <1>5 DEF A!NumbersUnique, SessionsInv, A!Clash
  <1>7. A!MarksOfSessions'
    BY <1>2, <1>5 DEF A!MarksOfSessions, SessionsInv, Tables, A!EntryRows
  <1> QED
    BY <1>2, <1>3, <1>4, <1>6, <1>7, CommitStep

(* The columns of an update or a status step are written.                  *)
LEMMA WriteCommitStep ==
    ASSUME A!NumbersAssumption, SessionsInv, NEW r \in Requests, A!UpdateCommit(r) \/ A!StatusCommit(r)
    PROVE  SessionsInv' /\ A!HeldStep
  <1>1. PICK job \in JobRows : job = jobs[r] /\ Good(job) /\ job.op \in {"update", "status"}
    BY DEF SessionsInv, Tables, A!UpdateCommit, A!StatusCommit
  <1>2. PICK new \in A!Row : new = A!Written(sess[job.s], job.to)
    BY <1>1, WrittenRow DEF SessionsInv, Tables, Good, JobRows
  <1>3. /\ job.s \in Sessions /\ A!Exists(job.s) /\ sess \in [Sessions -> A!Row]
        /\ sess' = [sess EXCEPT ![job.s] = new] /\ lastId' = lastId /\ A!Finish(r)
        /\ rows' = {e \in rows : e.id \notin job.gone}
        /\ job.to.number # 0 => ~A!Clash(job.s, job.to.number)
    BY <1>1, <1>2 DEF Good, A!UpdateCommit, A!StatusCommit, A!WriteSession, SessionsInv, Tables
  <1>4. /\ new.status \in A!Statuses
        /\ new.number = IF job.to.number = 0 THEN sess[job.s].number ELSE job.to.number
    <2>1. job.to \in A!Row /\ sess[job.s] \in A!Row
      BY <1>1, <1>3 DEF JobRows
    <2> QED
      BY <1>2, <1>3, <2>1, WrittenRow DEF A!Row, A!Exists
  <1>5. Writes(r)
    BY <1>1, <1>3 DEF Writes, SameRow, SessionsInv, Tables, IdsOnce, A!NumbersAssumption
  <1>6. LeavesOthers(r) /\ FirstMark(r) /\ NotHeld(r)
    <2>1. job.fresh => ~A!Held(job.s)
      BY <1>1 DEF Good
    <2>2. \A e \in rows : ~EnteredRow(r, e)
      BY <1>3 DEF EnteredRow, SessionsInv, Tables, A!NumbersAssumption
    <2>3. \A e \in rows : e.id \in job.gone => e.s = job.s
      BY <1>1 DEF Good, OwnRows
    <2> QED
      BY <1>1, <1>3, <2>1, <2>2, <2>3 DEF LeavesOthers, FirstMark, NotHeld
  <1>7. \A t \in Sessions : A!Exists(t)' <=> A!Exists(t)
    BY <1>3, <1>4 DEF A!Exists
  <1>8. A!NumbersUnique'
    <2>1. ASSUME NEW s \in Sessions, NEW t \in Sessions, A!Exists(s), A!Exists(t), sess'[s].number = sess'[t].number, s # t
          PROVE  FALSE
      <3>1. CASE job.to.number = 0
        BY <1>3, <1>4, <2>1, <3>1 DEF SessionsInv, A!NumbersUnique
      <3>2. CASE job.to.number # 0
        BY <1>3, <1>4, <2>1, <3>2 DEF SessionsInv, A!NumbersUnique, A!Clash
      <3> QED
        BY <3>1, <3>2
    <2> QED
      BY <1>7, <2>1 DEF A!NumbersUnique
  <1>9. A!MarksOfSessions'
    BY <1>3, <1>7 DEF A!MarksOfSessions, SessionsInv, Tables, A!EntryRows
  <1> QED
    BY <1>3, <1>5, <1>6, <1>8, <1>9, CommitStep

(* The deletion takes the marks of its session with it. *)
LEMMA DeleteCommitStep ==
    ASSUME A!NumbersAssumption, SessionsInv, NEW r \in Requests, A!DeleteCommit(r)
    PROVE  SessionsInv' /\ A!HeldStep
  <1>1. PICK job \in JobRows : job = jobs[r] /\ Good(job) /\ job.op = "delete"
    BY DEF SessionsInv, Tables, A!DeleteCommit
  <1>2. /\ job.s \in Sessions /\ sess \in [Sessions -> A!Row] /\ A!NoRow \in A!Row
        /\ sess' = [sess EXCEPT ![job.s] = A!NoRow] /\ lastId' = lastId /\ A!Finish(r)
        /\ rows' = {e \in rows : e.s # job.s}
    BY <1>1 DEF Good, A!DeleteCommit, SessionsInv, Tables, A!NoRow, A!Row, A!NumbersAssumption
  <1>3. Writes(r)
    BY <1>1, <1>2 DEF Writes, SameRow, SessionsInv, Tables, IdsOnce, A!NumbersAssumption
  <1>4. LeavesOthers(r) /\ FirstMark(r) /\ NotHeld(r)
    <2>1. job.fresh => ~A!Held(job.s)
      BY <1>1 DEF Good
    <2>2. \A e \in rows : ~EnteredRow(r, e)
      BY <1>2 DEF EnteredRow, SessionsInv, Tables, A!NumbersAssumption
    <2> QED
      BY <1>1, <1>2, <2>1, <2>2 DEF LeavesOthers, FirstMark, NotHeld
  <1>5. \A t \in Sessions : A!Exists(t)' <=> A!Exists(t) /\ t # job.s
    BY <1>2 DEF A!Exists, A!Statuses, A!NEXT_STATUSES, A!NoRow
  <1>6. A!NumbersUnique'
    BY <1>2, <1>5 DEF A!NumbersUnique, SessionsInv
  <1>7. A!MarksOfSessions'
    BY <1>2, <1>5 DEF A!MarksOfSessions, SessionsInv, Tables, A!EntryRows
  <1> QED
    BY <1>2, <1>3, <1>4, <1>6, <1>7, CommitStep

(* A cleared mark is of the session loaded. *)
LEMMA ClearCommitStep ==
    ASSUME A!NumbersAssumption, SessionsInv, NEW r \in Requests, A!ClearCommit(r)
    PROVE  SessionsInv' /\ A!HeldStep
  <1>1. PICK job \in JobRows : job = jobs[r] /\ Good(job) /\ job.op = "clear"
    BY DEF SessionsInv, Tables, A!ClearCommit
  <1>2. /\ sess' = sess /\ lastId' = lastId /\ A!Finish(r)
        /\ rows' = {e \in rows : e.id \notin job.gone}
    BY <1>1 DEF A!ClearCommit
  <1>3. Writes(r)
    BY <1>1, <1>2 DEF Writes, SameRow, SessionsInv, Tables, IdsOnce, A!NumbersAssumption
  <1>4. LeavesOthers(r) /\ FirstMark(r) /\ NotHeld(r)
    <2>1. job.fresh => ~A!Held(job.s)
      BY <1>1 DEF Good
    <2>2. \A e \in rows : ~EnteredRow(r, e)
      BY <1>2 DEF EnteredRow, SessionsInv, Tables, A!NumbersAssumption
    <2>3. \A e \in rows : e.id \in job.gone => e.s = job.s
      BY <1>1 DEF Good, OwnRows
    <2> QED
      BY <1>1, <1>2, <2>1, <2>2, <2>3 DEF LeavesOthers, FirstMark, NotHeld
  <1>5. A!NumbersUnique' /\ A!MarksOfSessions'
    BY <1>2 DEF A!NumbersUnique, A!MarksOfSessions, A!Exists, SessionsInv
  <1> QED
    BY <1>2, <1>3, <1>4, <1>5, CommitStep

(* A row is entered: the first mark of a member, or a correction.          *)
LEMMA EnterStep ==
    ASSUME A!NumbersAssumption, SessionsInv, NEW r \in Requests, NEW job \in JobRows, job = jobs[r], Good(job),
           NEW correction \in BOOLEAN, A!Enter(r, correction), A!Finish(r), sess' = sess,
           \/ correction /\ job.op = "correct"
           \/ ~correction /\ job.op = "mark" /\ job.id = 0
    PROVE  SessionsInv' /\ A!HeldStep
  <1> DEFINE new == [id |-> lastId + 1, s |-> job.s, m |-> job.m, mark |-> job.mark, correction |-> correction]
  <1>1. lastId' = lastId + 1 /\ rows' = rows \cup {new} /\ A!Exists(job.s) /\ lastId < MaxEntries
    BY DEF A!Enter
  <1>2. lastId \in Nat /\ rows \subseteq A!EntryRows /\ sess \in [Sessions -> A!Row]
    BY DEF SessionsInv, Tables, A!NumbersAssumption
  <1>3. new \in A!EntryRows
    <2>1. lastId + 1 \in 1 .. MaxEntries
      BY <1>1, <1>2 DEF A!NumbersAssumption
    <2>2. job.s \in Sessions /\ job.m \in Members /\ job.mark \in A!Marks
      BY DEF Good, JobRows
    <2> QED
      BY <2>1, <2>2 DEF A!EntryRows
  <1>4. new.id = lastId + 1 /\ new.s = job.s /\ new.m = job.m /\ new.correction = correction
    OBVIOUS
  <1> HIDE DEF new
  <1>5. \A e \in rows : e.id \in Nat /\ e.id =< lastId
    BY <1>2 DEF A!EntryRows, SessionsInv, IdsOnce
  <1>6. Writes(r)
    <2>1. lastId' \in 0 .. MaxEntries
      BY <1>1, <1>2 DEF A!NumbersAssumption
    <2>2. ASSUME NEW d \in rows', NEW e \in rows', d.id = e.id PROVE d = e
      <3>1. CASE d \in rows /\ e \in rows
        BY <2>2, <3>1 DEF SessionsInv, IdsOnce
      <3>2. CASE d = new \/ e = new
        BY <1>1, <1>2, <1>4, <1>5, <2>2, <3>2
      <3> QED
        BY <1>1, <3>1, <3>2
    <2>3. \A e \in rows' : (\E d \in rows : SameRow(d, e)) \/ EnteredRow(r, e)
      BY <1>1, <1>4 DEF SameRow, EnteredRow
    <2> QED
      BY <1>1, <1>2, <1>3, <2>1, <2>2, <2>3 DEF Writes
  <1>7. FirstMark(r)
    <2>1. ASSUME NEW e \in rows', EnteredRow(r, e), ~e.correction, job.fresh PROVE A!Entries(job.s, e.m) = {}
      <3>1. e = new
        BY <1>1, <1>2, <1>5, <2>1 DEF EnteredRow
      <3>2. job.op = "mark" /\ job.id = 0 /\ e.m = job.m
        BY <1>4, <2>1, <3>1
      <3> QED
        BY <2>1, <3>2 DEF Good
    <2> QED
      BY <2>1 DEF FirstMark
  <1>8. LeavesOthers(r)
    BY <1>1, <1>4 DEF LeavesOthers
  <1>9. NotHeld(r)
    <2>1. CASE correction
      BY <1>1, <1>4, <2>1 DEF NotHeld
    <2>2. CASE ~correction
      BY <2>2 DEF NotHeld, Good
    <2> QED
      BY <2>1, <2>2
  <1>10. A!NumbersUnique' /\ A!MarksOfSessions'
    BY <1>1, <1>4 DEF A!NumbersUnique, A!MarksOfSessions, A!Exists, SessionsInv
  <1> QED
    BY <1>6, <1>7, <1>8, <1>9, <1>10, CommitStep

(* A mark is set over the row found, or entered where none was. *)
LEMMA MarkCommitStep ==
    ASSUME A!NumbersAssumption, SessionsInv, NEW r \in Requests, A!MarkCommit(r)
    PROVE  SessionsInv' /\ A!HeldStep
  <1>1. PICK job \in JobRows : job = jobs[r] /\ Good(job) /\ job.op = "mark"
    BY DEF SessionsInv, Tables, A!MarkCommit
  <1>2. A!Finish(r) /\ sess' = sess
    BY DEF A!MarkCommit
  <1>3. CASE job.id = 0 /\ A!Enter(r, FALSE)
    BY <1>1, <1>2, <1>3, EnterStep
  <1>4. CASE /\ rows' = {IF e.id = job.id THEN [e EXCEPT !.mark = job.mark] ELSE e : e \in rows}
             /\ lastId' = lastId
    <2> DEFINE Marked(e) == IF e.id = job.id THEN [e EXCEPT !.mark = job.mark] ELSE e
    <2>1. rows \subseteq A!EntryRows /\ sess \in [Sessions -> A!Row] /\ lastId \in Nat
      BY DEF SessionsInv, Tables, A!NumbersAssumption
    <2>2. ASSUME NEW e \in rows
          PROVE  /\ Marked(e) \in A!EntryRows /\ SameRow(e, Marked(e)) /\ Marked(e).id = e.id /\ Marked(e).s = e.s
                 /\ Marked(e) # e => e.id = job.id
      <3>1. e \in A!EntryRows
        BY <2>1
      <3> QED
        BY <3>1 DEF A!EntryRows, SameRow, JobRows
    <2>3. rows' = {Marked(e) : e \in rows}
      BY <1>4
    <2> HIDE DEF Marked
    <2>4. Writes(r)
      <3>1. lastId' \in 0 .. MaxEntries
        BY <1>4 DEF SessionsInv, Tables
      <3>2. ASSUME NEW d \in rows', NEW e \in rows', d.id = e.id PROVE d = e
        <4>1. PICK c \in rows, f \in rows : d = Marked(c) /\ e = Marked(f)
          BY <2>3
        <4>2. c = f
          BY <2>2, <3>2, <4>1 DEF SessionsInv, IdsOnce
        <4> QED
          BY <4>1, <4>2
      <3> QED
        BY <1>2, <1>4, <2>1, <2>2, <2>3, <3>1, <3>2 DEF Writes
    <2>5. LeavesOthers(r)
      <3>1. \A e \in rows : e.s # job.s => Marked(e) = e
        BY <1>1, <2>2 DEF Good, OwnRows
      <3> QED
        BY <1>1, <2>2, <2>3, <3>1 DEF LeavesOthers
    <2>6. FirstMark(r) /\ NotHeld(r)
      BY <1>1, <1>4, <2>1 DEF FirstMark, EnteredRow, NotHeld, Good
    <2>7. A!NumbersUnique' /\ A!MarksOfSessions'
      BY <1>2, <2>2, <2>3 DEF A!NumbersUnique, A!MarksOfSessions, A!Exists, SessionsInv
    <2> QED
      BY <1>2, <2>4, <2>5, <2>6, <2>7, CommitStep
  <1> QED
    BY <1>1, <1>3, <1>4 DEF A!MarkCommit

(* A correction is entered beside what it corrects. *)
LEMMA CorrectCommitStep ==
    ASSUME A!NumbersAssumption, SessionsInv, NEW r \in Requests, A!CorrectCommit(r)
    PROVE  SessionsInv' /\ A!HeldStep
  <1>1. PICK job \in JobRows : job = jobs[r] /\ Good(job) /\ job.op = "correct"
    BY DEF SessionsInv, Tables, A!CorrectCommit
  <1> QED
    BY <1>1, EnterStep DEF A!CorrectCommit

(* A request that fails, and a member who leaves, write none of the rows.  *)
LEMMA OtherSteps ==
    ASSUME A!NumbersAssumption, SessionsInv,
           \/ \E r \in Requests : A!Fail(r)
           \/ \E m \in Members, day \in Leaving \cup {A!Stays} : A!Leave(m, day)
    PROVE  SessionsInv' /\ A!HeldStep
  <1>1. sess' = sess /\ rows' = rows /\ lastId' = lastId /\ late' = late
    BY DEF A!Fail, A!Leave
  <1>2. left' \in [Members -> Days \cup {A!Stays}]
    BY DEF A!Fail, A!Leave, SessionsInv, Tables, A!NumbersAssumption
  <1>3. jobs' \in [Requests -> JobRows] /\ \A q \in Requests : jobs'[q] = jobs[q] \/ jobs'[q] = A!Idle
    BY IdleJob DEF A!Fail, A!Leave, SessionsInv, Tables
  <1>4. Tables' /\ IdsOnce' /\ A!NumbersUnique' /\ A!OneMarkEach' /\ A!MarksOfSessions'
    BY <1>1, <1>2, <1>3 DEF SessionsInv, Tables, IdsOnce, A!NumbersUnique, A!OneMarkEach, A!MarksOfSessions, A!Exists
  <1>5. A!Idle.op = "idle" /\ A!Idle.s = A!NoSession /\ A!Idle.gone = {} /\ A!Idle.id = 0
    BY IdleJob
  <1>6. CreatesAlone'
    <2>1. ASSUME NEW p \in Requests, NEW q \in Requests, jobs'[q].op = "create", jobs'[p].s = jobs'[q].s PROVE p = q
      <3>1. jobs'[q] = jobs[q] /\ jobs[q].s # A!NoSession
        BY <1>3, <1>5, <2>1 DEF SessionsInv, Good
      <3>2. jobs'[p] = jobs[p]
        BY <1>3, <1>5, <2>1, <3>1
      <3> QED
        BY <2>1, <3>1, <3>2 DEF SessionsInv, CreatesAlone
    <2> QED
      BY <2>1 DEF CreatesAlone
  <1>7. ASSUME NEW q \in Requests PROVE Good(jobs[q])'
    <2>1. CASE jobs'[q] = jobs[q]
      <3>1. Good(jobs[q])
        BY DEF SessionsInv
      <3> QED
        BY <1>1, <2>1, <3>1 DEF Good, OwnRows, A!Exists, A!Held, A!Entries, A!EntriesOf
    <2>2. CASE jobs'[q] = A!Idle
      <3>1. 0 =< lastId' /\ \A e \in rows' : e.id # 0
        BY <1>1 DEF SessionsInv, Tables, A!EntryRows, A!NumbersAssumption
      <3> QED
        BY <1>5, <2>2, <3>1 DEF Good, OwnRows
    <2> QED
      BY <1>3, <2>1, <2>2
  <1>8. A!HeldStep
    BY <1>1 DEF A!HeldStep, A!EntriesOf
  <1> QED
    BY <1>4, <1>6, <1>7, <1>8 DEF SessionsInv

-----------------------------------------------------------------------------
(* The invariant holds at first, and every step keeps it. *)
LEMMA SessionsInit == A!NumbersAssumption /\ A!Init => SessionsInv
  <1> SUFFICES ASSUME A!NumbersAssumption, A!Init PROVE SessionsInv
    OBVIOUS
  <1>1. A!Idle \in JobRows /\ A!Idle.op = "idle" /\ A!Idle.s = A!NoSession /\ A!Idle.gone = {} /\ A!Idle.id = 0
    BY IdleJob
  <1>2. jobs = [r \in Requests |-> A!Idle] /\ rows = {} /\ lastId = 0 /\ late = FALSE
    BY DEF A!Init
  <1>3. sess = [s \in Sessions |-> A!NoRow] /\ left = [m \in Members |-> A!Stays] /\ A!NoRow \in A!Row
    BY DEF A!Init, A!NoRow, A!Row, A!NumbersAssumption
  <1>4. Tables
    <2>1. jobs \in [Requests -> JobRows] /\ sess \in [Sessions -> A!Row]
      BY <1>1, <1>2, <1>3
    <2>2. left \in [Members -> Days \cup {A!Stays}]
      BY <1>3
    <2>3. late \in BOOLEAN
      BY <1>2
    <2>4. rows \subseteq A!EntryRows /\ lastId \in 0 .. MaxEntries
      BY <1>2 DEF A!NumbersAssumption
    <2> QED
      BY <2>1, <2>2, <2>3, <2>4 DEF Tables
  <1>5. \A r \in Requests : Good(jobs[r])
    BY <1>1, <1>2 DEF Good, OwnRows
  <1>6. \A s \in Sessions : ~A!Exists(s)
    BY <1>3 DEF A!Exists, A!NoRow, A!Statuses, A!NEXT_STATUSES
  <1>7. IdsOnce /\ CreatesAlone /\ A!NumbersUnique /\ A!OneMarkEach /\ A!MarksOfSessions
    BY <1>1, <1>2, <1>6 DEF IdsOnce, CreatesAlone, A!NumbersUnique, A!OneMarkEach, A!MarksOfSessions
  <1> QED
    BY <1>4, <1>5, <1>7 DEF SessionsInv

(* No step takes from a held session what it may not. *)
LEMMA SessionsNext == A!NumbersAssumption /\ SessionsInv /\ [A!Next]_A!vars => SessionsInv' /\ [A!HeldStep]_A!vars
  <1> SUFFICES ASSUME A!NumbersAssumption, SessionsInv, [A!Next]_A!vars PROVE SessionsInv' /\ [A!HeldStep]_A!vars
    OBVIOUS
  <1>1. ASSUME NEW r \in Requests, NEW s \in Sessions, NEW n \in 0 .. MaxNumber, NEW day \in Days,
               A!CreateLoad(r, s, n, day) \/ (n > 0 /\ A!UpdateLoad(r, s, n, day))
        PROVE  SessionsInv' /\ A!HeldStep
    <2>1. CASE A!CreateLoad(r, s, n, day)
      BY <2>1, CreateLoadStep
    <2>2. CASE n > 0 /\ A!UpdateLoad(r, s, n, day)
      <3>1. n \in 1 .. MaxNumber
        BY <2>2 DEF A!NumbersAssumption
      <3> QED
        BY <2>2, <3>1, UpdateLoadStep
    <2> QED
      BY <1>1, <2>1, <2>2
  <1>2. ASSUME NEW r \in Requests, NEW s \in Sessions, NEW status \in A!Statuses, A!StatusLoad(r, s, status)
        PROVE  SessionsInv' /\ A!HeldStep
    BY <1>2, StatusLoadStep
  <1>3. ASSUME NEW r \in Requests, NEW s \in Sessions, A!DeleteLoad(r, s)
        PROVE  SessionsInv' /\ A!HeldStep
    BY <1>3, DeleteLoadStep
  <1>4. ASSUME NEW r \in Requests, NEW s \in Sessions, NEW m \in Members, NEW mark \in A!Marks,
               A!MarkLoad(r, s, m, mark) \/ A!ClearLoad(r, s, m) \/ A!CorrectLoad(r, s, m, mark)
        PROVE  SessionsInv' /\ A!HeldStep
    BY <1>4, AttendanceLoadStep
  <1>5. ASSUME NEW r \in Requests, NEW s \in Sessions, NEW m \in Members, A!ClearLoad(r, s, m)
        PROVE  SessionsInv' /\ A!HeldStep
    <2>1. "Absent" \in A!Marks
      BY DEF A!Marks
    <2> QED
      BY <1>5, <2>1, AttendanceLoadStep
  <1>6. ASSUME NEW r \in Requests,
               \/ A!CreateCommit(r) \/ A!UpdateCommit(r) \/ A!StatusCommit(r) \/ A!DeleteCommit(r)
               \/ A!MarkCommit(r) \/ A!ClearCommit(r) \/ A!CorrectCommit(r) \/ A!Fail(r)
        PROVE  SessionsInv' /\ A!HeldStep
    BY <1>6, CreateCommitStep, WriteCommitStep, DeleteCommitStep, MarkCommitStep, ClearCommitStep,
       CorrectCommitStep, OtherSteps
  <1>7. ASSUME NEW m \in Members, NEW day \in Leaving \cup {A!Stays}, A!Leave(m, day)
        PROVE  SessionsInv' /\ A!HeldStep
    BY <1>7, OtherSteps
  <1>8. CASE UNCHANGED A!vars
    BY <1>8 DEF A!vars, SessionsInv, Tables, IdsOnce, CreatesAlone, Good, OwnRows, A!NumbersUnique, A!OneMarkEach,
                A!MarksOfSessions, A!Exists, A!Held, A!Entries, A!EntriesOf
  <1> QED
    BY <1>1, <1>2, <1>3, <1>4, <1>5, <1>6, <1>7, <1>8 DEF A!Next

(* What the proof follows from state to state.                             *)
THEOREM SessionsInvariance == A!Spec => []SessionsInv
  <1>1. A!Init => SessionsInv
    BY SessionsInit, Instances
  <1>2. SessionsInv /\ [A!Next]_A!vars => SessionsInv'
    BY SessionsNext, Instances
  <1> QED
    BY <1>1, <1>2, PTL DEF A!Spec

(* Sessions have numbers of their own, members one mark in each unless     *)
(* requests overtook each other, and every mark is of a session that is    *)
(* there (council_sessions.py create_session, update_session,              *)
(* record_attendance, delete_session).                                     *)
THEOREM SessionsRecorded == A!Spec => []A!SessionsAreRecorded
  <1>1. SessionsInv => A!SessionsAreRecorded
    BY DEF SessionsInv, Tables, JobRows, Ops, A!SessionsAreRecorded, A!TypeOK
  <1> QED
    BY <1>1, SessionsInvariance, PTL

(* Number, date and marks of a held session stay, but for corrections and  *)
(* the writes of a request that another one overtook (council_sessions.py  *)
(* update_session, record_attendance, delete_session; docs/adr/0003).      *)
THEOREM HeldSessionsStay == A!Spec => A!HeldStays
  <1>1. SessionsInv /\ [A!Next]_A!vars => [A!HeldStep]_A!vars
    BY SessionsNext, Instances
  <1> QED
    BY <1>1, SessionsInvariance, PTL DEF A!Spec, A!HeldStays

-----------------------------------------------------------------------------
(***************************************************************************)
(* The council.  While nobody overtook a request, what it checked of the   *)
(* other rows, and its copy of the row it writes, still stand.             *)
(***************************************************************************)
TermRows == [starts : Days \cup {0}, ends : Days \cup {0}]
Fields == {"term", "position", "account", "left"}
MemberRows == [term : Terms \cup {C!NoOne}, position : C!POSITIONS, account : Accounts \cup {C!NoOne}, left : Days \cup {0}]
CouncilJobs == [op : {"idle", "term", "member", "committee"}, id : Terms \cup Members \cup Committees \cup {C!NoOne},
                term : TermRows, member : MemberRows, chair : Members \cup {C!NoOne}, columns : SUBSET Fields,
                fresh : BOOLEAN]

(* What a request of each kind found. *)
TermChecked(job) == job.op = "term" => job.id \in Terms /\ (job.fresh => C!CheckTermDates(job.id, job.term))
MemberChecked(job) == job.op = "member" =>
    /\ job.id \in Members
    /\ job.fresh => /\ C!IsActiveMember(job.member) => C!CheckMember(job.id, job.member)
                    /\ \A f \in Fields \ job.columns : members[job.id][f] = job.member[f]
ChairChecked(job) == job.op = "committee" =>
    /\ job.id \in Committees
    /\ job.fresh /\ job.chair \in Members /\ job.chair # committees[job.id] =>
           C!MemberExists(job.chair) /\ C!IsActiveMember(members[job.chair])
CouncilChecked(job) == TermChecked(job) /\ MemberChecked(job) /\ ChairChecked(job)

CouncilInv ==
    /\ C!TypeOK /\ jobs \in [Requests -> CouncilJobs]
    /\ \A r \in Requests : CouncilChecked(jobs[r])
    /\ C!TermsApart /\ C!SeatsHeldOnce

(* A slot with no request is a job like any other. *)
LEMMA IdleOfCouncil == C!Idle \in CouncilJobs /\ C!Idle.op = "idle"
  BY DEF C!Idle, C!NoTerm, C!NoMember, CouncilJobs, TermRows, MemberRows, C!POSITIONS, C!NoOne

(* One more request is under way. *)
LEMMA CouncilLoads ==
    ASSUME CouncilInv, NEW r \in Requests, NEW job \in CouncilJobs, C!Load(r, job), CouncilChecked(job)
    PROVE  CouncilInv' /\ C!ChairStep
  <1>1. /\ jobs' = [jobs EXCEPT ![r] = job] /\ jobs \in [Requests -> CouncilJobs]
        /\ today' = today /\ terms' = terms /\ members' = members /\ committees' = committees /\ late' = late
    BY DEF C!Load, CouncilInv
  <1>2. C!TypeOK' /\ jobs' \in [Requests -> CouncilJobs]
    BY <1>1 DEF CouncilInv, C!TypeOK
  <1>3. ASSUME NEW q \in Requests PROVE CouncilChecked(jobs[q])'
    <2>1. CouncilChecked(jobs'[q])
      BY <1>1 DEF CouncilInv
    <2> QED
      BY <1>1, <2>1 DEF CouncilChecked, TermChecked, MemberChecked, ChairChecked, C!CheckTermDates, C!CheckMember,
                        C!MemberExists, C!IsActiveMember, C!TermExists
  <1>4. C!TermsApart' /\ C!SeatsHeldOnce'
    BY <1>1 DEF CouncilInv, C!TermsApart, C!SeatsHeldOnce, C!TermExists, C!MemberExists, C!IsActiveMember
  <1>5. C!ChairStep
    BY <1>1 DEF C!ChairStep
  <1> QED
    BY <1>2, <1>3, <1>4, <1>5 DEF CouncilInv

(* A term is loaded with its dates checked. *)
LEMMA TermLoadStep ==
    ASSUME CouncilInv, NEW r \in Requests, NEW t \in Terms, NEW first \in Days, NEW last \in Days,
           C!TermLoad(r, t, first, last)
    PROVE  CouncilInv' /\ C!ChairStep
  <1> DEFINE new == [starts |-> first, ends |-> last]
             job == [C!Idle EXCEPT !.op = "term", !.id = t, !.term = new]
  <1>1. C!Load(r, job) /\ C!CheckTermDates(t, new)
    BY DEF C!TermLoad
  <1>2. job \in CouncilJobs /\ job.op = "term" /\ job.id = t /\ job.term = new
    BY IdleOfCouncil DEF CouncilJobs, TermRows
  <1> HIDE DEF job
  <1>3. CouncilChecked(job)
    BY <1>1, <1>2 DEF CouncilChecked, TermChecked, MemberChecked, ChairChecked
  <1> QED
    BY <1>1, <1>2, <1>3, CouncilLoads

(* A member is loaded with seat and account checked. *)
LEMMA MemberLoads ==
    ASSUME CouncilInv, NEW r \in Requests, NEW m \in Members, NEW new \in MemberRows, NEW columns \in SUBSET Fields,
           C!Load(r, [C!Idle EXCEPT !.op = "member", !.id = m, !.member = new, !.columns = columns]),
           C!IsActiveMember(new) => C!CheckMember(m, new),
           \A f \in Fields \ columns : members[m][f] = new[f]
    PROVE  CouncilInv' /\ C!ChairStep
  <1> DEFINE job == [C!Idle EXCEPT !.op = "member", !.id = m, !.member = new, !.columns = columns]
  <1>1. job \in CouncilJobs /\ job.op = "member" /\ job.id = m /\ job.member = new /\ job.columns = columns
    BY IdleOfCouncil DEF CouncilJobs
  <1>2. C!Load(r, job)
    OBVIOUS
  <1> HIDE DEF job
  <1>3. CouncilChecked(job)
    BY <1>1 DEF CouncilChecked, TermChecked, MemberChecked, ChairChecked
  <1> QED
    BY <1>1, <1>2, <1>3, CouncilLoads

(* The two requests that load one: a new member, *)
LEMMA AddMemberStep ==
    ASSUME CouncilInv, NEW r \in Requests, NEW m \in Members, NEW t \in Terms, NEW position \in C!POSITIONS,
           NEW holder \in Accounts \cup {C!NoOne}, C!AddMemberLoad(r, m, t, position, holder)
    PROVE  CouncilInv' /\ C!ChairStep
  <1> DEFINE new == [term |-> t, position |-> position, account |-> holder, left |-> 0]
  <1>1. /\ C!Load(r, [C!Idle EXCEPT !.op = "member", !.id = m, !.member = new, !.columns = DOMAIN new])
        /\ C!CheckMember(m, new)
    BY DEF C!AddMemberLoad
  <1>2. new \in MemberRows /\ DOMAIN new = Fields
    BY DEF MemberRows, Fields
  <1> HIDE DEF new
  <1> QED
    BY <1>1, <1>2, MemberLoads

(* and a change of one. *)
LEMMA UpdateMemberStep ==
    ASSUME CouncilInv, NEW r \in Requests, NEW m \in Members, NEW position \in C!POSITIONS,
           NEW holder \in Accounts \cup {C!NoOne}, NEW off \in Days \cup {0},
           C!UpdateMemberLoad(r, m, position, holder, off)
    PROVE  CouncilInv' /\ C!ChairStep
  <1> DEFINE new == [term |-> members[m].term, position |-> position, account |-> holder, left |-> off]
             columns == C!Columns(members[m], new)
  <1>1. /\ C!Load(r, [C!Idle EXCEPT !.op = "member", !.id = m, !.member = new, !.columns = columns])
        /\ C!IsActiveMember(new) => C!CheckMember(m, new)
    BY DEF C!UpdateMemberLoad
  <1>2. new \in MemberRows /\ DOMAIN new = Fields
    BY DEF CouncilInv, C!TypeOK, MemberRows, Fields
  <1>3. columns \in SUBSET Fields /\ \A f \in Fields \ columns : members[m][f] = new[f]
    BY <1>2 DEF C!Columns
  <1> HIDE DEF new, columns
  <1> QED
    BY <1>1, <1>2, <1>3, MemberLoads

(* A chair is looked up among the members in office. *)
LEMMA CommitteeLoadStep ==
    ASSUME CouncilInv, NEW r \in Requests, NEW c \in Committees, NEW chair \in Members \cup {C!NoOne},
           C!CommitteeLoad(r, c, chair)
    PROVE  CouncilInv' /\ C!ChairStep
  <1> DEFINE job == [C!Idle EXCEPT !.op = "committee", !.id = c, !.chair = chair]
  <1>1. /\ C!Load(r, job)
        /\ chair \in Members /\ chair # committees[c] => C!MemberExists(chair) /\ C!IsActiveMember(members[chair])
    BY DEF C!CommitteeLoad
  <1>2. job \in CouncilJobs /\ job.op = "committee" /\ job.id = c /\ job.chair = chair
    BY IdleOfCouncil DEF CouncilJobs
  <1> HIDE DEF job
  <1>3. CouncilChecked(job)
    BY <1>1, <1>2 DEF CouncilChecked, TermChecked, MemberChecked, ChairChecked
  <1> QED
    BY <1>1, <1>2, <1>3, CouncilLoads

(* A commit overtakes every other request. *)
LEMMA CouncilFinishes ==
    ASSUME CouncilInv, NEW r \in Requests, C!Finish(r)
    PROVE  /\ jobs' \in [Requests -> CouncilJobs] /\ jobs'[r] = C!Idle
           /\ late' = (late \/ ~jobs[r].fresh) /\ today' = today
           /\ \A q \in Requests : CouncilChecked(jobs[q])'
  <1>1. \A q \in Requests : jobs[q] \in CouncilJobs /\ [jobs[q] EXCEPT !.fresh = FALSE] \in CouncilJobs
    BY DEF CouncilInv, CouncilJobs
  <1>2. /\ jobs' \in [Requests -> CouncilJobs] /\ jobs'[r] = C!Idle
        /\ late' = (late \/ ~jobs[r].fresh) /\ today' = today
        /\ \A q \in Requests : jobs'[q] = C!Idle \/ jobs'[q] = [jobs[q] EXCEPT !.fresh = FALSE]
    BY <1>1, IdleOfCouncil DEF C!Finish
  <1>3. ASSUME NEW q \in Requests PROVE CouncilChecked(jobs[q])'
    <2>1. CASE jobs'[q] = C!Idle
      BY <2>1, IdleOfCouncil DEF CouncilChecked, TermChecked, MemberChecked, ChairChecked
    <2>2. CASE jobs'[q] = [jobs[q] EXCEPT !.fresh = FALSE]
      <3>1. PICK job \in CouncilJobs : job = jobs[q] /\ CouncilChecked(job)
        BY <1>1 DEF CouncilInv
      <3>2. jobs'[q].op = job.op /\ jobs'[q].id = job.id /\ ~jobs'[q].fresh
        BY <2>2, <3>1 DEF CouncilJobs
      <3> QED
        BY <3>1, <3>2 DEF CouncilChecked, TermChecked, MemberChecked, ChairChecked
    <2> QED
      BY <1>2, <2>1, <2>2
  <1> QED
    BY <1>2, <1>3

(* The commits: the terms stay apart while nobody was overtaken, *)
LEMMA TermCommitStep ==
    ASSUME CouncilInv, NEW r \in Requests, C!TermCommit(r)
    PROVE  CouncilInv' /\ C!ChairStep
  <1>1. PICK job \in CouncilJobs : job = jobs[r] /\ job.op = "term" /\ TermChecked(job)
    BY DEF CouncilInv, CouncilChecked, C!TermCommit
  <1>2. /\ job.id \in Terms /\ terms \in [Terms -> TermRows] /\ job.term \in TermRows
        /\ terms' = [terms EXCEPT ![job.id] = job.term]
        /\ members' = members /\ committees' = committees /\ C!Finish(r)
    BY <1>1 DEF TermChecked, C!TermCommit, CouncilInv, C!TypeOK, TermRows, CouncilJobs
  <1>3. /\ jobs' \in [Requests -> CouncilJobs] /\ today' = today /\ late' = (late \/ ~job.fresh)
        /\ \A q \in Requests : CouncilChecked(jobs[q])'
    BY <1>1, <1>2, CouncilFinishes
  <1>4. C!TypeOK'
    <2>1. terms' \in [Terms -> TermRows]
      BY <1>2
    <2>2. late' \in BOOLEAN
      BY <1>3
    <2> QED
      BY <1>2, <1>3, <2>1, <2>2 DEF CouncilInv, C!TypeOK, TermRows
  <1>5. C!TermsApart'
    <2>1. ASSUME ~late', NEW t \in Terms, NEW u \in Terms, C!TermExists(t)', C!TermExists(u)', t # u
          PROVE  ~C!Overlap(terms'[t], terms'[u])
      <3>1. ~late /\ C!CheckTermDates(job.id, job.term)
        BY <1>1, <1>3, <2>1 DEF TermChecked
      <3>2. CASE t = job.id
        BY <1>2, <2>1, <3>1, <3>2 DEF C!CheckTermDates, C!Overlap, C!TermExists
      <3>3. CASE u = job.id
        BY <1>2, <2>1, <3>1, <3>3 DEF C!CheckTermDates, C!Overlap, C!TermExists
      <3>4. CASE t # job.id /\ u # job.id
        BY <1>2, <2>1, <3>1, <3>4 DEF CouncilInv, C!TermsApart, C!TermExists
      <3> QED
        BY <3>2, <3>3, <3>4
    <2> QED
      BY <2>1 DEF C!TermsApart
  <1>6. C!SeatsHeldOnce'
    BY <1>2, <1>3 DEF CouncilInv, C!SeatsHeldOnce, C!MemberExists, C!IsActiveMember
  <1>7. C!ChairStep
    BY <1>2 DEF C!ChairStep
  <1> QED
    BY <1>3, <1>4, <1>5, <1>6, <1>7 DEF CouncilInv

(* seats and accounts are held once, *)
LEMMA MemberCommitStep ==
    ASSUME CouncilInv, NEW r \in Requests, C!MemberCommit(r)
    PROVE  CouncilInv' /\ C!ChairStep
  <1>1. PICK job \in CouncilJobs : job = jobs[r] /\ job.op = "member" /\ MemberChecked(job)
    BY DEF CouncilInv, CouncilChecked, C!MemberCommit
  <1>2. job.id \in Members /\ members \in [Members -> MemberRows] /\ job.member \in MemberRows /\ job.columns \subseteq Fields
    BY <1>1 DEF MemberChecked, CouncilInv, C!TypeOK, MemberRows, CouncilJobs
  <1> DEFINE row == [f \in DOMAIN members[job.id] |-> IF f \in job.columns THEN job.member[f] ELSE members[job.id][f]]
  <1>3. /\ members' = [members EXCEPT ![job.id] = row]
        /\ terms' = terms /\ committees' = committees /\ C!Finish(r)
    BY <1>1, <1>2 DEF C!MemberCommit
  <1>4. row \in MemberRows
    BY <1>2 DEF MemberRows, Fields
  <1>5. job.fresh => row = job.member
    BY <1>1, <1>2 DEF MemberChecked, MemberRows, Fields
  <1> HIDE DEF row
  <1>6. /\ jobs' \in [Requests -> CouncilJobs] /\ today' = today /\ late' = (late \/ ~job.fresh)
        /\ \A q \in Requests : CouncilChecked(jobs[q])'
    BY <1>1, <1>3, CouncilFinishes
  <1>7. C!TypeOK'
    <2>1. members' \in [Members -> MemberRows]
      BY <1>2, <1>3, <1>4
    <2>2. late' \in BOOLEAN
      BY <1>6
    <2> QED
      BY <1>3, <1>6, <2>1, <2>2 DEF CouncilInv, C!TypeOK, MemberRows
  <1>8. C!TermsApart'
    BY <1>3, <1>6 DEF CouncilInv, C!TermsApart, C!TermExists
  <1>9. C!SeatsHeldOnce'
    <2>1. ASSUME ~late', NEW m \in Members, NEW n \in Members, m # n, members'[m].term = members'[n].term,
                 C!IsActiveMember(members[m])', C!IsActiveMember(members[n])', C!MemberExists(m)'
          PROVE  /\ members'[m].position \in C!SINGLE_SEAT_POSITIONS => members'[n].position # members'[m].position
                 /\ members'[m].account # C!NoOne => members'[n].account # members'[m].account
      <3>1. ~late /\ job.fresh /\ row = job.member
        BY <1>5, <1>6, <2>1
      <3>2. /\ C!IsActiveMember(members'[m]) /\ C!IsActiveMember(members'[n])
        BY <1>6, <2>1 DEF C!IsActiveMember
      <3>3. CASE m = job.id
        <4>1. members'[m] = job.member /\ members'[n] = members[n] /\ C!CheckMember(m, job.member)
          BY <1>1, <1>2, <1>3, <2>1, <3>1, <3>2, <3>3 DEF MemberChecked
        <4> QED
          BY <2>1, <3>2, <4>1 DEF C!CheckMember
      <3>4. CASE n = job.id
        <4>1. members'[n] = job.member /\ members'[m] = members[m] /\ C!CheckMember(n, job.member)
          BY <1>1, <1>2, <1>3, <2>1, <3>1, <3>2, <3>4 DEF MemberChecked
        <4> QED
          BY <2>1, <3>2, <4>1 DEF C!CheckMember
      <3>5. CASE m # job.id /\ n # job.id
        BY <1>2, <1>3, <2>1, <3>1, <3>2, <3>5 DEF CouncilInv, C!SeatsHeldOnce, C!MemberExists
      <3> QED
        BY <3>3, <3>4, <3>5
    <2> QED
      BY <2>1 DEF C!SeatsHeldOnce, C!IsActiveMember
  <1>10. C!ChairStep
    BY <1>3 DEF C!ChairStep
  <1> QED
    BY <1>6, <1>7, <1>8, <1>9, <1>10 DEF CouncilInv

(* and a chair is in office. *)
LEMMA CommitteeCommitStep ==
    ASSUME CouncilInv, NEW r \in Requests, C!CommitteeCommit(r)
    PROVE  CouncilInv' /\ C!ChairStep
  <1>1. PICK job \in CouncilJobs : job = jobs[r] /\ job.op = "committee" /\ ChairChecked(job)
    BY DEF CouncilInv, CouncilChecked, C!CommitteeCommit
  <1>2. /\ job.id \in Committees /\ committees \in [Committees -> Members \cup {C!NoOne}]
        /\ job.chair \in Members \cup {C!NoOne}
        /\ committees' = [committees EXCEPT ![job.id] = job.chair]
        /\ terms' = terms /\ members' = members /\ C!Finish(r)
    BY <1>1 DEF ChairChecked, C!CommitteeCommit, CouncilInv, C!TypeOK, CouncilJobs
  <1>3. /\ jobs' \in [Requests -> CouncilJobs] /\ today' = today /\ late' = (late \/ ~job.fresh)
        /\ jobs'[r] = C!Idle
        /\ \A q \in Requests : CouncilChecked(jobs[q])'
    BY <1>1, <1>2, CouncilFinishes
  <1>4. C!TypeOK'
    <2>1. committees' \in [Committees -> Members \cup {C!NoOne}]
      BY <1>2
    <2>2. late' \in BOOLEAN
      BY <1>3
    <2> QED
      BY <1>2, <1>3, <2>1, <2>2 DEF CouncilInv, C!TypeOK
  <1>5. C!TermsApart' /\ C!SeatsHeldOnce'
    BY <1>2, <1>3 DEF CouncilInv, C!TermsApart, C!TermExists, C!SeatsHeldOnce, C!MemberExists, C!IsActiveMember
  <1>6. C!ChairStep
    BY <1>1, <1>2, <1>3 DEF C!ChairStep, ChairChecked
  <1> QED
    BY <1>3, <1>4, <1>5, <1>6 DEF CouncilInv

(* A failure and the passing of a day change no row. *)
LEMMA CouncilRests ==
    ASSUME C!DaysAssumption, CouncilInv, (\E r \in Requests : C!Fail(r)) \/ C!NextDay
    PROVE  CouncilInv' /\ C!ChairStep
  <1>1. terms' = terms /\ members' = members /\ committees' = committees /\ late' = late
    BY DEF C!Fail, C!NextDay
  <1>2. CASE \E r \in Requests : C!Fail(r)
    <2>1. today' = today /\ jobs' \in [Requests -> CouncilJobs] /\ \A q \in Requests : jobs'[q] = jobs[q] \/ jobs'[q] = C!Idle
      BY <1>2, IdleOfCouncil DEF C!Fail, CouncilInv
    <2>2. ASSUME NEW q \in Requests PROVE CouncilChecked(jobs[q])'
      <3>1. CouncilChecked(jobs'[q])
        BY <2>1, IdleOfCouncil DEF CouncilInv, CouncilChecked, TermChecked, MemberChecked, ChairChecked
      <3> QED
        BY <1>1, <2>1, <3>1 DEF CouncilChecked, TermChecked, MemberChecked, ChairChecked, C!CheckTermDates, C!CheckMember,
                                C!MemberExists, C!IsActiveMember, C!TermExists
    <2> QED
      BY <1>1, <2>1, <2>2 DEF CouncilInv, C!TypeOK, C!TermsApart, C!SeatsHeldOnce, C!TermExists, C!MemberExists,
                              C!IsActiveMember, C!ChairStep
  <1>3. CASE C!NextDay
    <2>1. today \in Days /\ today' = today + 1 /\ today' \in Days /\ jobs' = jobs /\ \A q \in Requests : jobs[q].op = "idle"
      BY <1>3 DEF C!NextDay, CouncilInv, C!TypeOK
    <2>2. \A q \in Requests : CouncilChecked(jobs[q])'
      BY <2>1 DEF CouncilChecked, TermChecked, MemberChecked, ChairChecked
    <2>3. C!SeatsHeldOnce'
      <3>1. ASSUME NEW m \in Members, C!IsActiveMember(members[m])' PROVE C!IsActiveMember(members[m])
        <4>1. today \in Nat /\ members[m].left \in Nat
          <5>1. \A day \in Days \cup {0} : day \in Nat
            BY DEF C!DaysAssumption
          <5>2. members[m].left \in Days \cup {0}
            BY DEF CouncilInv, C!TypeOK
          <5> QED
            BY <2>1, <5>1, <5>2
        <4>2. members[m].left = 0 \/ members[m].left > today + 1
          BY <1>1, <2>1, <3>1 DEF C!IsActiveMember
        <4> QED
          BY <4>1, <4>2 DEF C!IsActiveMember
      <3> QED
        BY <1>1, <3>1 DEF CouncilInv, C!SeatsHeldOnce, C!MemberExists
    <2> QED
      BY <1>1, <2>1, <2>2, <2>3 DEF CouncilInv, C!TypeOK, C!TermsApart, C!TermExists, C!ChairStep
  <1> QED
    BY <1>2, <1>3

(* The invariant holds at first. *)
LEMMA CouncilInit == C!Init => CouncilInv
  <1> SUFFICES ASSUME C!Init PROVE CouncilInv
    OBVIOUS
  <1>1. /\ today \in Days /\ terms = [t \in Terms |-> C!NoTerm] /\ members = [m \in Members |-> C!NoMember]
        /\ committees = [c \in Committees |-> C!NoOne] /\ late = FALSE /\ jobs = [r \in Requests |-> C!Idle]
    BY DEF C!Init
  <1>2. C!NoTerm \in TermRows /\ C!NoMember \in MemberRows
    BY DEF C!NoTerm, TermRows, C!NoMember, MemberRows, C!POSITIONS
  <1>3. terms \in [Terms -> TermRows] /\ members \in [Members -> MemberRows]
    BY <1>1, <1>2
  <1>4. committees \in [Committees -> Members \cup {C!NoOne}]
    BY <1>1
  <1>5. late \in BOOLEAN
    BY <1>1
  <1>6. C!TypeOK
    BY <1>1, <1>3, <1>4, <1>5 DEF C!TypeOK, TermRows, MemberRows
  <1>7. jobs \in [Requests -> CouncilJobs] /\ \A r \in Requests : CouncilChecked(jobs[r])
    BY <1>1, IdleOfCouncil DEF CouncilChecked, TermChecked, MemberChecked, ChairChecked
  <1>8. C!TermsApart
    BY <1>1 DEF C!TermsApart, C!TermExists
  <1>9. C!SeatsHeldOnce
    BY <1>1 DEF C!SeatsHeldOnce, C!MemberExists, C!NoMember
  <1> QED
    BY <1>6, <1>7, <1>8, <1>9 DEF CouncilInv

(* Every step keeps it, and gives chairs to members in office. *)
LEMMA CouncilNext == C!DaysAssumption /\ CouncilInv /\ [C!Next]_C!vars => CouncilInv' /\ [C!ChairStep]_C!vars
  <1> SUFFICES ASSUME C!DaysAssumption, CouncilInv, [C!Next]_C!vars PROVE CouncilInv' /\ [C!ChairStep]_C!vars
    OBVIOUS
  <1>1. ASSUME NEW r \in Requests, NEW t \in Terms, NEW first \in Days, NEW last \in Days, C!TermLoad(r, t, first, last)
        PROVE  CouncilInv' /\ C!ChairStep
    BY <1>1, TermLoadStep
  <1>2. ASSUME NEW r \in Requests, NEW m \in Members, NEW t \in Terms, NEW position \in C!POSITIONS,
               NEW holder \in Accounts \cup {C!NoOne}, C!AddMemberLoad(r, m, t, position, holder)
        PROVE  CouncilInv' /\ C!ChairStep
    BY <1>2, AddMemberStep
  <1>3. ASSUME NEW r \in Requests, NEW m \in Members, NEW position \in C!POSITIONS,
               NEW holder \in Accounts \cup {C!NoOne}, NEW off \in Days \cup {0},
               C!UpdateMemberLoad(r, m, position, holder, off)
        PROVE  CouncilInv' /\ C!ChairStep
    BY <1>3, UpdateMemberStep
  <1>4. ASSUME NEW r \in Requests, NEW c \in Committees, NEW chair \in Members \cup {C!NoOne}, C!CommitteeLoad(r, c, chair)
        PROVE  CouncilInv' /\ C!ChairStep
    BY <1>4, CommitteeLoadStep
  <1>5. ASSUME NEW r \in Requests, C!TermCommit(r) \/ C!MemberCommit(r) \/ C!CommitteeCommit(r) \/ C!Fail(r)
        PROVE  CouncilInv' /\ C!ChairStep
    BY <1>5, TermCommitStep, MemberCommitStep, CommitteeCommitStep, CouncilRests
  <1>6. CASE C!NextDay
    BY <1>6, CouncilRests
  <1>7. CASE UNCHANGED C!vars
    <2>1. /\ today' = today /\ terms' = terms /\ members' = members /\ committees' = committees
          /\ late' = late /\ jobs' = jobs
      BY <1>7 DEF C!vars
    <2>2. \A r \in Requests : CouncilChecked(jobs[r])'
      BY <2>1 DEF CouncilInv, CouncilChecked, TermChecked, MemberChecked, ChairChecked, C!CheckTermDates, C!CheckMember,
                  C!MemberExists, C!IsActiveMember, C!TermExists
    <2>3. CouncilInv'
      BY <2>1, <2>2 DEF CouncilInv, C!TypeOK, C!TermsApart, C!SeatsHeldOnce, C!TermExists, C!MemberExists, C!IsActiveMember
    <2> QED
      BY <1>7, <2>3
  <1> QED
    BY <1>1, <1>2, <1>3, <1>4, <1>5, <1>6, <1>7 DEF C!Next

(* Terms share no day, and seats and accounts have one holder on any day,  *)
(* until a request overtakes another (council.py _check_term_dates,        *)
(* _check_member).                                                         *)
THEOREM TermsAndSeatsApart == C!Spec => []C!SeatsAreApart
  <1>1. CouncilInv /\ [C!Next]_C!vars => CouncilInv'
    BY CouncilNext, Instances
  <1>2. CouncilInv => C!SeatsAreApart
    BY DEF CouncilInv, C!SeatsAreApart
  <1> QED
    BY <1>1, <1>2, CouncilInit, PTL DEF C!Spec

(* Who takes the chair of a committee is a member in office, unless the    *)
(* request was overtaken (council.py _chair).                              *)
THEOREM ChairsInOffice == C!Spec => C!ChairsAreInOffice
  <1>1. CouncilInv /\ [C!Next]_C!vars => CouncilInv' /\ [C!ChairStep]_C!vars
    BY CouncilNext, Instances
  <1> QED
    BY <1>1, CouncilInit, PTL DEF C!Spec, C!ChairsAreInOffice

-----------------------------------------------------------------------------
(***************************************************************************)
(* The votes of an item.  A vote is set or cleared on the row that is the  *)
(* latest still, or the request was overtaken; before the session is held  *)
(* there is one row at most, and only corrections follow.                  *)
(***************************************************************************)
VoteJobs == [op : {"idle", "set", "clear", "correct"}, view : V!Rows, new : V!Rows, fresh : BOOLEAN]

LoadedVote(job) ==
    /\ job.op \in {"set", "correct"} => V!TallyOf(job.new)
    /\ job.op = "correct" => held /\ job.new.correction
    /\ job.op \in {"set", "clear"} /\ job.fresh => job.view = V!Current
    /\ job.op \in {"set", "clear"} /\ job.fresh /\ ~late => Len(rows) =< 1
    /\ job.op \in {"set", "correct"} => job.new.id > 0

VotesInv ==
    /\ V!TypeOK /\ jobs \in [Requests -> VoteJobs]
    /\ \A i \in 1 .. Len(rows) : rows[i].id > 0
    /\ \A r \in Requests : LoadedVote(jobs[r])
    /\ ~late /\ ~held => Len(rows) =< 1
    /\ V!TallyIsCount /\ V!OneVote

(* Votes counts as the theorems do. *)
LEMMA SameCount == \A S : V!Cardinality(S) = Cardinality(S)
  BY DEF V!Cardinality, Cardinality

(* What is entered is a row, and a nominal vote is the count of its votes. *)
LEMMA EnteredVote ==
    ASSUME V!FillsAssumption, IsFiniteSet(Members), NEW n \in 1 .. MaxFills, NEW correction \in BOOLEAN,
           NEW new \in V!VoteValues(n, correction)
    PROVE  new \in V!Rows /\ V!TallyOf(new) /\ new.correction = correction /\ new.id = n
  <1>1. n \in 0 .. MaxFills
    BY DEF V!FillsAssumption
  <1>2. CASE new \in {[id |-> n, nominal |-> FALSE, yes |-> v.yes, no |-> v.no, cast |-> {}, correction |-> correction]
                          : v \in V!Voices}
    <2>1. \A v \in V!Voices : v.yes \in Nat /\ v.no \in Nat
      BY DEF V!Voices
    <2>2. PICK yes \in Nat, no \in Nat : new = [id |-> n, nominal |-> FALSE, yes |-> yes, no |-> no, cast |-> {},
                                               correction |-> correction]
      BY <1>2, <2>1
    <2>3. {} \in V!Casts
      BY DEF V!Casts
    <2>4. new \in V!Rows /\ new.correction = correction /\ new.id = n
      BY <1>1, <2>2, <2>3 DEF V!Rows
    <2>5. ~new.nominal /\ new.cast = {}
      BY <2>2
    <2> QED
      BY <2>4, <2>5 DEF V!TallyOf
  <1>3. ASSUME NEW b \in V!Ballots,
               new = [id |-> n, nominal |-> TRUE, yes |-> V!CountOf(V!Cast(n, b), "Yes"),
                      no |-> V!CountOf(V!Cast(n, b), "No"), cast |-> V!Cast(n, b), correction |-> correction]
        PROVE  new \in V!Rows /\ V!TallyOf(new) /\ new.correction = correction /\ new.id = n
    <2>1. PICK voters \in SUBSET Members : b \in [voters -> V!Answers]
      BY <1>3 DEF V!Ballots
    <2>2. V!Cast(n, b) \in V!Casts
      BY <2>1 DEF V!Cast, V!Casts
    <2>3. IsFiniteSet(voters)
      BY <2>1, FS_Subset
    <2>4. IsFiniteSet(V!Cast(n, b))
      <3> DEFINE f == [m \in voters |-> [fill |-> n, member |-> m, vote |-> b[m]]]
      <3>1. V!Cast(n, b) = {f[m] : m \in voters}
        BY <2>1 DEF V!Cast
      <3>2. f \in Surjection(voters, V!Cast(n, b))
        BY <3>1 DEF Surjection
      <3> QED
        BY <2>3, <3>2, FS_Surjection
    <2>5. \A choice : V!CountOf(V!Cast(n, b), choice) \in Nat
      <3>1. ASSUME NEW choice PROVE V!CountOf(V!Cast(n, b), choice) \in Nat
        <4>1. {v \in V!Cast(n, b) : v.vote = choice} \subseteq V!Cast(n, b)
          OBVIOUS
        <4>2. IsFiniteSet({v \in V!Cast(n, b) : v.vote = choice})
          BY <2>4, <4>1, FS_Subset
        <4> QED
          BY <4>2, FS_CardinalityType, SameCount DEF V!CountOf
      <3> QED
        BY <3>1
    <2>6. \A v, w \in V!Cast(n, b) : v.member = w.member => v = w
      BY DEF V!Cast
    <2> QED
      BY <1>1, <1>3, <2>2, <2>5, <2>6 DEF V!Rows, V!TallyOf
  <1> QED
    BY <1>2, <1>3 DEF V!VoteValues

(* The row of no vote, and the job of a slot with no request. *)
LEMMA NoVoteRow == V!FillsAssumption => V!NoVote \in V!Rows /\ V!NoVote.id = 0
  BY DEF V!NoVote, V!Rows, V!Casts, V!FillsAssumption

LEMMA IdleVote == V!FillsAssumption => V!Idle \in VoteJobs /\ V!Idle.op = "idle"
  BY NoVoteRow DEF V!Idle, VoteJobs

(* The latest vote is a row, or there is none. *)
LEMMA LatestVote ==
    ASSUME V!FillsAssumption, VotesInv
    PROVE  V!Current \in V!Rows
  <1>1. rows \in Seq(V!Rows)
    BY DEF VotesInv, V!TypeOK
  <1>2. CASE rows = << >>
    BY <1>2, NoVoteRow DEF V!Current
  <1>3. CASE rows # << >>
    <2>1. Len(rows) \in 1 .. Len(rows)
      BY <1>1, <1>3, EmptySeq, LenProperties
    <2> QED
      BY <1>1, <1>3, <2>1, ElementOfSeq DEF V!Current, V!Last
  <1> QED
    BY <1>2, <1>3

(* Removing a row leaves rows; of the only row, none. *)
LEMMA WithoutRow ==
    ASSUME V!FillsAssumption, VotesInv, NEW id
    PROVE  /\ V!Without(id) \in Seq(V!Rows) /\ Len(V!Without(id)) =< Len(rows)
           /\ \A i \in 1 .. Len(V!Without(id)) : \E j \in 1 .. Len(rows) : V!Without(id)[i] = rows[j]
           /\ Len(rows) =< 1 /\ V!Without(id) # rows => Len(V!Without(id)) = 0
  <1>1. rows \in Seq(V!Rows) /\ Len(rows) \in Nat /\ DOMAIN rows = 1 .. Len(rows)
    BY LenProperties DEF VotesInv, V!TypeOK
  <1>2. CASE \E row \in V!ToSet(rows) : row.id = id
    <2>1. PICK k \in 1 .. Len(rows) : k = CHOOSE i \in DOMAIN rows : rows[i].id = id
      BY <1>1, <1>2 DEF V!ToSet
    <2>2. V!Without(id) = SubSeq(rows, 1, k - 1) \o SubSeq(rows, k + 1, Len(rows))
      BY <1>2, <2>1 DEF V!Without, V!RemoveAt
    <2>3. /\ SubSeq(rows, 1, k - 1) \in Seq(V!Rows) /\ Len(SubSeq(rows, 1, k - 1)) = k - 1
          /\ \A i \in 1 .. k - 1 : SubSeq(rows, 1, k - 1)[i] = rows[i]
      <3>1. \A i \in 1 .. k - 1 : rows[i] \in V!Rows
        BY <1>1, ElementOfSeq
      <3>2. 1 \in Int /\ k - 1 \in Int
        BY <1>1
      <3>3. /\ SubSeq(rows, 1, k - 1) \in Seq(V!Rows)
            /\ Len(SubSeq(rows, 1, k - 1)) = IF 1 =< k - 1 THEN (k - 1) - 1 + 1 ELSE 0
            /\ \A i \in 1 .. (k - 1) - 1 + 1 : SubSeq(rows, 1, k - 1)[i] = rows[1 + i - 1]
        BY <3>1, <3>2, SubSeqProperties
      <3> QED
        BY <1>1, <3>3
    <2>4. /\ SubSeq(rows, k + 1, Len(rows)) \in Seq(V!Rows) /\ Len(SubSeq(rows, k + 1, Len(rows))) = Len(rows) - k
          /\ \A i \in 1 .. Len(rows) - k : SubSeq(rows, k + 1, Len(rows))[i] = rows[k + i]
      <3>1. \A i \in k + 1 .. Len(rows) : rows[i] \in V!Rows
        BY <1>1, ElementOfSeq
      <3>2. k + 1 \in Int /\ Len(rows) \in Int
        BY <1>1
      <3>3. /\ SubSeq(rows, k + 1, Len(rows)) \in Seq(V!Rows)
            /\ Len(SubSeq(rows, k + 1, Len(rows))) = IF k + 1 =< Len(rows) THEN Len(rows) - (k + 1) + 1 ELSE 0
            /\ \A i \in 1 .. Len(rows) - (k + 1) + 1 : SubSeq(rows, k + 1, Len(rows))[i] = rows[(k + 1) + i - 1]
        BY <3>1, <3>2, SubSeqProperties
      <3>4. \A i \in 1 .. Len(rows) - k : (k + 1) + i - 1 = k + i
        <4>1. ASSUME NEW n \in Nat, NEW j \in 1 .. n PROVE \A i \in 1 .. n - j : (j + 1) + i - 1 = j + i
          OBVIOUS
        <4> QED
          BY <1>1, <4>1
      <3>5. Len(rows) - (k + 1) + 1 = Len(rows) - k /\ (~(k + 1 =< Len(rows)) => Len(rows) - k = 0)
        <4>1. ASSUME NEW n \in Nat, NEW j \in 1 .. n
              PROVE  n - (j + 1) + 1 = n - j /\ (~(j + 1 =< n) => n - j = 0)
          OBVIOUS
        <4> QED
          BY <1>1, <4>1
      <3> QED
        <4>1. Len(SubSeq(rows, k + 1, Len(rows))) = Len(rows) - k
          BY <3>3, <3>5
        <4>2. \A i \in 1 .. Len(rows) - k : SubSeq(rows, k + 1, Len(rows))[i] = rows[k + i]
          <5>1. ASSUME NEW i \in 1 .. Len(rows) - k PROVE SubSeq(rows, k + 1, Len(rows))[i] = rows[k + i]
            <6>1. i \in 1 .. Len(rows) - (k + 1) + 1
              BY <3>5
            <6>2. SubSeq(rows, k + 1, Len(rows))[i] = rows[(k + 1) + i - 1]
              BY <3>3, <6>1
            <6> QED
              BY <3>4, <6>2
          <5> QED
            BY <5>1
        <4> QED
          BY <3>3, <4>1, <4>2
    <2>5. /\ V!Without(id) \in Seq(V!Rows) /\ Len(V!Without(id)) = (k - 1) + (Len(rows) - k)
          /\ \A i \in 1 .. Len(V!Without(id)) :
                V!Without(id)[i] = IF i =< k - 1 THEN SubSeq(rows, 1, k - 1)[i]
                                   ELSE SubSeq(rows, k + 1, Len(rows))[i - (k - 1)]
      <3> DEFINE L == SubSeq(rows, 1, k - 1)
                 R == SubSeq(rows, k + 1, Len(rows))
      <3> HIDE DEF L, R
      <3>1. L \in Seq(V!Rows) /\ R \in Seq(V!Rows) /\ Len(L) = k - 1 /\ Len(R) = Len(rows) - k /\ V!Without(id) = L \o R
        BY <2>2, <2>3, <2>4 DEF L, R
      <3>2. /\ L \o R \in Seq(V!Rows) /\ Len(L \o R) = Len(L) + Len(R)
            /\ \A i \in 1 .. Len(L) + Len(R) : (L \o R)[i] = IF i <= Len(L) THEN L[i] ELSE R[i - Len(L)]
        BY <3>1, ConcatProperties
      <3> QED
        BY <3>1, <3>2 DEF L, R
    <2>6. ASSUME NEW i \in 1 .. Len(V!Without(id)) PROVE \E j \in 1 .. Len(rows) : V!Without(id)[i] = rows[j]
      <3>1. CASE i =< k - 1
        <4>1. i \in 1 .. k - 1 /\ i \in 1 .. Len(rows)
          BY <1>1, <2>5, <3>1
        <4> QED
          BY <2>3, <2>5, <3>1, <4>1
      <3>2. CASE i > k - 1
        <4>1. i - (k - 1) \in 1 .. Len(rows) - k /\ k + (i - (k - 1)) = i + 1 /\ i + 1 \in 1 .. Len(rows)
          BY <1>1, <2>5, <3>2
        <4>2. V!Without(id)[i] = rows[i + 1]
          BY <2>4, <2>5, <3>2, <4>1
        <4> QED
          BY <4>1, <4>2
      <3> QED
        BY <1>1, <2>5, <3>1, <3>2
    <2> QED
      BY <1>1, <2>5, <2>6
  <1>3. CASE ~\E row \in V!ToSet(rows) : row.id = id
    BY <1>1, <1>3 DEF V!Without
  <1> QED
    BY <1>2, <1>3

(* Rows that stay are the first of the rows there are. *)
LEMMA RowsArePrefix == ASSUME VotesInv, rows' = rows PROVE V!HeldVotesStep
  <1>1. Len(rows) \in Nat
    BY LenProperties DEF VotesInv, V!TypeOK
  <1> QED
    BY <1>1 DEF V!HeldVotesStep, V!IsPrefix

(* An idle slot holds nothing that could be out of date. *)
LEMMA IdleLoaded == LoadedVote(V!Idle)
  BY DEF LoadedVote, V!Idle

(* What is under way stays as it was when no row changes. *)
LEMMA VotesUntouched ==
    ASSUME V!FillsAssumption, VotesInv, rows' = rows, late' = late, fills' \in 0 .. MaxFills,
           held' \in BOOLEAN, held => held', jobs' \in [Requests -> VoteJobs], \A r \in Requests : LoadedVote(jobs'[r])
    PROVE  VotesInv' /\ V!HeldVotesStep
  <1>1. \A r \in Requests : LoadedVote(jobs[r])'
    BY DEF LoadedVote, V!Current
  <1>2. V!TallyIsCount' /\ V!OneVote'
    BY DEF VotesInv, V!TallyIsCount, V!OneVote
  <1>3. (~late /\ ~held => Len(rows) =< 1)' /\ (\A i \in 1 .. Len(rows) : rows[i].id > 0)'
    BY DEF VotesInv
  <1>4. V!TypeOK'
    BY DEF VotesInv, V!TypeOK, VoteJobs
  <1> QED
    BY <1>1, <1>2, <1>3, <1>4, RowsArePrefix DEF VotesInv

(* The requests load the latest row, and tally what they are to set. *)
LEMMA VoteLoads ==
    ASSUME V!FillsAssumption, IsFiniteSet(Members), VotesInv, NEW r \in Requests,
           V!SetLoad(r) \/ V!ClearLoad(r) \/ V!CorrectLoad(r)
    PROVE  VotesInv' /\ V!HeldVotesStep
  <1>1. fills \in 0 .. MaxFills /\ held \in BOOLEAN /\ jobs \in [Requests -> VoteJobs] /\ V!Current \in V!Rows
    BY LatestVote DEF VotesInv, V!TypeOK
  <1>2. PICK op \in {"set", "clear", "correct"}, new \in V!Rows :
           /\ V!Load(r, op, new) /\ fills' \in 0 .. MaxFills
           /\ op = "correct" => held /\ new.correction
           /\ op # "correct" => ~held
           /\ op \in {"set", "correct"} => V!TallyOf(new) /\ new.id > 0
    <2>1. CASE V!ClearLoad(r)
      <3>1. V!Load(r, "clear", V!NoVote) /\ ~held /\ fills' = fills
        BY <2>1 DEF V!ClearLoad
      <3> QED
        BY <1>1, <3>1, NoVoteRow
    <2>2. CASE V!SetLoad(r)
      <3>1. ~held /\ fills < MaxFills /\ fills' = fills + 1
        BY <2>2 DEF V!SetLoad
      <3>2. PICK new \in V!VoteValues(fills', FALSE) : V!Load(r, "set", new)
        BY <2>2 DEF V!SetLoad
      <3>3. fills' \in 1 .. MaxFills /\ fills' \in 0 .. MaxFills /\ fills' > 0
        BY <1>1, <3>1 DEF V!FillsAssumption
      <3>4. new \in V!Rows /\ V!TallyOf(new) /\ new.id = fills'
        BY <3>2, <3>3, EnteredVote
      <3> QED
        BY <3>1, <3>2, <3>3, <3>4
    <2>3. CASE V!CorrectLoad(r)
      <3>1. held /\ fills < MaxFills /\ fills' = fills + 1
        BY <2>3 DEF V!CorrectLoad
      <3>2. PICK new \in V!VoteValues(fills', TRUE) : V!Load(r, "correct", new)
        BY <2>3 DEF V!CorrectLoad
      <3>3. fills' \in 1 .. MaxFills /\ fills' \in 0 .. MaxFills /\ fills' > 0
        BY <1>1, <3>1 DEF V!FillsAssumption
      <3>4. new \in V!Rows /\ V!TallyOf(new) /\ new.correction = TRUE /\ new.id = fills'
        BY <3>2, <3>3, EnteredVote
      <3> QED
        BY <3>1, <3>2, <3>3, <3>4
    <2> QED
      BY <2>1, <2>2, <2>3
  <1> DEFINE job == [op |-> op, view |-> V!Current, new |-> new, fresh |-> TRUE]
  <1>3. /\ jobs' = [jobs EXCEPT ![r] = job]
        /\ rows' = rows /\ late' = late /\ held' = held
    BY <1>2 DEF V!Load
  <1>4. job \in VoteJobs /\ job.op = op /\ job.view = V!Current /\ job.new = new
    BY <1>1, <1>2 DEF VoteJobs
  <1> HIDE DEF job
  <1>5. LoadedVote(job)
    BY <1>2, <1>4 DEF LoadedVote, VotesInv
  <1>6. jobs' \in [Requests -> VoteJobs] /\ \A q \in Requests : LoadedVote(jobs'[q])
    BY <1>1, <1>3, <1>4, <1>5 DEF VotesInv
  <1> QED
    BY <1>1, <1>2, <1>3, <1>6, VotesUntouched

(* A commit overtakes every other request. *)
LEMMA VoteCommits ==
    ASSUME V!FillsAssumption, VotesInv, NEW r \in Requests, NEW after \in Seq(V!Rows), V!Commit(r, after),
           \A i \in 1 .. Len(after) : after[i].id > 0,
           (~late /\ (jobs[r].fresh \/ jobs[r].op = "correct")) =>
               /\ \A i \in 1 .. Len(after) : V!TallyOf(after[i]) /\ (after[i].correction \/ i = 1)
               /\ ~held => Len(after) =< 1
    PROVE  VotesInv'
  <1>1. /\ rows' = after /\ held' = held /\ fills' = fills
        /\ late' = (late \/ (~jobs[r].fresh /\ jobs[r].op # "correct"))
        /\ jobs \in [Requests -> VoteJobs]
    BY DEF V!Commit, VotesInv
  <1>2. /\ jobs' \in [Requests -> VoteJobs]
        /\ \A q \in Requests : jobs'[q] = V!Idle \/ jobs'[q] = [jobs[q] EXCEPT !.fresh = FALSE]
    <2>1. \A q \in Requests : jobs[q] \in VoteJobs /\ [jobs[q] EXCEPT !.fresh = FALSE] \in VoteJobs
      BY <1>1 DEF VoteJobs
    <2> QED
      BY <2>1, IdleVote DEF V!Commit
  <1>3. ASSUME NEW q \in Requests PROVE LoadedVote(jobs[q])'
    <2>1. CASE jobs'[q] = V!Idle
      BY <2>1, IdleVote DEF LoadedVote
    <2>2. CASE jobs'[q] = [jobs[q] EXCEPT !.fresh = FALSE]
      <3>1. PICK job \in VoteJobs : job = jobs[q] /\ LoadedVote(job)
        BY <1>1 DEF VotesInv
      <3>2. jobs'[q].op = job.op /\ jobs'[q].new = job.new /\ ~jobs'[q].fresh
        BY <2>2, <3>1 DEF VoteJobs
      <3> QED
        BY <1>1, <3>1, <3>2 DEF LoadedVote
    <2> QED
      BY <1>2, <2>1, <2>2
  <1>4. V!TypeOK'
    <2>1. late' \in BOOLEAN
      BY <1>1 DEF VotesInv, V!TypeOK
    <2> QED
      BY <1>1, <1>2, <2>1 DEF VotesInv, V!TypeOK, VoteJobs
  <1>5. ~late' => ~late /\ (jobs[r].fresh \/ jobs[r].op = "correct")
    BY <1>1
  <1>6. DOMAIN after = 1 .. Len(after)
    BY LenProperties
  <1>7. V!TallyIsCount' /\ V!OneVote'
    BY <1>1, <1>5, <1>6 DEF V!TallyIsCount, V!OneVote, V!ToSet
  <1>8. (~late /\ ~held => Len(rows) =< 1)' /\ (\A i \in 1 .. Len(rows) : rows[i].id > 0)'
    BY <1>1, <1>5
  <1> QED
    BY <1>2, <1>3, <1>4, <1>7, <1>8 DEF VotesInv

(* Of the rows there are, as far as nobody was overtaken. *)
LEMMA RowsSoFar ==
    ASSUME VotesInv, ~late
    PROVE  \A i \in 1 .. Len(rows) : V!TallyOf(rows[i]) /\ (rows[i].correction \/ i = 1)
  <1>1. DOMAIN rows = 1 .. Len(rows)
    BY LenProperties DEF VotesInv, V!TypeOK
  <1> QED
    BY <1>1 DEF VotesInv, V!TallyIsCount, V!OneVote, V!ToSet

(* A vote that is cleared is the latest row. *)
LEMMA ClearCommitsVote ==
    ASSUME V!FillsAssumption, VotesInv, NEW r \in Requests, V!ClearCommit(r)
    PROVE  VotesInv' /\ V!HeldVotesStep
  <1>1. PICK job \in VoteJobs : job = jobs[r] /\ LoadedVote(job) /\ job.op = "clear"
    BY DEF VotesInv, V!ClearCommit
  <1>2. PICK after \in Seq(V!Rows) : after = V!Without(job.view.id) /\ V!Commit(r, after)
    BY <1>1, WithoutRow DEF V!ClearCommit
  <1>3. rows \in Seq(V!Rows) /\ Len(rows) \in Nat /\ Len(after) \in Nat
    BY LenProperties DEF VotesInv, V!TypeOK
  <1>4. /\ \A i \in 1 .. Len(after) : \E j \in 1 .. Len(rows) : after[i] = rows[j]
        /\ Len(rows) =< 1 /\ after # rows => Len(after) = 0
    BY <1>2, WithoutRow
  <1>5. \A i \in 1 .. Len(after) : after[i].id > 0
    BY <1>4 DEF VotesInv
  <1>6. ASSUME ~late, job.fresh \/ job.op = "correct"
        PROVE  /\ \A i \in 1 .. Len(after) : V!TallyOf(after[i]) /\ (after[i].correction \/ i = 1)
               /\ ~held => Len(after) =< 1
    <2>1. Len(rows) =< 1 /\ (after = rows \/ Len(after) = 0)
      BY <1>1, <1>4, <1>6 DEF LoadedVote
    <2>2. CASE after = rows
      BY <1>6, <2>1, <2>2, RowsSoFar
    <2>3. CASE Len(after) = 0
      BY <2>3
    <2> QED
      BY <2>1, <2>2, <2>3
  <1>7. VotesInv'
    BY <1>1, <1>2, <1>5, <1>6, VoteCommits
  <1>8. jobs'[r] = V!Idle
    BY <1>2 DEF V!Commit, VotesInv
  <1> QED
    BY <1>1, <1>7, <1>8 DEF V!HeldVotesStep

(* A correction is added at the end. *)
LEMMA CorrectCommitsVote ==
    ASSUME V!FillsAssumption, VotesInv, NEW r \in Requests, V!CorrectCommit(r)
    PROVE  VotesInv' /\ V!HeldVotesStep
  <1>1. PICK job \in VoteJobs : job = jobs[r] /\ LoadedVote(job) /\ job.op = "correct"
    BY DEF VotesInv, V!CorrectCommit
  <1>2. held /\ job.new \in V!Rows /\ job.new.correction /\ V!TallyOf(job.new) /\ job.new.id > 0
    BY <1>1 DEF LoadedVote, VoteJobs
  <1>3. rows \in Seq(V!Rows) /\ Len(rows) \in Nat
    BY LenProperties DEF VotesInv, V!TypeOK
  <1>4. PICK after \in Seq(V!Rows) :
           /\ V!Commit(r, after) /\ after = Append(rows, job.new)
           /\ Len(after) = Len(rows) + 1 /\ after[Len(rows) + 1] = job.new
           /\ \A i \in 1 .. Len(rows) : after[i] = rows[i]
    <2> DEFINE after == Append(rows, job.new)
    <2>1. V!Commit(r, after)
      BY <1>1 DEF V!CorrectCommit
    <2>2. /\ after \in Seq(V!Rows) /\ Len(after) = Len(rows) + 1 /\ after[Len(rows) + 1] = job.new
          /\ \A i \in 1 .. Len(rows) : after[i] = rows[i]
      BY <1>2, <1>3, AppendProperties
    <2>3. after = Append(rows, job.new)
      OBVIOUS
    <2> HIDE DEF after
    <2> QED
      BY <2>1, <2>2, <2>3
  <1>5. \A i \in 1 .. Len(after) : i \in 1 .. Len(rows) \/ i = Len(rows) + 1
    BY <1>3, <1>4
  <1>6. \A i \in 1 .. Len(after) : after[i].id > 0
    BY <1>2, <1>4, <1>5 DEF VotesInv
  <1>7. ~late => \A i \in 1 .. Len(after) : V!TallyOf(after[i]) /\ (after[i].correction \/ i = 1)
    BY <1>2, <1>4, <1>5, RowsSoFar
  <1>8. VotesInv'
    BY <1>2, <1>4, <1>6, <1>7, VoteCommits
  <1>9. V!HeldVotesStep
    <2>1. rows' = after
      BY <1>4 DEF V!Commit
    <2>2. SubSeq(rows, 1, Len(rows)) = SubSeq(after, 1, Len(rows))
      <3>1. \A i \in 1 .. Len(rows) : rows[i] \in V!Rows /\ after[i] \in V!Rows
        BY <1>3, <1>4, ElementOfSeq
      <3>2. 1 \in Int /\ Len(rows) \in Int
        BY <1>3
      <3>3. /\ SubSeq(rows, 1, Len(rows)) \in Seq(V!Rows)
            /\ Len(SubSeq(rows, 1, Len(rows))) = IF 1 =< Len(rows) THEN Len(rows) - 1 + 1 ELSE 0
            /\ \A i \in 1 .. Len(rows) - 1 + 1 : SubSeq(rows, 1, Len(rows))[i] = rows[1 + i - 1]
        BY <3>1, <3>2, SubSeqProperties
      <3>4. /\ SubSeq(after, 1, Len(rows)) \in Seq(V!Rows)
            /\ Len(SubSeq(after, 1, Len(rows))) = IF 1 =< Len(rows) THEN Len(rows) - 1 + 1 ELSE 0
            /\ \A i \in 1 .. Len(rows) - 1 + 1 : SubSeq(after, 1, Len(rows))[i] = after[1 + i - 1]
        BY <3>1, <3>2, SubSeqProperties
      <3>5. Len(rows) - 1 + 1 = Len(rows) /\ \A i \in 1 .. Len(rows) : 1 + i - 1 = i
        BY <1>3
      <3>6. Len(SubSeq(rows, 1, Len(rows))) = Len(rows) /\ Len(SubSeq(after, 1, Len(rows))) = Len(rows)
        BY <1>3, <3>3, <3>4, <3>5
      <3>7. \A i \in 1 .. Len(rows) : SubSeq(rows, 1, Len(rows))[i] = SubSeq(after, 1, Len(rows))[i]
        BY <1>4, <3>3, <3>4, <3>5
      <3> QED
        BY <3>3, <3>4, <3>6, <3>7, SeqEqual
    <2> QED
      BY <1>3, <1>4, <2>1, <2>2 DEF V!HeldVotesStep, V!IsPrefix
  <1> QED
    BY <1>8, <1>9

(* The row is filled with what is entered, as far as it is as it was loaded. *)
LEMMA FilledRow ==
    ASSUME NEW row \in V!Rows, NEW view \in V!Rows, NEW new \in V!Rows
    PROVE  /\ V!Filled(row, view, new) \in V!Rows /\ V!Filled(row, view, new).id = row.id
           /\ row = view /\ V!TallyOf(new) => V!TallyOf(V!Filled(row, view, new))
  <1> DEFINE filled == V!Filled(row, view, new)
  <1>1. /\ filled = [row EXCEPT !.nominal = IF new.nominal = view.nominal THEN row.nominal ELSE new.nominal,
                                !.yes = IF new.yes = view.yes THEN row.yes ELSE new.yes,
                                !.no = IF new.no = view.no THEN row.no ELSE new.no,
                                !.cast = (row.cast \ view.cast) \cup new.cast]
    BY DEF V!Filled, V!Rows
  <1>2. (row.cast \ view.cast) \cup new.cast \in V!Casts
    BY DEF V!Rows, V!Casts
  <1>3. filled \in V!Rows /\ filled.id = row.id
    BY <1>1, <1>2 DEF V!Rows
  <1>4. ASSUME row = view
        PROVE  filled.yes = new.yes /\ filled.no = new.no /\ filled.cast = new.cast /\ (filled.nominal <=> new.nominal)
    BY <1>1, <1>4 DEF V!Rows
  <1> HIDE DEF filled
  <1>5. row = view /\ V!TallyOf(new) => V!TallyOf(filled)
    BY <1>4 DEF V!TallyOf
  <1> QED
    BY <1>3, <1>5 DEF filled

(* A vote is set over the latest row, or added where none was. *)
LEMMA SetCommitsVote ==
    ASSUME V!FillsAssumption, VotesInv, NEW r \in Requests, V!SetCommit(r)
    PROVE  VotesInv' /\ V!HeldVotesStep
  <1>1. PICK job \in VoteJobs : job = jobs[r] /\ LoadedVote(job) /\ job.op = "set"
    BY DEF VotesInv, V!SetCommit
  <1>2. job.view \in V!Rows /\ job.new \in V!Rows /\ V!TallyOf(job.new) /\ job.new.id > 0
    BY <1>1 DEF LoadedVote, VoteJobs
  <1>3. rows \in Seq(V!Rows) /\ Len(rows) \in Nat /\ DOMAIN rows = 1 .. Len(rows) /\ \A i \in 1 .. Len(rows) : rows[i] \in V!Rows
    BY LenProperties, ElementOfSeq DEF VotesInv, V!TypeOK
  <1>4. rows # << >> => Len(rows) \in 1 .. Len(rows) /\ V!Current = rows[Len(rows)]
    BY <1>3, EmptySeq DEF V!Current, V!Last
  <1>5. V!HeldVotesStep
    <2>1. jobs'[r] = V!Idle
      BY <1>1 DEF V!SetCommit, V!Commit, VotesInv
    <2> QED
      BY <1>1, <2>1 DEF V!HeldVotesStep
  <1>6. CASE job.view = V!NoVote
    <2> DEFINE after == Append(rows, job.new)
    <2>1. V!Commit(r, after)
      BY <1>1, <1>6 DEF V!SetCommit
    <2>2. /\ after \in Seq(V!Rows) /\ Len(after) = Len(rows) + 1 /\ after[Len(rows) + 1] = job.new
          /\ \A i \in 1 .. Len(rows) : after[i] = rows[i]
      BY <1>2, <1>3, AppendProperties
    <2> HIDE DEF after
    <2>3. \A i \in 1 .. Len(after) : i \in 1 .. Len(rows) \/ i = Len(rows) + 1
      BY <1>3, <2>2
    <2>4. \A i \in 1 .. Len(after) : after[i].id > 0
      BY <1>2, <2>2, <2>3 DEF VotesInv
    <2>5. ASSUME job.fresh PROVE Len(rows) = 0
      <3>1. V!Current.id = 0
        BY <1>1, <1>6, <2>5 DEF LoadedVote, V!NoVote
      <3>2. rows = << >>
        <4>1. ASSUME rows # << >> PROVE FALSE
          <5>1. PICK i \in 1 .. Len(rows) : V!Current = rows[i]
            BY <1>4, <4>1
          <5>2. rows[i].id > 0 /\ rows[i].id = 0
            BY <3>1, <5>1 DEF VotesInv
          <5> QED
            BY <5>2
        <4> QED
          BY <4>1
      <3> QED
        BY <3>2, EmptySeq
    <2>6. job.fresh => /\ \A i \in 1 .. Len(after) : V!TallyOf(after[i]) /\ (after[i].correction \/ i = 1)
                       /\ Len(after) =< 1
      BY <1>2, <2>2, <2>3, <2>5
    <2> QED
      BY <1>1, <1>5, <2>1, <2>2, <2>4, <2>6, VoteCommits
  <1>7. CASE job.view # V!NoVote
    <2> DEFINE Fill(row) == V!Filled(row, job.view, job.new)
               after == [i \in 1 .. Len(rows) |-> IF rows[i].id = job.view.id THEN Fill(rows[i]) ELSE rows[i]]
    <2>1. V!Commit(r, after)
      BY <1>1, <1>3, <1>7 DEF V!SetCommit
    <2>2. \A i \in 1 .. Len(rows) : Fill(rows[i]) \in V!Rows /\ Fill(rows[i]).id = rows[i].id
      BY <1>2, <1>3, FilledRow
    <2>3. after \in [1 .. Len(rows) -> V!Rows] /\ \A i \in 1 .. Len(rows) : after[i].id > 0
      BY <1>3, <2>2 DEF VotesInv
    <2>4. ASSUME job.fresh, ~late
          PROVE  Len(rows) =< 1 /\ \A i \in 1 .. Len(rows) : V!TallyOf(after[i]) /\ i = 1
      <3>1. Len(rows) =< 1 /\ job.view = V!Current
        BY <1>1, <2>4 DEF LoadedVote
      <3>2. ASSUME NEW i \in 1 .. Len(rows) PROVE V!TallyOf(after[i]) /\ i = 1
        <4>1. i = 1 /\ Len(rows) = 1
          BY <1>3, <3>1
        <4>2. rows # << >>
          BY <4>1, EmptySeq
        <4>3. rows[i] = job.view
          BY <1>4, <3>1, <4>1, <4>2
        <4>4. V!TallyOf(Fill(rows[i]))
          BY <1>2, <1>3, <4>3, FilledRow
        <4> QED
          BY <4>1, <4>3, <4>4
      <3> QED
        BY <3>1, <3>2
    <2> HIDE DEF after
    <2>5. after \in Seq(V!Rows) /\ Len(after) = Len(rows)
      BY <1>3, <2>3
    <2> QED
      BY <1>1, <1>5, <2>1, <2>3, <2>4, <2>5, VoteCommits
  <1> QED
    BY <1>6, <1>7

(* The invariant holds at first, and every step keeps it. *)
LEMMA VotesInit == V!FillsAssumption /\ V!Init => VotesInv
  <1> SUFFICES ASSUME V!FillsAssumption, V!Init PROVE VotesInv
    OBVIOUS
  <1>1. rows = << >> /\ fills = 0 /\ late = FALSE /\ held = FALSE /\ jobs = [r \in Requests |-> V!Idle]
    BY DEF V!Init
  <1>2. rows \in Seq(V!Rows) /\ Len(rows) = 0
    BY <1>1, EmptySeq
  <1>3. jobs \in [Requests -> VoteJobs] /\ \A r \in Requests : LoadedVote(jobs[r])
    BY <1>1, IdleVote, IdleLoaded
  <1>4. held \in BOOLEAN /\ late \in BOOLEAN
    BY <1>1
  <1>5. V!TypeOK
    BY <1>1, <1>2, <1>3, <1>4 DEF V!TypeOK, VoteJobs, V!FillsAssumption
  <1>6. V!TallyIsCount /\ V!OneVote
    BY <1>1 DEF V!TallyIsCount, V!OneVote, V!ToSet
  <1> QED
    BY <1>2, <1>3, <1>5, <1>6 DEF VotesInv

LEMMA VotesNext ==
    ASSUME V!FillsAssumption, IsFiniteSet(Members), VotesInv, [V!Next]_V!vars
    PROVE  VotesInv' /\ [V!HeldVotesStep]_V!vars
  <1>1. fills \in 0 .. MaxFills /\ held \in BOOLEAN
    BY DEF VotesInv, V!TypeOK
  <1>2. ASSUME NEW r \in Requests, V!Fail(r) PROVE VotesInv' /\ V!HeldVotesStep
    <2>1. jobs' = [jobs EXCEPT ![r] = V!Idle] /\ rows' = rows /\ late' = late /\ fills' = fills /\ held' = held
      BY <1>2 DEF V!Fail
    <2>2. jobs' \in [Requests -> VoteJobs] /\ \A q \in Requests : LoadedVote(jobs'[q])
      BY <2>1, IdleVote, IdleLoaded DEF VotesInv
    <2> QED
      BY <1>1, <2>1, <2>2, VotesUntouched
  <1>3. CASE V!Hold
    <2>1. jobs' = jobs /\ rows' = rows /\ late' = late /\ fills' = fills /\ held' = TRUE
      BY <1>3 DEF V!Hold
    <2>2. jobs' \in [Requests -> VoteJobs] /\ \A q \in Requests : LoadedVote(jobs'[q])
      BY <2>1 DEF VotesInv
    <2>3. held' \in BOOLEAN /\ (held => held')
      BY <2>1
    <2> QED
      BY <1>1, <2>1, <2>2, <2>3, VotesUntouched
  <1>4. CASE UNCHANGED V!vars
    <2>1. jobs' = jobs /\ rows' = rows /\ late' = late /\ fills' = fills /\ held' = held
      BY <1>4 DEF V!vars
    <2>2. jobs' \in [Requests -> VoteJobs] /\ \A q \in Requests : LoadedVote(jobs'[q])
      BY <2>1 DEF VotesInv
    <2> QED
      BY <1>1, <2>1, <2>2, VotesUntouched
  <1>5. ASSUME NEW r \in Requests,
               \/ V!SetLoad(r) \/ V!ClearLoad(r) \/ V!CorrectLoad(r)
               \/ V!SetCommit(r) \/ V!ClearCommit(r) \/ V!CorrectCommit(r) \/ V!Fail(r)
        PROVE  VotesInv' /\ V!HeldVotesStep
    BY <1>2, <1>5, VoteLoads, SetCommitsVote, ClearCommitsVote, CorrectCommitsVote
  <1> QED
    BY <1>3, <1>4, <1>5 DEF V!Next

(* A nominal vote is the count of the votes of the members it lists, and   *)
(* an item has one vote that is not a correction, unless requests          *)
(* overtook each other (order_of_business.py set_vote, correct_vote).      *)
THEOREM VotesCounted == V!Spec => []V!VotesAreCounted
  <1>1. V!Init => VotesInv
    BY VotesInit, Instances
  <1>2. VotesInv /\ [V!Next]_V!vars => VotesInv'
    BY VotesNext, Instances
  <1>3. VotesInv => V!VotesAreCounted
    BY DEF VotesInv, V!VotesAreCounted
  <1> QED
    BY <1>1, <1>2, <1>3, PTL DEF V!Spec

(* Once a session is held, a step only adds to the rows of a vote, unless  *)
(* it is of a request that read the session before (order_of_business.py   *)
(* set_vote, correct_vote; docs/adr/0003).                                 *)
THEOREM HeldVotesRemain == V!Spec => V!HeldVotesStay
  <1>1. V!Init => VotesInv
    BY VotesInit, Instances
  <1>2. VotesInv /\ [V!Next]_V!vars => VotesInv' /\ [V!HeldVotesStep]_V!vars
    BY VotesNext, Instances
  <1> QED
    BY <1>1, <1>2, PTL DEF V!Spec, V!HeldVotesStay
-----------------------------------------------------------------------------
(* The parts of the run take steps of V, of A or of C. *)

PartsSit == /\ part = "votes" => VotesInv
            /\ part \in {"marks", "numbers"} => SessionsInv
            /\ part \in {"dates", "seats", "chairs"} => CouncilInv

(* They start as these do. *)
LEMMA PartsAtFirst == PartsInit => PartsSit
  BY VotesInit, SessionsInit, CouncilInit, Instances DEF PartsInit, PartsSit

(* They go on as these do, or rest. *)
LEMMA PartsKept ==
    ASSUME PartsSit, [PartsNext]_parts
    PROVE  /\ PartsSit'
           /\ [PartHeldStep]_parts
           /\ [part = "chairs" => C!ChairStep]_parts
  <1>1. part' = part
    BY DEF PartsNext, parts
  <1>2. CASE UNCHANGED parts
    <2>1. UNCHANGED V!vars /\ UNCHANGED A!vars /\ UNCHANGED C!vars
      BY <1>2 DEF parts, V!vars, A!vars, C!vars
    <2>2. VotesInv => VotesInv'
      BY <2>1, VotesNext, Instances
    <2>3. SessionsInv => SessionsInv'
      BY <2>1, SessionsNext, Instances
    <2>4. CouncilInv => CouncilInv'
      BY <2>1, CouncilNext, Instances
    <2> QED
      BY <1>1, <1>2, <2>2, <2>3, <2>4 DEF PartsSit, PartHeldStep
  <1>3. CASE part = "votes" /\ V!Next
    <2>1. VotesInv' /\ [V!HeldVotesStep]_V!vars
      BY <1>3, VotesNext, Instances DEF PartsSit, PartHeldStep
    <2>2. V!HeldVotesStep \/ UNCHANGED rows
      BY <2>1 DEF V!vars
    <2>3. VotesInv
      BY <1>3 DEF PartsSit, PartHeldStep
    <2>4. V!HeldVotesStep
      BY <2>2, <2>3, RowsArePrefix
    <2> QED
      BY <1>1, <1>3, <2>1, <2>4 DEF PartsSit, PartHeldStep
  <1>4. CASE part \in {"marks", "numbers"} /\ A!Next
    <2>1. SessionsInv
      BY <1>4 DEF PartsSit, PartHeldStep
    <2>2. SessionsInv' /\ (A!HeldStep \/ UNCHANGED A!vars)
      BY <1>4, <2>1, SessionsNext, Instances
    <2>3. A!HeldStep
      BY <2>2 DEF A!vars, A!HeldStep, A!Held, A!Entries, A!EntriesOf
    <2> QED
      BY <1>1, <1>4, <2>2, <2>3 DEF PartsSit, PartHeldStep
  <1>5. CASE part \in {"dates", "seats", "chairs"} /\ C!Next
    <2>1. CouncilInv
      BY <1>5 DEF PartsSit, PartHeldStep
    <2>2. CouncilInv' /\ (C!ChairStep \/ UNCHANGED C!vars)
      BY <1>5, <2>1, CouncilNext, Instances
    <2>3. C!ChairStep
      BY <2>2 DEF C!vars, C!ChairStep
    <2> QED
      BY <1>1, <1>5, <2>2, <2>3 DEF PartsSit, PartHeldStep
  <1>6. CASE part = "logins"
    BY <1>1, <1>6 DEF PartsSit, PartHeldStep
  <1> QED
    BY <1>2, <1>3, <1>4, <1>5, <1>6 DEF PartsNext

(* Every state the parts reach is one the proofs above follow. *)
LEMMA PartsSitAlways == PartsSpec => []PartsSit
  <1>1. PartsInit => PartsSit
    BY PartsAtFirst
  <1>2. PartsSit /\ [PartsNext]_parts => PartsSit'
    BY PartsKept
  <1> QED
    BY <1>1, <1>2, PTL DEF PartsSpec

(* A nominal vote is the count of the votes of the members it lists, and   *)
(* an item has one vote that is not a correction, unless requests          *)
(* overtook each other (order_of_business.py set_vote, correct_vote).      *)
THEOREM VotesOfItemsCounted == PartsSpec => []VotesAreCounted
  <1>1. PartsSit => VotesAreCounted
    BY DEF PartsSit, VotesInv, VotesAreCounted, V!VotesAreCounted
  <1> QED
    BY <1>1, PartsSitAlways, PTL

(* Sessions have numbers of their own, members one mark in each, and every *)
(* mark is of a session that is there (council_sessions.py create_session, *)
(* update_session, record_attendance, delete_session).                     *)
THEOREM SessionsOnRecord == PartsSpec => []SessionsAreRecorded
  <1>1. SessionsInv => A!SessionsAreRecorded
    BY DEF SessionsInv, Tables, JobRows, Ops, A!SessionsAreRecorded, A!TypeOK
  <1>2. PartsSit => SessionsAreRecorded
    BY <1>1 DEF PartsSit, SessionsAreRecorded
  <1> QED
    BY <1>2, PartsSitAlways, PTL

(* Terms share no day, and seats and accounts have one holder on any day,  *)
(* until a request overtakes another (council.py _check_term_dates,        *)
(* _check_member).                                                         *)
THEOREM SeatsHeldApart == PartsSpec => []SeatsAreApart
  <1>1. PartsSit => SeatsAreApart
    BY DEF PartsSit, CouncilInv, SeatsAreApart, C!SeatsAreApart
  <1> QED
    BY <1>1, PartsSitAlways, PTL

(* Of a held session, number, date, marks and votes stay on record, but    *)
(* for corrections and the writes of a request that another one overtook   *)
(* (council_sessions.py update_session, delete_session,                    *)
(* order_of_business.py set_vote; docs/adr/0003).                          *)
THEOREM HeldSessionsKept == PartsSpec => HeldStays
  <1>1. PartsSit /\ [PartsNext]_parts => [PartHeldStep]_parts
    BY PartsKept
  <1> QED
    BY <1>1, PartsSitAlways, PTL DEF PartsSpec, HeldStays

(* Who takes the chair of a committee is a member in office, unless the    *)
(* request was overtaken (council.py _chair).                              *)
THEOREM ChairsOfCommittees == PartsSpec => ChairsAreInOffice
  <1>1. PartsSit /\ [PartsNext]_parts => [part = "chairs" => C!ChairStep]_parts
    BY PartsKept
  <1> QED
    BY <1>1, PartsSitAlways, PTL DEF PartsSpec, ChairsAreInOffice

-----------------------------------------------------------------------------
(***************************************************************************)
(* Logins.  Wrong passwords and codes lock an account, and a code logs in  *)
(* once, for any number of requests, limit, window, clock and recovery     *)
(* codes.                                                                  *)
(*                                                                         *)
(* The lockout is looked at, and the failure counted, some steps apart, so *)
(* the invariant counts the requests between the two (Pending) with the    *)
(* rows there are (Bounded), and with those made since the account was     *)
(* last found locked (Fewer).  A code is accepted against the row as it    *)
(* was loaded: the request has it still (Current), as long as no other has *)
(* written.                                                                *)
(***************************************************************************)
(* Rows older than the window are dropped, so that those left are counted. *)
AllRecent == \A row \in failures : row[1] >= now - Window /\ row[1] <= now

(* Past the look at the lockout, and before the row. *)
Pending == {r \in Requests : reqs[r].pc \in {"checked", "failed"}}
Counting == {r \in Requests : reqs[r].pc = "count"}

Bounded == Cardinality(failures) + Cardinality(Pending) <= MaxFailures - 1 + Cardinality(Requests)

(* Made after the row that says the account is locked. *)
Newer == {row \in failures : row[1] > locked}
Fewer == (Cardinality(failures) >= MaxFailures /\ (Counting = {} \/ Cardinality(failures) > MaxFailures))
             => Cardinality(Newer) + Cardinality(Pending) < Cardinality(Requests)
OneCounts == \A p, q \in Counting : p = q

(* What a request has loaded and found. *)
LoadedJob(job) ==
    /\ job.pc = "login" /\ job.view.on =>
           \/ job.code \in Steps /\ job.code > job.view.last
           \/ job.code \in job.view.codes
    /\ job.pc = "enable" => ~job.view.on /\ job.view.pending /\ job.code \in Steps
    /\ job.pc = "disable" => job.view.on
Loaded == \A r \in Requests : LoadedJob(reqs[r])

WritesRow(job) == job.pc \in {"enable", "disable"} \/ (job.pc = "login" /\ job.view.on)
Current == \A r \in Requests : WritesRow(reqs[r]) /\ reqs[r].fresh => reqs[r].view = account

(* No code of the account, and no step to come, was used before. *)
NotAgain(row, codes) == \A c \in codes : c \notin row.codes /\ (c \in Steps => c <= row.last)
Unused == account.on => NotAgain(account, used)

IInv ==
    /\ TypeOK
    /\ IsFiniteSet(failures) /\ AllRecent
    /\ Bounded
    /\ ~crowded => OneCounts /\ Fewer
    /\ Loaded
    /\ Current
    /\ ~overtaken => twice = {} /\ Unused

-----------------------------------------------------------------------------
(* Counting                                                                *)

LEMMA Constants == /\ MaxFailures \in Nat /\ MaxFailures > 0 /\ Window \in Nat /\ MaxNow \in Nat /\ MaxNow > 0
                   /\ IsFiniteSet(Requests) /\ Cardinality(Requests) \in Nat
  BY NumbersAssumption, RequestsAssumption, FS_CardinalityType

LEMMA Counts ==
    ASSUME IInv
    PROVE  /\ IsFiniteSet(Pending) /\ Cardinality(Pending) \in Nat
           /\ Cardinality(Pending) <= Cardinality(Requests)
           /\ IsFiniteSet(Newer) /\ Cardinality(Newer) \in Nat /\ Cardinality(failures) \in Nat
  <1>1. Pending \in SUBSET Requests /\ Newer \in SUBSET failures
    BY DEF Pending, Newer
  <1>2. IsFiniteSet(Pending) /\ Cardinality(Pending) <= Cardinality(Requests)
    BY <1>1, Constants, FS_Subset
  <1>3. IsFiniteSet(failures) /\ IsFiniteSet(Newer)
    BY <1>1, FS_Subset DEF IInv
  <1> QED
    BY <1>2, <1>3, FS_CardinalityType

(* The rows and the requests that fail only become fewer. *)
LEMMA LockQuiet ==
    ASSUME IInv, failures' \subseteq failures, locked' = locked, crowded' = crowded,
           Pending' \subseteq Pending, Counting' = Counting
    PROVE  IsFiniteSet(failures') /\ Bounded' /\ (~crowded' => OneCounts' /\ Fewer')
  <1>1. Newer' \in SUBSET Newer /\ failures' \in SUBSET failures /\ Pending' \in SUBSET Pending
    BY DEF Newer
  <1>2. /\ IsFiniteSet(failures') /\ Cardinality(failures') <= Cardinality(failures)
        /\ Cardinality(Pending') <= Cardinality(Pending)
        /\ Cardinality(Newer') <= Cardinality(Newer)
    BY <1>1, Counts, FS_Subset DEF IInv
  <1>3. /\ Cardinality(failures') \in Nat /\ Cardinality(Pending') \in Nat /\ Cardinality(Newer') \in Nat
    <2>1. IsFiniteSet(Pending') /\ IsFiniteSet(Newer')
      BY <1>1, Counts, FS_Subset
    <2> QED
      BY <1>2, <2>1, FS_CardinalityType
  <1>4. Bounded'
    BY <1>2, <1>3, Counts, Constants DEF IInv, Bounded
  <1>5. ~crowded' => OneCounts'
    BY DEF IInv, OneCounts
  <1>6. ~crowded' => Fewer'
    BY <1>2, <1>3, Counts, Constants DEF IInv, Fewer
  <1> QED
    BY <1>2, <1>4, <1>5, <1>6

(* A login or an unlocking clears the count. *)
LEMMA LockCleared ==
    ASSUME IInv, failures' = {}, crowded' = crowded, Pending' \subseteq Pending, Counting' = Counting
    PROVE  IsFiniteSet(failures') /\ Bounded' /\ (~crowded' => OneCounts' /\ Fewer')
  <1>1. IsFiniteSet(failures') /\ Cardinality(failures') = 0
    BY FS_EmptySet
  <1>2. Cardinality(Pending') <= Cardinality(Pending) /\ Cardinality(Pending') \in Nat
    <2>1. Pending' \in SUBSET Pending
      OBVIOUS
    <2>2. IsFiniteSet(Pending') /\ Cardinality(Pending') <= Cardinality(Pending)
      BY <2>1, Counts, FS_Subset
    <2> QED
      BY <2>2, FS_CardinalityType
  <1>3. Bounded'
    BY <1>1, <1>2, Counts, Constants DEF Bounded
  <1>4. ~crowded' => OneCounts' /\ Fewer'
    BY <1>1, Constants DEF IInv, OneCounts, Fewer
  <1> QED
    BY <1>1, <1>3, <1>4

(* There is always another row to make. *)
LEMMA RowIsNew ==
    ASSUME IsFiniteSet(failures)
    PROVE  NewRow \notin failures /\ NewRow[1] = now /\ NewRow[2] \in Nat /\ NewRow = <<now, NewRow[2]>>
  <1> DEFINE made == Cardinality(failures)
             f == [n \in 1 .. made + 1 |-> <<now, n>>]
  <1>1. made \in Nat
    BY FS_CardinalityType
  <1>2. IsFiniteSet(1 .. made + 1) /\ Cardinality(1 .. made + 1) = made + 1
    BY <1>1, FS_Interval
  <1>3. \E n \in 1 .. made + 1 : <<now, n>> \notin failures
    <2> SUFFICES ASSUME \A n \in 1 .. made + 1 : <<now, n>> \in failures PROVE FALSE
      OBVIOUS
    <2>1. f \in [1 .. made + 1 -> failures]
      OBVIOUS
    <2> HIDE DEF f
    <2>2. \E x, y \in 1 .. made + 1 : x # y /\ f[x] = f[y]
      BY <1>1, <1>2, <2>1, FS_PigeonHole
    <2> QED
      BY <2>2 DEF f
  <1> QED
    BY <1>1, <1>3 DEF NewRow

-----------------------------------------------------------------------------
(* Codes                                                                   *)

CodesKept == ~overtaken => twice = {} /\ Unused

(* Requests that load the account, or neither load nor write it. *)
Loads == \A q \in Requests : \/ reqs'[q] = reqs[q]
                             \/ LoadedJob(reqs'[q]) /\ (WritesRow(reqs'[q]) => reqs'[q].view = account)
LEMMA CodesQuiet ==
    ASSUME IInv, UNCHANGED <<account, used, twice, overtaken>>, Loads
    PROVE  Loaded' /\ Current' /\ CodesKept'
  <1>1. Loaded'
    BY DEF IInv, Loaded, Loads
  <1>2. Current'
    BY DEF IInv, Current, Loads
  <1>3. CodesKept'
    BY DEF IInv, CodesKept, Unused
  <1> QED
    BY <1>1, <1>2, <1>3

(* A request that writes the account: what it had loaded is the account,   *)
(* or the rows are marked as written over.                                 *)
LEMMA Wrote ==
    ASSUME IInv, NEW r \in Requests, WritesRow(reqs[r]), NEW new \in AccountRows, WriteAccount(r, new)
    PROVE  /\ account' \in AccountRows /\ reqs' \in [Requests -> Jobs] /\ overtaken' \in BOOLEAN
           /\ Loaded' /\ Current'
           /\ Pending' = Pending /\ Counting' = Counting
           /\ ~overtaken' => ~overtaken /\ reqs[r].view = account /\ account' = new
  <1>1. TypeOK /\ reqs \in [Requests -> Jobs] /\ reqs[r] \in Jobs /\ account \in AccountRows
    BY DEF IInv, TypeOK
  <1>2. Idle \in Jobs
    BY DEF Idle, Jobs, Off, AccountRows, Codes
  <1>3. account' \in AccountRows
    BY <1>1 DEF WriteAccount, Write, AccountRows
  <1>4. reqs'[r] = Idle
    BY <1>1 DEF WriteAccount
  <1>5. ASSUME NEW q \in Requests, q # r
        PROVE  /\ reqs'[q] \in Jobs /\ reqs'[q].pc = reqs[q].pc
               /\ reqs'[q].view = reqs[q].view /\ reqs'[q].code = reqs[q].code
               /\ WritesRow(reqs'[q]) => ~reqs'[q].fresh
    <2>1. CASE Stale(q, r)
      <3>1. reqs'[q] = [reqs[q] EXCEPT !.fresh = FALSE]
        BY <2>1, <1>5 DEF WriteAccount
      <3> QED
        BY <3>1, <1>1 DEF Jobs
    <2>2. CASE ~Stale(q, r)
      <3>1. reqs'[q] = reqs[q]
        BY <2>2, <1>5 DEF WriteAccount
      <3> QED
        BY <3>1, <2>2, <1>1, <1>5 DEF Stale, WritesRow
    <2> QED
      BY <2>1, <2>2
  <1>6. reqs' \in [Requests -> Jobs]
    <2>1. \A q \in Requests : reqs'[q] \in Jobs
      BY <1>2, <1>4, <1>5
    <2> QED
      BY <2>1 DEF WriteAccount
  <1>7. Loaded'
    <2>1. LoadedJob(reqs'[r])
      BY <1>4 DEF LoadedJob, Idle
    <2>2. \A q \in Requests \ {r} : LoadedJob(reqs'[q])
      BY <1>5 DEF IInv, Loaded, LoadedJob
    <2> QED
      BY <2>1, <2>2 DEF Loaded
  <1>8. Current'
    <2>1. ~WritesRow(reqs'[r])
      BY <1>4 DEF WritesRow, Idle
    <2> QED
      BY <2>1, <1>5 DEF Current
  <1>9. Pending' = Pending /\ Counting' = Counting
    <2>1. reqs[r].pc \notin {"checked", "failed", "count"} /\ reqs'[r].pc \notin {"checked", "failed", "count"}
      BY <1>4 DEF WritesRow, Idle
    <2> QED
      BY <2>1, <1>5 DEF Pending, Counting
  <1>10. overtaken' \in BOOLEAN /\ (~overtaken' => ~overtaken /\ reqs[r].fresh)
    BY <1>1 DEF WriteAccount, TypeOK, Jobs
  <1>11. ASSUME ~overtaken' PROVE reqs[r].view = account /\ account' = new
    <2>1. reqs[r].view = account
      BY <1>10, <1>11 DEF IInv, Current
    <2> QED
      BY <2>1, <1>1 DEF WriteAccount, Write, AccountRows
  <1> QED
    BY <1>3, <1>6, <1>7, <1>8, <1>9, <1>10, <1>11

-----------------------------------------------------------------------------
(* The actions                                                             *)

LEMMA InitInv == Init => IInv
  <1> SUFFICES ASSUME Init PROVE IInv
    OBVIOUS
  <1>1. Off \in AccountRows /\ Idle \in Jobs
    BY DEF Idle, Jobs, Off, AccountRows, Codes
  <1>2. TypeOK
    <2>1. now \in 1 .. MaxNow
      BY Constants DEF Init
    <2>2. reqs \in [Requests -> Jobs]
      BY <1>1 DEF Init
    <2>3. overtaken \in BOOLEAN /\ crowded \in BOOLEAN
      BY DEF Init
    <2> QED
      BY <1>1, <2>1, <2>2, <2>3 DEF Init, TypeOK
  <1>3. IsFiniteSet(failures) /\ Cardinality(failures) = 0 /\ AllRecent
    BY FS_EmptySet DEF Init, AllRecent
  <1>4. Pending = {}
    BY DEF Init, Pending, Idle
  <1>5. Bounded
    <2>1. Cardinality(Pending) = 0
      BY <1>4, FS_EmptySet
    <2> QED
      BY <2>1, <1>3, Constants DEF Bounded
  <1>6. OneCounts /\ Fewer
    BY <1>3, Constants DEF Init, OneCounts, Fewer, Counting, Idle
  <1>7. Loaded /\ Current
    BY DEF Init, Loaded, LoadedJob, Current, WritesRow, Idle
  <1>8. twice = {} /\ Unused
    BY DEF Init, Unused, NotAgain
  <1> QED
    BY <1>2, <1>3, <1>5, <1>6, <1>7, <1>8 DEF IInv

(* A request that goes on to job, the rest being as it was. *)
LEMMA Goes ==
    ASSUME IInv, NEW r \in Requests, NEW job \in Jobs, Do(r, job)
    PROVE  /\ reqs' \in [Requests -> Jobs] /\ reqs'[r] = job
           /\ \A q \in Requests \ {r} : reqs'[q] = reqs[q]
  BY DEF IInv, TypeOK, Do

(* A request that loads the account, or ends, with no failure. *)
LEMMA LoadInv ==
    ASSUME IInv, NEW r \in Requests, NEW job \in Jobs, Do(r, job),
           job.pc \notin {"checked", "count"}, job.pc = "failed" => reqs[r].pc = "checked", reqs[r].pc # "count",
           LoadedJob(job), WritesRow(job) => job.view = account,
           UNCHANGED <<now, failures, locked, account, used, twice, overtaken, crowded>>
    PROVE  IInv'
  <1>1. reqs' \in [Requests -> Jobs] /\ reqs'[r] = job /\ \A q \in Requests \ {r} : reqs'[q] = reqs[q]
    BY Goes
  <1>2. Pending' \subseteq Pending /\ Counting' = Counting
    BY <1>1 DEF Pending, Counting
  <1>3. IsFiniteSet(failures') /\ Bounded' /\ (~crowded' => OneCounts' /\ Fewer')
    BY <1>2, LockQuiet
  <1>4. Loaded' /\ Current' /\ CodesKept'
    <2>1. LoadedJob(reqs'[r]) /\ (WritesRow(reqs'[r]) => reqs'[r].view = account)
      BY <1>1
    <2> QED
      BY <1>1, <2>1, CodesQuiet DEF Loads
  <1>5. TypeOK' /\ AllRecent'
    BY <1>1 DEF IInv, TypeOK, AllRecent
  <1> QED
    BY <1>3, <1>4, <1>5 DEF IInv, CodesKept

LEMMA TickInv == ASSUME IInv, Tick PROVE IInv'
  <1>1. /\ failures' = {row \in failures : row[1] >= now' - Window} /\ now' = now + 1 /\ now < MaxNow
        /\ UNCHANGED <<locked, account, used, twice, overtaken, crowded, reqs>>
    BY DEF Tick
  <1>2. Pending' = Pending /\ Counting' = Counting
    BY <1>1 DEF Pending, Counting
  <1>3. IsFiniteSet(failures') /\ Bounded' /\ (~crowded' => OneCounts' /\ Fewer')
    <2>1. failures' \subseteq failures
      BY <1>1
    <2> QED
      BY <1>1, <1>2, <2>1, LockQuiet
  <1>4. Loaded' /\ Current' /\ CodesKept'
    BY <1>1, CodesQuiet DEF Loads
  <1>5. TypeOK'
    <2>1. now' \in 1 .. MaxNow
      BY <1>1, Constants DEF IInv, TypeOK
    <2> QED
      BY <1>1, <2>1 DEF IInv, TypeOK
  <1>6. AllRecent'
    <2> SUFFICES ASSUME NEW row \in failures' PROVE row[1] >= now' - Window /\ row[1] <= now'
      BY DEF AllRecent
    <2>1. row \in failures /\ row[1] >= now' - Window
      BY <1>1
    <2>2. row[1] <= now /\ row[1] \in Int /\ now \in Int
      BY <2>1 DEF IInv, TypeOK, AllRecent
    <2> QED
      BY <1>1, <2>1, <2>2
  <1> QED
    BY <1>3, <1>4, <1>5, <1>6 DEF IInv, CodesKept

(* The lockout is looked at: there are fewer rows than the limit. *)
LEMMA LoginCheckInv == ASSUME IInv, NEW r \in Requests, LoginCheck(r) PROVE IInv'
  <1> DEFINE job == [Idle EXCEPT !.pc = "checked"]
  <1>1. /\ reqs[r].pc = "idle" /\ ~IsUsernameLocked /\ Do(r, job)
        /\ UNCHANGED <<now, failures, locked, account, used, twice, overtaken, crowded>>
    BY DEF LoginCheck
  <1>2. job \in Jobs /\ job.pc = "checked"
    BY DEF Idle, Jobs, Off, AccountRows, Codes
  <1> HIDE DEF job
  <1>3. reqs' \in [Requests -> Jobs] /\ reqs'[r] = job /\ \A q \in Requests \ {r} : reqs'[q] = reqs[q]
    BY <1>1, <1>2, Goes
  <1>4. Cardinality(failures) < MaxFailures
    <2>1. Recent = failures
      BY DEF IInv, AllRecent, Recent
    <2> QED
      BY <1>1, <2>1, Counts, Constants DEF IsUsernameLocked, RecentFailureCount
  <1>5. Cardinality(Pending') <= Cardinality(Requests) /\ Cardinality(Pending') \in Nat
    <2>1. Pending' \in SUBSET Requests
      BY DEF Pending
    <2>2. IsFiniteSet(Pending') /\ Cardinality(Pending') <= Cardinality(Requests)
      BY <2>1, Constants, FS_Subset
    <2> QED
      BY <2>2, FS_CardinalityType
  <1>6. Bounded'
    BY <1>1, <1>4, <1>5, Counts, Constants DEF Bounded
  <1>7. ~crowded' => OneCounts' /\ Fewer'
    <2>1. Counting' = Counting
      BY <1>1, <1>2, <1>3 DEF Counting
    <2>2. Fewer'
      BY <1>1, <1>4, Counts, Constants DEF Fewer
    <2> QED
      BY <1>1, <2>1, <2>2 DEF IInv, OneCounts
  <1>8. Loaded' /\ Current' /\ CodesKept'
    <2>1. LoadedJob(reqs'[r]) /\ ~WritesRow(reqs'[r])
      BY <1>2, <1>3 DEF LoadedJob, WritesRow
    <2> QED
      BY <1>1, <1>3, <2>1, CodesQuiet DEF Loads
  <1>9. TypeOK' /\ AllRecent'
    BY <1>1, <1>3 DEF IInv, TypeOK, AllRecent
  <1> QED
    BY <1>1, <1>6, <1>7, <1>8, <1>9 DEF IInv, CodesKept

LEMMA LoginAsksInv == ASSUME IInv, NEW r \in Requests, LoginAsks(r) PROVE IInv'
  <1>1. Idle \in Jobs /\ Idle.pc = "idle" /\ LoadedJob(Idle) /\ ~WritesRow(Idle)
    BY DEF Idle, Jobs, Off, AccountRows, Codes, LoadedJob, WritesRow
  <1> QED
    BY <1>1, LoadInv DEF LoginAsks

LEMMA LoginLoadInv ==
    ASSUME IInv, NEW r \in Requests, NEW password \in BOOLEAN, NEW c \in Codes, LoginLoad(r, password, c)
    PROVE  IInv'
  <1>1. /\ reqs[r].pc = "checked"
        /\ UNCHANGED <<now, failures, locked, account, used, twice, overtaken, crowded>>
    BY DEF LoginLoad
  <1>2. account \in AccountRows /\ Wrong \in Codes
    BY DEF IInv, TypeOK, Codes
  <1>3. CASE Do(r, [Idle EXCEPT !.pc = "failed"])
    <2> DEFINE job == [Idle EXCEPT !.pc = "failed"]
    <2>1. job \in Jobs /\ job.pc = "failed" /\ LoadedJob(job) /\ ~WritesRow(job)
      BY DEF Idle, Jobs, Off, AccountRows, Codes, LoadedJob, WritesRow
    <2> HIDE DEF job
    <2>2. Do(r, job)
      BY <1>3 DEF job
    <2> QED
      BY <1>1, <2>1, <2>2, LoadInv
  <1>4. ASSUME account.on => Accepted(c, account),
               Do(r, [pc |-> "login", view |-> account, fresh |-> TRUE, code |-> IF account.on THEN c ELSE Wrong])
        PROVE  IInv'
    <2> DEFINE code == IF account.on THEN c ELSE Wrong
               job == [pc |-> "login", view |-> account, fresh |-> TRUE, code |-> code]
    <2>1. job \in Jobs
      BY <1>2 DEF Jobs
    <2>2. job.pc = "login" /\ job.view = account /\ job.code = code
      OBVIOUS
    <2>3. Do(r, job)
      BY <1>4
    <2>4. account.on => (code \in Steps /\ code > account.last) \/ code \in account.codes
      BY <1>4 DEF Accepted, MatchingStep
    <2> HIDE DEF job
    <2>5. LoadedJob(job)
      BY <2>2, <2>4 DEF LoadedJob
    <2> QED
      BY <1>1, <2>1, <2>2, <2>3, <2>5, LoadInv
  <1> QED
    BY <1>3, <1>4 DEF LoginLoad

(* A code that was accepted is not one of those used before: it is a later *)
(* step than the last, or one of the codes left.                           *)
LEMMA CodeIsNew ==
    ASSUME IInv, NEW view \in AccountRows, NEW c \in Codes, ~overtaken, account.on, account = view,
           (c \in Steps /\ c > view.last) \/ c \in view.codes
    PROVE  /\ c \notin used
           /\ After(view, c) \in AccountRows
           /\ After(view, c).on
           /\ NotAgain(After(view, c), used \cup {c})
  <1>1. Unused /\ used \subseteq Codes
    BY DEF IInv, TypeOK
  <1>2. Steps \subseteq Int /\ view.last \in Int /\ view.codes \subseteq Recovery /\ Recovery \cap Steps = {}
    BY Constants, RecoveryAssumption DEF AccountRows, Steps, NoStep
  <1>3. CASE c \in Steps
    <2>1. c > view.last
      BY <1>2, <1>3
    <2>2. /\ After(view, c) \in AccountRows /\ After(view, c).on = view.on
          /\ After(view, c).codes = view.codes /\ After(view, c).last = c
      BY <1>3 DEF After, AccountRows
    <2>3. c \notin used
      BY <1>1, <1>2, <1>3, <2>1 DEF Unused, NotAgain
    <2>4. \A k \in used : k \in Steps => k <= c
      BY <1>1, <1>2, <1>3, <2>1 DEF Unused, NotAgain
    <2> QED
      BY <1>1, <1>2, <1>3, <2>2, <2>3, <2>4 DEF Unused, NotAgain
  <1>4. CASE c \notin Steps
    <2>1. c \in view.codes
      BY <1>4
    <2>2. /\ After(view, c) \in AccountRows /\ After(view, c).on = view.on
          /\ After(view, c).codes = view.codes \ {c} /\ After(view, c).last = view.last
      BY <1>4 DEF After, AccountRows
    <2>3. c \notin used
      BY <1>1, <2>1 DEF Unused, NotAgain
    <2> QED
      BY <1>1, <1>4, <2>2, <2>3 DEF Unused, NotAgain
  <1> QED
    BY <1>3, <1>4

LEMMA LoginCommitInv == ASSUME IInv, NEW r \in Requests, LoginCommit(r) PROVE IInv'
  <1>1. reqs[r].pc = "login" /\ failures' = {} /\ locked' = Never /\ UNCHANGED <<now, crowded>>
    BY DEF LoginCommit, ResetFailures
  <1>2. TypeOK /\ reqs[r] \in Jobs /\ Never \in {Never} \cup 1 .. MaxNow
    BY DEF IInv, TypeOK
  <1>3. AllRecent'
    BY <1>1 DEF AllRecent
  <1>4. CASE ~reqs[r].view.on
    <2>1. Do(r, Idle) /\ UNCHANGED <<account, used, twice, overtaken>>
      BY <1>4 DEF LoginCommit
    <2>2. Idle \in Jobs /\ Idle.pc = "idle" /\ LoadedJob(Idle) /\ ~WritesRow(Idle)
      BY DEF Idle, Jobs, Off, AccountRows, Codes, LoadedJob, WritesRow
    <2>3. reqs' \in [Requests -> Jobs] /\ reqs'[r] = Idle /\ \A q \in Requests \ {r} : reqs'[q] = reqs[q]
      BY <2>1, <2>2, Goes
    <2>4. Pending' \subseteq Pending /\ Counting' = Counting
      BY <1>1, <2>2, <2>3 DEF Pending, Counting
    <2>5. IsFiniteSet(failures') /\ Bounded' /\ (~crowded' => OneCounts' /\ Fewer')
      BY <1>1, <2>4, LockCleared
    <2>6. Loaded' /\ Current' /\ CodesKept'
      BY <2>1, <2>2, <2>3, CodesQuiet DEF Loads
    <2>7. TypeOK'
      BY <1>1, <1>2, <2>1, <2>3 DEF TypeOK
    <2> QED
      BY <1>3, <2>5, <2>6, <2>7 DEF IInv, CodesKept
  <1>5. CASE reqs[r].view.on
    <2> DEFINE view == reqs[r].view
               c == reqs[r].code
               new == After(view, c)
    <2>1. WriteAccount(r, new) /\ Use(c)
      BY <1>5 DEF LoginCommit
    <2>2. view \in AccountRows /\ c \in Codes /\ new \in AccountRows
      BY <1>2 DEF Jobs, After, AccountRows
    <2>3. WritesRow(reqs[r])
      BY <1>1, <1>5 DEF WritesRow
    <2>4. (c \in Steps /\ c > view.last) \/ c \in view.codes
      BY <1>1, <1>5 DEF IInv, Loaded, LoadedJob
    <2>5. /\ account' \in AccountRows /\ reqs' \in [Requests -> Jobs] /\ overtaken' \in BOOLEAN
          /\ Loaded' /\ Current' /\ Pending' = Pending /\ Counting' = Counting
          /\ ~overtaken' => ~overtaken /\ view = account /\ account' = new
      BY <2>1, <2>2, <2>3, Wrote
    <2>6. IsFiniteSet(failures') /\ Bounded' /\ (~crowded' => OneCounts' /\ Fewer')
      BY <1>1, <2>5, LockCleared
    <2>7. CodesKept'
      <3> SUFFICES ASSUME ~overtaken' PROVE twice' = {} /\ Unused'
        BY DEF CodesKept
      <3>1. ~overtaken /\ account = view /\ account.on /\ account' = new
        BY <1>5, <2>5
      <3>2. c \notin used /\ NotAgain(new, used \cup {c})
        BY <2>2, <2>4, <3>1, CodeIsNew
      <3>3. used' = used \cup {c} /\ twice' = twice \cup ({c} \cap used)
        BY <2>1 DEF Use
      <3>4. twice = {}
        BY <3>1 DEF IInv
      <3> HIDE DEF new, c, view
      <3> QED
        BY <3>1, <3>2, <3>3, <3>4 DEF Unused
    <2>8. used' \subseteq Codes /\ twice' \subseteq used'
      BY <1>2, <2>1, <2>2 DEF Use, TypeOK
    <2>9. TypeOK'
      BY <1>1, <1>2, <2>5, <2>8 DEF TypeOK
    <2> QED
      BY <1>3, <2>5, <2>6, <2>7, <2>9 DEF IInv, CodesKept
  <1> QED
    BY <1>4, <1>5

(* The row is made: one more of them, and one less request to make one. *)
LEMMA LoginFailedInv == ASSUME IInv, NEW r \in Requests, LoginFailed(r) PROVE IInv'
  <1> DEFINE job == [Idle EXCEPT !.pc = "count"]
  <1>1. /\ reqs[r].pc = "failed" /\ failures' = failures \cup {NewRow} /\ Do(r, job)
        /\ crowded' = (crowded \/ \E q \in Requests : reqs[q].pc = "count")
        /\ UNCHANGED <<now, locked, account, used, twice, overtaken>>
    BY DEF LoginFailed
  <1>2. job \in Jobs /\ job.pc = "count" /\ LoadedJob(job) /\ ~WritesRow(job)
    BY DEF Idle, Jobs, Off, AccountRows, Codes, LoadedJob, WritesRow
  <1> HIDE DEF job
  <1>3. reqs' \in [Requests -> Jobs] /\ reqs'[r] = job /\ \A q \in Requests \ {r} : reqs'[q] = reqs[q]
    BY <1>1, <1>2, Goes
  <1>4. /\ NewRow \notin failures /\ NewRow[1] = now /\ NewRow[2] \in Nat /\ NewRow = <<now, NewRow[2]>>
        /\ IsFiniteSet(failures)
    BY RowIsNew DEF IInv
  <1>5. IsFiniteSet(failures') /\ Cardinality(failures') = Cardinality(failures) + 1
    BY <1>1, <1>4, FS_AddElement
  <1>6. Pending' = Pending \ {r} /\ r \in Pending
    BY <1>1, <1>2, <1>3 DEF Pending
  <1>7. Cardinality(Pending') = Cardinality(Pending) - 1
    BY <1>6, Counts, FS_RemoveElement
  <1>8. Bounded'
    BY <1>5, <1>7, Counts, Constants DEF IInv, Bounded
  <1>9. ASSUME ~crowded' PROVE OneCounts' /\ Fewer'
    <2>1. ~crowded /\ Counting = {}
      BY <1>1, <1>9 DEF Counting
    <2>2. Counting' = {r}
      BY <1>2, <1>3, <2>1 DEF Counting
    <2>3. Newer' \subseteq Newer \cup {NewRow}
      BY <1>1 DEF Newer
    <2>4. Cardinality(Newer') <= Cardinality(Newer) + 1 /\ Cardinality(Newer') \in Nat
      <3> DEFINE more == Newer \cup {NewRow}
      <3>1. IsFiniteSet(more) /\ Cardinality(more) <= Cardinality(Newer) + 1
        <4>1. IsFiniteSet(Newer)
          BY Counts
        <4>2. IsFiniteSet(more) /\ Cardinality(more) = IF NewRow \in Newer THEN Cardinality(Newer) ELSE Cardinality(Newer) + 1
          BY <4>1, FS_AddElement
        <4> QED
          BY <4>2, Counts
      <3> HIDE DEF more
      <3>2. IsFiniteSet(Newer') /\ Cardinality(Newer') <= Cardinality(more)
        BY <2>3, <3>1, FS_Subset DEF more
      <3> QED
        BY <3>1, <3>2, Counts, FS_CardinalityType
    <2>5. Fewer'
      BY <1>5, <1>7, <2>1, <2>2, <2>4, Counts, Constants DEF IInv, Fewer
    <2> QED
      BY <2>2, <2>5 DEF OneCounts
  <1>10. Loaded' /\ Current' /\ CodesKept'
    BY <1>1, <1>2, <1>3, CodesQuiet DEF Loads
  <1>11. TypeOK'
    <2>1. NewRow \in (1 .. MaxNow) \X Nat
      BY <1>4 DEF IInv, TypeOK
    <2>2. crowded' \in BOOLEAN
      BY <1>1 DEF IInv, TypeOK
    <2> QED
      BY <1>1, <1>3, <2>1, <2>2 DEF IInv, TypeOK
  <1>12. AllRecent'
    BY <1>1, <1>4, Constants DEF IInv, TypeOK, AllRecent
  <1> QED
    BY <1>5, <1>8, <1>9, <1>10, <1>11, <1>12 DEF IInv, CodesKept

(* The rows are counted: the account is locked as of now, or had been when *)
(* there were already more rows than the limit, or is not.                 *)
LEMMA LoginCountInv == ASSUME IInv, NEW r \in Requests, LoginCount(r) PROVE IInv'
  <1>1. /\ reqs[r].pc = "count" /\ Do(r, Idle)
        /\ locked' = (IF RecentFailureCount = MaxFailures THEN now ELSE locked)
        /\ UNCHANGED <<now, failures, account, used, twice, overtaken, crowded>>
    BY DEF LoginCount
  <1>2. Idle \in Jobs /\ Idle.pc = "idle" /\ LoadedJob(Idle) /\ ~WritesRow(Idle)
    BY DEF Idle, Jobs, Off, AccountRows, Codes, LoadedJob, WritesRow
  <1>3. reqs' \in [Requests -> Jobs] /\ reqs'[r] = Idle /\ \A q \in Requests \ {r} : reqs'[q] = reqs[q]
    BY <1>1, <1>2, Goes
  <1>4. Pending' = Pending /\ r \notin Pending
    BY <1>1, <1>2, <1>3 DEF Pending
  <1>5. RecentFailureCount = Cardinality(failures)
    <2>1. Recent = failures
      BY DEF IInv, AllRecent, Recent
    <2> QED
      BY <2>1 DEF RecentFailureCount
  <1>6. Bounded'
    BY <1>1, <1>4 DEF IInv, Bounded
  <1>7. ASSUME ~crowded' PROVE OneCounts' /\ Fewer'
    <2>1. OneCounts /\ Fewer /\ r \in Counting
      BY <1>1, <1>7 DEF IInv, Counting
    <2>2. Counting' = {}
      BY <1>2, <1>3, <2>1 DEF OneCounts, Counting
    <2>3. CASE Cardinality(failures) = MaxFailures
      <3>1. locked' = now
        BY <1>1, <1>5, <2>3
      <3>2. Newer' = {}
        <4>1. \A row \in failures : row[1] <= now /\ row[1] \in Int /\ now \in Int
          BY DEF IInv, TypeOK, AllRecent
        <4> QED
          BY <1>1, <3>1, <4>1 DEF Newer
      <3>3. Cardinality(Newer') = 0
        BY <3>2, FS_EmptySet
      <3>4. Cardinality(Pending) < Cardinality(Requests)
        <4>1. Pending \in SUBSET (Requests \ {r})
          BY <1>4 DEF Pending
        <4>2. IsFiniteSet(Requests \ {r}) /\ Cardinality(Requests \ {r}) = Cardinality(Requests) - 1
          BY Constants, FS_RemoveElement
        <4>3. Cardinality(Pending) <= Cardinality(Requests \ {r})
          BY <4>1, <4>2, FS_Subset
        <4> QED
          BY <4>2, <4>3, Counts, Constants
      <3>5. Fewer'
        BY <1>4, <3>3, <3>4, Counts DEF Fewer
      <3> QED
        BY <2>2, <3>5 DEF OneCounts
    <2>4. CASE Cardinality(failures) # MaxFailures
      <3>1. locked' = locked
        BY <1>1, <1>5, <2>4
      <3>2. Newer' = Newer
        BY <1>1, <3>1 DEF Newer
      <3>3. Fewer'
        BY <1>1, <1>4, <2>1, <2>4, <3>2, Counts, Constants DEF Fewer
      <3> QED
        BY <2>2, <3>3 DEF OneCounts
    <2> QED
      BY <2>3, <2>4
  <1>8. Loaded' /\ Current' /\ CodesKept'
    BY <1>1, <1>2, <1>3, CodesQuiet DEF Loads
  <1>9. TypeOK'
    <2>1. locked' \in {Never} \cup 1 .. MaxNow
      BY <1>1 DEF IInv, TypeOK
    <2> QED
      BY <1>1, <1>3, <2>1 DEF IInv, TypeOK
  <1>10. AllRecent'
    BY <1>1 DEF IInv, AllRecent
  <1> QED
    BY <1>1, <1>6, <1>7, <1>8, <1>9, <1>10 DEF IInv, CodesKept

LEMMA UnlockUserInv == ASSUME IInv, UnlockUser PROVE IInv'
  <1>1. /\ failures' = {} /\ locked' = Never
        /\ UNCHANGED <<now, account, used, twice, overtaken, crowded, reqs>>
    BY DEF UnlockUser, ResetFailures
  <1>2. Pending' = Pending /\ Counting' = Counting
    BY <1>1 DEF Pending, Counting
  <1>3. IsFiniteSet(failures') /\ Bounded' /\ (~crowded' => OneCounts' /\ Fewer')
    BY <1>1, <1>2, LockCleared
  <1>4. Loaded' /\ Current' /\ CodesKept'
    BY <1>1, CodesQuiet DEF Loads
  <1>5. TypeOK' /\ AllRecent'
    BY <1>1 DEF IInv, TypeOK, AllRecent
  <1> QED
    BY <1>3, <1>4, <1>5 DEF IInv, CodesKept

(* The lock part of a step that leaves failures and the requests that fail *)
(* alone.                                                                  *)
LEMMA LockRests ==
    ASSUME IInv, UNCHANGED <<now, failures, locked, crowded>>, Pending' = Pending, Counting' = Counting
    PROVE  IsFiniteSet(failures') /\ AllRecent' /\ Bounded' /\ (~crowded' => OneCounts' /\ Fewer')
  <1>1. AllRecent'
    BY DEF IInv, AllRecent
  <1> QED
    BY <1>1, LockQuiet

(* The account is off: no request has loaded it to use a code.             *)
LEMMA StartTwoStepSetupInv == ASSUME IInv, StartTwoStepSetup PROVE IInv'
  <1>1. /\ ~account.on /\ account' = [account EXCEPT !.pending = TRUE]
        /\ UNCHANGED <<now, failures, locked, used, twice, overtaken, crowded, reqs>>
    BY DEF StartTwoStepSetup
  <1>2. account \in AccountRows /\ account' \in AccountRows /\ ~account'.on
    BY <1>1 DEF IInv, TypeOK, AccountRows
  <1>3. Pending' = Pending /\ Counting' = Counting
    BY <1>1 DEF Pending, Counting
  <1>4. Loaded'
    BY <1>1 DEF IInv, Loaded
  <1>5. Current'
    <2> SUFFICES ASSUME NEW r \in Requests, WritesRow(reqs[r]), reqs[r].fresh PROVE reqs[r].view = account'
      BY <1>1 DEF Current
    <2>1. reqs[r].view = account
      BY DEF IInv, Current
    <2>2. account.pending
      BY <1>1, <2>1 DEF IInv, Loaded, LoadedJob, WritesRow
    <2>3. account' = account
      BY <1>1, <1>2, <2>2 DEF AccountRows
    <2> QED
      BY <2>1, <2>3
  <1>6. CodesKept'
    BY <1>1, <1>2 DEF IInv, CodesKept, Unused
  <1>7. TypeOK'
    BY <1>1, <1>2 DEF IInv, TypeOK
  <1> QED
    BY <1>1, <1>3, <1>4, <1>5, <1>6, <1>7, LockRests DEF IInv, CodesKept

LEMMA EnableLoadInv == ASSUME IInv, NEW r \in Requests, NEW c \in Codes, EnableLoad(r, c) PROVE IInv'
  <1> DEFINE job == [pc |-> "enable", view |-> account, code |-> c, fresh |-> TRUE]
  <1>1. /\ reqs[r].pc = "idle" /\ ~account.on /\ account.pending /\ c \in Steps /\ Do(r, job)
        /\ UNCHANGED <<now, failures, locked, account, used, twice, overtaken, crowded>>
    BY DEF EnableLoad, MatchingStep
  <1>2. job \in Jobs /\ job.pc = "enable" /\ job.view = account /\ job.code = c
    BY DEF IInv, TypeOK, Jobs
  <1>3. LoadedJob(job)
    BY <1>1, <1>2 DEF LoadedJob
  <1> HIDE DEF job
  <1> QED
    BY <1>1, <1>2, <1>3, LoadInv

LEMMA DisableLoadInv == ASSUME IInv, NEW r \in Requests, NEW c \in Codes, DisableLoad(r, c) PROVE IInv'
  <1> DEFINE job == [pc |-> "disable", view |-> account, code |-> c, fresh |-> TRUE]
  <1>1. /\ reqs[r].pc = "idle" /\ account.on /\ Do(r, job)
        /\ UNCHANGED <<now, failures, locked, account, used, twice, overtaken, crowded>>
    BY DEF DisableLoad
  <1>2. job \in Jobs /\ job.pc = "disable" /\ job.view = account /\ job.code = c
    BY DEF IInv, TypeOK, Jobs
  <1>3. LoadedJob(job)
    BY <1>1, <1>2 DEF LoadedJob
  <1> HIDE DEF job
  <1> QED
    BY <1>1, <1>2, <1>3, LoadInv

(* Two-step login is turned on or off: the history of codes begins anew.   *)
LEMMA AnewInv ==
    ASSUME IInv, NEW r \in Requests, reqs[r].pc \in {"enable", "disable"},
           NEW new \in AccountRows, NEW codes \in SUBSET Codes, new.on => NotAgain(new, codes),
           WriteAccount(r, new), UseFirst(codes), UNCHANGED <<now, failures, locked, crowded>>
    PROVE  IInv'
  <1>1. WritesRow(reqs[r])
    BY DEF WritesRow
  <1>2. /\ account' \in AccountRows /\ reqs' \in [Requests -> Jobs] /\ overtaken' \in BOOLEAN
        /\ Loaded' /\ Current' /\ Pending' = Pending /\ Counting' = Counting
        /\ ~overtaken' => account' = new
    BY <1>1, Wrote
  <1>3. CodesKept'
    BY <1>2 DEF CodesKept, Unused, UseFirst
  <1>4. twice' \subseteq used' /\ used' \subseteq Codes
    BY DEF UseFirst
  <1>5. TypeOK'
    BY <1>2, <1>4 DEF IInv, TypeOK
  <1> QED
    BY <1>2, <1>3, <1>5, LockRests DEF IInv, CodesKept

LEMMA EnableCommitInv == ASSUME IInv, NEW r \in Requests, NEW new \in SUBSET Recovery, EnableCommit(r, new) PROVE IInv'
  <1> DEFINE row == [on |-> TRUE, pending |-> FALSE, last |-> reqs[r].code, codes |-> new]
             codes == {reqs[r].code}
  <1>1. /\ reqs[r].pc = "enable" /\ WriteAccount(r, row) /\ UseFirst(codes)
        /\ UNCHANGED <<now, failures, locked, crowded>>
    BY DEF EnableCommit
  <1>2. reqs[r].code \in Steps
    BY <1>1 DEF IInv, Loaded, LoadedJob
  <1>3. row \in AccountRows /\ codes \in SUBSET Codes
    BY <1>2 DEF AccountRows, Codes
  <1>4. NotAgain(row, codes)
    BY <1>2, RecoveryAssumption, Constants DEF NotAgain, Steps
  <1> HIDE DEF row, codes
  <1> QED
    BY <1>1, <1>3, <1>4, AnewInv

LEMMA DisableCommitInv == ASSUME IInv, NEW r \in Requests, DisableCommit(r) PROVE IInv'
  <1>1. Off \in AccountRows /\ ~Off.on
    BY DEF Off, AccountRows
  <1> QED
    BY <1>1, AnewInv DEF DisableCommit

(* Requests that loaded the account as it was are marked; one that turns   *)
(* two-step login on was marked when it was turned on.                     *)
LEMMA ResetTwoStepInv == ASSUME IInv, ResetTwoStep PROVE IInv'
  <1>1. /\ account.on /\ account' = Off /\ UseFirst({})
        /\ UNCHANGED <<now, failures, locked, overtaken, crowded>>
        /\ reqs' = [q \in Requests |-> IF reqs[q].pc \in {"login", "disable"} THEN [reqs[q] EXCEPT !.fresh = FALSE]
                                       ELSE reqs[q]]
    BY DEF ResetTwoStep
  <1>2. ASSUME NEW q \in Requests
        PROVE  /\ reqs'[q] \in Jobs /\ reqs'[q].pc = reqs[q].pc
               /\ reqs'[q].view = reqs[q].view /\ reqs'[q].code = reqs[q].code
               /\ WritesRow(reqs'[q]) => ~reqs'[q].fresh
    <2>1. reqs[q] \in Jobs
      BY DEF IInv, TypeOK
    <2>2. CASE reqs[q].pc \in {"login", "disable"}
      <3>1. reqs'[q] = [reqs[q] EXCEPT !.fresh = FALSE]
        BY <1>1, <2>2
      <3> QED
        BY <2>1, <3>1 DEF Jobs
    <2>3. CASE reqs[q].pc \notin {"login", "disable"}
      <3>1. reqs'[q] = reqs[q]
        BY <1>1, <2>3
      <3>2. reqs[q].pc = "enable" => ~reqs[q].view.on
        BY DEF IInv, Loaded, LoadedJob
      <3> QED
        BY <1>1, <2>1, <2>3, <3>1, <3>2 DEF IInv, Current, WritesRow
    <2> QED
      BY <2>2, <2>3
  <1>3. Off \in AccountRows /\ ~Off.on
    BY DEF Off, AccountRows
  <1>4. Pending' = Pending /\ Counting' = Counting
    BY <1>2 DEF Pending, Counting
  <1>5. Loaded'
    BY <1>2 DEF IInv, Loaded, LoadedJob
  <1>6. Current'
    BY <1>2 DEF Current
  <1>7. CodesKept'
    BY <1>1, <1>3 DEF CodesKept, Unused, UseFirst
  <1>8. TypeOK'
    <2>1. reqs' \in [Requests -> Jobs]
      BY <1>1, <1>2
    <2>2. twice' \subseteq used' /\ used' \subseteq Codes
      BY <1>1 DEF UseFirst
    <2> QED
      BY <1>1, <1>3, <2>1, <2>2 DEF IInv, TypeOK
  <1> QED
    BY <1>1, <1>4, <1>5, <1>6, <1>7, <1>8, LockRests DEF IInv, CodesKept

-----------------------------------------------------------------------------
LEMMA NextInv == IInv /\ [Next]_vars => IInv'
  <1> SUFFICES ASSUME IInv, [Next]_vars PROVE IInv'
    OBVIOUS
  <1>1. CASE Tick \/ UnlockUser \/ StartTwoStepSetup \/ ResetTwoStep
    BY <1>1, TickInv, UnlockUserInv, StartTwoStepSetupInv, ResetTwoStepInv
  <1>2. ASSUME NEW r \in Requests,
               LoginCheck(r) \/ LoginAsks(r) \/ LoginCommit(r) \/ LoginFailed(r) \/ LoginCount(r) \/ DisableCommit(r)
        PROVE  IInv'
    BY <1>2, LoginCheckInv, LoginAsksInv, LoginCommitInv, LoginFailedInv, LoginCountInv, DisableCommitInv
  <1>3. ASSUME NEW r \in Requests, NEW password \in BOOLEAN, NEW c \in Codes, LoginLoad(r, password, c) PROVE IInv'
    BY <1>3, LoginLoadInv
  <1>4. ASSUME NEW r \in Requests, NEW c \in Codes, EnableLoad(r, c) \/ DisableLoad(r, c) PROVE IInv'
    BY <1>4, EnableLoadInv, DisableLoadInv
  <1>5. ASSUME NEW r \in Requests, NEW new \in SUBSET Recovery, EnableCommit(r, new) PROVE IInv'
    BY <1>5, EnableCommitInv
  <1>6. CASE UNCHANGED vars
    <2>1. UNCHANGED <<now, failures, locked, account, used, twice, overtaken, crowded, reqs>>
      BY <1>6 DEF vars
    <2>2. Pending' = Pending /\ Counting' = Counting
      BY <2>1 DEF Pending, Counting
    <2>3. Loaded' /\ Current' /\ CodesKept'
      BY <2>1, CodesQuiet DEF Loads
    <2>4. TypeOK'
      BY <2>1 DEF IInv, TypeOK
    <2> QED
      BY <2>1, <2>2, <2>3, <2>4, LockRests DEF IInv, CodesKept
  <1> QED
    BY <1>1, <1>2, <1>3, <1>4, <1>5, <1>6 DEF Next

(* The inductive invariant of the lockout and of two-step codes.           *)
THEOREM LoginsInvariance == Spec => []IInv
  BY InitInv, NextInv, PTL DEF Spec

(* The rows that count never exceed the limit by more than the requests    *)
(* there are, so neither do the wrong passwords and codes checked within   *)
(* the window; and a locked account has its ACCOUNT_LOCKED row.            *)
LEMMA InvLockout == IInv => LockoutHolds
  <1> SUFFICES ASSUME IInv PROVE LockoutHolds
    OBVIOUS
  <1>1. Recent = failures
    BY DEF IInv, AllRecent, Recent
  <1>2. FailuresBounded
    BY <1>1, Counts, Constants DEF IInv, Bounded, FailuresBounded, RecentFailureCount
  <1>3. LockIsRecorded
    <2> SUFFICES ASSUME Cardinality(failures) >= MaxFailures, ~crowded, Counting = {},
                        Cardinality(Requests) <= MaxFailures
                 PROVE  locked >= now - Window
      BY <1>1 DEF LockIsRecorded, IsUsernameLocked, RecentFailureCount, Counting
    <2>1. Cardinality(Newer) < Cardinality(failures)
      BY Counts, Constants DEF IInv, Fewer
    <2>2. PICK row \in failures : row \notin Newer
      BY <2>1, Counts DEF Newer
    <2>3. row[1] >= now - Window /\ row[1] \in Int /\ now \in Int /\ locked \in Int /\ row[1] <= locked
      BY <2>2, Constants DEF IInv, TypeOK, AllRecent, Newer, Never
    <2> QED
      BY <2>3, Constants
  <1> QED
    BY <1>2, <1>3 DEF IInv, LockoutHolds

(* However requests overlap, no more wrong passwords and codes are checked *)
(* within the window than the limit and the requests at a time, a lock is  *)
(* on record, and no code logs in twice.                                   *)
THEOREM LoginsGuarded == Spec => []LoginsAreGuarded
  <1>1. IInv => LoginsAreGuarded
    <2>1. IInv => CodesAreSpent
      BY DEF IInv, CodesAreSpent, CodesUsedOnce, RecoveryCodesLeft, Unused, NotAgain
    <2> QED
      BY <2>1, InvLockout DEF LoginsAreGuarded
  <1> QED
    BY <1>1, LoginsInvariance, PTL
=============================================================================
