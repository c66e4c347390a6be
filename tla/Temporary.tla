----------------------------- MODULE Temporary -----------------------------
(***************************************************************************)
(* Temporary documents for SB Members: ordinances and uploaded MOAs set    *)
(* for a day, archived after it, kept longer or deleted, from              *)
(* Backends/backend/routes/temporary_documents.py.                         *)
(*                                                                         *)
(* A MOA's upload is moved to the folder of temporary documents before its *)
(* row is committed, and its file is removed after its row.  A request may *)
(* span midnight or fail between its steps.                                *)
(***************************************************************************)
EXTENDS Naturals, FiniteSets

CONSTANTS Entries,   \* the ids of entries, used once each
          Docs,      \* ordinances
          Uploads,   \* temporary uploads, each used once
          Requests,  \* slots for requests the server runs at one time
          None,      \* no document, file or entry
          MaxDay,    \* BOUND: days
          KeepDays   \* TEMPORARY_KEEP_DAYS

DaysAssumption == MaxDay \in Nat \ {0} /\ KeepDays \in Nat \ {0}
NoneAssumption == None \notin Docs \cup Uploads

VARIABLES today,
          rows,       \* the row of temporary_documents
          uploads,    \* uploads whose file is still in the upload folder
          files,      \* uploads whose file is in the temporary folder
          overtaken,  \* history: two that had read the same entry have kept it longer
          reqs        \* what each request is about to do

vars == <<today, rows, uploads, files, overtaken, reqs>>

Later == MaxDay + 2 * (1 + KeepDays)
Free == [state |-> "free", day |-> 0, doc |-> None, file |-> None, kept |-> 0]
Idle == [op |-> "idle", entry |-> None, doc |-> None, file |-> None, day |-> 0, fresh |-> TRUE]

TypeOK ==
    /\ today \in 1 .. MaxDay
    /\ rows \in [Entries -> [state : {"free", "set", "gone"}, day : 0 .. MaxDay, doc : Docs \cup {None},
                             file : Uploads \cup {None}, kept : 0 .. Later * 2]]
    /\ uploads \subseteq Uploads /\ files \subseteq Uploads
    /\ overtaken \in BOOLEAN
    /\ \A r \in Requests : reqs[r].op \in {"idle", "ordinance", "moa", "keep", "delete"} /\ reqs[r].day \in 0 .. Later * 2

Init == /\ today = 1
        /\ rows = [e \in Entries |-> Free]
        /\ uploads = Uploads /\ files = {} /\ overtaken = FALSE
        /\ reqs = [r \in Requests |-> Idle]

Set(e) == rows[e].state = "set"
IsMoa(e) == rows[e].doc = None
Larger(a, b) == IF a > b THEN a ELSE b
due_on(e) == Larger(rows[e].day + 1 + KeepDays, rows[e].kept)
Archived(e) == rows[e].day < today

Midnight == today < MaxDay /\ today' = today + 1 /\ UNCHANGED <<rows, uploads, files, overtaken, reqs>>

Load(r, job) == reqs[r].op = "idle" /\ reqs' = [reqs EXCEPT ![r] = job]
End(r) == reqs' = [q \in Requests |-> IF q = r THEN Idle
                                      ELSE IF reqs[q].entry = reqs[r].entry THEN [reqs[q] EXCEPT !.fresh = FALSE] ELSE reqs[q]]

SetFor(day, d) == \E e \in Entries : Set(e) /\ rows[e].day = day /\ rows[e].doc = d

OrdinanceLoad(r, d, day) ==
    /\ day >= today /\ ~SetFor(day, d)
    /\ Load(r, [Idle EXCEPT !.op = "ordinance", !.doc = d, !.day = day])
    /\ UNCHANGED <<today, rows, uploads, files, overtaken>>

OrdinanceCommit(r, e) ==
    /\ reqs[r].op = "ordinance" /\ rows[e] = Free
    /\ ~SetFor(reqs[r].day, reqs[r].doc)
    /\ rows' = [rows EXCEPT ![e] = [Free EXCEPT !.state = "set", !.day = reqs[r].day, !.doc = reqs[r].doc]]
    /\ End(r)
    /\ UNCHANGED <<today, uploads, files, overtaken>>

(* Only one request can move the upload. *)
MoaMove(r, u, day) ==
    /\ day >= today /\ u \in uploads
    /\ uploads' = uploads \ {u} /\ files' = files \cup {u}
    /\ Load(r, [Idle EXCEPT !.op = "moa", !.file = u, !.day = day])
    /\ UNCHANGED <<today, rows, overtaken>>

MoaCommit(r, e) ==
    /\ reqs[r].op = "moa" /\ rows[e] = Free
    /\ rows' = [rows EXCEPT ![e] = [Free EXCEPT !.state = "set", !.day = reqs[r].day, !.file = reqs[r].file]]
    /\ End(r)
    /\ UNCHANGED <<today, uploads, files, overtaken>>

KeepLoad(r, e) ==
    /\ Set(e) /\ Archived(e)
    /\ Larger(due_on(e), today) + KeepDays <= Later
    /\ Load(r, [Idle EXCEPT !.op = "keep", !.entry = e, !.day = Larger(due_on(e), today) + KeepDays])
    /\ UNCHANGED <<today, rows, uploads, files, overtaken>>

KeepCommit(r) ==
    /\ reqs[r].op = "keep" /\ Set(reqs[r].entry)
    /\ rows' = [rows EXCEPT ![reqs[r].entry].kept = reqs[r].day]
    /\ overtaken' = (overtaken \/ ~reqs[r].fresh)
    /\ End(r)
    /\ UNCHANGED <<today, uploads, files>>

\* MUTANT: the file goes before the row.
DeleteRowLast(r, e) ==
    /\ Set(e)
    /\ files' = files \ {rows[e].file}
    /\ Load(r, [Idle EXCEPT !.op = "delete", !.entry = e, !.file = rows[e].file])
    /\ UNCHANGED <<today, rows, uploads, overtaken>>
(* The row goes, then the file. *)
DeleteRow(r, e) ==
    /\ Set(e)
    /\ rows' = [rows EXCEPT ![e].state = "gone"]
    /\ Load(r, [Idle EXCEPT !.op = "delete", !.entry = e, !.file = rows[e].file])
    /\ UNCHANGED <<today, uploads, files, overtaken>>

DeleteFile(r) ==
    /\ reqs[r].op = "delete"
    /\ files' = files \ {reqs[r].file}
    /\ End(r)
    /\ UNCHANGED <<today, rows, uploads, overtaken>>

(* The request fails, or the server stops. *)
Fail(r) ==
    /\ reqs[r].op # "idle"
    /\ reqs' = [reqs EXCEPT ![r] = Idle]
    /\ UNCHANGED <<today, rows, uploads, files, overtaken>>

Next ==
    \/ Midnight
    \/ \E r \in Requests :
        \/ \E d \in Docs, day \in 1 .. MaxDay : OrdinanceLoad(r, d, day)
        \/ \E u \in Uploads, day \in 1 .. MaxDay : MoaMove(r, u, day)
        \/ \E e \in Entries : OrdinanceCommit(r, e) \/ MoaCommit(r, e) \/ KeepLoad(r, e) \/ DeleteRow(r, e)
        \/ KeepCommit(r) \/ DeleteFile(r) \/ Fail(r)

Spec == Init /\ [][Next]_vars

-----------------------------------------------------------------------------
(* The file of a MOA that is set or archived is there, whichever step of   *)
(* adding or deleting it failed, and is no other entry's.                  *)
MoaHasFile == \A e \in Entries : Set(e) /\ IsMoa(e) =>
    /\ rows[e].file \in files
    /\ \A f \in Entries \ {e} : Set(f) => rows[f].file # rows[e].file

(* An ordinance is set once for a day. *)
OrdinanceOnce == \A e, f \in Entries : Set(e) /\ Set(f) /\ rows[e].doc # None
                                       /\ rows[e].doc = rows[f].doc /\ rows[e].day = rows[f].day => e = f

(* Keeping an entry longer always gives it days, counted from the day it   *)
(* would have been due, unless two keep it at once.                        *)
KeepStep == \A e \in Entries : Set(e) /\ rows'[e].kept # rows[e].kept /\ ~overtaken'
                               => rows'[e].kept >= Larger(rows[e].day + 1 + KeepDays, rows[e].kept) + KeepDays

(* An entry has its file or its ordinance, and no other entry has it       *)
(* (temporary_documents.py add_ordinance, add_moa, delete_entry).          *)
EntriesHaveTheirs == TypeOK /\ MoaHasFile /\ OrdinanceOnce
=============================================================================
