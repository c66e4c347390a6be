----------------------------- MODULE Retention -----------------------------
(***************************************************************************)
(* How long archived documents are kept, from Backends/backend/            *)
(* retention.py, the archive, restore and extend requests of               *)
(* routes/documents.py and the retention_months of routes/settings.py.     *)
(*                                                                         *)
(* A moment is a month and a day of it.  Requests load the document and    *)
(* commit the columns they changed later.  The bounds are months.          *)
(***************************************************************************)
EXTENDS Naturals, FiniteSets, Sequences

CONSTANTS Requests,   \* slots for requests the server runs at one time
          Lengths,    \* BOUND: the days of each month, by the month's number
          Moments,    \* BOUND: the moments things happen at
          Periods,    \* retention_months a document type can be given
          Extensions  \* months an extension can add

MonthsAssumption == /\ Lengths \in Seq(1 .. 31) /\ Moments \subseteq Nat \X Nat
                    /\ Periods \subseteq Nat /\ Extensions \subseteq Nat \ {0}

VARIABLES now, months, doc, overtaken, reqs

vars == <<now, months, doc, overtaken, reqs>>

Permanent == 0
Never == <<0, 0>>
IsDate(x) == x[1] \in DOMAIN Lengths /\ x[2] \in 1 .. Lengths[x[1]]
Earlier(x, y) == x[1] < y[1] \/ (x[1] = y[1] /\ x[2] < y[2])
Latest(x, y) == IF Earlier(x, y) THEN y ELSE x
Smaller(a, b) == IF a < b THEN a ELSE b

add_months(x, n) == <<x[1] + n, Smaller(x[2], Lengths[x[1] + n])>>

retain_until(d, m) == IF ~d.archived \/ m = Permanent THEN Never
                      ELSE Latest(add_months(d.at, m), d.extended)

Idle == [op |-> "idle", until |-> Never, fresh |-> TRUE]

TypeOK ==
    /\ IsDate(now)
    /\ months \in Periods \cup {Permanent}
    /\ doc.archived \in BOOLEAN
    /\ doc.at = Never \/ IsDate(doc.at)
    /\ doc.extended = Never \/ IsDate(doc.extended)
    /\ overtaken \in BOOLEAN
    /\ \A r \in Requests : reqs[r].op \in {"idle", "archive", "restore", "extend"}

Init == /\ \E x \in Moments : IsDate(x) /\ now = x
        /\ months \in Periods \cup {Permanent}
        /\ doc = [archived |-> FALSE, at |-> Never, extended |-> Never]
        /\ overtaken = FALSE
        /\ reqs = [r \in Requests |-> Idle]

Pass(x) == Earlier(now, x) /\ now' = x /\ UNCHANGED <<months, doc, overtaken, reqs>>

Overtake == reqs' = [q \in Requests |-> IF reqs[q].op = "idle" THEN Idle ELSE [reqs[q] EXCEPT !.fresh = FALSE]]
update_system_settings(m) == months' = m /\ Overtake /\ UNCHANGED <<now, doc, overtaken>>

Load(r, job) == reqs[r].op = "idle" /\ reqs' = [reqs EXCEPT ![r] = job] /\ UNCHANGED <<now, months, doc, overtaken>>
Commit(r) == /\ overtaken' = (overtaken \/ ~reqs[r].fresh)
             /\ reqs' = [q \in Requests |-> IF q = r \/ reqs[q].op = "idle" THEN Idle ELSE [reqs[q] EXCEPT !.fresh = FALSE]]
             /\ UNCHANGED <<now, months>>

ArchiveLoad(r) == ~doc.archived /\ Load(r, [Idle EXCEPT !.op = "archive", !.until = now])
ArchiveCommit(r) == /\ reqs[r].op = "archive"
                    /\ doc' = [doc EXCEPT !.archived = TRUE, !.at = reqs[r].until]
                    /\ Commit(r)

RestoreLoad(r) == doc.archived /\ Load(r, [Idle EXCEPT !.op = "restore", !.until = doc.extended])
(* Only what was loaded as set is cleared. *)
RestoreCommit(r) ==
    /\ reqs[r].op = "restore"
    /\ doc' = [archived |-> FALSE, at |-> Never,
               extended |-> IF reqs[r].until = Never THEN doc.extended ELSE Never]
    /\ Commit(r)

ExtendLoad(r, n) ==
    LET until == retain_until(doc, months) IN
    /\ until # Never
    /\ Latest(until, now)[1] + n \in DOMAIN Lengths
    /\ Load(r, [Idle EXCEPT !.op = "extend", !.until = add_months(Latest(until, now), n)])
ExtendCommit(r) == /\ reqs[r].op = "extend"
                   /\ doc' = [doc EXCEPT !.extended = reqs[r].until]
                   /\ Commit(r)

Next ==
    \/ \E x \in Moments : IsDate(x) /\ Pass(x)
    \/ \E m \in Periods \cup {Permanent} : update_system_settings(m)
    \/ \E r \in Requests : \/ ArchiveLoad(r) \/ ArchiveCommit(r)
                           \/ RestoreLoad(r) \/ RestoreCommit(r)
                           \/ \E n \in Extensions : ExtendLoad(r, n)
                           \/ ExtendCommit(r)

Spec == Init /\ [][Next]_vars

-----------------------------------------------------------------------------
(* A document starts its retention without an extension of an earlier      *)
(* archiving, unless a request was overtaken.                              *)
ExtensionOfThisArchive == ~overtaken /\ ~doc.archived => doc.extended = Never

(* Extending gives a document a later date than the one it had, whatever   *)
(* days its months have, unless the request was overtaken.                 *)
ExtendStep == doc.archived /\ doc'.archived /\ doc'.extended # doc.extended /\ ~overtaken'
              => Earlier(retain_until(doc, months), doc'.extended)

(* No extension outlives the archiving it was given in (documents.py       *)
(* restore_document, retention.py extend_retention).                       *)
ExtensionsEnd == TypeOK /\ ExtensionOfThisArchive
=============================================================================
