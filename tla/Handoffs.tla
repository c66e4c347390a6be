------------------------------ MODULE Handoffs ------------------------------
(***************************************************************************)
(* The custody of one registered document: the requests of                 *)
(* Backends/backend/routes/documents.py that pass it between offices,      *)
(* receive it, act on it, archive it and delete it, run by concurrent      *)
(* server threads against PostgreSQL at READ COMMITTED.                    *)
(*                                                                         *)
(* A request is a transaction split at its SQL statements.  What it reads  *)
(* without a lock may be stale when it is used: the ORM keeps the document *)
(* it loaded (snap) for the whole request.  What it writes becomes visible *)
(* at its commit, so the last step of every handler applies all of it.     *)
(* Row locks (SELECT ... FOR UPDATE, UPDATE, DELETE and the key-share lock *)
(* a foreign key takes on the row it points to) are held until the request *)
(* ends; they are read off the program counters.  The first statement of a *)
(* handler is part of the step that starts it, and a request refused there *)
(* is no step at all: it writes nothing.                                   *)
(***************************************************************************)
EXTENDS Integers, FiniteSets

CONSTANTS Offices,      \* the offices of the LGU
          NoOffice,     \* NULL, the current office of a document placed nowhere
          Requests,     \* slots for requests the server runs at one time
          MaxHandoffs,  \* BOUND: rows document_handoffs may hold for the document
          Nowhere       \* where Custody has a document that is not on its way

ASSUME OfficesAssumption == NoOffice \notin Offices
ASSUME BoundAssumption == MaxHandoffs \in Nat \ {0}
ASSUME NowhereAssumption == Nowhere \notin [from : Offices, to : Offices]

VARIABLES doc,       \* the row of documents: is it there, archived, and its current office
          assoc,     \* its rows of document_offices
          handoffs,  \* its rows of document_handoffs, by id
          receipts,  \* its rows of document_receipts
          actions,   \* its rows of document_actions
          pc,        \* the statement each request is at
          loc        \* the local variables of each request

db == <<doc, assoc, handoffs, receipts, actions>>
vars == <<doc, assoc, handoffs, receipts, actions, pc, loc>>

HandoffIds == 1 .. MaxHandoffs
Unused == [status |-> "Unused", from |-> NoOffice, to |-> NoOffice]
Statuses == {"Pending Receipt", "Received", "Cancelled", "Returned"}

Documents == [exists : BOOLEAN, archived : BOOLEAN, office : Offices \cup {NoOffice}]
HandoffRows == [status : Statuses, from : Offices, to : Offices] \cup {Unused}
OfficeMarks == [handoff : HandoffIds, office : Offices]

Locals == [office : Offices \cup {NoOffice}, receiver : Offices \cup {NoOffice},
           snap : Documents, handoff : HandoffIds \cup {0}]

NotLoaded == [exists |-> FALSE, archived |-> FALSE, office |-> NoOffice]
NoLocals == [office |-> NoOffice, receiver |-> NoOffice, snap |-> NotLoaded, handoff |-> 0]

Points == {"idle",
           "create_pending", "create_wait", "create_insert",
           "confirm_select", "confirm_wait", "confirm_write",
           "action_select", "action_check", "action_insert",
           "archive_check", "archive_write", "restore_write",
           "delete_row", "delete_cascade"}

TypeOK ==
    /\ doc \in Documents
    /\ assoc \subseteq Offices
    /\ handoffs \in [HandoffIds -> HandoffRows]
    /\ receipts \subseteq OfficeMarks
    /\ actions \subseteq OfficeMarks
    /\ pc \in [Requests -> Points]
    /\ loc \in [Requests -> Locals]

-----------------------------------------------------------------------------
(* The queries the handlers make. *)

(* The custody rule: the recorded current office, or without one every     *)
(* associated office.                                                      *)
Holds(current, office) ==
    IF current # NoOffice THEN current = office ELSE office \in assoc

\* MUTANT: the filter misspells the status it looks for.
MisspeltPending == {h \in HandoffIds : handoffs[h].status = "Pending"}
(* Handoffs of the document whose receipt is still pending. *)
Pending == {h \in HandoffIds : handoffs[h].status = "Pending Receipt"}

PendingTo(office) == {h \in Pending : handoffs[h].to = office}

ReceivedBy(office) ==
    {h \in HandoffIds : handoffs[h].status = "Received" /\ handoffs[h].to = office}

(* ORDER BY updated_at DESC LIMIT 1.  A document has one pending handoff at *)
(* a time, so its handoffs are closed in the order of their ids.           *)
IsLatest(h, rows) == h \in rows /\ \A g \in rows : g =< h

(* The id the sequence gives the next row. *)
IsNextId(h) ==
    /\ handoffs[h].status = "Unused"
    /\ \A g \in HandoffIds : g < h => handoffs[g].status # "Unused"

-----------------------------------------------------------------------------
(* Row locks. *)

\* MUTANT: handing off reads the document without FOR UPDATE.
LocksDocumentOnlyToDelete(r) == pc[r] = "delete_cascade"
(* r holds the document's row exclusively: SELECT ... FOR UPDATE of a       *)
(* handoff being created, or a DELETE.                                     *)
LocksDocument(r) ==
    pc[r] \in {"create_pending", "create_wait", "create_insert", "delete_cascade"}

(* r holds row h of document_handoffs by SELECT ... FOR UPDATE. *)
LocksHandoff(r, h) ==
    /\ pc[r] \in {"confirm_write", "action_check", "action_insert"}
    /\ loc[r].handoff = h

DocumentFree(r) == \A q \in Requests \ {r} : ~LocksDocument(q)
HandoffFree(r, h) == \A q \in Requests \ {r} : ~LocksHandoff(q, h)

(* r can't go on before q ends.  A request that waits at its first         *)
(* statement holds no lock and is in no cycle.                             *)
WaitsFor(r, q) ==
    \/ pc[r] = "create_wait" /\ LocksHandoff(q, loc[r].handoff)
    \/ pc[r] \in {"confirm_write", "action_insert"} /\ LocksDocument(q)
    \/ pc[r] = "delete_cascade" /\ \E h \in HandoffIds : LocksHandoff(q, h)

-----------------------------------------------------------------------------
(* How a request moves. *)

Start(r, point, locals) ==
    /\ pc[r] = "idle"
    /\ pc' = [pc EXCEPT ![r] = point]
    /\ loc' = [loc EXCEPT ![r] = locals]
    /\ UNCHANGED db

Goto(r, point) ==
    /\ pc' = [pc EXCEPT ![r] = point]
    /\ UNCHANGED <<db, loc>>

GotoWith(r, point, h) ==
    /\ pc' = [pc EXCEPT ![r] = point]
    /\ loc' = [loc EXCEPT ![r].handoff = h]
    /\ UNCHANGED db

(* The request ends: its session is closed and its locks are released. *)
Finish(r) ==
    /\ pc' = [pc EXCEPT ![r] = "idle"]
    /\ loc' = [loc EXCEPT ![r] = NoLocals]

Refuse(r) == Finish(r) /\ UNCHANGED db

-----------------------------------------------------------------------------
(* POST /documents/{id}/handoffs: create_document_handoff *)

(* BOUND: no more requests try to hand the document off than ids are left. *)
CreatePoints == {"create_pending", "create_wait", "create_insert"}
IdsLeft ==
    Cardinality({r \in Requests : pc[r] \in CreatePoints})
      < Cardinality({h \in HandoffIds : handoffs[h].status = "Unused"})

(* The document is read FOR UPDATE; the office must hold it.  Whether the  *)
(* receiving office is active is not modelled: any admin may change it     *)
(* at any time, and an inactive one only refuses the request.              *)
CreateLoad(r, o, p) ==
    /\ DocumentFree(r)
    /\ doc.exists /\ ~doc.archived
    /\ Holds(doc.office, o)
    /\ p # o
    /\ IdsLeft
    /\ Start(r, "create_pending", [office |-> o, receiver |-> p, snap |-> doc, handoff |-> 0])

(* The statement that looks for a pending handoff FOR UPDATE sees the rows *)
(* committed when it starts; it may wait for the lock on the one it sees.  *)
CreateSelect(r) ==
    /\ pc[r] = "create_pending"
    /\ \/ Pending = {} /\ Goto(r, "create_insert")
       \/ \E h \in Pending : GotoWith(r, "create_wait", h)

\* MUTANT: a request that finds a handoff pending looks again.
CreateLockedRetried(r) ==
    /\ pc[r] = "create_wait"
    /\ HandoffFree(r, loc[r].handoff)
    /\ Goto(r, IF loc[r].handoff \in Pending THEN "create_pending" ELSE "create_insert")
(* Once locked the row is read again; one no longer pending is skipped. *)
CreateLocked(r) ==
    /\ pc[r] = "create_wait"
    /\ HandoffFree(r, loc[r].handoff)
    /\ IF loc[r].handoff \in Pending THEN Refuse(r) ELSE Goto(r, "create_insert")

\* MUTANT: custody moves when the document is sent, not when it is received.
CreateInsertMovingCustody(r) ==
    /\ pc[r] = "create_insert"
    /\ IF Pending # {}
       THEN Refuse(r)
       ELSE /\ \E h \in HandoffIds :
                 /\ IsNextId(h)
                 /\ handoffs' = [handoffs EXCEPT ![h] =
                       [status |-> "Pending Receipt", from |-> loc[r].office, to |-> loc[r].receiver]]
            /\ doc' = [doc EXCEPT !.office = loc[r].receiver]
            /\ Finish(r)
            /\ UNCHANGED <<assoc, receipts, actions>>
(* INSERT and commit.  A row that is already pending breaks the partial    *)
(* unique index uq_document_handoffs_pending_receipt.                      *)
CreateInsert(r) ==
    /\ pc[r] = "create_insert"
    /\ IF Pending # {}
       THEN Refuse(r)
       ELSE /\ \E h \in HandoffIds :
                 /\ IsNextId(h)
                 /\ handoffs' = [handoffs EXCEPT ![h] =
                       [status |-> "Pending Receipt", from |-> loc[r].office, to |-> loc[r].receiver]]
            /\ Finish(r)
            /\ UNCHANGED <<doc, assoc, receipts, actions>>

-----------------------------------------------------------------------------
(* POST /documents/handoffs/{id}/cancel and .../return *)

(* _close_pending_handoff: one locked row is read, checked and written, so *)
(* the whole request is one step.                                          *)
Close(r, h, status) ==
    /\ pc[r] = "idle"
    /\ HandoffFree(r, h)
    /\ h \in Pending
    /\ handoffs' = [handoffs EXCEPT ![h].status = status]
    /\ UNCHANGED <<doc, assoc, receipts, actions, pc, loc>>

\* MUTANT: the status is not one the table's CHECK allows.
CancelInLowerCase(r, h) == Close(r, h, "cancelled")
(* Asked by the sending office, and by no other. *)
CancelHandoff(r, h) == Close(r, h, "Cancelled")

\* MUTANT: a return moves custody to the office that declined the document.
ReturnKeepingIt(r, h) ==
    /\ pc[r] = "idle"
    /\ HandoffFree(r, h)
    /\ h \in Pending
    /\ handoffs' = [handoffs EXCEPT ![h].status = "Returned"]
    /\ doc' = [doc EXCEPT !.office = handoffs[h].to]
    /\ UNCHANGED <<assoc, receipts, actions, pc, loc>>
(* Asked by the receiving office, and by no other. *)
ReturnHandoff(r, h) == Close(r, h, "Returned")

-----------------------------------------------------------------------------
(* POST /documents/qr/{qr}/receipt: confirm_document_receipt *)

(* The document is read without a lock. *)
ConfirmLoad(r, o) ==
    /\ doc.exists
    /\ Start(r, "confirm_select", [office |-> o, receiver |-> NoOffice, snap |-> doc, handoff |-> 0])

(* With no pending handoff to the office the scan is answered, as a repeat *)
(* or a refusal, and nothing is written.                                   *)
ConfirmSelect(r) ==
    /\ pc[r] = "confirm_select"
    /\ \/ PendingTo(loc[r].office) = {} /\ Refuse(r)
       \/ \E h \in PendingTo(loc[r].office) : GotoWith(r, "confirm_wait", h)

\* MUTANT: the handoff is not read again once it is locked.
ConfirmLockedStale(r) ==
    /\ pc[r] = "confirm_wait"
    /\ HandoffFree(r, loc[r].handoff)
    /\ Goto(r, "confirm_write")
ConfirmLocked(r) ==
    /\ pc[r] = "confirm_wait"
    /\ HandoffFree(r, loc[r].handoff)
    /\ IF /\ loc[r].handoff \in Pending
          /\ \A receipt \in receipts : receipt.handoff # loc[r].handoff
       THEN Goto(r, "confirm_write")
       ELSE Refuse(r)

\* MUTANT: the receipt is written and the handoff left pending.
ConfirmWriteReceiptOnly(r) ==
    /\ pc[r] = "confirm_write"
    /\ DocumentFree(r)
    /\ receipts' = receipts \cup {[handoff |-> loc[r].handoff, office |-> loc[r].office]}
    /\ doc' = IF loc[r].snap.office = loc[r].office
              THEN doc ELSE [doc EXCEPT !.office = loc[r].office]
    /\ assoc' = assoc \cup {loc[r].office}
    /\ Finish(r)
    /\ UNCHANGED <<handoffs, actions>>
\* MUTANT: the receipt is recorded and custody does not move.
ConfirmWriteInPlace(r) ==
    /\ pc[r] = "confirm_write"
    /\ DocumentFree(r)
    /\ receipts' = receipts \cup {[handoff |-> loc[r].handoff, office |-> loc[r].office]}
    /\ handoffs' = [handoffs EXCEPT ![loc[r].handoff].status = "Received"]
    /\ assoc' = assoc \cup {loc[r].office}
    /\ Finish(r)
    /\ UNCHANGED <<doc, actions>>
(* The receipt's foreign key and the UPDATE of the document wait for its   *)
(* row.  The ORM compares the office with the one it loaded, and leaves    *)
(* the column out of the UPDATE when they are equal.                       *)
ConfirmWrite(r) ==
    /\ pc[r] = "confirm_write"
    /\ DocumentFree(r)
    /\ receipts' = receipts \cup {[handoff |-> loc[r].handoff, office |-> loc[r].office]}
    /\ handoffs' = [handoffs EXCEPT ![loc[r].handoff].status = "Received"]
    /\ doc' = IF loc[r].snap.office = loc[r].office
              THEN doc ELSE [doc EXCEPT !.office = loc[r].office]
    /\ assoc' = assoc \cup {loc[r].office}
    /\ Finish(r)
    /\ UNCHANGED actions

-----------------------------------------------------------------------------
(* POST /documents/qr/{qr}/actions: create_document_action *)

ActionLoad(r, o) ==
    /\ doc.exists
    /\ Start(r, "action_select", [office |-> o, receiver |-> NoOffice, snap |-> doc, handoff |-> 0])

(* The office's latest received handoff is locked; it must have a receipt. *)
ActionSelect(r) ==
    /\ pc[r] = "action_select"
    /\ \/ ReceivedBy(loc[r].office) = {} /\ Refuse(r)
       \/ \E h \in ReceivedBy(loc[r].office) :
             /\ IsLatest(h, ReceivedBy(loc[r].office))
             /\ HandoffFree(r, h)
             /\ IF [handoff |-> h, office |-> loc[r].office] \in receipts
                THEN GotoWith(r, "action_check", h)
                ELSE Refuse(r)

(* _office_holds_document, with the document as it was loaded. *)
ActionCheck(r) ==
    /\ pc[r] = "action_check"
    /\ IF /\ ~loc[r].snap.archived
          /\ Holds(loc[r].snap.office, loc[r].office)
          /\ Pending = {}
       THEN Goto(r, "action_insert")
       ELSE Refuse(r)

(* The action's foreign key waits for the document's row. *)
ActionInsert(r) ==
    /\ pc[r] = "action_insert"
    /\ DocumentFree(r)
    /\ actions' = actions \cup {[handoff |-> loc[r].handoff, office |-> loc[r].office]}
    /\ Finish(r)
    /\ UNCHANGED <<doc, assoc, handoffs, receipts>>

-----------------------------------------------------------------------------
(* DELETE /documents/{id}, POST .../restore, DELETE .../permanent *)

ArchiveLoad(r) ==
    /\ doc.exists /\ ~doc.archived
    /\ Start(r, "archive_check", [NoLocals EXCEPT !.snap = doc])

(* The pending handoff is looked for without a lock. *)
ArchiveCheck(r) ==
    /\ pc[r] = "archive_check"
    /\ IF Pending = {} THEN Goto(r, "archive_write") ELSE Refuse(r)

(* An UPDATE that finds the row deleted raises and is rolled back. *)
ArchiveWrite(r) ==
    /\ pc[r] = "archive_write"
    /\ DocumentFree(r)
    /\ doc' = IF doc.exists THEN [doc EXCEPT !.archived = TRUE] ELSE doc
    /\ Finish(r)
    /\ UNCHANGED <<assoc, handoffs, receipts, actions>>

(* Restoring a document loaded as not archived changes no column. *)
RestoreLoad(r) ==
    /\ doc.exists /\ doc.archived
    /\ Start(r, "restore_write", [NoLocals EXCEPT !.snap = doc])

RestoreWrite(r) ==
    /\ pc[r] = "restore_write"
    /\ DocumentFree(r)
    /\ doc' = IF doc.exists THEN [doc EXCEPT !.archived = FALSE] ELSE doc
    /\ Finish(r)
    /\ UNCHANGED <<assoc, handoffs, receipts, actions>>

(* Only an archived document may be deleted, as it was when it was loaded. *)
DeleteLoad(r) ==
    /\ doc.exists /\ doc.archived
    /\ Start(r, "delete_row", [NoLocals EXCEPT !.snap = doc])

DeleteRow(r) ==
    /\ pc[r] = "delete_row"
    /\ DocumentFree(r)
    /\ IF doc.exists THEN Goto(r, "delete_cascade") ELSE Refuse(r)

(* ON DELETE CASCADE takes the document's handoffs, receipts, actions and  *)
(* offices with it, once none of the handoffs is locked.                   *)
DeleteCascade(r) ==
    /\ pc[r] = "delete_cascade"
    /\ \A h \in HandoffIds : HandoffFree(r, h)
    /\ doc' = NotLoaded
    /\ assoc' = {} /\ receipts' = {} /\ actions' = {}
    /\ handoffs' = [h \in HandoffIds |-> Unused]
    /\ Finish(r)

-----------------------------------------------------------------------------
(* PostgreSQL ends a deadlock by failing a statement of one of its         *)
(* transactions; no handler catches that error, so the request is rolled   *)
(* back.                                                                   *)
Deadlocked(r) == \E q \in Requests \ {r} : WaitsFor(r, q) /\ WaitsFor(q, r)

DeadlockVictim(r) == Deadlocked(r) /\ Refuse(r)

(* The server stops, the connection drops or a statement fails. *)
Rollback(r) == pc[r] # "idle" /\ Refuse(r)

Begin(r) ==
    \/ \E o, p \in Offices : CreateLoad(r, o, p)
    \/ \E o \in Offices : ConfirmLoad(r, o)
    \/ \E o \in Offices : ActionLoad(r, o)
    \/ ArchiveLoad(r)
    \/ RestoreLoad(r)
    \/ DeleteLoad(r)
    \/ \E h \in HandoffIds : CancelHandoff(r, h) \/ ReturnHandoff(r, h)

Continue(r) ==
    \/ CreateSelect(r) \/ CreateLocked(r) \/ CreateInsert(r)
    \/ ConfirmSelect(r) \/ ConfirmLocked(r) \/ ConfirmWrite(r)
    \/ ActionSelect(r) \/ ActionCheck(r) \/ ActionInsert(r)
    \/ ArchiveCheck(r) \/ ArchiveWrite(r) \/ RestoreWrite(r)
    \/ DeleteRow(r) \/ DeleteCascade(r)

(* A registered document is at the office it was registered in; one from   *)
(* before current offices were recorded may only have associations; one    *)
(* registered without an office has neither.                               *)
Init ==
    /\ doc \in [exists : {TRUE}, archived : {FALSE}, office : Offices \cup {NoOffice}]
    /\ assoc \in SUBSET Offices
    /\ doc.office # NoOffice => assoc = {doc.office}
    /\ handoffs = [h \in HandoffIds |-> Unused]
    /\ receipts = {} /\ actions = {}
    /\ pc = [r \in Requests |-> "idle"]
    /\ loc = [r \in Requests |-> NoLocals]

(* A deleted document is not found by any request. *)
Gone ==
    /\ ~doc.exists
    /\ \A r \in Requests : pc[r] = "idle"
    /\ UNCHANGED vars

Next ==
    \/ \E r \in Requests : Begin(r) \/ Continue(r) \/ DeadlockVictim(r) \/ Rollback(r)
    \/ Gone

Spec == Init /\ [][Next]_vars

(* A request that has begun runs on: PostgreSQL grants a contended row in  *)
(* the order of its queue (hence strong fairness) and looks for deadlocks  *)
(* (deadlock_timeout).  Nobody has to begin a request, and none has to be  *)
(* rolled back.                                                            *)
Fairness ==
    /\ \A r \in Requests : SF_vars(Continue(r))
    /\ WF_vars(\E r \in Requests : DeadlockVictim(r))

FairSpec == Spec /\ Fairness

-----------------------------------------------------------------------------
(* What holds however requests interleave. *)

Open == {h \in HandoffIds : handoffs[h].status = "Pending Receipt"}
Holders == IF doc.office # NoOffice THEN {doc.office} ELSE assoc

(* The document is never on its way to two offices at once: rows of       *)
(* document_handoffs for it that await receipt number at most one, however *)
(* many offices pass it at the same time.                                  *)
AtMostOnePending == \A g, h \in Open : g = h

(* The lock on the document alone keeps handoffs apart: a request about to *)
(* insert one never meets a pending row, so the partial unique index is a  *)
(* second defence that never has to answer.                                *)
IndexNeverFires == \A r \in Requests : pc[r] = "create_insert" => Open = {}

(* Custody waits for the receipt: while a document is on its way, the      *)
(* office that sent it is still one that holds it, whatever was cancelled, *)
(* returned, archived or restored meanwhile.                               *)
SenderStillHolds == \A h \in Open : handoffs[h].from \in Holders

(* A handoff counts as received exactly when the office it was sent to has *)
(* a receipt for it, and no other office has one.                          *)
ReceiptsMatch ==
    \A h \in HandoffIds :
        {receipt.office : receipt \in {x \in receipts : x.handoff = h}} =
            IF handoffs[h].status = "Received" THEN {handoffs[h].to} ELSE {}

(* Every recorded action hangs on a receipt by the office that acted, so   *)
(* the trail never shows an office acting on a document it never received. *)
ActionsAfterReceipt == actions \subseteq receipts

(* A handoff is created pending, and its end is final: once received,      *)
(* cancelled or returned it is never reopened or given another end, and    *)
(* the two offices it names never change, until the document is deleted.   *)
EndsAreFinal ==
    [][doc'.exists =>
         \A h \in HandoffIds :
            \/ handoffs'[h] = handoffs[h]
            \/ handoffs[h] = Unused /\ handoffs'[h].status = "Pending Receipt"
            \/ /\ handoffs[h].status = "Pending Receipt"
               /\ handoffs'[h].status \in {"Received", "Cancelled", "Returned"}
               /\ handoffs'[h] = [handoffs[h] EXCEPT !.status = handoffs'[h].status]]_vars

(* Custody changes hands only by a receipt: a step that gives the document *)
(* a current office receives a handoff that was pending to that office.    *)
CustodyMovesByReceipt ==
    [][\/ ~doc'.exists
       \/ doc'.office = doc.office
       \/ \E h \in Open : /\ handoffs[h].to = doc'.office
                         /\ handoffs'[h].status = "Received"]_vars

(* A handoff is only created for a document that exists, is not archived   *)
(* and is held by the sending office, at the moment it is committed and    *)
(* not only when the request looked.                                       *)
SentByHolder ==
    [][\A h \in HandoffIds :
          handoffs[h] = Unused /\ handoffs'[h] # Unused =>
              doc.exists /\ ~doc.archived /\ handoffs'[h].from \in Holders]_vars

(* Every request that has begun comes to an end, deadlocks between a       *)
(* handoff and a receipt of the same document included.                    *)
RequestsEnd == \A r \in Requests : pc[r] # "idle" ~> pc[r] = "idle"

-----------------------------------------------------------------------------
(* What holds when requests do not overlap: one ends before another takes  *)
(* its first step.                                                         *)

NoOverlap == \A p, q \in Requests : pc[p] # "idle" /\ pc[q] # "idle" => p = q

Underway ==
    IF Open = {} THEN Nowhere
    ELSE LET h == CHOOSE g \in Open : TRUE
         IN [from |-> handoffs[h].from, to |-> handoffs[h].to]

Promise == INSTANCE Custody WITH
    exists <- doc.exists,
    holders <- Holders,
    transit <- Underway,
    archived <- doc.archived,
    worked <- {action.office : action \in actions}

(* Run one at a time, the requests do to custody, transit, the archive and *)
(* the record of work exactly what the abstract Custody does, each in one  *)
(* step and completely (documents.py, the handlers from create to delete). *)
KeepsPromise == Promise!Spec

-----------------------------------------------------------------------------
(* What the code says of itself, and concurrent requests break. *)

(* "Receipt transfers custody: the receiving office now holds the document *)
(* and may pass it on." (documents.py:2986)                                *)
ReceiptTransfersCustody ==
    [][\A h \in Open : doc'.exists /\ handoffs'[h].status = "Received"
                       => doc'.office = handoffs[h].to]_vars
=============================================================================
