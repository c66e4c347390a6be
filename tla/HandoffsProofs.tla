--------------------------- MODULE HandoffsProofs ---------------------------
(***************************************************************************)
(* Proofs about Handoffs, and the screens of OfficeViews, for any offices, *)
(* any number of concurrent requests and any number of handoffs.           *)
(*                                                                         *)
(* The inductive invariant adds to the properties what a request in the    *)
(* middle of its transaction may rely on: the row locks exclude each       *)
(* other, and what was read under a lock stays true while it is held.      *)
(***************************************************************************)
EXTENDS OfficeViews, WellFoundedInduction, TLAPS

(* One request at a time holds the document, and one holds each handoff. *)
DocumentLock ==
    \A r, q \in Requests : LocksDocument(r) /\ LocksDocument(q) => r = q
HandoffLock ==
    \A r, q \in Requests, h \in HandoffIds :
        LocksHandoff(r, h) /\ LocksHandoff(q, h) => r = q

(* What create_document_handoff checked under the document's lock, and the *)
(* one handoff that can be pending while it goes on.                       *)
CreateChecked(r) ==
    /\ pc[r] \in CreatePoints =>
          /\ doc.exists /\ ~doc.archived
          /\ loc[r].office \in Offices /\ loc[r].receiver \in Offices
          /\ loc[r].office \in Holders
    /\ pc[r] = "create_wait" => Open \subseteq {loc[r].handoff}
    /\ pc[r] = "create_insert" => Open = {}

(* A receipt waits for, and then holds, a handoff sent to its office. *)
ConfirmChecked(r) ==
    /\ pc[r] = "confirm_select" => loc[r].office \in Offices
    /\ pc[r] = "confirm_wait" =>
          /\ loc[r].handoff \in HandoffIds /\ loc[r].office \in Offices
          /\ doc.exists => handoffs[loc[r].handoff].to = loc[r].office
    /\ pc[r] = "confirm_write" =>
          /\ loc[r].handoff \in Open /\ loc[r].office \in Offices
          /\ handoffs[loc[r].handoff].to = loc[r].office

(* An action is recorded under a receipt. *)
ActionChecked(r) ==
    pc[r] \in {"action_check", "action_insert"} =>
        /\ loc[r].handoff \in HandoffIds
        /\ [handoff |-> loc[r].handoff, office |-> loc[r].office] \in receipts

Checked(r) == CreateChecked(r) /\ ConfirmChecked(r) /\ ActionChecked(r)

(* A deleted document leaves no handoff behind. *)
DeletedEmpty == ~doc.exists => \A h \in HandoffIds : handoffs[h] = Unused

(* ReceiptsMatch, row by row. *)
ReceiptRows ==
    /\ \A x \in receipts : /\ handoffs[x.handoff].status = "Received"
                           /\ handoffs[x.handoff].to = x.office
    /\ \A h \in HandoffIds : handoffs[h].status = "Received" =>
            [handoff |-> h, office |-> handoffs[h].to] \in receipts

Rows ==
    /\ DeletedEmpty
    /\ AtMostOnePending
    /\ SenderStillHolds
    /\ ReceiptRows
    /\ ActionsAfterReceipt

IInv ==
    /\ TypeOK
    /\ DocumentLock
    /\ HandoffLock
    /\ \A r \in Requests : Checked(r)
    /\ Rows

-----------------------------------------------------------------------------
(* Type correctness *)

LEMMA UnusedRow == Unused \in HandoffRows
  BY DEF Unused, HandoffRows

LEMMA EmptyLocals == NoLocals \in Locals /\ NotLoaded \in Documents
  BY DEF NoLocals, NotLoaded, Locals, Documents

LEMMA InitType == Init => TypeOK
  <1> SUFFICES ASSUME Init PROVE TypeOK
    OBVIOUS
  <1>1. doc \in Documents /\ assoc \subseteq Offices
    BY DEF Init, Documents
  <1>2. handoffs \in [HandoffIds -> HandoffRows]
    BY UnusedRow DEF Init
  <1>3. pc \in [Requests -> Points]
    BY DEF Init, Points
  <1>4. loc \in [Requests -> Locals]
    BY EmptyLocals DEF Init
  <1> QED
    BY <1>1, <1>2, <1>3, <1>4 DEF Init, TypeOK

(* The four moves of a request keep its program counter and locals typed. *)
LEMMA StartType ==
    ASSUME TypeOK, NEW r \in Requests, NEW point \in Points, NEW locals \in Locals,
           Start(r, point, locals)
    PROVE  TypeOK'
  BY DEF TypeOK, Start, db

LEMMA GotoType ==
    ASSUME TypeOK, NEW r \in Requests, NEW point \in Points, Goto(r, point)
    PROVE  TypeOK'
  BY DEF TypeOK, Goto, db

LEMMA GotoWithType ==
    ASSUME TypeOK, NEW r \in Requests, NEW point \in Points, NEW h \in HandoffIds,
           GotoWith(r, point, h)
    PROVE  TypeOK'
  <1>1. loc' \in [Requests -> Locals]
    BY DEF TypeOK, GotoWith, Locals
  <1> QED
    BY <1>1 DEF TypeOK, GotoWith, db

LEMMA FinishType ==
    ASSUME TypeOK, NEW r \in Requests, Finish(r)
    PROVE  pc' \in [Requests -> Points] /\ loc' \in [Requests -> Locals]
  BY EmptyLocals DEF TypeOK, Finish, Points

LEMMA RefuseType ==
    ASSUME TypeOK, NEW r \in Requests, Refuse(r)
    PROVE  TypeOK'
  BY FinishType DEF TypeOK, Refuse, db

LEMMA LoadedLocals ==
    ASSUME NEW o \in Offices \cup {NoOffice}, NEW p \in Offices \cup {NoOffice}, doc \in Documents
    PROVE  [office |-> o, receiver |-> p, snap |-> doc, handoff |-> 0] \in Locals
  BY DEF Locals

(* A row in use names two offices; one is unused only while it is blank. *)
LEMMA UsedRow ==
    ASSUME TypeOK, NEW h \in HandoffIds, handoffs[h] # Unused
    PROVE  handoffs[h] \in [status : Statuses, from : Offices, to : Offices]
  BY DEF TypeOK, HandoffRows

LEMMA BlankRow ==
    ASSUME TypeOK, NEW h \in HandoffIds
    PROVE  (handoffs[h] = Unused) <=> (handoffs[h].status = "Unused")
  <1>1. CASE handoffs[h] = Unused
    BY <1>1 DEF Unused
  <1>2. CASE handoffs[h] # Unused
    <2>1. handoffs[h].status \in Statuses
      BY <1>2, UsedRow
    <2> QED
      BY <1>2, <2>1 DEF Statuses
  <1> QED
    BY <1>1, <1>2

LEMMA PendingIsOpen == Pending = Open
  BY DEF Pending, Open

LEMMA OpenRow ==
    ASSUME TypeOK, NEW h \in Open
    PROVE  /\ h \in HandoffIds
           /\ handoffs[h].status = "Pending Receipt"
           /\ handoffs[h] \in [status : Statuses, from : Offices, to : Offices]
  <1>1. h \in HandoffIds /\ handoffs[h].status = "Pending Receipt"
    BY DEF Open
  <1>2. handoffs[h] # Unused
    BY <1>1, BlankRow
  <1> QED
    BY <1>1, <1>2, UsedRow

(* Giving a pending handoff its end changes nothing else. *)
LEMMA SetStatus ==
    ASSUME TypeOK, NEW h \in Open, NEW status \in Statuses,
           handoffs' = [handoffs EXCEPT ![h].status = status]
    PROVE  /\ handoffs' \in [HandoffIds -> HandoffRows]
           /\ handoffs'[h].status = status
           /\ handoffs'[h].from = handoffs[h].from
           /\ handoffs'[h].to = handoffs[h].to
           /\ \A g \in HandoffIds \ {h} : handoffs'[g] = handoffs[g]
  <1>1. /\ h \in HandoffIds
        /\ handoffs[h] \in [status : Statuses, from : Offices, to : Offices]
        /\ handoffs \in [HandoffIds -> HandoffRows]
    BY OpenRow DEF TypeOK
  <1>2. handoffs'[h] = [handoffs[h] EXCEPT !.status = status]
    BY <1>1
  <1>3. handoffs'[h] = [status |-> status, from |-> handoffs[h].from, to |-> handoffs[h].to]
    BY <1>1, <1>2
  <1>4. handoffs'[h] \in HandoffRows
    BY <1>1, <1>3 DEF HandoffRows
  <1> QED
    BY <1>1, <1>3, <1>4

(* Inserting a pending handoff uses one blank row. *)
LEMMA InsertRow ==
    ASSUME TypeOK, NEW h \in HandoffIds, NEW o \in Offices, NEW p \in Offices,
           handoffs' = [handoffs EXCEPT ![h] =
               [status |-> "Pending Receipt", from |-> o, to |-> p]]
    PROVE  /\ handoffs' \in [HandoffIds -> HandoffRows]
           /\ handoffs'[h].status = "Pending Receipt"
           /\ handoffs'[h].from = o
           /\ handoffs'[h].to = p
           /\ \A g \in HandoffIds \ {h} : handoffs'[g] = handoffs[g]
  <1>1. [status |-> "Pending Receipt", from |-> o, to |-> p] \in HandoffRows
    BY DEF HandoffRows, Statuses
  <1> QED
    BY <1>1 DEF TypeOK

LEMMA NextType == IInv /\ [Next]_vars => TypeOK'
  <1> SUFFICES ASSUME IInv, TypeOK, [Next]_vars PROVE TypeOK'
    BY DEF IInv
  <1> USE DEF Points
  <1>0. doc \in Documents
    BY DEF TypeOK
  <1>1. CASE UNCHANGED vars
    BY <1>1 DEF TypeOK, vars
  <1>2. CASE Gone
    BY <1>2 DEF TypeOK, Gone, vars
  <1>3. ASSUME NEW r \in Requests, Begin(r)
        PROVE  TypeOK'
    <2>1. ASSUME NEW o \in Offices, NEW p \in Offices, CreateLoad(r, o, p) PROVE TypeOK'
      BY <2>1, <1>0, StartType, LoadedLocals DEF CreateLoad
    <2>2. ASSUME NEW o \in Offices, ConfirmLoad(r, o) PROVE TypeOK'
      BY <2>2, <1>0, StartType, LoadedLocals DEF ConfirmLoad
    <2>3. ASSUME NEW o \in Offices, ActionLoad(r, o) PROVE TypeOK'
      BY <2>3, <1>0, StartType, LoadedLocals DEF ActionLoad
    <2>4. [NoLocals EXCEPT !.snap = doc] \in Locals
      BY <1>0, EmptyLocals DEF Locals
    <2>5. CASE ArchiveLoad(r)
      BY <2>4, <2>5, StartType DEF ArchiveLoad
    <2>6. CASE RestoreLoad(r)
      BY <2>4, <2>6, StartType DEF RestoreLoad
    <2>7. CASE DeleteLoad(r)
      BY <2>4, <2>7, StartType DEF DeleteLoad
    <2>8. ASSUME NEW h \in HandoffIds, CancelHandoff(r, h) \/ ReturnHandoff(r, h) PROVE TypeOK'
      <3>1. PICK status \in Statuses : Close(r, h, status)
        BY <2>8 DEF CancelHandoff, ReturnHandoff, Statuses
      <3>2. h \in Open
        BY <3>1, PendingIsOpen DEF Close
      <3>3. handoffs' \in [HandoffIds -> HandoffRows]
        BY <1>0, <3>1, <3>2, SetStatus DEF Close
      <3> QED
        BY <1>0, <3>1, <3>3 DEF Close, TypeOK
    <2> QED
      BY <1>3, <2>1, <2>2, <2>3, <2>5, <2>6, <2>7, <2>8 DEF Begin
  <1>4. ASSUME NEW r \in Requests, Continue(r)
        PROVE  TypeOK'
    <2>1. CASE CreateSelect(r)
      BY <2>1, GotoType, GotoWithType DEF CreateSelect, Pending
    <2>2. CASE CreateLocked(r)
      BY <2>2, GotoType, RefuseType DEF CreateLocked
    <2>3. CASE CreateInsert(r)
      <3>1. CASE Refuse(r)
        BY <1>0, <3>1, RefuseType
      <3>2. CASE ~Refuse(r)
        <4>1. loc[r].office \in Offices /\ loc[r].receiver \in Offices
          BY <2>3 DEF CreateInsert, IInv, Checked, CreateChecked, CreatePoints
        <4>2. PICK h \in HandoffIds : handoffs' = [handoffs EXCEPT ![h] =
                [status |-> "Pending Receipt", from |-> loc[r].office, to |-> loc[r].receiver]]
          BY <2>3, <3>2 DEF CreateInsert
        <4>3. handoffs' \in [HandoffIds -> HandoffRows]
          BY <1>0, <4>1, <4>2, InsertRow
        <4> QED
          BY <1>0, <2>3, <3>2, <4>3, FinishType DEF CreateInsert, TypeOK
      <3> QED
        BY <3>1, <3>2
    <2>4. CASE ConfirmSelect(r)
      BY <2>4, RefuseType, GotoWithType DEF ConfirmSelect, PendingTo, Pending
    <2>5. CASE ConfirmLocked(r)
      BY <2>5, RefuseType, GotoType DEF ConfirmLocked
    <2>6. CASE ConfirmWrite(r)
      <3>1. loc[r].handoff \in Open /\ loc[r].office \in Offices
        BY <2>6 DEF ConfirmWrite, IInv, Checked, ConfirmChecked
      <3>2. handoffs' \in [HandoffIds -> HandoffRows]
        BY <1>0, <2>6, <3>1, SetStatus DEF ConfirmWrite, Statuses
      <3>3. receipts' \subseteq OfficeMarks
        <4>1. [handoff |-> loc[r].handoff, office |-> loc[r].office] \in OfficeMarks
          BY <3>1, OpenRow DEF OfficeMarks
        <4> QED
          BY <2>6, <4>1 DEF ConfirmWrite, TypeOK
      <3>4. doc' \in Documents /\ assoc' \subseteq Offices
        BY <1>0, <2>6, <3>1 DEF ConfirmWrite, TypeOK, Documents
      <3> QED
        BY <1>0, <2>6, <3>2, <3>3, <3>4, FinishType DEF ConfirmWrite, TypeOK
    <2>7. CASE ActionSelect(r)
      BY <2>7, RefuseType, GotoWithType DEF ActionSelect, ReceivedBy
    <2>8. CASE ActionCheck(r)
      BY <2>8, RefuseType, GotoType DEF ActionCheck
    <2>9. CASE ActionInsert(r)
      <3>1. actions' \subseteq OfficeMarks
        BY <1>0, <2>9 DEF ActionInsert, IInv, Checked, ActionChecked, TypeOK
      <3> QED
        BY <1>0, <2>9, <3>1, FinishType DEF ActionInsert, TypeOK
    <2>10. CASE ArchiveCheck(r)
      BY <2>10, RefuseType, GotoType DEF ArchiveCheck
    <2>11. CASE ArchiveWrite(r)
      BY <2>11, <1>0, FinishType DEF ArchiveWrite, TypeOK, Documents
    <2>12. CASE RestoreWrite(r)
      BY <2>12, <1>0, FinishType DEF RestoreWrite, TypeOK, Documents
    <2>13. CASE DeleteRow(r)
      BY <2>13, RefuseType, GotoType DEF DeleteRow
    <2>14. CASE DeleteCascade(r)
      BY <2>14, FinishType, EmptyLocals, UnusedRow DEF DeleteCascade, TypeOK
    <2> QED
      BY <1>4, <2>1, <2>2, <2>3, <2>4, <2>5, <2>6, <2>7, <2>8, <2>9, <2>10,
         <2>11, <2>12, <2>13, <2>14 DEF Continue
  <1>5. ASSUME NEW r \in Requests, DeadlockVictim(r) \/ Rollback(r)
        PROVE  TypeOK'
    BY <1>5, RefuseType DEF DeadlockVictim, Rollback
  <1> QED
    BY <1>1, <1>2, <1>3, <1>4, <1>5 DEF Next

-----------------------------------------------------------------------------
(* Frames: what a step of one request leaves to the others *)

(* Only request r moves. *)
OnlyMoves(r) == \A q \in Requests \ {r} : pc'[q] = pc[q] /\ loc'[q] = loc[q]

LEMMA Moves ==
    ASSUME TypeOK, NEW r \in Requests
    PROVE  /\ \A point, locals : Start(r, point, locals) =>
                OnlyMoves(r) /\ pc'[r] = point /\ loc'[r] = locals /\ UNCHANGED db
           /\ \A point : Goto(r, point) =>
                OnlyMoves(r) /\ pc'[r] = point /\ loc'[r] = loc[r] /\ UNCHANGED db
           /\ \A point, h : GotoWith(r, point, h) =>
                /\ OnlyMoves(r) /\ pc'[r] = point /\ UNCHANGED db
                /\ loc'[r] = [loc[r] EXCEPT !.handoff = h]
           /\ Finish(r) => OnlyMoves(r) /\ pc'[r] = "idle"
  BY DEF TypeOK, Start, Goto, GotoWith, Finish, OnlyMoves, db

LEMMA IdleChecked ==
    ASSUME NEW r \in Requests, pc'[r] = "idle"
    PROVE  /\ Checked(r)'
           /\ ~LocksDocument(r)'
           /\ \A h : ~LocksHandoff(r, h)'
  BY DEF Checked, CreateChecked, ConfirmChecked, ActionChecked, CreatePoints,
         LocksDocument, LocksHandoff

(* Locks stay exclusive when a request takes only those that are free. *)
LEMMA LocksKept ==
    ASSUME DocumentLock, HandoffLock, NEW r \in Requests, OnlyMoves(r),
           LocksDocument(r)' => DocumentFree(r),
           \A h \in HandoffIds : LocksHandoff(r, h)' => HandoffFree(r, h)
    PROVE  DocumentLock' /\ HandoffLock'
  BY DEF DocumentLock, HandoffLock, OnlyMoves, DocumentFree, HandoffFree,
         LocksDocument, LocksHandoff

(* A step that writes nothing only has to establish what its own request   *)
(* relies on at its next statement.                                        *)
LEMMA QuietStep ==
    ASSUME IInv, TypeOK', NEW r \in Requests, UNCHANGED db, OnlyMoves(r), Checked(r)',
           LocksDocument(r)' => DocumentFree(r),
           \A h \in HandoffIds : LocksHandoff(r, h)' => HandoffFree(r, h)
    PROVE  IInv'
  <1>1. DocumentLock' /\ HandoffLock'
    BY LocksKept DEF IInv
  <1>2. Rows'
    BY DEF IInv, Rows, DeletedEmpty, AtMostOnePending, SenderStillHolds, ReceiptRows,
           ActionsAfterReceipt, Open, Holders, db
  <1>3. ASSUME NEW q \in Requests \ {r} PROVE Checked(q)'
    <2>1. pc'[q] = pc[q] /\ loc'[q] = loc[q]
      BY DEF OnlyMoves
    <2>2. UNCHANGED <<doc, handoffs, receipts>> /\ Open' = Open /\ Holders' = Holders
      BY DEF db, Open, Holders
    <2>3. CreateChecked(q) /\ ConfirmChecked(q) /\ ActionChecked(q)
      BY DEF IInv, Checked
    <2>4. CreateChecked(q)'
      BY <2>1, <2>2, <2>3 DEF CreateChecked
    <2>5. ConfirmChecked(q)'
      BY <2>1, <2>2, <2>3 DEF ConfirmChecked
    <2>6. ActionChecked(q)'
      BY <2>1, <2>2, <2>3 DEF ActionChecked
    <2> QED
      BY <2>4, <2>5, <2>6 DEF Checked
  <1> QED
    BY <1>1, <1>2, <1>3 DEF IInv

LEMMA RefuseStep ==
    ASSUME IInv, TypeOK', NEW r \in Requests, Refuse(r)
    PROVE  IInv'
  <1>1. OnlyMoves(r) /\ pc'[r] = "idle" /\ UNCHANGED db
    BY Moves DEF IInv, Refuse
  <1> QED
    BY <1>1, IdleChecked, QuietStep

(* A step that writes and ends its request. *)
LEMMA WriteStep ==
    ASSUME IInv, TypeOK', NEW r \in Requests, Finish(r), Rows',
           \A q \in Requests \ {r} : Checked(q)'
    PROVE  IInv'
  <1>1. OnlyMoves(r) /\ pc'[r] = "idle"
    BY Moves DEF IInv
  <1>2. DocumentLock' /\ HandoffLock'
    BY <1>1, IdleChecked, LocksKept DEF IInv
  <1> QED
    BY <1>1, <1>2, IdleChecked DEF IInv

-----------------------------------------------------------------------------
(* The steps that write *)

LEMMA PendingExists ==
    ASSUME IInv, NEW h \in Open
    PROVE  doc.exists /\ \A x \in receipts : x.handoff # h
  <1>1. handoffs[h] # Unused /\ h \in HandoffIds /\ handoffs[h].status = "Pending Receipt"
    BY OpenRow, BlankRow DEF IInv
  <1> QED
    BY <1>1 DEF IInv, Rows, DeletedEmpty, ReceiptRows

LEMMA CreateInsertStep ==
    ASSUME IInv, TypeOK', NEW r \in Requests, CreateInsert(r)
    PROVE  IInv'
  <1>1. CASE Refuse(r)
    BY <1>1, RefuseStep
  <1>2. CASE ~Refuse(r)
    <2>1. /\ Open = {} /\ doc.exists /\ ~doc.archived
          /\ loc[r].office \in Offices /\ loc[r].receiver \in Offices
          /\ loc[r].office \in Holders
      BY DEF CreateInsert, IInv, Checked, CreateChecked, CreatePoints
    <2>2. PICK h \in HandoffIds :
            /\ handoffs[h].status = "Unused"
            /\ handoffs' = [handoffs EXCEPT ![h] =
                 [status |-> "Pending Receipt", from |-> loc[r].office, to |-> loc[r].receiver]]
      BY <1>2 DEF CreateInsert, IsNextId
    <2>3. /\ handoffs'[h].status = "Pending Receipt"
          /\ handoffs'[h].from = loc[r].office
          /\ handoffs'[h].to = loc[r].receiver
          /\ \A g \in HandoffIds \ {h} : handoffs'[g] = handoffs[g]
      BY <2>1, <2>2, InsertRow DEF IInv
    <2>4. Finish(r) /\ UNCHANGED <<doc, assoc, receipts, actions>>
      BY <1>2 DEF CreateInsert
    <2>5. handoffs[h] = Unused
      BY <2>2, BlankRow DEF IInv
    <2>6. Open' = {h}
      BY <2>1, <2>3 DEF Open
    <2>7. Rows'
      <3>1. DeletedEmpty' /\ AtMostOnePending' /\ ActionsAfterReceipt'
        BY <2>1, <2>4, <2>6 DEF IInv, Rows, DeletedEmpty, AtMostOnePending, ActionsAfterReceipt
      <3>2. SenderStillHolds'
        BY <2>1, <2>3, <2>4, <2>6 DEF SenderStillHolds, Holders
      <3>3. \A x \in receipts : x.handoff \in HandoffIds /\ x.handoff # h
        BY <2>2 DEF IInv, Rows, ReceiptRows, TypeOK, OfficeMarks
      <3>4. ReceiptRows'
        BY <2>3, <2>4, <3>3 DEF IInv, Rows, ReceiptRows
      <3> QED
        BY <3>1, <3>2, <3>4 DEF Rows
    <2>8. ASSUME NEW q \in Requests \ {r} PROVE Checked(q)'
      <3>1. pc'[q] = pc[q] /\ loc'[q] = loc[q] /\ Checked(q)
        BY <2>4, Moves DEF IInv, OnlyMoves
      <3>2. pc[q] \notin CreatePoints
        BY DEF CreateInsert, IInv, DocumentLock, LocksDocument, CreatePoints
      <3>3. CreateChecked(q)' /\ ActionChecked(q)'
        BY <2>4, <3>1, <3>2 DEF Checked, CreateChecked, ActionChecked, CreatePoints
      <3>4. pc[q] = "confirm_wait" => loc[q].handoff # h
        BY <2>1, <2>5, <3>1, OfficesAssumption DEF Checked, ConfirmChecked, Unused
      <3>5. ConfirmChecked(q)'
        BY <2>1, <2>3, <2>4, <3>1, <3>4 DEF Checked, ConfirmChecked
      <3> QED
        BY <3>3, <3>5 DEF Checked
    <2> QED
      BY <2>4, <2>7, <2>8, WriteStep
  <1> QED
    BY <1>1, <1>2

LEMMA CloseStep ==
    ASSUME IInv, TypeOK', NEW r \in Requests, NEW h \in HandoffIds,
           NEW status \in {"Cancelled", "Returned"}, Close(r, h, status)
    PROVE  IInv'
  <1>1. h \in Open
    BY PendingIsOpen DEF Close
  <1>2. /\ handoffs'[h].status = status
        /\ handoffs'[h].from = handoffs[h].from
        /\ handoffs'[h].to = handoffs[h].to
        /\ \A g \in HandoffIds \ {h} : handoffs'[g] = handoffs[g]
    BY <1>1, SetStatus DEF IInv, Close, Statuses
  <1>3. UNCHANGED <<doc, assoc, receipts, actions, pc, loc>>
    BY DEF Close
  <1>4. Open' = Open \ {h}
    BY <1>2 DEF Open
  <1>5. Rows'
    <2>1. DeletedEmpty' /\ AtMostOnePending' /\ ActionsAfterReceipt'
      BY <1>1, <1>3, <1>4, PendingExists
         DEF IInv, Rows, DeletedEmpty, AtMostOnePending, ActionsAfterReceipt
    <2>2. SenderStillHolds'
      BY <1>1, <1>2, <1>3, <1>4 DEF IInv, Rows, SenderStillHolds, Holders, Open
    <2>3. \A x \in receipts : x.handoff \in HandoffIds /\ x.handoff # h
      BY <1>1, PendingExists DEF IInv, TypeOK, OfficeMarks
    <2>4. ReceiptRows'
      BY <1>2, <1>3, <2>3 DEF IInv, Rows, ReceiptRows
    <2> QED
      BY <2>1, <2>2, <2>4 DEF Rows
  <1>6. ASSUME NEW q \in Requests PROVE Checked(q)'
    <2>1. Checked(q)
      BY DEF IInv
    <2>2. CreateChecked(q)' /\ ActionChecked(q)'
      BY <1>3, <1>4, <2>1 DEF Checked, CreateChecked, ActionChecked, Holders
    <2>3. pc[q] = "confirm_write" => loc[q].handoff # h
      BY DEF Close, HandoffFree, LocksHandoff
    <2>4. ConfirmChecked(q)'
      BY <1>2, <1>3, <1>4, <2>1, <2>3 DEF Checked, ConfirmChecked, Open
    <2> QED
      BY <2>2, <2>4 DEF Checked
  <1>7. DocumentLock' /\ HandoffLock'
    BY <1>3 DEF IInv, DocumentLock, HandoffLock, LocksDocument, LocksHandoff
  <1> QED
    BY <1>5, <1>6, <1>7 DEF IInv

LEMMA ConfirmWriteStep ==
    ASSUME IInv, TypeOK', NEW r \in Requests, ConfirmWrite(r)
    PROVE  IInv'
  <1> DEFINE h == loc[r].handoff
  <1>1. h \in Open /\ h \in HandoffIds /\ loc[r].office \in Offices /\ handoffs[h].to = loc[r].office
    BY OpenRow DEF ConfirmWrite, IInv, Checked, ConfirmChecked
  <1>2. doc.exists /\ doc'.exists /\ \A x \in receipts : x.handoff # h
    BY <1>1, PendingExists DEF ConfirmWrite, IInv, TypeOK, Documents
  <1>3. /\ handoffs'[h].status = "Received"
        /\ handoffs'[h].from = handoffs[h].from
        /\ handoffs'[h].to = handoffs[h].to
        /\ \A g \in HandoffIds \ {h} : handoffs'[g] = handoffs[g]
    BY <1>1, SetStatus DEF IInv, ConfirmWrite, Statuses
  <1>4. Open = {h} /\ Open' = {}
    <2>1. Open = {h}
      BY <1>1 DEF IInv, Rows, AtMostOnePending
    <2>2. \A g \in HandoffIds : handoffs'[g].status # "Pending Receipt"
      BY <1>3, <2>1 DEF Open
    <2> QED
      BY <2>1, <2>2 DEF Open
  <1>5. Rows'
    <2>1. DeletedEmpty' /\ AtMostOnePending' /\ SenderStillHolds'
      BY <1>2, <1>4 DEF DeletedEmpty, AtMostOnePending, SenderStillHolds
    <2>2. ActionsAfterReceipt'
      BY DEF ConfirmWrite, IInv, Rows, ActionsAfterReceipt
    <2>3. \A x \in receipts : x.handoff \in HandoffIds
      BY DEF IInv, TypeOK, OfficeMarks
    <2>4. \A x \in receipts' : handoffs'[x.handoff].status = "Received" /\ handoffs'[x.handoff].to = x.office
      BY <1>1, <1>2, <1>3, <2>3 DEF ConfirmWrite, IInv, Rows, ReceiptRows
    <2>5. \A g \in HandoffIds : handoffs'[g].status = "Received" =>
             [handoff |-> g, office |-> handoffs'[g].to] \in receipts'
      BY <1>1, <1>3 DEF ConfirmWrite, IInv, Rows, ReceiptRows
    <2> QED
      BY <2>1, <2>2, <2>4, <2>5 DEF Rows, ReceiptRows
  <1>6. ASSUME NEW q \in Requests \ {r} PROVE Checked(q)'
    <2>1. pc'[q] = pc[q] /\ loc'[q] = loc[q] /\ Checked(q)
      BY Moves DEF IInv, OnlyMoves, ConfirmWrite
    <2>2. pc[q] \notin CreatePoints
      BY DEF ConfirmWrite, DocumentFree, LocksDocument, CreatePoints
    <2>3. CreateChecked(q)' /\ ActionChecked(q)'
      BY <2>1, <2>2 DEF Checked, CreateChecked, ActionChecked, CreatePoints, ConfirmWrite
    <2>4. pc[q] # "confirm_write"
      BY <1>1, <1>4, <2>1 DEF ConfirmWrite, IInv, Checked, ConfirmChecked, HandoffLock, LocksHandoff
    <2>5. ConfirmChecked(q)'
      BY <1>2, <1>3, <2>1, <2>4 DEF Checked, ConfirmChecked
    <2> QED
      BY <2>3, <2>5 DEF Checked
  <1> QED
    BY <1>5, <1>6, WriteStep DEF ConfirmWrite

LEMMA ActionInsertStep ==
    ASSUME IInv, TypeOK', NEW r \in Requests, ActionInsert(r)
    PROVE  IInv'
  <1>1. Rows'
    <2>1. /\ pc[r] = "action_insert" /\ UNCHANGED <<doc, assoc, handoffs, receipts>>
          /\ actions' = actions \cup {[handoff |-> loc[r].handoff, office |-> loc[r].office]}
      BY DEF ActionInsert
    <2>2. ActionsAfterReceipt'
      BY <2>1 DEF IInv, Checked, ActionChecked, Rows, ActionsAfterReceipt
    <2>3. DeletedEmpty' /\ AtMostOnePending' /\ SenderStillHolds' /\ ReceiptRows'
      BY <2>1 DEF IInv, Rows, DeletedEmpty, AtMostOnePending, SenderStillHolds, ReceiptRows, Open, Holders
    <2> QED
      BY <2>2, <2>3 DEF Rows
  <1>2. ASSUME NEW q \in Requests \ {r} PROVE Checked(q)'
    <2>1. /\ pc'[q] = pc[q] /\ loc'[q] = loc[q] /\ Checked(q)
          /\ UNCHANGED <<doc, assoc, handoffs, receipts>>
      BY Moves DEF ActionInsert, IInv, OnlyMoves
    <2> QED
      BY <2>1 DEF Checked, CreateChecked, ConfirmChecked, ActionChecked, Open, Holders
  <1> QED
    BY <1>1, <1>2, WriteStep DEF ActionInsert

(* Archiving and restoring change one column, which only a handoff being   *)
(* created relies on; that one holds the lock the UPDATE waits for.        *)
LEMMA ArchivedStep ==
    ASSUME IInv, TypeOK', NEW r \in Requests, ArchiveWrite(r) \/ RestoreWrite(r)
    PROVE  IInv'
  <1>1. /\ doc'.exists = doc.exists /\ doc'.office = doc.office
        /\ DocumentFree(r) /\ Finish(r)
        /\ UNCHANGED <<assoc, handoffs, receipts, actions>>
    BY DEF ArchiveWrite, RestoreWrite, IInv, TypeOK, Documents
  <1>2. Rows'
    BY <1>1 DEF IInv, Rows, DeletedEmpty, AtMostOnePending, SenderStillHolds, ReceiptRows,
                ActionsAfterReceipt, Open, Holders
  <1>3. ASSUME NEW q \in Requests \ {r} PROVE Checked(q)'
    <2>1. pc'[q] = pc[q] /\ loc'[q] = loc[q] /\ Checked(q) /\ pc[q] \notin CreatePoints
      BY <1>1, Moves DEF IInv, OnlyMoves, DocumentFree, LocksDocument, CreatePoints
    <2> QED
      BY <1>1, <2>1 DEF Checked, CreateChecked, ConfirmChecked, ActionChecked, CreatePoints, Open
  <1> QED
    BY <1>1, <1>2, <1>3, WriteStep

LEMMA DeleteCascadeStep ==
    ASSUME IInv, TypeOK', NEW r \in Requests, DeleteCascade(r)
    PROVE  IInv'
  <1>1. /\ doc'.exists = FALSE /\ receipts' = {} /\ actions' = {} /\ Finish(r)
        /\ \A h \in HandoffIds : handoffs'[h] = Unused /\ handoffs'[h].status = "Unused"
    BY DEF DeleteCascade, NotLoaded, Unused
  <1>2. Open' = {}
    BY <1>1 DEF Open
  <1>3. Rows'
    BY <1>1, <1>2 DEF Rows, DeletedEmpty, AtMostOnePending, SenderStillHolds, ReceiptRows,
                      ActionsAfterReceipt
  <1>4. ASSUME NEW q \in Requests \ {r} PROVE Checked(q)'
    <2>1. pc'[q] = pc[q] /\ loc'[q] = loc[q] /\ Checked(q)
      BY <1>1, Moves DEF IInv, OnlyMoves
    <2>2. pc[q] \notin CreatePoints
      BY DEF DeleteCascade, IInv, DocumentLock, LocksDocument, CreatePoints
    <2>3. pc[q] \notin {"confirm_write", "action_check", "action_insert"}
      <3>1. pc[q] \in {"confirm_write", "action_check", "action_insert"} => loc[q].handoff \in HandoffIds
        BY <2>1, OpenRow DEF Checked, ConfirmChecked, ActionChecked, IInv
      <3> QED
        BY <3>1 DEF DeleteCascade, HandoffFree, LocksHandoff
    <2> QED
      BY <1>1, <2>1, <2>2, <2>3 DEF Checked, CreateChecked, ConfirmChecked, ActionChecked, CreatePoints
  <1> QED
    BY <1>1, <1>3, <1>4, WriteStep

-----------------------------------------------------------------------------
(* The steps that only read *)

LEMMA HolderIsFree ==
    ASSUME IInv, NEW r \in Requests
    PROVE  /\ LocksDocument(r) => DocumentFree(r)
           /\ \A h \in HandoffIds : LocksHandoff(r, h) => HandoffFree(r, h)
  BY DEF IInv, DocumentLock, HandoffLock, DocumentFree, HandoffFree

LEMMA BeginStep ==
    ASSUME IInv, TypeOK', NEW r \in Requests, Begin(r)
    PROVE  IInv'
  <1> USE DEF Checked, CreateChecked, ConfirmChecked, ActionChecked, CreatePoints,
              LocksDocument, LocksHandoff
  <1>1. ASSUME NEW o \in Offices, NEW p \in Offices, CreateLoad(r, o, p) PROVE IInv'
    <2>1. /\ OnlyMoves(r) /\ pc'[r] = "create_pending" /\ UNCHANGED db
          /\ loc'[r].office = o /\ loc'[r].receiver = p
      BY <1>1, Moves DEF CreateLoad, IInv
    <2>2. o \in Holders
      BY <1>1 DEF CreateLoad, Holds, Holders
    <2>3. Checked(r)'
      BY <1>1, <2>1, <2>2 DEF CreateLoad, Holders, db
    <2> QED
      BY <1>1, <2>1, <2>3, QuietStep DEF CreateLoad
  <1>2. ASSUME NEW o \in Offices, ConfirmLoad(r, o) PROVE IInv'
    <2>1. /\ OnlyMoves(r) /\ pc'[r] = "confirm_select" /\ UNCHANGED db
          /\ loc'[r].office = o
      BY <1>2, Moves DEF ConfirmLoad, IInv
    <2> QED
      BY <2>1, QuietStep
  <1>3. ASSUME NEW o \in Offices, ActionLoad(r, o) PROVE IInv'
    <2>1. OnlyMoves(r) /\ pc'[r] = "action_select" /\ UNCHANGED db
      BY <1>3, Moves DEF ActionLoad, IInv
    <2> QED
      BY <2>1, QuietStep
  <1>4. CASE ArchiveLoad(r) \/ RestoreLoad(r) \/ DeleteLoad(r)
    <2>1. /\ OnlyMoves(r) /\ UNCHANGED db
          /\ pc'[r] \in {"archive_check", "restore_write", "delete_row"}
      BY <1>4, Moves DEF ArchiveLoad, RestoreLoad, DeleteLoad, IInv
    <2> QED
      BY <2>1, QuietStep
  <1>5. ASSUME NEW h \in HandoffIds, CancelHandoff(r, h) \/ ReturnHandoff(r, h) PROVE IInv'
    BY <1>5, CloseStep DEF CancelHandoff, ReturnHandoff
  <1> QED
    BY <1>1, <1>2, <1>3, <1>4, <1>5 DEF Begin

LEMMA ContinueStep ==
    ASSUME IInv, TypeOK', NEW r \in Requests, Continue(r)
    PROVE  IInv'
  <1> USE DEF Checked, CreateChecked, ConfirmChecked, ActionChecked, CreatePoints,
              LocksDocument, LocksHandoff
  <1>0. TypeOK /\ Checked(r)
    BY DEF IInv
  <1>1. CASE CreateSelect(r)
    <2>1. CASE Pending = {} /\ Goto(r, "create_insert")
      <3>1. OnlyMoves(r) /\ pc'[r] = "create_insert" /\ loc'[r] = loc[r] /\ UNCHANGED db
        BY <1>0, <2>1, Moves
      <3>2. Checked(r)'
        BY <1>0, <1>1, <2>1, <3>1, PendingIsOpen DEF CreateSelect, Open, Holders, db
      <3> QED
        BY <1>1, <3>1, <3>2, HolderIsFree, QuietStep DEF CreateSelect
    <2>2. ASSUME NEW h \in Pending, GotoWith(r, "create_wait", h) PROVE IInv'
      <3>1. /\ OnlyMoves(r) /\ pc'[r] = "create_wait" /\ UNCHANGED db
            /\ loc'[r] = [loc[r] EXCEPT !.handoff = h]
        BY <1>0, <2>2, Moves
      <3>2. loc'[r].office = loc[r].office /\ loc'[r].receiver = loc[r].receiver /\ loc'[r].handoff = h
        BY <1>0, <3>1 DEF TypeOK, Locals
      <3>3. Open \subseteq {h}
        BY PendingIsOpen DEF IInv, Rows, AtMostOnePending
      <3>4. Checked(r)'
        BY <1>0, <1>1, <3>1, <3>2, <3>3 DEF CreateSelect, Open, Holders, db
      <3> QED
        BY <1>1, <3>1, <3>4, HolderIsFree, QuietStep DEF CreateSelect
    <2> QED
      BY <1>1, <2>1, <2>2 DEF CreateSelect
  <1>2. CASE CreateLocked(r)
    <2>1. CASE loc[r].handoff \notin Pending
      <3>1. OnlyMoves(r) /\ pc'[r] = "create_insert" /\ loc'[r] = loc[r] /\ UNCHANGED db
        BY <1>0, <1>2, <2>1, Moves DEF CreateLocked
      <3>2. Checked(r)'
        BY <1>0, <1>2, <2>1, <3>1, PendingIsOpen DEF CreateLocked, Open, Holders, db
      <3> QED
        BY <1>2, <3>1, <3>2, HolderIsFree, QuietStep DEF CreateLocked
    <2> QED
      BY <1>2, <2>1, RefuseStep DEF CreateLocked
  <1>3. CASE CreateInsert(r)
    BY <1>3, CreateInsertStep
  <1>4. CASE ConfirmSelect(r)
    <2>1. ASSUME NEW h \in PendingTo(loc[r].office), GotoWith(r, "confirm_wait", h) PROVE IInv'
      <3>1. /\ OnlyMoves(r) /\ pc'[r] = "confirm_wait" /\ UNCHANGED db
            /\ loc'[r] = [loc[r] EXCEPT !.handoff = h]
        BY <1>0, <2>1, Moves
      <3>2. loc'[r].office = loc[r].office /\ loc'[r].handoff = h
        BY <1>0, <3>1 DEF TypeOK, Locals
      <3>3. h \in HandoffIds /\ handoffs[h].to = loc[r].office /\ loc[r].office \in Offices
        BY <1>0, <1>4 DEF PendingTo, Pending, ConfirmSelect
      <3>4. Checked(r)'
        BY <3>1, <3>2, <3>3 DEF db
      <3> QED
        BY <3>1, <3>4, QuietStep
    <2> QED
      BY <1>4, <2>1, RefuseStep DEF ConfirmSelect
  <1>5. CASE ConfirmLocked(r)
    <2>1. CASE loc[r].handoff \in Pending /\ Goto(r, "confirm_write")
      <3>1. OnlyMoves(r) /\ pc'[r] = "confirm_write" /\ loc'[r] = loc[r] /\ UNCHANGED db
        BY <1>0, <2>1, Moves
      <3>2. loc[r].handoff \in Open /\ doc.exists
        BY <2>1, PendingIsOpen, PendingExists
      <3>3. Checked(r)'
        BY <1>0, <1>5, <3>1, <3>2 DEF ConfirmLocked, Open, db
      <3> QED
        BY <1>5, <3>1, <3>3, QuietStep DEF ConfirmLocked
    <2> QED
      BY <1>5, <2>1, RefuseStep DEF ConfirmLocked
  <1>6. CASE ConfirmWrite(r)
    BY <1>6, ConfirmWriteStep
  <1>7. CASE ActionSelect(r)
    <2>1. ASSUME NEW h \in ReceivedBy(loc[r].office), HandoffFree(r, h), GotoWith(r, "action_check", h),
                 [handoff |-> h, office |-> loc[r].office] \in receipts
          PROVE  IInv'
      <3>1. /\ OnlyMoves(r) /\ pc'[r] = "action_check" /\ UNCHANGED db
            /\ loc'[r] = [loc[r] EXCEPT !.handoff = h]
        BY <1>0, <2>1, Moves
      <3>2. loc'[r].office = loc[r].office /\ loc'[r].handoff = h /\ h \in HandoffIds
        BY <1>0, <2>1, <3>1 DEF TypeOK, Locals, ReceivedBy
      <3>3. Checked(r)'
        BY <2>1, <3>1, <3>2 DEF db
      <3> QED
        BY <2>1, <3>1, <3>2, <3>3, QuietStep
    <2> QED
      BY <1>7, <2>1, RefuseStep DEF ActionSelect
  <1>8. CASE ActionCheck(r)
    <2>1. CASE Goto(r, "action_insert")
      <3>1. OnlyMoves(r) /\ pc'[r] = "action_insert" /\ loc'[r] = loc[r] /\ UNCHANGED db
        BY <1>0, <2>1, Moves
      <3>2. Checked(r)'
        BY <1>0, <1>8, <3>1 DEF ActionCheck, db
      <3> QED
        BY <1>0, <1>8, <3>1, <3>2, HolderIsFree, QuietStep DEF ActionCheck
    <2> QED
      BY <1>8, <2>1, RefuseStep DEF ActionCheck
  <1>9. CASE ActionInsert(r)
    BY <1>9, ActionInsertStep
  <1>10. CASE ArchiveCheck(r)
    <2>1. CASE Goto(r, "archive_write")
      <3>1. OnlyMoves(r) /\ pc'[r] = "archive_write" /\ UNCHANGED db
        BY <1>0, <2>1, Moves
      <3> QED
        BY <3>1, QuietStep
    <2> QED
      BY <1>10, <2>1, RefuseStep DEF ArchiveCheck
  <1>11. CASE ArchiveWrite(r) \/ RestoreWrite(r)
    BY <1>11, ArchivedStep
  <1>12. CASE DeleteRow(r)
    <2>1. CASE Goto(r, "delete_cascade")
      <3>1. OnlyMoves(r) /\ pc'[r] = "delete_cascade" /\ UNCHANGED db
        BY <1>0, <2>1, Moves
      <3> QED
        BY <1>12, <3>1, QuietStep DEF DeleteRow
    <2> QED
      BY <1>12, <2>1, RefuseStep DEF DeleteRow
  <1>13. CASE DeleteCascade(r)
    BY <1>13, DeleteCascadeStep
  <1> QED
    BY <1>1, <1>2, <1>3, <1>4, <1>5, <1>6, <1>7, <1>8, <1>9, <1>10, <1>11, <1>12, <1>13 DEF Continue

-----------------------------------------------------------------------------
(* The inductive invariant and what it implies *)

LEMMA InitInv == Init => IInv
  <1> SUFFICES ASSUME Init PROVE IInv
    OBVIOUS
  <1>1. TypeOK
    BY InitType
  <1>2. /\ doc.exists = TRUE /\ receipts = {} /\ actions = {}
        /\ \A r \in Requests : pc[r] = "idle"
        /\ \A h \in HandoffIds : handoffs[h].status = "Unused"
    BY DEF Init, Unused
  <1>3. DocumentLock /\ HandoffLock /\ \A r \in Requests : Checked(r)
    BY <1>2 DEF DocumentLock, HandoffLock, LocksDocument, LocksHandoff,
                Checked, CreateChecked, ConfirmChecked, ActionChecked, CreatePoints
  <1>4. Open = {}
    BY <1>2 DEF Open
  <1>5. Rows
    BY <1>2, <1>4 DEF Rows, DeletedEmpty, AtMostOnePending, SenderStillHolds, ReceiptRows,
                      ActionsAfterReceipt
  <1> QED
    BY <1>1, <1>3, <1>5 DEF IInv

LEMMA NextInv == IInv /\ [Next]_vars => IInv'
  <1> SUFFICES ASSUME IInv, [Next]_vars PROVE IInv'
    OBVIOUS
  <1>1. TypeOK'
    BY NextType
  <1>2. CASE UNCHANGED vars
    <2>1. Rows'
      BY <1>2 DEF IInv, Rows, DeletedEmpty, AtMostOnePending, SenderStillHolds, ReceiptRows,
                  ActionsAfterReceipt, Open, Holders, vars
    <2>2. \A r \in Requests : Checked(r)'
      BY <1>2 DEF IInv, Checked, CreateChecked, ConfirmChecked, ActionChecked, Open, Holders, vars
    <2>3. DocumentLock' /\ HandoffLock'
      BY <1>2 DEF IInv, DocumentLock, HandoffLock, LocksDocument, LocksHandoff, vars
    <2> QED
      BY <1>1, <2>1, <2>2, <2>3 DEF IInv
  <1>3. ASSUME NEW r \in Requests, Begin(r) PROVE IInv'
    BY <1>1, <1>3, BeginStep
  <1>4. ASSUME NEW r \in Requests, Continue(r) PROVE IInv'
    BY <1>1, <1>4, ContinueStep
  <1>5. ASSUME NEW r \in Requests, DeadlockVictim(r) \/ Rollback(r) PROVE IInv'
    BY <1>1, <1>5, RefuseStep DEF DeadlockVictim, Rollback
  <1> QED
    BY <1>2, <1>3, <1>4, <1>5 DEF Next, Gone

(* The row locks requests hold are exclusive, what a request has checked   *)
(* under a lock is still so when it writes, and the document's rows agree  *)
(* with one another: the invariant every theorem below rests on.           *)
THEOREM Invariance == Spec => []IInv
  BY InitInv, NextInv, PTL DEF Spec

(* Every reachable state is well typed: no request writes a handoff, a     *)
(* receipt or a document row outside what the tables allow.                *)
THEOREM TypeCorrect == Spec => []TypeOK
  <1>1. IInv => TypeOK
    BY DEF IInv
  <1> QED
    BY <1>1, Invariance, PTL

(* However many offices pass a document at once, one handoff at most       *)
(* awaits receipt, and it is the lock on the document that ensures it:     *)
(* the partial unique index never has to refuse an insert.                 *)
THEOREM OnePending == Spec => [](AtMostOnePending /\ IndexNeverFires)
  <1>1. IInv => AtMostOnePending /\ IndexNeverFires
    BY DEF IInv, Rows, Checked, CreateChecked, IndexNeverFires
  <1> QED
    BY <1>1, Invariance, PTL

(* While a document is on its way, the office that sent it still holds it. *)
THEOREM CustodyWaits == Spec => []SenderStillHolds
  <1>1. IInv => SenderStillHolds
    BY DEF IInv, Rows
  <1> QED
    BY <1>1, Invariance, PTL

(* A handoff is received exactly when its receiving office, and no other,  *)
(* has a receipt for it; an action is recorded only under a receipt.       *)
THEOREM TrailMatches == Spec => [](ReceiptsMatch /\ ActionsAfterReceipt)
  <1>1. ASSUME IInv, NEW h \in HandoffIds
        PROVE  {receipt.office : receipt \in {x \in receipts : x.handoff = h}} =
                 IF handoffs[h].status = "Received" THEN {handoffs[h].to} ELSE {}
    <2>1. \A x \in receipts : x.handoff = h => handoffs[h].status = "Received" /\ x.office = handoffs[h].to
      BY <1>1 DEF IInv, Rows, ReceiptRows
    <2>2. CASE handoffs[h].status = "Received"
      <3> DEFINE x == [handoff |-> h, office |-> handoffs[h].to]
      <3>1. x \in receipts /\ x.handoff = h /\ x.office = handoffs[h].to
        BY <1>1, <2>2 DEF IInv, Rows, ReceiptRows
      <3> HIDE DEF x
      <3> QED
        BY <2>1, <2>2, <3>1
    <2>3. CASE handoffs[h].status # "Received"
      BY <2>1, <2>3
    <2> QED
      BY <2>2, <2>3
  <1>2. IInv => ReceiptsMatch /\ ActionsAfterReceipt
    BY <1>1 DEF ReceiptsMatch, IInv, Rows
  <1> QED
    BY <1>2, Invariance, PTL

-----------------------------------------------------------------------------
(* What a step may do to the tables *)

(* The four ways a step writes document_handoffs or the current office. *)
Sends(r, h) ==
    /\ Open = {} /\ doc.exists /\ ~doc.archived /\ loc[r].office \in Holders
    /\ h \in HandoffIds /\ handoffs[h] = Unused
    /\ handoffs'[h].status = "Pending Receipt" /\ handoffs'[h].from = loc[r].office
    /\ \A g \in HandoffIds \ {h} : handoffs'[g] = handoffs[g]
    /\ UNCHANGED doc

Ends(h, status) ==
    /\ h \in Open
    /\ handoffs'[h] = [handoffs[h] EXCEPT !.status = status]
    /\ handoffs'[h].status = status
    /\ \A g \in HandoffIds \ {h} : handoffs'[g] = handoffs[g]

Leaves ==
    /\ UNCHANGED handoffs
    /\ doc'.exists = doc.exists /\ doc'.office = doc.office

LEMMA Effects ==
    ASSUME IInv, [Next]_vars
    PROVE  \/ Leaves
           \/ ~doc'.exists /\ \A h \in HandoffIds : handoffs'[h] = Unused
           \/ \E r \in Requests, h \in HandoffIds : Sends(r, h)
           \/ \E h \in HandoffIds :
                 \/ UNCHANGED doc /\ (Ends(h, "Cancelled") \/ Ends(h, "Returned"))
                 \/ /\ Ends(h, "Received") /\ doc'.office \in {doc.office, handoffs[h].to}
                    /\ \E r \in Requests : ConfirmWrite(r) /\ loc[r].office = handoffs[h].to
  <1> DEFINE Goal ==
           \/ Leaves
           \/ ~doc'.exists /\ \A h \in HandoffIds : handoffs'[h] = Unused
           \/ \E r \in Requests, h \in HandoffIds : Sends(r, h)
           \/ \E h \in HandoffIds :
                 \/ UNCHANGED doc /\ (Ends(h, "Cancelled") \/ Ends(h, "Returned"))
                 \/ /\ Ends(h, "Received") /\ doc'.office \in {doc.office, handoffs[h].to}
                    /\ \E r \in Requests : ConfirmWrite(r) /\ loc[r].office = handoffs[h].to
  <1>1. ASSUME UNCHANGED db PROVE Goal
    BY <1>1 DEF Leaves, db
  <1>2. ASSUME NEW h \in Open, NEW status \in Statuses,
               handoffs' = [handoffs EXCEPT ![h].status = status]
        PROVE  h \in HandoffIds /\ Ends(h, status)
    <2>1. h \in HandoffIds /\ handoffs \in [HandoffIds -> HandoffRows]
      BY OpenRow DEF IInv, TypeOK
    <2>2. handoffs'[h] = [handoffs[h] EXCEPT !.status = status]
      BY <1>2, <2>1
    <2> QED
      BY <1>2, <2>1, <2>2, SetStatus DEF Ends, IInv
  <1>3. ASSUME NEW r \in Requests, CreateInsert(r), ~Refuse(r) PROVE Goal
    <2>1. /\ Open = {} /\ doc.exists /\ ~doc.archived
          /\ loc[r].office \in Offices /\ loc[r].receiver \in Offices
          /\ loc[r].office \in Holders
      BY <1>3 DEF CreateInsert, IInv, Checked, CreateChecked, CreatePoints
    <2>2. PICK h \in HandoffIds :
            /\ handoffs[h].status = "Unused"
            /\ handoffs' = [handoffs EXCEPT ![h] =
                 [status |-> "Pending Receipt", from |-> loc[r].office, to |-> loc[r].receiver]]
      BY <1>3 DEF CreateInsert, IsNextId
    <2>3. /\ handoffs'[h].status = "Pending Receipt" /\ handoffs'[h].from = loc[r].office
          /\ \A g \in HandoffIds \ {h} : handoffs'[g] = handoffs[g]
      BY <2>1, <2>2, InsertRow DEF IInv
    <2>4. handoffs[h] = Unused /\ UNCHANGED doc
      BY <1>3, <2>2, BlankRow DEF CreateInsert, IInv
    <2>5. Sends(r, h)
      BY <2>1, <2>3, <2>4 DEF Sends
    <2> QED
      BY <2>5
  <1>4. ASSUME NEW r \in Requests, NEW h \in HandoffIds, NEW status \in {"Cancelled", "Returned"},
               Close(r, h, status)
        PROVE  Goal
    <2>1. h \in Open /\ UNCHANGED doc /\ Ends(h, status)
      BY <1>2, <1>4, PendingIsOpen DEF Close, Statuses
    <2> QED
      BY <2>1
  <1>5. ASSUME NEW r \in Requests, ConfirmWrite(r) PROVE Goal
    <2>1. loc[r].handoff \in Open /\ handoffs[loc[r].handoff].to = loc[r].office
      BY <1>5 DEF ConfirmWrite, IInv, Checked, ConfirmChecked
    <2>2. loc[r].handoff \in HandoffIds /\ Ends(loc[r].handoff, "Received")
      BY <1>2, <1>5, <2>1 DEF ConfirmWrite, Statuses
    <2>3. doc'.office \in {doc.office, handoffs[loc[r].handoff].to}
      BY <1>5, <2>1 DEF ConfirmWrite, IInv, TypeOK, Documents
    <2> QED
      BY <1>5, <2>1, <2>2, <2>3
  <1>6. ASSUME NEW r \in Requests, ActionInsert(r) \/ ArchiveWrite(r) \/ RestoreWrite(r) PROVE Goal
    BY <1>6 DEF ActionInsert, ArchiveWrite, RestoreWrite, Leaves, IInv, TypeOK, Documents
  <1>7. ASSUME NEW r \in Requests, DeleteCascade(r) PROVE Goal
    BY <1>7 DEF DeleteCascade, NotLoaded
  <1>8. ASSUME NEW r \in Requests, Begin(r) PROVE Goal
    <2>1. CASE UNCHANGED db
      BY <1>1, <2>1
    <2>2. CASE \E h \in HandoffIds : CancelHandoff(r, h) \/ ReturnHandoff(r, h)
      BY <1>4, <2>2 DEF CancelHandoff, ReturnHandoff
    <2> QED
      BY <1>8, <2>1, <2>2 DEF Begin, CreateLoad, ConfirmLoad, ActionLoad, ArchiveLoad, RestoreLoad,
                              DeleteLoad, Start
  <1>9. ASSUME NEW r \in Requests, Continue(r) PROVE Goal
    <2>1. CASE UNCHANGED db
      BY <1>1, <2>1
    <2>2. CASE CreateInsert(r) /\ ~Refuse(r)
      BY <1>3, <2>2
    <2> QED
      BY <1>5, <1>6, <1>7, <1>9, <2>1, <2>2
         DEF Continue, CreateSelect, CreateLocked, ConfirmSelect, ConfirmLocked, ActionSelect,
             ActionCheck, ArchiveCheck, DeleteRow, Goto, GotoWith, Refuse
  <1> QED
    BY <1>1, <1>8, <1>9 DEF Next, Gone, DeadlockVictim, Rollback, Refuse, vars, db

(* Custody changes hands only by the receipt of a pending handoff. *)
THEOREM OnlyReceiptMovesCustody == Spec => CustodyMovesByReceipt
  <1>1. IInv /\ [Next]_vars =>
          \/ ~doc'.exists
          \/ doc'.office = doc.office
          \/ \E h \in Open : /\ handoffs[h].to = doc'.office
                            /\ handoffs'[h].status = "Received"
    <2> SUFFICES ASSUME IInv, [Next]_vars, doc'.exists, doc'.office # doc.office
                 PROVE  \E h \in Open : handoffs[h].to = doc'.office /\ handoffs'[h].status = "Received"
      OBVIOUS
    <2>1. PICK h \in HandoffIds : Ends(h, "Received") /\ doc'.office \in {doc.office, handoffs[h].to}
      BY Effects DEF Leaves, Sends
    <2> QED
      BY <2>1 DEF Ends
  <1> QED
    BY <1>1, Invariance, PTL DEF Spec, CustodyMovesByReceipt

(* A handoff is only ever sent by an office that holds a live document, at *)
(* the moment it is committed.                                             *)
THEOREM HolderSends == Spec => SentByHolder
  <1>1. IInv /\ [Next]_vars =>
          \A h \in HandoffIds :
             handoffs[h] = Unused /\ handoffs'[h] # Unused =>
                doc.exists /\ ~doc.archived /\ handoffs'[h].from \in Holders
    <2> SUFFICES ASSUME IInv, [Next]_vars, NEW h \in HandoffIds,
                        handoffs[h] = Unused, handoffs'[h] # Unused
                 PROVE  doc.exists /\ ~doc.archived /\ handoffs'[h].from \in Holders
      OBVIOUS
    <2>1. h \notin Open
      BY OpenRow, BlankRow DEF IInv
    <2>2. PICK r \in Requests, g \in HandoffIds : Sends(r, g)
      BY <2>1, Effects DEF Leaves, Ends
    <2> QED
      BY <2>2 DEF Sends
  <1> QED
    BY <1>1, Invariance, PTL DEF Spec, SentByHolder

(* A handoff's end is final: what is received, cancelled or returned stays *)
(* so, between the same two offices, until the document is deleted.        *)
THEOREM FinalEnds == Spec => EndsAreFinal
  <1> DEFINE Step(h) ==
        \/ handoffs'[h] = handoffs[h]
        \/ handoffs[h] = Unused /\ handoffs'[h].status = "Pending Receipt"
        \/ /\ handoffs[h].status = "Pending Receipt"
           /\ handoffs'[h].status \in {"Received", "Cancelled", "Returned"}
           /\ handoffs'[h] = [handoffs[h] EXCEPT !.status = handoffs'[h].status]
  <1>1. IInv /\ [Next]_vars => (doc'.exists => \A h \in HandoffIds : Step(h))
    <2> SUFFICES ASSUME IInv, [Next]_vars, doc'.exists, NEW h \in HandoffIds
                 PROVE  Step(h)
      OBVIOUS
    <2>1. CASE \E r \in Requests, g \in HandoffIds : Sends(r, g)
      BY <2>1 DEF Sends
    <2>2. ASSUME NEW g \in HandoffIds, NEW status \in {"Received", "Cancelled", "Returned"},
                 Ends(g, status)
          PROVE  Step(h)
      BY <2>2 DEF Ends, Open
    <2>3. CASE Leaves
      BY <2>3 DEF Leaves
    <2> QED
      BY <2>1, <2>2, <2>3, Effects
  <1> QED
    BY <1>1, Invariance, PTL DEF Spec, EndsAreFinal

-----------------------------------------------------------------------------
(* Requests that do not overlap *)

(* What a request that runs alone may rely on between its statements: the  *)
(* document is as it loaded it, and what it found there still holds.  Only *)
(* a handoff being closed, in one step, may come in between.               *)
Current(r) ==
    /\ pc[r] \in CreatePoints => loc[r].receiver # loc[r].office
    /\ pc[r] \in {"confirm_select", "confirm_wait", "confirm_write",
                 "action_select", "action_check", "action_insert"} =>
          doc.exists /\ loc[r].snap = doc
    /\ pc[r] = "action_insert" => ~doc.archived /\ Open = {} /\ loc[r].office \in Holders
    /\ pc[r] \in {"archive_check", "archive_write"} => doc.exists /\ ~doc.archived
    /\ pc[r] = "archive_write" => Open = {}
    /\ pc[r] \in {"restore_write", "delete_row", "delete_cascade"} => doc.exists /\ doc.archived

AllCurrent == \A r \in Requests : Current(r)

LEMMA IdleCurrent ==
    ASSUME NEW r \in Requests, pc'[r] = "idle"
    PROVE  Current(r)'
  BY DEF Current, CreatePoints

(* Beside a request that has begun every other one is idle. *)
LEMMA OthersCurrent ==
    ASSUME NEW r \in Requests, NoOverlap', pc'[r] # "idle", Current(r)'
    PROVE  AllCurrent'
  BY IdleCurrent DEF NoOverlap, AllCurrent

LEMMA EndedCurrent ==
    ASSUME TypeOK, AllCurrent, NEW r \in Requests, Finish(r), NoOverlap, pc[r] # "idle"
    PROVE  AllCurrent'
  <1>1. ASSUME NEW q \in Requests PROVE pc'[q] = "idle"
    BY Moves DEF OnlyMoves, NoOverlap
  <1> QED
    BY <1>1, IdleCurrent DEF AllCurrent

LEMMA BeginCurrent ==
    ASSUME IInv, AllCurrent, NoOverlap', NEW r \in Requests, Begin(r)
    PROVE  AllCurrent'
  <1>0. TypeOK
    BY DEF IInv
  <1> USE DEF CreatePoints
  <1>1. ASSUME NEW o \in Offices, NEW p \in Offices, CreateLoad(r, o, p) PROVE AllCurrent'
    <2>1. /\ pc'[r] = "create_pending"
          /\ loc'[r] = [office |-> o, receiver |-> p, snap |-> doc, handoff |-> 0]
          /\ p # o
      BY <1>0, <1>1, Moves DEF CreateLoad
    <2>2. Current(r)'
      BY <2>1 DEF Current
    <2> QED
      BY <2>1, <2>2, OthersCurrent
  <1>2. ASSUME NEW o \in Offices, ConfirmLoad(r, o) \/ ActionLoad(r, o) PROVE AllCurrent'
    <2>1. /\ pc'[r] \in {"confirm_select", "action_select"} /\ doc'.exists /\ loc'[r].snap = doc'
      BY <1>0, <1>2, Moves DEF ConfirmLoad, ActionLoad, db
    <2>2. Current(r)'
      BY <2>1 DEF Current
    <2> QED
      BY <2>1, <2>2, OthersCurrent
  <1>3. CASE ArchiveLoad(r)
    <2>1. pc'[r] = "archive_check" /\ doc'.exists /\ ~doc'.archived
      BY <1>0, <1>3, Moves DEF ArchiveLoad, db
    <2>2. Current(r)'
      BY <2>1 DEF Current
    <2> QED
      BY <2>1, <2>2, OthersCurrent
  <1>4. CASE RestoreLoad(r) \/ DeleteLoad(r)
    <2>1. pc'[r] \in {"restore_write", "delete_row"} /\ doc'.exists /\ doc'.archived
      BY <1>0, <1>4, Moves DEF RestoreLoad, DeleteLoad, db
    <2>2. Current(r)'
      BY <2>1 DEF Current
    <2> QED
      BY <2>1, <2>2, OthersCurrent
  <1>5. ASSUME NEW h \in HandoffIds, CancelHandoff(r, h) \/ ReturnHandoff(r, h) PROVE AllCurrent'
    <2>1. PICK status \in {"Cancelled", "Returned"} : Close(r, h, status)
      BY <1>5 DEF CancelHandoff, ReturnHandoff
    <2>2. /\ UNCHANGED <<doc, assoc, pc, loc>>
          /\ h \in Open /\ handoffs' = [handoffs EXCEPT ![h].status = status]
      BY <2>1, PendingIsOpen DEF Close
    <2>3. Open' \subseteq Open
      <3>1. handoffs'[h].status = status /\ \A g \in HandoffIds \ {h} : handoffs'[g] = handoffs[g]
        BY <1>0, <2>2, SetStatus DEF Statuses
      <3> QED
        BY <3>1 DEF Open
    <2>4. ASSUME NEW q \in Requests PROVE Current(q)'
      BY <2>2, <2>3 DEF AllCurrent, Current, Holders
    <2> QED
      BY <2>4 DEF AllCurrent
  <1> QED
    BY <1>1, <1>2, <1>3, <1>4, <1>5 DEF Begin

LEMMA ContinueCurrent ==
    ASSUME IInv, AllCurrent, NoOverlap, NoOverlap', NEW r \in Requests, Continue(r)
    PROVE  AllCurrent'
  <1>0. TypeOK /\ Current(r)
    BY DEF IInv, AllCurrent
  <1>1. pc[r] # "idle"
    BY DEF Continue, CreateSelect, CreateLocked, CreateInsert, ConfirmSelect, ConfirmLocked, ConfirmWrite,
           ActionSelect, ActionCheck, ActionInsert, ArchiveCheck, ArchiveWrite, RestoreWrite,
           DeleteRow, DeleteCascade
  <1>2. CASE Finish(r)
    BY <1>0, <1>1, <1>2, EndedCurrent
  <1>3. ASSUME NEW point, Goto(r, point) \/ \E h \in HandoffIds : GotoWith(r, point, h)
        PROVE  /\ pc'[r] = point /\ UNCHANGED db
               /\ loc'[r].office = loc[r].office /\ loc'[r].receiver = loc[r].receiver
               /\ loc'[r].snap = loc[r].snap
    <2>1. CASE Goto(r, point)
      BY <1>0, <2>1, Moves
    <2>2. ASSUME NEW h \in HandoffIds, GotoWith(r, point, h)
          PROVE  /\ pc'[r] = point /\ UNCHANGED db
                 /\ loc'[r] = [loc[r] EXCEPT !.handoff = h]
      BY <1>0, <2>2, Moves
    <2>3. loc[r] \in Locals
      BY <1>0 DEF TypeOK
    <2> QED
      BY <1>3, <2>1, <2>2, <2>3 DEF Locals
  <1>4. ASSUME ~Finish(r), CreateSelect(r) \/ CreateLocked(r) \/ CreateInsert(r)
        PROVE  AllCurrent'
    <2>1. PICK point \in CreatePoints : Goto(r, point) \/ \E h \in HandoffIds : GotoWith(r, point, h)
      BY <1>4 DEF CreateSelect, CreateLocked, CreateInsert, CreatePoints, Refuse, Pending
    <2>2. Current(r)' /\ pc'[r] # "idle"
      BY <1>0, <1>3, <1>4, <2>1 DEF Current, CreatePoints, CreateSelect, CreateLocked, CreateInsert
    <2> QED
      BY <2>2, OthersCurrent
  <1>5. ASSUME ~Finish(r), ConfirmSelect(r) \/ ConfirmLocked(r) \/ ConfirmWrite(r) \/ ActionSelect(r)
        PROVE  AllCurrent'
    <2>1. PICK point \in {"confirm_wait", "confirm_write", "action_check"} :
            Goto(r, point) \/ \E h \in HandoffIds : GotoWith(r, point, h)
      BY <1>5 DEF ConfirmSelect, ConfirmLocked, ConfirmWrite, ActionSelect, Refuse, PendingTo, Pending,
                  ReceivedBy
    <2>2. doc.exists /\ loc[r].snap = doc
      BY <1>0, <1>5 DEF Current, ConfirmSelect, ConfirmLocked, ConfirmWrite, ActionSelect
    <2>3. Current(r)' /\ pc'[r] # "idle"
      BY <1>3, <2>1, <2>2 DEF Current, CreatePoints, db
    <2> QED
      BY <2>3, OthersCurrent
  <1>6. ASSUME ~Finish(r), ActionCheck(r)
        PROVE  AllCurrent'
    <2>1. /\ Goto(r, "action_insert") /\ ~loc[r].snap.archived
          /\ Holds(loc[r].snap.office, loc[r].office) /\ Open = {}
      BY <1>6, PendingIsOpen DEF ActionCheck, Refuse
    <2>2. doc.exists /\ loc[r].snap = doc
      BY <1>0, <1>6 DEF Current, ActionCheck
    <2>3. loc[r].office \in Holders
      BY <2>1, <2>2 DEF Holds, Holders
    <2>4. /\ pc'[r] = "action_insert" /\ UNCHANGED db
          /\ loc'[r].office = loc[r].office /\ loc'[r].snap = loc[r].snap
      BY <1>3, <2>1
    <2>5. Current(r)'
      BY <2>1, <2>2, <2>3, <2>4 DEF Current, CreatePoints, Open, Holders, db
    <2> QED
      BY <2>4, <2>5, OthersCurrent
  <1>7. ASSUME ~Finish(r), ArchiveCheck(r) \/ DeleteRow(r)
        PROVE  AllCurrent'
    <2>1. \/ ArchiveCheck(r) /\ Goto(r, "archive_write") /\ Open = {}
          \/ DeleteRow(r) /\ Goto(r, "delete_cascade")
      BY <1>7, PendingIsOpen DEF ArchiveCheck, DeleteRow, Refuse
    <2>2. CASE ArchiveCheck(r) /\ Goto(r, "archive_write") /\ Open = {}
      <3>1. doc.exists /\ ~doc.archived
        BY <1>0, <2>2 DEF Current, ArchiveCheck
      <3>2. pc'[r] = "archive_write" /\ UNCHANGED <<doc, handoffs>>
        BY <1>3, <2>2 DEF db
      <3> QED
        BY <2>2, <3>1, <3>2, OthersCurrent DEF Current, CreatePoints, Open
    <2>3. CASE DeleteRow(r) /\ Goto(r, "delete_cascade")
      <3>1. doc.exists /\ doc.archived
        BY <1>0, <2>3 DEF Current, DeleteRow
      <3>2. pc'[r] = "delete_cascade" /\ UNCHANGED doc
        BY <1>3, <2>3 DEF db
      <3> QED
        BY <3>1, <3>2, OthersCurrent DEF Current, CreatePoints
    <2> QED
      BY <2>1, <2>2, <2>3
  <1>8. CASE ConfirmWrite(r) \/ ActionInsert(r) \/ ArchiveWrite(r) \/ RestoreWrite(r) \/ DeleteCascade(r)
    BY <1>2, <1>8 DEF ConfirmWrite, ActionInsert, ArchiveWrite, RestoreWrite, DeleteCascade
  <1> QED
    BY <1>2, <1>4, <1>5, <1>6, <1>7, <1>8 DEF Continue

LEMMA NextCurrent ==
    ASSUME IInv, AllCurrent, NoOverlap, NoOverlap', [Next]_vars
    PROVE  AllCurrent'
  <1>1. CASE UNCHANGED vars
    BY <1>1 DEF AllCurrent, Current, CreatePoints, Open, Holders, vars
  <1>2. ASSUME NEW r \in Requests, DeadlockVictim(r) \/ Rollback(r) PROVE AllCurrent'
    <2>1. Finish(r) /\ pc[r] # "idle"
      BY <1>2 DEF DeadlockVictim, Deadlocked, WaitsFor, Rollback, Refuse
    <2> QED
      BY <2>1, EndedCurrent DEF IInv
  <1> QED
    BY <1>1, <1>2, BeginCurrent, ContinueCurrent DEF Next, Gone

LEMMA CurrentAlone == Spec /\ []NoOverlap => []AllCurrent
  <1>1. Init => AllCurrent
    BY DEF Init, AllCurrent, Current, CreatePoints
  <1>2. IInv /\ AllCurrent /\ NoOverlap /\ NoOverlap' /\ [Next]_vars => AllCurrent'
    BY NextCurrent
  <1> QED
    BY <1>1, <1>2, Invariance, PTL DEF Spec

-----------------------------------------------------------------------------
(* The promise of Custody, step by step *)

(* What Custody sees of a handoff on its way, before and after a step. *)
LEMMA UnderwayIs ==
    ASSUME IInv
    PROVE  /\ Open = {} => Underway = Nowhere
           /\ \A h \in Open : /\ Underway = [from |-> handoffs[h].from, to |-> handoffs[h].to]
                             /\ Underway # Nowhere
  <1>1. Open = {} => Underway = Nowhere
    BY DEF Underway
  <1>2. ASSUME NEW h \in Open
        PROVE  /\ Underway = [from |-> handoffs[h].from, to |-> handoffs[h].to]
               /\ Underway # Nowhere
    <2>1. (CHOOSE g \in Open : TRUE) = h
      BY DEF IInv, Rows, AtMostOnePending
    <2>2. Underway = [from |-> handoffs[h].from, to |-> handoffs[h].to]
      BY <2>1 DEF Underway
    <2>3. handoffs[h].from \in Offices /\ handoffs[h].to \in Offices
      BY OpenRow DEF IInv
    <2> QED
      BY <2>2, <2>3, NowhereAssumption
  <1> QED
    BY <1>1, <1>2

LEMMA UnderwayNext ==
    ASSUME IInv'
    PROVE  /\ Open' = {} => Underway' = Nowhere
           /\ \A h \in Open' : Underway' = [from |-> handoffs'[h].from, to |-> handoffs'[h].to]
  <1>1. Open' = {} => Underway' = Nowhere
    BY DEF Underway
  <1>2. ASSUME NEW h \in Open'
        PROVE  Underway' = [from |-> handoffs'[h].from, to |-> handoffs'[h].to]
    <2>1. (CHOOSE g \in Open' : TRUE) = h
      BY DEF IInv, Rows, AtMostOnePending
    <2> QED
      BY <2>1 DEF Underway
  <1> QED
    BY <1>1, <1>2

LEMMA SameUnderway ==
    ASSUME IInv, IInv', UNCHANGED handoffs
    PROVE  UNCHANGED Underway
  <1>1. Open' = Open
    BY DEF Open
  <1> QED
    BY <1>1, UnderwayIs, UnderwayNext

(* The handoff that ends was the only one on its way. *)
LEMMA NoneLeftOpen ==
    ASSUME IInv, NEW h \in Open, handoffs'[h].status # "Pending Receipt",
           \A g \in HandoffIds \ {h} : handoffs'[g] = handoffs[g]
    PROVE  Open' = {}
  <1>1. ASSUME NEW g \in HandoffIds PROVE handoffs'[g].status # "Pending Receipt"
    <2>1. CASE g = h
      BY <2>1
    <2>2. CASE g # h
      <3>1. g \notin Open
        BY <2>2 DEF IInv, Rows, AtMostOnePending
      <3> QED
        BY <2>2, <3>1 DEF Open
    <2> QED
      BY <2>1, <2>2
  <1> QED
    BY <1>1 DEF Open

(* A step that writes no row is none to Custody. *)
LEMMA QuietSame ==
    ASSUME IInv, IInv', UNCHANGED db
    PROVE  UNCHANGED Promise!vars
  BY SameUnderway DEF db, Promise!vars, Holders

LEMMA SendsOne ==
    ASSUME IInv, IInv', AllCurrent, NEW r \in Requests, CreateInsert(r), ~Refuse(r)
    PROVE  Promise!Next
  <1>1. /\ Open = {} /\ doc.exists /\ ~doc.archived
        /\ loc[r].office \in Offices /\ loc[r].receiver \in Offices
        /\ loc[r].office \in Holders /\ loc[r].receiver # loc[r].office
    BY DEF CreateInsert, IInv, Checked, CreateChecked, AllCurrent, Current, CreatePoints
  <1>2. PICK h \in HandoffIds :
          handoffs' = [handoffs EXCEPT ![h] =
             [status |-> "Pending Receipt", from |-> loc[r].office, to |-> loc[r].receiver]]
    BY DEF CreateInsert
  <1>3. /\ handoffs'[h].status = "Pending Receipt"
        /\ handoffs'[h].from = loc[r].office /\ handoffs'[h].to = loc[r].receiver
    BY <1>1, <1>2, InsertRow DEF IInv
  <1>4. Underway = Nowhere
    BY <1>1, UnderwayIs
  <1>5. Underway' = [from |-> loc[r].office, to |-> loc[r].receiver]
    BY <1>3, UnderwayNext DEF Open
  <1>6. UNCHANGED <<doc, assoc, actions>>
    BY DEF CreateInsert
  <1>7. Promise!Send(loc[r].office, loc[r].receiver)
    BY <1>1, <1>4, <1>5, <1>6 DEF Promise!Send, Promise!InHand, Holders
  <1> QED
    BY <1>1, <1>7 DEF Promise!Next

LEMMA CallsOff ==
    ASSUME IInv, IInv', NEW r \in Requests, NEW h \in HandoffIds,
           NEW status \in {"Cancelled", "Returned"}, Close(r, h, status)
    PROVE  Promise!Next
  <1>1. /\ h \in Open /\ UNCHANGED <<doc, assoc, actions>>
        /\ handoffs' = [handoffs EXCEPT ![h].status = status]
    BY PendingIsOpen DEF Close
  <1>2. handoffs'[h].status = status /\ \A g \in HandoffIds \ {h} : handoffs'[g] = handoffs[g]
    BY <1>1, SetStatus DEF IInv, Statuses
  <1>3. Open' = {}
    BY <1>1, <1>2, NoneLeftOpen
  <1>4. Underway # Nowhere /\ Underway' = Nowhere
    BY <1>1, <1>3, UnderwayIs, UnderwayNext
  <1>5. Promise!CallOff
    BY <1>1, <1>4 DEF Promise!CallOff, Holders
  <1> QED
    BY <1>5 DEF Promise!Next

(* Alone, the office that confirms a receipt ends up the document's        *)
(* current one, whether or not the ORM leaves the column out.              *)
LEMMA Receives ==
    ASSUME IInv, IInv', AllCurrent, NEW r \in Requests, ConfirmWrite(r)
    PROVE  Promise!Next /\ doc'.office = loc[r].office /\ doc'.exists /\ Open' = {}
  <1>1. /\ loc[r].handoff \in Open /\ loc[r].office \in Offices
        /\ handoffs[loc[r].handoff].to = loc[r].office
        /\ loc[r].snap = doc /\ doc.exists
    BY DEF ConfirmWrite, IInv, Checked, ConfirmChecked, AllCurrent, Current
  <1>2. /\ handoffs'[loc[r].handoff].status = "Received"
        /\ \A g \in HandoffIds \ {loc[r].handoff} : handoffs'[g] = handoffs[g]
    BY <1>1, SetStatus DEF ConfirmWrite, IInv, Statuses
  <1>3. Open' = {}
    BY <1>1, <1>2, NoneLeftOpen
  <1>4. /\ doc'.office = loc[r].office /\ doc'.exists = doc.exists /\ doc'.archived = doc.archived
        /\ UNCHANGED actions
    BY <1>1 DEF ConfirmWrite, IInv, TypeOK, Documents
  <1>5. Holders' = {loc[r].office}
    BY <1>1, <1>4, OfficesAssumption DEF Holders
  <1>6. /\ Underway # Nowhere /\ Underway.to = loc[r].office
        /\ Underway' = Nowhere
    BY <1>1, <1>3, UnderwayIs, UnderwayNext
  <1>7. Promise!Receive
    BY <1>4, <1>5, <1>6 DEF Promise!Receive
  <1> QED
    BY <1>1, <1>3, <1>4, <1>7 DEF Promise!Next

LEMMA Acts ==
    ASSUME IInv, IInv', AllCurrent, NEW r \in Requests, ActionInsert(r)
    PROVE  Promise!Next
  <1>1. /\ doc.exists /\ ~doc.archived /\ Open = {} /\ loc[r].office \in Holders
        /\ loc[r].office \in Offices
    BY DEF ActionInsert, IInv, TypeOK, OfficeMarks, Checked, ActionChecked, AllCurrent, Current
  <1>2. /\ UNCHANGED <<doc, assoc, handoffs>>
        /\ actions' = actions \cup {[handoff |-> loc[r].handoff, office |-> loc[r].office]}
    BY DEF ActionInsert
  <1>3. Underway = Nowhere /\ UNCHANGED Underway
    BY <1>1, <1>2, UnderwayIs, SameUnderway
  <1>4. {action.office : action \in actions'} = {action.office : action \in actions} \cup {loc[r].office}
    <2> DEFINE mark == [handoff |-> loc[r].handoff, office |-> loc[r].office]
    <2>1. mark.office = loc[r].office /\ actions' = actions \cup {mark}
      BY <1>2
    <2> HIDE DEF mark
    <2> QED
      BY <2>1
  <1>5. PICK o \in Offices : o = loc[r].office
    BY <1>1
  <1>6. Promise!Act(o)
    BY <1>1, <1>2, <1>3, <1>4, <1>5 DEF Promise!Act, Promise!InHand, Holders
  <1> QED
    BY <1>6 DEF Promise!Next

LEMMA ArchivesAndRestores ==
    ASSUME IInv, IInv', AllCurrent, NEW r \in Requests, ArchiveWrite(r) \/ RestoreWrite(r)
    PROVE  Promise!Next
  <1>1. /\ doc'.exists = doc.exists /\ doc'.office = doc.office
        /\ UNCHANGED <<assoc, handoffs, actions>>
    BY DEF ArchiveWrite, RestoreWrite, IInv, TypeOK, Documents
  <1>2. UNCHANGED Underway /\ UNCHANGED Holders
    BY <1>1, SameUnderway DEF Holders
  <1>3. CASE ArchiveWrite(r)
    <2>1. doc.exists /\ ~doc.archived /\ Open = {} /\ doc'.archived = TRUE
      BY <1>3 DEF ArchiveWrite, IInv, TypeOK, Documents, AllCurrent, Current
    <2>2. Promise!Archive
      BY <1>1, <1>2, <2>1, UnderwayIs DEF Promise!Archive, Promise!InHand
    <2> QED
      BY <2>2 DEF Promise!Next
  <1>4. CASE RestoreWrite(r)
    <2>1. doc.exists /\ doc.archived /\ doc'.archived = FALSE
      BY <1>4 DEF RestoreWrite, IInv, TypeOK, Documents, AllCurrent, Current
    <2>2. Promise!Restore
      BY <1>1, <1>2, <2>1 DEF Promise!Restore
    <2> QED
      BY <2>2 DEF Promise!Next
  <1> QED
    BY <1>3, <1>4

LEMMA Deletes ==
    ASSUME IInv, IInv', AllCurrent, NEW r \in Requests, DeleteCascade(r)
    PROVE  Promise!Next
  <1>1. doc.exists /\ doc.archived
    BY DEF DeleteCascade, AllCurrent, Current
  <1>2. /\ doc' = NotLoaded /\ assoc' = {} /\ actions' = {}
        /\ \A h \in HandoffIds : handoffs'[h] = Unused
    BY DEF DeleteCascade
  <1>3. doc'.exists = FALSE /\ doc'.archived = FALSE /\ Holders' = {} /\ Open' = {}
    <2>1. doc'.exists = FALSE /\ doc'.archived = FALSE /\ doc'.office = NoOffice
      BY <1>2 DEF NotLoaded
    <2>2. \A h \in HandoffIds : handoffs'[h].status = "Unused"
      BY <1>2 DEF Unused
    <2> QED
      BY <1>2, <2>1, <2>2 DEF Holders, Open
  <1>4. Underway' = Nowhere /\ {action.office : action \in actions'} = {}
    BY <1>2, <1>3, UnderwayNext
  <1>5. Promise!Delete
    BY <1>1, <1>3, <1>4 DEF Promise!Delete
  <1> QED
    BY <1>5 DEF Promise!Next

LEMMA NextPromise ==
    ASSUME IInv, IInv', AllCurrent, [Next]_vars
    PROVE  [Promise!Next]_Promise!vars
  <1>1. CASE UNCHANGED db
    BY <1>1, QuietSame
  <1>2. ASSUME NEW r \in Requests, Begin(r) PROVE Promise!Next \/ UNCHANGED db
    BY <1>2, CallsOff DEF Begin, CreateLoad, ConfirmLoad, ActionLoad, ArchiveLoad, RestoreLoad,
                          DeleteLoad, Start, CancelHandoff, ReturnHandoff
  <1>3. ASSUME NEW r \in Requests, Continue(r) PROVE Promise!Next \/ UNCHANGED db
    <2>1. CASE CreateInsert(r) /\ ~Refuse(r)
      BY <2>1, SendsOne
    <2> QED
      BY <1>3, <2>1, Receives, Acts, ArchivesAndRestores, Deletes
         DEF Continue, CreateSelect, CreateLocked, ConfirmSelect, ConfirmLocked, ActionSelect,
             ActionCheck, ArchiveCheck, DeleteRow, Goto, GotoWith, Refuse
  <1> QED
    BY <1>1, <1>2, <1>3 DEF Next, Gone, DeadlockVictim, Rollback, Refuse, vars, db

LEMMA InitPromise == Init => Promise!Init
  <1> SUFFICES ASSUME Init PROVE Promise!Init
    OBVIOUS
  <1>1. doc.exists = TRUE /\ doc.archived = FALSE /\ doc.office \in Offices \cup {NoOffice}
    BY DEF Init
  <1>2. Holders \in SUBSET Offices
    BY <1>1 DEF Init, Holders
  <1>3. Open = {}
    BY DEF Init, Open, Unused
  <1>4. Underway = Nowhere /\ {action.office : action \in actions} = {}
    BY <1>3 DEF Init, Underway
  <1> QED
    BY <1>1, <1>2, <1>4 DEF Promise!Init

(* Requests that do not overlap do to a document exactly what Custody      *)
(* promises: each moves the paper, archives it or records work in one step *)
(* and completely, or leaves all as it was.                                *)
THEOREM CustodyKept == Spec /\ []NoOverlap => KeepsPromise
  <1>1. Init => Promise!Init
    BY InitPromise
  <1>2. IInv /\ IInv' /\ AllCurrent /\ [Next]_vars => [Promise!Next]_Promise!vars
    BY NextPromise
  <1> QED
    BY <1>1, <1>2, Invariance, CurrentAlone, PTL DEF Spec, KeepsPromise, Promise!Spec

(* In particular with one request at a time. *)
THEOREM OneAtATime == (\A p, q \in Requests : p = q) => (Spec => KeepsPromise)
  <1> SUFFICES ASSUME \A p, q \in Requests : p = q PROVE Spec => KeepsPromise
    OBVIOUS
  <1>1. NoOverlap
    BY DEF NoOverlap
  <1> QED
    BY <1>1, CustodyKept, PTL

(***************************************************************************)
(* The screens.  What they show follows from the inductive invariant and   *)
(* two facts more: the offices a document is at and was received by are    *)
(* associated with it, and, when requests do not overlap, the deliveries   *)
(* form a chain that ends at the current office.                           *)
(***************************************************************************)

(* The office a document is at may open it. *)
CurrentIsAssociated == doc.office # NoOffice => doc.office \in assoc

LEMMA InitAssociated == Init => CurrentIsAssociated
  BY DEF Init, CurrentIsAssociated

(* Only a receipt gives the document an office, and it associates it too;  *)
(* only the permanent deletion takes an association away.                  *)
LEMMA NextAssociated ==
    ASSUME IInv, IInv', [Next]_vars, CurrentIsAssociated
    PROVE  CurrentIsAssociated'
  <1> USE DEF CurrentIsAssociated
  <1>1. CASE UNCHANGED db
    BY <1>1 DEF db
  <1>2. ASSUME NEW r \in Requests, CreateInsert(r)
        PROVE  CurrentIsAssociated'
    <2>1. UNCHANGED <<doc, assoc>>
      BY <1>2 DEF CreateInsert, Refuse, db
    <2> QED
      BY <2>1
  <1>3. ASSUME NEW r \in Requests, NEW h \in HandoffIds, CancelHandoff(r, h) \/ ReturnHandoff(r, h)
        PROVE  CurrentIsAssociated'
    BY <1>3 DEF CancelHandoff, ReturnHandoff, Close
  <1>4. ASSUME NEW r \in Requests, ConfirmWrite(r)
        PROVE  CurrentIsAssociated'
    BY <1>4 DEF ConfirmWrite, IInv, TypeOK, Documents
  <1>5. ASSUME NEW r \in Requests, ArchiveWrite(r) \/ RestoreWrite(r)
        PROVE  CurrentIsAssociated'
    BY <1>5 DEF ArchiveWrite, RestoreWrite, IInv, TypeOK, Documents
  <1>6. ASSUME NEW r \in Requests, ActionInsert(r)
        PROVE  CurrentIsAssociated'
    BY <1>6 DEF ActionInsert
  <1>7. ASSUME NEW r \in Requests, DeleteCascade(r)
        PROVE  CurrentIsAssociated'
    BY <1>7 DEF DeleteCascade, NotLoaded
  <1>8. ASSUME NEW r \in Requests, Begin(r)
        PROVE  CurrentIsAssociated'
    BY <1>1, <1>3, <1>8 DEF Begin, CreateLoad, ConfirmLoad, ActionLoad, ArchiveLoad, RestoreLoad,
                            DeleteLoad, Start
  <1>9. ASSUME NEW r \in Requests, Continue(r)
        PROVE  CurrentIsAssociated'
    BY <1>1, <1>2, <1>4, <1>5, <1>6, <1>7, <1>9
       DEF Continue, CreateSelect, CreateLocked, ConfirmSelect, ConfirmLocked, ActionSelect,
           ActionCheck, ArchiveCheck, DeleteRow, Goto, GotoWith, Refuse
  <1> QED
    BY <1>1, <1>8, <1>9 DEF Next, Gone, DeadlockVictim, Rollback, Refuse, vars, db

LEMMA Associated == Spec => []CurrentIsAssociated
  <1>1. IInv /\ IInv' /\ [Next]_vars /\ CurrentIsAssociated => CurrentIsAssociated'
    BY NextAssociated
  <1> QED
    BY <1>1, InitAssociated, Invariance, PTL DEF Spec

-----------------------------------------------------------------------------

(* Some handoff is the latest of a set of them. *)
LEMMA LatestExists ==
    ASSUME NEW rows \in SUBSET HandoffIds, rows # {}
    PROVE  \E h \in rows : IsLatest(h, rows)
  <1> DEFINE Left == {MaxHandoffs - h : h \in rows}
  <1>1. Left \subseteq Nat /\ Left # {}
    <2>1. \A h \in rows : MaxHandoffs - h \in Nat
      BY BoundAssumption DEF HandoffIds
    <2> QED
      BY <2>1
  <1>2. PICK n \in Left : \A m \in Left : <<m, n>> \notin OpToRel(<, Nat)
    <2> HIDE DEF Left
    <2> QED
      BY <1>1, WFMin, NatLessThanWellFounded
  <1>3. \A m \in Left : ~(m < n)
    BY <1>1, <1>2 DEF OpToRel
  <1>4. PICK h \in rows : n = MaxHandoffs - h
    BY <1>2
  <1>5. ASSUME NEW g \in rows PROVE g =< h
    <2>1. ~(MaxHandoffs - g < MaxHandoffs - h)
      BY <1>3, <1>4
    <2> QED
      BY <2>1, BoundAssumption DEF HandoffIds
  <1> QED
    BY <1>5 DEF IsLatest

(* A document that is neither archived nor on its way is held by its       *)
(* current office alone.                                                   *)
LEMMA HeldInOnePlace ==
    ASSUME IInv, CurrentIsAssociated, Active, doc.office # NoOffice, Pending = {}
    PROVE  /\ Holding = {doc.office}
           /\ Incoming = {} /\ Outgoing = {}
           /\ {o \in Offices : Record(o) = "full"} = Holding
  <1>1. doc.office \in Offices
    BY DEF IInv, TypeOK, Documents
  <1>2. Holding = {doc.office} /\ Incoming = {} /\ Outgoing = {}
    BY <1>1 DEF Holding, Held, Holds, Incoming, Outgoing, Awaited
  <1>3. ASSUME NEW o \in Offices
        PROVE  Record(o) = "full" <=> o = doc.office
    BY DEF Record, MayOpen, OfficeHolds, Holds, Active, CurrentIsAssociated
  <1> QED
    BY <1>1, <1>2, <1>3

(* A document on its way is with no office, leaving its current one.       *)
LEMMA InTransitInOnePlace ==
    ASSUME IInv, Active, doc.office # NoOffice, NEW h \in Pending
    PROVE  /\ Pending = {h}
           /\ handoffs[h].from = doc.office
           /\ Holding = {}
           /\ Incoming = {handoffs[h].to} /\ Outgoing = {doc.office}
           /\ {o \in Offices : Record(o) = "full"} = {}
  <1>1. Pending = {h}
    BY PendingIsOpen DEF IInv, Rows, AtMostOnePending
  <1>2. handoffs[h].from = doc.office
    BY PendingIsOpen DEF IInv, Rows, SenderStillHolds, Holders
  <1>3. Holding = {}
    BY <1>2 DEF Holding, Held, Holds
  <1>4. Incoming = {handoffs[h].to} /\ Outgoing = {doc.office}
    BY <1>1, <1>2 DEF Incoming, Outgoing, Awaited
  <1>5. \A o \in Offices : Record(o) # "full"
    BY DEF Record, OfficeHolds
  <1> QED
    BY <1>1, <1>2, <1>3, <1>4, <1>5

LEMMA OnePlace == IInv /\ CurrentIsAssociated => InOnePlace
  <1> SUFFICES ASSUME IInv, CurrentIsAssociated PROVE InOnePlace
    OBVIOUS
  <1>1. HoldingOnDashboard = Holding
    BY DEF HoldingOnDashboard, Holding, Held, Outgoing, Awaited
  <1>2. doc.archived => Holding \cup Incoming \cup Outgoing = {}
    BY DEF Holding, Held, Incoming, Outgoing, Awaited, Active
  <1>3. ASSUME Active, doc.office # NoOffice
        PROVE  CASE Location.state = "held" ->
                       /\ Holding = {Location.office}
                       /\ Incoming = {} /\ Outgoing = {}
                       /\ {o \in Offices : Record(o) = "full"} = Holding
                 [] Location.state = "in_transit" ->
                       /\ Holding = {}
                       /\ Incoming = {Location.to} /\ Outgoing = {Location.office}
                       /\ {o \in Offices : Record(o) = "full"} = {}
    <2>1. CASE Pending = {}
      <3>1. Location = [state |-> "held", office |-> doc.office, to |-> NoOffice]
        BY <1>3, <2>1 DEF Location, Active
      <3> QED
        BY <1>3, <2>1, <3>1, HeldInOnePlace
    <2>2. CASE Pending # {}
      <3>1. PICK h \in Pending : TRUE
        BY <2>2
      <3>2. Pending = {h} /\ handoffs[h].from = doc.office
        BY <1>3, InTransitInOnePlace
      <3>3. (CHOOSE g \in Pending : TRUE) = h
        BY <3>2
      <3>4. Location = [state |-> "in_transit", office |-> doc.office, to |-> handoffs[h].to]
        BY <1>3, <2>2, <3>2, <3>3 DEF Location, Active
      <3> QED
        BY <1>3, <3>4, InTransitInOnePlace
    <2> QED
      BY <2>1, <2>2
  <1> QED
    BY <1>1, <1>2, <1>3 DEF InOnePlace

LEMMA GoodOffers == IInv => OffersAreGood
  <1> SUFFICES ASSUME IInv, NEW o \in Offices
      PROVE  /\ Can(o).receive =>
                   QRAccess(o) /\ \E h \in PendingTo(o) : h \notin {x.handoff : x \in receipts}
             /\ Can(o).pass => Active /\ Holds(doc.office, o) /\ Pending = {}
             /\ Can(o).record_action =>
                   /\ QRAccess(o)
                   /\ \E h \in ReceivedBy(o) :
                         /\ IsLatest(h, ReceivedBy(o))
                         /\ [handoff |-> h, office |-> o] \in receipts
    BY DEF OffersAreGood
  <1>1. ASSUME Can(o).receive
        PROVE  QRAccess(o) /\ \E h \in PendingTo(o) : h \notin {x.handoff : x \in receipts}
    <2>1. doc.exists /\ PendingTo(o) # {}
      BY <1>1 DEF Can, MayOpen
    <2>2. PICK h \in PendingTo(o) : TRUE
      BY <2>1
    <2>3. h \in SentOrDelivered(o)
      BY <2>2 DEF PendingTo, Pending, SentOrDelivered
    <2>4. \A x \in receipts : x.handoff # h
      BY <2>2 DEF PendingTo, Pending, IInv, Rows, ReceiptRows
    <2> QED
      BY <2>1, <2>2, <2>3, <2>4 DEF QRAccess
  <1>2. Can(o).pass => Active /\ Holds(doc.office, o) /\ Pending = {}
    BY DEF Can, OfficeHolds
  <1>3. ASSUME Can(o).record_action
        PROVE  /\ QRAccess(o)
               /\ \E h \in ReceivedBy(o) :
                     /\ IsLatest(h, ReceivedBy(o))
                     /\ [handoff |-> h, office |-> o] \in receipts
    <2>1. PICK x \in receipts : x.office = o
      BY <1>3 DEF Can
    <2>2. doc.exists
      BY <1>3 DEF Can, MayOpen
    <2>3. x.handoff \in ReceivedBy(o)
      BY <2>1 DEF ReceivedBy, IInv, Rows, ReceiptRows, TypeOK, OfficeMarks
    <2>4. x.handoff \in SentOrDelivered(o)
      BY <2>3 DEF ReceivedBy, SentOrDelivered
    <2>5. ReceivedBy(o) \in SUBSET HandoffIds
      BY DEF ReceivedBy
    <2>6. PICK h \in ReceivedBy(o) : IsLatest(h, ReceivedBy(o))
      BY <2>3, <2>5, LatestExists
    <2>7. [handoff |-> h, office |-> o] \in receipts
      BY <2>6 DEF ReceivedBy, IInv, Rows, ReceiptRows
    <2> QED
      BY <2>2, <2>4, <2>6, <2>7 DEF QRAccess
  <1> QED
    BY <1>1, <1>2, <1>3

(* The screens of every office agree on where a document is, and none      *)
(* offers an office what the request behind the button would refuse,       *)
(* through any number of handoffs and however the requests interleave.     *)
THEOREM OneStory == Spec => []ScreensAgree
  <1>1. IInv /\ CurrentIsAssociated => ScreensAgree
    BY OnePlace, GoodOffers DEF ScreensAgree
  <1> QED
    BY <1>1, Associated, Invariance, PTL

-----------------------------------------------------------------------------
(* Nobody loses sight of a document *)

(* An office with a receipt stays associated with the document. *)
ReceiversAssociated == \A x \in receipts : x.office \in assoc

LEMMA NextReceivers ==
    ASSUME IInv, [Next]_vars, ReceiversAssociated
    PROVE  ReceiversAssociated'
  <1> USE DEF ReceiversAssociated
  <1>1. CASE UNCHANGED <<assoc, receipts>>
    BY <1>1
  <1>2. ASSUME NEW r \in Requests, ConfirmWrite(r)
        PROVE  ReceiversAssociated'
    <2> DEFINE mark == [handoff |-> loc[r].handoff, office |-> loc[r].office]
    <2>1. /\ receipts' = receipts \cup {mark} /\ mark.office = loc[r].office
          /\ assoc' = assoc \cup {loc[r].office}
      BY <1>2 DEF ConfirmWrite
    <2> HIDE DEF mark
    <2> QED
      BY <2>1
  <1>3. ASSUME NEW r \in Requests, DeleteCascade(r)
        PROVE  ReceiversAssociated'
    BY <1>3 DEF DeleteCascade
  <1>4. ASSUME NEW r \in Requests, Begin(r)
        PROVE  ReceiversAssociated'
    BY <1>1, <1>4 DEF Begin, CreateLoad, ConfirmLoad, ActionLoad, ArchiveLoad, RestoreLoad,
                      DeleteLoad, Start, CancelHandoff, ReturnHandoff, Close, db
  <1>5. ASSUME NEW r \in Requests, Continue(r)
        PROVE  ReceiversAssociated'
    BY <1>1, <1>2, <1>3, <1>5
       DEF Continue, CreateSelect, CreateLocked, CreateInsert, ConfirmSelect, ConfirmLocked, ActionSelect,
           ActionCheck, ActionInsert, ArchiveCheck, ArchiveWrite, RestoreWrite, DeleteRow,
           Goto, GotoWith, Refuse, db
  <1> QED
    BY <1>1, <1>4, <1>5 DEF Next, Gone, DeadlockVictim, Rollback, Refuse, vars, db

LEMMA Receivers == Spec => []ReceiversAssociated
  <1>1. Init => ReceiversAssociated
    BY DEF Init, ReceiversAssociated
  <1>2. IInv /\ [Next]_vars /\ ReceiversAssociated => ReceiversAssociated'
    BY NextReceivers
  <1> QED
    BY <1>1, <1>2, Invariance, PTL DEF Spec

(* Every office a handoff was delivered to is the current one or has had   *)
(* another delivered from it.                                              *)
Chained ==
    /\ Delivered # {} => doc.office # NoOffice
    /\ \A h \in Delivered : \/ handoffs[h].to = doc.office
                           \/ \E g \in Delivered : handoffs[g].from = handoffs[h].to

(* The same deliveries and the same current office. *)
LEMMA SameChain ==
    ASSUME Chained, doc'.office = doc.office,
           \A h \in HandoffIds : \/ handoffs'[h] = handoffs[h]
                               \/ /\ handoffs[h].status # "Received"
                                  /\ handoffs'[h].status # "Received"
    PROVE  Chained'
  <1>1. Delivered' = Delivered
    BY DEF Delivered
  <1>2. \A h \in Delivered : handoffs'[h] = handoffs[h]
    BY DEF Delivered
  <1> QED
    BY <1>1, <1>2 DEF Chained

(* A delivery adds a link: it comes from the office that was current.      *)
LEMMA LongerChain ==
    ASSUME IInv, Chained, NEW h \in HandoffIds, Ends(h, "Received"), doc'.office = handoffs[h].to
    PROVE  Chained'
  <1>1. /\ h \in Open /\ handoffs[h].status = "Pending Receipt" /\ handoffs[h].to \in Offices
        /\ handoffs[h] \in [status : Statuses, from : Offices, to : Offices]
    BY OpenRow DEF Ends, IInv
  <1>2. /\ handoffs'[h].status = "Received"
        /\ handoffs'[h].from = handoffs[h].from /\ handoffs'[h].to = handoffs[h].to
        /\ \A g \in HandoffIds \ {h} : handoffs'[g] = handoffs[g]
    BY <1>1 DEF Ends
  <1>3. h \notin Delivered /\ Delivered' = Delivered \cup {h}
    BY <1>1, <1>2 DEF Delivered
  <1>4. doc'.office # NoOffice
    BY <1>1, OfficesAssumption
  <1>5. Delivered # {} => handoffs[h].from = doc.office
    BY <1>1 DEF Chained, IInv, Rows, SenderStillHolds, Holders
  <1>6. ASSUME NEW x \in Delivered'
        PROVE  \/ handoffs'[x].to = doc'.office
               \/ \E g \in Delivered' : handoffs'[g].from = handoffs'[x].to
    <2>1. CASE x = h
      BY <1>2, <2>1
    <2>2. CASE x # h
      <3>1. x \in Delivered /\ handoffs'[x] = handoffs[x]
        BY <1>2, <1>3, <2>2 DEF Delivered
      <3>2. CASE handoffs[x].to = doc.office
        BY <1>2, <1>3, <1>5, <3>1, <3>2
      <3>3. ASSUME NEW g \in Delivered, handoffs[g].from = handoffs[x].to
            PROVE  \E k \in Delivered' : handoffs'[k].from = handoffs'[x].to
        <4>1. g \in Delivered' /\ handoffs'[g] = handoffs[g]
          BY <1>2, <1>3 DEF Delivered
        <4> QED
          BY <3>1, <3>3, <4>1
      <3> QED
        BY <3>1, <3>2, <3>3 DEF Chained
    <2> QED
      BY <2>1, <2>2
  <1> QED
    BY <1>4, <1>6 DEF Chained

LEMMA NextChained ==
    ASSUME IInv, IInv', AllCurrent, [Next]_vars, Chained
    PROVE  Chained'
  <1>1. CASE Leaves
    BY <1>1, SameChain DEF Leaves
  <1>2. CASE \A h \in HandoffIds : handoffs'[h] = Unused
    <2>1. Delivered' = {}
      BY <1>2 DEF Delivered, Unused
    <2> QED
      BY <2>1 DEF Chained
  <1>3. ASSUME NEW r \in Requests, NEW h \in HandoffIds, Sends(r, h)
        PROVE  Chained'
    <2>1. handoffs[h] = Unused /\ handoffs'[h].status = "Pending Receipt"
      BY <1>3 DEF Sends
    <2>2. handoffs[h].status # "Received" /\ handoffs'[h].status # "Received"
      BY <2>1, BlankRow DEF IInv
    <2> QED
      BY <1>3, <2>2, SameChain DEF Sends
  <1>4. ASSUME NEW h \in HandoffIds, UNCHANGED doc, Ends(h, "Cancelled") \/ Ends(h, "Returned")
        PROVE  Chained'
    <2>1. handoffs[h].status # "Received" /\ handoffs'[h].status # "Received"
      BY <1>4 DEF Ends, Open
    <2> QED
      BY <1>4, <2>1, SameChain DEF Ends
  <1>5. ASSUME NEW h \in HandoffIds, Ends(h, "Received"),
               NEW r \in Requests, ConfirmWrite(r), loc[r].office = handoffs[h].to
        PROVE  Chained'
    BY <1>5, Receives, LongerChain
  <1> QED
    BY <1>1, <1>2, <1>3, <1>4, <1>5, Effects

LEMMA ChainAlone == Spec /\ []NoOverlap => []Chained
  <1>1. Init => Chained
    BY DEF Init, Chained, Delivered, Unused
  <1>2. IInv /\ IInv' /\ AllCurrent /\ [Next]_vars /\ Chained => Chained'
    BY NextChained
  <1> QED
    BY <1>1, <1>2, Invariance, CurrentAlone, PTL DEF Spec

(* Whoever passed a delivered document on follows it, unless it holds it.  *)
LEMMA SenderFollows ==
    ASSUME IInv, NEW h \in Delivered, NEW ahead, ahead < PASSED_ON_LIMIT
    PROVE  handoffs[h].from \in Holding \cup PassedOn(ahead)
  <1> DEFINE o == handoffs[h].from
  <1>1. o \in Offices
    <2>1. h \in HandoffIds /\ handoffs[h].status = "Received"
      BY DEF Delivered
    <2>2. handoffs[h] # Unused
      BY <2>1, BlankRow DEF IInv
    <2> QED
      BY <2>1, <2>2, UsedRow DEF IInv
  <1>2. CASE OfficeHolds(o)
    BY <1>1, <1>2 DEF OfficeHolds, Holding, Held
  <1>3. CASE ~OfficeHolds(o)
    BY <1>3 DEF PassedOn
  <1> QED
    BY <1>2, <1>3

LEMMA KeepTrack ==
    ASSUME IInv, CurrentIsAssociated, ReceiversAssociated, Chained
    PROVE  OfficesKeepTrack
  <1>1. ASSUME NEW h \in Delivered
        PROVE  /\ \A ahead \in 0 .. PASSED_ON_LIMIT :
                      Active => \/ {handoffs[h].from, handoffs[h].to} \subseteq Holding \cup Outgoing \cup PassedOn(ahead)
                                \/ ahead = PASSED_ON_LIMIT
               /\ doc.exists => MayReadTrail(handoffs[h].from) /\ MayReadTrail(handoffs[h].to)
               /\ Active => handoffs[h].to \in Listed \cap CountedAsReceived
               /\ handoffs[h].to \in InHistory
               /\ [kind |-> "received", handoff |-> h] \in Notices(handoffs[h].from)
    <2> DEFINE o == handoffs[h].to
    <2>1. h \in HandoffIds /\ handoffs[h].status = "Received"
      BY DEF Delivered
    <2>2. o \in Offices
      BY <2>1, BlankRow, UsedRow DEF IInv
    <2>3. PICK x \in receipts : x.handoff = h /\ x.office = o
      BY <2>1 DEF IInv, Rows, ReceiptRows
    <2>4. o \in assoc /\ o \in InHistory
      BY <2>3 DEF ReceiversAssociated, InHistory
    <2>5. ASSUME Active, NEW ahead, ahead < PASSED_ON_LIMIT
          PROVE  o \in Holding \cup Outgoing \cup PassedOn(ahead)
      <3>1. CASE o = doc.office /\ Pending = {}
        BY <2>2, <2>5, <3>1, OfficesAssumption DEF Holding, Held, Holds
      <3>2. ASSUME o = doc.office, NEW g \in Pending
            PROVE  o \in Outgoing
        <4>1. handoffs[g].from = o
          BY <2>2, <3>2, PendingIsOpen, OfficesAssumption DEF IInv, Rows, SenderStillHolds, Holders
        <4> QED
          BY <2>5, <4>1 DEF Outgoing, Awaited
      <3>3. ASSUME NEW g \in Delivered, handoffs[g].from = o
            PROVE  o \in Holding \cup PassedOn(ahead)
        BY <2>5, <3>3, SenderFollows
      <3> QED
        BY <3>1, <3>2, <3>3 DEF Chained
    <2>6. Active => o \in Listed \cap CountedAsReceived
      BY <2>2, <2>4 DEF Listed, CountedAsReceived
    <2>7. doc.exists => MayReadTrail(handoffs[h].from) /\ MayReadTrail(o)
      BY <2>1 DEF MayReadTrail
    <2>8. [kind |-> "received", handoff |-> h] \in Notices(handoffs[h].from)
      BY <2>3 DEF Notices
    <2>9. \A ahead \in 0 .. PASSED_ON_LIMIT :
              Active => \/ {handoffs[h].from, o} \subseteq Holding \cup Outgoing \cup PassedOn(ahead)
                        \/ ahead = PASSED_ON_LIMIT
      <3> SUFFICES ASSUME NEW ahead \in 0 .. PASSED_ON_LIMIT, Active, ahead # PASSED_ON_LIMIT
                   PROVE  {handoffs[h].from, o} \subseteq Holding \cup Outgoing \cup PassedOn(ahead)
        OBVIOUS
      <3>1. ahead < PASSED_ON_LIMIT
        BY LimitAssumption
      <3> QED
        BY <2>5, <3>1, SenderFollows
    <2> QED
      BY <2>4, <2>6, <2>7, <2>8, <2>9
  <1>2. ASSUME Active, doc.office # NoOffice
        PROVE  NowAt = IF Pending = {} THEN Holding ELSE Incoming
    BY <1>2, HeldInOnePlace DEF NowAt, Active, Incoming, Awaited
  <1> QED
    BY <1>1, <1>2 DEF OfficesKeepTrack

(* When requests do not overlap, no office loses sight of a document that  *)
(* went through its hands, however long its route and whatever was called  *)
(* off, archived or restored on it: of the list of those passed on, as far *)
(* as PASSED_ON_LIMIT lets it reach.                                       *)
THEOREM NobodyLosesTrack == Spec /\ []NoOverlap => []OfficesKeepTrack
  <1>1. IInv /\ CurrentIsAssociated /\ ReceiversAssociated /\ Chained => OfficesKeepTrack
    BY KeepTrack
  <1> QED
    BY <1>1, Invariance, Associated, Receivers, ChainAlone, PTL
=============================================================================
