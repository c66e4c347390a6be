----------------------------- MODULE OfficeViews -----------------------------
(***************************************************************************)
(* What the screens show of the document of Handoffs: the queue of each    *)
(* office, the dashboard of every office, the lists, the tracking trail    *)
(* and what the details screen offers (Backends/backend/routes/            *)
(* documents.py), and the handoff notices of routes/notifications.py.      *)
(*                                                                         *)
(* Each screen asks the tables its own question.  A view is an operator on *)
(* the rows as they are: its queries see one state, and paging, searching  *)
(* and the order of a list are left out.  The one list that is cut off     *)
(* without a further page, of the documents passed on, is cut here too:    *)
(* the office's other documents are only counted.                          *)
(***************************************************************************)
EXTENDS Handoffs

CONSTANT PASSED_ON_LIMIT  \* 20

ASSUME LimitAssumption == PASSED_ON_LIMIT \in Nat \ {0}

Active == doc.exists /\ ~doc.archived

Delivered == {h \in HandoffIds : handoffs[h].status = "Received"}

(* _pending_handoffs: archived documents are left out. *)
Awaited == IF Active THEN Pending ELSE {}

(* _office_holds_document: by the custody rule, and neither archived nor   *)
(* on its way to another office.                                           *)
OfficeHolds(o) == Active /\ Holds(doc.office, o) /\ Pending = {}

(* _held_by_office, of the documents that are not archived. *)
Held == {o \in Offices : Active /\ Holds(doc.office, o)}

-----------------------------------------------------------------------------
(* The offices in whose queue (GET /documents/office/queue) the document   *)
(* is, in each of its four lists, and where the fourth says it is now.     *)

Incoming == {handoffs[h].to : h \in Awaited}
Outgoing == {handoffs[h].from : h \in Awaited}

\* MUTANT: a document sent away is still counted among those held.
HoldingSent == Held
Holding == Held \ {handoffs[h].from : h \in Pending}

\* MUTANT: only the office the document came from last follows it.
PassedOnLast(ahead) ==
    IF ahead < PASSED_ON_LIMIT
    THEN {handoffs[h].from : h \in {g \in Delivered : IsLatest(g, Delivered)}} \ {o \in Offices : OfficeHolds(o)}
    ELSE {}
(* The latest sent come first: so many others are ahead of the document.   *)
PassedOn(ahead) ==
    IF ahead < PASSED_ON_LIMIT
    THEN {handoffs[h].from : h \in Delivered} \ {o \in Offices : OfficeHolds(o)}
    ELSE {}

NowAt ==
    IF doc.archived THEN {"archived"}
    ELSE IF Pending # {} THEN {handoffs[h].to : h \in Pending}
    ELSE {doc.office}

(* The dashboard of every office counts for itself. *)
HoldingOnDashboard == Held \ Outgoing

(* The card of received documents, and the list an office may open. *)
CountedAsReceived ==
    {o \in Offices :
        /\ Active
        /\ \/ doc.office = o
           \/ o \in assoc
           \/ \E receipt \in receipts : receipt.office = o
           \/ ReceivedBy(o) # {}}

Listed == IF Active THEN assoc ELSE {}

(* GET /documents/office/history *)
InHistory == {receipt.office : receipt \in receipts} \cap assoc

-----------------------------------------------------------------------------
(* Who may open what. *)

SentOrDelivered(o) ==
    {h \in HandoffIds : /\ handoffs[h].to = o
                        /\ handoffs[h].status \in {"Pending Receipt", "Received"}}

(* _associated_with_office *)
MayOpen(o) == doc.exists /\ (o \in assoc \/ SentOrDelivered(o) # {})

(* _resolve_office_qr_access, for an office's own staff *)
QRAccess(o) == doc.exists /\ SentOrDelivered(o) # {}

(* GET /documents/{id}/handoffs and .../actions *)
MayReadTrail(o) ==
    doc.exists /\ (o \in assoc \/ \E h \in HandoffIds : o \in {handoffs[h].from, handoffs[h].to})

(* An office that does not hold the document may track it but not open it. *)
Record(o) ==
    IF ~MayOpen(o) THEN "none" ELSE IF OfficeHolds(o) THEN "full" ELSE "tracking"

(* _document_trail: where the document is now. *)
Location ==
    IF doc.archived THEN [state |-> "archived", office |-> doc.office, to |-> NoOffice]
    ELSE IF Pending # {} THEN
        LET h == CHOOSE g \in Pending : TRUE
        IN [state |-> "in_transit", office |-> handoffs[h].from, to |-> handoffs[h].to]
    ELSE [state |-> IF doc.office # NoOffice THEN "held" ELSE "unrouted",
          office |-> doc.office, to |-> NoOffice]

(* document_overview: what an office can do now, to staff with every       *)
(* permission it asks for.                                                 *)
Can(o) ==
    [receive |-> MayOpen(o) /\ ~doc.archived /\ PendingTo(o) # {},
     pass |-> MayOpen(o) /\ OfficeHolds(o),
     record_action |-> /\ MayOpen(o) /\ OfficeHolds(o)
                       /\ \E receipt \in receipts : receipt.office = o]

(* _office_items: the handoff notices of an office, however old. *)
Notices(o) ==
    {[kind |-> "incoming", handoff |-> h] : h \in PendingTo(o)}
      \cup {[kind |-> "received", handoff |-> receipt.handoff] :
               receipt \in {x \in receipts : handoffs[x.handoff].from = o}}
      \cup {[kind |-> "returned", handoff |-> h] :
               h \in {g \in HandoffIds : handoffs[g].status = "Returned" /\ handoffs[g].from = o}}
      \cup {[kind |-> "cancelled", handoff |-> h] :
               h \in {g \in HandoffIds : handoffs[g].status = "Cancelled" /\ handoffs[g].to = o}}

-----------------------------------------------------------------------------
(* What the screens must agree on. *)

(* A document whose custody is recorded is in one place on every screen:   *)
(* in the queue of the one office that holds it, or leaving one office and *)
(* arriving at one other, and on no queue once archived; the dashboard,    *)
(* the trail and the office allowed to open the record say the same.       *)
InOnePlace ==
    /\ HoldingOnDashboard = Holding
    /\ Active /\ doc.office # NoOffice =>
         CASE Location.state = "held" ->
                 /\ Holding = {Location.office}
                 /\ Incoming = {} /\ Outgoing = {}
                 /\ {o \in Offices : Record(o) = "full"} = Holding
           [] Location.state = "in_transit" ->
                 /\ Holding = {}
                 /\ Incoming = {Location.to} /\ Outgoing = {Location.office}
                 /\ {o \in Offices : Record(o) = "full"} = {}
    /\ doc.archived => Holding \cup Incoming \cup Outgoing = {}

(* An office offered a button on the details screen is not refused by the  *)
(* request behind it: the scan opens the document for it, the receipt      *)
(* finds its handoff, the handoff finds nothing pending, and the action    *)
(* finds the receipt of the handoff delivered last.                        *)
OffersAreGood ==
    \A o \in Offices :
        /\ Can(o).receive => QRAccess(o) /\ \E h \in PendingTo(o) : h \notin {x.handoff : x \in receipts}
        /\ Can(o).pass => Active /\ Holds(doc.office, o) /\ Pending = {}
        /\ Can(o).record_action =>
              /\ QRAccess(o)
              /\ \E h \in ReceivedBy(o) :
                    /\ IsLatest(h, ReceivedBy(o))
                    /\ [handoff |-> h, office |-> o] \in receipts

(* The screens of every office that took part tell one story, however long *)
(* the chain of handoffs: the document is in one place, and each office    *)
(* is offered what the requests accept.                                    *)
ScreensAgree == InOnePlace /\ OffersAreGood

(* No office loses sight of a document that went through its hands: until  *)
(* the document is archived, whoever sent or received a delivered handoff  *)
(* still holds it, is sending it, or follows it among those passed on, as  *)
(* long as fewer than PASSED_ON_LIMIT others it passed on were sent later. *)
(* However many were, it may read its trail, the sender was told of the    *)
(* receipt, and whoever received the document finds it in its list, its    *)
(* count and its history.                                                  *)
OfficesKeepTrack ==
    /\ \A h \in Delivered :
          /\ \A ahead \in 0 .. PASSED_ON_LIMIT :
                Active => \/ {handoffs[h].from, handoffs[h].to} \subseteq Holding \cup Outgoing \cup PassedOn(ahead)
                          \/ ahead = PASSED_ON_LIMIT
          /\ doc.exists => MayReadTrail(handoffs[h].from) /\ MayReadTrail(handoffs[h].to)
          /\ Active => handoffs[h].to \in Listed \cap CountedAsReceived
          /\ handoffs[h].to \in InHistory
          /\ [kind |-> "received", handoff |-> h] \in Notices(handoffs[h].from)
    /\ Active /\ PassedOn(0) # {} /\ doc.office # NoOffice =>
          NowAt = IF Pending = {} THEN Holding ELSE Incoming
=============================================================================
