------------------------------- MODULE Notices ------------------------------
(***************************************************************************)
(* The notifications of one user: what GET /notifications lists            *)
(* (routes/notifications.py), what POST /notifications/seen makes read,    *)
(* and the panel that shows the one and sends the other                    *)
(* (frontend/admin/admin_shell.py).  Nothing is stored per item: it is     *)
(* unread while its time is after the user's last look.                    *)
(*                                                                         *)
(* Time is counted in steps of the clock; whatever is stamped takes one.   *)
(* A handoff is stamped some time before its row is committed.  Whole days *)
(* begin at multiples of Day.  Handoffs are those of the user's office, or *)
(* of any for a user without one; documents come to the office and leave   *)
(* it, with these handoffs or others.  The office of the user stays.       *)
(* Temporary documents, which are listed as archived ones are, are left    *)
(* out.  Every bound is a number of steps.                                 *)
(***************************************************************************)
EXTENDS Naturals, FiniteSets

CONSTANTS Handoffs, Docs,            \* the rows there can be
          MaxNow,                    \* BOUND: the last moment
          Day,                       \* the length of a day, QR_TRACKING_OVERDUE_HOURS too
          DUE_SOON,                  \* DUE_SOON_DAYS, in steps
          RECENT,                    \* RECENT_CLOSED_HANDOFF_DAYS and RECENT_REGISTRATION_DAYS
          Kept, WARNING,             \* BOUND: the retention_months there can be; RETENTION_WARNING_DAYS
          MAX_ITEMS                  \* items listed beside those with priority

BoundsAssumption == /\ {MaxNow, Day, MAX_ITEMS} \subseteq Nat \ {0} /\ {DUE_SOON, RECENT, WARNING} \subseteq Nat
                    /\ Kept \subseteq Nat /\ DUE_SOON % Day = 0 /\ IsFiniteSet(Handoffs) /\ IsFiniteSet(Docs)

VARIABLES now, office,   \* the clock; whether the user has an office
          handoffs, docs,
          retention,     \* the months of the settings, and whether the user may delete documents
          seen,          \* notifications_seen_at
          panel          \* the answer a panel shows before it is seen

vars == <<now, office, handoffs, docs, retention, seen, panel>>

Moments == 0 .. MaxNow
DueDays == {m \in Moments : m % Day = 0}
Never == MaxNow + Day + 1
NotSent == [status |-> "none", incoming |-> FALSE, sent |-> 0, closed |-> 0, next |-> "none", stamp |-> 0, since |-> 0]
NotRegistered == [here |-> FALSE, created |-> 0, told |-> FALSE, held |-> FALSE, due |-> Never,
                  archived |-> FALSE, filed |-> 0, extended |-> 0, since |-> 0]
Permanent == 0
Latest(a, b) == IF a < b THEN b ELSE a
Closed == [open |-> FALSE, loaded |-> 0, items |-> {}]

-----------------------------------------------------------------------------
(* What is listed: each item with its row, its time and its priority.      *)

Item(kind, row, at, since) == [kind |-> kind, row |-> row, at |-> at, since |-> since, priority |-> FALSE]
Ago(moment, span) == moment + span =< now

\* MUTANT: an overdue handoff has the time it was sent at.
OverdueFromSent(h, kind) ==
    IF handoffs[h].status = "Pending" /\ Ago(handoffs[h].sent, Day)
    THEN {Item(kind, h, handoffs[h].sent, handoffs[h].since)} ELSE {}
(* A handoff becomes news to its sender a day after it was sent. *)
Overdue(h, kind) ==
    IF handoffs[h].status = "Pending" /\ Ago(handoffs[h].sent, Day)
    THEN {Item(kind, h, handoffs[h].sent + Day, handoffs[h].since)} ELSE {}

(* To the receiver it is news once. *)
Incoming(h) ==
    IF handoffs[h].status = "Pending" /\ handoffs[h].incoming
    THEN {Item("incoming", h, handoffs[h].sent, handoffs[h].since)} ELSE {}

ClosedHandoff(h) ==
    LET row == handoffs[h]
    IN  IF row.closed + RECENT >= now
           /\ row.status \in IF row.incoming THEN {"Cancelled"} ELSE {"Received", "Returned"}
        THEN {Item(row.status, h, row.closed, row.since)} ELSE {}

RegisteredDoc(d) ==
    IF docs[d].told /\ ~docs[d].archived /\ docs[d].created + RECENT >= now
    THEN {Item("registered", d, docs[d].created, docs[d].since)} ELSE {}

(* Due from DUE_SOON before its day, and overdue, as news, the day after:  *)
(* an office is told of the documents it holds, others of all.             *)
DueDoc(d) ==
    LET due == docs[d].due
        today == now - (now % Day)
    IN  IF ~docs[d].here \/ (office /\ ~docs[d].held) \/ docs[d].archived
           \/ due = Never \/ due > today + DUE_SOON THEN {}
        ELSE IF due < today THEN {Item("overdue", d, due + Day, docs[d].since)}
        ELSE {Item("due", d, IF due < DUE_SOON + docs[d].created THEN docs[d].created ELSE due - DUE_SOON, docs[d].since)}

(* documents_due: archived documents whose retention ends, by the months   *)
(* there are now.                                                          *)
Until(row) == Latest(row.filed + retention.months, row.extended)
KeptDoc(d) ==
    LET until == Until(docs[d])
        since == Latest(docs[d].since, retention.since)
    IN  IF ~retention.deletes \/ retention.months = Permanent \/ ~docs[d].archived \/ until > now + WARNING THEN {}
        ELSE IF until =< now THEN {[Item("retention_due", d, until, since) EXCEPT !.priority = TRUE]}
        ELSE {Item("retention_soon", d, until - WARNING, since)}

Items ==
    LET own == (UNION {Incoming(h) \cup ClosedHandoff(h) \cup (IF handoffs[h].incoming THEN {} ELSE Overdue(h, "outgoing_overdue")) : h \in Handoffs})
                 \cup UNION {RegisteredDoc(d) : d \in Docs}
        all == UNION {Overdue(h, "handoff_overdue") : h \in Handoffs}
    IN  (IF office THEN own ELSE all) \cup UNION {DueDoc(d) \cup KeptDoc(d) : d \in Docs}

Unread(item) == item.priority \/ item.at > seen

(* Those with priority, and the latest of the others: of one time, any.    *)
Plain(items) == {item \in items : ~item.priority}
Answers ==
    LET others == Plain(Items)
    IN  {(Items \ others) \cup listed : listed \in
            {some \in SUBSET others :
                /\ Cardinality(some) = IF Cardinality(others) < MAX_ITEMS THEN Cardinality(others) ELSE MAX_ITEMS
                /\ \A item \in some, other \in others \ some : other.at =< item.at}}

-----------------------------------------------------------------------------
Tick == now < MaxNow /\ now' = now + 1
Pass == Tick /\ UNCHANGED <<office, handoffs, docs, retention, seen, panel>>

Handoff(h, row) == /\ handoffs' = [handoffs EXCEPT ![h] = row]
                   /\ Tick /\ UNCHANGED <<office, docs, retention, seen, panel>>

(* A handoff is sent, or closed one way or another: stamped, and committed *)
(* later or not at all.                                                    *)
Send(h, incoming) ==
    /\ handoffs[h] = NotSent
    /\ Handoff(h, [NotSent EXCEPT !.incoming = incoming, !.next = "Pending", !.stamp = now])
Close(h, status) ==
    /\ handoffs[h].status = "Pending" /\ handoffs[h].next = "none"
    /\ Handoff(h, [handoffs[h] EXCEPT !.next = status, !.stamp = now])
Commit(h) ==
    LET row == handoffs[h]
    IN  /\ row.next # "none"
        /\ Handoff(h, [row EXCEPT !.status = row.next, !.next = "none", !.stamp = 0, !.since = now,
                                  !.sent = IF row.next = "Pending" THEN row.stamp ELSE @,
                                  !.closed = IF row.next = "Pending" THEN @ ELSE row.stamp])

Document(d, row) == /\ docs' = [docs EXCEPT ![d] = [row EXCEPT !.since = now]]
                    /\ Tick /\ UNCHANGED <<office, handoffs, retention, seen, panel>>
(* Into the user's office, by the user or another, or into some other. *)
Register(d, due, held, told) ==
    /\ docs[d] = NotRegistered /\ (told => held)
    /\ Document(d, [NotRegistered EXCEPT !.here = TRUE, !.created = now, !.due = due, !.held = held, !.told = told])
SetDue(d, due) == docs[d].here /\ docs[d].due # due /\ Document(d, [docs[d] EXCEPT !.due = due])
(* The user's office receives it, or another does. *)
Move(d) == docs[d].here /\ Document(d, [docs[d] EXCEPT !.held = ~@])
Archive(d) == docs[d].here /\ ~docs[d].archived /\ Document(d, [docs[d] EXCEPT !.archived = TRUE, !.filed = now])
Extend(d, months) == /\ docs[d].archived /\ retention.months # Permanent
                     /\ Document(d, [docs[d] EXCEPT !.extended = Latest(Until(docs[d]), now) + months])
Restore(d) == docs[d].archived /\ Document(d, [docs[d] EXCEPT !.archived = FALSE, !.filed = 0, !.extended = 0])
Delete(d) == docs[d].archived /\ docs' = [docs EXCEPT ![d] = NotRegistered]
             /\ Tick /\ UNCHANGED <<office, handoffs, retention, seen, panel>>

(* The months are set, or the user's permissions.                          *)
Rule(rule) == /\ retention' = [rule EXCEPT !.since = now]
              /\ Tick /\ UNCHANGED <<office, handoffs, docs, seen, panel>>
update_system_settings(months) == months # retention.months /\ Rule([retention EXCEPT !.months = months])
update_user_permissions == Rule([retention EXCEPT !.deletes = ~@])

(* The panel is opened: the answer replaces what it showed, and only one   *)
(* with unread items is followed by the call that makes them read.         *)
show_notifications ==
    /\ \E answer \in Answers :
          panel' = IF \E item \in answer : Unread(item) THEN [open |-> TRUE, loaded |-> now, items |-> answer] ELSE Closed
    /\ Tick /\ UNCHANGED <<office, handoffs, docs, retention, seen>>

mark_notifications_seen ==
    /\ panel.open
    /\ seen' = now /\ panel' = Closed
    /\ Tick /\ UNCHANGED <<office, handoffs, docs, retention>>

(* The call is lost; the items stay unread. *)
SeenLost == panel.open /\ panel' = Closed /\ UNCHANGED <<now, office, handoffs, docs, retention, seen>>

Init == /\ now = 1 /\ office \in BOOLEAN
        /\ handoffs = [h \in Handoffs |-> NotSent] /\ docs = [d \in Docs |-> NotRegistered]
        /\ retention \in [months : Kept, deletes : BOOLEAN, since : {0}]
        /\ seen = 0 /\ panel = Closed

Next ==
    \/ Pass \/ show_notifications \/ mark_notifications_seen \/ SeenLost
    \/ \E h \in Handoffs : \/ \E incoming \in BOOLEAN : Send(h, incoming)
                           \/ \E status \in {"Received", "Returned", "Cancelled"} : Close(h, status)
                           \/ Commit(h)
    \/ \E d \in Docs : \/ \E due \in DueDays \cup {Never} :
                             SetDue(d, due) \/ \E held, told \in BOOLEAN : Register(d, due, held, told)
                       \/ \E months \in Kept \ {Permanent} : Extend(d, months)
                       \/ Move(d) \/ Archive(d) \/ Restore(d) \/ Delete(d)
    \/ update_user_permissions \/ \E months \in Kept : update_system_settings(months)

Spec == Init /\ [][Next]_vars

-----------------------------------------------------------------------------
(* What becomes read unshown is excused: a look took it, that was answered *)
(* before it happened or was committed, or was full of later items; or it  *)
(* came to the list after the last look with a time before it.  That is an *)
(* item committed late, or of a document that was given a day or came to   *)
(* the office past it, or of a retention that was shortened, or that the   *)
(* user was then let see.                                                  *)
Excused(item) ==
    IF seen' # seen
    THEN \/ \E shown \in panel.items : shown.row = item.row /\ shown.at = item.at
         \/ item.at >= panel.loaded \/ item.since >= panel.loaded
         \/ Cardinality(Plain(panel.items)) = MAX_ITEMS /\ \A shown \in Plain(panel.items) : item.at =< shown.at
    ELSE seen <= item.since

(* Nothing becomes read that the user was not shown and is not excused:    *)
(* "An item is unread when it happened after the user's                    *)
(* notifications_seen_at" (notifications.py:4), so every item has to get a *)
(* time no look came after before it was listed (notifications.py          *)
(* list_notifications, mark_notifications_seen, admin_shell.py             *)
(* show_notifications).                                                    *)
NewsStep ==
    \A item \in Items' :
        \/ Unread(item)'
        \/ \E old \in Items : old.row = item.row /\ old.at = item.at /\ ~Unread(old)
        \/ Excused(item)
=============================================================================
