---------------------------- MODULE OfficesProofs ----------------------------
(***************************************************************************)
(* What is kept for the offices, for any number of documents, entries,     *)
(* requests, days and nights: no notification becomes read that was not    *)
(* shown, the newest backup outlasts the runs after it, the list of a day  *)
(* is in one order, an entry keeps its file, and a retention that is       *)
(* extended ends later.                                                    *)
(*                                                                         *)
(* Each part of MCOffices has an invariant of its own, kept by its steps   *)
(* alone; a run takes the steps of one part, so the invariants of the      *)
(* parts make one of PartsSpec (ListsInv, PartsNotices).                   *)
(***************************************************************************)
EXTENDS MCOffices, FiniteSetTheorems, SequenceTheorems, TLAPS

HandoffStates == {"none", "Pending", "Received", "Returned", "Cancelled"}
SentRows == [status : HandoffStates, incoming : BOOLEAN, sent : Nat, closed : Nat, next : HandoffStates, stamp : Nat, since : Nat]
DocRows == [here : BOOLEAN, created : Nat, told : BOOLEAN, held : BOOLEAN, due : I!DueDays \cup {I!Never},
            archived : BOOLEAN, filed : Nat, extended : Nat, since : Nat]
Rules == [months : Nat, deletes : BOOLEAN, since : Nat]

(* What is news at moment t, and when it became that: of a handoff, of a   *)
(* document, and of its retention.                                         *)
HandoffNews(t, row, at) ==
    \/ office /\ row.status = "Pending" /\ row.incoming /\ at = row.sent
    \/ office /\ at = row.closed /\ row.closed + RECENT >= t
       /\ row.status \in IF row.incoming THEN {"Cancelled"} ELSE {"Received", "Returned"}
    \/ (office => ~row.incoming) /\ row.status = "Pending" /\ at = row.sent + Day /\ at =< t

StartOf(t) == t - (t % Day)
DueNews(t, row, at) ==
    /\ row.due # I!Never /\ row.due =< StartOf(t) + DUE_SOON
    /\ at = IF row.due < StartOf(t) THEN row.due + Day
            ELSE IF row.due < DUE_SOON + row.created THEN row.created ELSE row.due - DUE_SOON
DocNews(t, row, at) ==
    \/ office /\ row.told /\ ~row.archived /\ at = row.created /\ row.created + RECENT >= t
    \/ row.here /\ (office => row.held) /\ ~row.archived /\ DueNews(t, row, at)

Ends(row, rule) == IF row.filed + rule.months < row.extended THEN row.extended ELSE row.filed + rule.months
KeptSince(row, rule) == IF row.since < rule.since THEN rule.since ELSE row.since
KeptNews(t, row, rule, at) ==
    /\ rule.deletes /\ rule.months # I!Permanent /\ row.archived
    /\ Ends(row, rule) =< t + WARNING /\ Ends(row, rule) > t /\ at = Ends(row, rule) - WARNING

NewsFrom(t, row, at, since) ==
    \/ \E h \in Requests : row = h /\ since = sent[h].since /\ HandoffNews(t, sent[h], at)
    \/ \E d \in OneDoc : row = d /\ since = docs[d].since /\ DocNews(t, docs[d], at)
    \/ \E d \in OneDoc : row = d /\ since = KeptSince(docs[d], retention) /\ KeptNews(t, docs[d], retention, at)
News(row, at, since) == NewsFrom(now, row, at, since)

LEMMA Bounds ==
    /\ MaxNow \in Nat \ {0} /\ Day \in Nat \ {0} /\ Kept \subseteq Nat /\ MAX_ITEMS \in Nat \ {0}
    /\ DUE_SOON \in Nat /\ RECENT \in Nat /\ WARNING \in Nat /\ DUE_SOON % Day = 0
    /\ IsFiniteSet(Requests) /\ IsFiniteSet(OneDoc)
  BY Instances DEF I!BoundsAssumption, I!IsFiniteSet, IsFiniteSet

(* Multiples of the length of a day. *)
LEMMA Multiple ==
    ASSUME NEW d \in Nat \ {0}, NEW x \in Nat, NEW k \in Nat, x = d * k
    PROVE  x % d = 0
  OBVIOUS

LEMMA Quotient ==
    ASSUME NEW d \in Nat \ {0}, NEW x \in Nat, x % d = 0
    PROVE  \E k \in Nat : x = d * k
  <1>1. x = d * (x \div d) /\ x \div d \in Nat
    OBVIOUS
  <1> QED
    BY <1>1

LEMMA NextMultiple ==
    ASSUME NEW d \in Nat \ {0}, NEW a \in Nat, NEW b \in Nat, a < b
    PROVE  d * a + d =< d * b
  <1>1. d * (a + 1) =< d * b
    OBVIOUS
  <1>2. d * (a + 1) = d * a + d
    OBVIOUS
  <1> QED
    BY <1>1, <1>2

LEMMA MultiplesAdd ==
    ASSUME NEW d \in Nat \ {0}, NEW x \in Nat, x % d = 0
    PROVE  (x + d) % d = 0
  <1>1. PICK k \in Nat : x = d * k
    BY Quotient
  <1>2. x + d = d * (k + 1) /\ x + d \in Nat /\ k + 1 \in Nat
    BY <1>1
  <1> QED
    BY <1>2, Multiple

LEMMA MultiplesSubtract ==
    ASSUME NEW d \in Nat \ {0}, NEW x \in Nat, NEW y \in Nat, x % d = 0, y % d = 0, x >= y
    PROVE  (x - y) % d = 0
  <1>1. PICK k \in Nat : x = d * k
    BY Quotient
  <1>2. PICK j \in Nat : y = d * j
    BY Quotient
  <1>3. k >= j
    <2>1. d * k >= d * j /\ d * k \in Nat /\ d * j \in Nat
      BY <1>1, <1>2
    <2> QED
      BY <2>1, NextMultiple
  <1>4. x - y = d * (k - j) /\ k - j \in Nat /\ x - y \in Nat
    BY <1>1, <1>2, <1>3
  <1> QED
    BY <1>4, Multiple

LEMMA DaysBegin ==
    ASSUME NEW t \in Nat
    PROVE  /\ StartOf(t) \in Nat /\ StartOf(t) =< t /\ t < StartOf(t) + Day /\ StartOf(t) % Day = 0
           /\ \A m \in Nat : m % Day = 0 /\ m =< t => m =< StartOf(t)
  <1>1. Day \in Nat \ {0}
    BY Bounds
  <1>2. t % Day \in 0 .. Day - 1 /\ t = Day * (t \div Day) + (t % Day) /\ t \div Day \in Nat
    BY <1>1
  <1>3. StartOf(t) = Day * (t \div Day) /\ StartOf(t) \in Nat /\ StartOf(t) =< t /\ t < StartOf(t) + Day
    BY <1>1, <1>2 DEF StartOf
  <1>4. StartOf(t) % Day = 0
    BY <1>1, <1>2, <1>3, Multiple
  <1>5. ASSUME NEW m \in Nat, m % Day = 0, m =< t
        PROVE  m =< StartOf(t)
    <2>1. PICK a \in Nat : m = Day * a
      BY <1>1, <1>5, Quotient
    <2>2. PICK b \in Nat : StartOf(t) = Day * b
      BY <1>1, <1>3, <1>4, Quotient
    <2>3. CASE b < a
      BY <1>1, <1>3, <1>5, <2>1, <2>2, <2>3, NextMultiple
    <2>4. CASE b = a
      BY <1>3, <2>1, <2>2, <2>4
    <2>5. CASE a < b
      BY <1>1, <1>3, <2>1, <2>2, <2>5, NextMultiple
    <2> QED
      BY <2>3, <2>4, <2>5
  <1> QED
    BY <1>3, <1>4, <1>5

(* What is older than u is no news later that was none at u. *)
LEMMA HandoffNewsBefore ==
    ASSUME NEW row \in SentRows, NEW t \in Nat, NEW u \in Nat, u =< t, NEW at, HandoffNews(t, row, at), at < u
    PROVE  HandoffNews(u, row, at)
  <1>1. row.sent \in Nat /\ row.closed \in Nat /\ Day \in Nat /\ RECENT \in Nat
    BY Bounds DEF SentRows
  <1> QED BY <1>1 DEF HandoffNews

LEMMA DueNewsBefore ==
    ASSUME NEW row \in DocRows, NEW t \in Nat, NEW u \in Nat, u =< t, NEW at, DueNews(t, row, at), at < u
    PROVE  DueNews(u, row, at)
  <1>1. /\ Day \in Nat \ {0} /\ DUE_SOON \in Nat /\ DUE_SOON % Day = 0
        /\ row.due \in Nat /\ row.due % Day = 0 /\ row.due # I!Never /\ row.created \in Nat
    <2>1. row.due \in I!DueDays /\ row.due # I!Never
      BY DEF DocRows, DueNews
    <2> QED BY <2>1, Bounds DEF DocRows, I!DueDays, I!Moments
  <1>2. /\ StartOf(u) \in Nat /\ StartOf(u) =< u /\ u < StartOf(u) + Day
        /\ StartOf(t) \in Nat /\ StartOf(t) =< t /\ t < StartOf(t) + Day /\ StartOf(u) % Day = 0
        /\ \A m \in Nat : m % Day = 0 /\ m =< u => m =< StartOf(u)
        /\ \A m \in Nat : m % Day = 0 /\ m =< t => m =< StartOf(t)
    BY DaysBegin
  <1>3. StartOf(u) =< StartOf(t)
    BY <1>2
  <1>4. CASE row.due < StartOf(t)
    <2>1. at = row.due + Day /\ row.due + Day =< u
      BY <1>1, <1>4 DEF DueNews
    <2>2. row.due + Day \in Nat /\ (row.due + Day) % Day = 0
      BY <1>1, MultiplesAdd
    <2>3. row.due + Day =< StartOf(u)
      BY <1>2, <2>1, <2>2
    <2> QED BY <1>1, <1>2, <1>4, <2>1, <2>3 DEF DueNews
  <1>5. CASE ~(row.due < StartOf(t))
    <2>1. ~(row.due < StartOf(u))
      BY <1>1, <1>2, <1>3, <1>5
    <2>2. at = (IF row.due < DUE_SOON + row.created THEN row.created ELSE row.due - DUE_SOON)
      BY <1>5 DEF DueNews
    <2>3. row.due - DUE_SOON < u
      BY <1>1, <2>2
    <2>4. row.due =< StartOf(u) + DUE_SOON
      <3>1. CASE row.due < DUE_SOON
        BY <1>1, <1>2, <3>1
      <3>2. CASE row.due >= DUE_SOON
        <4>1. row.due - DUE_SOON \in Nat /\ (row.due - DUE_SOON) % Day = 0
          BY <1>1, <3>2, MultiplesSubtract
        <4>2. row.due - DUE_SOON =< StartOf(u)
          BY <1>2, <2>3, <4>1
        <4> QED BY <1>1, <1>2, <4>2
      <3> QED BY <1>1, <3>1, <3>2
    <2> QED BY <1>1, <2>1, <2>2, <2>4 DEF DueNews
  <1> QED BY <1>4, <1>5

LEMMA DocNewsBefore ==
    ASSUME NEW row \in DocRows, NEW t \in Nat, NEW u \in Nat, u =< t, NEW at, DocNews(t, row, at), at < u
    PROVE  DocNews(u, row, at)
  <1>1. row.created \in Nat /\ RECENT \in Nat
    BY Bounds DEF DocRows
  <1>2. CASE row.here /\ (office => row.held) /\ ~row.archived /\ DueNews(t, row, at)
    BY <1>2, DueNewsBefore DEF DocNews
  <1>3. CASE office /\ row.told /\ ~row.archived /\ at = row.created /\ row.created + RECENT >= t
    BY <1>1, <1>3 DEF DocNews
  <1> QED BY <1>2, <1>3 DEF DocNews

LEMMA EndsAre ==
    ASSUME NEW row \in DocRows, NEW rule \in Rules
    PROVE  /\ Ends(row, rule) \in Nat /\ KeptSince(row, rule) \in Nat
           /\ row.since =< KeptSince(row, rule) /\ rule.since =< KeptSince(row, rule)
  BY DEF DocRows, Rules, Ends, KeptSince

LEMMA KeptNewsBefore ==
    ASSUME NEW row \in DocRows, NEW rule \in Rules, NEW t \in Nat, NEW u \in Nat, u =< t, NEW at,
           KeptNews(t, row, rule, at), at < u
    PROVE  KeptNews(u, row, rule, at)
  <1>1. Ends(row, rule) \in Nat /\ WARNING \in Nat
    BY Bounds, EndsAre
  <1> QED
    BY <1>1 DEF KeptNews

NoticesTyped ==
    /\ now \in Nat /\ seen \in Nat /\ seen < now /\ office \in BOOLEAN
    /\ sent \in [Requests -> SentRows] /\ docs \in [OneDoc -> DocRows] /\ retention \in Rules
    /\ panel.open => panel.loaded \in Nat /\ panel.loaded < now

(* An item without priority is news, and news is such an item. *)
LEMMA OneOfHandoff ==
    ASSUME NoticesTyped, NEW h \in Requests, NEW item,
           item \in I!Incoming(h) \cup I!ClosedHandoff(h) \cup (IF sent[h].incoming THEN {} ELSE I!Overdue(h, "outgoing_overdue")), office
    PROVE  item.row = h /\ item.since = sent[h].since /\ HandoffNews(now, sent[h], item.at)
  <1>1. sent[h] \in SentRows /\ now \in Nat /\ Day \in Nat /\ RECENT \in Nat
    BY Bounds DEF NoticesTyped
  <1>2. CASE item \in I!Incoming(h)
    BY <1>1, <1>2 DEF I!Incoming, I!Item, HandoffNews
  <1>3. CASE item \in I!ClosedHandoff(h)
    BY <1>1, <1>3 DEF I!ClosedHandoff, I!Item, HandoffNews
  <1>4. CASE ~sent[h].incoming /\ item \in I!Overdue(h, "outgoing_overdue")
    BY <1>1, <1>4 DEF I!Overdue, I!Ago, I!Item, HandoffNews
  <1> QED
    BY <1>2, <1>3, <1>4

LEMMA DocNumbers ==
    ASSUME NEW row \in DocRows
    PROVE  row.due \in Nat /\ row.created \in Nat /\ row.since \in Nat
  <1>1. I!Never \in Nat
    BY Bounds DEF I!Never
  <1>2. row.due \in I!DueDays => row.due \in Nat
    BY DEF I!DueDays, I!Moments
  <1> QED
    BY <1>1, <1>2 DEF DocRows

LEMMA DueItems ==
    ASSUME NoticesTyped, NEW d \in OneDoc
    PROVE  I!DueDoc(d) = IF ~docs[d].here \/ (office /\ ~docs[d].held) \/ docs[d].archived
                            \/ docs[d].due = I!Never \/ docs[d].due > StartOf(now) + DUE_SOON THEN {}
                         ELSE IF docs[d].due < StartOf(now) THEN {I!Item("overdue", d, docs[d].due + Day, docs[d].since)}
                         ELSE {I!Item("due", d, IF docs[d].due < DUE_SOON + docs[d].created THEN docs[d].created
                                                ELSE docs[d].due - DUE_SOON, docs[d].since)}
  BY DEF I!DueDoc, StartOf

LEMMA KeptItems ==
    ASSUME NoticesTyped, NEW d \in OneDoc
    PROVE  /\ I!Until(docs[d]) = Ends(docs[d], retention)
           /\ I!KeptDoc(d) = IF ~retention.deletes \/ retention.months = I!Permanent \/ ~docs[d].archived
                                \/ Ends(docs[d], retention) > now + WARNING THEN {}
                             ELSE IF Ends(docs[d], retention) =< now
                             THEN {[I!Item("retention_due", d, Ends(docs[d], retention), KeptSince(docs[d], retention))
                                      EXCEPT !.priority = TRUE]}
                             ELSE {I!Item("retention_soon", d, Ends(docs[d], retention) - WARNING, KeptSince(docs[d], retention))}
  <1>1. I!Until(docs[d]) = Ends(docs[d], retention)
    BY DEF I!Until, I!Latest, Ends
  <1>2. I!Latest(docs[d].since, retention.since) = KeptSince(docs[d], retention)
    BY DEF I!Latest, KeptSince
  <1> QED
    BY <1>1, <1>2, Zenon DEF I!KeptDoc

LEMMA ItemsAreNews ==
    ASSUME NoticesTyped, NEW item \in I!Items, ~item.priority
    PROVE  News(item.row, item.at, item.since)
  <1>1. /\ sent \in [Requests -> SentRows] /\ docs \in [OneDoc -> DocRows] /\ now \in Nat /\ Day \in Nat /\ RECENT \in Nat
        /\ office \in BOOLEAN
    BY Bounds DEF NoticesTyped
  <1>2. \/ office /\ \E h \in Requests : item \in I!Incoming(h) \cup I!ClosedHandoff(h) \cup (IF sent[h].incoming THEN {} ELSE I!Overdue(h, "outgoing_overdue"))
        \/ office /\ \E d \in OneDoc : item \in I!RegisteredDoc(d)
        \/ ~office /\ \E h \in Requests : item \in I!Overdue(h, "handoff_overdue")
        \/ \E d \in OneDoc : item \in I!DueDoc(d)
        \/ \E d \in OneDoc : item \in I!KeptDoc(d)
    BY DEF I!Items
  <1>3. CASE office /\ \E h \in Requests : item \in I!Incoming(h) \cup I!ClosedHandoff(h) \cup (IF sent[h].incoming THEN {} ELSE I!Overdue(h, "outgoing_overdue"))
    BY <1>3, OneOfHandoff DEF News, NewsFrom
  <1>4. CASE office /\ \E d \in OneDoc : item \in I!RegisteredDoc(d)
    <2>1. PICK d \in OneDoc : item \in I!RegisteredDoc(d)
      BY <1>4
    <2>2. item.row = d /\ item.since = docs[d].since /\ DocNews(now, docs[d], item.at)
      BY <1>1, <1>4, <2>1 DEF I!RegisteredDoc, I!Item, DocNews
    <2> QED
      BY <2>2 DEF News, NewsFrom
  <1>5. CASE ~office /\ \E h \in Requests : item \in I!Overdue(h, "handoff_overdue")
    <2>1. PICK h \in Requests : item \in I!Overdue(h, "handoff_overdue")
      BY <1>5
    <2>2. item.row = h /\ item.since = sent[h].since /\ HandoffNews(now, sent[h], item.at)
      BY <1>1, <1>5, <2>1 DEF I!Overdue, I!Ago, I!Item, HandoffNews
    <2> QED
      BY <2>2 DEF News, NewsFrom
  <1>6. CASE \E d \in OneDoc : item \in I!DueDoc(d)
    <2>1. PICK d \in OneDoc : item \in I!DueDoc(d)
      BY <1>6
    <2>2. item.row = d /\ item.since = docs[d].since /\ docs[d].here /\ (office => docs[d].held) /\ ~docs[d].archived
          /\ DueNews(now, docs[d], item.at)
      <3>1. /\ docs[d].due \in Nat /\ StartOf(now) \in Nat /\ DUE_SOON \in Nat
        BY <1>1, Bounds, DaysBegin, DocNumbers
      <3>2. /\ docs[d].here /\ (office => docs[d].held) /\ ~docs[d].archived /\ docs[d].due # I!Never /\ docs[d].due =< StartOf(now) + DUE_SOON
        BY <2>1, <3>1, DueItems
      <3>3. item = IF docs[d].due < StartOf(now) THEN I!Item("overdue", d, docs[d].due + Day, docs[d].since)
                   ELSE I!Item("due", d, IF docs[d].due < DUE_SOON + docs[d].created THEN docs[d].created
                                         ELSE docs[d].due - DUE_SOON, docs[d].since)
        BY <2>1, <3>1, <3>2, DueItems
      <3> QED
        BY <3>2, <3>3 DEF I!Item, DueNews
    <2> QED
      BY <2>2 DEF News, NewsFrom, DocNews
  <1>7. CASE \E d \in OneDoc : item \in I!KeptDoc(d)
    <2>1. PICK d \in OneDoc : item \in I!KeptDoc(d)
      BY <1>7
    <2>2. Ends(docs[d], retention) \in Nat /\ WARNING \in Nat
      BY <1>1, Bounds, EndsAre DEF NoticesTyped
    <2>3. retention.deletes /\ retention.months # I!Permanent /\ docs[d].archived /\ ~(Ends(docs[d], retention) > now + WARNING)
      BY <2>1, KeptItems
    <2>4. Ends(docs[d], retention) > now
      <3>1. CASE Ends(docs[d], retention) =< now
        <4>1. item = [I!Item("retention_due", d, Ends(docs[d], retention), KeptSince(docs[d], retention)) EXCEPT !.priority = TRUE]
          BY <2>1, <2>3, <3>1, KeptItems
        <4>2. item.priority = TRUE
          BY <4>1 DEF I!Item
        <4> QED
          BY <4>2
      <3> QED
        BY <1>1, <2>2, <3>1
    <2>5. item = I!Item("retention_soon", d, Ends(docs[d], retention) - WARNING, KeptSince(docs[d], retention))
      <3>1. ~(Ends(docs[d], retention) =< now)
        BY <1>1, <2>2, <2>4
      <3> QED
        BY <2>1, <2>3, <3>1, KeptItems
    <2>6. item.row = d /\ item.since = KeptSince(docs[d], retention) /\ KeptNews(now, docs[d], retention, item.at)
      BY <1>1, <2>2, <2>3, <2>4, <2>5 DEF I!Item, KeptNews
    <2> QED
      BY <2>6 DEF News, NewsFrom
  <1> QED
    BY <1>2, <1>3, <1>4, <1>5, <1>6, <1>7

LEMMA NewsAreItems ==
    ASSUME NoticesTyped, NEW row, NEW at, NEW since, News(row, at, since)
    PROVE  \E item \in I!Plain(I!Items) : item.row = row /\ item.at = at
  <1>1. /\ sent \in [Requests -> SentRows] /\ docs \in [OneDoc -> DocRows] /\ now \in Nat /\ Day \in Nat /\ RECENT \in Nat
        /\ office \in BOOLEAN
    BY Bounds DEF NoticesTyped
  <1>2. \A kind : /\ I!Item(kind, row, at, since).row = row /\ I!Item(kind, row, at, since).at = at
                  /\ I!Item(kind, row, at, since).priority = FALSE
    BY DEF I!Item
  <1>3. SUFFICES \E kind : I!Item(kind, row, at, since) \in I!Items
    BY <1>2, Zenon DEF I!Plain
  <1>4. ASSUME NEW h \in Requests, row = h, since = sent[h].since, HandoffNews(now, sent[h], at)
        PROVE  \E kind : I!Item(kind, row, at, since) \in I!Items
    <2>1. CASE office /\ sent[h].status = "Pending" /\ sent[h].incoming /\ at = sent[h].sent
      <3>1. I!Item("incoming", row, at, since) \in I!Incoming(h)
        BY <1>4, <2>1 DEF I!Incoming
      <3> QED
        BY <2>1, <3>1 DEF I!Items
    <2>2. CASE /\ office /\ at = sent[h].closed /\ sent[h].closed + RECENT >= now
               /\ sent[h].status \in IF sent[h].incoming THEN {"Cancelled"} ELSE {"Received", "Returned"}
      <3>1. I!Item(sent[h].status, row, at, since) \in I!ClosedHandoff(h)
        BY <1>4, <2>2 DEF I!ClosedHandoff
      <3> QED
        BY <2>2, <3>1 DEF I!Items
    <2>3. CASE (office => ~sent[h].incoming) /\ sent[h].status = "Pending" /\ at = sent[h].sent + Day /\ at =< now
      <3>1. \A kind : I!Item(kind, row, at, since) \in I!Overdue(h, kind)
        BY <1>4, <2>3 DEF I!Overdue, I!Ago
      <3>2. CASE office
        BY <2>3, <3>1, <3>2 DEF I!Items
      <3>3. CASE ~office
        BY <3>1, <3>3 DEF I!Items
      <3> QED
        BY <3>2, <3>3
    <2> QED
      BY <1>4, <2>1, <2>2, <2>3 DEF HandoffNews
  <1>5. ASSUME NEW d \in OneDoc, row = d, since = docs[d].since, DocNews(now, docs[d], at)
        PROVE  \E kind : I!Item(kind, row, at, since) \in I!Items
    <2>0. docs[d] \in DocRows
      BY <1>1
    <2>1. CASE office /\ docs[d].told /\ ~docs[d].archived /\ at = docs[d].created /\ docs[d].created + RECENT >= now
      <3>1. I!Item("registered", row, at, since) \in I!RegisteredDoc(d)
        BY <1>5, <2>1 DEF I!RegisteredDoc
      <3> QED
        BY <2>1, <3>1 DEF I!Items
    <2>2. CASE docs[d].here /\ (office => docs[d].held) /\ ~docs[d].archived /\ DueNews(now, docs[d], at)
      <3>1. I!Item("overdue", row, at, since) \in I!DueDoc(d) \/ I!Item("due", row, at, since) \in I!DueDoc(d)
        <4>1. /\ docs[d].due \in Nat /\ StartOf(now) \in Nat /\ DUE_SOON \in Nat
          BY <1>1, <2>0, Bounds, DaysBegin, DocNumbers
        <4>2. docs[d].due # I!Never /\ ~(docs[d].due > StartOf(now) + DUE_SOON)
          BY <2>2, <4>1 DEF DueNews
        <4> QED
          BY <1>5, <2>2, <4>2, DueItems DEF DueNews
      <3> QED
        BY <3>1 DEF I!Items
    <2> QED
      BY <1>5, <2>1, <2>2 DEF DocNews
  <1>6. ASSUME NEW d \in OneDoc, row = d, since = KeptSince(docs[d], retention), KeptNews(now, docs[d], retention, at)
        PROVE  \E kind : I!Item(kind, row, at, since) \in I!Items
    <2>1. Ends(docs[d], retention) \in Nat /\ WARNING \in Nat
      BY <1>1, Bounds, EndsAre DEF NoticesTyped
    <2>2. ~(Ends(docs[d], retention) > now + WARNING) /\ ~(Ends(docs[d], retention) =< now)
      BY <1>1, <1>6, <2>1 DEF KeptNews
    <2>3. I!Item("retention_soon", row, at, since) \in I!KeptDoc(d)
      BY <1>6, <2>2, KeptItems DEF KeptNews
    <2> QED
      BY <2>3 DEF I!Items
  <1> QED
    BY <1>4, <1>5, <1>6 DEF News, NewsFrom

-----------------------------------------------------------------------------
(* What a panel that is open was told. *)

Told(row, at) ==
    \/ \E shown \in panel.items : shown.row = row /\ shown.at = at
    \/ /\ I!Cardinality(I!Plain(panel.items)) = MAX_ITEMS
       /\ \A shown \in I!Plain(panel.items) : at =< shown.at
Looked ==
    panel.open =>
        /\ \A h \in Requests : sent[h].since < panel.loaded =>
               \A at : HandoffNews(panel.loaded, sent[h], at) /\ at < panel.loaded => Told(h, at)
        /\ \A d \in OneDoc : docs[d].since < panel.loaded =>
               \A at : DocNews(panel.loaded, docs[d], at) /\ at < panel.loaded => Told(d, at)
        /\ \A d \in OneDoc : KeptSince(docs[d], retention) < panel.loaded =>
               \A at : KeptNews(panel.loaded, docs[d], retention, at) /\ at < panel.loaded => Told(d, at)
NoticesInv == NoticesTyped /\ Looked

LEMMA ImageIsFinite ==
    ASSUME NEW S, IsFiniteSet(S), NEW f
    PROVE  IsFiniteSet({f[x] : x \in S})
  <1> DEFINE image == {f[x] : x \in S}
             g == [x \in S |-> f[x]]
  <1>1. g \in Surjection(S, image)
    BY DEF Surjection
  <1> QED
    BY <1>1, FS_Surjection

LEMMA ItemsAreFinite == IsFiniteSet(I!Items)
  <1> DEFINE incoming == [h \in Requests |-> I!Item("incoming", h, sent[h].sent, sent[h].since)]
             closed == [h \in Requests |-> I!Item(sent[h].status, h, sent[h].closed, sent[h].since)]
             outgoing == [h \in Requests |-> I!Item("outgoing_overdue", h, sent[h].sent + Day, sent[h].since)]
             anybody == [h \in Requests |-> I!Item("handoff_overdue", h, sent[h].sent + Day, sent[h].since)]
             registered == [d \in OneDoc |-> I!Item("registered", d, docs[d].created, docs[d].since)]
             overdue == [d \in OneDoc |-> I!Item("overdue", d, docs[d].due + Day, docs[d].since)]
             due == [d \in OneDoc |-> I!Item("due", d, IF docs[d].due < DUE_SOON + docs[d].created THEN docs[d].created
                                                       ELSE docs[d].due - DUE_SOON, docs[d].since)]
             ends == [d \in OneDoc |-> [I!Item("retention_due", d, I!Until(docs[d]), I!Latest(docs[d].since, retention.since))
                                            EXCEPT !.priority = TRUE]]
             soon == [d \in OneDoc |-> I!Item("retention_soon", d, I!Until(docs[d]) - WARNING,
                                             I!Latest(docs[d].since, retention.since))]
             Of(f, S) == {f[x] : x \in S}
             moves == Of(incoming, Requests) \cup Of(closed, Requests) \cup Of(outgoing, Requests) \cup Of(anybody, Requests)
             papers == Of(registered, OneDoc) \cup Of(overdue, OneDoc) \cup Of(due, OneDoc) \cup Of(ends, OneDoc) \cup Of(soon, OneDoc)
  <1>1. /\ \A h \in Requests : I!Incoming(h) \subseteq Of(incoming, Requests) /\ I!ClosedHandoff(h) \subseteq Of(closed, Requests)
        /\ \A h \in Requests : I!Overdue(h, "outgoing_overdue") \subseteq Of(outgoing, Requests)
        /\ \A h \in Requests : I!Overdue(h, "handoff_overdue") \subseteq Of(anybody, Requests)
    BY DEF I!Incoming, I!ClosedHandoff, I!Overdue
  <1>2. /\ \A d \in OneDoc : I!RegisteredDoc(d) \subseteq Of(registered, OneDoc)
        /\ \A d \in OneDoc : I!DueDoc(d) \subseteq Of(overdue, OneDoc) \cup Of(due, OneDoc)
        /\ \A d \in OneDoc : I!KeptDoc(d) \subseteq Of(ends, OneDoc) \cup Of(soon, OneDoc)
    BY DEF I!RegisteredDoc, I!DueDoc, I!KeptDoc
  <1>3. \A f : IsFiniteSet(Of(f, Requests)) /\ IsFiniteSet(Of(f, OneDoc))
    BY Bounds, ImageIsFinite
  <1> HIDE DEF incoming, closed, outgoing, anybody, registered, overdue, due, ends, soon, Of
  <1>4. I!Items \subseteq moves \cup papers
    BY <1>1, <1>2 DEF I!Items
  <1>5. IsFiniteSet(moves)
    BY <1>3, FS_Union
  <1>6. IsFiniteSet(papers)
    BY <1>3, FS_Union
  <1> HIDE DEF moves, papers
  <1> QED
    BY <1>4, <1>5, <1>6, FS_Union, FS_Subset

(* What an answer leaves out is no later than what it lists. *)
LEMMA AnswersList ==
    ASSUME NEW answer \in I!Answers, NEW item \in I!Plain(I!Items)
    PROVE  \/ \E shown \in answer : shown.row = item.row /\ shown.at = item.at
           \/ /\ I!Cardinality(I!Plain(answer)) = MAX_ITEMS
              /\ \A shown \in I!Plain(answer) : item.at =< shown.at
  <1> DEFINE others == I!Plain(I!Items)
  <1>1. PICK some \in SUBSET others :
            /\ answer = (I!Items \ others) \cup some
            /\ I!Cardinality(some) = IF I!Cardinality(others) < MAX_ITEMS THEN I!Cardinality(others) ELSE MAX_ITEMS
            /\ \A x \in some, other \in others \ some : other.at =< x.at
    BY DEF I!Answers
  <1>2. I!Plain(answer) = some
    BY <1>1, Zenon DEF I!Plain
  <1>3. /\ I!Cardinality(some) = Cardinality(some) /\ I!Cardinality(others) = Cardinality(others)
    BY DEF I!Cardinality, Cardinality
  <1>4. IsFiniteSet(others)
    BY ItemsAreFinite, FS_Subset DEF I!Plain
  <1> HIDE DEF others
  <1>5. CASE item \in some
    BY <1>1, <1>5
  <1>6. CASE item \notin some
    <2>1. some # others /\ item \in others \ some
      BY <1>6 DEF others
    <2>2. Cardinality(some) # Cardinality(others)
      BY <1>4, <2>1, FS_Subset
    <2>3. I!Cardinality(some) = MAX_ITEMS
      BY <1>1, <1>3, <2>2
    <2> QED
      BY <1>1, <1>2, <2>1, <2>3
  <1> QED
    BY <1>5, <1>6

-----------------------------------------------------------------------------
(* What a step does: a row it changes is stamped, or is no news.           *)

SameNews(old, new) == /\ new.status = old.status /\ new.incoming = old.incoming
                      /\ new.sent = old.sent /\ new.closed = old.closed /\ new.since = old.since
RowsStamped ==
    /\ office' = office /\ now' \in {now, now + 1}
    /\ \A h \in Requests : sent'[h].since = now \/ sent'[h].status = "none" \/ SameNews(sent[h], sent'[h])
    /\ \A d \in OneDoc : docs'[d].since = now \/ docs'[d] = I!NotRegistered \/ docs'[d] = docs[d]
    /\ retention'.since = now \/ retention' = retention
Shows ==
    \/ panel' = panel
    \/ ~panel'.open
    \/ /\ panel'.open /\ panel'.loaded = now /\ panel'.items \in I!Answers /\ now' = now + 1
       /\ sent' = sent /\ docs' = docs /\ retention' = retention
Looks == seen' = seen \/ (seen' = now /\ now' = now + 1 /\ panel.open /\ sent' = sent /\ docs' = docs /\ retention' = retention)
NoticesTypes == NoticesTyped'

LEMMA RowSent ==
    ASSUME NoticesTyped, NEW h \in Requests, NEW row \in SentRows, sent' = [sent EXCEPT ![h] = row], I!Tick,
           UNCHANGED <<office, docs, retention, seen, panel>>, row.since = now \/ row.status = "none" \/ SameNews(sent[h], row)
    PROVE  RowsStamped /\ Shows /\ Looks /\ NoticesTypes
  <1>1. sent' \in [Requests -> SentRows] /\ sent'[h] = row /\ \A q \in Requests : q # h => sent'[q] = sent[q]
    BY DEF NoticesTyped
  <1>2. now \in Nat /\ now' = now + 1 /\ now' \in Nat
    BY DEF NoticesTyped, I!Tick
  <1> QED
    BY <1>1, <1>2 DEF RowsStamped, Shows, Looks, NoticesTypes, NoticesTyped, SameNews

LEMMA RowKept ==
    ASSUME NoticesTyped, NEW d \in OneDoc, NEW row \in DocRows, docs' = [docs EXCEPT ![d] = row], I!Tick,
           UNCHANGED <<office, sent, retention, seen, panel>>, row.since = now \/ row = I!NotRegistered
    PROVE  RowsStamped /\ Shows /\ Looks /\ NoticesTypes
  <1>1. docs' \in [OneDoc -> DocRows] /\ docs'[d] = row /\ \A q \in OneDoc : q # d => docs'[q] = docs[q]
    BY DEF NoticesTyped
  <1>2. now \in Nat /\ now' = now + 1 /\ now' \in Nat
    BY DEF NoticesTyped, I!Tick
  <1> QED
    BY <1>1, <1>2 DEF RowsStamped, Shows, Looks, NoticesTypes, NoticesTyped, SameNews

LEMMA NoticesStep ==
    ASSUME NoticesTyped, I!Next \/ UNCHANGED I!vars
    PROVE  RowsStamped /\ Shows /\ Looks /\ NoticesTypes
  <1>0. /\ now \in Nat /\ seen \in Nat /\ seen < now /\ sent \in [Requests -> SentRows] /\ docs \in [OneDoc -> DocRows]
        /\ retention \in Rules /\ Kept \subseteq Nat /\ I!Never \in Nat
    BY Bounds DEF NoticesTyped, I!Never
  <1>1. I!NotSent \in SentRows /\ I!NotSent.status = "none"
    BY DEF I!NotSent, SentRows, HandoffStates
  <1>2. I!NotRegistered \in DocRows
    BY <1>0 DEF I!NotRegistered, DocRows
  <1>3. CASE I!Pass \/ UNCHANGED I!vars
    BY <1>0, <1>3 DEF I!Pass, I!Tick, I!vars, RowsStamped, Shows, Looks, NoticesTypes, NoticesTyped, SameNews
  <1>4. CASE I!show_notifications
    <2>1. PICK answer \in I!Answers :
              panel' = IF \E item \in answer : I!Unread(item) THEN [open |-> TRUE, loaded |-> now, items |-> answer] ELSE I!Closed
      BY <1>4 DEF I!show_notifications
    <2>2. I!Closed.open = FALSE
      BY DEF I!Closed
    <2>3. now' = now + 1 /\ UNCHANGED <<office, sent, docs, retention, seen>>
      BY <1>4 DEF I!show_notifications, I!Tick
    <2>4. CASE panel' = I!Closed
      BY <1>0, <2>2, <2>3, <2>4 DEF RowsStamped, Shows, Looks, NoticesTypes, NoticesTyped, SameNews
    <2>5. CASE panel' = [open |-> TRUE, loaded |-> now, items |-> answer]
      BY <1>0, <2>3, <2>5 DEF RowsStamped, Shows, Looks, NoticesTypes, NoticesTyped, SameNews
    <2> QED
      BY <2>1, <2>4, <2>5
  <1>5. CASE I!mark_notifications_seen \/ I!SeenLost
    <2>1. I!Closed.open = FALSE
      BY DEF I!Closed
    <2> QED
      BY <1>0, <1>5, <2>1 DEF I!mark_notifications_seen, I!SeenLost, I!Tick, RowsStamped, Shows, Looks, NoticesTypes, NoticesTyped, SameNews
  <1>6. ASSUME NEW h \in Requests, NEW incoming \in BOOLEAN, I!Send(h, incoming)
        PROVE  RowsStamped /\ Shows /\ Looks /\ NoticesTypes
    <2> DEFINE row == [I!NotSent EXCEPT !.incoming = incoming, !.next = "Pending", !.stamp = now]
    <2>1. row \in SentRows /\ row.status = "none"
      BY <1>0, <1>1 DEF SentRows, HandoffStates
    <2> QED
      BY <1>6, <2>1, RowSent DEF I!Send, I!Handoff
  <1>7. ASSUME NEW h \in Requests, NEW status \in {"Received", "Returned", "Cancelled"}, I!Close(h, status)
        PROVE  RowsStamped /\ Shows /\ Looks /\ NoticesTypes
    <2> DEFINE row == [sent[h] EXCEPT !.next = status, !.stamp = now]
    <2>1. row \in SentRows /\ SameNews(sent[h], row)
      BY <1>0 DEF SentRows, HandoffStates, SameNews
    <2> QED
      BY <1>7, <2>1, RowSent DEF I!Close, I!Handoff
  <1>8. ASSUME NEW h \in Requests, I!Commit(h)
        PROVE  RowsStamped /\ Shows /\ Looks /\ NoticesTypes
    <2> DEFINE row == [sent[h] EXCEPT !.status = sent[h].next, !.next = "none", !.stamp = 0, !.since = now,
                                      !.sent = IF sent[h].next = "Pending" THEN sent[h].stamp ELSE @,
                                      !.closed = IF sent[h].next = "Pending" THEN @ ELSE sent[h].stamp]
    <2>1. row \in SentRows /\ row.since = now
      BY <1>0 DEF SentRows, HandoffStates
    <2> QED
      BY <1>8, <2>1, RowSent DEF I!Commit, I!Handoff
  <1>9. ASSUME NEW d \in OneDoc, NEW row \in DocRows, I!Document(d, row)
        PROVE  RowsStamped /\ Shows /\ Looks /\ NoticesTypes
    <2> DEFINE new == [row EXCEPT !.since = now]
    <2>1. new \in DocRows /\ new.since = now
      BY <1>0 DEF DocRows
    <2> QED
      BY <1>9, <2>1, RowKept DEF I!Document
  <1>10. ASSUME NEW d \in OneDoc, NEW due \in I!DueDays \cup {I!Never}, NEW held \in BOOLEAN, NEW told \in BOOLEAN,
                I!Register(d, due, held, told)
         PROVE  RowsStamped /\ Shows /\ Looks /\ NoticesTypes
    <2>1. [I!NotRegistered EXCEPT !.here = TRUE, !.created = now, !.due = due, !.held = held, !.told = told] \in DocRows
      BY <1>0, <1>2 DEF DocRows
    <2> QED
      BY <1>9, <1>10, <2>1 DEF I!Register
  <1>11. ASSUME NEW d \in OneDoc, NEW due \in I!DueDays \cup {I!Never}, I!SetDue(d, due)
         PROVE  RowsStamped /\ Shows /\ Looks /\ NoticesTypes
    <2>1. [docs[d] EXCEPT !.due = due] \in DocRows
      BY <1>0 DEF DocRows
    <2> QED
      BY <1>9, <1>11, <2>1 DEF I!SetDue
  <1>12. ASSUME NEW d \in OneDoc, I!Move(d) \/ I!Archive(d) \/ I!Restore(d)
         PROVE  RowsStamped /\ Shows /\ Looks /\ NoticesTypes
    <2>1. [docs[d] EXCEPT !.held = ~@] \in DocRows
      BY <1>0 DEF DocRows
    <2>2. [docs[d] EXCEPT !.archived = TRUE, !.filed = now] \in DocRows
      BY <1>0 DEF DocRows
    <2>3. [docs[d] EXCEPT !.archived = FALSE, !.filed = 0, !.extended = 0] \in DocRows
      BY <1>0 DEF DocRows
    <2> QED
      BY <1>9, <1>12, <2>1, <2>2, <2>3 DEF I!Move, I!Archive, I!Restore
  <1>13. ASSUME NEW d \in OneDoc, NEW n \in Kept, I!Extend(d, n)
         PROVE  RowsStamped /\ Shows /\ Looks /\ NoticesTypes
    <2>1. I!Until(docs[d]) \in Nat /\ n \in Nat
      BY <1>0, KeptItems, EndsAre
    <2>2. I!Latest(I!Until(docs[d]), now) + n \in Nat
      BY <1>0, <2>1 DEF I!Latest
    <2>3. [docs[d] EXCEPT !.extended = I!Latest(I!Until(docs[d]), now) + n] \in DocRows
      BY <1>0, <2>2 DEF DocRows
    <2> QED
      BY <1>9, <1>13, <2>3 DEF I!Extend
  <1>14. ASSUME NEW d \in OneDoc, I!Delete(d)
         PROVE  RowsStamped /\ Shows /\ Looks /\ NoticesTypes
    BY <1>2, <1>14, RowKept DEF I!Delete
  <1>15. ASSUME NEW rule \in Rules, I!Rule(rule)
         PROVE  RowsStamped /\ Shows /\ Looks /\ NoticesTypes
    <2>1. retention' \in Rules /\ retention'.since = now
      BY <1>0, <1>15 DEF I!Rule, Rules
    <2>2. now' = now + 1 /\ UNCHANGED <<office, sent, docs, seen, panel>>
      BY <1>15 DEF I!Rule, I!Tick
    <2> QED
      BY <1>0, <2>1, <2>2 DEF RowsStamped, Shows, Looks, NoticesTypes, NoticesTyped, SameNews
  <1>16. CASE I!update_user_permissions \/ \E n \in Kept : I!update_system_settings(n)
    <2>1. [retention EXCEPT !.deletes = ~@] \in Rules
      BY <1>0 DEF Rules
    <2>2. \A n \in Kept : [retention EXCEPT !.months = n] \in Rules
      BY <1>0 DEF Rules
    <2> QED
      BY <1>15, <1>16, <2>1, <2>2 DEF I!update_user_permissions, I!update_system_settings
  <1> QED
    BY <1>3, <1>4, <1>5, <1>6, <1>7, <1>8, <1>10, <1>11, <1>12, <1>13, <1>14, <1>16 DEF I!Next

-----------------------------------------------------------------------------
(* What was told stays so, and what becomes read was told. *)

LEMMA LookedStays ==
    ASSUME NoticesTyped, Looked, RowsStamped, Shows, NoticesTypes
    PROVE  Looked'
  <1>0. /\ now \in Nat /\ office' = office /\ now' \in {now, now + 1}
        /\ panel.open => panel.loaded \in Nat /\ panel.loaded < now
    BY DEF NoticesTyped, RowsStamped
  <1>1. CASE ~panel'.open
    BY <1>1 DEF Looked
  <1>2. CASE panel.open /\ panel' = panel
    <2>1. \A row, at : Told(row, at)' <=> Told(row, at)
      BY <1>2 DEF Told, I!Plain, I!Cardinality
    <2>2. ASSUME NEW h \in Requests, sent'[h].since < panel.loaded, NEW at, HandoffNews(panel.loaded, sent[h], at)', at < panel.loaded
          PROVE  Told(h, at)
      <3>1. SameNews(sent[h], sent'[h])
        <4>1. sent'[h].status # "none"
          BY <2>2 DEF HandoffNews
        <4>2. sent'[h].since # now
          BY <1>0, <1>2, <2>2
        <4> QED
          BY <4>1, <4>2 DEF RowsStamped
      <3>2. HandoffNews(panel.loaded, sent[h], at)
        BY <1>0, <1>2, <2>2, <3>1 DEF HandoffNews, SameNews
      <3> QED
        BY <1>2, <2>2, <3>1, <3>2 DEF Looked, SameNews
    <2>3. ASSUME NEW d \in OneDoc, docs'[d].since < panel.loaded, NEW at, DocNews(panel.loaded, docs[d], at)', at < panel.loaded
          PROVE  Told(d, at)
      <3>1. docs'[d] = docs[d]
        <4>1. docs'[d] # I!NotRegistered
          BY <2>3 DEF DocNews, I!NotRegistered
        <4>2. docs'[d].since # now
          BY <1>0, <1>2, <2>3
        <4> QED
          BY <4>1, <4>2 DEF RowsStamped
      <3>2. DocNews(panel.loaded, docs[d], at)
        BY <1>0, <1>2, <2>3, <3>1 DEF DocNews, DueNews, StartOf
      <3> QED
        BY <1>2, <2>3, <3>1, <3>2 DEF Looked
    <2>4. ASSUME NEW d \in OneDoc, KeptSince(docs'[d], retention') < panel.loaded, NEW at,
                 KeptNews(panel.loaded, docs'[d], retention', at), at < panel.loaded
          PROVE  Told(d, at)
      <3>1. docs'[d] \in DocRows /\ retention' \in Rules
        BY DEF NoticesTypes, NoticesTyped
      <3>2. docs'[d].since < panel.loaded /\ retention'.since < panel.loaded
        <4>1. docs'[d].since \in Nat /\ retention'.since \in Nat
          BY <3>1 DEF DocRows, Rules
        <4> QED
          BY <1>0, <1>2, <2>4, <3>1, <4>1, EndsAre
      <3>3. docs'[d] = docs[d] /\ retention' = retention
        <4>1. docs'[d] # I!NotRegistered
          BY <2>4 DEF KeptNews, I!NotRegistered
        <4>2. docs'[d].since # now /\ retention'.since # now
          BY <1>0, <1>2, <3>2
        <4> QED
          BY <4>1, <4>2 DEF RowsStamped
      <3> QED
        BY <1>2, <2>4, <3>3 DEF Looked
    <2>5. /\ \A h \in Requests : (sent[h].since)' < panel.loaded =>
                 \A at : HandoffNews(panel.loaded, sent[h], at)' /\ at < panel.loaded => Told(h, at)
          /\ \A d \in OneDoc : (docs[d].since)' < panel.loaded =>
                 \A at : DocNews(panel.loaded, docs[d], at)' /\ at < panel.loaded => Told(d, at)
          /\ \A d \in OneDoc : KeptSince(docs'[d], retention') < panel.loaded =>
                 \A at : KeptNews(panel.loaded, docs'[d], retention', at) /\ at < panel.loaded => Told(d, at)
      BY <2>2, <2>3, <2>4
    <2> QED
      BY <1>2, <2>1, <2>5 DEF Looked, KeptNews, KeptSince, Ends
  <1>3. CASE /\ panel'.open /\ panel'.loaded = now /\ panel'.items \in I!Answers
             /\ sent' = sent /\ docs' = docs /\ retention' = retention
    <2>1. ASSUME NEW row, NEW at, NEW since, News(row, at, since)
          PROVE  Told(row, at)'
      <3>1. PICK item \in I!Plain(I!Items) : item.row = row /\ item.at = at
        BY <2>1, NewsAreItems
      <3>2. \/ \E shown \in panel'.items : shown.row = item.row /\ shown.at = item.at
            \/ /\ I!Cardinality(I!Plain(panel'.items)) = MAX_ITEMS
               /\ \A shown \in I!Plain(panel'.items) : item.at =< shown.at
        BY <1>3, AnswersList
      <3> QED
        BY <3>1, <3>2 DEF Told, I!Plain, I!Cardinality
    <2>2. ASSUME NEW h \in Requests, NEW at, HandoffNews(panel.loaded, sent[h], at)'
          PROVE  Told(h, at)'
      <3>1. HandoffNews(now, sent[h], at)
        BY <1>0, <1>3, <2>2 DEF HandoffNews
      <3> QED
        BY <2>1, <3>1 DEF News, NewsFrom
    <2>3. ASSUME NEW d \in OneDoc, NEW at, DocNews(panel.loaded, docs[d], at)'
          PROVE  Told(d, at)'
      <3>1. DocNews(now, docs[d], at)
        BY <1>0, <1>3, <2>3 DEF DocNews, DueNews, StartOf
      <3> QED
        BY <2>1, <3>1 DEF News, NewsFrom
    <2>4. ASSUME NEW d \in OneDoc, NEW at, KeptNews(panel.loaded, docs[d], retention, at)'
          PROVE  Told(d, at)'
      <3>1. KeptNews(now, docs[d], retention, at)
        BY <1>3, <2>4 DEF KeptNews, Ends
      <3> QED
        BY <2>1, <3>1 DEF News, NewsFrom
    <2> QED
      BY <2>2, <2>3, <2>4 DEF Looked
  <1> QED
    BY <1>1, <1>2, <1>3 DEF Shows

(* Every item without priority is news. *)
AllNews == \A item \in I!Items : ~item.priority =>
               News(item.row, item.at, item.since) /\ item.at \in Int /\ item.since \in Nat

LEMMA NewsTimes ==
    ASSUME NoticesTyped, NEW row, NEW at, NEW since, News(row, at, since)
    PROVE  at \in Int /\ since \in Nat
  <1>0. /\ sent \in [Requests -> SentRows] /\ docs \in [OneDoc -> DocRows] /\ Day \in Nat /\ DUE_SOON \in Nat /\ WARNING \in Nat
    BY Bounds DEF NoticesTyped
  <1>1. ASSUME NEW h \in Requests, since = sent[h].since, HandoffNews(now, sent[h], at)
        PROVE  at \in Int /\ since \in Nat
    <2>1. sent[h] \in SentRows
      BY <1>0
    <2> QED
      BY <1>0, <1>1, <2>1 DEF HandoffNews, SentRows
  <1>2. ASSUME NEW d \in OneDoc, since = docs[d].since, DocNews(now, docs[d], at)
        PROVE  at \in Int /\ since \in Nat
    <2>1. docs[d].due \in Nat /\ docs[d].created \in Nat /\ docs[d].since \in Nat
      BY <1>0, DocNumbers
    <2> QED
      BY <1>0, <1>2, <2>1 DEF DocNews, DueNews
  <1>3. ASSUME NEW d \in OneDoc, since = KeptSince(docs[d], retention), KeptNews(now, docs[d], retention, at)
        PROVE  at \in Int /\ since \in Nat
    <2>1. Ends(docs[d], retention) \in Nat /\ KeptSince(docs[d], retention) \in Nat
      BY <1>0, EndsAre DEF NoticesTyped
    <2> QED
      BY <1>0, <1>3, <2>1 DEF KeptNews
  <1> QED
    BY <1>1, <1>2, <1>3 DEF News, NewsFrom

LEMMA TypedNews == NoticesTyped => AllNews
  BY ItemsAreNews, NewsTimes DEF AllNews

(* News of now, at or before the last look, was there before the step, or  *)
(* its row was stamped since.                                              *)
LEMMA NewsSince ==
    ASSUME NoticesTyped, NoticesTypes, RowsStamped, NEW u \in Nat, u =< now, NEW row, NEW at, NEW since,
           at < u, since < u, News(row, at, since)'
    PROVE  \/ \E h \in Requests : row = h /\ sent[h].since = since /\ HandoffNews(u, sent[h], at)
           \/ \E d \in OneDoc : row = d /\ docs[d].since = since /\ DocNews(u, docs[d], at)
           \/ \E d \in OneDoc : row = d /\ KeptSince(docs[d], retention) = since /\ KeptNews(u, docs[d], retention, at)
  <1>0. now \in Nat /\ now' \in Nat /\ u =< now' /\ office' = office /\ u \in Nat
        /\ sent' \in [Requests -> SentRows] /\ docs' \in [OneDoc -> DocRows] /\ retention' \in Rules
    BY DEF NoticesTyped, NoticesTypes, RowsStamped
  <1>1. CASE \E h \in Requests : row = h /\ since = sent'[h].since /\ HandoffNews(now, sent[h], at)'
    <2>1. PICK h \in Requests : row = h /\ since = sent'[h].since /\ HandoffNews(now, sent[h], at)'
      BY <1>1
    <2>2. HandoffNews(now', sent'[h], at)
      BY <1>0, <2>1 DEF HandoffNews
    <2>3. HandoffNews(u, sent'[h], at)
      BY <1>0, <2>2, HandoffNewsBefore
    <2>4. SameNews(sent[h], sent'[h])
      <3>1. sent'[h].since # now
        BY <1>0, <2>1
      <3>2. sent'[h].status # "none"
        BY <2>2 DEF HandoffNews
      <3> QED
        BY <3>1, <3>2 DEF RowsStamped
    <2>5. HandoffNews(u, sent[h], at) /\ sent[h].since = since
      BY <2>1, <2>3, <2>4 DEF HandoffNews, SameNews
    <2> QED
      BY <2>1, <2>5
  <1>2. CASE \E d \in OneDoc : row = d /\ since = docs'[d].since /\ DocNews(now, docs[d], at)'
    <2>1. PICK d \in OneDoc : row = d /\ since = docs'[d].since /\ DocNews(now, docs[d], at)'
      BY <1>2
    <2>2. DocNews(now', docs'[d], at)
      BY <1>0, <2>1 DEF DocNews, DueNews, StartOf
    <2>3. DocNews(u, docs'[d], at)
      BY <1>0, <2>2, DocNewsBefore
    <2>4. docs'[d] = docs[d]
      <3>1. docs'[d].since # now
        BY <1>0, <2>1
      <3>2. docs'[d] # I!NotRegistered
        BY <2>2 DEF DocNews, I!NotRegistered
      <3> QED
        BY <3>1, <3>2 DEF RowsStamped
    <2> QED
      BY <2>1, <2>3, <2>4
  <1>3. CASE \E d \in OneDoc : row = d /\ since = KeptSince(docs'[d], retention') /\ KeptNews(now', docs'[d], retention', at)
    <2>1. PICK d \in OneDoc : row = d /\ since = KeptSince(docs'[d], retention') /\ KeptNews(now', docs'[d], retention', at)
      BY <1>3
    <2>2. docs'[d] \in DocRows
      BY <1>0
    <2>3. KeptNews(u, docs'[d], retention', at)
      BY <1>0, <2>1, <2>2, KeptNewsBefore
    <2>4. docs'[d] = docs[d] /\ retention' = retention
      <3>1. docs'[d].since # now /\ retention'.since # now
        <4>1. docs'[d].since \in Nat /\ retention'.since \in Nat
          BY <1>0, <2>2 DEF DocRows, Rules
        <4> QED
          BY <1>0, <2>1, <2>2, <4>1, EndsAre
      <3>2. docs'[d] # I!NotRegistered
        BY <2>1 DEF KeptNews, I!NotRegistered
      <3> QED
        BY <3>1, <3>2 DEF RowsStamped
    <2> QED
      BY <2>1, <2>3, <2>4
  <1> QED
    BY <1>1, <1>2, <1>3 DEF News, NewsFrom, KeptNews, KeptSince, Ends

LEMMA Unshown ==
    ASSUME NoticesTyped, Looked, NoticesTypes, RowsStamped, Looks, AllNews'
    PROVE  I!NewsStep
  <1>0. /\ now \in Nat /\ seen \in Nat /\ seen < now /\ seen' \in Nat
        /\ panel.open => panel.loaded \in Nat /\ panel.loaded < now
    BY DEF NoticesTyped, NoticesTypes
  <1> SUFFICES ASSUME NEW item \in I!Items', ~(item.priority \/ item.at > seen')
               PROVE  \/ \E old \in I!Items : old.row = item.row /\ old.at = item.at /\ ~I!Unread(old)
                      \/ I!Excused(item)
    BY Zenon DEF I!NewsStep, I!Unread
  <1>1. ~item.priority /\ ~(item.at > seen')
    BY Zenon
  <1>2. News(item.row, item.at, item.since)' /\ item.at \in Int /\ item.since \in Nat
    BY <1>1, Zenon DEF AllNews
  <1>3. item.at =< seen'
    BY <1>0, <1>1, <1>2
  <1>4. CASE seen' = seen
    <2>1. CASE item.since < seen
      <3>1. item.at < now /\ item.since < now /\ now =< now
        BY <1>0, <1>2, <1>3, <1>4, <2>1
      <3>2. News(item.row, item.at, item.since)
        BY <1>0, <1>2, <3>1, NewsSince DEF News, NewsFrom
      <3>3. PICK old \in I!Plain(I!Items) : old.row = item.row /\ old.at = item.at
        BY <3>2, NewsAreItems
      <3>4. old \in I!Items /\ ~old.priority
        BY <3>3, Zenon DEF I!Plain
      <3>5. ~(old.at > seen)
        BY <1>0, <1>2, <1>3, <1>4, <3>3
      <3>6. ~I!Unread(old)
        BY <3>4, <3>5, Zenon DEF I!Unread
      <3> QED
        BY <3>3, <3>4, <3>6
    <2>2. CASE seen =< item.since
      BY <1>4, <2>2 DEF I!Excused
    <2> QED
      BY <1>0, <1>2, <2>1, <2>2
  <1>5. CASE seen' = now /\ panel.open /\ seen' # seen
    <2>1. panel.loaded \in Nat /\ panel.loaded =< now
      BY <1>0, <1>5
    <2>2. CASE item.at < panel.loaded /\ item.since < panel.loaded
      <3>1. Told(item.row, item.at)
        <4>1. CASE \E h \in Requests : item.row = h /\ sent[h].since = item.since /\ HandoffNews(panel.loaded, sent[h], item.at)
          BY <1>5, <2>2, <4>1 DEF Looked
        <4>2. CASE \E d \in OneDoc : item.row = d /\ docs[d].since = item.since /\ DocNews(panel.loaded, docs[d], item.at)
          BY <1>5, <2>2, <4>2 DEF Looked
        <4>3. CASE \E d \in OneDoc : item.row = d /\ KeptSince(docs[d], retention) = item.since
                                     /\ KeptNews(panel.loaded, docs[d], retention, item.at)
          BY <1>5, <2>2, <4>3 DEF Looked
        <4> QED
          BY <1>2, <2>1, <2>2, <4>1, <4>2, <4>3, NewsSince
      <3> QED
        BY <1>5, <3>1 DEF Told, I!Excused
    <2>3. CASE item.at >= panel.loaded \/ item.since >= panel.loaded
      BY <1>5, <2>3 DEF I!Excused
    <2> QED
      BY <1>2, <2>1, <2>2, <2>3
  <1> QED
    BY <1>0, <1>4, <1>5 DEF Looks

LEMMA NoticesInit == I!Init => NoticesInv
  <1> SUFFICES ASSUME I!Init PROVE NoticesInv
    OBVIOUS
  <1>1. I!NotSent \in SentRows
    BY DEF I!NotSent, SentRows, HandoffStates
  <1>2. I!NotRegistered \in DocRows
    BY Bounds DEF I!NotRegistered, DocRows, I!Never
  <1>3. I!Closed.open = FALSE
    BY DEF I!Closed
  <1>4. retention \in Rules
    <2>1. retention \in [months : Kept, deletes : BOOLEAN, since : {0}]
      BY DEF I!Init
    <2>2. Kept \subseteq Nat /\ {0} \subseteq Nat
      BY Bounds
    <2> QED
      BY <2>1, <2>2 DEF Rules
  <1> QED
    BY <1>1, <1>2, <1>3, <1>4 DEF I!Init, NoticesInv, NoticesTyped, Looked

(* Notices by themselves, whatever the lengths of days, of retention and   *)
(* of the list.                                                            *)
THEOREM NothingReadUnshown == I!Spec => [][I!NewsStep]_I!vars
  <1>1. NoticesInv /\ [I!Next]_I!vars => NoticesInv'
    BY NoticesStep, LookedStays DEF NoticesInv, NoticesTypes
  <1>2. NoticesInv /\ AllNews' /\ [I!Next]_I!vars => I!NewsStep
    BY NoticesStep, Unshown DEF NoticesInv
  <1>3. NoticesInv => AllNews
    BY TypedNews DEF NoticesInv
  <1> QED
    BY <1>1, <1>2, <1>3, NoticesInit, PTL DEF I!Spec

PartsNotices == part = "notices" => NoticesInv

LEMMA PartsNoticesStep == PartsNotices /\ [PartsNext]_parts => PartsNotices' /\ (part = "notices" => I!Next \/ UNCHANGED I!vars)
  <1> SUFFICES ASSUME PartsNotices, [PartsNext]_parts
               PROVE  PartsNotices' /\ (part = "notices" => I!Next \/ UNCHANGED I!vars)
    OBVIOUS
  <1>1. part' = part
    BY DEF PartsNext, parts
  <1>2. part = "notices" => I!Next \/ UNCHANGED I!vars
    BY DEF PartsNext, parts, noticesVars, I!vars
  <1> QED
    BY <1>1, <1>2, NoticesStep, LookedStays DEF PartsNotices, NoticesInv, NoticesTypes

(* No notification becomes read that was not shown (notifications.py       *)
(* list_notifications, mark_notifications_seen, admin_shell.py             *)
(* show_notifications), but those that were stamped or listed too late.    *)
THEOREM NewsGetsShown == PartsSpec => NewsIsShown
  <1>1. PartsInit => PartsNotices
    BY NoticesInit DEF PartsInit, PartsNotices
  <1>2. PartsNotices /\ [PartsNext]_parts => PartsNotices'
    BY PartsNoticesStep
  <1> DEFINE news == part = "notices" => AllNews
  <1>3. PartsNotices => news
    BY TypedNews DEF PartsNotices, NoticesInv
  <1>4. PartsNotices /\ news' /\ [PartsNext]_parts => (part = "notices" => I!NewsStep)
    <2>1. [PartsNext]_parts => part' = part
      BY DEF PartsNext, parts
    <2> QED
      BY <2>1, PartsNoticesStep, NoticesStep, Unshown DEF PartsNotices, NoticesInv
  <1> HIDE DEF news
  <1> QED
    BY <1>1, <1>2, <1>3, <1>4, PTL DEF PartsSpec, NewsIsShown

-----------------------------------------------------------------------------
(***************************************************************************)
(* The nightly backups.  The folder of the run under way is as new as any  *)
(* that was logged, and is among those that are left (UnderWay), so what   *)
(* the run removes can be spared.  A run ends the day after it began at    *)
(* the latest, so the last OK is a day younger than its folder at most     *)
(* (Logged).                                                               *)
(***************************************************************************)
UnderWay ==
    /\ job # Nightly!Idle => /\ job.folder \in Nightly!Folders /\ now \in {job.folder[1], job.folder[1] + 1}
                             /\ log.folder[1] =< job.folder[1] /\ log.copied[1] =< job.folder[1]
                             /\ job.step # "idle"
    /\ job.step = "writing" => job.folder \in partial
    /\ job.step \in {"written", "cleaned", "logged", "copying", "copied"} => job.folder \in dest
    /\ job.step = "copied" => job.folder \in mirror
Logged ==
    /\ log.folder[1] =< now /\ log.copied[1] =< now
    /\ log.at # 0 => log.folder \in Nightly!Folders /\ log.at =< log.folder[1] + 1
NightlyInv == Nightly!TypeOK /\ UnderWay /\ Logged /\ Nightly!LastStays

LEMMA NightBounds == Nights \in Nat \ {0} /\ MaxFolder \in Nat \ {0} /\ NightsKept \in Nat /\ MaxAge \in Nat
  BY Instances DEF Nightly!BoundsAssumption

LEMMA FoldersAre ==
    /\ \A f \in Nightly!Folders : f[1] \in 1 .. Nights /\ f # Nightly!NoFolder
    /\ Nightly!NoFolder[1] = 0 /\ Nightly!NoFolder \notin Nightly!Folders
    /\ \A f \in Nightly!Folders \cup {Nightly!NoFolder} : f[1] \in 0 .. Nights
  BY NightBounds DEF Nightly!Folders, Nightly!NoFolder

LogRows == [run : Nightly!Results, at : 0 .. Nights, folder : Nightly!Folders \cup {Nightly!NoFolder},
            copy : Nightly!Results, copied : Nightly!Folders \cup {Nightly!NoFolder}]
RunRows == [step : {"idle", "writing", "written", "cleaned", "logged", "copying", "copied"}, day : 0 .. Nights,
            folder : Nightly!Folders \cup {Nightly!NoFolder}]

LEMMA NightlyStart == Nightly!Init => NightlyInv
  <1> SUFFICES ASSUME Nightly!Init PROVE NightlyInv
    OBVIOUS
  <1>1. job = Nightly!Idle /\ job.step = "idle" /\ job \in RunRows
    BY NightBounds DEF Nightly!Init, Nightly!Idle, RunRows
  <1>2. log \in LogRows /\ log.folder = Nightly!NoFolder /\ log.copied = Nightly!NoFolder /\ log.at = 0
    BY NightBounds DEF Nightly!Init, LogRows, Nightly!Results
  <1>3. Nightly!TypeOK
    BY <1>1, <1>2, NightBounds DEF Nightly!Init, Nightly!TypeOK, LogRows, RunRows
  <1>4. Nightly!NoFolder[1] = 0 /\ now = 1
    BY FoldersAre DEF Nightly!Init
  <1> QED
    BY <1>1, <1>2, <1>3, <1>4 DEF NightlyInv, UnderWay, Logged, Nightly!LastStays

LEMMA NightlyStep == NightlyInv /\ (Nightly!Next \/ UNCHANGED Nightly!vars) => NightlyInv'
  <1> SUFFICES ASSUME NightlyInv, Nightly!Next \/ UNCHANGED Nightly!vars
               PROVE  NightlyInv'
    OBVIOUS
  <1>0. /\ now \in 1 .. Nights /\ dest \subseteq Nightly!Folders /\ partial \subseteq Nightly!Folders /\ mirror \subseteq Nightly!Folders
        /\ dest \cap partial = {} /\ log \in LogRows /\ mirrored \in BOOLEAN /\ job \in RunRows
    BY DEF NightlyInv, Nightly!TypeOK, LogRows, RunRows
  <1>b. UnderWay /\ Logged /\ Nightly!LastStays
    BY DEF NightlyInv
  <1>i. Nightly!Idle \in RunRows /\ Nightly!Idle.step = "idle"
    BY NightBounds DEF Nightly!Idle, RunRows
  <1>t. ASSUME /\ now' \in 1 .. Nights /\ dest' \subseteq Nightly!Folders /\ partial' \subseteq Nightly!Folders /\ mirror' \subseteq Nightly!Folders,
               dest' \cap partial' = {}, log' \in LogRows, mirrored' \in BOOLEAN, job' \in RunRows
        PROVE  Nightly!TypeOK'
    BY <1>t DEF Nightly!TypeOK, LogRows, RunRows
  <1>n. now \in 0 .. Nights /\ log \in LogRows /\ job \in RunRows
    BY <1>0, NightBounds
  <1>1. CASE UNCHANGED Nightly!vars
    BY <1>0, <1>b, <1>1, <1>t DEF Nightly!vars, NightlyInv, UnderWay, Logged, Nightly!LastStays
  <1>2. CASE Nightly!Midnight
    <2>1. now' = now + 1 /\ now < Nights /\ UNCHANGED <<dest, partial, mirror, log, mirrored, job>> /\ (job = Nightly!Idle \/ job.folder[1] = now)
      BY <1>2 DEF Nightly!Midnight
    <2>2. UnderWay'
      BY <1>0, <1>b, <2>1 DEF UnderWay
    <2>3. Logged'
      <3>1. log.folder[1] \in 0 .. Nights /\ log.copied[1] \in 0 .. Nights
        BY <1>0, FoldersAre DEF LogRows
      <3> QED
        BY <1>0, <1>b, <2>1, <3>1 DEF Logged
    <2> QED
      BY <1>0, <1>b, <1>t, <2>1, <2>2, <2>3, NightBounds DEF NightlyInv, Nightly!LastStays
  <1>3. CASE Nightly!SetMirror
    <2>1. mirrored' = ~mirrored /\ UNCHANGED <<now, dest, partial, mirror, log, job>>
      BY <1>3 DEF Nightly!SetMirror
    <2>2. mirrored' \in BOOLEAN
      BY <2>1
    <2> QED
      BY <1>0, <1>b, <1>t, <2>1, <2>2 DEF NightlyInv, UnderWay, Logged, Nightly!LastStays
  <1>4. ASSUME NEW n \in 1 .. MaxFolder, Nightly!Begin(n)
        PROVE  NightlyInv'
    <2>1. /\ job = Nightly!Idle /\ <<now, n>> \notin dest \cup partial /\ partial' = partial \cup {<<now, n>>}
          /\ job' = [step |-> "writing", day |-> now, folder |-> <<now, n>>] /\ UNCHANGED <<now, dest, mirror, log, mirrored>>
      BY <1>4 DEF Nightly!Begin, Nightly!_new_folder
    <2>2. <<now, n>> \in Nightly!Folders /\ <<now, n>>[1] = now
      BY <1>0 DEF Nightly!Folders
    <2>3. job' \in RunRows /\ job'.step = "writing" /\ job'.folder = <<now, n>>
      BY <1>0, <2>1, <2>2 DEF RunRows
    <2>4. Nightly!TypeOK'
      BY <1>0, <1>t, <2>1, <2>2, <2>3
    <2>5. UnderWay'
      BY <1>0, <1>b, <2>1, <2>2, <2>3 DEF UnderWay, Logged
    <2> QED
      BY <1>b, <2>1, <2>4, <2>5 DEF NightlyInv, Logged, Nightly!LastStays
  <1>5. CASE Nightly!Rename
    <2>1. /\ job.step = "writing" /\ dest' = dest \cup {job.folder} /\ partial' = partial \ {job.folder}
          /\ job' = [job EXCEPT !.step = "written"] /\ UNCHANGED <<now, mirror, log, mirrored>>
      BY <1>5 DEF Nightly!Rename
    <2>2. job # Nightly!Idle /\ job.folder \in partial
      BY <1>b, <1>i, <2>1 DEF UnderWay
    <2>3. job' \in RunRows /\ job'.step = "written" /\ job'.folder = job.folder
      BY <1>0, <2>1 DEF RunRows
    <2>4. Nightly!TypeOK'
      BY <1>0, <1>t, <2>1, <2>2, <2>3
    <2>5. UnderWay'
      BY <1>0, <1>b, <2>1, <2>2, <2>3 DEF UnderWay
    <2> QED
      BY <1>b, <2>1, <2>4, <2>5 DEF NightlyInv, Logged, Nightly!LastStays
  <1>6. CASE Nightly!WriteFails
    <2>1. /\ partial' = partial \ {job.folder} /\ log' = [log EXCEPT !.run = "FAILED"] /\ job' = Nightly!Idle
          /\ UNCHANGED <<now, dest, mirror, mirrored>>
      BY <1>6 DEF Nightly!WriteFails
    <2>2. log' \in LogRows /\ log'.folder = log.folder /\ log'.copied = log.copied /\ log'.at = log.at
      BY <1>0, <2>1 DEF LogRows, Nightly!Results
    <2>3. Nightly!TypeOK'
      BY <1>0, <1>i, <1>t, <2>1, <2>2
    <2> QED
      BY <1>b, <1>i, <2>1, <2>2, <2>3 DEF NightlyInv, UnderWay, Logged, Nightly!LastStays
  <1>7. CASE Nightly!RemoveOld
    <2>1. /\ job.step = "written" /\ dest' = {f \in dest : f = job.folder \/ f[1] + NightsKept >= job.day}
          /\ job' = [job EXCEPT !.step = "cleaned"] /\ UNCHANGED <<now, partial, mirror, log, mirrored>>
      BY <1>7 DEF Nightly!RemoveOld, Nightly!_remove_old
    <2>2. job # Nightly!Idle /\ job.folder \in dest /\ job.folder \in dest' /\ log.folder[1] =< job.folder[1]
      BY <1>b, <1>i, <2>1 DEF UnderWay
    <2>3. job' \in RunRows /\ job'.step = "cleaned" /\ job'.folder = job.folder
      BY <1>0, <2>1 DEF RunRows
    <2>4. Nightly!TypeOK'
      BY <1>0, <1>t, <2>1, <2>3
    <2>5. UnderWay'
      BY <1>0, <1>b, <2>1, <2>2, <2>3 DEF UnderWay
    <2> QED
      BY <1>b, <2>1, <2>2, <2>4, <2>5 DEF NightlyInv, Logged, Nightly!LastStays
  <1>8. CASE Nightly!Done
    <2>1. /\ job.step = "cleaned" /\ log' = [log EXCEPT !.run = "OK", !.at = now, !.folder = job.folder]
          /\ job' = IF mirrored THEN [job EXCEPT !.step = "logged"] ELSE Nightly!Idle
          /\ UNCHANGED <<now, dest, partial, mirror, mirrored>>
      BY <1>8 DEF Nightly!Done
    <2>2. /\ job # Nightly!Idle /\ job.folder \in dest /\ job.folder \in Nightly!Folders /\ job.folder[1] \in 1 .. Nights
          /\ now \in {job.folder[1], job.folder[1] + 1} /\ log.copied[1] =< job.folder[1]
      BY <1>b, <1>i, <2>1, FoldersAre DEF UnderWay
    <2>3. log' \in LogRows /\ log'.folder = job.folder /\ log'.copied = log.copied /\ log'.at = now
      <3>1. [log EXCEPT !.run = "OK", !.at = now] \in LogRows
        BY <1>n DEF LogRows, Nightly!Results
      <3>2. log' \in LogRows
        BY <2>1, <2>2, <3>1 DEF LogRows
      <3> QED
        BY <1>n, <2>1, <3>2 DEF LogRows
    <2>4. job' = Nightly!Idle \/ (job'.step = "logged" /\ job'.folder = job.folder)
      BY <1>0, <1>i, <2>1 DEF RunRows
    <2>5. job' \in RunRows
      BY <1>0, <1>i, <2>1 DEF RunRows
    <2>6. Nightly!TypeOK'
      BY <1>0, <1>t, <2>1, <2>3, <2>5
    <2>7. UnderWay'
      BY <1>0, <1>i, <2>1, <2>2, <2>3, <2>4 DEF UnderWay
    <2>8. Logged'
      BY <1>0, <1>b, <2>1, <2>2, <2>3 DEF Logged
    <2> QED
      BY <1>b, <2>1, <2>2, <2>3, <2>6, <2>7, <2>8 DEF NightlyInv, Nightly!LastStays
  <1>9. CASE Nightly!CopyBegins
    <2>1. job.step = "logged" /\ job' = [job EXCEPT !.step = "copying", !.day = now] /\ UNCHANGED <<now, dest, partial, mirror, log, mirrored>>
      BY <1>9 DEF Nightly!CopyBegins
    <2>2. job # Nightly!Idle
      BY <1>i, <2>1
    <2>3. job' \in RunRows /\ job'.step = "copying" /\ job'.folder = job.folder
      BY <1>n, <2>1 DEF RunRows
    <2> QED
      BY <1>0, <1>b, <1>t, <2>1, <2>2, <2>3 DEF NightlyInv, UnderWay, Logged, Nightly!LastStays
  <1>10. CASE Nightly!Copy
    <2>1. /\ job.step = "copying" /\ mirror' = {f \in mirror \cup {job.folder} : f = job.folder \/ f[1] + NightsKept >= job.day}
          /\ job' = [job EXCEPT !.step = "copied"] /\ UNCHANGED <<now, dest, partial, log, mirrored>>
      BY <1>10 DEF Nightly!Copy, Nightly!_remove_old
    <2>2. job # Nightly!Idle /\ job.folder \in Nightly!Folders /\ job.folder \in mirror' /\ log.copied[1] =< job.folder[1]
      BY <1>b, <1>i, <2>1 DEF UnderWay
    <2>3. job' \in RunRows /\ job'.step = "copied" /\ job'.folder = job.folder
      BY <1>0, <2>1 DEF RunRows
    <2>4. Nightly!TypeOK'
      BY <1>0, <1>t, <2>1, <2>2, <2>3
    <2>5. UnderWay'
      BY <1>0, <1>b, <2>1, <2>2, <2>3 DEF UnderWay
    <2> QED
      BY <1>b, <2>1, <2>2, <2>4, <2>5 DEF NightlyInv, Logged, Nightly!LastStays
  <1>11. CASE Nightly!CopyLogged
    <2>1. /\ job.step = "copied" /\ log' = [log EXCEPT !.copy = "OK", !.copied = job.folder] /\ job' = Nightly!Idle
          /\ UNCHANGED <<now, dest, partial, mirror, mirrored>>
      BY <1>11 DEF Nightly!CopyLogged
    <2>2. /\ job # Nightly!Idle /\ job.folder \in mirror /\ job.folder \in Nightly!Folders /\ job.folder[1] \in 1 .. Nights
          /\ now \in {job.folder[1], job.folder[1] + 1}
      BY <1>b, <1>i, <2>1, FoldersAre DEF UnderWay
    <2>3. log' \in LogRows /\ log'.folder = log.folder /\ log'.copied = job.folder /\ log'.at = log.at
      BY <1>0, <2>1, <2>2 DEF LogRows, Nightly!Results
    <2>4. Nightly!TypeOK'
      BY <1>0, <1>i, <1>t, <2>1, <2>3
    <2> QED
      BY <1>b, <1>i, <2>1, <2>2, <2>3, <2>4 DEF NightlyInv, UnderWay, Logged, Nightly!LastStays
  <1>r. ASSUME NEW folders \in SUBSET Nightly!Folders, job.folder \in folders, NEW left \in Nightly!RemovedTillNow(folders)
        PROVE  left \subseteq Nightly!Folders /\ left \subseteq folders /\ job.folder \in left
    BY <1>r DEF Nightly!RemovedTillNow, Nightly!_remove_old
  <1>m. ASSUME job.step = "copying", mirror' \in {mirror} \cup Nightly!RemovedTillNow(mirror \cup {job.folder}), log' = log
               \/ (log' \in LogRows /\ log'.folder = log.folder /\ log'.copied = log.copied /\ log'.at = log.at)
        PROVE  /\ mirror' \subseteq Nightly!Folders
               /\ log.copied # Nightly!NoFolder => \E f \in mirror' : f[1] >= log.copied[1]
    <2>1. job.folder \in Nightly!Folders /\ log.copied[1] =< job.folder[1]
      BY <1>b, <1>i, <1>m DEF UnderWay
    <2>2. CASE mirror' = mirror
      BY <1>0, <1>b, <2>2 DEF Nightly!LastStays
    <2>3. CASE mirror' \in Nightly!RemovedTillNow(mirror \cup {job.folder})
      BY <1>0, <1>r, <2>1, <2>3
    <2> QED
      BY <1>m, <2>2, <2>3
  <1>12. CASE Nightly!CopyFails
    <2>1. /\ job.step = "copying" /\ mirror' \in {mirror} \cup Nightly!RemovedTillNow(mirror \cup {job.folder})
          /\ log' = [log EXCEPT !.copy = "FAILED"] /\ job' = Nightly!Idle /\ UNCHANGED <<now, dest, partial, mirrored>>
      BY <1>12 DEF Nightly!CopyFails
    <2>2. log' \in LogRows /\ log'.folder = log.folder /\ log'.copied = log.copied /\ log'.at = log.at
      BY <1>0, <2>1 DEF LogRows, Nightly!Results
    <2>3. mirror' \subseteq Nightly!Folders /\ (log.copied # Nightly!NoFolder => \E f \in mirror' : f[1] >= log.copied[1])
      BY <1>m, <2>1, <2>2
    <2>4. Nightly!TypeOK'
      BY <1>0, <1>i, <1>t, <2>1, <2>2, <2>3
    <2> QED
      BY <1>b, <1>i, <2>1, <2>2, <2>3, <2>4 DEF NightlyInv, UnderWay, Logged, Nightly!LastStays
  <1>13. CASE Nightly!Stop
    <2>1. /\ job # Nightly!Idle /\ job' = Nightly!Idle /\ UNCHANGED <<now, partial, log, mirrored>>
          /\ IF job.step = "written" THEN dest' \in Nightly!RemovedTillNow(dest) ELSE dest' = dest
          /\ IF job.step = "copying" THEN mirror' \in {mirror} \cup Nightly!RemovedTillNow(mirror \cup {job.folder})
             ELSE mirror' = mirror
      BY <1>13 DEF Nightly!Stop
    <2>2. mirror' \subseteq Nightly!Folders /\ (log.copied # Nightly!NoFolder => \E f \in mirror' : f[1] >= log.copied[1])
      BY <1>0, <1>b, <1>m, <2>1 DEF Nightly!LastStays
    <2>3. dest' \subseteq dest /\ (log.folder # Nightly!NoFolder => \E f \in dest' : f[1] >= log.folder[1])
      <3>1. CASE job.step = "written"
        <4>1. job.folder \in dest /\ log.folder[1] =< job.folder[1]
          BY <1>b, <2>1, <3>1 DEF UnderWay
        <4>2. dest' \subseteq dest /\ job.folder \in dest'
          BY <1>0, <1>r, <2>1, <3>1, <4>1
        <4> QED
          BY <1>0, <4>1, <4>2
      <3>2. CASE job.step # "written"
        BY <1>b, <2>1, <3>2 DEF Nightly!LastStays
      <3> QED
        BY <3>1, <3>2
    <2>4. Nightly!TypeOK'
      BY <1>0, <1>i, <1>t, <2>1, <2>2, <2>3
    <2> QED
      BY <1>b, <1>i, <2>1, <2>2, <2>3, <2>4 DEF NightlyInv, UnderWay, Logged, Nightly!LastStays
  <1> QED
    BY <1>1, <1>2, <1>3, <1>4, <1>5, <1>6, <1>7, <1>8, <1>9, <1>10, <1>11, <1>12, <1>13 DEF Nightly!Next

LEMMA HealthyIsRecent == NightlyInv => Nightly!BackupsLast
  <1> SUFFICES ASSUME NightlyInv, Nightly!backup_health
               PROVE  \E f \in dest : f[1] + MaxAge + 1 >= now
    BY DEF NightlyInv, Nightly!BackupsLast, Nightly!HealthMeansBackup
  <1>1. log.at # 0 /\ now =< log.at + MaxAge
    BY DEF Nightly!backup_health
  <1>2. log.folder \in Nightly!Folders /\ log.at =< log.folder[1] + 1
    BY <1>1 DEF NightlyInv, Logged
  <1>3. log.folder # Nightly!NoFolder /\ log.folder[1] \in Nat
    BY <1>2, FoldersAre
  <1>4. PICK f \in dest : f[1] >= log.folder[1]
    BY <1>3 DEF NightlyInv, Nightly!LastStays
  <1>5. f[1] \in Nat /\ now \in Nat /\ log.at \in Nat /\ MaxAge \in Nat
    BY FoldersAre, NightBounds DEF NightlyInv, Nightly!TypeOK
  <1> QED
    BY <1>1, <1>2, <1>3, <1>4, <1>5

(* The newest backup outlives the runs after it, whichever fails or stops  *)
(* where, and the health reported rests on one that is there               *)
(* (scripts/backup.py run_backup, backups.py backup_health).               *)
THEOREM BackupsOutlast == Nightly!Spec => []Nightly!BackupsLast
  <1>1. NightlyInv /\ [Nightly!Next]_Nightly!vars => NightlyInv'
    BY NightlyStep
  <1> QED
    BY <1>1, NightlyStart, HealthyIsRecent, PTL DEF Nightly!Spec

-----------------------------------------------------------------------------
(***************************************************************************)
(* The list of a day.  What a request computed from the list as it still   *)
(* is gives the entries places of their own, in the order they are in when *)
(* one is added (Placed); what was overtaken is not claimed to.            *)
(***************************************************************************)
Moves == UNION {[S -> T!Positions] : S \in SUBSET T!Ids}
DayRow == [id : T!Ids, doc : DayDocs, position : T!Positions]
DayJob == {req \in [op : {"idle", "add", "reorder"}, doc : DayDocs \cup {T!NoDoc}, at : T!Positions,
                    to : Moves, fresh : BOOLEAN] : req.op = "add" => req.doc \in DayDocs}

DayRows == /\ entries \in SUBSET DayRow /\ lastId \in 0 .. MaxId
           /\ \A e \in entries : e.id =< lastId
           /\ \A e, f \in entries : e.id = f.id => e = f

(* Where entry e is after a commit, and what a request gives the entries.  *)
NewPlace(req, e) == IF e.id \in DOMAIN req.to THEN req.to[e.id] ELSE e.position
Placed(req) ==
    /\ \A e, f \in entries : NewPlace(req, e) = NewPlace(req, f) => e = f
    /\ req.op = "add" => /\ \A e \in entries : NewPlace(req, e) # req.at
                         /\ \A e, f \in entries : T!Before(e, f) => NewPlace(req, e) < NewPlace(req, f)

TodaysInv ==
    /\ DayRows /\ gone \in SUBSET DayDocs /\ overtaken \in BOOLEAN
    /\ jobs \in [Slots -> DayJob]
    /\ T!SetOnce /\ T!NoTies
    /\ \A r \in Slots : jobs[r].op # "idle" /\ jobs[r].fresh => Placed(jobs[r])

LEMMA DayBound == MaxId \in Nat \ {0}
  BY Instances DEF T!MaxIdAssumption

LEMMA DayTyped == TodaysInv => T!TypeOK
  <1> SUFFICES ASSUME TodaysInv PROVE T!TypeOK
    OBVIOUS
  <1>1. ASSUME NEW r \in Slots
        PROVE  /\ jobs[r].op \in {"idle", "add", "reorder"}
               /\ DOMAIN jobs[r].to \in SUBSET T!Ids /\ jobs[r].at \in T!Positions
    <2>1. jobs[r] \in DayJob
      BY DEF TodaysInv
    <2>2. jobs[r].to \in Moves
      BY <2>1 DEF DayJob
    <2> QED
      BY <2>1, <2>2 DEF DayJob, Moves
  <1> QED
    BY <1>1 DEF TodaysInv, DayRows, DayRow, T!TypeOK

LEMMA IdleDay == T!Idle \in DayJob /\ T!Idle.op = "idle"
  <1>1. << >> \in [{} -> T!Positions]
    OBVIOUS
  <1>2. << >> \in Moves
    BY <1>1 DEF Moves
  <1> QED
    BY <1>2, DayBound DEF DayJob, T!Idle, T!Positions

LEMMA TodaysStart == T!Init => TodaysInv
  <1> SUFFICES ASSUME T!Init PROVE TodaysInv
    OBVIOUS
  <1>1. entries = {} /\ gone = {} /\ lastId = 0 /\ overtaken = FALSE /\ MaxId \in Nat
    BY DayBound DEF T!Init
  <1>2. jobs \in [Slots -> DayJob] /\ \A r \in Slots : jobs[r].op = "idle"
    BY IdleDay DEF T!Init
  <1>3. DayRows /\ T!SetOnce /\ T!NoTies
    BY <1>1 DEF DayRows, T!SetOnce, T!NoTies
  <1> QED
    BY <1>1, <1>2, <1>3 DEF TodaysInv

(* No more entries than ids were given. *)
LEMMA EntriesFit ==
    ASSUME DayRows
    PROVE  IsFiniteSet(entries) /\ Cardinality(entries) \in Nat /\ Cardinality(entries) =< lastId /\ Cardinality(entries) =< MaxId
  <1> DEFINE id == [e \in entries |-> e.id]
  <1>1. lastId \in Nat /\ MaxId \in Nat /\ lastId =< MaxId
    BY DayBound DEF DayRows
  <1>2. \A e \in entries : e.id \in 1 .. lastId
    BY <1>1 DEF DayRows, DayRow, T!Ids
  <1>3. id \in Injection(entries, 1 .. lastId)
    BY <1>2 DEF DayRows, Injection, IsInjective
  <1>4. IsFiniteSet(1 .. lastId) /\ Cardinality(1 .. lastId) = lastId
    BY <1>1, FS_Interval
  <1>5. IsFiniteSet(entries) /\ Cardinality(entries) =< lastId
    BY <1>3, <1>4, FS_Injection
  <1> QED
    BY <1>1, <1>5, FS_CardinalityType

LEMMA DayCardinality == \A S : T!Cardinality(S) = Cardinality(S)
  BY DEF T!Cardinality, Cardinality

(* Entries come one before the other. *)
LEMMA InOrder ==
    ASSUME DayRows
    PROVE  /\ \A e, f \in entries : e # f => (T!Before(e, f) \/ T!Before(f, e))
           /\ \A e, f \in entries : ~(T!Before(e, f) /\ T!Before(f, e))
           /\ \A e, f, g \in entries : T!Before(e, f) /\ T!Before(f, g) => T!Before(e, g)
  <1>1. \A e \in entries : e.id \in Nat /\ e.position \in Nat
    BY DEF DayRows, DayRow, T!Ids, T!Positions
  <1> QED
    BY <1>1 DEF DayRows, T!Before

LEMMA IndexRises ==
    ASSUME DayRows
    PROVE  /\ \A e \in entries : T!Index(e) \in Nat /\ T!Index(e) < Cardinality(entries)
           /\ \A e, f \in entries : T!Before(e, f) => T!Index(e) < T!Index(f)
  <1> DEFINE Front(e) == {f \in entries : T!Before(f, e)}
  <1>1. \A e : T!Index(e) = Cardinality(Front(e))
    BY DayCardinality DEF T!Index
  <1>2. IsFiniteSet(entries) /\ Cardinality(entries) \in Nat
    BY EntriesFit
  <1>3. ASSUME NEW e \in entries
        PROVE  IsFiniteSet(Front(e)) /\ Cardinality(Front(e)) \in Nat /\ Cardinality(Front(e)) < Cardinality(entries)
    <2>1. Front(e) \in SUBSET entries /\ e \notin Front(e)
      BY InOrder
    <2>2. Front(e) # entries
      BY <2>1
    <2> HIDE DEF Front
    <2>3. /\ IsFiniteSet(Front(e)) /\ Cardinality(Front(e)) =< Cardinality(entries)
          /\ Cardinality(entries) = Cardinality(Front(e)) => entries = Front(e)
      BY <1>2, <2>1, FS_Subset
    <2> QED
      BY <1>2, <2>2, <2>3, FS_CardinalityType
  <1>4. ASSUME NEW e \in entries, NEW f \in entries, T!Before(e, f)
        PROVE  Cardinality(Front(e)) < Cardinality(Front(f))
    <2>1. Front(e) \in SUBSET Front(f) /\ e \in Front(f) /\ e \notin Front(e)
      BY <1>4, InOrder
    <2>2. Front(e) # Front(f)
      BY <2>1
    <2>3. IsFiniteSet(Front(f)) /\ Cardinality(Front(f)) \in Nat /\ Cardinality(Front(e)) \in Nat
      BY <1>3
    <2> HIDE DEF Front
    <2>4. /\ Cardinality(Front(e)) =< Cardinality(Front(f))
          /\ Cardinality(Front(f)) = Cardinality(Front(e)) => Front(f) = Front(e)
      BY <2>1, <2>3, FS_Subset
    <2> QED
      BY <2>2, <2>3, <2>4
  <1> HIDE DEF Front
  <1> QED
    BY <1>1, <1>3, <1>4

(* Requests that load the list, and what a request is after another ended. *)
LEMMA DayLoaded ==
    ASSUME TodaysInv, NEW r \in Slots, NEW req \in DayJob, jobs' = [jobs EXCEPT ![r] = req],
           UNCHANGED <<entries, gone, lastId, overtaken>>, Placed(req)
    PROVE  TodaysInv'
  <1>1. jobs' \in [Slots -> DayJob] /\ jobs'[r] = req /\ \A q \in Slots \ {r} : jobs'[q] = jobs[q]
    BY DEF TodaysInv
  <1>2. \A q \in Slots : jobs'[q].op # "idle" /\ jobs'[q].fresh => Placed(jobs'[q])
    BY <1>1 DEF TodaysInv
  <1>3. (\A q \in Slots : jobs[q].op # "idle" /\ jobs[q].fresh => Placed(jobs[q]))'
    BY <1>2 DEF Placed, NewPlace, T!Before
  <1> QED
    BY <1>1, <1>3 DEF TodaysInv, DayRows, T!SetOnce, T!NoTies

LEMMA Overtook ==
    ASSUME TodaysInv, NEW S \in SUBSET Slots,
           jobs' = [q \in Slots |-> IF q \in S \/ jobs[q].op = "idle" THEN T!Idle ELSE [jobs[q] EXCEPT !.fresh = FALSE]]
    PROVE  jobs' \in [Slots -> DayJob] /\ \A q \in Slots : jobs'[q].op # "idle" => jobs'[q].fresh = FALSE
  <1>1. \A q \in Slots : [jobs[q] EXCEPT !.fresh = FALSE] \in DayJob /\ [jobs[q] EXCEPT !.fresh = FALSE].fresh = FALSE
    BY DEF TodaysInv, DayJob
  <1> QED
    BY <1>1, IdleDay

(* The entry of an id is the one that has it. *)
LEMMA EntryOf ==
    ASSUME DayRows, NEW e \in entries
    PROVE  T!Entry(e.id) = e
  BY DEF DayRows, T!Entry

(* A req that writes the places which differ gives everyone its new one. *)
LEMMA ToNewPlaces ==
    ASSUME DayRows, NEW new, \A e \in entries : new[e] \in T!Positions,
           NEW req, req.to = [i \in T!IdsOf({e \in entries : new[e] # e.position}) |-> new[T!Entry(i)]]
    PROVE  req.to \in Moves /\ \A e \in entries : NewPlace(req, e) = new[e]
  <1> DEFINE changed == {e \in entries : new[e] # e.position}
  <1>1. DOMAIN req.to = {e.id : e \in changed}
    BY DEF T!IdsOf
  <1>2. \A e \in changed : req.to[e.id] = new[e]
    BY <1>1, EntryOf DEF T!IdsOf
  <1>3. \A e, f \in entries : e.id = f.id => e = f
    BY DEF DayRows
  <1>4. \A e \in entries : NewPlace(req, e) = new[e]
    BY <1>1, <1>2, <1>3 DEF NewPlace
  <1>5. {e.id : e \in changed} \in SUBSET T!Ids
    BY DEF DayRows, DayRow
  <1>6. req.to \in [{e.id : e \in changed} -> T!Positions]
    BY <1>1, <1>2 DEF T!IdsOf
  <1> QED
    BY <1>4, <1>5, <1>6 DEF Moves

LEMMA AddLoads ==
    ASSUME TodaysInv, NEW r \in Slots, NEW d \in DayDocs, NEW p \in T!Positions, T!AddLoad(r, d, p)
    PROVE  TodaysInv'
  <1> DEFINE at == IF p > T!Cardinality(entries) THEN T!Cardinality(entries) ELSE p
             new == [e \in entries |-> IF T!Index(e) >= at THEN T!Index(e) + 1 ELSE T!Index(e)]
             changed == {e \in entries : new[e] # e.position}
             to == [i \in T!IdsOf(changed) |-> new[T!Entry(i)]]
             req == [T!Idle EXCEPT !.op = "add", !.doc = d, !.at = at, !.to = to]
  <1>1. DayRows /\ MaxId \in Nat
    BY DayBound DEF TodaysInv
  <1>2. /\ Cardinality(entries) \in Nat /\ Cardinality(entries) =< MaxId
        /\ \A e \in entries : T!Index(e) \in Nat /\ T!Index(e) < Cardinality(entries)
        /\ \A e, f \in entries : T!Before(e, f) => T!Index(e) < T!Index(f)
        /\ \A e, f \in entries : e # f => (T!Before(e, f) \/ T!Before(f, e))
    BY <1>1, EntriesFit, IndexRises, InOrder
  <1>3. at \in T!Positions /\ at \in Nat
    BY <1>1, <1>2, DayCardinality DEF T!Positions
  <1>4. \A e \in entries : new[e] \in T!Positions /\ new[e] \in Nat
    BY <1>1, <1>2, <1>3 DEF T!Positions
  <1>5. \A e \in entries : new[e] # at
    BY <1>2, <1>3
  <1>6. \A e, f \in entries : T!Before(e, f) => new[e] < new[f]
    BY <1>2, <1>3
  <1>7. \A e, f \in entries : new[e] = new[f] => e = f
    BY <1>2, <1>4, <1>6
  <1>8. jobs' = [jobs EXCEPT ![r] = req] /\ UNCHANGED <<entries, gone, lastId, overtaken>>
    <2>1. \A i \in T!IdsOf(changed) : T!Entry(i) \in entries
      BY <1>1, EntryOf DEF T!IdsOf
    <2> QED
      BY <2>1 DEF T!AddLoad
  <1>9. req.to = to /\ req.op = "add" /\ req.at = at
    BY DEF T!Idle
  <1> HIDE DEF new, at
  <1>10. req.to \in Moves /\ \A e \in entries : NewPlace(req, e) = new[e]
    BY <1>1, <1>4, <1>9, ToNewPlaces
  <1>11. req \in DayJob
    BY <1>3, <1>9, <1>10, IdleDay DEF DayJob
  <1> HIDE DEF req, to, changed
  <1>12. Placed(req)
    BY <1>5, <1>6, <1>7, <1>9, <1>10 DEF Placed
  <1> QED
    BY <1>8, <1>11, <1>12, DayLoaded

LEMMA ReorderLoads ==
    ASSUME TodaysInv, NEW r \in Slots, NEW order \in T!Orders, T!ReorderLoad(r, order)
    PROVE  TodaysInv'
  <1> DEFINE index(i) == (CHOOSE k \in DOMAIN order : order[k] = i) - 1
             new == [e \in entries |-> index(e.id)]
             changed == {e \in entries : new[e] # e.position}
             to == [i \in T!IdsOf(changed) |-> index(i)]
             req == [T!Idle EXCEPT !.op = "reorder", !.to = to]
  <1>1. DayRows /\ MaxId \in Nat
    BY DayBound DEF TodaysInv
  <1>2. Cardinality(entries) \in Nat /\ Cardinality(entries) =< MaxId
    BY <1>1, EntriesFit
  <1>3. /\ DOMAIN order = 1 .. Cardinality(entries)
        /\ \A i \in T!IdsOf(entries) : \E k \in DOMAIN order : order[k] = i
    BY DayCardinality DEF T!Orders
  <1>4. \A i \in T!IdsOf(entries) : index(i) \in T!Positions /\ index(i) + 1 \in DOMAIN order /\ order[index(i) + 1] = i
    <2> SUFFICES ASSUME NEW i \in T!IdsOf(entries)
                 PROVE  index(i) \in T!Positions /\ index(i) + 1 \in DOMAIN order /\ order[index(i) + 1] = i
      OBVIOUS
    <2> DEFINE k == CHOOSE k \in DOMAIN order : order[k] = i
    <2>1. k \in DOMAIN order /\ order[k] = i
      BY <1>3
    <2>2. index(i) = k - 1
      OBVIOUS
    <2> HIDE DEF k, index
    <2> QED
      BY <1>1, <1>2, <1>3, <2>1, <2>2 DEF T!Positions
  <1>5. \A e \in entries : e.id \in T!IdsOf(entries)
    BY DEF T!IdsOf
  <1> HIDE DEF index
  <1>6. \A e \in entries : new[e] \in T!Positions
    BY <1>4, <1>5
  <1>7. \A e, f \in entries : new[e] = new[f] => e = f
    BY <1>1, <1>4, <1>5 DEF DayRows
  <1>8. jobs' = [jobs EXCEPT ![r] = req] /\ UNCHANGED <<entries, gone, lastId, overtaken>>
    BY DEF T!ReorderLoad, index
  <1>9. req.to = to /\ req.op = "reorder"
    BY DEF T!Idle
  <1>10. to = [i \in T!IdsOf(changed) |-> new[T!Entry(i)]]
    BY <1>1, EntryOf DEF T!IdsOf
  <1> HIDE DEF new, to
  <1>11. req.to \in Moves /\ \A e \in entries : NewPlace(req, e) = new[e]
    BY <1>1, <1>6, <1>9, <1>10, ToNewPlaces
  <1>12. req \in DayJob
    BY <1>9, <1>11, IdleDay DEF DayJob
  <1> HIDE DEF req, changed
  <1>13. Placed(req)
    BY <1>7, <1>9, <1>11 DEF Placed
  <1> QED
    BY <1>8, <1>12, <1>13, DayLoaded

(* The entries after a commit: each at its new place, and perhaps one more.*)
After(req, e) == IF e.id \in DOMAIN req.to THEN [e EXCEPT !.position = req.to[e.id]] ELSE e

LEMMA AfterIs ==
    ASSUME DayRows, NEW req \in DayJob
    PROVE  /\ T!Moved(req.to) = {After(req, e) : e \in entries}
           /\ \A e \in entries : /\ After(req, e) \in DayRow
                                  /\ After(req, e).id = e.id /\ After(req, e).doc = e.doc
                                  /\ After(req, e).position = NewPlace(req, e)
  <1>1. T!Moved(req.to) = {After(req, e) : e \in entries}
    BY DEF T!Moved, After
  <1>2. ASSUME NEW e \in entries
        PROVE  /\ After(req, e) \in DayRow
               /\ After(req, e).id = e.id /\ After(req, e).doc = e.doc
               /\ After(req, e).position = NewPlace(req, e)
    <2>1. e \in DayRow
      BY DEF DayRows
    <2>2. \A i \in DOMAIN req.to : req.to[i] \in T!Positions
      <3>1. req.to \in Moves
        BY DEF DayJob
      <3> QED
        BY <3>1 DEF Moves
    <2>3. CASE e.id \in DOMAIN req.to
      BY <2>1, <2>2, <2>3 DEF After, NewPlace, DayRow
    <2>4. CASE e.id \notin DOMAIN req.to
      BY <2>1, <2>4 DEF After, NewPlace, DayRow
    <2> QED
      BY <2>3, <2>4
  <1> QED
    BY <1>1, <1>2

LEMMA AddCommits ==
    ASSUME TodaysInv, NEW r \in Slots, T!AddCommit(r)
    PROVE  TodaysInv' /\ T!OrderStep
  <1> DEFINE req == jobs[r]
             row == [id |-> lastId + 1, doc |-> req.doc, position |-> req.at]
  <1>1. /\ req.op = "add" /\ ~T!Set(entries, req.doc) /\ req.doc \notin gone
        /\ lastId < MaxId /\ lastId' = lastId + 1
        /\ entries' = T!Moved(req.to) \cup {row} /\ gone' = gone /\ T!Commit(r)
    BY DEF T!AddCommit
  <1>2. DayRows /\ req \in DayJob /\ MaxId \in Nat /\ lastId \in Nat
    BY DayBound DEF TodaysInv, DayRows
  <1>3. /\ jobs' \in [Slots -> DayJob] /\ \A q \in Slots : jobs'[q].op # "idle" => jobs'[q].fresh = FALSE
        /\ overtaken' = (overtaken \/ ~req.fresh)
    <2>1. jobs' = [q \in Slots |-> IF q \in {r} \/ jobs[q].op = "idle" THEN T!Idle ELSE [jobs[q] EXCEPT !.fresh = FALSE]]
      BY <1>1 DEF T!Commit
    <2>2. overtaken' = (overtaken \/ ~req.fresh)
      BY <1>1 DEF T!Commit
    <2> QED
      BY <2>1, <2>2, Overtook
  <1>4. /\ \A e \in entries : /\ After(req, e) \in DayRow /\ After(req, e).id = e.id /\ After(req, e).doc = e.doc
                               /\ After(req, e).position = NewPlace(req, e)
        /\ entries' = {After(req, e) : e \in entries} \cup {row}
    BY <1>1, <1>2, AfterIs
  <1>5. row \in DayRow /\ row.id = lastId + 1 /\ row.doc = req.doc /\ row.position = req.at
    <2>1. req.at \in T!Positions /\ req.doc \in DayDocs
      BY <1>1, <1>2 DEF DayJob
    <2> QED
      BY <1>1, <1>2, <2>1 DEF DayRow, T!Ids
  <1>6. \A e \in entries : e.doc # row.doc /\ e.id # row.id
    BY <1>1, <1>2, <1>5 DEF T!Set, DayRows, DayRow, T!Ids
  <1> HIDE DEF row, req
  <1>7. DayRows'
    BY <1>1, <1>2, <1>4, <1>5, <1>6 DEF DayRows, DayRow, T!Ids
  <1>8. T!SetOnce'
    BY <1>2, <1>4, <1>5, <1>6 DEF TodaysInv, T!SetOnce, DayRows
  <1>9. ~overtaken' => Placed(req)
    BY <1>1, <1>2, <1>3 DEF TodaysInv, DayJob, req
  <1>10. T!NoTies'
    BY <1>1, <1>4, <1>5, <1>9 DEF Placed, T!NoTies
  <1>11. ASSUME ~overtaken', NEW c \in {e.doc : e \in entries}, NEW d \in {e.doc : e \in entries}
         PROVE  T!Ahead(entries, c, d) <=> T!Ahead(entries', c, d)
    <2>1. /\ \A e, f \in entries : e # f => (T!Before(e, f) \/ T!Before(f, e))
          /\ \A e, f \in entries : T!Before(e, f) => NewPlace(req, e) < NewPlace(req, f)
          /\ \A e \in entries : NewPlace(req, e) \in Nat /\ e.id \in Nat
      BY <1>1, <1>2, <1>4, <1>9, <1>11, InOrder DEF Placed, DayRows, DayRow, T!Ids, T!Positions
    <2>2. ASSUME NEW e \in entries, NEW f \in entries, e.doc = c, f.doc = d, T!Before(e, f)
          PROVE  T!Ahead(entries', c, d)
      <3>1. After(req, e) \in entries' /\ After(req, f) \in entries'
        BY <1>4
      <3>2. T!Before(After(req, e), After(req, f))
        BY <1>4, <2>1, <2>2 DEF T!Before
      <3> QED
        BY <1>4, <2>2, <3>1, <3>2 DEF T!Ahead
    <2>3. ASSUME NEW x \in entries', NEW y \in entries', x.doc = c, y.doc = d, T!Before(x, y)
          PROVE  T!Ahead(entries, c, d)
      <3>1. x # row /\ y # row
        BY <1>6, <1>11, <2>3
      <3>2. PICK e \in entries : x = After(req, e)
        BY <1>4, <3>1
      <3>3. PICK f \in entries : y = After(req, f)
        BY <1>4, <3>1
      <3>4. /\ e.doc = c /\ f.doc = d /\ x.id = e.id /\ y.id = f.id
            /\ x.position = NewPlace(req, e) /\ y.position = NewPlace(req, f)
        BY <1>4, <2>3, <3>2, <3>3
      <3>5. e # f /\ ~T!Before(f, e)
        BY <2>1, <2>3, <3>4 DEF T!Before
      <3> QED
        BY <2>1, <3>4, <3>5 DEF T!Ahead
    <2> QED
      BY <2>2, <2>3 DEF T!Ahead
  <1>12. T!OrderStep
    BY <1>11 DEF T!OrderStep
  <1> QED
    BY <1>1, <1>2, <1>3, <1>7, <1>8, <1>10, <1>12 DEF TodaysInv

LEMMA ReorderCommits ==
    ASSUME TodaysInv, NEW r \in Slots, T!ReorderCommit(r)
    PROVE  TodaysInv' /\ T!OrderStep
  <1> DEFINE req == jobs[r]
  <1>1. /\ req.op = "reorder" /\ entries' = T!Moved(req.to) /\ gone' = gone /\ lastId' = lastId /\ T!Commit(r)
    BY DEF T!ReorderCommit
  <1>2. DayRows /\ req \in DayJob
    BY DEF TodaysInv
  <1>3. /\ jobs' \in [Slots -> DayJob] /\ \A q \in Slots : jobs'[q].op # "idle" => jobs'[q].fresh = FALSE
        /\ overtaken' = (overtaken \/ ~req.fresh)
    <2>1. jobs' = [q \in Slots |-> IF q \in {r} \/ jobs[q].op = "idle" THEN T!Idle ELSE [jobs[q] EXCEPT !.fresh = FALSE]]
      BY <1>1 DEF T!Commit
    <2>2. overtaken' = (overtaken \/ ~req.fresh)
      BY <1>1 DEF T!Commit
    <2> QED
      BY <2>1, <2>2, Overtook
  <1>4. /\ \A e \in entries : /\ After(req, e) \in DayRow /\ After(req, e).id = e.id /\ After(req, e).doc = e.doc
                               /\ After(req, e).position = NewPlace(req, e)
        /\ entries' = {After(req, e) : e \in entries}
    BY <1>1, <1>2, AfterIs
  <1> HIDE DEF req
  <1>5. DayRows' /\ T!SetOnce'
    BY <1>1, <1>2, <1>4 DEF TodaysInv, DayRows, T!SetOnce
  <1>6. ~overtaken' => Placed(req)
    BY <1>1, <1>2, <1>3 DEF TodaysInv, DayJob, req
  <1>7. T!NoTies'
    BY <1>4, <1>6 DEF Placed, T!NoTies
  <1>8. T!IdsOf(entries') = T!IdsOf(entries)
    BY <1>4 DEF T!IdsOf
  <1> QED
    BY <1>1, <1>2, <1>3, <1>5, <1>7, <1>8 DEF TodaysInv, T!OrderStep

(* Entries that go. *)
LEMMA EntriesGo ==
    ASSUME TodaysInv, entries' \in SUBSET entries, T!Overtake, UNCHANGED <<lastId, overtaken>>, gone' \in SUBSET DayDocs
    PROVE  TodaysInv' /\ T!OrderStep
  <1>1. jobs' \in [Slots -> DayJob] /\ \A q \in Slots : jobs'[q].op # "idle" => jobs'[q].fresh = FALSE
    <2> DEFINE none == {}
    <2>1. jobs' = [q \in Slots |-> IF q \in none \/ jobs[q].op = "idle" THEN T!Idle ELSE [jobs[q] EXCEPT !.fresh = FALSE]]
      BY DEF T!Overtake
    <2>2. none \in SUBSET Slots
      OBVIOUS
    <2> HIDE DEF none
    <2> QED
      BY <2>1, <2>2, Overtook
  <1>2. DayRows' /\ T!SetOnce' /\ T!NoTies'
    BY DEF TodaysInv, DayRows, T!SetOnce, T!NoTies
  <1>3. T!OrderStep
    <2> SUFFICES ASSUME NEW c \in {e.doc : e \in entries} \cap {e.doc : e \in entries'},
                        NEW d \in {e.doc : e \in entries} \cap {e.doc : e \in entries'}
                 PROVE  T!Ahead(entries, c, d) <=> T!Ahead(entries', c, d)
      BY DEF T!OrderStep
    <2>1. \A e \in entries : e.doc \in {c, d} => e \in entries'
      BY DEF TodaysInv, T!SetOnce
    <2> QED
      BY <2>1 DEF T!Ahead
  <1> QED
    BY <1>1, <1>2, <1>3 DEF TodaysInv

(* One step of the list of a day. *)
LEMMA TodaysStep == TodaysInv /\ (T!Next \/ UNCHANGED T!vars) => TodaysInv' /\ T!OrderStep
  <1> SUFFICES ASSUME TodaysInv, T!Next \/ UNCHANGED T!vars PROVE TodaysInv' /\ T!OrderStep
    OBVIOUS
  <1>1. ASSUME UNCHANGED <<entries, lastId>>
        PROVE  T!OrderStep
    BY <1>1 DEF T!OrderStep
  <1>2. CASE UNCHANGED T!vars
    BY <1>1, <1>2 DEF T!vars, TodaysInv, DayRows, T!SetOnce, T!NoTies, Placed, NewPlace, T!Before
  <1>3. ASSUME NEW r \in Slots, NEW d \in DayDocs, NEW p \in T!Positions, T!AddLoad(r, d, p)
        PROVE  TodaysInv' /\ T!OrderStep
    BY <1>1, <1>3, AddLoads DEF T!AddLoad
  <1>4. ASSUME NEW r \in Slots, NEW order \in T!Orders, T!ReorderLoad(r, order)
        PROVE  TodaysInv' /\ T!OrderStep
    BY <1>1, <1>4, ReorderLoads DEF T!ReorderLoad
  <1>5. ASSUME NEW r \in Slots, T!Fail(r)
        PROVE  TodaysInv' /\ T!OrderStep
    <2>1. jobs' = [jobs EXCEPT ![r] = T!Idle] /\ UNCHANGED <<entries, gone, lastId, overtaken>>
      BY <1>5 DEF T!Fail
    <2>2. jobs' \in [Slots -> DayJob] /\ jobs'[r].op = "idle" /\ \A q \in Slots \ {r} : jobs'[q] = jobs[q]
      BY <2>1, IdleDay DEF TodaysInv
    <2>3. \A q \in Slots : jobs'[q].op # "idle" /\ jobs'[q].fresh => Placed(jobs'[q])
      BY <2>2 DEF TodaysInv
    <2>4. (\A q \in Slots : jobs[q].op # "idle" /\ jobs[q].fresh => Placed(jobs[q]))'
      BY <2>1, <2>3 DEF Placed, NewPlace, T!Before
    <2> QED
      BY <1>1, <2>1, <2>2, <2>4 DEF TodaysInv, DayRows, T!SetOnce, T!NoTies
  <1>6. ASSUME NEW e \in entries, T!remove_todays_document(e)
        PROVE  TodaysInv' /\ T!OrderStep
    <2>1. entries' \in SUBSET entries /\ gone' \in SUBSET DayDocs /\ T!Overtake /\ UNCHANGED <<lastId, overtaken>>
      BY <1>6 DEF T!remove_todays_document, TodaysInv
    <2> QED
      BY <2>1, EntriesGo
  <1>7. ASSUME NEW d \in DayDocs, T!permanently_delete_document(d)
        PROVE  TodaysInv' /\ T!OrderStep
    <2>1. entries' \in SUBSET entries /\ gone' \in SUBSET DayDocs /\ T!Overtake /\ UNCHANGED <<lastId, overtaken>>
      BY <1>7 DEF T!permanently_delete_document, TodaysInv
    <2> QED
      BY <2>1, EntriesGo
  <1> QED
    BY <1>2, <1>3, <1>4, <1>5, <1>6, <1>7, AddCommits, ReorderCommits DEF T!Next

-----------------------------------------------------------------------------
(***************************************************************************)
(* Temporary documents.  An upload is in one place: waiting, with the      *)
(* request that moved it, or an entry's; the file that is removed is that  *)
(* of an entry that is gone.                                               *)
(***************************************************************************)
EntryRow == [state : {"free", "set", "gone"}, day : 0 .. LastDay, doc : OneDoc \cup {None},
             file : Uploads \cup {None}, kept : 0 .. P!Later * 2]
TemporaryJob == [op : {"idle", "ordinance", "moa", "keep", "delete"}, entry : Entries \cup {None}, doc : OneDoc \cup {None},
                 file : Uploads \cup {None}, day : 0 .. P!Later * 2, fresh : BOOLEAN]

Moa(e) == rows[e].state # "free" /\ rows[e].doc = None
Adds(r) == jobs[r].op = "moa"

(* An entry is free, an ordinance without a file, or a MOA with one.       *)
EntryKinds == \A e \in Entries :
    /\ rows[e].state = "free" => rows[e] = P!Free
    /\ rows[e].doc # None => rows[e].file = None
    /\ Moa(e) => rows[e].file \in Uploads \ uploads
    /\ P!Set(e) /\ Moa(e) => rows[e].file \in files

OneOwner ==
    /\ \A e, f \in Entries : Moa(e) /\ Moa(f) /\ rows[e].file = rows[f].file => e = f
    /\ \A r \in Slots : Adds(r) => /\ jobs[r].file \in (Uploads \ uploads) \cap files
                                   /\ \A e \in Entries : Moa(e) => rows[e].file # jobs[r].file
                                   /\ \A q \in Slots : Adds(q) /\ jobs[q].file = jobs[r].file => q = r

(* What a request loaded. *)
LoadedEntry(req) ==
    /\ req.op \in {"ordinance", "moa"} => req.day =< LastDay
    /\ req.op = "ordinance" => req.doc \in OneDoc
    /\ req.op = "delete" => /\ req.entry \in Entries /\ rows[req.entry].state = "gone"
                            /\ req.file = rows[req.entry].file
    /\ req.op = "keep" => /\ req.entry \in Entries /\ rows[req.entry].state # "free"
                          /\ req.fresh => req.day >= P!due_on(req.entry) + KeepDays

TemporaryInv ==
    /\ P!TypeOK /\ rows \in [Entries -> EntryRow] /\ jobs \in [Slots -> TemporaryJob]
    /\ EntryKinds /\ OneOwner
    /\ \A r \in Slots : LoadedEntry(jobs[r])
    /\ P!OrdinanceOnce

LEMMA LaterIs ==
    ASSUME P!DaysAssumption
    PROVE  /\ P!Later \in Nat /\ LastDay \in Nat /\ KeepDays \in Nat
           /\ LastDay =< P!Later /\ LastDay =< P!Later * 2 /\ P!Later =< P!Later * 2
  BY DEF P!DaysAssumption, P!Later

LEMMA IdleEntry ==
    ASSUME P!DaysAssumption
    PROVE  /\ P!Idle \in TemporaryJob /\ P!Idle.op = "idle"
           /\ P!Free \in EntryRow /\ P!Free.state = "free" /\ P!Free.doc = None /\ P!Free.file = None
  BY LaterIs DEF P!Free, P!Idle, EntryRow, TemporaryJob

LEMMA TemporaryInit ==
    ASSUME P!DaysAssumption, P!NoneAssumption, P!Init
    PROVE  TemporaryInv
  <1>1. P!Free \in EntryRow /\ P!Idle \in TemporaryJob /\ P!Idle.op = "idle"
    BY LaterIs DEF P!Free, P!Idle, EntryRow, TemporaryJob
  <1>2. \A r \in Slots : jobs[r].op = "idle"
    BY <1>1 DEF P!Init
  <1>3. \A e \in Entries : rows[e] = P!Free /\ rows[e].state = "free"
    BY DEF P!Init, P!Free
  <1>4. rows \in [Entries -> EntryRow] /\ jobs \in [Slots -> TemporaryJob]
    BY <1>1 DEF P!Init
  <1>5. P!TypeOK
    <2>1. today \in 1 .. LastDay
      BY LaterIs DEF P!Init, P!DaysAssumption
    <2>2. \A r \in Slots : jobs[r].op \in {"idle", "ordinance", "moa", "keep", "delete"} /\ jobs[r].day \in 0 .. P!Later * 2
      BY <1>4 DEF TemporaryJob
    <2> QED
      BY <1>4, <2>1, <2>2 DEF P!TypeOK, P!Init, EntryRow
  <1>6. EntryKinds /\ OneOwner /\ P!OrdinanceOnce
    BY <1>2, <1>3 DEF EntryKinds, OneOwner, P!OrdinanceOnce, Moa, Adds, P!Set, P!Free
  <1> QED
    BY <1>2, <1>4, <1>5, <1>6 DEF TemporaryInv, LoadedEntry

(* Slots that load one entry, and rows that stay. *)
LEMMA EntryLoaded ==
    ASSUME TemporaryInv, NEW r \in Slots, NEW req \in TemporaryJob, P!Load(r, req)
    PROVE  /\ jobs[r].op = "idle" /\ jobs' \in [Slots -> TemporaryJob]
           /\ jobs'[r] = req /\ \A q \in Slots : q # r => jobs'[q] = jobs[q]
  BY DEF TemporaryInv, P!Load

(* What a request under way is after the end of r, for q other than r. *)
LEMMA EntryEnded ==
    ASSUME TemporaryInv, NEW r \in Slots, P!End(r), P!DaysAssumption
    PROVE  /\ jobs' \in [Slots -> TemporaryJob]
           /\ jobs'[r] = P!Idle /\ jobs'[r].op = "idle"
           /\ \A q \in Slots : q # r =>
                /\ jobs'[q].op = jobs[q].op /\ jobs'[q].entry = jobs[q].entry /\ jobs'[q].doc = jobs[q].doc
                /\ jobs'[q].file = jobs[q].file /\ jobs'[q].day = jobs[q].day
                /\ jobs'[q].fresh => jobs[q].fresh /\ jobs[q].entry # jobs[r].entry
  <1>1. P!Idle \in TemporaryJob /\ P!Idle.op = "idle"
    BY LaterIs DEF P!Idle, TemporaryJob
  <1>2. \A q \in Slots : jobs[q] \in TemporaryJob /\ [jobs[q] EXCEPT !.fresh = FALSE] \in TemporaryJob
    BY DEF TemporaryInv, TemporaryJob
  <1>3. jobs' \in [Slots -> TemporaryJob]
    BY <1>1, <1>2 DEF P!End
  <1>4. jobs'[r] = P!Idle
    BY DEF P!End
  <1>5. ASSUME NEW q \in Slots, q # r
        PROVE  \/ jobs'[q] = jobs[q] /\ jobs[q].entry # jobs[r].entry
               \/ jobs'[q] = [jobs[q] EXCEPT !.fresh = FALSE]
    BY <1>5 DEF P!End
  <1>6. \A q \in Slots : q # r =>
           /\ jobs'[q].op = jobs[q].op /\ jobs'[q].entry = jobs[q].entry /\ jobs'[q].doc = jobs[q].doc
           /\ jobs'[q].file = jobs[q].file /\ jobs'[q].day = jobs[q].day
           /\ jobs'[q].fresh => jobs[q].fresh /\ jobs[q].entry # jobs[r].entry
    <2>1. TAKE q \in Slots
    <2>2. HAVE q # r
    <2>3. CASE jobs'[q] = jobs[q] /\ jobs[q].entry # jobs[r].entry
      BY <2>3
    <2>4. CASE jobs'[q] = [jobs[q] EXCEPT !.fresh = FALSE]
      <3>1. jobs[q] \in TemporaryJob
        BY <1>2
      <3>2. /\ jobs'[q].op = jobs[q].op /\ jobs'[q].entry = jobs[q].entry /\ jobs'[q].doc = jobs[q].doc
            /\ jobs'[q].file = jobs[q].file /\ jobs'[q].day = jobs[q].day /\ jobs'[q].fresh = FALSE
        BY <2>4, <3>1 DEF TemporaryJob
      <3> QED
        BY <3>2
    <2> QED
      BY <1>5, <2>2, <2>3, <2>4
  <1> QED
    BY <1>1, <1>3, <1>4, <1>6

(* Entries that keep what they are of, and uploads and files that stay.    *)
LEMMA SameEntries ==
    ASSUME TemporaryInv, UNCHANGED <<uploads, files>>,
           \A e \in Entries : /\ rows'[e].state = rows[e].state /\ rows'[e].doc = rows[e].doc
                              /\ rows'[e].file = rows[e].file /\ rows'[e].day = rows[e].day
                              /\ rows[e].state = "free" => rows'[e] = rows[e],
           \A q \in Slots : jobs'[q].op = "moa" => jobs[q].op = "moa" /\ jobs'[q].file = jobs[q].file
    PROVE  EntryKinds' /\ OneOwner' /\ P!OrdinanceOnce'
  <1>1. EntryKinds'
    BY DEF TemporaryInv, EntryKinds, Moa, P!Set, P!Free
  <1>2. OneOwner'
    BY DEF TemporaryInv, OneOwner, Moa, Adds
  <1>3. P!OrdinanceOnce'
    BY DEF TemporaryInv, P!OrdinanceOnce, P!Set
  <1> QED
    BY <1>1, <1>2, <1>3

(* What a request loaded is so while its entry stays as it is.             *)
LEMMA StillLoaded ==
    ASSUME NEW req \in TemporaryJob, NEW other \in TemporaryJob, LoadedEntry(req),
           other.op = req.op, other.entry = req.entry, other.doc = req.doc, other.file = req.file, other.day = req.day,
           other.fresh => req.fresh,
           \A e \in Entries : e = req.entry =>
              /\ rows[e].state # "free" => /\ rows'[e].state # "free" /\ rows'[e].day = rows[e].day
                                           /\ other.fresh => rows'[e].kept = rows[e].kept
              /\ rows[e].state = "gone" => rows'[e].state = "gone" /\ rows'[e].file = rows[e].file
    PROVE  LoadedEntry(other)'
  <1>1. ASSUME other.op = "keep"
        PROVE  /\ other.entry \in Entries /\ rows'[other.entry].state # "free"
               /\ other.fresh => other.day >= P!due_on(other.entry)' + KeepDays
    <2>1. req.entry \in Entries /\ rows[req.entry].state # "free" /\ (req.fresh => req.day >= P!due_on(req.entry) + KeepDays)
      BY <1>1 DEF LoadedEntry
    <2>2. req.fresh \in BOOLEAN /\ other.fresh \in BOOLEAN
      BY DEF TemporaryJob
    <2>3. other.fresh => rows'[req.entry].day = rows[req.entry].day /\ rows'[req.entry].kept = rows[req.entry].kept
      BY <2>1
    <2>4. other.fresh => P!due_on(req.entry)' = P!due_on(req.entry)
      BY <2>3 DEF P!due_on
    <2>5. P!due_on(other.entry)' = P!due_on(req.entry)'
      BY DEF P!due_on
    <2>6. rows'[req.entry].state # "free"
      BY <2>1
    <2> QED
      BY <2>1, <2>2, <2>4, <2>5, <2>6
  <1>2. other.op = "delete" => /\ other.entry \in Entries /\ rows'[other.entry].state = "gone"
                               /\ other.file = rows'[other.entry].file
    BY DEF LoadedEntry
  <1> QED
    BY <1>1, <1>2 DEF LoadedEntry

EntryTypes == /\ today \in 1 .. LastDay /\ rows \in [Entries -> EntryRow] /\ jobs \in [Slots -> TemporaryJob]
              /\ uploads \subseteq Uploads /\ files \subseteq Uploads /\ overtaken \in BOOLEAN
LEMMA EntriesTyped == ASSUME TemporaryInv PROVE EntryTypes
  BY DEF TemporaryInv, P!TypeOK, EntryTypes
LEMMA TypesOfEntries == ASSUME EntryTypes' PROVE P!TypeOK'
  <1>1. ASSUME NEW r \in Slots
        PROVE  jobs'[r].op \in {"idle", "ordinance", "moa", "keep", "delete"} /\ jobs'[r].day \in 0 .. P!Later * 2
    BY DEF TemporaryJob, EntryTypes
  <1> QED
    BY <1>1 DEF P!TypeOK, EntryRow, EntryTypes

LEMMA OrdinanceLoadKeeps ==
    ASSUME P!DaysAssumption, TemporaryInv, NEW r \in Slots, NEW d \in OneDoc, NEW day \in 1 .. LastDay,
           P!OrdinanceLoad(r, d, day)
    PROVE  TemporaryInv' /\ P!KeepStep
  <1> DEFINE req == [P!Idle EXCEPT !.op = "ordinance", !.doc = d, !.day = day]
  <1>1. req \in TemporaryJob /\ req.op = "ordinance" /\ req.doc = d /\ req.day = day
    <2>1. day \in 0 .. P!Later * 2
      BY LaterIs
    <2> QED
      BY <2>1, IdleEntry DEF TemporaryJob
  <1>2. P!Load(r, req) /\ UNCHANGED <<today, rows, uploads, files, overtaken>>
    BY DEF P!OrdinanceLoad
  <1> HIDE DEF req
  <1>3. EntryTypes'
    BY <1>1, <1>2, EntryLoaded, EntriesTyped DEF EntryTypes
  <1>4. EntryKinds' /\ OneOwner' /\ P!OrdinanceOnce'
    BY <1>1, <1>2, EntryLoaded, SameEntries
  <1>5. ASSUME NEW q \in Slots
        PROVE  LoadedEntry(jobs[q])'
    <2>1. CASE q = r
      BY <1>1, <1>2, <2>1, EntryLoaded, LaterIs DEF LoadedEntry
    <2>2. CASE q # r
      BY <1>1, <1>2, <2>2, EntryLoaded DEF LoadedEntry, TemporaryInv, P!due_on
    <2> QED
      BY <2>1, <2>2
  <1> QED
    BY <1>2, <1>3, <1>4, <1>5, TypesOfEntries DEF TemporaryInv, EntryTypes, P!KeepStep

LEMMA KeepLoadKeeps ==
    ASSUME P!DaysAssumption, TemporaryInv, NEW r \in Slots, NEW e \in Entries, P!KeepLoad(r, e)
    PROVE  TemporaryInv' /\ P!KeepStep
  <1> DEFINE due == P!due_on(e)
             until == P!Larger(due, today) + KeepDays
             req == [P!Idle EXCEPT !.op = "keep", !.entry = e, !.day = until]
  <1>0. rows[e] \in EntryRow /\ today \in Nat /\ rows[e].day \in Nat /\ rows[e].kept \in Nat
    BY EntriesTyped, LaterIs DEF EntryTypes, EntryRow
  <1>1. due \in Nat /\ until \in Nat /\ until >= due + KeepDays /\ until =< P!Later
    BY <1>0, LaterIs DEF P!due_on, P!Larger, P!KeepLoad
  <1>2. req \in TemporaryJob /\ req.op = "keep" /\ req.entry = e /\ req.day = until
    <2>1. until \in 0 .. P!Later * 2
      BY <1>1, LaterIs
    <2> QED
      BY <2>1, IdleEntry DEF TemporaryJob
  <1>3. P!Load(r, req) /\ UNCHANGED <<today, rows, uploads, files, overtaken>> /\ rows[e].state = "set"
    BY DEF P!KeepLoad, P!Set
  <1> HIDE DEF req, until
  <1>4. EntryTypes'
    BY <1>2, <1>3, EntryLoaded, EntriesTyped DEF EntryTypes
  <1>5. EntryKinds' /\ OneOwner' /\ P!OrdinanceOnce'
    BY <1>2, <1>3, EntryLoaded, SameEntries
  <1>6. ASSUME NEW q \in Slots
        PROVE  LoadedEntry(jobs[q])'
    <2>1. CASE q = r
      BY <1>1, <1>2, <1>3, <2>1, EntryLoaded DEF LoadedEntry, P!due_on
    <2>2. CASE q # r
      BY <1>2, <1>3, <2>2, EntryLoaded DEF LoadedEntry, TemporaryInv, P!due_on
    <2> QED
      BY <2>1, <2>2
  <1> QED
    BY <1>3, <1>4, <1>5, <1>6, TypesOfEntries DEF TemporaryInv, EntryTypes, P!KeepStep

LEMMA FailKeeps ==
    ASSUME P!DaysAssumption, TemporaryInv, NEW r \in Slots, P!Fail(r)
    PROVE  TemporaryInv' /\ P!KeepStep
  <1>1. P!Idle \in TemporaryJob /\ P!Idle.op = "idle"
    BY LaterIs DEF P!Idle, TemporaryJob
  <1>2. /\ jobs' \in [Slots -> TemporaryJob] /\ jobs'[r] = P!Idle
        /\ \A q \in Slots : q # r => jobs'[q] = jobs[q]
        /\ UNCHANGED <<today, rows, uploads, files, overtaken>>
    BY <1>1, EntriesTyped DEF P!Fail, EntryTypes
  <1>3. EntryTypes'
    BY <1>2, EntriesTyped DEF EntryTypes
  <1>4. EntryKinds' /\ OneOwner' /\ P!OrdinanceOnce'
    BY <1>1, <1>2, SameEntries
  <1>5. ASSUME NEW q \in Slots
        PROVE  LoadedEntry(jobs[q])'
    <2>1. CASE q = r
      BY <1>1, <1>2, <2>1 DEF LoadedEntry
    <2>2. CASE q # r
      BY <1>2, <2>2 DEF LoadedEntry, TemporaryInv, P!due_on
    <2> QED
      BY <2>1, <2>2
  <1> QED
    BY <1>2, <1>3, <1>4, <1>5, TypesOfEntries DEF TemporaryInv, EntryTypes, P!KeepStep

LEMMA OrdinanceCommitKeeps ==
    ASSUME P!DaysAssumption, P!NoneAssumption, TemporaryInv, NEW r \in Slots, NEW e \in Entries, P!OrdinanceCommit(r, e)
    PROVE  TemporaryInv' /\ P!KeepStep
  <1> DEFINE row == [P!Free EXCEPT !.state = "set", !.day = jobs[r].day, !.doc = jobs[r].doc]
  <1>1. jobs[r].op = "ordinance" /\ jobs[r].day \in 0 .. LastDay /\ jobs[r].doc \in OneDoc
    BY EntriesTyped DEF P!OrdinanceCommit, TemporaryInv, LoadedEntry, EntryTypes, TemporaryJob
  <1>2. row \in EntryRow /\ row.state = "set" /\ row.day = jobs[r].day /\ row.doc = jobs[r].doc /\ row.file = None
    BY <1>1, IdleEntry DEF EntryRow
  <1> HIDE DEF row
  <1>3. /\ rows[e] = P!Free /\ rows[e].state = "free" /\ rows' = [rows EXCEPT ![e] = row]
        /\ P!End(r) /\ UNCHANGED <<today, uploads, files, overtaken>>
    BY DEF P!OrdinanceCommit, P!Free, row
  <1>4. /\ rows' \in [Entries -> EntryRow] /\ rows'[e] = row
        /\ \A f \in Entries : f # e => rows'[f] = rows[f]
    BY <1>2, <1>3, EntriesTyped DEF EntryTypes
  <1>5. EntryTypes'
    BY <1>3, <1>4, EntryEnded, EntriesTyped DEF EntryTypes
  <1>6. row.doc # None
    BY <1>1, <1>2 DEF P!NoneAssumption
  <1>7. EntryKinds'
    BY <1>2, <1>3, <1>4, <1>6 DEF TemporaryInv, EntryKinds, Moa, P!Set
  <1>8. OneOwner'
    <2>1. \A q \in Slots : jobs'[q].op = "moa" => jobs[q].op = "moa" /\ jobs'[q].file = jobs[q].file
      BY <1>3, EntryEnded
    <2> QED
      BY <1>2, <1>3, <1>4, <1>6, <2>1 DEF TemporaryInv, OneOwner, Adds, Moa
  <1>9. P!OrdinanceOnce'
    <2>1. \A f \in Entries : ~(P!Set(f) /\ rows[f].day = jobs[r].day /\ rows[f].doc = jobs[r].doc)
      BY DEF P!OrdinanceCommit, P!SetFor
    <2> QED
      BY <1>2, <1>4, <2>1 DEF TemporaryInv, P!OrdinanceOnce, P!Set
  <1>10. ASSUME NEW q \in Slots
         PROVE  LoadedEntry(jobs[q])'
    <2>1. CASE q = r
      BY <1>3, <2>1, EntryEnded DEF LoadedEntry
    <2>2. CASE q # r
      <3>1. LoadedEntry(jobs[q])
        BY DEF TemporaryInv
      <3> QED
        BY <1>3, <1>4, <1>5, <2>2, <3>1, EntryEnded, StillLoaded, EntriesTyped DEF EntryTypes
    <2> QED
      BY <2>1, <2>2
  <1>11. P!KeepStep
    BY <1>3, <1>4 DEF P!KeepStep, P!Set
  <1> QED
    BY <1>5, <1>7, <1>8, <1>9, <1>10, <1>11, TypesOfEntries DEF TemporaryInv, EntryTypes

LEMMA MoaMoveKeeps ==
    ASSUME P!DaysAssumption, TemporaryInv, NEW r \in Slots, NEW u \in Uploads, NEW day \in 1 .. LastDay,
           P!MoaMove(r, u, day)
    PROVE  TemporaryInv' /\ P!KeepStep
  <1> DEFINE req == [P!Idle EXCEPT !.op = "moa", !.file = u, !.day = day]
  <1>1. req \in TemporaryJob /\ req.op = "moa" /\ req.file = u /\ req.day = day
    <2>1. day \in 0 .. P!Later * 2
      BY LaterIs
    <2> QED
      BY <2>1, IdleEntry DEF TemporaryJob
  <1>2. /\ P!Load(r, req) /\ UNCHANGED <<today, rows, overtaken>>
        /\ u \in uploads /\ uploads' = uploads \ {u} /\ files' = files \cup {u}
    BY DEF P!MoaMove
  <1> HIDE DEF req
  <1>3. /\ jobs[r].op = "idle" /\ jobs' \in [Slots -> TemporaryJob]
        /\ jobs'[r] = req /\ \A q \in Slots : q # r => jobs'[q] = jobs[q]
    BY <1>1, <1>2, EntryLoaded
  <1>4. EntryTypes'
    BY <1>2, <1>3, EntriesTyped DEF EntryTypes
  <1>5. EntryKinds' /\ P!OrdinanceOnce'
    BY <1>2 DEF TemporaryInv, EntryKinds, P!OrdinanceOnce, Moa, P!Set
  <1>6. \A e \in Entries : Moa(e) => rows[e].file # u
    BY <1>2 DEF TemporaryInv, EntryKinds
  <1>8. OneOwner'
    BY <1>1, <1>2, <1>3, <1>6 DEF TemporaryInv, OneOwner, Moa, Adds
  <1>9. ASSUME NEW q \in Slots
        PROVE  LoadedEntry(jobs[q])'
    <2>1. CASE q = r
      BY <1>1, <1>2, <1>3, <2>1, LaterIs DEF LoadedEntry
    <2>2. CASE q # r
      BY <1>2, <1>3, <2>2 DEF LoadedEntry, TemporaryInv, P!due_on
    <2> QED
      BY <2>1, <2>2
  <1> QED
    BY <1>2, <1>4, <1>5, <1>8, <1>9, TypesOfEntries DEF TemporaryInv, EntryTypes, P!KeepStep

LEMMA MoaCommitKeeps ==
    ASSUME P!DaysAssumption, TemporaryInv, NEW r \in Slots, NEW e \in Entries, P!MoaCommit(r, e)
    PROVE  TemporaryInv' /\ P!KeepStep
  <1>0. OneOwner
    BY DEF TemporaryInv
  <1> DEFINE row == [P!Free EXCEPT !.state = "set", !.day = jobs[r].day, !.file = jobs[r].file]
  <1>1. /\ jobs[r].op = "moa" /\ jobs[r].day \in 0 .. LastDay /\ jobs[r].file \in (Uploads \ uploads) \cap files
        /\ \A f \in Entries : Moa(f) => rows[f].file # jobs[r].file
        /\ \A q \in Slots : Adds(q) /\ jobs[q].file = jobs[r].file => q = r
    <2>1. jobs[r].op = "moa" /\ jobs[r] \in TemporaryJob
      BY EntriesTyped DEF P!MoaCommit, EntryTypes
    <2>2. jobs[r].day \in 0 .. LastDay
      <3>1. jobs[r].day =< LastDay
        BY <2>1 DEF TemporaryInv, LoadedEntry
      <3>2. jobs[r].day \in 0 .. P!Later * 2
        BY <2>1 DEF TemporaryJob
      <3> QED
        BY <3>1, <3>2, LaterIs
    <2>3. Adds(r)
      BY <2>1 DEF Adds
    <2> QED
      BY <1>0, <2>1, <2>2, <2>3 DEF OneOwner
  <1>2. row \in EntryRow /\ row.state = "set" /\ row.doc = None /\ row.file = jobs[r].file
    BY <1>1, IdleEntry DEF EntryRow
  <1> HIDE DEF row
  <1>3. /\ rows[e] = P!Free /\ rows[e].state = "free" /\ rows' = [rows EXCEPT ![e] = row]
        /\ P!End(r) /\ UNCHANGED <<today, uploads, files, overtaken>>
    BY DEF P!MoaCommit, P!Free, row
  <1>4. /\ rows' \in [Entries -> EntryRow] /\ rows'[e] = row
        /\ \A f \in Entries : f # e => rows'[f] = rows[f]
    BY <1>2, <1>3, EntriesTyped DEF EntryTypes
  <1>5. EntryTypes'
    BY <1>3, <1>4, EntryEnded, EntriesTyped DEF EntryTypes
  <1>6. EntryKinds'
    BY <1>1, <1>2, <1>3, <1>4 DEF TemporaryInv, EntryKinds, Moa, P!Set
  <1>7. OneOwner'
    <2>1. \A q \in Slots : jobs'[q].op = "moa" => q # r /\ jobs[q].op = "moa" /\ jobs'[q].file = jobs[q].file
      BY <1>3, EntryEnded
    <2>2. \A f \in Entries : Moa(f)' => IF f = e THEN rows'[f].file = jobs[r].file ELSE Moa(f) /\ rows'[f].file = rows[f].file
      BY <1>2, <1>4 DEF Moa
    <2>3. \A f, g \in Entries : Moa(f)' /\ Moa(g)' /\ rows'[f].file = rows'[g].file => f = g
      BY <1>0, <1>1, <2>2 DEF OneOwner
    <2>4. ASSUME NEW q \in Slots, Adds(q)'
          PROVE  /\ jobs'[q].file \in (Uploads \ uploads') \cap files'
                 /\ \A f \in Entries : Moa(f)' => rows'[f].file # jobs'[q].file
                 /\ \A p \in Slots : Adds(p)' /\ jobs'[p].file = jobs'[q].file => p = q
      <3>1. q # r /\ Adds(q) /\ jobs'[q].file = jobs[q].file /\ jobs[q].file # jobs[r].file
        BY <1>1, <2>1, <2>4 DEF Adds
      <3>2. /\ jobs[q].file \in (Uploads \ uploads) \cap files
            /\ \A f \in Entries : Moa(f) => rows[f].file # jobs[q].file
            /\ \A p \in Slots : Adds(p) /\ jobs[p].file = jobs[q].file => p = q
        BY <1>0, <3>1 DEF OneOwner
      <3>3. \A p \in Slots : Adds(p)' => Adds(p) /\ jobs'[p].file = jobs[p].file
        BY <2>1 DEF Adds
      <3> QED
        BY <1>3, <2>2, <3>1, <3>2, <3>3
    <2> QED
      BY <2>3, <2>4 DEF OneOwner
  <1>8. P!OrdinanceOnce'
    BY <1>2, <1>4 DEF TemporaryInv, P!OrdinanceOnce, P!Set
  <1>9. ASSUME NEW q \in Slots
        PROVE  LoadedEntry(jobs[q])'
    <2>1. CASE q = r
      BY <1>3, <2>1, EntryEnded DEF LoadedEntry
    <2>2. CASE q # r
      <3>1. LoadedEntry(jobs[q])
        BY DEF TemporaryInv
      <3> QED
        BY <1>3, <1>4, <1>5, <2>2, <3>1, EntryEnded, StillLoaded, EntriesTyped DEF EntryTypes
    <2> QED
      BY <2>1, <2>2
  <1>10. P!KeepStep
    BY <1>3, <1>4 DEF P!KeepStep, P!Set
  <1> QED
    BY <1>5, <1>6, <1>7, <1>8, <1>9, <1>10, TypesOfEntries DEF TemporaryInv, EntryTypes

LEMMA KeepCommitKeeps ==
    ASSUME P!DaysAssumption, TemporaryInv, NEW r \in Slots, P!KeepCommit(r)
    PROVE  TemporaryInv' /\ P!KeepStep
  <1>1. PICK e \in Entries : e = jobs[r].entry /\ (jobs[r].fresh => jobs[r].day >= P!due_on(e) + KeepDays)
    BY DEF P!KeepCommit, TemporaryInv, LoadedEntry
  <1>2. /\ rows[e].state = "set" /\ jobs[r].day \in 0 .. P!Later * 2
        /\ rows' = [rows EXCEPT ![e].kept = jobs[r].day] /\ overtaken' = (overtaken \/ ~jobs[r].fresh)
        /\ P!End(r) /\ UNCHANGED <<today, uploads, files>>
    BY <1>1, EntriesTyped DEF P!KeepCommit, P!Set, EntryTypes, TemporaryJob
  <1>3. [rows[e] EXCEPT !.kept = jobs[r].day] \in EntryRow
    BY <1>2, EntriesTyped DEF EntryTypes, EntryRow
  <1>4. /\ rows' \in [Entries -> EntryRow] /\ rows'[e] = [rows[e] EXCEPT !.kept = jobs[r].day]
        /\ \A f \in Entries : f # e => rows'[f] = rows[f]
    BY <1>2, <1>3, EntriesTyped DEF EntryTypes
  <1>5. /\ rows'[e].state = rows[e].state /\ rows'[e].doc = rows[e].doc /\ rows'[e].kept = jobs[r].day
        /\ rows'[e].file = rows[e].file /\ rows'[e].day = rows[e].day
    BY <1>4, EntriesTyped DEF EntryTypes, EntryRow
  <1>6. jobs[r].fresh \in BOOLEAN /\ overtaken' \in BOOLEAN /\ (~overtaken' => jobs[r].fresh)
    BY <1>2, EntriesTyped DEF EntryTypes, TemporaryJob
  <1>7. EntryTypes'
    BY <1>2, <1>4, <1>6, EntryEnded, EntriesTyped DEF EntryTypes
  <1>8. EntryKinds' /\ OneOwner' /\ P!OrdinanceOnce'
    <2>1. \A q \in Slots : jobs'[q].op = "moa" => jobs[q].op = "moa" /\ jobs'[q].file = jobs[q].file
      BY <1>2, EntryEnded
    <2>2. \A f \in Entries : /\ rows'[f].state = rows[f].state /\ rows'[f].doc = rows[f].doc
                             /\ rows'[f].file = rows[f].file /\ rows'[f].day = rows[f].day
                             /\ rows[f].state = "free" => rows'[f] = rows[f]
      BY <1>2, <1>4, <1>5
    <2> QED
      BY <1>2, <2>1, <2>2, SameEntries
  <1>9. ASSUME NEW q \in Slots
        PROVE  LoadedEntry(jobs[q])'
    <2>1. CASE q = r
      BY <1>2, <2>1, EntryEnded DEF LoadedEntry
    <2>2. CASE q # r
      <3>1. LoadedEntry(jobs[q])
        BY DEF TemporaryInv
      <3>2. jobs'[q].fresh => jobs[q].entry # e
        BY <1>1, <1>2, <2>2, EntryEnded
      <3> QED
        BY <1>2, <1>4, <1>5, <1>7, <2>2, <3>1, <3>2, EntryEnded, StillLoaded, EntriesTyped DEF EntryTypes
    <2> QED
      BY <2>1, <2>2
  <1>10. P!KeepStep
    <2> SUFFICES ASSUME NEW f \in Entries, P!Set(f), rows'[f].kept # rows[f].kept, ~overtaken'
                 PROVE  rows'[f].kept >= P!Larger(rows[f].day + 1 + KeepDays, rows[f].kept) + KeepDays
      BY DEF P!KeepStep
    <2> QED
      BY <1>1, <1>4, <1>5, <1>6 DEF P!due_on
  <1> QED
    BY <1>7, <1>8, <1>9, <1>10, TypesOfEntries DEF TemporaryInv, EntryTypes

LEMMA DeleteRowKeeps ==
    ASSUME P!DaysAssumption, TemporaryInv, NEW r \in Slots, NEW e \in Entries, P!DeleteRow(r, e)
    PROVE  TemporaryInv' /\ P!KeepStep
  <1> DEFINE req == [P!Idle EXCEPT !.op = "delete", !.entry = e, !.file = rows[e].file]
             row == [rows[e] EXCEPT !.state = "gone"]
  <1>1. req \in TemporaryJob /\ req.op = "delete" /\ req.entry = e /\ req.file = rows[e].file
    <2>1. rows[e].file \in Uploads \cup {None}
      BY EntriesTyped DEF EntryTypes, EntryRow
    <2> QED
      BY <2>1, IdleEntry DEF TemporaryJob
  <1>2. /\ row \in EntryRow /\ row.state = "gone" /\ row.doc = rows[e].doc /\ row.file = rows[e].file
        /\ row.day = rows[e].day /\ row.kept = rows[e].kept
    BY EntriesTyped DEF EntryTypes, EntryRow
  <1>3. /\ rows[e].state = "set" /\ rows' = [rows EXCEPT ![e] = row]
        /\ P!Load(r, req) /\ UNCHANGED <<today, uploads, files, overtaken>>
    BY DEF P!DeleteRow, P!Set
  <1> HIDE DEF req, row
  <1>4. /\ rows' \in [Entries -> EntryRow] /\ rows'[e] = row
        /\ \A f \in Entries : f # e => rows'[f] = rows[f]
    BY <1>2, <1>3, EntriesTyped DEF EntryTypes
  <1>5. /\ jobs[r].op = "idle" /\ jobs' \in [Slots -> TemporaryJob]
        /\ jobs'[r] = req /\ \A q \in Slots : q # r => jobs'[q] = jobs[q]
    BY <1>1, <1>3, EntryLoaded
  <1>6. EntryTypes'
    BY <1>3, <1>4, <1>5, EntriesTyped DEF EntryTypes
  <1>7. EntryKinds'
    BY <1>2, <1>3, <1>4 DEF TemporaryInv, EntryKinds, Moa, P!Set
  <1>8. OneOwner'
    BY <1>1, <1>2, <1>3, <1>4, <1>5 DEF TemporaryInv, OneOwner, Adds, Moa
  <1>9. P!OrdinanceOnce'
    BY <1>2, <1>4 DEF TemporaryInv, P!OrdinanceOnce, P!Set
  <1>10. ASSUME NEW q \in Slots
         PROVE  LoadedEntry(jobs[q])'
    <2>1. CASE q = r
      BY <1>1, <1>2, <1>4, <1>5, <2>1 DEF LoadedEntry
    <2>2. CASE q # r
      <3>1. LoadedEntry(jobs[q]) /\ jobs'[q] = jobs[q]
        BY <1>5, <2>2 DEF TemporaryInv
      <3> QED
        BY <1>2, <1>3, <1>4, <3>1, StillLoaded, EntriesTyped DEF EntryTypes
    <2> QED
      BY <2>1, <2>2
  <1>11. P!KeepStep
    BY <1>2, <1>4 DEF P!KeepStep, P!Set
  <1> QED
    BY <1>6, <1>7, <1>8, <1>9, <1>10, <1>11, TypesOfEntries DEF TemporaryInv, EntryTypes

LEMMA DeleteFileKeeps ==
    ASSUME P!DaysAssumption, P!NoneAssumption, TemporaryInv, NEW r \in Slots, P!DeleteFile(r)
    PROVE  TemporaryInv' /\ P!KeepStep
  <1>1. PICK e \in Entries : rows[e].state = "gone" /\ jobs[r].file = rows[e].file
    BY DEF P!DeleteFile, TemporaryInv, LoadedEntry
  <1>2. files' = files \ {rows[e].file} /\ P!End(r) /\ UNCHANGED <<today, rows, uploads, overtaken>>
    BY <1>1 DEF P!DeleteFile
  <1>3. EntryTypes'
    BY <1>2, EntryEnded, EntriesTyped DEF EntryTypes
  <1>4. rows[e].file = None \/ Moa(e)
    BY <1>1 DEF TemporaryInv, EntryKinds, Moa
  <1>5. EntryKinds'
    <2>1. ASSUME NEW f \in Entries, P!Set(f), Moa(f) PROVE rows[f].file # rows[e].file
      BY <1>1, <1>4, <2>1 DEF TemporaryInv, EntryKinds, OneOwner, P!Set, P!NoneAssumption
    <2> QED
      BY <1>2, <2>1 DEF TemporaryInv, EntryKinds, Moa, P!Set
  <1>6. OneOwner'
    <2>1. \A q \in Slots : jobs'[q].op = "moa" => jobs[q].op = "moa" /\ jobs'[q].file = jobs[q].file
      BY <1>2, EntryEnded, IdleEntry
    <2>2. ASSUME NEW q \in Slots, Adds(q) PROVE jobs[q].file # rows[e].file
      BY <1>4, <2>2 DEF TemporaryInv, OneOwner, P!NoneAssumption
    <2> QED
      BY <1>2, <2>1, <2>2 DEF TemporaryInv, OneOwner, Adds, Moa
  <1>7. P!OrdinanceOnce'
    BY <1>2 DEF TemporaryInv, P!OrdinanceOnce, P!Set
  <1>8. ASSUME NEW q \in Slots
        PROVE  LoadedEntry(jobs[q])'
    <2>1. CASE q = r
      BY <1>2, <2>1, EntryEnded DEF LoadedEntry
    <2>2. CASE q # r
      <3>1. LoadedEntry(jobs[q])
        BY DEF TemporaryInv
      <3> QED
        BY <1>2, <1>3, <2>2, <3>1, EntryEnded, StillLoaded, EntriesTyped DEF EntryTypes
    <2> QED
      BY <2>1, <2>2
  <1> QED
    BY <1>2, <1>3, <1>5, <1>6, <1>7, <1>8, TypesOfEntries DEF TemporaryInv, EntryTypes, P!KeepStep

LEMMA TemporaryNext ==
    ASSUME P!DaysAssumption, P!NoneAssumption, TemporaryInv, [P!Next]_P!vars
    PROVE  TemporaryInv' /\ P!KeepStep
  <1>1. CASE UNCHANGED P!vars
    <2>1. UNCHANGED <<today, rows, uploads, files, overtaken, jobs>>
      BY <1>1 DEF P!vars
    <2> QED
      BY <2>1 DEF TemporaryInv, P!TypeOK, EntryKinds, OneOwner, LoadedEntry, P!OrdinanceOnce, P!Set, Moa, Adds,
                  P!due_on, P!KeepStep
  <1>2. CASE P!Midnight
    <2>1. EntryTypes' /\ UNCHANGED <<rows, uploads, files, overtaken, jobs>>
      BY <1>2, LaterIs, EntriesTyped DEF P!Midnight, EntryTypes
    <2>2. P!TypeOK'
      BY <2>1, TypesOfEntries
    <2> QED
      BY <2>1, <2>2 DEF TemporaryInv, EntryKinds, OneOwner, LoadedEntry, P!OrdinanceOnce, P!Set, Moa, Adds, P!due_on,
                        P!KeepStep, EntryTypes
  <1>3. CASE P!Next
    BY <1>2, <1>3, OrdinanceLoadKeeps, MoaMoveKeeps, OrdinanceCommitKeeps, MoaCommitKeeps, KeepLoadKeeps, DeleteRowKeeps,
       KeepCommitKeeps, DeleteFileKeeps, FailKeeps DEF P!Next
  <1> QED
    BY <1>1, <1>3

LEMMA EntriesHave == TemporaryInv => P!EntriesHaveTheirs
  <1> SUFFICES ASSUME TemporaryInv, NEW e \in Entries, P!Set(e), P!IsMoa(e)
               PROVE  rows[e].file \in files /\ \A f \in Entries \ {e} : P!Set(f) => rows[f].file # rows[e].file
    BY DEF P!EntriesHaveTheirs, P!MoaHasFile, TemporaryInv
  <1>1. Moa(e) /\ rows[e].file \in files /\ rows[e].file # None
    <2>1. None \notin Uploads
      BY Instances DEF P!NoneAssumption
    <2>2. Moa(e)
      BY DEF Moa, P!Set, P!IsMoa
    <2> QED
      BY <2>1, <2>2 DEF TemporaryInv, EntryKinds
  <1> QED
    BY <1>1 DEF TemporaryInv, EntryKinds, OneOwner, Moa, P!Set

(* The file of a MOA that is set or archived is there, and no other        *)
(* entry's, and an ordinance is set once for a day, whichever steps fail   *)
(* or overlap (temporary_documents.py add_ordinance, add_moa,              *)
(* delete_entry).                                                          *)
THEOREM EntriesKeepTheirs == P!Spec => []P!EntriesHaveTheirs
  <1>1. TemporaryInv /\ [P!Next]_P!vars => TemporaryInv'
    BY Instances, TemporaryNext
  <1>2. P!Init => TemporaryInv
    BY Instances, TemporaryInit
  <1> QED
    BY <1>1, <1>2, EntriesHave, PTL DEF P!Spec

(* Keeping an entry longer gives it the days of TEMPORARY_KEEP_DAYS at     *)
(* least, unless two requests keep it at once (temporary_documents.py      *)
(* keep_longer).                                                           *)
THEOREM KeptLonger == P!Spec => [][P!KeepStep]_P!vars
  <1>1. TemporaryInv /\ [P!Next]_P!vars => TemporaryInv' /\ [P!KeepStep]_P!vars
    BY Instances, TemporaryNext
  <1>2. P!Init => TemporaryInv
    BY Instances, TemporaryInit
  <1> QED
    BY <1>1, <1>2, PTL DEF P!Spec

-----------------------------------------------------------------------------
(***************************************************************************)
(* Retention.  Until another request commits, an extension still is of an  *)
(* archived document and later than its date, and a restore clears what is *)
(* there.                                                                  *)
(***************************************************************************)
Dates == (1 .. Len(Lengths)) \X (1 .. 31)
DocRow == [archived : BOOLEAN, at : Dates \cup {K!Never}, extended : Dates \cup {K!Never}]
RetentionJob == [op : {"idle", "archive", "restore", "extend"}, until : Dates \cup {K!Never}, fresh : BOOLEAN]

Dated(x) == x = K!Never \/ K!IsDate(x)

LoadedDate(req) ==
    /\ Dated(req.until)
    /\ req.op = "archive" => K!IsDate(req.until)
    /\ req.op = "restore" /\ req.fresh => req.until = retained.extended
    /\ req.op = "extend" => K!IsDate(req.until)
    /\ req.op = "extend" /\ req.fresh => retained.archived /\ K!Earlier(K!retain_until(retained, months), req.until)
     
RetentionInv ==
    /\ K!TypeOK /\ now \in Dates /\ retained \in DocRow /\ jobs \in [Slots -> RetentionJob]
    /\ retained.archived => K!IsDate(retained.at)
    /\ \A r \in Slots : LoadedDate(jobs[r])
    /\ K!ExtensionOfThisArchive

(* The dates of a calendar, and months added to one. *)
LEMMA DatesAre ==
    ASSUME K!MonthsAssumption
    PROVE  /\ Len(Lengths) \in Nat /\ DOMAIN Lengths = 1 .. Len(Lengths)
           /\ \A m \in 1 .. Len(Lengths) : Lengths[m] \in 1 .. 31
           /\ \A x : K!IsDate(x) <=> x[1] \in 1 .. Len(Lengths) /\ x[2] \in 1 .. Lengths[x[1]]
           /\ ~K!IsDate(K!Never) /\ K!Never[1] = 0 /\ K!Never[2] = 0
  <1>1. Len(Lengths) \in Nat /\ DOMAIN Lengths = 1 .. Len(Lengths) /\ \A m \in 1 .. Len(Lengths) : Lengths[m] \in 1 .. 31
    <2>1. Lengths \in Seq(1 .. 31)
      BY DEF K!MonthsAssumption
    <2> QED
      BY <2>1, LenProperties, ElementOfSeq
  <1>2. ASSUME NEW x
        PROVE  K!IsDate(x) <=> x[1] \in 1 .. Len(Lengths) /\ x[2] \in 1 .. Lengths[x[1]]
    BY Zenon, <1>1 DEF K!IsDate
  <1>3. K!Never[1] = 0 /\ K!Never[2] = 0
    BY DEF K!Never
  <1>4. ~K!IsDate(K!Never)
    BY <1>1, <1>2, <1>3
  <1> QED
    BY <1>1, <1>2, <1>3, <1>4

LEMMA MomentsAre == ASSUME K!MonthsAssumption, NEW x \in Times, K!IsDate(x) PROVE x \in Dates
  <1>1. x \in Nat \X Nat
    <2>1. Times \subseteq Nat \X Nat
      BY Zenon DEF K!MonthsAssumption
    <2> QED
      BY <2>1
  <1>2. x[1] \in 1 .. Len(Lengths) /\ x[2] \in 1 .. Lengths[x[1]] /\ Lengths[x[1]] \in 1 .. 31
    BY DatesAre
  <1>3. x[2] \in 1 .. 31
    <2>1. ASSUME NEW last \in 1 .. 31, NEW day \in 1 .. last PROVE day \in 1 .. 31
      OBVIOUS
    <2> QED
      BY <1>2, <2>1
  <1> QED
    BY <1>1, <1>2, <1>3 DEF Dates

LEMMA AddedDate ==
    ASSUME K!MonthsAssumption, NEW x \in Dates, K!IsDate(x), NEW n \in Nat, x[1] + n \in DOMAIN Lengths
    PROVE  K!IsDate(K!add_months(x, n)) /\ K!add_months(x, n) \in Dates /\ K!add_months(x, n)[1] = x[1] + n
  <1> DEFINE k == x[1] + n
             d == K!Smaller(x[2], Lengths[k])
  <1>1. /\ x[1] \in 1 .. Len(Lengths) /\ x[2] \in 1 .. Lengths[x[1]] /\ Lengths[x[1]] \in 1 .. 31
        /\ k \in 1 .. Len(Lengths) /\ Lengths[k] \in 1 .. 31
    BY DatesAre
  <1>2. d \in 1 .. Lengths[k] /\ d \in 1 .. 31
    <2>1. ASSUME NEW a \in 1 .. 31, NEW b \in 1 .. 31
          PROVE  K!Smaller(a, b) \in 1 .. b /\ K!Smaller(a, b) \in 1 .. 31
      BY DEF K!Smaller
    <2>2. x[2] \in 1 .. 31
      BY DEF Dates
    <2> QED
      BY <1>1, <2>1, <2>2
  <1>3. K!add_months(x, n) = <<k, d>>
    BY DEF K!add_months
  <1> HIDE DEF k, d
  <1>4. <<k, d>>[1] = k /\ <<k, d>>[2] = d
    OBVIOUS
  <1>5. K!IsDate(<<k, d>>) /\ <<k, d>> \in Dates
    BY <1>1, <1>2, <1>4, DatesAre DEF Dates
  <1> QED
    BY <1>3, <1>4, <1>5 DEF k

LEMMA RetentionInit == ASSUME K!MonthsAssumption, K!Init PROVE RetentionInv
  <1>1. K!Idle \in RetentionJob /\ K!Idle.op = "idle" /\ K!Idle.until = K!Never
    BY DEF K!Idle, RetentionJob
  <1>2. jobs \in [Slots -> RetentionJob] /\ \A r \in Slots : jobs[r] = K!Idle
    BY <1>1 DEF K!Init
  <1>3. retained \in DocRow /\ ~retained.archived /\ retained.at = K!Never /\ retained.extended = K!Never
    BY DEF K!Init, DocRow
  <1>4. K!TypeOK
    BY <1>1, <1>2, <1>3 DEF K!TypeOK, K!Init, DocRow
  <1>5. now \in Dates
    BY MomentsAre DEF K!Init
  <1>6. \A r \in Slots : LoadedDate(jobs[r])
    BY <1>1, <1>2 DEF LoadedDate, Dated
  <1> QED
    BY <1>3, <1>2, <1>4, <1>5, <1>6 DEF RetentionInv, K!ExtensionOfThisArchive

(* A date of retention, and one that extends it.                           *)
LEMMA ExtendedDate ==
    ASSUME K!MonthsAssumption, RetentionInv, NEW n \in Nat \ {0}, K!retain_until(retained, months) # K!Never,
           K!Latest(K!retain_until(retained, months), now)[1] + n \in DOMAIN Lengths
    PROVE  LET until == K!add_months(K!Latest(K!retain_until(retained, months), now), n)
           IN  /\ until \in Dates /\ K!IsDate(until)
               /\ retained.archived /\ K!Earlier(K!retain_until(retained, months), until)
  <1> DEFINE due == K!retain_until(retained, months)
             from == K!Latest(due, now)
             until == K!add_months(from, n)
  <1>1. retained.archived /\ months \in Nat /\ K!IsDate(retained.at) /\ retained.at \in Dates
    <2>1. retained.archived
      BY DEF K!retain_until, RetentionInv, DocRow
    <2>2. months \in Nat
      BY DEF RetentionInv, K!TypeOK, K!MonthsAssumption, K!Permanent
    <2>3. retained.at \in Dates \cup {K!Never} /\ K!IsDate(retained.at)
      BY <2>1 DEF RetentionInv, DocRow
    <2> QED
      BY <2>1, <2>2, <2>3, DatesAre
  <1>2. due = K!Latest(K!add_months(retained.at, months), retained.extended)
    BY DEF K!retain_until
  <1>3. due = K!add_months(retained.at, months) \/ (due = retained.extended /\ K!IsDate(due) /\ due \in Dates)
    <2>1. due = retained.extended => (K!IsDate(due) /\ due \in Dates)
      BY DEF RetentionInv, K!TypeOK, DocRow
    <2> QED
      BY <1>2, <2>1 DEF K!Latest
  <1>4. due[1] \in Nat
    <2>1. K!add_months(retained.at, months)[1] = retained.at[1] + months
      BY DEF K!add_months
    <2> QED
      BY <1>1, <1>3, <2>1, DatesAre
  <1>5. now \in Dates /\ K!IsDate(now) /\ now[1] \in Nat
    BY DatesAre DEF RetentionInv, K!TypeOK
  <1>6. (from = due \/ from = now) /\ due[1] =< from[1]
    BY <1>4, <1>5 DEF K!Latest, K!Earlier
  <1>7. from \in Dates /\ K!IsDate(from)
    <2>1. CASE from = now
      BY <1>5, <2>1
    <2>2. CASE from = due /\ due = retained.extended /\ K!IsDate(due) /\ due \in Dates
      BY <2>2
    <2>3. CASE from = due /\ due = K!add_months(retained.at, months)
      <3>1. due[1] = retained.at[1] + months
        BY <2>3 DEF K!add_months
      <3>2. due[1] + n \in 1 .. Len(Lengths)
        BY <2>3, DatesAre
      <3>3. retained.at[1] + months \in DOMAIN Lengths
        BY <1>1, <3>1, <3>2, DatesAre
      <3> QED
        BY <1>1, <2>3, <3>3, AddedDate
    <2> QED
      BY <1>3, <1>6, <2>1, <2>2, <2>3
  <1>8. until \in Dates /\ K!IsDate(until) /\ until[1] = from[1] + n
    BY <1>7, AddedDate
  <1>9. K!Earlier(due, until)
    BY <1>4, <1>6, <1>7, <1>8, DatesAre DEF K!Earlier
  <1> QED
    BY <1>1, <1>8, <1>9

RetentionTypes == /\ now \in Dates /\ K!IsDate(now) /\ months \in Periods \cup {K!Permanent}
                  /\ retained \in DocRow /\ Dated(retained.at) /\ Dated(retained.extended) /\ overtaken \in BOOLEAN
                  /\ jobs \in [Slots -> RetentionJob]
LEMMA RetentionTyped == RetentionInv => RetentionTypes
  BY DEF RetentionInv, RetentionTypes, K!TypeOK, Dated
LEMMA TypesOfRetention == ASSUME RetentionTypes' PROVE K!TypeOK'
  <1>1. \A r \in Slots : jobs'[r].op \in {"idle", "archive", "restore", "extend"}
    BY DEF RetentionTypes, RetentionJob
  <1> QED
    BY <1>1 DEF RetentionTypes, K!TypeOK, Dated, DocRow

(* A request loads the document.                                           *)
LEMMA DateLoaded ==
    ASSUME RetentionInv, NEW r \in Slots, NEW req \in RetentionJob, LoadedDate(req), K!Load(r, req)
    PROVE  RetentionInv' /\ K!ExtendStep
  <1>1. jobs' = [jobs EXCEPT ![r] = req] /\ UNCHANGED <<now, months, retained, overtaken>>
    BY DEF K!Load
  <1>2. RetentionTypes'
    BY <1>1, RetentionTyped DEF RetentionTypes, Dated, K!IsDate
  <1>3. ASSUME NEW q \in Slots
        PROVE  LoadedDate(jobs[q])'
    <2>1. jobs'[q] = req \/ jobs'[q] = jobs[q]
      BY <1>1, RetentionTyped DEF RetentionTypes
    <2>2. PICK j : j = jobs'[q] /\ LoadedDate(j)
      BY <2>1 DEF RetentionInv
    <2> QED
      BY <1>1, <2>2 DEF LoadedDate, Dated, K!IsDate, K!retain_until, K!Earlier, K!Latest, K!add_months
  <1> QED
    BY <1>1, <1>2, <1>3, TypesOfRetention, RetentionTyped
       DEF RetentionInv, RetentionTypes, K!ExtensionOfThisArchive, K!ExtendStep, K!IsDate

(* What the others have when one commits or the period changes: they are   *)
(* not fresh any more.                                                     *)
Passed(r) == jobs' = [q \in Slots |-> IF q = r \/ jobs[q].op = "idle" THEN K!Idle ELSE [jobs[q] EXCEPT !.fresh = FALSE]]
LEMMA Outdated ==
    ASSUME RetentionInv, NEW r, Passed(r)
    PROVE  jobs' \in [Slots -> RetentionJob] /\ \A q \in Slots : LoadedDate(jobs[q])'
  <1>1. K!Idle \in RetentionJob /\ K!Idle.op = "idle" /\ K!Idle.until = K!Never
    BY DEF K!Idle, RetentionJob
  <1>2. ASSUME NEW q \in Slots
        PROVE  /\ [jobs[q] EXCEPT !.fresh = FALSE] \in RetentionJob
               /\ [jobs[q] EXCEPT !.fresh = FALSE].fresh = FALSE
               /\ [jobs[q] EXCEPT !.fresh = FALSE].op = jobs[q].op
               /\ [jobs[q] EXCEPT !.fresh = FALSE].until = jobs[q].until
    BY RetentionTyped DEF RetentionTypes, RetentionJob
  <1>3. jobs' \in [Slots -> RetentionJob]
    BY <1>1, <1>2 DEF Passed
  <1>4. ASSUME NEW q \in Slots
        PROVE  LoadedDate(jobs[q])'
    <2>1. LoadedDate(jobs[q])
      BY DEF RetentionInv
    <2>2. \/ jobs'[q] = K!Idle
          \/ jobs'[q].fresh = FALSE /\ jobs'[q].op = jobs[q].op /\ jobs'[q].until = jobs[q].until
      BY <1>2 DEF Passed
    <2> QED
      BY <1>1, <2>1, <2>2 DEF LoadedDate, Dated, K!IsDate
  <1> QED
    BY <1>3, <1>4

LEMMA DateCommitted ==
    ASSUME RetentionInv, NEW r \in Slots, K!Commit(r)
    PROVE  /\ Passed(r) /\ overtaken' \in BOOLEAN /\ (~overtaken' => ~overtaken /\ jobs[r].fresh) /\ UNCHANGED <<now, months>>
           /\ \A q \in Slots : LoadedDate(jobs[q])'
  <1>1. jobs[r].fresh \in BOOLEAN /\ overtaken \in BOOLEAN
    BY RetentionTyped DEF RetentionTypes, RetentionJob
  <1>2. overtaken' = (overtaken \/ ~jobs[r].fresh) /\ UNCHANGED <<now, months>> /\ Passed(r)
    BY DEF K!Commit, Passed
  <1> QED
    BY <1>1, <1>2, Outdated

LEMMA ArchiveKeeps ==
    ASSUME RetentionInv, NEW r \in Slots, K!ArchiveCommit(r)
    PROVE  RetentionInv' /\ K!ExtendStep
  <1>1. K!Commit(r) /\ retained' = [retained EXCEPT !.archived = TRUE, !.at = jobs[r].until]
    BY DEF K!ArchiveCommit
  <1>2. K!IsDate(jobs[r].until) /\ jobs[r].until \in Dates \cup {K!Never} /\ retained \in DocRow
    BY RetentionTyped DEF K!ArchiveCommit, RetentionInv, LoadedDate, RetentionTypes, RetentionJob
  <1>3. retained' \in DocRow /\ retained'.archived = TRUE /\ retained'.at = jobs[r].until /\ retained'.extended = retained.extended
    BY <1>1, <1>2 DEF DocRow
  <1>4. RetentionTypes'
    BY <1>1, <1>2, <1>3, RetentionTyped, DateCommitted, Outdated DEF RetentionTypes, Dated, K!IsDate
  <1>5. K!IsDate(retained.at)'
    BY <1>2, <1>3 DEF K!IsDate
  <1> QED
    BY <1>1, <1>3, <1>4, <1>5, DateCommitted, TypesOfRetention
       DEF RetentionInv, RetentionTypes, K!ExtensionOfThisArchive, K!ExtendStep

LEMMA RestoreKeeps ==
    ASSUME RetentionInv, NEW r \in Slots, K!RestoreCommit(r)
    PROVE  RetentionInv' /\ K!ExtendStep
  <1>1. /\ K!Commit(r) /\ jobs[r].op = "restore"
        /\ retained' = [archived |-> FALSE, at |-> K!Never,
                   extended |-> IF jobs[r].until = K!Never THEN retained.extended ELSE K!Never]
    BY DEF K!RestoreCommit
  <1>2. retained \in DocRow /\ Dated(retained.extended)
    BY RetentionTyped DEF RetentionTypes
  <1>3. /\ retained' \in DocRow /\ retained'.archived = FALSE /\ retained'.at = K!Never
        /\ retained'.extended = retained.extended \/ retained'.extended = K!Never
    BY <1>1, <1>2 DEF DocRow
  <1>4. RetentionTypes'
    BY <1>1, <1>2, <1>3, RetentionTyped, DateCommitted, Outdated DEF RetentionTypes, Dated, K!IsDate
  <1>5. ~overtaken' => retained'.extended = K!Never
    <2>1. jobs[r].fresh => jobs[r].until = retained.extended
      BY <1>1 DEF RetentionInv, LoadedDate
    <2> QED
      BY <1>1, <2>1, DateCommitted
  <1> QED
    BY <1>1, <1>3, <1>4, <1>5, DateCommitted, TypesOfRetention
       DEF RetentionInv, RetentionTypes, K!ExtensionOfThisArchive, K!ExtendStep

LEMMA ExtendKeeps ==
    ASSUME RetentionInv, NEW r \in Slots, K!ExtendCommit(r)
    PROVE  RetentionInv' /\ K!ExtendStep
  <1>1. K!Commit(r) /\ jobs[r].op = "extend" /\ retained' = [retained EXCEPT !.extended = jobs[r].until]
    BY DEF K!ExtendCommit
  <1>2. /\ K!IsDate(jobs[r].until) /\ jobs[r].until \in Dates \cup {K!Never} /\ retained \in DocRow
        /\ jobs[r].fresh => retained.archived /\ K!Earlier(K!retain_until(retained, months), jobs[r].until)
    BY <1>1, RetentionTyped DEF RetentionInv, LoadedDate, RetentionTypes, RetentionJob
  <1>3. /\ retained' \in DocRow /\ retained'.archived = retained.archived /\ retained.archived \in BOOLEAN
        /\ retained'.at = retained.at /\ retained'.extended = jobs[r].until
    BY <1>1, <1>2 DEF DocRow
  <1>4. RetentionTypes'
    BY <1>1, <1>2, <1>3, RetentionTyped, DateCommitted, Outdated DEF RetentionTypes, Dated, K!IsDate
  <1>5. K!ExtendStep
    BY <1>1, <1>2, <1>3, DateCommitted DEF K!ExtendStep
  <1>6. K!ExtensionOfThisArchive'
    BY <1>1, <1>2, <1>3, DateCommitted DEF K!ExtensionOfThisArchive
  <1>7. (retained.archived => K!IsDate(retained.at))'
    BY <1>3 DEF RetentionInv, K!IsDate
  <1> QED
    BY <1>1, <1>4, <1>5, <1>6, <1>7, DateCommitted, TypesOfRetention DEF RetentionInv, RetentionTypes

LEMMA RetentionNext ==
    ASSUME K!MonthsAssumption, RetentionInv, [K!Next]_K!vars
    PROVE  RetentionInv' /\ K!ExtendStep
  <1> USE RetentionTyped
  <1>1. CASE UNCHANGED K!vars
    <2>1. UNCHANGED <<now, months, retained, overtaken, jobs>>
      BY <1>1 DEF K!vars
    <2>2. RetentionTypes'
      BY <2>1 DEF RetentionTypes, Dated, K!IsDate
    <2>3. \A r \in Slots : LoadedDate(jobs[r])'
      BY <2>1 DEF RetentionInv, LoadedDate, Dated, K!IsDate, K!retain_until, K!Earlier, K!Latest, K!add_months
    <2> QED
      BY <2>1, <2>2, <2>3, TypesOfRetention
         DEF RetentionInv, RetentionTypes, K!ExtensionOfThisArchive, K!ExtendStep, K!IsDate
  <1>2. ASSUME NEW x \in Times, K!IsDate(x), K!Pass(x)
        PROVE  RetentionInv' /\ K!ExtendStep
    <2>1. now' = x /\ UNCHANGED <<months, retained, overtaken, jobs>>
      BY <1>2 DEF K!Pass
    <2>2. RetentionTypes'
      BY <1>2, <2>1, MomentsAre DEF RetentionTypes, Dated, K!IsDate
    <2>3. \A r \in Slots : LoadedDate(jobs[r])'
      BY <2>1 DEF RetentionInv, LoadedDate, Dated, K!IsDate, K!retain_until, K!Earlier, K!Latest, K!add_months
    <2> QED
      BY <2>1, <2>2, <2>3, TypesOfRetention
         DEF RetentionInv, RetentionTypes, K!ExtensionOfThisArchive, K!ExtendStep, K!IsDate
  <1>3. ASSUME NEW m \in Periods \cup {K!Permanent}, K!update_system_settings(m)
        PROVE  RetentionInv' /\ K!ExtendStep
    <2> DEFINE nobody == CHOOSE r : r \notin Slots
    <2>1. months' = m /\ UNCHANGED <<now, retained, overtaken>> /\ Passed(nobody)
      <3>1. nobody \notin Slots
        BY NoSetContainsEverything
      <3> QED
        BY <1>3, <3>1 DEF K!update_system_settings, K!Overtake, Passed
    <2>2. RetentionTypes' /\ \A q \in Slots : LoadedDate(jobs[q])'
      BY <1>3, <2>1, Outdated DEF RetentionTypes, Dated, K!IsDate
    <2> QED
      BY <2>1, <2>2, TypesOfRetention
         DEF RetentionInv, RetentionTypes, K!ExtensionOfThisArchive, K!ExtendStep, K!IsDate
  <1>4. ASSUME NEW r \in Slots, K!ArchiveLoad(r)
        PROVE  RetentionInv' /\ K!ExtendStep
    <2> DEFINE req == [K!Idle EXCEPT !.op = "archive", !.until = now]
    <2>1. req \in RetentionJob /\ req.op = "archive" /\ req.until = now
      BY DEF RetentionTypes, K!Idle, RetentionJob
    <2>2. K!Load(r, req)
      BY <1>4 DEF K!ArchiveLoad
    <2> HIDE DEF req
    <2>3. LoadedDate(req)
      BY <2>1 DEF LoadedDate, Dated, RetentionTypes
    <2> QED
      BY <2>1, <2>2, <2>3, DateLoaded
  <1>5. ASSUME NEW r \in Slots, K!RestoreLoad(r)
        PROVE  RetentionInv' /\ K!ExtendStep
    <2> DEFINE req == [K!Idle EXCEPT !.op = "restore", !.until = retained.extended]
    <2>1. req \in RetentionJob /\ req.op = "restore" /\ req.until = retained.extended
      BY DEF RetentionTypes, K!Idle, RetentionJob, DocRow
    <2>2. K!Load(r, req)
      BY <1>5 DEF K!RestoreLoad
    <2> HIDE DEF req
    <2>3. LoadedDate(req)
      BY <2>1 DEF LoadedDate, RetentionTypes
    <2> QED
      BY <2>1, <2>2, <2>3, DateLoaded
  <1>6. ASSUME NEW r \in Slots, NEW n \in Extensions, K!ExtendLoad(r, n)
        PROVE  RetentionInv' /\ K!ExtendStep
    <2> DEFINE due == K!retain_until(retained, months)
               until == K!add_months(K!Latest(due, now), n)
               req == [K!Idle EXCEPT !.op = "extend", !.until = until]
    <2>1. n \in Nat \ {0}
      BY Zenon DEF K!MonthsAssumption
    <2>2. due # K!Never /\ K!Latest(due, now)[1] + n \in DOMAIN Lengths /\ K!Load(r, req)
      BY <1>6 DEF K!ExtendLoad
    <2>3. until \in Dates /\ K!IsDate(until) /\ retained.archived /\ K!Earlier(due, until)
      BY <2>1, <2>2, ExtendedDate
    <2> HIDE DEF until, due
    <2>4. req \in RetentionJob /\ req.op = "extend" /\ req.until = until
      BY <2>3 DEF K!Idle, RetentionJob
    <2> HIDE DEF req
    <2>5. LoadedDate(req)
      BY <2>3, <2>4 DEF LoadedDate, Dated, due
    <2> QED
      BY <2>2, <2>4, <2>5, DateLoaded
  <1>7. CASE K!Next
    BY <1>2, <1>3, <1>4, <1>5, <1>6, <1>7, ArchiveKeeps, RestoreKeeps, ExtendKeeps DEF K!Next
  <1> QED
    BY <1>1, <1>7

(* A document begins its retention without an extension from an earlier    *)
(* archiving, unless a request was overtaken (documents.py                 *)
(* archive_document, restore_document; retention.py extend_retention).     *)
THEOREM ExtensionsAreOfThisArchive == K!Spec => []K!ExtensionsEnd
  <1>1. RetentionInv => K!ExtensionsEnd
    BY DEF RetentionInv, K!ExtensionsEnd
  <1>2. RetentionInv /\ [K!Next]_K!vars => RetentionInv'
    BY Instances, RetentionNext
  <1>3. K!Init => RetentionInv
    BY Instances, RetentionInit
  <1> QED
    BY <1>1, <1>2, <1>3, PTL DEF K!Spec

(* Extending keeps a document longer, whatever days its months have,       *)
(* unless the request was overtaken (retention.py retain_until,            *)
(* add_months; documents.py extend_retention).                             *)
THEOREM ExtendingIsLonger == K!Spec => [][K!ExtendStep]_K!vars
  <1>1. RetentionInv /\ [K!Next]_K!vars => RetentionInv' /\ [K!ExtendStep]_K!vars
    BY Instances, RetentionNext
  <1>2. K!Init => RetentionInv
    BY Instances, RetentionInit
  <1> QED
    BY <1>1, <1>2, PTL DEF K!Spec

-----------------------------------------------------------------------------
(***************************************************************************)
(* The parts together.  A run takes the steps of one part, and the         *)
(* invariant of that part holds.                                           *)
(***************************************************************************)
ListsInv == /\ part = "todays" => TodaysInv
            /\ part = "temporary" => TemporaryInv
            /\ part = "retention" => RetentionInv
            /\ part = "nightly" => NightlyInv

LEMMA ListsStart == PartsInit => ListsInv
  <1> SUFFICES ASSUME PartsInit PROVE ListsInv
    OBVIOUS
  <1>1. part = "todays" => TodaysInv
    BY TodaysStart DEF PartsInit
  <1>2. part = "temporary" => TemporaryInv
    BY Instances, TemporaryInit DEF PartsInit
  <1>3. part = "retention" => RetentionInv
    BY Instances, RetentionInit DEF PartsInit
  <1>4. part = "nightly" => NightlyInv
    BY NightlyStart DEF PartsInit
  <1> QED
    BY <1>1, <1>2, <1>3, <1>4 DEF ListsInv

LEMMA PartsStep ==
    ASSUME [PartsNext]_parts
    PROVE  /\ part' = part
           /\ part = "todays" => (T!Next \/ UNCHANGED T!vars)
           /\ part = "temporary" => [P!Next]_P!vars
           /\ part = "retention" => [K!Next]_K!vars
           /\ part = "nightly" => (Nightly!Next \/ UNCHANGED Nightly!vars)
  <1>1. part' = part
    BY DEF PartsNext, parts
  <1>2. part = "todays" => (T!Next \/ UNCHANGED T!vars)
    BY DEF PartsNext, parts, todaysVars, T!vars
  <1>3. part = "temporary" => [P!Next]_P!vars
    BY DEF PartsNext, parts, temporaryVars, P!vars
  <1>4. part = "retention" => [K!Next]_K!vars
    BY DEF PartsNext, parts, retentionVars, K!vars
  <1>5. part = "nightly" => (Nightly!Next \/ UNCHANGED Nightly!vars)
    BY DEF PartsNext, parts, nightlyVars, Nightly!vars
  <1> QED
    BY <1>1, <1>2, <1>3, <1>4, <1>5

ListsStep == /\ part = "todays" => T!OrderStep
             /\ part = "temporary" => P!KeepStep
             /\ part = "retention" => K!ExtendStep

LEMMA ListsNext == ListsInv /\ [PartsNext]_parts => ListsInv' /\ ListsStep
  <1> SUFFICES ASSUME ListsInv, [PartsNext]_parts PROVE ListsInv' /\ ListsStep
    OBVIOUS
  <1> USE PartsStep
  <1>1. part = "todays" => TodaysInv' /\ T!OrderStep
    BY TodaysStep DEF ListsInv
  <1>2. part = "temporary" => TemporaryInv' /\ P!KeepStep
    BY Instances, TemporaryNext DEF ListsInv
  <1>3. part = "retention" => RetentionInv' /\ K!ExtendStep
    BY Instances, RetentionNext DEF ListsInv
  <1>4. part = "nightly" => NightlyInv'
    BY NightlyStep DEF ListsInv
  <1> QED
    BY <1>1, <1>2, <1>3, <1>4 DEF ListsInv, ListsStep

(* The list of a day is in one order, an entry has its file or its         *)
(* ordinance, no extension outlives its archiving, and the newest backup   *)
(* lasts, for any number of documents, entries, requests, days and months  *)
(* (todays_documents.py, temporary_documents.py, retention.py, backup.py). *)
THEOREM ListsLast == PartsSpec => []ListsAreKept
  <1>1. ListsInv => ListsAreKept
    <2> SUFFICES ASSUME ListsInv PROVE ListsAreKept
      OBVIOUS
    <2>1. part = "todays" => T!OrderIsOne
      BY DayTyped DEF ListsInv, TodaysInv, T!OrderIsOne
    <2>2. part = "temporary" => P!EntriesHaveTheirs
      BY EntriesHave DEF ListsInv
    <2>3. part = "retention" => K!ExtensionsEnd
      BY DEF ListsInv, RetentionInv, K!ExtensionsEnd
    <2>4. part = "nightly" => Nightly!BackupsLast
      BY HealthyIsRecent DEF ListsInv
    <2> QED
      BY <2>1, <2>2, <2>3, <2>4 DEF ListsAreKept
  <1>2. ListsInv /\ [PartsNext]_parts => ListsInv'
    BY ListsNext
  <1> QED
    BY <1>1, <1>2, ListsStart, PTL DEF PartsSpec

(* Adding and removing an entry keep the others in their order, keeping an *)
(* entry longer gives it days, and extending a retention is to a later     *)
(* date (add_todays_document, keep_longer, extend_retention), unless the   *)
(* request was overtaken.                                                  *)
THEOREM ListsChangeRightly == PartsSpec => ListsChangeAsAsked
  <1>1. ListsInv /\ [PartsNext]_parts => ListsInv'
    BY ListsNext
  <1>2. ListsInv /\ [PartsNext]_parts =>
          /\ part = "todays" => T!OrderStep
          /\ part = "temporary" => P!KeepStep
          /\ part = "retention" => K!ExtendStep
    BY ListsNext DEF ListsStep
  <1> QED
    BY <1>1, <1>2, ListsStart, PTL DEF PartsSpec, ListsChangeAsAsked
=============================================================================
