------------------------------- MODULE Todays -------------------------------
(***************************************************************************)
(* The list of documents set for SB Members on one day, and its order,     *)
(* from Backends/backend/routes/todays_documents.py.                       *)
(*                                                                         *)
(* Adding a document gives every other entry the position it has in the    *)
(* list as loaded, and writes the ones that differ; so does reordering.    *)
(* An entry that is gone by then fails the request.  Days past, notes and  *)
(* the audit row are left out.                                             *)
(***************************************************************************)
EXTENDS Naturals, FiniteSets

CONSTANTS Docs,      \* documents; archived ones cannot be set
          Requests,  \* slots for requests the server runs at one time
          MaxId      \* BOUND: entries

MaxIdAssumption == MaxId \in Nat \ {0}

VARIABLES entries,    \* the rows of todays_documents for the day
          gone,       \* documents deleted or archived
          lastId,
          overtaken,  \* history: a request committed after another that it did not see
          reqs        \* what each request is about to write

vars == <<entries, gone, lastId, overtaken, reqs>>

Ids == 1 .. MaxId
Positions == 0 .. MaxId
NoDoc == "no document"
(* to: the positions it writes. *)
Idle == [op |-> "idle", doc |-> NoDoc, at |-> 0, to |-> << >>, fresh |-> TRUE]

TypeOK ==
    /\ entries \subseteq [id : Ids, doc : Docs, position : Positions]
    /\ gone \subseteq Docs
    /\ lastId \in 0 .. MaxId
    /\ overtaken \in BOOLEAN
    /\ \A r \in Requests : /\ reqs[r].op \in {"idle", "add", "reorder"}
                           /\ DOMAIN reqs[r].to \subseteq Ids /\ reqs[r].at \in Positions

Init == /\ entries = {} /\ gone = {} /\ lastId = 0 /\ overtaken = FALSE
        /\ reqs = [r \in Requests |-> Idle]

(* By position, then id: how many come before e in the list. *)
Before(e, f) == e.position < f.position \/ (e.position = f.position /\ e.id < f.id)
Index(e) == Cardinality({f \in entries : Before(f, e)})
IdsOf(rows) == {e.id : e \in rows}
Entry(i) == CHOOSE e \in entries : e.id = i
Set(rows, d) == \E e \in rows : e.doc = d

Commit(r) == /\ overtaken' = (overtaken \/ ~reqs[r].fresh)
             /\ reqs' = [q \in Requests |-> IF q = r \/ reqs[q].op = "idle" THEN Idle ELSE [reqs[q] EXCEPT !.fresh = FALSE]]

\* MUTANT: the others are taken in the order they were added in.
AddLoadById(r, d, p) ==
    LET index(e) == Cardinality({f \in entries : f.id < e.id})
        at == IF p > Cardinality(entries) THEN Cardinality(entries) ELSE p
        new(e) == IF index(e) >= at THEN index(e) + 1 ELSE index(e) IN
    /\ reqs[r].op = "idle"
    /\ d \notin gone /\ ~Set(entries, d)
    /\ reqs' = [reqs EXCEPT ![r] = [Idle EXCEPT !.op = "add", !.doc = d, !.at = at,
                                    !.to = [i \in IdsOf(entries) |-> new(Entry(i))]]]
    /\ UNCHANGED <<entries, gone, lastId, overtaken>>
(* At position p, or at the end when there are fewer. *)
AddLoad(r, d, p) ==
    LET at == IF p > Cardinality(entries) THEN Cardinality(entries) ELSE p
        new(e) == IF Index(e) >= at THEN Index(e) + 1 ELSE Index(e)
        changed == {e \in entries : new(e) # e.position} IN
    /\ reqs[r].op = "idle"
    /\ d \notin gone /\ ~Set(entries, d)
    /\ reqs' = [reqs EXCEPT ![r] = [Idle EXCEPT !.op = "add", !.doc = d, !.at = at,
                                    !.to = [i \in IdsOf(changed) |-> new(Entry(i))]]]
    /\ UNCHANGED <<entries, gone, lastId, overtaken>>

(* The order lists every entry once. *)
ReorderLoad(r, order) ==
    LET index(i) == (CHOOSE k \in DOMAIN order : order[k] = i) - 1
        changed == {e \in entries : index(e.id) # e.position} IN
    /\ reqs[r].op = "idle" /\ entries # {}
    /\ reqs' = [reqs EXCEPT ![r] = [Idle EXCEPT !.op = "reorder", !.to = [i \in IdsOf(changed) |-> index(i)]]]
    /\ UNCHANGED <<entries, gone, lastId, overtaken>>

Moved(to) == {IF e.id \in DOMAIN to THEN [e EXCEPT !.position = to[e.id]] ELSE e : e \in entries}
Writes(r) == DOMAIN reqs[r].to \subseteq IdsOf(entries)

AddCommit(r) ==
    /\ reqs[r].op = "add" /\ Writes(r)
    /\ reqs[r].doc \notin gone /\ ~Set(entries, reqs[r].doc)
    /\ lastId < MaxId /\ lastId' = lastId + 1
    /\ entries' = Moved(reqs[r].to) \cup {[id |-> lastId + 1, doc |-> reqs[r].doc, position |-> reqs[r].at]}
    /\ Commit(r)
    /\ UNCHANGED gone

ReorderCommit(r) ==
    /\ reqs[r].op = "reorder" /\ Writes(r)
    /\ entries' = Moved(reqs[r].to)
    /\ Commit(r)
    /\ UNCHANGED <<gone, lastId>>

Fail(r) ==
    /\ reqs[r].op # "idle"
    /\ \/ ~Writes(r)
       \/ reqs[r].op = "add" /\ (reqs[r].doc \in gone \/ Set(entries, reqs[r].doc))
    /\ reqs' = [reqs EXCEPT ![r] = Idle]
    /\ UNCHANGED <<entries, gone, lastId, overtaken>>

Overtake == reqs' = [q \in Requests |-> IF reqs[q].op = "idle" THEN Idle ELSE [reqs[q] EXCEPT !.fresh = FALSE]]

remove_todays_document(e) ==
    /\ entries' = entries \ {e}
    /\ Overtake
    /\ UNCHANGED <<gone, lastId, overtaken>>

(* Deleting a document for good takes its entries. *)
permanently_delete_document(d) ==
    /\ d \notin gone
    /\ gone' = gone \cup {d}
    /\ entries' = {e \in entries : e.doc # d}
    /\ Overtake
    /\ UNCHANGED <<lastId, overtaken>>

Orders == {order \in [1 .. Cardinality(entries) -> IdsOf(entries)] :
              \A i \in IdsOf(entries) : \E k \in DOMAIN order : order[k] = i}

Next ==
    \/ \E r \in Requests :
        \/ \E d \in Docs, p \in Positions : AddLoad(r, d, p)
        \/ \E order \in Orders : ReorderLoad(r, order)
        \/ AddCommit(r) \/ ReorderCommit(r) \/ Fail(r)
    \/ \E e \in entries : remove_todays_document(e)
    \/ \E d \in Docs : permanently_delete_document(d)

Spec == Init /\ [][Next]_vars

-----------------------------------------------------------------------------
(* A document is set once for a day, however additions overlap. *)
SetOnce == \A e, f \in entries : e.doc = f.doc => e = f

(* No two entries share a position while no request was overtaken, so the  *)
(* order shown is the one that was set.                                    *)
NoTies == ~overtaken => \A e, f \in entries : e.position = f.position => e = f

(* Adding or removing an entry keeps the others in the order they were     *)
(* shown in, unless another change came between its load and its commit.   *)
Ahead(list, c, d) == \E e, f \in list : e.doc = c /\ f.doc = d /\ Before(e, f)
OrderStep ==
    LET both == {e.doc : e \in entries} \cap {e.doc : e \in entries'}
    IN ~overtaken' /\ (lastId' # lastId \/ IdsOf(entries) # IdsOf(entries'))
       => \A c, d \in both : Ahead(entries, c, d) <=> Ahead(entries', c, d)

(* The documents of a day are in one order, each of them once              *)
(* (todays_documents.py add_todays_document, reorder_todays_documents).    *)
OrderIsOne == TypeOK /\ SetOnce /\ NoTies
=============================================================================
