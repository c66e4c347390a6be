------------------------------ MODULE Analytics -----------------------------
(***************************************************************************)
(* GET /analytics/overview (routes/analytics.py) over documents that are   *)
(* registered, edited and archived as months pass.  A moment is its        *)
(* month, counted from a January.  Filters, the breakdowns by type,        *)
(* office and category, users, storage, recent rows and days spent are     *)
(* left out.                                                               *)
(***************************************************************************)
EXTENDS Integers, FiniteSets

CONSTANTS Docs,      \* the documents that can be registered
          MaxMonth   \* BOUND: the months that pass

(* As _norm_status reads them. *)
Statuses == {"Pending", "In Progress", "Completed", "Archived"}
Unregistered == [created |-> -1, updated |-> -1, status |-> "Pending", archived |-> FALSE]
NoAnswer == [given |-> TRUE, months |-> {}]
(* An overview that could not be made: the request fails.                  *)
Failed == [given |-> FALSE, months |-> {}]

VARIABLES now,     \* the month
          docs,    \* the documents
          answer   \* what the last overview was

vars == <<now, docs, answer>>

monthOfYear(m) == (m % 12) + 1
Registered == {d \in Docs : docs[d] # Unregistered}
With(status) == {d \in Registered : docs[d].status = status}
Archived == {d \in Registered : docs[d].archived}
CreatedIn(month) == {d \in Registered : docs[d].created = month}

(* The month index months before this one, by its number in this year.     *)
MonthBefore(index) == monthOfYear(now) - index

MonthlyActivity == {[month |-> now - index, count |-> Cardinality(CreatedIn(now - index))] : index \in 0 .. 5}

Processing == [awaiting_action |-> Cardinality(With("Pending") \cup With("In Progress")),
               completed_this_month |-> Cardinality(With("Completed") \cap CreatedIn(now)),
               archived_this_month |-> Cardinality({d \in Archived : docs[d].updated = now})]

Overview == [total |-> Cardinality(Registered),
             active |-> Cardinality(Registered \ Archived),
             archived |-> Cardinality(Archived),
             pending |-> Cardinality(With("Pending")),
             completed |-> Cardinality(With("Completed")),
             added_this_month |-> Cardinality(CreatedIn(now))]

-----------------------------------------------------------------------------
Init == now \in 0 .. 11 /\ docs = [d \in Docs |-> Unregistered] /\ answer = NoAnswer

Pass == now < MaxMonth /\ now' = now + 1 /\ UNCHANGED <<docs, answer>>

Register(d) == /\ d \notin Registered
               /\ docs' = [docs EXCEPT ![d] = [Unregistered EXCEPT !.created = now, !.updated = now]]
               /\ UNCHANGED <<now, answer>>

Edit(d, status, archived) == /\ d \in Registered
                             /\ docs' = [docs EXCEPT ![d] = [@ EXCEPT !.status = status, !.archived = archived, !.updated = now]]
                             /\ UNCHANGED <<now, answer>>

(* datetime(now.year, now.month - index, 1) raises ValueError outside      *)
(* January to December; nothing catches it and the answer is a 500.        *)
get_analytics_overview ==
    /\ answer' = IF \A index \in 0 .. 5 : MonthBefore(index) \in 1 .. 12
                 THEN [given |-> TRUE, months |-> MonthlyActivity, overview |-> Overview, processing |-> Processing]
                 ELSE Failed
    /\ UNCHANGED <<now, docs>>

Next ==
    \/ Pass \/ get_analytics_overview
    \/ \E d \in Docs : Register(d) \/ \E status \in Statuses, archived \in BOOLEAN : Edit(d, status, archived)

Spec == Init /\ [][Next]_vars

-----------------------------------------------------------------------------
(* The overview is given whatever the month, as                            *)
(* tests/test_auth_user_flows.py:1932 expects of it ("assert               *)
(* response.status_code == 200").  From January to May it is not.          *)
OverviewIsGiven == answer.given
=============================================================================
