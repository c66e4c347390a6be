----------------------------- MODULE MCAccounts -----------------------------
(* Accounts on a small instance: two of three accounts are ever registered, *)
(* since two names are enough for two; of those signed in or logging in    *)
(* only employees have their password reset; and the user form is saved by *)
(* one request at a time, and a token refreshed by one.                    *)
EXTENDS Accounts, TLC

Symmetry == Permutations(Names) \cup Permutations(Supers) \cup Permutations(Sessions) \cup Permutations(Requests)

TwoOfThree == \E u \in Users : users[u].state = "unused"
EmployeesReset ==
    /\ \A s \in Sessions : sessions[s].since = "reset" => sessions[s].user \notin Supers
    /\ \A r \in Requests : reqs[r].since = "reset" => reqs[r].user \notin Supers
Twins == \E q, r \in Requests :
    q # r /\ reqs[q].op = reqs[r].op /\ reqs[q].op \in {"edit", "refresh"}
SmallSpec == Init /\ [][Next /\ TwoOfThree' /\ EmployeesReset' /\ ~Twins']_vars
=============================================================================
