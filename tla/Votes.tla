-------------------------------- MODULE Votes -------------------------------
(***************************************************************************)
(* The vote on one item of a council session, from                         *)
(* Backends/backend/routes/order_of_business.py: set freely until the      *)
(* session is Held, corrected with a reason after it.                      *)
(*                                                                         *)
(* A request loads the session's status, the item's rows of                *)
(* session_item_votes and the member votes of the last, and commits later: *)
(* it removes the member votes it loaded, adds its own, and writes the     *)
(* columns it changed.  A DELETE of rows already gone is no error, an      *)
(* UPDATE of one is.  Abstentions, results and notes are kept like a tally *)
(* and left out; the members in office are those the item was taken up by. *)
(***************************************************************************)
EXTENDS Naturals, SequencesExt

CONSTANTS Members,   \* the members in office at the session
          Requests,  \* slots for requests the server runs at one time
          MaxFills   \* BOUND: votes entered

FillsAssumption == MaxFills \in Nat

VARIABLES held,      \* whether the session is Held
          rows,      \* session_item_votes of the item, in the order of their ids
          fills,     \* how many votes were entered: numbers rows and member votes
          overtaken, \* history: a request committed over rows that changed since it loaded them
          reqs       \* what each request is about to write

vars == <<held, rows, fills, overtaken, reqs>>

Answers == {"Yes", "No"}

(* A nominal vote lists at most one vote of each member, and one at least. *)
Ballots == UNION {[voters -> Answers] : voters \in (SUBSET Members) \ {{}}}
Cast(n, ballot) == {[fill |-> n, member |-> m, vote |-> ballot[m]] : m \in DOMAIN ballot}
Voices == {[yes |-> 1, no |-> 0], [yes |-> 0, no |-> 1]}

CountOf(cast, choice) == Cardinality({v \in cast : v.vote = choice})

(* A vote with no row yet, and a payload that clears it. *)
NoVote == [id |-> 0, nominal |-> FALSE, yes |-> 0, no |-> 0, cast |-> {}, correction |-> FALSE]
Idle == [op |-> "idle", view |-> NoVote, new |-> NoVote, fresh |-> TRUE]

Casts == SUBSET [fill : 1 .. MaxFills, member : Members, vote : Answers]
Rows == [id : 0 .. MaxFills, nominal : BOOLEAN, yes : Nat, no : Nat, cast : Casts, correction : BOOLEAN]

TypeOK == /\ held \in BOOLEAN
          /\ rows \in Seq(Rows)
          /\ fills \in 0 .. MaxFills
          /\ overtaken \in BOOLEAN
          /\ reqs \in [Requests -> [op : {"idle", "set", "clear", "correct"},
                                    view : Rows, new : Rows, fresh : BOOLEAN]]

Init == /\ held = FALSE /\ rows = << >> /\ fills = 0 /\ overtaken = FALSE
        /\ reqs = [r \in Requests |-> Idle]

(* The latest row is the vote; the tally of a nominal one is counted. *)
Current == IF rows = << >> THEN NoVote ELSE Last(rows)

VoteValues(n, correction) ==
    {[id |-> n, nominal |-> TRUE, yes |-> CountOf(Cast(n, b), "Yes"), no |-> CountOf(Cast(n, b), "No"),
      cast |-> Cast(n, b), correction |-> correction] : b \in Ballots}
    \cup {[id |-> n, nominal |-> FALSE, yes |-> v.yes, no |-> v.no, cast |-> {}, correction |-> correction] : v \in Voices}

Load(r, op, new) == /\ reqs[r].op = "idle"
                    /\ reqs' = [reqs EXCEPT ![r] = [op |-> op, view |-> Current, new |-> new, fresh |-> TRUE]]
                    /\ UNCHANGED <<held, rows, overtaken>>

(* Before the session is Held. *)
SetLoad(r) == /\ ~held
              /\ fills < MaxFills
              /\ fills' = fills + 1
              /\ \E new \in VoteValues(fills', FALSE) : Load(r, "set", new)

ClearLoad(r) == /\ ~held
                /\ Load(r, "clear", NoVote)
                /\ UNCHANGED fills

(* After it: what was entered before stays. *)
CorrectLoad(r) == /\ held
                  /\ fills < MaxFills
                  /\ fills' = fills + 1
                  /\ \E new \in VoteValues(fills', TRUE) : Load(r, "correct", new)

Commit(r, after) ==
    /\ rows' = after
    /\ overtaken' = (overtaken \/ (~reqs[r].fresh /\ reqs[r].op # "correct"))
    /\ reqs' = [q \in Requests |-> IF q = r \/ reqs[q].op = "idle" THEN Idle
                                   ELSE [reqs[q] EXCEPT !.fresh = FALSE]]
    /\ UNCHANGED <<held, fills>>

(* An id is of one row. *)
Without(id) == IF \E row \in ToSet(rows) : row.id = id
               THEN RemoveAt(rows, CHOOSE i \in DOMAIN rows : rows[i].id = id) ELSE rows

(* _fill_vote on the row that was loaded. *)
Filled(row, view, new) ==
    [row EXCEPT !.nominal = IF new.nominal = view.nominal THEN @ ELSE new.nominal,
                !.yes = IF new.yes = view.yes THEN @ ELSE new.yes,
                !.no = IF new.no = view.no THEN @ ELSE new.no,
                !.cast = (@ \ view.cast) \cup new.cast]

\* MUTANT: a vote set again is a row of its own.
SetCommitAnew(r) == reqs[r].op = "set" /\ Commit(r, Append(rows, reqs[r].new))
SetCommit(r) ==
    LET view == reqs[r].view
        new == reqs[r].new
    IN /\ reqs[r].op = "set"
       /\ IF view = NoVote THEN Commit(r, Append(rows, new))
          ELSE /\ \E row \in ToSet(rows) : row.id = view.id
               /\ Commit(r, [i \in DOMAIN rows |-> IF rows[i].id = view.id THEN Filled(rows[i], view, new) ELSE rows[i]])

\* MUTANT: clearing the vote also forgets what it was corrected from.
CorrectCommitOver(r) == reqs[r].op = "correct" /\ Commit(r, Append(Without(reqs[r].view.id), reqs[r].new))
ClearCommit(r) == reqs[r].op = "clear" /\ Commit(r, Without(reqs[r].view.id))
CorrectCommit(r) == reqs[r].op = "correct" /\ Commit(r, Append(rows, reqs[r].new))

(* The row is gone, or the connection: rolled back. *)
Fail(r) == /\ reqs[r].op # "idle"
           /\ reqs' = [reqs EXCEPT ![r] = Idle]
           /\ UNCHANGED <<held, rows, fills, overtaken>>

Hold == /\ ~held /\ held' = TRUE
        /\ UNCHANGED <<rows, fills, overtaken, reqs>>

Next == \/ \E r \in Requests : \/ SetLoad(r) \/ ClearLoad(r) \/ CorrectLoad(r)
                               \/ SetCommit(r) \/ ClearCommit(r) \/ CorrectCommit(r) \/ Fail(r)
        \/ Hold

Spec == Init /\ [][Next]_vars

(* A nominal vote counts the votes of the members it lists, each of them   *)
(* once, and another lists none, however often it is set, cleared and      *)
(* corrected, until two requests replace it at the same time: models.py    *)
(* says its tally is their count (order_of_business.py _fill_vote).        *)
TallyOf(row) == IF row.nominal
    THEN /\ row.yes = CountOf(row.cast, "Yes") /\ row.no = CountOf(row.cast, "No")
         /\ \A v, w \in row.cast : v.member = w.member => v = w
    ELSE row.cast = {}
TallyIsCount == ~overtaken => \A row \in ToSet(rows) : TallyOf(row)

(* An item has one vote that is not a correction, unless two requests      *)
(* entered it at the same time, and corrections only follow it once the    *)
(* session is Held (order_of_business.py set_vote, correct_vote).          *)
OneVote == ~overtaken => \A i \in DOMAIN rows : rows[i].correction \/ i = 1

(* What was voted in a held session stays on record: a step only adds to   *)
(* the rows, unless it is of a request that read the session before it was *)
(* Held (order_of_business.py set_vote, correct_vote; docs/adr/0003).      *)
HeldVotesStep == held => \/ IsPrefix(rows, rows')
                            \/ \E r \in Requests : reqs[r].op \in {"set", "clear"} /\ reqs'[r] = Idle
HeldVotesStay == [][HeldVotesStep]_vars

(* The votes of an item are one vote and its corrections, each of them a   *)
(* tally of who voted (order_of_business.py set_vote, correct_vote).       *)
VotesAreCounted == TypeOK /\ TallyIsCount /\ OneVote
=============================================================================
