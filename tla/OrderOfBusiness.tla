--------------------------- MODULE OrderOfBusiness --------------------------
(***************************************************************************)
(* The order of business of council sessions: the measures taken up, their *)
(* outcomes, and the stages entered when a session becomes Held, from      *)
(* Backends/backend/routes/order_of_business.py and council_sessions.py,   *)
(* beside the stage changes and corrections of measure_stages.py.          *)
(*                                                                         *)
(* A request of the council loads its session, decides on the session's    *)
(* status, and writes in a later step with the session's date as loaded:   *)
(* nothing locks the session in between.  The rest of what it reads and    *)
(* writes is one step here, and so is a stage change made outside a        *)
(* session: MeasureStages splits those.  A request refused at its second   *)
(* step is rolled back.  An item removed and added again counts as the     *)
(* same item.  Measures keep their type and are not archived.  Left out    *)
(* with what it concerns: items that are not measures, the sections and    *)
(* positions of items, committees, and votes and attendance, which are     *)
(* kept beside an item or a session in the same way as its outcomes and    *)
(* enter no stage.                                                         *)
(***************************************************************************)
EXTENDS Business

CONSTANTS Measures, Ordinances,  \* the measures, those of them that are ordinances
          Sessions,              \* the sessions of a term
          Requests,              \* slots for requests the server runs at one time
          Numbers,               \* the numbers a measure can be given, all of one year
          OfYear,                \* the measures filed in that year: registration saved it as theirs
          Outcomes,              \* BOUND: the outcomes the secretariat records
          Asked,                 \* BOUND: the stages entered outside sessions
          Days,                  \* BOUND: the days sessions and changes are dated, all past
          MaxChanges,            \* BOUND: entries in the history of a measure
          MaxOutcomes            \* BOUND: outcomes recorded on an item

NoSession == "no session"

InputsAssumption == /\ Ordinances \subseteq Measures
                    /\ Outcomes \subseteq DOMAIN MEASURE_OUTCOMES
                    /\ OfYear \subseteq Measures
                    /\ Days \subseteq Nat /\ Numbers \subseteq Nat \ {0}
                    /\ NoSession \notin Sessions

VARIABLES docs,      \* the row of documents of each measure: its stage and number
          history,   \* its rows of document_stage_changes, in the order of their ids
          sessions,  \* the row of council_sessions: status and date
          agenda,    \* the measures in the session's order of business
          outcomes,  \* the outcomes of each of its items, in the order of their ids
          jobs       \* what each request is about to write

vars == <<docs, history, sessions, agenda, outcomes, jobs>>

Kind(m) == IF m \in Ordinances THEN "ordinance" ELSE "resolution"
NoNumber == 0
Statuses == {"Draft", "Scheduled", "Held"}

(* Held is final. *)
NEXT_STATUSES == [Draft |-> {"Scheduled", "Held"}, Scheduled |-> {"Draft", "Held"}, Held |-> {}]

Idle == [op |-> "idle", s |-> NoSession]
AllStageNames == UNION {AllStages(kind) : kind \in Kinds}
Changes == [stage : AllStageNames, previous : AllStageNames \cup {NoStage}, on : Days,
            correction : BOOLEAN, note : BOOLEAN, session : Sessions \cup {NoSession}]
OutcomeRows == [outcome : Outcomes, number : Numbers \cup {NoNumber}, note : BOOLEAN,
                before : AllStageNames \cup {NoStage}, applied : Seq(AllStageNames), correction : BOOLEAN]

TypeOK ==
    /\ \A m \in Measures : /\ docs[m].stage \in AllStages(Kind(m))
                           /\ docs[m].number \in Numbers \cup {NoNumber}
                           /\ history[m] \in Seq(Changes)
    /\ sessions \in [Sessions -> [status : Statuses \cup {"Absent"}, on : Days]]
    /\ agenda \in [Sessions -> SUBSET Measures]
    /\ \A s \in Sessions, m \in Measures : outcomes[s][m] \in Seq(OutcomeRows)
    /\ \A r \in Requests : jobs[r].s \in Sessions \cup {NoSession}

-----------------------------------------------------------------------------
(* The first step of a request: the session is loaded and its status read. *)

NotHeld(s) == sessions[s].status \in {"Draft", "Scheduled"}
IsHeld(s) == sessions[s].status = "Held"

Load(r, job) ==
    /\ jobs[r] = Idle
    /\ jobs' = [jobs EXCEPT ![r] = job]
    /\ UNCHANGED <<docs, history, sessions, agenda, outcomes>>

AddItemLoad(r, s, m) == NotHeld(s) /\ Load(r, [op |-> "add_item", s |-> s, m |-> m])

RemoveItemLoad(r, s, m) == NotHeld(s) /\ Load(r, [op |-> "remove_item", s |-> s, m |-> m])

Entry(outcome, number, note, correction) ==
    [outcome |-> outcome, number |-> number, note |-> note, before |-> NoStage, applied |-> <<>>,
     correction |-> correction]

\* MUTANT: the outcome of a held session is set again.
SetOutcomeAnytime(r, s, m, outcome, number, note) ==
    /\ sessions[s].status # "Absent"
    /\ Load(r, [op |-> "set_outcome", s |-> s, m |-> m, entry |-> Entry(outcome, number, note, FALSE)])
SetOutcomeLoad(r, s, m, outcome, number, note) ==
    /\ NotHeld(s)
    /\ Load(r, [op |-> "set_outcome", s |-> s, m |-> m, entry |-> Entry(outcome, number, note, FALSE)])

ClearOutcomeLoad(r, s, m) == NotHeld(s) /\ Load(r, [op |-> "clear_outcome", s |-> s, m |-> m])

StatusLoad(r, s, status) ==
    /\ sessions[s].status \in Statuses
    /\ status \in NEXT_STATUSES[sessions[s].status]
    /\ Load(r, [op |-> "change_status", s |-> s, on |-> sessions[s].on, status |-> status])

RedateLoad(r, s, day) == NotHeld(s) /\ Load(r, [op |-> "update_session", s |-> s, day |-> day])

DeleteLoad(r, s) == sessions[s].status = "Draft" /\ Load(r, [op |-> "delete_session", s |-> s])

CorrectOutcomeLoad(r, s, m, outcome, number) ==
    /\ IsHeld(s)
    /\ Load(r, [op |-> "correct_outcome", s |-> s, on |-> sessions[s].on, m |-> m,
                 entry |-> Entry(outcome, number, TRUE, TRUE)])

-----------------------------------------------------------------------------
(* POST /council/sessions: create_session; a row gets an id of its own.    *)
CreateSession(s, day) ==
    /\ sessions[s].status = "Absent"
    /\ \A r \in Requests : jobs[r].s # s
    /\ sessions' = [sessions EXCEPT ![s] = [status |-> "Draft", on |-> day]]
    /\ UNCHANGED <<docs, history, agenda, outcomes, jobs>>

-----------------------------------------------------------------------------
(* The second step writes.  A session or item deleted meanwhile fails it.  *)

Writes(r, op) ==
    /\ jobs[r].op = op
    /\ sessions[jobs[r].s].status # "Absent"
    /\ jobs' = [jobs EXCEPT ![r] = Idle]

AddItem(r) ==
    /\ Writes(r, "add_item")
    /\ jobs[r].m \notin agenda[jobs[r].s]
    /\ agenda' = [agenda EXCEPT ![jobs[r].s] = @ \cup {jobs[r].m}]
    /\ UNCHANGED <<docs, history, sessions, outcomes>>

RemoveItem(r) ==
    /\ Writes(r, "remove_item")
    /\ jobs[r].m \in agenda[jobs[r].s]
    /\ agenda' = [agenda EXCEPT ![jobs[r].s] = @ \ {jobs[r].m}]
    /\ outcomes' = [outcomes EXCEPT ![jobs[r].s][jobs[r].m] = <<>>]
    /\ UNCHANGED <<docs, history, sessions>>

(* _check_outcome: the outcome is one for its kind, with a number if it    *)
(* needs one the document doesn't have.                                    *)
CheckOutcome(m, entry) ==
    /\ entry.outcome \in OutcomeChoices(Kind(m))
    /\ NeedsNumber(Kind(m), entry.outcome) => docs[m].number # NoNumber \/ entry.number # NoNumber

(* The item's entry is changed in place, and what it applied kept. *)
SetOutcome(r) ==
    LET s == jobs[r].s  m == jobs[r].m  entry == jobs[r].entry  current == outcomes[s][m]
    IN  /\ Writes(r, "set_outcome")
        /\ m \in agenda[s]
        /\ CheckOutcome(m, entry)
        /\ Plan(Kind(m), docs[m].stage, entry.outcome, entry.note).ok
        /\ outcomes' = [outcomes EXCEPT ![s][m] =
              IF current = <<>> THEN <<entry>>
              ELSE Append(Front(current), [Last(current) EXCEPT !.outcome = entry.outcome,
                                               !.number = entry.number, !.note = entry.note])]
        /\ UNCHANGED <<docs, history, sessions, agenda>>

ClearOutcome(r) ==
    LET s == jobs[r].s  m == jobs[r].m
    IN  /\ Writes(r, "clear_outcome")
        /\ m \in agenda[s] /\ outcomes[s][m] # <<>>
        /\ outcomes' = [outcomes EXCEPT ![s][m] = Front(@)]
        /\ UNCHANGED <<docs, history, sessions, agenda>>

-----------------------------------------------------------------------------
(* _enter_stages: the stages an outcome moves a measure through. *)

(* _documents_with_number: a measure that has its number has its year too. *)
IsTaken(m, number) == \E other \in Measures \ {m} : Kind(other) = Kind(m) /\ docs[other].number = number

EntersNumber(m, planned) ==
    docs[m].number = NoNumber /\ \E stage \in ToSet(planned) : IsEnacted(Kind(m), stage)

(* Of the measures of one request, none is written yet.  The second of two  *)
(* to be given one number finds the first by the year saved for it when it  *)
(* was filed, and then the number the request gave it.  The order of items  *)
(* is left out: two are sure to be found out if both were filed that year.  *)
GivenTwice(moves, planned) ==
    \E m, other \in DOMAIN moves \cap OfYear :
        /\ m # other /\ Kind(m) = Kind(other)
        /\ EntersNumber(m, planned[m].entered) /\ EntersNumber(other, planned[other].entered)
        /\ moves[m].number = moves[other].number

\* MUTANT: a corrected outcome that enters nothing leaves the stage it undoes.
TargetsPlanned(m, start, planned, correcting) == planned
(* A correction that enters no stage takes the measure back to its start. *)
Targets(m, start, planned, correcting) ==
    IF planned = <<>> /\ correcting /\ docs[m].stage # start THEN <<start>> ELSE planned

(* The outcome can be entered: its plan fits, the history has no later     *)
(* entry, and the number it gives, if it gives one, is free.               *)
CanEnter(day, m, entry, planned, correcting) ==
    /\ planned.ok
    /\ ~correcting /\ history[m] # <<>> => Last(history[m]).on =< day
    /\ EntersNumber(m, planned.entered) => entry.number # NoNumber /\ ~IsTaken(m, entry.number)

(* The entries of the history, one for each target. *)
Entered(s, day, m, note, targets, correcting) ==
    [i \in DOMAIN targets |->
        [stage |-> targets[i], previous |-> IF i = 1 THEN docs[m].stage ELSE targets[i - 1],
         on |-> day, correction |-> correcting, note |-> note, session |-> s]]

(* The measures the session moves, all in one commit: moves[m] is the      *)
(* outcome that moves m, start[m] the stage its plan begins at, day the    *)
(* session's date as the request loaded it.                                *)
EnterStages(s, day, moves, start, correcting) ==
    LET planned == [m \in DOMAIN moves |-> Plan(Kind(m), start[m], moves[m].outcome, moves[m].note)]
        targets == [m \in DOMAIN moves |-> Targets(m, start[m], planned[m].entered, correcting)]
    IN  /\ \A m \in DOMAIN moves : CanEnter(day, m, moves[m], planned[m], correcting)
        /\ ~GivenTwice(moves, planned)
        /\ \A m \in DOMAIN moves : Len(history[m]) + Len(targets[m]) =< MaxChanges
        /\ docs' = [m \in Measures |->
              IF m \notin DOMAIN moves THEN docs[m]
              ELSE [stage |-> IF targets[m] = <<>> THEN docs[m].stage ELSE Last(targets[m]),
                    number |-> IF EntersNumber(m, planned[m].entered) THEN moves[m].number ELSE docs[m].number]]
        /\ history' = [m \in Measures |->
              IF m \notin DOMAIN moves THEN history[m]
              ELSE history[m] \o Entered(s, day, m, moves[m].note, targets[m], correcting)]
        /\ outcomes' = [outcomes EXCEPT ![s] = [m \in Measures |->
              IF m \notin DOMAIN moves THEN @[m]
              ELSE LET entry == [moves[m] EXCEPT !.before = start[m], !.applied = planned[m].entered]
                   IN  IF correcting THEN Append(@[m], entry) ELSE Append(Front(@[m]), entry)]]

(* apply_outcomes: every measure with an outcome, or none. *)
Hold(r) ==
    LET s == jobs[r].s
        decided == {m \in agenda[s] : outcomes[s][m] # <<>>}
    IN  /\ jobs[r].op = "change_status" /\ jobs[r].status = "Held"
        /\ Writes(r, "change_status")
        /\ EnterStages(s, jobs[r].on, [m \in decided |-> Last(outcomes[s][m])],
                       [m \in decided |-> docs[m].stage], FALSE)
        /\ sessions' = [sessions EXCEPT ![s].status = "Held"]
        /\ UNCHANGED agenda

Reschedule(r) ==
    /\ jobs[r].op = "change_status" /\ jobs[r].status # "Held"
    /\ Writes(r, "change_status")
    /\ sessions' = [sessions EXCEPT ![jobs[r].s].status = jobs[r].status]
    /\ UNCHANGED <<docs, history, agenda, outcomes>>

Redate(r) ==
    /\ Writes(r, "update_session")
    /\ sessions' = [sessions EXCEPT ![jobs[r].s].on = jobs[r].day]
    /\ UNCHANGED <<docs, history, agenda, outcomes>>

(* delete_session: its items and outcomes go; a history keeps its entries, *)
(* without the session.                                                    *)
Delete(r) ==
    LET s == jobs[r].s
    IN  /\ Writes(r, "delete_session")
        /\ sessions' = [sessions EXCEPT ![s].status = "Absent"]
        /\ agenda' = [agenda EXCEPT ![s] = {}]
        /\ outcomes' = [outcomes EXCEPT ![s] = [m \in Measures |-> <<>>]]
        /\ history' = [m \in Measures |-> [i \in DOMAIN history[m] |->
              IF history[m][i].session = s THEN [history[m][i] EXCEPT !.session = NoSession]
              ELSE history[m][i]]]
        /\ UNCHANGED docs

(* The outcome it corrects is the item's last, if there is one. *)
Start(previous, m) ==
    IF previous # <<>> /\ Last(previous).before # NoStage THEN Last(previous).before ELSE docs[m].stage
(* The stage the session left the measure at. *)
LeftAt(previous, m) ==
    IF previous # <<>> /\ Last(previous).applied # <<>> THEN Last(Last(previous).applied)
    ELSE Start(previous, m)

CorrectOutcome(r) ==
    LET s == jobs[r].s  m == jobs[r].m  previous == outcomes[s][m]
    IN  /\ Writes(r, "correct_outcome")
        /\ m \in agenda[s] /\ Len(previous) < MaxOutcomes
        /\ CheckOutcome(m, jobs[r].entry)
        /\ docs[m].stage = LeftAt(previous, m)
        /\ EnterStages(s, jobs[r].on, [x \in {m} |-> jobs[r].entry], [x \in {m} |-> Start(previous, m)], TRUE)
        /\ UNCHANGED <<sessions, agenda>>

(* The connection drops, a statement fails, or the request is refused. *)
Rollback(r) ==
    /\ jobs[r] # Idle
    /\ jobs' = [jobs EXCEPT ![r] = Idle]
    /\ UNCHANGED <<docs, history, sessions, agenda, outcomes>>

-----------------------------------------------------------------------------
(* A stage change or correction made outside a session, run alone. *)

EnterOutside(m, stage, day, number, correction) ==
    LET enters == EntersNumber(m, <<stage>>)
    IN  /\ enters => ~IsTaken(m, number)
        /\ Len(history[m]) < MaxChanges
        /\ docs' = [docs EXCEPT ![m] = [stage |-> stage, number |-> IF enters THEN number ELSE @.number]]
        /\ history' = [history EXCEPT ![m] = Append(@,
              [stage |-> stage, previous |-> docs[m].stage, on |-> day, correction |-> correction,
               note |-> TRUE, session |-> NoSession])]
        /\ UNCHANGED <<sessions, agenda, outcomes, jobs>>

ChangeStage(m, stage, day, number) ==
    /\ stage \in AllowedNext(Kind(m), docs[m].stage)
    /\ history[m] # <<>> => Last(history[m]).on =< day
    /\ EnterOutside(m, stage, day, number, FALSE)

CorrectStage(m, stage, day, number) ==
    stage \in AllStages(Kind(m)) /\ EnterOutside(m, stage, day, number, TRUE)

-----------------------------------------------------------------------------
Init ==
    /\ docs = [m \in Measures |-> [stage |-> "Filed", number |-> NoNumber]]
    /\ \E day \in Days :
          history = [m \in Measures |->
              <<[stage |-> "Filed", previous |-> NoStage, on |-> day, correction |-> FALSE,
                 note |-> TRUE, session |-> NoSession]>>]
    /\ sessions \in [Sessions -> [status : {"Absent"}, on : Days]]
    /\ agenda = [s \in Sessions |-> {}]
    /\ outcomes = [s \in Sessions |-> [m \in Measures |-> <<>>]]
    /\ jobs = [r \in Requests |-> Idle]

Loads(r) ==
    \E s \in Sessions :
        \/ \E m \in Measures :
              \/ AddItemLoad(r, s, m) \/ RemoveItemLoad(r, s, m) \/ ClearOutcomeLoad(r, s, m)
              \/ \E outcome \in Outcomes, number \in Numbers \cup {NoNumber} :
                    \/ \E note \in BOOLEAN : SetOutcomeLoad(r, s, m, outcome, number, note)
                    \/ CorrectOutcomeLoad(r, s, m, outcome, number)
        \/ \E status \in Statuses : StatusLoad(r, s, status)
        \/ \E day \in Days : RedateLoad(r, s, day)
        \/ DeleteLoad(r, s)

Next ==
    \/ \E r \in Requests :
          \/ Loads(r)
          \/ AddItem(r) \/ RemoveItem(r) \/ SetOutcome(r) \/ ClearOutcome(r) \/ Hold(r)
          \/ Reschedule(r) \/ Redate(r) \/ Delete(r) \/ CorrectOutcome(r) \/ Rollback(r)
    \/ \E s \in Sessions, day \in Days : CreateSession(s, day)
    \/ \E m \in Measures, stage \in Asked, day \in Days, number \in Numbers :
          ChangeStage(m, stage, day, number) \/ CorrectStage(m, stage, day, number)

Spec == Init /\ [][Next]_vars

-----------------------------------------------------------------------------
(* What holds when requests run one at a time. *)

(* The entries of a session in the history of a measure, and the stage of  *)
(* the last of them.                                                       *)
Own(s, m) == {i \in DOMAIN history[m] : history[m][i].session = s}
LeftBy(s, m, stage) == \A i \in Own(s, m) : (\A j \in Own(s, m) : j =< i) => history[m][i].stage = stage

(* The history of a measure is one chain that ends at its stage, through   *)
(* every outcome entered and corrected.                                    *)
HistoryIsChain ==
    \A m \in Measures :
        /\ Last(history[m]).stage = docs[m].stage
        /\ \A i \in 2 .. Len(history[m]) : history[m][i].previous = history[m][i - 1].stage

(* A session's outcome enters only moves the rules allow from where the    *)
(* measure was, with a note when a reading sent it back to committee.      *)
OutcomesFollowRules ==
    \A m \in Measures : \A i \in DOMAIN history[m] :
        LET change == history[m][i]
        IN  change.session # NoSession /\ ~change.correction =>
                /\ change.stage \in AllowedNext(Kind(m), change.previous)
                /\ IsReferralBack(Kind(m), change.previous, change.stage) => change.note

(* The stages a held session left a measure at are those of the outcome on *)
(* record: the last stage it applied, or the one the measure had before.   *)
StagesMatchOutcome ==
    \A s \in Sessions, m \in Measures :
        IsHeld(s) /\ outcomes[s][m] # <<>> =>
            LET outcome == Last(outcomes[s][m])
            IN  IF outcome.applied # <<>> THEN Own(s, m) # {} /\ LeftBy(s, m, Last(outcome.applied))
                ELSE LeftBy(s, m, outcome.before)

(* A measure is never at Approved or Adopted or later without its number. *)
EnactedHasNumber ==
    \A m \in Measures : IsEnacted(Kind(m), docs[m].stage) => docs[m].number # NoNumber

(* A move that is no correction is never dated before the entry it follows.*)
DatesInOrder ==
    \A m \in Measures : \A i \in 2 .. Len(history[m]) :
        ~history[m][i].correction => history[m][i - 1].on =< history[m][i].on

(* A session's entries are dated the day it was held, whatever is done to  *)
(* the session afterwards.                                                 *)
DatedBySession ==
    \A m \in Measures : \A i \in DOMAIN history[m] :
        history[m][i].session # NoSession => history[m][i].on = sessions[history[m][i].session].on

(* Outcomes enter legal moves, give their numbers, and are dated in order  *)
(* and by their session (business.py plan, order_of_business.py            *)
(* _enter_stages, apply_outcomes, correct_outcome, measure_stages.py       *)
(* _set_enacted_number).                                                   *)
OutcomesAreLegal == TypeOK /\ OutcomesFollowRules /\ EnactedHasNumber /\ DatesInOrder /\ DatedBySession

(* "Legislative records are corrected, not edited, once a session is held" *)
(* (docs/adr/0003): its order of business is fixed and its outcomes only   *)
(* grow, by corrections.  Concurrent requests break it.                    *)
RecordStep ==
    \A s \in Sessions : IsHeld(s) =>
        /\ agenda'[s] = agenda[s]
        /\ \A m \in Measures :
              /\ IsPrefix(outcomes[s][m], outcomes'[s][m])
              /\ \A i \in Len(outcomes[s][m]) + 1 .. Len(outcomes'[s][m]) : outcomes'[s][m][i].correction

-----------------------------------------------------------------------------
(* What the code says of itself, and does not keep. *)

(* The number of an ordinance or resolution is given to one measure: "is   *)
(* already" another's (measure_stages.py:148).  So it is when both were    *)
(* filed in the year of the number.                                        *)
NumbersAreUnique ==
    \A m, other \in Measures :
        /\ m # other /\ Kind(m) = Kind(other) /\ docs[m].number # NoNumber
        => docs[m].number # docs[other].number
=============================================================================
