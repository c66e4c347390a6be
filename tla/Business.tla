------------------------------ MODULE Business ------------------------------
(***************************************************************************)
(* The outcomes an item of the order of business can have and the stages   *)
(* each moves a measure through, from Backends/backend/business.py.  No    *)
(* variables: OrderOfBusiness builds on it.                                *)
(***************************************************************************)
EXTENDS Stages, SequencesExt

MeasureOutcomes == {"Referred to committee", "Committee report read", "Passed on second reading",
                    "Approved on third reading", "Adopted", "Referred back to committee", "Tabled",
                    "Withdrawn", "Lost", "Deferred"}

(* The stages each outcome enters, per kind; a kind that is missing can't  *)
(* have that outcome.                                                      *)
MEASURE_OUTCOMES ==
    LET Both(stages) == [kind \in Kinds |-> stages]
    IN  [outcome \in MeasureOutcomes |->
            CASE outcome = "Referred to committee" -> [ordinance |-> <<"First Reading", "In Committee">>,
                                                       resolution |-> <<"In Committee">>]
              [] outcome = "Committee report read" -> Both(<<"Committee Report">>)
              [] outcome = "Passed on second reading" -> [ordinance |-> <<"Second Reading">>]
              [] outcome = "Approved on third reading" -> [ordinance |-> <<"Third Reading", "Approved">>]
              [] outcome = "Adopted" -> [resolution |-> <<"Adopted">>]
              [] outcome = "Referred back to committee" -> Both(<<"In Committee">>)
              [] outcome = "Tabled" -> Both(<<"Tabled">>)
              [] outcome = "Withdrawn" -> Both(<<"Withdrawn">>)
              [] outcome = "Lost" -> Both(<<"Lost">>)
              [] outcome = "Deferred" -> Both(<<>>)]

OutcomeChoices(kind) == {outcome \in DOMAIN MEASURE_OUTCOMES : kind \in DOMAIN MEASURE_OUTCOMES[outcome]}
Wanted(kind, outcome) == MEASURE_OUTCOMES[outcome][kind]

NeedsNumber(kind, outcome) == \E stage \in ToSet(Wanted(kind, outcome)) : IsEnacted(kind, stage)

IsPassed(kind, stage, at) == 0 < Rank(kind, stage) /\ Rank(kind, stage) < Rank(kind, at)

\* MUTANT: any stage of the path may be entered from where the measure is.
PlanAnywhere(kind, current, outcome, note) ==
    LET entered == SelectSeq(Wanted(kind, outcome), LAMBDA stage : stage # current)
    IN  [ok |-> Wanted(kind, outcome) = <<>> \/ entered # <<>>, entered |-> entered]
(* One stage an outcome wants: it is entered if the rules allow it from    *)
(* where the plan is, and skipped if the measure is at it or past it.      *)
PlanStep(kind, wanted, note, plan, i) ==
    LET stage == wanted[i]
    IN  IF stage = plan.at THEN plan
        ELSE IF stage \in AllowedNext(kind, plan.at)
        THEN IF IsReferralBack(kind, plan.at, stage) => note
             THEN [plan EXCEPT !.at = stage, !.entered = Append(@, stage)]
             ELSE [plan EXCEPT !.ok = FALSE]
        ELSE [plan EXCEPT !.ok = @ /\ i < Len(wanted) /\ IsPassed(kind, stage, plan.at)]

(* The stages to enter, in order, for a measure at current given outcome;  *)
(* not ok if it can't be.  Stages before the last that the measure has     *)
(* already passed are skipped.                                             *)
Plan(kind, current, outcome, note) ==
    LET wanted == Wanted(kind, outcome)
        plans[i \in 0 .. Len(wanted)] ==
            IF i = 0 THEN [ok |-> TRUE, at |-> current, entered |-> <<>>]
            ELSE PlanStep(kind, wanted, note, plans[i - 1], i)
        end == plans[Len(wanted)]
    IN  [ok |-> end.ok /\ (wanted = <<>> \/ end.entered # <<>>), entered |-> end.entered]
=============================================================================
