------------------------------- MODULE Stages -------------------------------
(***************************************************************************)
(* The legislative stages of a measure and the moves between them, from    *)
(* Backends/backend/stages.py.  No variables: MeasureStages and Business   *)
(* build on it.                                                            *)
(***************************************************************************)
EXTENDS Integers, Sequences

Kinds == {"ordinance", "resolution"}
NoKind == "not a measure"
NoStage == "no stage"

DocumentTypes == {"Ordinance", "Resolution", "Letter Request"}

MeasureKind(type) ==
    CASE type = "Ordinance" -> "ordinance"
      [] type = "Resolution" -> "resolution"
      [] OTHER -> NoKind

(* Rank by rank; the stages of one rank are alternative outcomes of the    *)
(* same step.                                                              *)
PATHS ==
    [ordinance  |-> <<{"Filed"}, {"First Reading"}, {"In Committee"}, {"Committee Report"},
                      {"Second Reading"}, {"Third Reading"}, {"Approved"}, {"Sent to the Mayor"},
                      {"Signed", "Vetoed", "Lapsed into Law"}, {"Provincial Review"}, {"Posted"}>>,
     resolution |-> <<{"Filed"}, {"In Committee"}, {"Committee Report"}, {"Adopted"},
                      {"Sent to the Mayor"}, {"Signed", "Vetoed"}>>]

ENDINGS == {"Withdrawn", "Tabled", "Lost"}
ENACTED == [ordinance |-> "Approved", resolution |-> "Adopted"]
READINGS == {"First Reading", "Committee Report", "Second Reading", "Third Reading"}

StagesOfPaths == [kind \in Kinds |-> UNION {PATHS[kind][rank] : rank \in DOMAIN PATHS[kind]}]
PathStages(kind) == StagesOfPaths[kind]
AllStages(kind) == PathStages(kind) \cup ENDINGS
RegistrationStages(kind) == PathStages(kind)

Ranks ==
    [kind \in Kinds |-> [stage \in PathStages(kind) |->
        CHOOSE rank \in DOMAIN PATHS[kind] : stage \in PATHS[kind][rank]]]
(* 0 for a stage that is not on the path. *)
Rank(kind, stage) == IF stage \in PathStages(kind) THEN Ranks[kind][stage] ELSE 0

IsEnacted(kind, stage) == Rank(kind, stage) >= Rank(kind, ENACTED[kind])

-----------------------------------------------------------------------------
(* The normal moves. *)

IsFiled(current, target) == current = NoStage /\ target = "Filed"

(* Forward along the path, skipping stages, and not to a sibling outcome. *)
IsForward(kind, current, target) ==
    0 < Rank(kind, current) /\ Rank(kind, current) < Rank(kind, target)

(* True when a reading sends the measure back to committee. *)
IsReferralBack(kind, current, target) ==
    target = "In Committee" /\ Rank(kind, current) > Rank(kind, "In Committee")

IsEnded(kind, current, target) ==
    Rank(kind, current) > 0 /\ ~IsEnacted(kind, current) /\ target \in ENDINGS

IsTakenFromTable(kind, current, target) ==
    current = "Tabled" /\ target \in PathStages(kind) /\ ~IsEnacted(kind, target)

(* The stages a normal (non-correction) change may move a measure to. *)
AllowedNext(kind, current) ==
    {target \in AllStages(kind) :
        \/ IsFiled(current, target)
        \/ IsForward(kind, current, target)
        \/ current \in READINGS /\ IsReferralBack(kind, current, target)
        \/ IsEnded(kind, current, target)
        \/ IsTakenFromTable(kind, current, target)}
=============================================================================
