------------------------ MODULE OrderOfBusinessProofs ------------------------
(***************************************************************************)
(* The theorems of OrderOfBusiness, for every set of measures, sessions,   *)
(* requests, outcomes and days, about the instance B of MCMeasures.  Three *)
(* parts.  Plan: what it enters is a path of legal moves, proved of its    *)
(* recursion by a least counterexample.  Record: what every step keeps of  *)
(* the tables whatever requests run at one time, that the history is one   *)
(* dated chain of moves the rules allow and an enacted measure has its     *)
(* number.  Alone: what one request at a time keeps besides, that the      *)
(* entries of a held session are dated by it and end at the stage of the   *)
(* outcome on record.  Record has to say that a measure enacted before an  *)
(* outcome (before of its row) has a number, for a correction goes back    *)
(* there, and that only items of the agenda have outcomes; Alone, that a   *)
(* request finds its session as it loaded it, and that a session without   *)
(* outcomes, or not held, is in no history.                                *)
(***************************************************************************)
EXTENDS MCMeasures, SequenceTheorems, WellFoundedInduction, TLAPS

(* What a request is about to write, of each kind; the row of an outcome   *)
(* carries no stages yet.                                                  *)
EntryRows == [outcome : Outcomes, number : Numbers \cup {B!NoNumber}, note : BOOLEAN,
              before : {B!NoStage}, applied : {<<>>}, correction : BOOLEAN]
ItemJobs == [op : {"add_item", "remove_item", "clear_outcome"}, s : Sessions, m : Measures]
SetJobs == [op : {"set_outcome"}, s : Sessions, m : Measures, entry : EntryRows]
StatusJobs == [op : {"change_status"}, s : Sessions, on : SessionDays, status : B!Statuses]
RedateJobs == [op : {"update_session"}, s : Sessions, day : SessionDays]
DeleteJobs == [op : {"delete_session"}, s : Sessions]
CorrectJobs == [op : {"correct_outcome"}, s : Sessions, on : SessionDays, m : Measures, entry : EntryRows]
Jobs == {B!Idle} \cup ItemJobs \cup SetJobs \cup StatusJobs \cup RedateJobs \cup DeleteJobs \cup CorrectJobs

(* A row of an outcome: one for the kind of its measure, and a correction *)
(* that goes back to where it was enacted finds it with a number.          *)
Ruled(m, number, row) ==
    /\ row.outcome \in B!OutcomeChoices(B!Kind(m))
    /\ row.before \in B!AllStages(B!Kind(m)) \cup {B!NoStage}
    /\ row.applied \in Seq(B!AllStages(B!Kind(m)))
    /\ row.before # B!NoStage /\ B!IsEnacted(B!Kind(m), row.before) => number # B!NoNumber
OutcomesRuled == \A s \in Sessions, m \in Measures : \A i \in DOMAIN outcomes[s][m] :
                     Ruled(m, docs[m].number, outcomes[s][m][i])
(* Only items of the agenda have outcomes. *)
ItemsDecided == \A s \in Sessions, m \in Measures : outcomes[s][m] # <<>> => m \in agenda[s]

(* The stages of an outcome are finitely many. *)
LEMMA WantedIsFinite ==
    ASSUME NEW kind, NEW outcome \in B!OutcomeChoices(kind)
    PROVE  Len(B!Wanted(kind, outcome)) \in Nat
  <1> DEFINE stages == B!MEASURE_OUTCOMES[outcome]
  <1>0. /\ \A a : Len(<<a>>) \in Nat
        /\ \A a, b : Len(<<a, b>>) \in Nat
        /\ Len(<<>>) \in Nat
    OBVIOUS
  <1>1. outcome \in B!MeasureOutcomes /\ kind \in DOMAIN stages
    BY DEF B!OutcomeChoices, B!MEASURE_OUTCOMES
  <1>2. B!Wanted(kind, outcome) = stages[kind]  BY DEF B!Wanted
  <1>3. outcome = "Referred to committee" => stages = [ordinance |-> <<"First Reading", "In Committee">>, resolution |-> <<"In Committee">>]
    BY DEF B!MEASURE_OUTCOMES, B!MeasureOutcomes
  <1>4. outcome = "Committee report read" => stages = [k \in B!Kinds |-> <<"Committee Report">>]
    BY DEF B!MEASURE_OUTCOMES, B!MeasureOutcomes
  <1>5. outcome = "Passed on second reading" => stages = [ordinance |-> <<"Second Reading">>]
    BY DEF B!MEASURE_OUTCOMES, B!MeasureOutcomes
  <1>6. outcome = "Approved on third reading" => stages = [ordinance |-> <<"Third Reading", "Approved">>]
    BY DEF B!MEASURE_OUTCOMES, B!MeasureOutcomes
  <1>7. outcome = "Adopted" => stages = [resolution |-> <<"Adopted">>]
    BY DEF B!MEASURE_OUTCOMES, B!MeasureOutcomes
  <1>8. outcome = "Referred back to committee" => stages = [k \in B!Kinds |-> <<"In Committee">>]
    BY DEF B!MEASURE_OUTCOMES, B!MeasureOutcomes
  <1>9. outcome = "Tabled" => stages = [k \in B!Kinds |-> <<"Tabled">>]
    BY DEF B!MEASURE_OUTCOMES, B!MeasureOutcomes
  <1>10. outcome = "Withdrawn" => stages = [k \in B!Kinds |-> <<"Withdrawn">>]
    BY DEF B!MEASURE_OUTCOMES, B!MeasureOutcomes
  <1>11. outcome = "Lost" => stages = [k \in B!Kinds |-> <<"Lost">>]
    BY DEF B!MEASURE_OUTCOMES, B!MeasureOutcomes
  <1>12. outcome = "Deferred" => stages = [k \in B!Kinds |-> <<>>]
    BY DEF B!MEASURE_OUTCOMES, B!MeasureOutcomes
  <1>r. /\ \A a, b : \A k \in DOMAIN [ordinance |-> a, resolution |-> b] :
                     [ordinance |-> a, resolution |-> b][k] \in {a, b}
        /\ \A a : \A k \in DOMAIN [ordinance |-> a] : [ordinance |-> a][k] \in {a}
    OBVIOUS
  <1> HIDE DEF stages
  <1>13. CASE outcome = "Referred to committee"
    <2>1. stages[kind] \in {<<"First Reading", "In Committee">>, <<"In Committee">>}  BY <1>1, <1>3, <1>r, <1>13, Zenon
    <2> QED  BY <2>1, <1>0, <1>2, Zenon
  <1>14. CASE outcome = "Committee report read"
    <2>1. stages[kind] \in {<<"Committee Report">>}  BY <1>1, <1>4, <1>14
    <2> QED  BY <2>1, <1>0, <1>2, Zenon
  <1>15. CASE outcome = "Passed on second reading"
    <2>1. stages[kind] \in {<<"Second Reading">>}  BY <1>1, <1>5, <1>r, <1>15, Zenon
    <2> QED  BY <2>1, <1>0, <1>2, Zenon
  <1>16. CASE outcome = "Approved on third reading"
    <2>1. stages[kind] \in {<<"Third Reading", "Approved">>}  BY <1>1, <1>6, <1>r, <1>16, Zenon
    <2> QED  BY <2>1, <1>0, <1>2, Zenon
  <1>17. CASE outcome = "Adopted"
    <2>1. stages[kind] \in {<<"Adopted">>}  BY <1>1, <1>7, <1>17
    <2> QED  BY <2>1, <1>0, <1>2, Zenon
  <1>18. CASE outcome = "Referred back to committee"
    <2>1. stages[kind] \in {<<"In Committee">>}  BY <1>1, <1>8, <1>18
    <2> QED  BY <2>1, <1>0, <1>2, Zenon
  <1>19. CASE outcome = "Tabled"
    <2>1. stages[kind] \in {<<"Tabled">>}  BY <1>1, <1>9, <1>19
    <2> QED  BY <2>1, <1>0, <1>2, Zenon
  <1>20. CASE outcome = "Withdrawn"
    <2>1. stages[kind] \in {<<"Withdrawn">>}  BY <1>1, <1>10, <1>20
    <2> QED  BY <2>1, <1>0, <1>2, Zenon
  <1>21. CASE outcome = "Lost"
    <2>1. stages[kind] \in {<<"Lost">>}  BY <1>1, <1>11, <1>21
    <2> QED  BY <2>1, <1>0, <1>2, Zenon
  <1>22. CASE outcome = "Deferred"
    <2>1. stages[kind] \in {<<>>}  BY <1>1, <1>12, <1>22
    <2> QED  BY <2>1, <1>0, <1>2, Zenon
  <1> QED  BY <1>1, <1>13, <1>14, <1>15, <1>16, <1>17, <1>18, <1>19, <1>20, <1>21, <1>22 DEF B!MeasureOutcomes

(* A plan as far as it goes: legal moves, one after the other, from where  *)
(* the measure was to where the plan is.                                   *)
From(current, entered, i) == IF i = 1 THEN current ELSE entered[i - 1]
LegalMoves(kind, current, entered, note) ==
    \A i \in 1 .. Len(entered) :
        /\ entered[i] \in B!AllowedNext(kind, From(current, entered, i))
        /\ B!IsReferralBack(kind, From(current, entered, i), entered[i]) => note
Plans(kind) == [ok : BOOLEAN, at : B!AllStages(kind), entered : Seq(B!AllStages(kind))]
Legal(kind, current, note, plan) ==
    /\ plan \in Plans(kind)
    /\ plan.at = IF plan.entered = <<>> THEN current ELSE plan.entered[Len(plan.entered)]
    /\ LegalMoves(kind, current, plan.entered, note)

(* One stage more keeps a plan legal. *)
LEMMA PlanStepLegal ==
    ASSUME NEW kind \in B!Kinds, NEW current \in B!AllStages(kind), NEW note \in BOOLEAN,
           NEW wanted, NEW i, NEW plan, Legal(kind, current, note, plan)
    PROVE  Legal(kind, current, note, B!PlanStep(kind, wanted, note, plan, i))
  <1> DEFINE stage == wanted[i]  step == B!PlanStep(kind, wanted, note, plan, i)
             all == B!AllStages(kind)  entered == plan.entered  longer == Append(entered, stage)
  <1>1. plan.ok \in BOOLEAN /\ plan.at \in all /\ entered \in Seq(all)  BY DEF Legal, Plans
  <1>2. CASE stage = plan.at
    BY <1>2 DEF B!PlanStep
  <1>3. CASE stage # plan.at /\ stage \in B!AllowedNext(kind, plan.at) /\ (B!IsReferralBack(kind, plan.at, stage) => note)
    <2>1. step = [plan EXCEPT !.at = stage, !.entered = longer]
      BY <1>3 DEF B!PlanStep
    <2>2. stage \in all  BY <1>3 DEF B!AllowedNext
    <2>3. longer \in Seq(all) /\ Len(longer) = Len(entered) + 1 /\ longer # <<>>
      BY <1>1, <2>2, AppendProperties
    <2>4. \A k \in 1 .. Len(entered) : longer[k] = entered[k]
      BY <1>1, <2>2, AppendProperties
    <2>5. longer[Len(longer)] = stage
      BY <1>1, <2>2, <2>3, AppendProperties
    <2>6. step \in Plans(kind) /\ step.at = stage /\ step.entered = longer
      BY <2>1, <2>2, <2>3 DEF Legal, Plans
    <2>7. From(current, longer, Len(longer)) = plan.at
      BY <1>1, <2>3, <2>4, LenProperties, EmptySeq DEF From, Legal
    <2>8. LegalMoves(kind, current, longer, note)
      <3> SUFFICES ASSUME NEW k \in 1 .. Len(longer)
                   PROVE  /\ longer[k] \in B!AllowedNext(kind, From(current, longer, k))
                          /\ B!IsReferralBack(kind, From(current, longer, k), longer[k]) => note
        BY DEF LegalMoves
      <3>0. Len(entered) \in Nat  BY <1>1, LenProperties
      <3>1. CASE k = Len(longer)  BY <3>1, <1>3, <2>5, <2>7
      <3>2. CASE k # Len(longer)
        <4>1. k \in 1 .. Len(entered)  BY <3>0, <3>2, <2>3
        <4>2. longer[k] = entered[k] /\ From(current, longer, k) = From(current, entered, k)
          BY <4>1, <3>0, <2>4 DEF From
        <4> QED  BY <4>1, <4>2 DEF Legal, LegalMoves
      <3> QED  BY <3>1, <3>2
    <2> QED  BY <2>3, <2>5, <2>6, <2>8 DEF Legal
  <1>4. CASE stage # plan.at /\ ~(stage \in B!AllowedNext(kind, plan.at) /\ (B!IsReferralBack(kind, plan.at, stage) => note))
    <2>1. \E ok \in BOOLEAN : step = [plan EXCEPT !.ok = ok]
      BY <1>1, <1>4 DEF B!PlanStep
    <2> QED  BY <2>1, <1>1 DEF Legal, Plans
  <1> QED  BY <1>2, <1>3, <1>4

(* The plans of the first stages exist, one for each number of stages. *)
IsPlans(f, kind, current, wanted, note, n) ==
    f = [i \in 0 .. n |-> IF i = 0 THEN [ok |-> TRUE, at |-> current, entered |-> <<>>]
                          ELSE B!PlanStep(kind, wanted, note, f[i - 1], i)]

(* There is one such function, which is the recursion of Plan. *)
LEMMA PlansExist ==
    ASSUME NEW kind, NEW current, NEW wanted, NEW note, NEW n \in Nat
    PROVE  \E f : IsPlans(f, kind, current, wanted, note, n)
  <1> DEFINE Without == {k \in Nat : ~ \E f : IsPlans(f, kind, current, wanted, note, k)}
             start == [ok |-> TRUE, at |-> current, entered |-> <<>>]
  <1> SUFFICES ASSUME Without # {} PROVE FALSE  OBVIOUS
  <1>1. PICK k \in Without : \A j \in Without : ~(j < k)
    <2>1. PICK k \in Without : \A j \in Without : <<j, k>> \notin OpToRel(<, Nat)
      BY WFMin, NatLessThanWellFounded
    <2> QED  BY <2>1 DEF OpToRel
  <1>2. k # 0
    <2>1. IsPlans([i \in 0 .. 0 |-> start], kind, current, wanted, note, 0)
      BY DEF IsPlans
    <2> QED  BY <2>1
  <1>3. k - 1 \in Nat /\ k - 1 < k  BY <1>2
  <1>4. PICK f : IsPlans(f, kind, current, wanted, note, k - 1)
    BY <1>1, <1>3
  <1> DEFINE g == [i \in 0 .. k |-> IF i = k THEN B!PlanStep(kind, wanted, note, f[k - 1], k) ELSE f[i]]
  <1>5. ASSUME NEW i \in 0 .. k
        PROVE  g[i] = IF i = 0 THEN start ELSE B!PlanStep(kind, wanted, note, g[i - 1], i)
    <2>0. i \in Nat /\ k \in Nat  OBVIOUS
    <2>1. CASE i = k
      <3>1. g[i] = B!PlanStep(kind, wanted, note, f[k - 1], k)  BY <2>1
      <3>2. g[i - 1] = f[k - 1]  BY <2>1, <1>3
      <3> QED  BY <3>1, <3>2, <2>1, <1>2
    <2>2. CASE i # k
      <3>1. i \in 0 .. k - 1  BY <2>0, <2>2
      <3>2. g[i] = f[i]  BY <2>2
      <3>3. i # 0 => i - 1 \in 0 .. k /\ i - 1 # k  BY <3>1, <2>0
      <3>4. i # 0 => g[i - 1] = f[i - 1]  BY <3>3
      <3>5. f[i] = IF i = 0 THEN start ELSE B!PlanStep(kind, wanted, note, f[i - 1], i)
        BY <3>1, <1>4 DEF IsPlans
      <3> QED  BY <3>2, <3>4, <3>5
    <2> QED  BY <2>1, <2>2
  <1>6. IsPlans(g, kind, current, wanted, note, k)
    BY <1>5 DEF IsPlans
  <1> QED  BY <1>6

(* Whatever is planned for an outcome, the rules allow: every stage from   *)
(* the one before it, with a note where a reading sends the measure back.  *)
THEOREM PlanFollowsRules ==
    ASSUME NEW kind \in B!Kinds, NEW current \in B!AllStages(kind), NEW note \in BOOLEAN,
           NEW outcome \in B!OutcomeChoices(kind)
    PROVE  /\ B!Plan(kind, current, outcome, note).entered \in Seq(B!AllStages(kind))
           /\ LegalMoves(kind, current, B!Plan(kind, current, outcome, note).entered, note)
  <1> DEFINE wanted == B!Wanted(kind, outcome)
             start == [ok |-> TRUE, at |-> current, entered |-> <<>>]
             plans == CHOOSE f : IsPlans(f, kind, current, wanted, note, Len(wanted))
             end == plans[Len(wanted)]
  <1>1. Len(wanted) \in Nat  BY WantedIsFinite
  <1>2. IsPlans(plans, kind, current, wanted, note, Len(wanted))
    BY <1>1, PlansExist
  <1>3. B!Plan(kind, current, outcome, note) =
          [ok |-> end.ok /\ (wanted = <<>> \/ end.entered # <<>>), entered |-> end.entered]
    BY Zenon DEF B!Plan, IsPlans
  <1> HIDE DEF plans
  <1>4. \A i \in 0 .. Len(wanted) : Legal(kind, current, note, plans[i])
    <2> DEFINE Illegal == {i \in Nat : i =< Len(wanted) /\ ~Legal(kind, current, note, plans[i])}
    <2> SUFFICES ASSUME Illegal # {} PROVE FALSE  BY <1>1
    <2>1. PICK k \in Illegal : \A j \in Illegal : ~(j < k)
      <3>1. PICK k \in Illegal : \A j \in Illegal : <<j, k>> \notin OpToRel(<, Nat)
        BY WFMin, NatLessThanWellFounded
      <3> QED  BY <3>1 DEF OpToRel
    <2>2. CASE k = 0
      <3>1. plans[k] = start  BY <1>1, <1>2, <2>2 DEF IsPlans
      <3>2. Legal(kind, current, note, start)
        BY EmptySeq DEF Legal, Plans, LegalMoves
      <3> QED  BY <3>1, <3>2
    <2>3. CASE k # 0
      <3>1. k - 1 \in Nat /\ k - 1 < k /\ k - 1 =< Len(wanted)  BY <2>3, <1>1
      <3>2. Legal(kind, current, note, plans[k - 1])  BY <2>1, <3>1
      <3>3. plans[k] = B!PlanStep(kind, wanted, note, plans[k - 1], k)
        <4>1. k \in 0 .. Len(wanted)  BY <1>1
        <4> QED  BY <4>1, <1>2, <2>3 DEF IsPlans
      <3> QED  BY <3>2, <3>3, PlanStepLegal
    <2> QED  BY <2>2, <2>3
  <1>5. Legal(kind, current, note, end)  BY <1>1, <1>4
  <1> QED  BY <1>3, <1>5 DEF Legal, Plans
-----------------------------------------------------------------------------
(* Every measure is an ordinance or a resolution. *)
LEMMA KindIs == \A m : B!Kind(m) \in B!Kinds
  BY DEF B!Kind, B!Kinds

(* The stages of a kind are stages. *)
LEMMA StageNames == \A kind \in B!Kinds : B!AllStages(kind) \subseteq B!AllStageNames
  BY DEF B!AllStageNames

(* No stage is called no stage. *)
LEMMA NoStageIsNone == \A kind \in B!Kinds : B!NoStage \notin B!AllStages(kind)
  <1>1. \A i \in DOMAIN B!PATHS.ordinance : B!NoStage \notin B!PATHS.ordinance[i]
    <2> DEFINE p == B!PATHS.ordinance
    <2>1. DOMAIN p = 1 .. 11  BY DEF B!PATHS
    <2>2. /\ p[1] = {"Filed"} /\ p[2] = {"First Reading"} /\ p[3] = {"In Committee"}
          /\ p[4] = {"Committee Report"} /\ p[5] = {"Second Reading"} /\ p[6] = {"Third Reading"}
          /\ p[7] = {"Approved"} /\ p[8] = {"Sent to the Mayor"}
          /\ p[9] = {"Signed", "Vetoed", "Lapsed into Law"}
          /\ p[10] = {"Provincial Review"} /\ p[11] = {"Posted"}
      BY DEF B!PATHS
    <2> HIDE DEF p
    <2>3. /\ B!NoStage \notin p[1] /\ B!NoStage \notin p[2] /\ B!NoStage \notin p[3] /\ B!NoStage \notin p[4]
          /\ B!NoStage \notin p[5] /\ B!NoStage \notin p[6] /\ B!NoStage \notin p[7] /\ B!NoStage \notin p[8]
          /\ B!NoStage \notin p[9] /\ B!NoStage \notin p[10] /\ B!NoStage \notin p[11]
      BY <2>2, Zenon DEF B!NoStage
    <2>4. \A i \in 1 .. 11 : i \in {1, 2, 3, 4, 5, 6, 7, 8, 9, 10, 11}  OBVIOUS
    <2>5. \A i \in DOMAIN p : B!NoStage \notin p[i]  BY <2>1, <2>3, <2>4, Zenon
    <2> QED  BY <2>5 DEF p
  <1>2. \A i \in DOMAIN B!PATHS.resolution : B!NoStage \notin B!PATHS.resolution[i]
    <2> DEFINE p == B!PATHS.resolution
    <2>1. DOMAIN p = 1 .. 6  BY DEF B!PATHS
    <2>2. /\ p[1] = {"Filed"} /\ p[2] = {"In Committee"} /\ p[3] = {"Committee Report"}
          /\ p[4] = {"Adopted"} /\ p[5] = {"Sent to the Mayor"} /\ p[6] = {"Signed", "Vetoed"}
      BY DEF B!PATHS
    <2> HIDE DEF p
    <2>3. /\ B!NoStage \notin p[1] /\ B!NoStage \notin p[2] /\ B!NoStage \notin p[3]
          /\ B!NoStage \notin p[4] /\ B!NoStage \notin p[5] /\ B!NoStage \notin p[6]
      BY <2>2, Zenon DEF B!NoStage
    <2>4. \A i \in 1 .. 6 : i \in {1, 2, 3, 4, 5, 6}  OBVIOUS
    <2>5. \A i \in DOMAIN p : B!NoStage \notin p[i]  BY <2>1, <2>3, <2>4, Zenon
    <2> QED  BY <2>5 DEF p
  <1>3. B!NoStage \notin B!ENDINGS  BY Zenon DEF B!NoStage, B!ENDINGS
  <1> QED  BY <1>1, <1>2, <1>3, Zenon DEF B!AllStages, B!PathStages, B!StagesOfPaths, B!Kinds

(* Filed is a stage of either kind. *)
LEMMA FiledIsStage == \A kind \in B!Kinds : "Filed" \in B!AllStages(kind)
  <1>1. /\ 1 \in DOMAIN B!PATHS.ordinance /\ "Filed" \in B!PATHS.ordinance[1]
        /\ 1 \in DOMAIN B!PATHS.resolution /\ "Filed" \in B!PATHS.resolution[1]
    BY DEF B!PATHS
  <1> QED  BY <1>1, Zenon DEF B!AllStages, B!PathStages, B!StagesOfPaths, B!Kinds

(* The first rank of a path, which a measure that is filed is at. *)
LEMMA FiledIsFirst ==
    ASSUME NEW kind \in B!Kinds
    PROVE  /\ DOMAIN B!PATHS[kind] \subseteq Nat \ {0} /\ 1 \in DOMAIN B!PATHS[kind] /\ B!PATHS[kind][1] = {"Filed"}
           /\ \E i \in DOMAIN B!PATHS[kind] : B!ENACTED[kind] \in B!PATHS[kind][i]
           /\ B!ENACTED[kind] # "Filed"
           /\ \A i \in DOMAIN B!PATHS[kind] : "Filed" \in B!PATHS[kind][i] => i = 1
  <1>1. CASE kind = "ordinance"
    <2> DEFINE p == B!PATHS.ordinance
    <2>1. DOMAIN p = 1 .. 11  BY DEF B!PATHS
    <2>2. /\ p[1] = {"Filed"} /\ p[2] = {"First Reading"} /\ p[3] = {"In Committee"}
          /\ p[4] = {"Committee Report"} /\ p[5] = {"Second Reading"} /\ p[6] = {"Third Reading"}
          /\ p[7] = {"Approved"} /\ p[8] = {"Sent to the Mayor"}
          /\ p[9] = {"Signed", "Vetoed", "Lapsed into Law"}
          /\ p[10] = {"Provincial Review"} /\ p[11] = {"Posted"}
      BY DEF B!PATHS
    <2> HIDE DEF p
    <2>3. /\ "Filed" \notin p[2] /\ "Filed" \notin p[3] /\ "Filed" \notin p[4] /\ "Filed" \notin p[5]
          /\ "Filed" \notin p[6] /\ "Filed" \notin p[7] /\ "Filed" \notin p[8] /\ "Filed" \notin p[9]
          /\ "Filed" \notin p[10] /\ "Filed" \notin p[11]
      BY <2>2, Zenon
    <2>4. \A i \in 1 .. 11 : i \in {1, 2, 3, 4, 5, 6, 7, 8, 9, 10, 11}  OBVIOUS
    <2>5. \A i \in 1 .. 11 : "Filed" \in p[i] => i = 1  BY <2>3, <2>4, Zenon
    <2>6. "Approved" \in p[7] /\ "Approved" # "Filed" /\ B!ENACTED.ordinance = "Approved"
      BY <2>2 DEF B!ENACTED
    <2>7. 7 \in 1 .. 11 /\ 1 \in 1 .. 11 /\ 1 .. 11 \subseteq Nat \ {0}  OBVIOUS
    <2> QED  BY <1>1, <2>1, <2>2, <2>5, <2>6, <2>7, Zenon DEF p
  <1>2. CASE kind = "resolution"
    <2> DEFINE p == B!PATHS.resolution
    <2>1. DOMAIN p = 1 .. 6  BY DEF B!PATHS
    <2>2. /\ p[1] = {"Filed"} /\ p[2] = {"In Committee"} /\ p[3] = {"Committee Report"}
          /\ p[4] = {"Adopted"} /\ p[5] = {"Sent to the Mayor"} /\ p[6] = {"Signed", "Vetoed"}
      BY DEF B!PATHS
    <2> HIDE DEF p
    <2>3. /\ "Filed" \notin p[2] /\ "Filed" \notin p[3] /\ "Filed" \notin p[4]
          /\ "Filed" \notin p[5] /\ "Filed" \notin p[6]
      BY <2>2, Zenon
    <2>4. \A i \in 1 .. 6 : i \in {1, 2, 3, 4, 5, 6}  OBVIOUS
    <2>5. \A i \in 1 .. 6 : "Filed" \in p[i] => i = 1  BY <2>3, <2>4, Zenon
    <2>6. "Adopted" \in p[4] /\ "Adopted" # "Filed" /\ B!ENACTED.resolution = "Adopted"
      BY <2>2 DEF B!ENACTED
    <2>7. 4 \in 1 .. 6 /\ 1 \in 1 .. 6 /\ 1 .. 6 \subseteq Nat \ {0}  OBVIOUS
    <2> QED  BY <1>2, <2>1, <2>2, <2>5, <2>6, <2>7, Zenon DEF p
  <1> QED  BY <1>1, <1>2 DEF B!Kinds

(* A measure that is filed is not enacted. *)
LEMMA FiledIsNotEnacted == \A kind \in B!Kinds : ~B!IsEnacted(kind, "Filed")
  <1> SUFFICES ASSUME NEW kind \in B!Kinds  PROVE ~B!IsEnacted(kind, "Filed")
    OBVIOUS
  <1> DEFINE p == B!PATHS[kind]  enacted == B!ENACTED[kind]
             first == B!Rank(kind, "Filed")  last == B!Rank(kind, enacted)
  <1>1. "Filed" \in B!PathStages(kind) /\ enacted \in B!PathStages(kind)
    BY FiledIsFirst DEF B!PathStages, B!StagesOfPaths
  <1>2. /\ first = CHOOSE rank \in DOMAIN p : "Filed" \in p[rank]
        /\ last = CHOOSE rank \in DOMAIN p : enacted \in p[rank]
    BY <1>1 DEF B!Rank, B!Ranks
  <1>3. first \in DOMAIN p /\ "Filed" \in p[first]  BY <1>2, FiledIsFirst
  <1>4. last \in DOMAIN p /\ enacted \in p[last]  BY <1>2, FiledIsFirst
  <1> HIDE DEF first, last
  <1>5. first = 1  BY <1>3, FiledIsFirst
  <1>6. last # 1  BY <1>4, FiledIsFirst
  <1>7. last \in Nat \ {0}  BY <1>4, FiledIsFirst
  <1> QED  BY <1>5, <1>6, <1>7 DEF B!IsEnacted, first, last

-----------------------------------------------------------------------------
(* Sequences. *)

(* The last row of a sequence replaced by another. *)
LEMMA LastReplaced ==
    ASSUME NEW S, NEW rows \in Seq(S), rows # <<>>, NEW row \in S
    PROVE  /\ Append(B!Front(rows), row) \in Seq(S)
           /\ Append(B!Front(rows), row) # <<>>
           /\ B!Last(Append(B!Front(rows), row)) = row
           /\ \A i \in DOMAIN Append(B!Front(rows), row) :
                 Append(B!Front(rows), row)[i] = row \/ (i \in DOMAIN rows /\ Append(B!Front(rows), row)[i] = rows[i])
  <1>1. Len(rows) \in Nat /\ Len(rows) > 0 /\ \A i \in 1 .. Len(rows) : rows[i] \in S
    BY LenProperties, EmptySeq, ElementOfSeq
  <1>2. /\ B!Front(rows) \in Seq(S) /\ Len(B!Front(rows)) = Len(rows) - 1
        /\ \A i \in 1 .. Len(rows) - 1 : B!Front(rows)[i] = rows[i]
    <2> DEFINE n == Len(rows) - 1
    <2>1. 1 \in Int /\ n \in Nat /\ n \in Int /\ \A i \in 1 .. n : rows[i] \in S  BY <1>1
    <2> HIDE DEF n
    <2>2. /\ SubSeq(rows, 1, n) \in Seq(S) /\ Len(SubSeq(rows, 1, n)) = IF 1 <= n THEN n - 1 + 1 ELSE 0
          /\ \A i \in 1 .. n - 1 + 1 : SubSeq(rows, 1, n)[i] = rows[1 + i - 1]
      BY <2>1, SubSeqProperties
    <2>3. Len(SubSeq(rows, 1, n)) = n /\ \A i \in 1 .. n : SubSeq(rows, 1, n)[i] = rows[i]
      BY <2>1, <2>2
    <2> QED  BY <2>2, <2>3 DEF B!Front, n
  <1>3. /\ Append(B!Front(rows), row) \in Seq(S) /\ Len(Append(B!Front(rows), row)) = Len(rows)
        /\ \A i \in 1 .. Len(rows) - 1 : Append(B!Front(rows), row)[i] = B!Front(rows)[i]
        /\ Append(B!Front(rows), row)[Len(rows)] = row
    BY <1>1, <1>2, AppendProperties
  <1>4. DOMAIN Append(B!Front(rows), row) = 1 .. Len(rows) /\ DOMAIN rows = 1 .. Len(rows)
    BY <1>3, LenProperties
  <1> QED  BY <1>1, <1>2, <1>3, <1>4, EmptySeq DEF B!Last

(* A sequence without its last row. *)
LEMMA LastRemoved ==
    ASSUME NEW S, NEW rows \in Seq(S), rows # <<>>
    PROVE  /\ B!Front(rows) \in Seq(S)
           /\ \A i \in DOMAIN B!Front(rows) : i \in DOMAIN rows /\ B!Front(rows)[i] = rows[i]
  <1>1. Len(rows) \in Nat /\ Len(rows) > 0 /\ \A i \in 1 .. Len(rows) : rows[i] \in S
    BY LenProperties, EmptySeq, ElementOfSeq
  <1>2. /\ B!Front(rows) \in Seq(S) /\ Len(B!Front(rows)) = Len(rows) - 1
        /\ \A i \in 1 .. Len(rows) - 1 : B!Front(rows)[i] = rows[i]
    <2> DEFINE n == Len(rows) - 1
    <2>1. 1 \in Int /\ n \in Nat /\ n \in Int /\ \A i \in 1 .. n : rows[i] \in S  BY <1>1
    <2> HIDE DEF n
    <2>2. /\ SubSeq(rows, 1, n) \in Seq(S) /\ Len(SubSeq(rows, 1, n)) = IF 1 <= n THEN n - 1 + 1 ELSE 0
          /\ \A i \in 1 .. n - 1 + 1 : SubSeq(rows, 1, n)[i] = rows[1 + i - 1]
      BY <2>1, SubSeqProperties
    <2>3. Len(SubSeq(rows, 1, n)) = n /\ \A i \in 1 .. n : SubSeq(rows, 1, n)[i] = rows[i]
      BY <2>1, <2>2
    <2> QED  BY <2>2, <2>3 DEF B!Front, n
  <1>4. DOMAIN B!Front(rows) = 1 .. Len(rows) - 1 /\ DOMAIN rows = 1 .. Len(rows)
    BY <1>2, LenProperties
  <1> QED  BY <1>1, <1>2, <1>4

(* A sequence with one row more. *)
LEMMA RowAdded ==
    ASSUME NEW S, NEW rows \in Seq(S), NEW row \in S
    PROVE  /\ Append(rows, row) \in Seq(S)
           /\ Append(rows, row) # <<>>
           /\ B!Last(Append(rows, row)) = row
           /\ Len(Append(rows, row)) = Len(rows) + 1
           /\ \A i \in DOMAIN rows : i \in DOMAIN Append(rows, row) /\ Append(rows, row)[i] = rows[i]
           /\ \A i \in DOMAIN Append(rows, row) :
                 Append(rows, row)[i] = row \/ (i \in DOMAIN rows /\ Append(rows, row)[i] = rows[i])
  <1>1. Len(rows) \in Nat /\ DOMAIN rows = 1 .. Len(rows)
    BY LenProperties
  <1>2. /\ Append(rows, row) \in Seq(S) /\ Len(Append(rows, row)) = Len(rows) + 1
        /\ \A i \in 1 .. Len(rows) : Append(rows, row)[i] = rows[i]
        /\ Append(rows, row)[Len(rows) + 1] = row
    BY AppendProperties
  <1>3. DOMAIN Append(rows, row) = 1 .. Len(rows) + 1
    BY <1>2, LenProperties
  <1> QED  BY <1>1, <1>2, <1>3, EmptySeq DEF B!Last

-----------------------------------------------------------------------------
(* Histories. *)

(* An entry of a session is a move the rules allow. *)
Legit(kind, change) ==
    change.session # B!NoSession /\ ~change.correction =>
        /\ change.stage \in B!AllowedNext(kind, change.previous)
        /\ B!IsReferralBack(kind, change.previous, change.stage) => change.note
(* An entry goes on from the one before it. *)
After(before, change) == /\ change.previous = before.stage
                         /\ ~change.correction => before.on =< change.on
Continuous(h) == \A i \in 2 .. Len(h) : After(h[i - 1], h[i])
Sound(kind, h) ==
    /\ h \in Seq(B!Changes) /\ h # <<>>
    /\ \A i \in DOMAIN h : Legit(kind, h[i])
    /\ Continuous(h)

(* A history with entries added that go on from it. *)
LEMMA Extended ==
    ASSUME NEW kind, NEW h, Sound(kind, h), NEW new \in Seq(B!Changes),
           \A k \in DOMAIN new : Legit(kind, new[k]),
           new # <<>> => After(B!Last(h), new[1]),
           Continuous(new)
    PROVE  /\ Sound(kind, h \o new)
           /\ Len(h \o new) = Len(h) + Len(new)
           /\ \A i \in DOMAIN (h \o new) :
                 IF i =< Len(h) THEN i \in DOMAIN h /\ (h \o new)[i] = h[i]
                 ELSE i - Len(h) \in DOMAIN new /\ (h \o new)[i] = new[i - Len(h)]
           /\ B!Last(h \o new) = IF new = <<>> THEN B!Last(h) ELSE B!Last(new)
  <1> DEFINE g == h \o new
  <1>1. h \in Seq(B!Changes) /\ Len(h) \in Nat /\ Len(h) > 0 /\ DOMAIN h = 1 .. Len(h)
    BY LenProperties, EmptySeq DEF Sound
  <1>2. Len(new) \in Nat /\ DOMAIN new = 1 .. Len(new) /\ (new # <<>> => Len(new) > 0) /\ (new = <<>> => Len(new) = 0)
    BY LenProperties, EmptySeq
  <1>3. /\ g \in Seq(B!Changes) /\ Len(g) = Len(h) + Len(new)
        /\ \A i \in 1 .. Len(h) + Len(new) : g[i] = IF i <= Len(h) THEN h[i] ELSE new[i - Len(h)]
    BY <1>1, ConcatProperties
  <1>4. DOMAIN g = 1 .. Len(h) + Len(new)  BY <1>3, LenProperties
  <1> HIDE DEF g
  <1>5. \A i \in DOMAIN g : IF i =< Len(h) THEN i \in DOMAIN h /\ g[i] = h[i]
                            ELSE i - Len(h) \in DOMAIN new /\ g[i] = new[i - Len(h)]
    BY <1>1, <1>2, <1>3, <1>4
  <1>6. B!Last(g) = IF new = <<>> THEN B!Last(h) ELSE B!Last(new)
    BY <1>1, <1>2, <1>3 DEF B!Last
  <1>7. \A i \in DOMAIN g : Legit(kind, g[i])
    BY <1>5 DEF Sound
  <1>8. ASSUME NEW i \in 2 .. Len(g)
        PROVE  After(g[i - 1], g[i])
    <2>1. CASE i =< Len(h)
      <3>1. g[i] = h[i] /\ g[i - 1] = h[i - 1] /\ i \in 2 .. Len(h)  BY <2>1, <1>1, <1>2, <1>3
      <3> QED  BY <3>1 DEF Sound, Continuous
    <2>2. CASE i = Len(h) + 1
      <3>0. Len(new) > 0 /\ i \in 1 .. Len(h) + Len(new) /\ ~(i <= Len(h)) /\ i - Len(h) = 1
        BY <2>2, <1>1, <1>2, <1>3
      <3>3. g[i] = new[1] /\ new # <<>>  BY <3>0, <1>2, <1>3
      <3>4. i - 1 \in 1 .. Len(h) + Len(new) /\ i - 1 = Len(h)  BY <2>2, <1>1, <1>2
      <3>1. g[i] = new[1] /\ g[i - 1] = h[Len(h)] /\ new # <<>>  BY <3>3, <3>4, <1>1, <1>3
      <3> QED  BY <3>1 DEF B!Last
    <2>3. CASE i > Len(h) + 1
      <3> DEFINE k == i - Len(h)
      <3>1. g[i] = new[k] /\ g[i - 1] = new[k - 1] /\ k \in 2 .. Len(new)
        <4>0. /\ i \in 1 .. Len(h) + Len(new) /\ ~(i <= Len(h))
              /\ i - 1 \in 1 .. Len(h) + Len(new) /\ ~(i - 1 <= Len(h))
          BY <2>3, <1>1, <1>2, <1>3
        <4>1. g[i] = new[i - Len(h)]  BY <4>0, <1>3
        <4>2. g[i - 1] = new[(i - 1) - Len(h)]  BY <4>0, <1>3
        <4>3. (i - 1) - Len(h) = k - 1  BY <1>1
        <4> QED  BY <4>1, <4>2, <4>3, <2>3, <1>1, <1>2, <1>3
      <3> QED  BY <3>1 DEF Continuous
    <2> QED  BY <2>1, <2>2, <2>3, <1>1, <1>2
  <1>9. g # <<>>  BY <1>1, <1>2, <1>3, EmptySeq
  <1>10. Sound(kind, g)  BY <1>3, <1>7, <1>8, <1>9 DEF Sound, Continuous
  <1> QED  BY <1>3, <1>5, <1>6, <1>10 DEF g

(* A deleted session is taken out of its entries. *)
Detached(h, s) == [i \in DOMAIN h |->
    IF h[i].session = s THEN [h[i] EXCEPT !.session = B!NoSession] ELSE h[i]]

(* It stays a history all the same. *)
LEMMA DetachedSound ==
    ASSUME NEW kind, NEW h, Sound(kind, h), NEW s
    PROVE  /\ Sound(kind, Detached(h, s))
           /\ B!Last(Detached(h, s)).stage = B!Last(h).stage
           /\ DOMAIN Detached(h, s) = DOMAIN h
           /\ \A i \in DOMAIN h : h[i].session # s => Detached(h, s)[i] = h[i]
           /\ \A i \in DOMAIN h : h[i].session = s => Detached(h, s)[i].session = B!NoSession
  <1> DEFINE d == Detached(h, s)
  <1>1. h \in Seq(B!Changes) /\ Len(h) \in Nat /\ Len(h) > 0 /\ DOMAIN h = 1 .. Len(h)
        /\ \A i \in 1 .. Len(h) : h[i] \in B!Changes
    BY LenProperties, EmptySeq, ElementOfSeq DEF Sound
  <1>2. DOMAIN d = 1 .. Len(h)  BY <1>1 DEF Detached
  <1>3. \A i \in 1 .. Len(h) : /\ d[i] \in B!Changes /\ d[i].stage = h[i].stage /\ d[i].previous = h[i].previous
                               /\ d[i].on = h[i].on /\ d[i].correction = h[i].correction /\ d[i].note = h[i].note
                               /\ d[i].session = IF h[i].session = s THEN B!NoSession ELSE h[i].session
                               /\ h[i].session # s => d[i] = h[i]
    BY <1>1 DEF Detached, B!Changes
  <1>4. d \in Seq(B!Changes) /\ Len(d) = Len(h)
    <2>1. d \in [1 .. Len(h) -> B!Changes]  BY <1>2, <1>3 DEF Detached
    <2>2. d \in Seq(B!Changes)  BY <2>1, <1>1, SeqDef
    <2> QED  BY <2>2, <1>1, <1>2, LenProperties
  <1> HIDE DEF d
  <1>5. \A i \in DOMAIN d : Legit(kind, d[i])
    BY <1>1, <1>2, <1>3 DEF Legit, Sound
  <1>6. Continuous(d)
    BY <1>1, <1>3, <1>4 DEF Continuous, Sound, After
  <1>7. d # <<>>  BY <1>1, <1>4, EmptySeq
  <1>8. B!Last(d).stage = B!Last(h).stage  BY <1>1, <1>3, <1>4 DEF B!Last
  <1>9. Sound(kind, d)  BY <1>4, <1>5, <1>6, <1>7 DEF Sound
  <1> QED  BY <1>1, <1>2, <1>3, <1>8, <1>9 DEF d

(* What a session enters goes on from the history, and is legal. *)
LEMMA EnteredSound ==
    ASSUME B!InputsAssumption,
           NEW m \in Measures, NEW s \in Sessions \cup {B!NoSession}, NEW day \in SessionDays, NEW note \in BOOLEAN,
           NEW correcting \in BOOLEAN, NEW t \in Seq(B!AllStages(B!Kind(m))),
           docs[m].stage \in B!AllStages(B!Kind(m)),
           ~correcting => LegalMoves(B!Kind(m), docs[m].stage, t, note),
           Sound(B!Kind(m), history[m]), B!Last(history[m]).stage = docs[m].stage,
           ~correcting => B!Last(history[m]).on =< day
    PROVE  LET new == B!Entered(s, day, m, note, t, correcting)
           IN  /\ new \in Seq(B!Changes) /\ Len(new) = Len(t) /\ DOMAIN new = 1 .. Len(t)
               /\ \A k \in DOMAIN new : /\ Legit(B!Kind(m), new[k]) /\ new[k].stage = t[k]
                                        /\ new[k].session = s /\ new[k].on = day
               /\ new # <<>> => After(B!Last(history[m]), new[1])
               /\ Continuous(new)
  <1> DEFINE new == B!Entered(s, day, m, note, t, correcting)
             kind == B!Kind(m)
             all == B!AllStages(kind)
  <1>1. Len(t) \in Nat /\ DOMAIN t = 1 .. Len(t) /\ \A k \in 1 .. Len(t) : t[k] \in all
    BY LenProperties, ElementOfSeq
  <1>2. all \subseteq B!AllStageNames  BY KindIs, StageNames
  <1>3. ASSUME NEW k \in 1 .. Len(t)
        PROVE  /\ new[k] \in B!Changes /\ new[k].stage = t[k]
               /\ new[k].previous = From(docs[m].stage, t, k)
               /\ new[k].session = s /\ new[k].on = day
               /\ new[k].correction = correcting /\ new[k].note = note
    <2>1. new[k] = [stage |-> t[k], previous |-> IF k = 1 THEN docs[m].stage ELSE t[k - 1],
                    on |-> day, correction |-> correcting, note |-> note, session |-> s]
      BY <1>1 DEF B!Entered
    <2>2. t[k] \in B!AllStageNames /\ (IF k = 1 THEN docs[m].stage ELSE t[k - 1]) \in B!AllStageNames \cup {B!NoStage}
      <3>1. k # 1 => k - 1 \in 1 .. Len(t)  BY <1>1
      <3> QED  BY <3>1, <1>1, <1>2
    <2> QED  BY <2>1, <2>2 DEF B!Changes, From
  <1>4. DOMAIN new = 1 .. Len(t) /\ new \in [1 .. Len(t) -> B!Changes]
    BY <1>1, <1>3 DEF B!Entered
  <1>5. new \in Seq(B!Changes) /\ Len(new) = Len(t)
    <2>1. new \in Seq(B!Changes)  BY <1>1, <1>4, SeqDef
    <2> QED  BY <2>1, <1>1, <1>4, LenProperties
  <1> HIDE DEF new
  <1>6. \A k \in DOMAIN new : Legit(kind, new[k])
    BY <1>3, <1>4 DEF Legit, LegalMoves
  <1>7. new # <<>> => After(B!Last(history[m]), new[1])
    <2>1. new # <<>> => 1 \in 1 .. Len(t)  BY <1>1, <1>5, EmptySeq
    <2>2. new # <<>> => new[1].previous = docs[m].stage /\ new[1].on = day /\ new[1].correction = correcting
      BY <2>1, <1>3 DEF From
    <2> QED  BY <2>2 DEF After
  <1>8. ASSUME NEW k \in 2 .. Len(new)  PROVE After(new[k - 1], new[k])
    <2>1. k \in 1 .. Len(t) /\ k - 1 \in 1 .. Len(t) /\ k # 1  BY <1>1, <1>5
    <2>2. new[k - 1].stage = t[k - 1] /\ new[k].previous = t[k - 1] /\ new[k - 1].on = day /\ new[k].on = day
      BY <2>1, <1>3 DEF From
    <2>3. day \in Nat  BY DEF B!InputsAssumption
    <2> QED  BY <2>2, <2>3 DEF After
  <1> QED  BY <1>3, <1>4, <1>5, <1>6, <1>7, <1>8 DEF new, Continuous

-----------------------------------------------------------------------------
(* The record: any number of requests at one time. *)

Rows == [stage : B!AllStageNames, number : Numbers \cup {B!NoNumber}]
MeasureOK(m) ==
    /\ docs[m].stage \in B!AllStages(B!Kind(m))
    /\ Sound(B!Kind(m), history[m])
    /\ B!Last(history[m]).stage = docs[m].stage
    /\ B!IsEnacted(B!Kind(m), docs[m].stage) => docs[m].number # B!NoNumber
MeasuresOK == /\ docs \in [Measures -> Rows] /\ history \in [Measures -> Seq(B!Changes)]
              /\ \A m \in Measures : MeasureOK(m)
RowsOK == outcomes \in [Sessions -> [Measures -> Seq(B!OutcomeRows)]] /\ OutcomesRuled
ItemsOK == /\ sessions \in [Sessions -> [status : B!Statuses \cup {"Absent"}, on : SessionDays]]
           /\ agenda \in [Sessions -> SUBSET Measures]
           /\ ItemsDecided
Record == MeasuresOK /\ RowsOK /\ ItemsOK /\ jobs \in [Requests -> Jobs]

(* What entering an outcome does to its measure: p is planned, t entered. *)
Moved(s, day, m, entry, start, correcting, p, t) ==
    /\ p \in Seq(B!AllStages(B!Kind(m))) /\ LegalMoves(B!Kind(m), start, p, entry.note)
    /\ t = B!Targets(m, start, p, correcting) /\ t \in Seq(B!AllStages(B!Kind(m)))
    /\ docs'[m] \in Rows
    /\ docs'[m].stage = IF t = <<>> THEN docs[m].stage ELSE B!Last(t)
    /\ docs[m].number # B!NoNumber => docs'[m].number # B!NoNumber
    /\ B!IsEnacted(B!Kind(m), docs'[m].stage) => docs'[m].number # B!NoNumber
    /\ ~correcting => B!Last(history[m]).on =< day
    /\ history'[m] = history[m] \o B!Entered(s, day, m, entry.note, t, correcting)
    /\ LET row == [entry EXCEPT !.before = start, !.applied = p]
       IN  outcomes'[s][m] = IF correcting THEN Append(outcomes[s][m], row) ELSE Append(B!Front(outcomes[s][m]), row)

Movable(s, m, entry, start, correcting) ==
    /\ entry \in B!OutcomeRows /\ entry.outcome \in B!OutcomeChoices(B!Kind(m))
    /\ start \in B!AllStages(B!Kind(m))
    /\ B!IsEnacted(B!Kind(m), start) => docs[m].number # B!NoNumber
    /\ ~correcting => start = docs[m].stage /\ outcomes[s][m] # <<>>

(* What entering the outcomes does to a measure they move. *)
LEMMA EntersMeasure ==
    ASSUME B!InputsAssumption, Record,
           NEW s \in Sessions, NEW day \in SessionDays, NEW correcting \in BOOLEAN, NEW moves, NEW start,
           DOMAIN moves \subseteq Measures,
           NEW m \in DOMAIN moves, Movable(s, m, moves[m], start[m], correcting),
           B!EnterStages(s, day, moves, start, correcting)
    PROVE  \E p, t : Moved(s, day, m, moves[m], start[m], correcting, p, t)
  <1> DEFINE planned == [x \in DOMAIN moves |-> B!Plan(B!Kind(x), start[x], moves[x].outcome, moves[x].note)]
             targets == [x \in DOMAIN moves |-> B!Targets(x, start[x], planned[x].entered, correcting)]
             p == planned[m].entered
             t == targets[m]
             entry == moves[m]
             kind == B!Kind(m)
             all == B!AllStages(kind)
             row == [entry EXCEPT !.before = start[m], !.applied = p]
  <1>1. /\ B!CanEnter(day, m, entry, planned[m], correcting)
        /\ docs'[m] = [stage |-> IF t = <<>> THEN docs[m].stage ELSE B!Last(t),
                       number |-> IF B!EntersNumber(m, p) THEN entry.number ELSE docs[m].number]
        /\ history'[m] = history[m] \o B!Entered(s, day, m, entry.note, t, correcting)
    BY DEF B!EnterStages
  <1>2. outcomes'[s][m] = IF correcting THEN Append(outcomes[s][m], row) ELSE Append(B!Front(outcomes[s][m]), row)
    <2>1. outcomes \in [Sessions -> [Measures -> Seq(B!OutcomeRows)]]  BY DEF Record, RowsOK
    <2> QED  BY <2>1 DEF B!EnterStages
  <1>3. p \in Seq(all) /\ LegalMoves(kind, start[m], p, entry.note)
    <2>1. p = B!Plan(kind, start[m], entry.outcome, entry.note).entered  OBVIOUS
    <2>2. entry.note \in BOOLEAN  BY DEF Movable, B!OutcomeRows
    <2> QED  BY <2>1, <2>2, KindIs, PlanFollowsRules DEF Movable
  <1>4. t = B!Targets(m, start[m], p, correcting)  OBVIOUS
  <1> HIDE DEF planned, targets
  <1>5. t \in Seq(all)
    BY <1>3, <1>4 DEF B!Targets, Movable
  <1>6. t # <<>> => B!Last(t) \in all
    <2>1. t # <<>> => Len(t) \in 1 .. Len(t)  BY <1>5, EmptySeq
    <2> QED  BY <2>1, <1>5, ElementOfSeq DEF B!Last
  <1>7. docs[m] \in Rows /\ docs[m].stage \in all /\ MeasureOK(m)
    BY DEF Record, MeasuresOK, MeasureOK
  <1>8. entry.number \in Numbers \cup {B!NoNumber}
    BY DEF Movable, B!OutcomeRows
  <1>9. docs'[m] \in Rows
    BY <1>1, <1>6, <1>7, <1>8, KindIs, StageNames DEF Rows
  <1>10. docs'[m].stage = IF t = <<>> THEN docs[m].stage ELSE B!Last(t)
    BY <1>1
  <1>11. docs'[m].number = IF B!EntersNumber(m, p) THEN entry.number ELSE docs[m].number
    BY <1>1
  <1>12. B!EntersNumber(m, p) => docs[m].number = B!NoNumber /\ entry.number # B!NoNumber
    BY <1>1 DEF B!CanEnter, B!EntersNumber
  <1>13. ASSUME B!IsEnacted(kind, docs'[m].stage)  PROVE docs'[m].number # B!NoNumber
    <2>1. CASE t = <<>>
      BY <2>1, <1>7, <1>10, <1>11, <1>12, <1>13 DEF MeasureOK
    <2>2. CASE t # <<>> /\ t = p
      <3>1. B!Last(p) \in B!ToSet(p)
        <4>1. Len(p) \in DOMAIN p  BY <2>2, <1>3, EmptySeq, LenProperties
        <4> QED  BY <4>1 DEF B!Last, B!ToSet
      <3>2. docs[m].number = B!NoNumber => B!EntersNumber(m, p)
        BY <3>1, <2>2, <1>10, <1>13 DEF B!EntersNumber
      <3> QED  BY <3>2, <1>11, <1>12
    <2>3. CASE t # <<>> /\ t # p
      <3>1. t = <<start[m]>>  BY <2>3, <1>4 DEF B!Targets
      <3>2. B!Last(t) = start[m]  BY <3>1 DEF B!Last
      <3>3. docs[m].number # B!NoNumber  BY <3>2, <2>3, <1>10, <1>13 DEF Movable
      <3> QED  BY <3>3, <1>11, <1>12
    <2> QED  BY <2>1, <2>2, <2>3
  <1>14. ~correcting => B!Last(history[m]).on =< day
    BY <1>1, <1>7 DEF B!CanEnter, MeasureOK, Sound
  <1>15. Moved(s, day, m, entry, start[m], correcting, p, t)
    BY <1>1, <1>2, <1>3, <1>4, <1>5, <1>9, <1>10, <1>11, <1>12, <1>13, <1>14 DEF Moved
  <1> QED  BY <1>15

(* A measure that no outcome moves is left alone. *)
LEMMA EntersOthers ==
    ASSUME Record, NEW s \in Sessions, NEW day, NEW correcting, NEW moves, NEW start,
           B!EnterStages(s, day, moves, start, correcting)
    PROVE  /\ \A m \in Measures \ DOMAIN moves : /\ docs'[m] = docs[m] /\ history'[m] = history[m]
                                                 /\ outcomes'[s][m] = outcomes[s][m]
           /\ \A x \in Sessions \ {s} : outcomes'[x] = outcomes[x]
  <1>1. outcomes \in [Sessions -> [Measures -> Seq(B!OutcomeRows)]]  BY DEF Record, RowsOK
  <1>2. \A m \in Measures \ DOMAIN moves : docs'[m] = docs[m] /\ history'[m] = history[m]
    BY DEF B!EnterStages
  <1>3. /\ \A m \in Measures \ DOMAIN moves : outcomes'[s][m] = outcomes[s][m]
        /\ \A x \in Sessions \ {s} : outcomes'[x] = outcomes[x]
    BY <1>1 DEF B!EnterStages
  <1> QED  BY <1>2, <1>3

(* The tables still have a row for each. *)
LEMMA EntersAll ==
    ASSUME Record, NEW s \in Sessions, NEW day, NEW correcting, NEW moves, NEW start,
           B!EnterStages(s, day, moves, start, correcting)
    PROVE  /\ docs' \in [Measures -> {docs'[m] : m \in Measures}]
           /\ history' \in [Measures -> {history'[m] : m \in Measures}]
           /\ outcomes' \in [Sessions -> {outcomes'[x] : x \in Sessions}]
           /\ outcomes'[s] \in [Measures -> {outcomes'[s][m] : m \in Measures}]
  <1>1. outcomes \in [Sessions -> [Measures -> Seq(B!OutcomeRows)]]  BY DEF Record, RowsOK
  <1>2. /\ docs' \in [Measures -> {docs'[m] : m \in Measures}]
        /\ history' \in [Measures -> {history'[m] : m \in Measures}]
    BY DEF B!EnterStages
  <1>3. /\ outcomes' \in [Sessions -> {outcomes'[x] : x \in Sessions}]
        /\ outcomes'[s] \in [Measures -> {outcomes'[s][m] : m \in Measures}]
    BY <1>1 DEF B!EnterStages
  <1> QED  BY <1>2, <1>3

NumbersKept == \A m \in Measures : docs[m].number # B!NoNumber => docs'[m].number # B!NoNumber

(* A row stays in order while measures keep their numbers. *)
LEMMA RuledKept ==
    ASSUME NumbersKept, NEW m \in Measures, NEW row, Ruled(m, docs[m].number, row)
    PROVE  Ruled(m, docs'[m].number, row)
  BY DEF NumbersKept, Ruled

(* The row a move is recorded with is in order. *)
LEMMA EntryRuled ==
    ASSUME NEW m \in Measures, NEW entry \in B!OutcomeRows, entry.outcome \in B!OutcomeChoices(B!Kind(m)),
           NEW start \in B!AllStages(B!Kind(m)), NEW p \in Seq(B!AllStages(B!Kind(m))),
           B!IsEnacted(B!Kind(m), start) => docs[m].number # B!NoNumber
    PROVE  LET row == [entry EXCEPT !.before = start, !.applied = p]
           IN  /\ row \in B!OutcomeRows /\ Ruled(m, docs[m].number, row) /\ row.before = start /\ row.applied = p
               /\ row.correction = entry.correction
  <1>1. B!AllStages(B!Kind(m)) \subseteq B!AllStageNames  BY KindIs, StageNames
  <1>2. p \in Seq(B!AllStageNames)  BY <1>1, SeqMonotonic
  <1>3. [entry EXCEPT !.before = start, !.applied = p] \in B!OutcomeRows
    BY <1>1, <1>2 DEF B!OutcomeRows
  <1> QED  BY <1>3 DEF B!OutcomeRows, Ruled

(* Entering outcomes, of a session held or corrected, keeps the measures   *)
(* and the rows.                                                           *)
LEMMA EnteringKeeps ==
    ASSUME B!InputsAssumption, Record,
           NEW s \in Sessions, NEW day \in SessionDays, NEW correcting \in BOOLEAN, NEW moves, NEW start,
           DOMAIN moves \subseteq agenda[s],
           \A m \in DOMAIN moves : Movable(s, m, moves[m], start[m], correcting),
           B!EnterStages(s, day, moves, start, correcting)
    PROVE  MeasuresOK' /\ RowsOK' /\ (UNCHANGED <<agenda>> => ItemsDecided')
  <1>0. DOMAIN moves \subseteq Measures  BY DEF Record, ItemsOK
  <1>1. \A m \in DOMAIN moves : \E p, t : Moved(s, day, m, moves[m], start[m], correcting, p, t)
    BY <1>0, EntersMeasure
  <1>o. /\ \A m \in Measures \ DOMAIN moves : /\ docs'[m] = docs[m] /\ history'[m] = history[m]
                                               /\ outcomes'[s][m] = outcomes[s][m]
        /\ \A x \in Sessions \ {s} : outcomes'[x] = outcomes[x]
        /\ docs' \in [Measures -> {docs'[m] : m \in Measures}]
        /\ history' \in [Measures -> {history'[m] : m \in Measures}]
        /\ outcomes' \in [Sessions -> {outcomes'[x] : x \in Sessions}]
        /\ outcomes'[s] \in [Measures -> {outcomes'[s][m] : m \in Measures}]
    <2>1. /\ \A m \in Measures \ DOMAIN moves : /\ docs'[m] = docs[m] /\ history'[m] = history[m]
                                                 /\ outcomes'[s][m] = outcomes[s][m]
          /\ \A x \in Sessions \ {s} : outcomes'[x] = outcomes[x]
      BY EntersOthers, Zenon
    <2>2. /\ docs' \in [Measures -> {docs'[m] : m \in Measures}]
          /\ history' \in [Measures -> {history'[m] : m \in Measures}]
          /\ outcomes' \in [Sessions -> {outcomes'[x] : x \in Sessions}]
          /\ outcomes'[s] \in [Measures -> {outcomes'[s][m] : m \in Measures}]
      BY EntersAll, Zenon
    <2> QED  BY <2>1, <2>2, Zenon
  <1>2. NumbersKept
    <2> SUFFICES ASSUME NEW m \in Measures, docs[m].number # B!NoNumber  PROVE docs'[m].number # B!NoNumber
      BY DEF NumbersKept
    <2>1. CASE m \in DOMAIN moves  BY <2>1, <1>1 DEF Moved
    <2>2. CASE m \notin DOMAIN moves  BY <2>2, <1>o
    <2> QED  BY <2>1, <2>2
  <1>3. ASSUME NEW m \in Measures
        PROVE  MeasureOK(m)' /\ docs'[m] \in Rows /\ history'[m] \in Seq(B!Changes)
    <2>1. MeasureOK(m) /\ docs[m] \in Rows /\ history[m] \in Seq(B!Changes)
      BY DEF Record, MeasuresOK
    <2>2. CASE m \notin DOMAIN moves
      <3>1. docs'[m] = docs[m] /\ history'[m] = history[m]  BY <2>2, <1>o
      <3> QED  BY <2>1, <3>1 DEF MeasureOK
    <2>3. CASE m \in DOMAIN moves
      <3> DEFINE entry == moves[m]
      <3>1. PICK p, t : Moved(s, day, m, entry, start[m], correcting, p, t)  BY <1>1, <2>3
      <3>2. start[m] = docs[m].stage \/ correcting  BY <2>3 DEF Movable
      <3>3. entry.note \in BOOLEAN  BY <2>3 DEF Movable, B!OutcomeRows
      <3>4. ~correcting => t = p  BY <3>1 DEF Moved, B!Targets
      <3> DEFINE new == B!Entered(s, day, m, entry.note, t, correcting)
      <3>5. /\ new \in Seq(B!Changes) /\ Len(new) = Len(t) /\ DOMAIN new = 1 .. Len(t)
            /\ \A k \in DOMAIN new : Legit(B!Kind(m), new[k]) /\ new[k].stage = t[k]
            /\ new # <<>> => After(B!Last(history[m]), new[1])
            /\ Continuous(new)
        <4>1. t \in Seq(B!AllStages(B!Kind(m)))  BY <3>1 DEF Moved
        <4>2. ~correcting => LegalMoves(B!Kind(m), docs[m].stage, t, entry.note)
          BY <3>1, <3>2, <3>4 DEF Moved
        <4>3. ~correcting => B!Last(history[m]).on =< day  BY <3>1 DEF Moved
        <4>4. s \in Sessions \cup {B!NoSession}  OBVIOUS
        <4> QED  BY <4>1, <4>2, <4>3, <4>4, <3>3, <2>1, EnteredSound DEF MeasureOK
      <3> HIDE DEF new
      <3>6. history'[m] = history[m] \o new  BY <3>1 DEF Moved, new
      <3>7. Sound(B!Kind(m), history'[m]) /\ B!Last(history'[m]) = IF new = <<>> THEN B!Last(history[m]) ELSE B!Last(new)
        <4>1. Sound(B!Kind(m), history[m])  BY <2>1 DEF MeasureOK
        <4>2. new \in Seq(B!Changes) /\ Continuous(new) /\ (\A k \in DOMAIN new : Legit(B!Kind(m), new[k]))
              /\ (new # <<>> => After(B!Last(history[m]), new[1]))
          BY <3>5
        <4>3. Sound(B!Kind(m), history[m] \o new) /\ B!Last(history[m] \o new) = IF new = <<>> THEN B!Last(history[m]) ELSE B!Last(new)
          BY <4>1, <4>2, Extended
        <4> QED  BY <4>3, <3>6
      <3>8. new = <<>> <=> t = <<>>
        BY <3>1, <3>5, EmptySeq DEF Moved
      <3>9. B!Last(history'[m]).stage = docs'[m].stage
        <4>1. CASE t = <<>>  BY <4>1, <3>1, <3>7, <3>8, <2>1 DEF Moved, MeasureOK
        <4>2. CASE t # <<>>
          <5>1. Len(t) \in 1 .. Len(t)  BY <4>2, <3>1, EmptySeq DEF Moved
          <5>2. B!Last(new).stage = B!Last(t)  BY <5>1, <3>5 DEF B!Last
          <5> QED  BY <5>2, <4>2, <3>1, <3>7, <3>8 DEF Moved
        <4> QED  BY <4>1, <4>2
      <3>10. docs'[m] \in Rows /\ docs'[m].stage \in B!AllStages(B!Kind(m))
        <4>1. docs'[m] \in Rows  BY <3>1 DEF Moved
        <4>2. t # <<>> => Len(t) \in 1 .. Len(t)  BY <3>1, EmptySeq DEF Moved
        <4>3. t # <<>> => B!Last(t) \in B!AllStages(B!Kind(m))  BY <4>2, <3>1, ElementOfSeq DEF Moved, B!Last
        <4> QED  BY <4>1, <4>3, <3>1, <2>1 DEF Moved, MeasureOK
      <3>11. B!IsEnacted(B!Kind(m), docs'[m].stage) => docs'[m].number # B!NoNumber  BY <3>1 DEF Moved
      <3> QED  BY <3>7, <3>9, <3>10, <3>11 DEF MeasureOK, Sound
    <2> QED  BY <2>2, <2>3
  <1>4. ASSUME NEW m \in Measures
        PROVE  /\ outcomes'[s][m] \in Seq(B!OutcomeRows)
               /\ \A i \in DOMAIN outcomes'[s][m] : Ruled(m, docs'[m].number, outcomes'[s][m][i])
    <2>1. outcomes[s][m] \in Seq(B!OutcomeRows) /\ \A i \in DOMAIN outcomes[s][m] : Ruled(m, docs[m].number, outcomes[s][m][i])
      BY DEF Record, RowsOK, OutcomesRuled
    <2>2. CASE m \notin DOMAIN moves
      <3>1. outcomes'[s][m] = outcomes[s][m]  BY <2>2, <1>o
      <3> QED  BY <2>1, <3>1, <1>2, RuledKept
    <2>3. CASE m \in DOMAIN moves
      <3>1. PICK p, t : Moved(s, day, m, moves[m], start[m], correcting, p, t)  BY <1>1, <2>3
      <3> DEFINE row == [moves[m] EXCEPT !.before = start[m], !.applied = p]
      <3>2. row \in B!OutcomeRows /\ Ruled(m, docs[m].number, row)
        <4>1. /\ moves[m] \in B!OutcomeRows /\ moves[m].outcome \in B!OutcomeChoices(B!Kind(m))
              /\ start[m] \in B!AllStages(B!Kind(m))
              /\ B!IsEnacted(B!Kind(m), start[m]) => docs[m].number # B!NoNumber
          BY <2>3 DEF Movable
        <4>2. p \in Seq(B!AllStages(B!Kind(m)))  BY <3>1 DEF Moved
        <4> QED  BY <4>1, <4>2, EntryRuled
      <3>3. outcomes'[s][m] = IF correcting THEN Append(outcomes[s][m], row) ELSE Append(B!Front(outcomes[s][m]), row)
        BY <3>1 DEF Moved
      <3>4. ~correcting => outcomes[s][m] # <<>>  BY <2>3 DEF Movable
      <3> HIDE DEF row
      <3>5. /\ outcomes'[s][m] \in Seq(B!OutcomeRows)
            /\ \A i \in DOMAIN outcomes'[s][m] :
                  outcomes'[s][m][i] = row \/ (i \in DOMAIN outcomes[s][m] /\ outcomes'[s][m][i] = outcomes[s][m][i])
        <4>1. CASE correcting  BY <4>1, <2>1, <3>2, <3>3, RowAdded
        <4>2. CASE ~correcting  BY <4>2, <2>1, <3>2, <3>3, <3>4, LastReplaced
        <4> QED  BY <4>1, <4>2
      <3>6. \A i \in DOMAIN outcomes'[s][m] : Ruled(m, docs[m].number, outcomes'[s][m][i])  BY <2>1, <3>2, <3>5
      <3> QED  BY <3>5, <3>6, <1>2, RuledKept
    <2> QED  BY <2>2, <2>3
  <1>5. MeasuresOK'
    BY <1>3, <1>o DEF MeasuresOK
  <1>6. outcomes' \in [Sessions -> [Measures -> Seq(B!OutcomeRows)]]
    BY <1>4, <1>o DEF Record, RowsOK
  <1>7. OutcomesRuled'
    <2> SUFFICES ASSUME NEW x \in Sessions, NEW m \in Measures, NEW i \in DOMAIN outcomes'[x][m]
                 PROVE  Ruled(m, docs'[m].number, outcomes'[x][m][i])
      BY DEF OutcomesRuled
    <2>1. CASE x = s  BY <2>1, <1>4
    <2>2. CASE x # s
      <3>1. outcomes'[x][m] = outcomes[x][m]  BY <2>2, <1>o
      <3>2. Ruled(m, docs[m].number, outcomes[x][m][i])  BY <3>1 DEF Record, RowsOK, OutcomesRuled
      <3> QED  BY <3>1, <3>2, <1>2, RuledKept
    <2> QED  BY <2>1, <2>2
  <1>8. ASSUME UNCHANGED agenda  PROVE ItemsDecided'
    <2> SUFFICES ASSUME NEW x \in Sessions, NEW m \in Measures, outcomes'[x][m] # <<>>
                 PROVE  m \in agenda[x]
      BY <1>8 DEF ItemsDecided
    <2>1. CASE x = s /\ m \in DOMAIN moves  BY <2>1
    <2>2. CASE ~(x = s /\ m \in DOMAIN moves)
      <3>1. outcomes'[x][m] = outcomes[x][m]  BY <2>2, <1>o
      <3> QED  BY <3>1 DEF Record, ItemsOK, ItemsDecided
    <2> QED  BY <2>1, <2>2
  <1> QED  BY <1>5, <1>6, <1>7, <1>8 DEF RowsOK

-----------------------------------------------------------------------------
(* Parts of the record that a step leaves alone. *)

(* Measures with their histories left alone. *)
LEMMA MeasuresKept ==
    ASSUME MeasuresOK, UNCHANGED <<docs, history>>
    PROVE  MeasuresOK' /\ NumbersKept
  BY DEF MeasuresOK, MeasureOK, NumbersKept

(* Rows left alone while measures keep their numbers. *)
LEMMA RowsKept ==
    ASSUME RowsOK, UNCHANGED outcomes, NumbersKept
    PROVE  RowsOK'
  <1> SUFFICES ASSUME NEW s \in Sessions, NEW m \in Measures, NEW i \in DOMAIN outcomes[s][m]
               PROVE  Ruled(m, docs'[m].number, outcomes[s][m][i])
    BY DEF RowsOK, OutcomesRuled
  <1> QED  BY RuledKept DEF RowsOK, OutcomesRuled

(* Sessions and their items left alone. *)
LEMMA ItemsKept ==
    ASSUME ItemsOK, UNCHANGED <<sessions, agenda, outcomes>>
    PROVE  ItemsOK'
  BY DEF ItemsOK, ItemsDecided

(* Waiting is a job too. *)
LEMMA IdleIsJob == B!Idle \in Jobs
  BY DEF Jobs

(* The request of a kind has what that kind carries. *)
LEMMA JobOf ==
    ASSUME NEW job \in Jobs
    PROVE  /\ job.op \in {"add_item", "remove_item", "clear_outcome"} => job \in ItemJobs
           /\ job.op = "set_outcome" => job \in SetJobs
           /\ job.op = "change_status" => job \in StatusJobs
           /\ job.op = "update_session" => job \in RedateJobs
           /\ job.op = "delete_session" => job \in DeleteJobs
           /\ job.op = "correct_outcome" => job \in CorrectJobs
  <1>0. CASE job = B!Idle  BY <1>0 DEF B!Idle
  <1>1. CASE job \in ItemJobs  BY <1>1 DEF ItemJobs
  <1>2. CASE job \in SetJobs  BY <1>2 DEF SetJobs
  <1>3. CASE job \in StatusJobs  BY <1>3 DEF StatusJobs
  <1>4. CASE job \in RedateJobs  BY <1>4 DEF RedateJobs
  <1>5. CASE job \in DeleteJobs  BY <1>5 DEF DeleteJobs
  <1>6. CASE job \in CorrectJobs  BY <1>6 DEF CorrectJobs
  <1> QED  BY <1>0, <1>1, <1>2, <1>3, <1>4, <1>5, <1>6 DEF Jobs

(* The entry of a request is a row without stages. *)
LEMMA EntryIsRow ==
    ASSUME NEW outcome \in Outcomes, NEW number \in Numbers \cup {B!NoNumber}, NEW note \in BOOLEAN,
           NEW correction \in BOOLEAN
    PROVE  B!Entry(outcome, number, note, correction) \in EntryRows
  BY DEF B!Entry, EntryRows

(* Such a row is a row of outcomes. *)
LEMMA EntryRowIsRow == EntryRows \subseteq B!OutcomeRows
  <1> SUFFICES ASSUME NEW row \in EntryRows  PROVE row \in B!OutcomeRows
    OBVIOUS
  <1>1. <<>> \in Seq(B!AllStageNames)  BY EmptySeq
  <1> QED  BY <1>1 DEF EntryRows, B!OutcomeRows

(* A request that is loaded carries a job and changes nothing else. *)
LEMMA LoadingKeeps ==
    ASSUME Record, NEW r \in Requests, B!Loads(r)
    PROVE  /\ UNCHANGED <<docs, history, sessions, agenda, outcomes>>
           /\ \E job \in Jobs : jobs[r] = B!Idle /\ jobs' = [jobs EXCEPT ![r] = job]
  <1>0. ASSUME NEW job \in Jobs, B!Load(r, job)
        PROVE  /\ UNCHANGED <<docs, history, sessions, agenda, outcomes>>
               /\ \E j \in Jobs : jobs[r] = B!Idle /\ jobs' = [jobs EXCEPT ![r] = j]
    BY <1>0 DEF B!Load
  <1>1. PICK s \in Sessions :
        \/ \E m \in Measures :
              \/ B!AddItemLoad(r, s, m) \/ B!RemoveItemLoad(r, s, m) \/ B!ClearOutcomeLoad(r, s, m)
              \/ \E outcome \in Outcomes, number \in Numbers \cup {B!NoNumber} :
                    \/ \E note \in BOOLEAN : B!SetOutcomeLoad(r, s, m, outcome, number, note)
                    \/ B!CorrectOutcomeLoad(r, s, m, outcome, number)
        \/ \E status \in B!Statuses : B!StatusLoad(r, s, status)
        \/ \E day \in SessionDays : B!RedateLoad(r, s, day)
        \/ B!DeleteLoad(r, s)
    BY DEF B!Loads
  <1>3. sessions[s].on \in SessionDays  BY DEF Record, ItemsOK
  <1>4. ASSUME NEW m \in Measures, B!AddItemLoad(r, s, m) \/ B!RemoveItemLoad(r, s, m) \/ B!ClearOutcomeLoad(r, s, m)
        PROVE  \E job \in Jobs : B!Load(r, job)
    <2>1. PICK op \in {"add_item", "remove_item", "clear_outcome"} : B!Load(r, [op |-> op, s |-> s, m |-> m])
      BY <1>4 DEF B!AddItemLoad, B!RemoveItemLoad, B!ClearOutcomeLoad
    <2>2. [op |-> op, s |-> s, m |-> m] \in ItemJobs  BY DEF ItemJobs
    <2> QED  BY <2>1, <2>2 DEF Jobs
  <1>5. ASSUME NEW m \in Measures, NEW outcome \in Outcomes, NEW number \in Numbers \cup {B!NoNumber},
               NEW note \in BOOLEAN, B!SetOutcomeLoad(r, s, m, outcome, number, note)
        PROVE  \E job \in Jobs : B!Load(r, job)
    <2>1. [op |-> "set_outcome", s |-> s, m |-> m, entry |-> B!Entry(outcome, number, note, FALSE)] \in SetJobs
      BY EntryIsRow DEF SetJobs
    <2> QED  BY <2>1, <1>5 DEF B!SetOutcomeLoad, Jobs
  <1>6. ASSUME NEW m \in Measures, NEW outcome \in Outcomes, NEW number \in Numbers \cup {B!NoNumber},
               B!CorrectOutcomeLoad(r, s, m, outcome, number)
        PROVE  \E job \in Jobs : B!Load(r, job)
    <2>1. [op |-> "correct_outcome", s |-> s, on |-> sessions[s].on, m |-> m,
           entry |-> B!Entry(outcome, number, TRUE, TRUE)] \in CorrectJobs
      BY EntryIsRow, <1>3 DEF CorrectJobs
    <2> QED  BY <2>1, <1>6 DEF B!CorrectOutcomeLoad, Jobs
  <1>7. ASSUME NEW status \in B!Statuses, B!StatusLoad(r, s, status)
        PROVE  \E job \in Jobs : B!Load(r, job)
    <2>1. [op |-> "change_status", s |-> s, on |-> sessions[s].on, status |-> status] \in StatusJobs
      BY <1>3 DEF StatusJobs
    <2> QED  BY <2>1, <1>7 DEF B!StatusLoad, Jobs
  <1>8. ASSUME NEW day \in SessionDays, B!RedateLoad(r, s, day)
        PROVE  \E job \in Jobs : B!Load(r, job)
    <2>1. [op |-> "update_session", s |-> s, day |-> day] \in RedateJobs  BY DEF RedateJobs
    <2> QED  BY <2>1, <1>8 DEF B!RedateLoad, Jobs
  <1>9. ASSUME B!DeleteLoad(r, s)  PROVE \E job \in Jobs : B!Load(r, job)
    <2>1. [op |-> "delete_session", s |-> s] \in DeleteJobs  BY DEF DeleteJobs
    <2> QED  BY <2>1, <1>9 DEF B!DeleteLoad, Jobs
  <1>10. \E job \in Jobs : B!Load(r, job)
    BY <1>1, <1>4, <1>5, <1>6, <1>7, <1>8, <1>9
  <1> QED  BY <1>0, <1>10

(* The request that writes is done, the others are as they were. *)
LEMMA WritingFrees ==
    ASSUME Record, NEW r \in Requests, NEW op, B!Writes(r, op)
    PROVE  /\ jobs[r] \in Jobs /\ jobs[r].op = op
           /\ jobs' \in [Requests -> Jobs] /\ jobs'[r] = B!Idle
           /\ \A q \in Requests \ {r} : jobs'[q] = jobs[q]
  BY IdleIsJob DEF B!Writes, Record

-----------------------------------------------------------------------------
(* What each write does to the record. *)

(* An item added (add_item). *)
LEMMA AddItemKeeps ==
    ASSUME Record, NEW r \in Requests, B!AddItem(r)
    PROVE  Record'
  <1>1. jobs[r] \in ItemJobs /\ jobs' \in [Requests -> Jobs]
    BY WritingFrees, JobOf DEF B!AddItem
  <1>2. MeasuresOK' /\ RowsOK'
    BY MeasuresKept, RowsKept DEF Record, B!AddItem
  <1>3. ItemsOK'
    <2>1. jobs[r].m \in Measures  BY <1>1 DEF ItemJobs
    <2> QED  BY <2>1 DEF Record, ItemsOK, ItemsDecided, B!AddItem
  <1> QED  BY <1>1, <1>2, <1>3 DEF Record

(* The rows of one item replaced by others. *)
LEMMA ItemRewritten ==
    ASSUME Record, NEW s \in Sessions, NEW m \in Measures, NEW rows \in Seq(B!OutcomeRows),
           \A i \in DOMAIN rows : Ruled(m, docs[m].number, rows[i]),
           outcomes' = [outcomes EXCEPT ![s][m] = rows],
           UNCHANGED <<docs, history, sessions>>, agenda' \in [Sessions -> SUBSET Measures],
           \A x \in Sessions, y \in Measures : outcomes'[x][y] # <<>> => y \in agenda'[x]
    PROVE  MeasuresOK' /\ RowsOK' /\ ItemsOK'
  <1>1. MeasuresOK'  BY MeasuresKept DEF Record
  <1>2. outcomes \in [Sessions -> [Measures -> Seq(B!OutcomeRows)]]  BY DEF Record, RowsOK
  <1>3. outcomes' \in [Sessions -> [Measures -> Seq(B!OutcomeRows)]]  BY <1>2
  <1>4. \A x \in Sessions, y \in Measures : outcomes'[x][y] = IF x = s /\ y = m THEN rows ELSE outcomes[x][y]
    BY <1>2
  <1>5. OutcomesRuled'
    <2> SUFFICES ASSUME NEW x \in Sessions, NEW y \in Measures, NEW i \in DOMAIN outcomes'[x][y]
                 PROVE  Ruled(y, docs'[y].number, outcomes'[x][y][i])
      BY DEF OutcomesRuled
    <2>1. CASE x = s /\ y = m  BY <2>1, <1>4
    <2>2. CASE ~(x = s /\ y = m)
      <3>1. outcomes'[x][y] = outcomes[x][y]  BY <2>2, <1>4
      <3> QED  BY <3>1 DEF Record, RowsOK, OutcomesRuled
    <2> QED  BY <2>1, <2>2
  <1> QED  BY <1>1, <1>3, <1>5 DEF RowsOK, ItemsOK, ItemsDecided, Record

(* An item removed with its outcomes (remove_item). *)
LEMMA RemoveItemKeeps ==
    ASSUME Record, NEW r \in Requests, B!RemoveItem(r)
    PROVE  Record'
  <1> DEFINE s == jobs[r].s  m == jobs[r].m
  <1>1. jobs[r] \in ItemJobs /\ jobs' \in [Requests -> Jobs]
    BY WritingFrees, JobOf DEF B!RemoveItem
  <1>2. s \in Sessions /\ m \in Measures  BY <1>1 DEF ItemJobs
  <1>3. /\ agenda' = [agenda EXCEPT ![s] = @ \ {m}]
        /\ outcomes' = [outcomes EXCEPT ![s][m] = <<>>]
        /\ UNCHANGED <<docs, history, sessions>>
    BY DEF B!RemoveItem
  <1>4. /\ agenda \in [Sessions -> SUBSET Measures] /\ ItemsDecided
        /\ outcomes \in [Sessions -> [Measures -> Seq(B!OutcomeRows)]]
    BY DEF Record, ItemsOK, RowsOK
  <1> HIDE DEF s, m
  <1>5. <<>> \in Seq(B!OutcomeRows) /\ DOMAIN <<>> = {}  BY EmptySeq
  <1>6. agenda' \in [Sessions -> SUBSET Measures]  BY <1>2, <1>3, <1>4
  <1>7. \A x \in Sessions, y \in Measures : outcomes'[x][y] # <<>> => y \in agenda'[x]
    BY <1>2, <1>3, <1>4 DEF ItemsDecided
  <1>8. MeasuresOK' /\ RowsOK' /\ ItemsOK'
    BY <1>2, <1>3, <1>5, <1>6, <1>7, ItemRewritten
  <1> QED  BY <1>1, <1>8 DEF Record

(* An outcome recorded or changed in place (set_outcome). *)
LEMMA SetOutcomeKeeps ==
    ASSUME Record, NEW r \in Requests, B!SetOutcome(r)
    PROVE  Record'
  <1> DEFINE s == jobs[r].s  m == jobs[r].m  entry == jobs[r].entry  current == outcomes[s][m]
             changed == [B!Last(current) EXCEPT !.outcome = entry.outcome, !.number = entry.number, !.note = entry.note]
             rows == IF current = <<>> THEN <<entry>> ELSE Append(B!Front(current), changed)
  <1>1. jobs[r] \in SetJobs /\ jobs' \in [Requests -> Jobs]
    BY WritingFrees, JobOf DEF B!SetOutcome
  <1>2. s \in Sessions /\ m \in Measures /\ entry \in EntryRows  BY <1>1 DEF SetJobs
  <1>3. /\ m \in agenda[s] /\ B!CheckOutcome(m, entry)
        /\ outcomes' = [outcomes EXCEPT ![s][m] = rows]
        /\ UNCHANGED <<docs, history, sessions, agenda>>
    BY DEF B!SetOutcome
  <1>4. /\ agenda \in [Sessions -> SUBSET Measures] /\ ItemsDecided
        /\ outcomes \in [Sessions -> [Measures -> Seq(B!OutcomeRows)]]
    BY DEF Record, ItemsOK, RowsOK
  <1>5. current \in Seq(B!OutcomeRows) /\ \A i \in DOMAIN current : Ruled(m, docs[m].number, current[i])
    BY <1>2 DEF Record, RowsOK, OutcomesRuled
  <1>6. entry \in B!OutcomeRows /\ Ruled(m, docs[m].number, entry)
    <2>1. entry.outcome \in B!OutcomeChoices(B!Kind(m))  BY <1>3 DEF B!CheckOutcome
    <2>2. <<>> \in Seq(B!AllStages(B!Kind(m)))  BY EmptySeq
    <2>3. entry.before = B!NoStage /\ entry.applied = <<>>  BY <1>2 DEF EntryRows
    <2> QED  BY <2>1, <2>2, <2>3, <1>2, EntryRowIsRow DEF Ruled
  <1>7. current # <<>> => changed \in B!OutcomeRows /\ Ruled(m, docs[m].number, changed)
    <2> SUFFICES ASSUME current # <<>>  PROVE changed \in B!OutcomeRows /\ Ruled(m, docs[m].number, changed)
      OBVIOUS
    <2>1. Len(current) \in DOMAIN current  BY <1>5, EmptySeq, LenProperties
    <2>2. B!Last(current) \in B!OutcomeRows /\ Ruled(m, docs[m].number, B!Last(current))
      <3>1. current[Len(current)] \in B!OutcomeRows  BY <2>1, <1>5, ElementOfSeq
      <3>2. Ruled(m, docs[m].number, current[Len(current)])  BY <2>1, <1>5
      <3> QED  BY <3>1, <3>2 DEF B!Last
    <2>3. changed \in B!OutcomeRows
      BY <2>2, <1>6 DEF B!OutcomeRows
    <2>4. /\ changed.outcome = entry.outcome /\ changed.before = B!Last(current).before
          /\ changed.applied = B!Last(current).applied
      BY <2>2 DEF B!OutcomeRows
    <2> QED  BY <2>2, <2>3, <2>4, <1>6 DEF Ruled
  <1>8. rows \in Seq(B!OutcomeRows) /\ \A i \in DOMAIN rows : Ruled(m, docs[m].number, rows[i])
    <2> HIDE DEF entry, changed, s, m, current
    <2>1. CASE current = <<>>
      <3>1. rows = <<entry>>  BY <2>1
      <3>2. <<entry>> \in Seq(B!OutcomeRows) /\ DOMAIN <<entry>> = {1} /\ <<entry>>[1] = entry  BY <1>6
      <3> QED  BY <3>1, <3>2, <1>6
    <2>2. CASE current # <<>>
      <3>1. rows = Append(B!Front(current), changed)  BY <2>2
      <3>2. changed \in B!OutcomeRows /\ Ruled(m, docs[m].number, changed)  BY <2>2, <1>7
      <3> QED  BY <3>1, <3>2, <2>2, <1>5, LastReplaced
    <2> QED  BY <2>1, <2>2
  <1> HIDE DEF s, m, entry, current, changed, rows
  <1>9. \A x \in Sessions, y \in Measures : outcomes'[x][y] # <<>> => y \in agenda'[x]
    BY <1>2, <1>3, <1>4 DEF ItemsDecided
  <1>10. MeasuresOK' /\ RowsOK' /\ ItemsOK'
    BY <1>2, <1>3, <1>4, <1>8, <1>9, ItemRewritten
  <1> QED  BY <1>1, <1>10 DEF Record

(* An outcome cleared (clear_outcome). *)
LEMMA ClearOutcomeKeeps ==
    ASSUME Record, NEW r \in Requests, B!ClearOutcome(r)
    PROVE  Record'
  <1> DEFINE s == jobs[r].s  m == jobs[r].m  current == outcomes[s][m]
  <1>1. jobs[r] \in ItemJobs /\ jobs' \in [Requests -> Jobs]
    BY WritingFrees, JobOf DEF B!ClearOutcome
  <1>2. s \in Sessions /\ m \in Measures  BY <1>1 DEF ItemJobs
  <1>3. m \in agenda[s] /\ current # <<>> /\ UNCHANGED <<docs, history, sessions, agenda>>
    BY DEF B!ClearOutcome
  <1>4. /\ agenda \in [Sessions -> SUBSET Measures] /\ ItemsDecided
        /\ outcomes \in [Sessions -> [Measures -> Seq(B!OutcomeRows)]]
    BY DEF Record, ItemsOK, RowsOK
  <1>5. outcomes' = [outcomes EXCEPT ![s][m] = B!Front(current)]
    BY <1>2, <1>4 DEF B!ClearOutcome
  <1>6. current \in Seq(B!OutcomeRows) /\ \A i \in DOMAIN current : Ruled(m, docs[m].number, current[i])
    BY <1>2 DEF Record, RowsOK, OutcomesRuled
  <1> HIDE DEF s, m, current
  <1>7. B!Front(current) \in Seq(B!OutcomeRows) /\ \A i \in DOMAIN B!Front(current) : Ruled(m, docs[m].number, B!Front(current)[i])
    BY <1>3, <1>6, LastRemoved
  <1>8. \A x \in Sessions, y \in Measures : outcomes'[x][y] # <<>> => y \in agenda'[x]
    BY <1>2, <1>3, <1>4, <1>5 DEF ItemsDecided
  <1>9. MeasuresOK' /\ RowsOK' /\ ItemsOK'
    BY <1>2, <1>3, <1>4, <1>5, <1>7, <1>8, ItemRewritten
  <1> QED  BY <1>1, <1>9 DEF Record

(* The measures a session decides on can be moved by their outcomes. *)
Decided(s) == {m \in agenda[s] : outcomes[s][m] # <<>>}

(* An item with an outcome is moved from where it is. *)
LEMMA DecidedMovable ==
    ASSUME Record, NEW s \in Sessions, NEW m \in Decided(s)
    PROVE  Movable(s, m, B!Last(outcomes[s][m]), docs[m].stage, FALSE)
  <1>1. m \in Measures /\ outcomes[s][m] # <<>>  BY DEF Decided, Record, ItemsOK
  <1>2. outcomes[s][m] \in Seq(B!OutcomeRows) /\ \A i \in DOMAIN outcomes[s][m] : Ruled(m, docs[m].number, outcomes[s][m][i])
    BY <1>1 DEF Record, RowsOK, OutcomesRuled
  <1>3. Len(outcomes[s][m]) \in DOMAIN outcomes[s][m]  BY <1>1, <1>2, EmptySeq, LenProperties
  <1>4. B!Last(outcomes[s][m]) \in B!OutcomeRows /\ B!Last(outcomes[s][m]).outcome \in B!OutcomeChoices(B!Kind(m))
    <2>1. outcomes[s][m][Len(outcomes[s][m])] \in B!OutcomeRows  BY <1>2, <1>3, ElementOfSeq
    <2> QED  BY <2>1, <1>2, <1>3 DEF B!Last, Ruled
  <1>5. MeasureOK(m)  BY <1>1 DEF Record, MeasuresOK
  <1> QED  BY <1>1, <1>4, <1>5 DEF Movable, MeasureOK

(* A session becomes held (change_status, apply_outcomes). *)
LEMMA HoldKeeps ==
    ASSUME B!InputsAssumption, Record, NEW r \in Requests, B!Hold(r)
    PROVE  Record'
  <1> DEFINE s == jobs[r].s  day == jobs[r].on
             moves == [m \in Decided(s) |-> B!Last(outcomes[s][m])]
             start == [m \in Decided(s) |-> docs[m].stage]
  <1>1. jobs[r] \in StatusJobs /\ jobs' \in [Requests -> Jobs]
    BY WritingFrees, JobOf DEF B!Hold
  <1>2. s \in Sessions /\ day \in SessionDays  BY <1>1 DEF StatusJobs
  <1>3. B!EnterStages(s, day, moves, start, FALSE)
    BY DEF B!Hold, Decided
  <1>4. sessions' = [sessions EXCEPT ![s].status = "Held"] /\ UNCHANGED agenda
    BY DEF B!Hold
  <1> HIDE DEF s, day
  <1>5. DOMAIN moves = Decided(s) /\ Decided(s) \subseteq agenda[s]  BY DEF Decided
  <1>6. \A m \in DOMAIN moves : Movable(s, m, moves[m], start[m], FALSE)
    BY <1>2, DecidedMovable
  <1> HIDE DEF moves, start
  <1>7. MeasuresOK' /\ RowsOK' /\ ItemsDecided'
    BY <1>2, <1>3, <1>4, <1>5, <1>6, EnteringKeeps
  <1>8. ItemsOK'
    <2>1. /\ sessions \in [Sessions -> [status : B!Statuses \cup {"Absent"}, on : SessionDays]]
          /\ agenda \in [Sessions -> SUBSET Measures]
      BY DEF Record, ItemsOK
    <2>2. "Held" \in B!Statuses  BY DEF B!Statuses
    <2>3. sessions' \in [Sessions -> [status : B!Statuses \cup {"Absent"}, on : SessionDays]]
      BY <2>1, <2>2, <1>2, <1>4
    <2> QED  BY <2>1, <2>3, <1>4, <1>7 DEF ItemsOK
  <1> QED  BY <1>1, <1>7, <1>8 DEF Record

(* Any other change of status. *)
LEMMA RescheduleKeeps ==
    ASSUME Record, NEW r \in Requests, B!Reschedule(r)
    PROVE  Record'
  <1>1. jobs[r] \in StatusJobs /\ jobs' \in [Requests -> Jobs]
    BY WritingFrees, JobOf DEF B!Reschedule
  <1>2. MeasuresOK' /\ RowsOK'
    BY MeasuresKept, RowsKept DEF Record, B!Reschedule
  <1>3. jobs[r].s \in Sessions /\ jobs[r].status \in B!Statuses  BY <1>1 DEF StatusJobs
  <1>4. sessions' \in [Sessions -> [status : B!Statuses \cup {"Absent"}, on : SessionDays]]
    BY <1>3 DEF Record, ItemsOK, B!Reschedule
  <1>5. ItemsOK'
    BY <1>4 DEF Record, ItemsOK, ItemsDecided, B!Reschedule
  <1> QED  BY <1>1, <1>2, <1>5 DEF Record

(* A session dated again (update_session). *)
LEMMA RedateKeeps ==
    ASSUME Record, NEW r \in Requests, B!Redate(r)
    PROVE  Record'
  <1>1. jobs[r] \in RedateJobs /\ jobs' \in [Requests -> Jobs]
    BY WritingFrees, JobOf DEF B!Redate
  <1>2. MeasuresOK' /\ RowsOK'
    BY MeasuresKept, RowsKept DEF Record, B!Redate
  <1>3. jobs[r].s \in Sessions /\ jobs[r].day \in SessionDays  BY <1>1 DEF RedateJobs
  <1>4. sessions' \in [Sessions -> [status : B!Statuses \cup {"Absent"}, on : SessionDays]]
    BY <1>3 DEF Record, ItemsOK, B!Redate
  <1>5. ItemsOK'
    BY <1>4 DEF Record, ItemsOK, ItemsDecided, B!Redate
  <1> QED  BY <1>1, <1>2, <1>5 DEF Record

(* A session deleted (delete_session). *)
LEMMA DeleteKeeps ==
    ASSUME Record, NEW r \in Requests, B!Delete(r)
    PROVE  Record'
  <1> DEFINE s == jobs[r].s
  <1>1. jobs[r] \in DeleteJobs /\ jobs' \in [Requests -> Jobs]
    BY WritingFrees, JobOf DEF B!Delete
  <1>2. s \in Sessions  BY <1>1 DEF DeleteJobs
  <1>3. /\ sessions' = [sessions EXCEPT ![s].status = "Absent"]
        /\ agenda' = [agenda EXCEPT ![s] = {}]
        /\ outcomes' = [outcomes EXCEPT ![s] = [m \in Measures |-> <<>>]]
        /\ history' = [m \in Measures |-> Detached(history[m], s)]
        /\ UNCHANGED docs
    BY DEF B!Delete, Detached
  <1> HIDE DEF s
  <1>4. MeasuresOK'
    <2>1. \A m \in Measures : MeasureOK(m) /\ Sound(B!Kind(m), history[m])  BY DEF Record, MeasuresOK, MeasureOK
    <2>2. \A m \in Measures : /\ Sound(B!Kind(m), Detached(history[m], s))
                              /\ B!Last(Detached(history[m], s)).stage = B!Last(history[m]).stage
      BY <2>1, DetachedSound
    <2>3. \A m \in Measures : MeasureOK(m)'  BY <1>3, <2>1, <2>2 DEF MeasureOK
    <2>4. history' \in [Measures -> Seq(B!Changes)]  BY <1>3, <2>2 DEF Sound
    <2> QED  BY <2>3, <2>4, <1>3 DEF Record, MeasuresOK
  <1>5. /\ outcomes \in [Sessions -> [Measures -> Seq(B!OutcomeRows)]]
        /\ agenda \in [Sessions -> SUBSET Measures] /\ ItemsDecided
        /\ sessions \in [Sessions -> [status : B!Statuses \cup {"Absent"}, on : SessionDays]]
    BY DEF Record, RowsOK, ItemsOK
  <1>6. /\ \A m \in Measures : outcomes'[s][m] = <<>>
        /\ \A x \in Sessions \ {s} : outcomes'[x] = outcomes[x] /\ agenda'[x] = agenda[x]
    BY <1>2, <1>3, <1>5
  <1>7. outcomes' \in [Sessions -> [Measures -> Seq(B!OutcomeRows)]]
    <2>1. [m \in Measures |-> <<>>] \in [Measures -> Seq(B!OutcomeRows)]  BY EmptySeq
    <2> QED  BY <2>1, <1>3, <1>5
  <1>8. RowsOK'
    <2>1. \A x \in Sessions, m \in Measures : \A i \in DOMAIN outcomes'[x][m] : Ruled(m, docs'[m].number, outcomes'[x][m][i])
      <3> SUFFICES ASSUME NEW x \in Sessions, NEW m \in Measures, NEW i \in DOMAIN outcomes'[x][m]
                   PROVE  Ruled(m, docs'[m].number, outcomes'[x][m][i])
        OBVIOUS
      <3>1. CASE x = s
        <4>1. outcomes'[x][m] = <<>>  BY <3>1, <1>6
        <4>2. DOMAIN <<>> = {}  BY EmptySeq
        <4> QED  BY <4>1, <4>2
      <3>2. CASE x # s  BY <3>2, <1>3, <1>6 DEF Record, RowsOK, OutcomesRuled
      <3> QED  BY <3>1, <3>2
    <2> QED  BY <2>1, <1>7 DEF RowsOK, OutcomesRuled
  <1>9. ItemsOK'
    <2>1. sessions' \in [Sessions -> [status : B!Statuses \cup {"Absent"}, on : SessionDays]]  BY <1>2, <1>3, <1>5
    <2>2. agenda' \in [Sessions -> SUBSET Measures]  BY <1>2, <1>3, <1>5
    <2>3. \A x \in Sessions, m \in Measures : outcomes'[x][m] # <<>> => m \in agenda'[x]
      BY <1>5, <1>6 DEF ItemsDecided
    <2> QED  BY <2>1, <2>2, <2>3 DEF ItemsOK, ItemsDecided
  <1> QED  BY <1>1, <1>4, <1>8, <1>9 DEF Record

(* The stages a correction starts from and moves to. *)
LEMMA StartIsStage ==
    ASSUME Record, NEW s \in Sessions, NEW m \in Measures
    PROVE  /\ B!Start(outcomes[s][m], m) \in B!AllStages(B!Kind(m))
           /\ B!IsEnacted(B!Kind(m), B!Start(outcomes[s][m], m)) => docs[m].number # B!NoNumber
  <1> DEFINE rows == outcomes[s][m]
  <1>1. rows \in Seq(B!OutcomeRows) /\ \A i \in DOMAIN rows : Ruled(m, docs[m].number, rows[i])
    BY DEF Record, RowsOK, OutcomesRuled
  <1>2. MeasureOK(m)  BY DEF Record, MeasuresOK
  <1> HIDE DEF rows
  <1>3. CASE rows # <<>> /\ B!Last(rows).before # B!NoStage
    <2>1. Len(rows) \in DOMAIN rows  BY <1>1, <1>3, EmptySeq, LenProperties
    <2>2. Ruled(m, docs[m].number, B!Last(rows))  BY <2>1, <1>1 DEF B!Last
    <2> QED  BY <2>2, <1>3 DEF B!Start, Ruled, rows
  <1>4. CASE ~(rows # <<>> /\ B!Last(rows).before # B!NoStage)
    BY <1>2, <1>4 DEF B!Start, rows, MeasureOK
  <1> QED  BY <1>3, <1>4

(* An outcome corrected (correct_outcome). *)
LEMMA CorrectOutcomeKeeps ==
    ASSUME B!InputsAssumption, Record, NEW r \in Requests, B!CorrectOutcome(r)
    PROVE  Record'
  <1> DEFINE s == jobs[r].s  m == jobs[r].m  entry == jobs[r].entry  day == jobs[r].on
             moves == [x \in {m} |-> entry]
             start == [x \in {m} |-> B!Start(outcomes[s][m], m)]
  <1>1. jobs[r] \in CorrectJobs /\ jobs' \in [Requests -> Jobs]
    BY WritingFrees, JobOf DEF B!CorrectOutcome
  <1>2. s \in Sessions /\ m \in Measures /\ day \in SessionDays /\ entry \in EntryRows  BY <1>1 DEF CorrectJobs
  <1>3. /\ m \in agenda[s] /\ B!CheckOutcome(m, entry)
        /\ B!EnterStages(s, day, moves, start, TRUE)
        /\ UNCHANGED <<sessions, agenda>>
    BY DEF B!CorrectOutcome
  <1> HIDE DEF s, m, entry, day
  <1>4. Movable(s, m, entry, B!Start(outcomes[s][m], m), TRUE)
    BY <1>2, <1>3, StartIsStage, EntryRowIsRow DEF Movable, B!CheckOutcome
  <1>5. DOMAIN moves = {m} /\ moves[m] = entry /\ start[m] = B!Start(outcomes[s][m], m)
    OBVIOUS
  <1> HIDE DEF moves, start
  <1>6. MeasuresOK' /\ RowsOK' /\ ItemsDecided'
    BY <1>2, <1>3, <1>4, <1>5, EnteringKeeps
  <1> QED  BY <1>1, <1>3, <1>6 DEF Record, ItemsOK

(* A request that comes to nothing. *)
LEMMA RollbackKeeps ==
    ASSUME Record, NEW r \in Requests, B!Rollback(r)
    PROVE  Record'
  <1>1. jobs' \in [Requests -> Jobs]  BY IdleIsJob DEF B!Rollback, Record
  <1>2. MeasuresOK' /\ RowsOK' /\ ItemsOK'
    BY MeasuresKept, RowsKept, ItemsKept DEF Record, B!Rollback
  <1> QED  BY <1>1, <1>2 DEF Record

(* A request that loads its session. *)
LEMMA LoadsKeep ==
    ASSUME Record, NEW r \in Requests, B!Loads(r)
    PROVE  Record'
  <1>1. jobs' \in [Requests -> Jobs]  BY LoadingKeeps DEF Record
  <1>2. MeasuresOK' /\ RowsOK' /\ ItemsOK'
    BY LoadingKeeps, MeasuresKept, RowsKept, ItemsKept DEF Record
  <1> QED  BY <1>1, <1>2 DEF Record

(* A session created (create_session). *)
LEMMA CreateSessionKeeps ==
    ASSUME Record, NEW s \in Sessions, NEW day \in SessionDays, B!CreateSession(s, day)
    PROVE  Record'
  <1>1. MeasuresOK' /\ RowsOK'
    BY MeasuresKept, RowsKept DEF Record, B!CreateSession
  <1>2. [status |-> "Draft", on |-> day] \in [status : B!Statuses \cup {"Absent"}, on : SessionDays]
    BY DEF B!Statuses
  <1>3. ItemsOK'
    BY <1>2 DEF Record, ItemsOK, ItemsDecided, B!CreateSession
  <1> QED  BY <1>1, <1>3 DEF Record, B!CreateSession

(* A stage entered outside sessions is one more entry of the history. *)
LEMMA EnterOutsideKeeps ==
    ASSUME B!InputsAssumption, Record, NEW m \in Measures, NEW stage \in B!AllStages(B!Kind(m)), NEW day \in SessionDays,
           NEW number \in Numbers, NEW correction \in BOOLEAN, B!EnterOutside(m, stage, day, number, correction),
           ~correction => stage \in B!AllowedNext(B!Kind(m), docs[m].stage) /\ B!Last(history[m]).on =< day
    PROVE  Record'
  <1> DEFINE change == [stage |-> stage, previous |-> docs[m].stage, on |-> day, correction |-> correction,
                        note |-> TRUE, session |-> B!NoSession]
             enters == B!EntersNumber(m, <<stage>>)
  <1>1. MeasureOK(m) /\ docs \in [Measures -> Rows] /\ history \in [Measures -> Seq(B!Changes)]
    BY DEF Record, MeasuresOK
  <1>2. stage \in B!AllStageNames /\ docs[m].stage \in B!AllStageNames
    BY <1>1, KindIs, StageNames DEF MeasureOK
  <1>3. change \in B!Changes  BY <1>2 DEF B!Changes
  <1>4. /\ docs' = [docs EXCEPT ![m] = [stage |-> stage, number |-> IF enters THEN number ELSE @.number]]
        /\ history' = [history EXCEPT ![m] = Append(@, change)]
        /\ UNCHANGED <<sessions, agenda, outcomes, jobs>>
    BY DEF B!EnterOutside
  <1>5. history'[m] = history[m] \o <<change>> /\ \A x \in Measures \ {m} : history'[x] = history[x]
    <2>1. Append(history[m], change) = history[m] \o <<change>>  BY <1>1, <1>3, AppendIsConcat
    <2> QED  BY <2>1, <1>1, <1>4
  <1>6. /\ docs'[m] = [stage |-> stage, number |-> IF enters THEN number ELSE docs[m].number]
        /\ \A x \in Measures \ {m} : docs'[x] = docs[x]
    BY <1>1, <1>4
  <1>7. docs[m].number \in Numbers \cup {B!NoNumber} /\ number # B!NoNumber
    BY <1>1 DEF Rows, B!InputsAssumption, B!NoNumber
  <1>8. B!IsEnacted(B!Kind(m), stage) /\ docs[m].number = B!NoNumber => enters
    <2>1. stage \in B!ToSet(<<stage>>)  BY DEF B!ToSet
    <2> QED  BY <2>1 DEF B!EntersNumber
  <1>9. MeasureOK(m)'
    <2> DEFINE new == <<change>>
    <2>1. new \in Seq(B!Changes) /\ new # <<>> /\ DOMAIN new = {1} /\ new[1] = change /\ Len(new) = 1
      BY <1>3
    <2> HIDE DEF new
    <2>2. Legit(B!Kind(m), change)  BY DEF Legit
    <2>3. After(B!Last(history[m]), change)  BY <1>1 DEF After, MeasureOK
    <2>4. Continuous(new)  BY <2>1 DEF Continuous
    <2>5. B!Last(new) = change  BY <2>1 DEF B!Last
    <2>6. Sound(B!Kind(m), history[m] \o new) /\ B!Last(history[m] \o new) = change
      <3>1. Sound(B!Kind(m), history[m])  BY <1>1 DEF MeasureOK
      <3>2. (\A k \in DOMAIN new : Legit(B!Kind(m), new[k])) /\ (new # <<>> => After(B!Last(history[m]), new[1]))
        BY <2>1, <2>2, <2>3
      <3>3. Sound(B!Kind(m), history[m] \o new) /\ B!Last(history[m] \o new) = IF new = <<>> THEN B!Last(history[m]) ELSE B!Last(new)
        <4>1. new \in Seq(B!Changes)  BY <2>1
        <4> QED  BY <4>1, <3>1, <3>2, <2>4, Extended
      <3> QED  BY <3>3, <2>1, <2>5
    <2>7. Sound(B!Kind(m), history'[m]) /\ B!Last(history'[m]).stage = stage
      BY <2>6, <1>5 DEF new
    <2>8. B!IsEnacted(B!Kind(m), stage) => docs'[m].number # B!NoNumber
      BY <1>6, <1>7, <1>8
    <2> QED  BY <2>7, <2>8, <1>6 DEF MeasureOK
  <1>10. MeasuresOK'
    <2>1. \A x \in Measures : MeasureOK(x)'
      BY <1>5, <1>6, <1>9 DEF MeasureOK, Record, MeasuresOK
    <2>2. docs' \in [Measures -> Rows]
      BY <1>1, <1>2, <1>4, <1>7 DEF Rows
    <2>3. history'[m] \in Seq(B!Changes)  BY <1>9 DEF MeasureOK, Sound
    <2>4. history' \in [Measures -> Seq(B!Changes)]  BY <2>3, <1>1, <1>4
    <2> QED  BY <2>1, <2>2, <2>4 DEF MeasuresOK
  <1>11. NumbersKept  BY <1>6, <1>7 DEF NumbersKept
  <1>12. RowsOK' /\ ItemsOK'  BY <1>4, <1>11, RowsKept, ItemsKept DEF Record
  <1> QED  BY <1>4, <1>10, <1>12 DEF Record

(* Stage changes and corrections made outside sessions. *)
LEMMA ChangesKeep ==
    ASSUME B!InputsAssumption, Record, NEW m \in Measures, NEW stage, NEW day \in SessionDays, NEW number \in Numbers,
           B!ChangeStage(m, stage, day, number) \/ B!CorrectStage(m, stage, day, number)
    PROVE  Record'
  <1>1. CASE B!ChangeStage(m, stage, day, number)
    <2>1. stage \in B!AllowedNext(B!Kind(m), docs[m].stage) /\ stage \in B!AllStages(B!Kind(m))
      BY <1>1 DEF B!ChangeStage, B!AllowedNext
    <2>2. history[m] # <<>>  BY DEF Record, MeasuresOK, MeasureOK, Sound
    <2>3. B!Last(history[m]).on =< day /\ B!EnterOutside(m, stage, day, number, FALSE)  BY <1>1, <2>2 DEF B!ChangeStage
    <2> QED  BY <2>1, <2>3, EnterOutsideKeeps
  <1>2. CASE B!CorrectStage(m, stage, day, number)
    BY <1>2, EnterOutsideKeeps DEF B!CorrectStage
  <1> QED  BY <1>1, <1>2

(* The record at first. *)
LEMMA RecordAtFirst ==
    ASSUME B!InputsAssumption, B!Init
    PROVE  Record
  <1>1. PICK day \in SessionDays : history = [m \in Measures |->
            <<[stage |-> "Filed", previous |-> B!NoStage, on |-> day, correction |-> FALSE,
               note |-> TRUE, session |-> B!NoSession]>>]
    BY DEF B!Init
  <1> DEFINE filed == [stage |-> "Filed", previous |-> B!NoStage, on |-> day, correction |-> FALSE,
                       note |-> TRUE, session |-> B!NoSession]
             first == <<filed>>
  <1>2. "Filed" \in B!AllStageNames  BY FiledIsStage, StageNames, KindIs DEF B!Kinds
  <1>3. filed \in B!Changes  BY <1>2 DEF B!Changes
  <1>4. first \in Seq(B!Changes) /\ first # <<>> /\ DOMAIN first = {1} /\ first[1] = filed /\ Len(first) = 1
    BY <1>3
  <1> HIDE DEF first
  <1>5. \A m \in Measures : Sound(B!Kind(m), first)
    BY <1>4 DEF Sound, Legit, Continuous
  <1>6. B!Last(first).stage = "Filed"  BY <1>4 DEF B!Last
  <1>7. MeasuresOK
    <2>1. history = [m \in Measures |-> first]  BY <1>1 DEF first
    <2>2. docs = [m \in Measures |-> [stage |-> "Filed", number |-> B!NoNumber]]  BY DEF B!Init
    <2>3. \A m \in Measures : MeasureOK(m)
      BY <2>1, <2>2, <1>5, <1>6, FiledIsStage, FiledIsNotEnacted, KindIs DEF MeasureOK
    <2> QED  BY <2>1, <2>2, <2>3, <1>2, <1>4 DEF MeasuresOK, Rows
  <1>8. outcomes = [s \in Sessions |-> [m \in Measures |-> <<>>]]  BY DEF B!Init
  <1>9. RowsOK
    <2>1. outcomes \in [Sessions -> [Measures -> Seq(B!OutcomeRows)]]  BY <1>8, EmptySeq
    <2>2. DOMAIN <<>> = {}  BY EmptySeq
    <2> QED  BY <2>1, <2>2, <1>8 DEF RowsOK, OutcomesRuled
  <1>10. ItemsOK
    <2>1. sessions \in [Sessions -> [status : B!Statuses \cup {"Absent"}, on : SessionDays]]
      BY DEF B!Init
    <2> QED  BY <2>1, <1>8 DEF ItemsOK, ItemsDecided, B!Init
  <1> QED  BY <1>7, <1>9, <1>10, IdleIsJob DEF Record, B!Init

(* The record is kept by every step, whatever requests run at one time. *)
LEMMA RecordIsKept ==
    ASSUME B!InputsAssumption, Record, [B!Next]_B!vars
    PROVE  Record'
  <1>1. ASSUME NEW r \in Requests, B!Loads(r)  PROVE Record'  BY <1>1, LoadsKeep
  <1>2. ASSUME NEW r \in Requests, B!AddItem(r) \/ B!RemoveItem(r)  PROVE Record'
    BY <1>2, AddItemKeeps, RemoveItemKeeps
  <1>3. ASSUME NEW r \in Requests, B!SetOutcome(r) \/ B!ClearOutcome(r)  PROVE Record'
    BY <1>3, SetOutcomeKeeps, ClearOutcomeKeeps
  <1>4. ASSUME NEW r \in Requests, B!Hold(r) \/ B!CorrectOutcome(r)  PROVE Record'
    BY <1>4, HoldKeeps, CorrectOutcomeKeeps
  <1>5. ASSUME NEW r \in Requests, B!Reschedule(r) \/ B!Redate(r) \/ B!Delete(r)  PROVE Record'
    BY <1>5, RescheduleKeeps, RedateKeeps, DeleteKeeps
  <1>6. ASSUME NEW r \in Requests, B!Rollback(r)  PROVE Record'  BY <1>6, RollbackKeeps
  <1>7. ASSUME NEW s \in Sessions, NEW day \in SessionDays, B!CreateSession(s, day)  PROVE Record'
    BY <1>7, CreateSessionKeeps
  <1>8. ASSUME NEW m \in Measures, NEW stage \in Outside, NEW day \in SessionDays, NEW number \in Numbers,
               B!ChangeStage(m, stage, day, number) \/ B!CorrectStage(m, stage, day, number)
        PROVE  Record'
    BY <1>8, ChangesKeep
  <1>9. CASE UNCHANGED B!vars
    BY <1>9, MeasuresKept, RowsKept, ItemsKept DEF B!vars, Record
  <1> QED  BY <1>1, <1>2, <1>3, <1>4, <1>5, <1>6, <1>7, <1>8, <1>9 DEF B!Next

(* Whatever requests run at one time, the record is kept.                  *)
THEOREM RecordInvariance == B!Spec => []Record
  <1>1. B!Init => Record  BY RecordAtFirst, Instances
  <1>2. Record /\ [B!Next]_B!vars => Record'  BY RecordIsKept, Instances
  <1> QED  BY <1>1, <1>2, PTL DEF B!Spec

(* What the record says, in the terms of the module. *)
LEMMA RecordSays ==
    ASSUME Record
    PROVE  B!TypeOK /\ B!OutcomesFollowRules /\ B!EnactedHasNumber /\ B!DatesInOrder /\ B!HistoryIsChain
  <1>1. \A m \in Measures : MeasureOK(m) /\ docs[m] \in Rows /\ history[m] \in Seq(B!Changes)
    BY DEF Record, MeasuresOK
  <1>2. B!TypeOK
    <2>1. \A r \in Requests : jobs[r].s \in Sessions \cup {B!NoSession}
      <3> SUFFICES ASSUME NEW r \in Requests  PROVE jobs[r].s \in Sessions \cup {B!NoSession}
        OBVIOUS
      <3>1. jobs[r] \in Jobs  BY DEF Record
      <3>2. CASE jobs[r] = B!Idle  BY <3>2 DEF B!Idle
      <3>3. CASE jobs[r] # B!Idle
        BY <3>1, <3>3 DEF Jobs, ItemJobs, SetJobs, StatusJobs, RedateJobs, DeleteJobs, CorrectJobs
      <3> QED  BY <3>2, <3>3
    <2> QED  BY <2>1, <1>1 DEF B!TypeOK, MeasureOK, Rows, Record, RowsOK, ItemsOK
  <1>3. B!OutcomesFollowRules
    BY <1>1 DEF B!OutcomesFollowRules, MeasureOK, Sound, Legit
  <1>4. B!EnactedHasNumber  BY <1>1 DEF B!EnactedHasNumber, MeasureOK
  <1>5. B!DatesInOrder  BY <1>1 DEF B!DatesInOrder, MeasureOK, Sound, Continuous, After
  <1>6. B!HistoryIsChain  BY <1>1 DEF B!HistoryIsChain, MeasureOK, Sound, Continuous, After
  <1> QED  BY <1>2, <1>3, <1>4, <1>5, <1>6

(* Whatever requests run at one time: the history of a measure is one      *)
(* chain that ends at its stage, dated in order but for corrections, every *)
(* outcome entered moves the rules allow, and no measure is at Approved or *)
(* Adopted or later without its number (order_of_business.py               *)
(* _enter_stages, measure_stages.py _set_enacted_number).                  *)
THEOREM RecordHolds ==
    B!Spec => [](B!TypeOK /\ B!OutcomesFollowRules /\ B!EnactedHasNumber /\ B!DatesInOrder /\ B!HistoryIsChain)
  <1>1. Record => B!TypeOK /\ B!OutcomesFollowRules /\ B!EnactedHasNumber /\ B!DatesInOrder /\ B!HistoryIsChain
    BY RecordSays
  <1> QED  BY <1>1, RecordInvariance, PTL

-----------------------------------------------------------------------------
(* With one request at a time: what a session left of itself.              *)

(* The entries of a session in a history, and the stage of the last.       *)
OwnIn(h, s) == {i \in DOMAIN h : h[i].session = s}
LeftIn(h, s, stage) == \A i \in OwnIn(h, s) : (\A j \in OwnIn(h, s) : j =< i) => h[i].stage = stage

(* A session that is not held has none; a held one's are dated by it and   *)
(* end where the last of the outcomes of the item left the measure.        *)
Fits(h, held, on, rows, s) ==
    /\ ~held => OwnIn(h, s) = {}
    /\ \A i \in OwnIn(h, s) : h[i].on = on
    /\ held /\ rows = <<>> => OwnIn(h, s) = {}
    /\ held /\ rows # <<>> =>
          /\ B!Last(rows).before # B!NoStage
          /\ IF B!Last(rows).applied # <<>> THEN OwnIn(h, s) # {} /\ LeftIn(h, s, B!Last(B!Last(rows).applied))
             ELSE LeftIn(h, s, B!Last(rows).before)
Fitting == \A s \in Sessions, m \in Measures : Fits(history[m], B!IsHeld(s), sessions[s].on, outcomes[s][m], s)

(* A request still finds the session as it loaded it. *)
FreshOn(job, row) ==
    /\ job.op \in {"add_item", "remove_item", "clear_outcome", "set_outcome", "change_status", "update_session"}
          => row.status \in {"Draft", "Scheduled"}
    /\ job.op = "delete_session" => row.status = "Draft"
    /\ job.op \in {"change_status", "correct_outcome"} => job.on = row.on
    /\ job.op = "correct_outcome" => row.status = "Held" /\ job.entry.correction
FreshJobs == \A r \in Requests : FreshOn(jobs[r], sessions[jobs[r].s])

Alone == Record /\ FreshJobs /\ Fitting

-----------------------------------------------------------------------------
(* Histories and their sessions. *)

(* Without entries the rest does not matter. *)
LEMMA NoneFit ==
    ASSUME NEW h, NEW on, NEW rows, NEW s, OwnIn(h, s) = {}
    PROVE  Fits(h, FALSE, on, rows, s) /\ Fits(h, TRUE, on, <<>>, s)
  BY DEF Fits

(* Entries of another session, or of none, change nothing. *)
LEMMA OthersFit ==
    ASSUME NEW h, NEW g,
           \A i \in DOMAIN h : i \in DOMAIN g /\ g[i] = h[i],
           NEW s, \A i \in DOMAIN g \ DOMAIN h : g[i].session # s,
           NEW held, NEW on, NEW rows, Fits(h, held, on, rows, s)
    PROVE  Fits(g, held, on, rows, s)
  <1>1. OwnIn(g, s) = OwnIn(h, s) /\ \A i \in OwnIn(h, s) : g[i] = h[i]
    BY DEF OwnIn
  <1> QED  BY <1>1 DEF Fits, LeftIn

(* What a session entered, at the end of the history: its stages t, on its *)
(* day, with the last of them the last of its entries.                     *)
Ends(h, t, s, day, g) ==
    /\ Len(g) = Len(h) + Len(t)
    /\ DOMAIN g = 1 .. Len(g) /\ DOMAIN h = 1 .. Len(h)
    /\ \A i \in 1 .. Len(h) : g[i] = h[i]
    /\ \A i \in Len(h) + 1 .. Len(g) : g[i].stage = t[i - Len(h)] /\ g[i].session = s /\ g[i].on = day

(* Where the entries of a session end when some are added. *)
LEMMA EndsLeft ==
    ASSUME NEW h, NEW t, NEW s, NEW day, NEW g, Ends(h, t, s, day, g),
           Len(h) \in Nat, Len(t) \in Nat
    PROVE  /\ Len(t) > 0 => OwnIn(g, s) # {} /\ LeftIn(g, s, t[Len(t)])
           /\ (\A i \in OwnIn(h, s) : h[i].on = day) => \A i \in OwnIn(g, s) : g[i].on = day
           /\ Len(t) = 0 => OwnIn(g, s) = OwnIn(h, s) /\ \A stage : LeftIn(h, s, stage) => LeftIn(g, s, stage)
           /\ \A x : x # s => OwnIn(g, x) = OwnIn(h, x)
  <1>1. ASSUME Len(t) > 0  PROVE OwnIn(g, s) # {} /\ LeftIn(g, s, t[Len(t)])
    <2>1. Len(g) \in DOMAIN g /\ Len(g) \in Len(h) + 1 .. Len(g) /\ Len(g) - Len(h) = Len(t)
      BY <1>1 DEF Ends
    <2>2. Len(g) \in OwnIn(g, s) /\ g[Len(g)].stage = t[Len(t)]  BY <2>1 DEF Ends, OwnIn
    <2>3. \A i \in OwnIn(g, s) : Len(g) =< i => i = Len(g)
      BY DEF OwnIn, Ends
    <2> QED  BY <2>2, <2>3 DEF LeftIn
  <1>2. ASSUME \A i \in OwnIn(h, s) : h[i].on = day, NEW i \in OwnIn(g, s)
        PROVE  g[i].on = day
    <2>1. CASE i =< Len(h)  BY <1>2, <2>1 DEF OwnIn, Ends
    <2>2. CASE ~(i =< Len(h))  BY <1>2, <2>2 DEF OwnIn, Ends
    <2> QED  BY <2>1, <2>2
  <1>3. ASSUME Len(t) = 0
        PROVE  OwnIn(g, s) = OwnIn(h, s) /\ \A stage : LeftIn(h, s, stage) => LeftIn(g, s, stage)
    <2>1. DOMAIN g = DOMAIN h /\ \A i \in DOMAIN h : g[i] = h[i]  BY <1>3 DEF Ends
    <2> QED  BY <2>1 DEF OwnIn, LeftIn
  <1>4. ASSUME NEW x, x # s  PROVE OwnIn(g, x) = OwnIn(h, x)
    <2>1. ASSUME NEW i \in OwnIn(g, x)  PROVE i \in OwnIn(h, x)
      <3>1. i \in 1 .. Len(g) /\ g[i].session = x  BY DEF OwnIn, Ends
      <3>2. i \in 1 .. Len(h)  BY <3>1, <1>4 DEF Ends
      <3> QED  BY <3>1, <3>2 DEF OwnIn, Ends
    <2>2. ASSUME NEW i \in OwnIn(h, x)  PROVE i \in OwnIn(g, x)
      <3>1. i \in 1 .. Len(h) /\ h[i].session = x  BY DEF OwnIn, Ends
      <3>2. i \in 1 .. Len(g)  BY <3>1 DEF Ends
      <3> QED  BY <3>1, <3>2 DEF OwnIn, Ends
    <2> QED  BY <2>1, <2>2
  <1> QED  BY <1>1, <1>2, <1>3, <1>4

(* The history of a measure a session moves. *)
LEMMA MovedEnds ==
    ASSUME B!InputsAssumption, Record, NEW s \in Sessions, NEW day \in SessionDays, NEW correcting \in BOOLEAN,
           NEW m \in Measures, NEW entry, NEW start, NEW p, NEW t,
           Movable(s, m, entry, start, correcting), Moved(s, day, m, entry, start, correcting, p, t)
    PROVE  /\ Ends(history[m], t, s, day, history'[m])
           /\ Len(t) \in Nat /\ Len(history[m]) \in Nat
  <1> DEFINE new == B!Entered(s, day, m, entry.note, t, correcting)
  <1>1. MeasureOK(m)  BY DEF Record, MeasuresOK
  <1>2. entry.note \in BOOLEAN  BY DEF Movable, B!OutcomeRows
  <1>3. start = docs[m].stage \/ correcting  BY DEF Movable
  <1>4. ~correcting => t = p  BY DEF Moved, B!Targets
  <1>5. /\ new \in Seq(B!Changes) /\ Len(new) = Len(t) /\ DOMAIN new = 1 .. Len(t)
        /\ \A k \in DOMAIN new : Legit(B!Kind(m), new[k]) /\ new[k].stage = t[k] /\ new[k].session = s /\ new[k].on = day
        /\ new # <<>> => After(B!Last(history[m]), new[1])
        /\ Continuous(new)
    <2>1. t \in Seq(B!AllStages(B!Kind(m)))  BY DEF Moved
    <2>2. ~correcting => LegalMoves(B!Kind(m), docs[m].stage, t, entry.note)
      BY <1>3, <1>4 DEF Moved
    <2>3. ~correcting => B!Last(history[m]).on =< day  BY DEF Moved
    <2>4. s \in Sessions \cup {B!NoSession}  OBVIOUS
    <2> QED  BY <2>1, <2>2, <2>3, <2>4, <1>1, <1>2, EnteredSound DEF MeasureOK
  <1> HIDE DEF new
  <1>6. history'[m] = history[m] \o new  BY DEF Moved, new
  <1>7. history[m] \in Seq(B!Changes) /\ t \in Seq(B!AllStages(B!Kind(m)))  BY <1>1 DEF MeasureOK, Sound, Moved
  <1>8. Len(t) \in Nat /\ Len(history[m]) \in Nat /\ DOMAIN history[m] = 1 .. Len(history[m])
    BY <1>7, LenProperties
  <1> DEFINE h == history[m]  g == h \o new
  <1>h. h \in Seq(B!Changes)  BY <1>7
  <1> HIDE DEF h
  <1>9. /\ g \in Seq(B!Changes) /\ Len(g) = Len(h) + Len(new)
        /\ \A i \in 1 .. Len(h) + Len(new) : g[i] = IF i <= Len(h) THEN h[i] ELSE new[i - Len(h)]
    <2>1. new \in Seq(B!Changes)  BY <1>5
    <2> QED  BY <2>1, <1>h, ConcatProperties
  <1>10. DOMAIN g = 1 .. Len(g)  BY <1>9, LenProperties
  <1> HIDE DEF g
  <1>11. Ends(h, t, s, day, g)
    <2>0. Len(h) \in Nat /\ Len(t) \in Nat /\ DOMAIN h = 1 .. Len(h)  BY <1>8 DEF h
    <2>1. Len(g) = Len(h) + Len(t) /\ DOMAIN g = 1 .. Len(g)  BY <1>5, <1>9, <1>10
    <2>2. \A i \in 1 .. Len(h) : g[i] = h[i]  BY <2>0, <1>5, <1>9
    <2>3. \A i \in Len(h) + 1 .. Len(g) : i - Len(h) \in DOMAIN new /\ g[i] = new[i - Len(h)]
      BY <2>0, <2>1, <1>5, <1>9
    <2>4. \A i \in Len(h) + 1 .. Len(g) : g[i].stage = t[i - Len(h)] /\ g[i].session = s /\ g[i].on = day
      BY <2>3, <1>5
    <2> QED  BY <2>0, <2>1, <2>2, <2>4 DEF Ends
  <1> QED  BY <1>6, <1>8, <1>11 DEF h, g

(* A session that becomes held: the plan of each outcome is what it left. *)
LEMMA HeldFits ==
    ASSUME B!InputsAssumption, Record, NEW s \in Sessions, NEW day \in SessionDays, NEW m \in Measures,
           NEW entry, NEW start, NEW p, NEW t, NEW on,
           Movable(s, m, entry, start, FALSE), Moved(s, day, m, entry, start, FALSE, p, t),
           Fits(history[m], FALSE, on, outcomes[s][m], s)
    PROVE  Fits(history'[m], TRUE, day, outcomes'[s][m], s)
  <1> DEFINE row == [entry EXCEPT !.before = start, !.applied = p]
             rows == Append(B!Front(outcomes[s][m]), row)
  <1>1. outcomes'[s][m] = rows /\ t = p /\ p \in Seq(B!AllStages(B!Kind(m)))
    BY DEF Moved, B!Targets
  <1>2. row \in B!OutcomeRows /\ row.before = start /\ row.applied = p /\ start # B!NoStage
    <2>0. /\ entry \in B!OutcomeRows /\ entry.outcome \in B!OutcomeChoices(B!Kind(m))
          /\ start \in B!AllStages(B!Kind(m)) /\ (B!IsEnacted(B!Kind(m), start) => docs[m].number # B!NoNumber)
      BY DEF Movable
    <2>p. p \in Seq(B!AllStages(B!Kind(m)))  BY <1>1
    <2>1. row \in B!OutcomeRows /\ Ruled(m, docs[m].number, row)
      BY <2>0, <2>p, EntryRuled
    <2>2. row.before = start /\ row.applied = p
      BY <2>0 DEF B!OutcomeRows
    <2>3. start # B!NoStage  BY <2>0, KindIs, NoStageIsNone
    <2> QED  BY <2>1, <2>2, <2>3
  <1>3. outcomes[s][m] \in Seq(B!OutcomeRows) /\ outcomes[s][m] # <<>>
    BY DEF Record, RowsOK, Movable
  <1> HIDE DEF row
  <1>4. rows # <<>> /\ B!Last(rows) = row  BY <1>2, <1>3, LastReplaced
  <1> HIDE DEF rows
  <1>5. Ends(history[m], t, s, day, history'[m]) /\ Len(t) \in Nat /\ Len(history[m]) \in Nat
    BY MovedEnds
  <1>6. OwnIn(history[m], s) = {}  BY DEF Fits
  <1>7. \A i \in OwnIn(history'[m], s) : history'[m][i].on = day
    BY <1>5, <1>6, EndsLeft
  <1>8. CASE p # <<>>
    <2>1. Len(t) > 0 /\ B!Last(p) = t[Len(t)]  BY <1>1, <1>5, <1>8, EmptySeq DEF B!Last
    <2>2. OwnIn(history'[m], s) # {} /\ LeftIn(history'[m], s, B!Last(p))  BY <1>5, <2>1, EndsLeft
    <2> QED  BY <2>2, <1>1, <1>2, <1>4, <1>7, <1>8 DEF Fits
  <1>9. CASE p = <<>>
    <2>1. Len(t) = 0  BY <1>1, <1>9, EmptySeq
    <2>2. OwnIn(history'[m], s) = {}  BY <1>5, <1>6, <2>1, EndsLeft
    <2>3. LeftIn(history'[m], s, start)  BY <2>2 DEF LeftIn
    <2> QED  BY <2>3, <1>1, <1>2, <1>4, <1>7, <1>9 DEF Fits
  <1> QED  BY <1>8, <1>9

(* A corrected outcome: what it enters ends where it says, or it enters    *)
(* nothing because the measure is already there.                           *)
LEMMA CorrectedFits ==
    ASSUME B!InputsAssumption, Record, NEW s \in Sessions, NEW day \in SessionDays, NEW m \in Measures,
           NEW entry, NEW start, NEW p, NEW t,
           Movable(s, m, entry, start, TRUE), Moved(s, day, m, entry, start, TRUE, p, t),
           Fits(history[m], TRUE, day, outcomes[s][m], s),
           start = B!Start(outcomes[s][m], m), docs[m].stage = B!LeftAt(outcomes[s][m], m)
    PROVE  Fits(history'[m], TRUE, day, outcomes'[s][m], s)
  <1> DEFINE row == [entry EXCEPT !.before = start, !.applied = p]
             rows == Append(outcomes[s][m], row)
             old == outcomes[s][m]
             h == history[m]
             g == history'[m]
  <1>1. outcomes'[s][m] = rows /\ p \in Seq(B!AllStages(B!Kind(m)))
    BY DEF Moved
  <1>2. row \in B!OutcomeRows /\ row.before = start /\ row.applied = p /\ start # B!NoStage
    <2>0. /\ entry \in B!OutcomeRows /\ entry.outcome \in B!OutcomeChoices(B!Kind(m))
          /\ start \in B!AllStages(B!Kind(m)) /\ (B!IsEnacted(B!Kind(m), start) => docs[m].number # B!NoNumber)
      BY DEF Movable
    <2>p. p \in Seq(B!AllStages(B!Kind(m)))  BY <1>1
    <2>1. row \in B!OutcomeRows /\ Ruled(m, docs[m].number, row)
      BY <2>0, <2>p, EntryRuled
    <2>2. row.before = start /\ row.applied = p
      BY <2>0 DEF B!OutcomeRows
    <2>3. start # B!NoStage  BY <2>0, KindIs, NoStageIsNone
    <2> QED  BY <2>1, <2>2, <2>3
  <1>3. old \in Seq(B!OutcomeRows)
    BY DEF Record, RowsOK
  <1> HIDE DEF row
  <1>4. rows # <<>> /\ B!Last(rows) = row  BY <1>2, <1>3, RowAdded
  <1>5. Ends(h, t, s, day, g) /\ Len(t) \in Nat /\ Len(h) \in Nat
    BY MovedEnds
  <1>6. \A i \in OwnIn(h, s) : h[i].on = day  BY DEF Fits
  <1> HIDE DEF rows, g, h
  <1>7. \A i \in OwnIn(g, s) : g[i].on = day
    BY <1>5, <1>6, EndsLeft
  <1>8. CASE p # <<>>
    <2>1. t = p  BY <1>8 DEF Moved, B!Targets
    <2>2. Len(t) > 0 /\ B!Last(p) = t[Len(t)]  BY <2>1, <1>1, <1>5, <1>8, EmptySeq DEF B!Last
    <2>3. OwnIn(g, s) # {} /\ LeftIn(g, s, B!Last(p))  BY <1>5, <2>2, EndsLeft
    <2>4. Fits(g, TRUE, day, rows, s)  BY <2>3, <1>2, <1>4, <1>7, <1>8 DEF Fits
    <2> QED  BY <2>4, <1>1 DEF g
  <1>9. CASE p = <<>>
    <2>1. LeftIn(g, s, start)
      <3>1. CASE docs[m].stage # start
        <4>1. t = <<start>>  BY <3>1, <1>9 DEF Moved, B!Targets
        <4>2. Len(t) > 0 /\ t[Len(t)] = start  BY <4>1
        <4> QED  BY <4>2, <1>5, EndsLeft
      <3>2. CASE docs[m].stage = start
        <4>1. t = <<>>  BY <3>2, <1>9 DEF Moved, B!Targets
        <4>2. Len(t) = 0  BY <4>1, EmptySeq
        <4>3. LeftIn(h, s, start)
          <5>1. CASE old = <<>>
            <6>1. OwnIn(h, s) = {}  BY <5>1 DEF Fits, h
            <6> QED  BY <6>1 DEF LeftIn
          <5>2. CASE old # <<>> /\ B!Last(old).applied # <<>>
            <6>1. B!Last(B!Last(old).applied) = start  BY <5>2, <3>2 DEF B!LeftAt
            <6> QED  BY <6>1, <5>2 DEF Fits, h
          <5>3. CASE old # <<>> /\ B!Last(old).applied = <<>>
            <6>1. B!Last(old).before # B!NoStage /\ LeftIn(h, s, B!Last(old).before)
              BY <5>3 DEF Fits, h
            <6> QED  BY <6>1, <5>3 DEF B!Start
          <5> QED  BY <5>1, <5>2, <5>3
        <4> QED  BY <4>2, <4>3, <1>5, EndsLeft
      <3> QED  BY <3>1, <3>2
    <2>2. Fits(g, TRUE, day, rows, s)  BY <2>1, <1>2, <1>4, <1>7, <1>9 DEF Fits
    <2> QED  BY <2>2, <1>1 DEF g
  <1> QED  BY <1>8, <1>9

(* The other sessions, when one moves a measure. *)
LEMMA MovedOthersFit ==
    ASSUME B!InputsAssumption, Record, NEW s \in Sessions, NEW day \in SessionDays, NEW correcting \in BOOLEAN,
           NEW m \in Measures, NEW entry, NEW start, NEW p, NEW t,
           Movable(s, m, entry, start, correcting), Moved(s, day, m, entry, start, correcting, p, t),
           NEW x \in Sessions \ {s}, NEW held, NEW on, NEW rows, Fits(history[m], held, on, rows, x)
    PROVE  Fits(history'[m], held, on, rows, x)
  <1>1. Ends(history[m], t, s, day, history'[m]) /\ Len(t) \in Nat /\ Len(history[m]) \in Nat
    BY MovedEnds
  <1> DEFINE h == history[m]  g == history'[m]
  <1> HIDE DEF h, g
  <1>2. /\ \A i \in DOMAIN h : i \in DOMAIN g /\ g[i] = h[i]
        /\ \A i \in DOMAIN g \ DOMAIN h : g[i].session = s
    <2>1. Ends(h, t, s, day, g) /\ Len(t) \in Nat /\ Len(h) \in Nat  BY <1>1 DEF h, g
    <2> QED  BY <2>1 DEF Ends
  <1>3. Fits(h, held, on, rows, x)  BY DEF h
  <1>4. Fits(g, held, on, rows, x)  BY <1>2, <1>3, OthersFit
  <1> QED  BY <1>4 DEF g

(* A session deleted is in no history, the others are as they were. *)
LEMMA DetachedFit ==
    ASSUME NEW kind, NEW h, Sound(kind, h), NEW s, NEW x, NEW held, NEW on, NEW rows, s # B!NoSession, x # B!NoSession
    PROVE  /\ x # s /\ Fits(h, held, on, rows, x) => Fits(Detached(h, s), held, on, rows, x)
           /\ OwnIn(Detached(h, s), s) = {}
  <1> DEFINE d == Detached(h, s)
  <1>1. /\ DOMAIN d = DOMAIN h
        /\ \A i \in DOMAIN h : h[i].session # s => d[i] = h[i]
        /\ \A i \in DOMAIN h : h[i].session = s => d[i].session = B!NoSession
    BY DetachedSound
  <1> HIDE DEF d
  <1>2. x # s => OwnIn(d, x) = OwnIn(h, x) /\ \A i \in OwnIn(h, x) : d[i] = h[i]
    BY <1>1 DEF OwnIn
  <1>3. OwnIn(d, s) = {}  BY <1>1 DEF OwnIn
  <1> QED  BY <1>2, <1>3 DEF Fits, LeftIn, d

-----------------------------------------------------------------------------
(* Each step, with one request at a time. *)

(* A request that waits has loaded nothing. *)
LEMMA IdleIsFresh == \A row : FreshOn(B!Idle, row)
  BY DEF FreshOn, B!Idle

(* A request that writes finds its session as it loaded it, and is the     *)
(* only one.                                                               *)
LEMMA WritingFresh ==
    ASSUME Alone, OneAtATime, NEW r \in Requests, NEW op, B!Writes(r, op), op # "idle"
    PROVE  FreshOn(jobs[r], sessions[jobs[r].s]) /\ FreshJobs'
  <1>1. jobs[r] # B!Idle  BY DEF B!Writes, B!Idle
  <1>2. \A q \in Requests \ {r} : jobs[q] = B!Idle  BY <1>1 DEF OneAtATime
  <1>3. \A q \in Requests : jobs'[q] = B!Idle  BY <1>2, WritingFrees DEF Alone
  <1> QED  BY <1>3, IdleIsFresh DEF FreshJobs, Alone

(* Nothing that is compared changes. *)
LEMMA FittingStays ==
    ASSUME Fitting, UNCHANGED <<history, sessions, outcomes>>
    PROVE  Fitting'
  BY DEF Fitting, B!IsHeld

(* A session that is not held and does not become so. *)
LEMMA OpenStays ==
    ASSUME Fitting, NEW s \in Sessions, ~B!IsHeld(s), ~B!IsHeld(s)', UNCHANGED history,
           \A x \in Sessions \ {s} : sessions'[x] = sessions[x] /\ outcomes'[x] = outcomes[x]
    PROVE  Fitting'
  <1> SUFFICES ASSUME NEW x \in Sessions, NEW m \in Measures
               PROVE  Fits(history[m], B!IsHeld(x)', sessions'[x].on, outcomes'[x][m], x)
    BY DEF Fitting
  <1>1. Fits(history[m], B!IsHeld(x), sessions[x].on, outcomes[x][m], x)  BY DEF Fitting
  <1>2. CASE x = s
    <2>1. OwnIn(history[m], x) = {}  BY <1>1, <1>2 DEF Fits
    <2>2. B!IsHeld(x)' = FALSE
      BY <1>2 DEF B!IsHeld
    <2> QED  BY <2>1, <2>2, NoneFit
  <1>3. CASE x # s  BY <1>1, <1>3 DEF B!IsHeld
  <1> QED  BY <1>2, <1>3

(* What is written to the items of a session that is not held. *)
LEMMA ItemsFit ==
    ASSUME Alone, OneAtATime, NEW r \in Requests,
           B!AddItem(r) \/ B!RemoveItem(r) \/ B!SetOutcome(r) \/ B!ClearOutcome(r)
    PROVE  Alone' /\ jobs[r].s \in Sessions /\ ~B!IsHeld(jobs[r].s) /\ UNCHANGED sessions
           /\ \A x \in Sessions \ {jobs[r].s} : agenda'[x] = agenda[x] /\ outcomes'[x] = outcomes[x]
  <1>1. Record'
    BY AddItemKeeps, RemoveItemKeeps, SetOutcomeKeeps, ClearOutcomeKeeps DEF Alone
  <1>2. PICK op \in {"add_item", "remove_item", "set_outcome", "clear_outcome"} : B!Writes(r, op)
    BY DEF B!AddItem, B!RemoveItem, B!SetOutcome, B!ClearOutcome
  <1>3. FreshOn(jobs[r], sessions[jobs[r].s]) /\ FreshJobs'  BY <1>2, WritingFresh
  <1>4. jobs[r] \in Jobs /\ jobs[r].op = op  BY <1>2, WritingFrees DEF Alone
  <1>5. jobs[r].s \in Sessions
    BY <1>2, <1>4, JobOf DEF ItemJobs, SetJobs
  <1>6. ~B!IsHeld(jobs[r].s)
    BY <1>2, <1>3, <1>4 DEF FreshOn, B!IsHeld
  <1>7. /\ UNCHANGED <<history, sessions>>
        /\ \A x \in Sessions \ {jobs[r].s} : agenda'[x] = agenda[x] /\ outcomes'[x] = outcomes[x]
    <2>0. agenda \in [Sessions -> SUBSET Measures] /\ outcomes \in [Sessions -> [Measures -> Seq(B!OutcomeRows)]]
      BY DEF Alone, Record, ItemsOK, RowsOK
    <2>1. CASE B!AddItem(r)  BY <2>0, <2>1 DEF B!AddItem
    <2>2. CASE B!RemoveItem(r)  BY <2>0, <2>2 DEF B!RemoveItem
    <2>3. CASE B!SetOutcome(r)  BY <2>0, <2>3 DEF B!SetOutcome
    <2>4. CASE B!ClearOutcome(r)  BY <2>0, <2>4 DEF B!ClearOutcome
    <2> QED  BY <2>1, <2>2, <2>3, <2>4
  <1>8. Fitting'
    <2>1. PICK s \in Sessions : s = jobs[r].s  BY <1>5
    <2>2. ~B!IsHeld(s) /\ ~B!IsHeld(s)'  BY <2>1, <1>6, <1>7 DEF B!IsHeld
    <2> QED  BY <2>1, <2>2, <1>7, OpenStays DEF Alone
  <1> QED  BY <1>1, <1>3, <1>5, <1>6, <1>7, <1>8 DEF Alone

(* What is written to the row of a session that is not held. *)
LEMMA RowsFit ==
    ASSUME Alone, OneAtATime, NEW r \in Requests, B!Reschedule(r) \/ B!Redate(r)
    PROVE  Alone' /\ UNCHANGED <<agenda, outcomes>>
  <1>1. Record'  BY RescheduleKeeps, RedateKeeps DEF Alone
  <1>2. PICK op \in {"change_status", "update_session"} : B!Writes(r, op)
    BY DEF B!Reschedule, B!Redate
  <1>3. FreshOn(jobs[r], sessions[jobs[r].s]) /\ FreshJobs'  BY <1>2, WritingFresh
  <1>4. jobs[r] \in Jobs /\ jobs[r].op = op  BY <1>2, WritingFrees DEF Alone
  <1>5. jobs[r].s \in Sessions  BY <1>2, <1>4, JobOf DEF StatusJobs, RedateJobs
  <1>6. sessions[jobs[r].s].status \in {"Draft", "Scheduled"}  BY <1>2, <1>3, <1>4 DEF FreshOn
  <1>7. PICK s \in Sessions : s = jobs[r].s  BY <1>5
  <1>8. /\ UNCHANGED <<history, agenda, outcomes>>
        /\ \A x \in Sessions \ {s} : sessions'[x] = sessions[x]
        /\ sessions'[s].status # "Held"
    <2>0. sessions \in [Sessions -> [status : B!Statuses \cup {"Absent"}, on : SessionDays]]  BY DEF Alone, Record, ItemsOK
    <2>1. CASE B!Reschedule(r)  BY <2>0, <2>1, <1>7 DEF B!Reschedule
    <2>2. CASE B!Redate(r)
      <3>1. sessions' = [sessions EXCEPT ![s].on = jobs[r].day] /\ UNCHANGED <<history, agenda, outcomes>>
        BY <2>2, <1>7 DEF B!Redate
      <3>2. sessions'[s].status = sessions[s].status  BY <3>1, <2>0
      <3> QED  BY <3>1, <3>2, <2>0, <1>6, <1>7
    <2> QED  BY <2>1, <2>2
  <1>9. ~B!IsHeld(s) /\ ~B!IsHeld(s)'  BY <1>6, <1>7, <1>8 DEF B!IsHeld
  <1>10. Fitting'  BY <1>8, <1>9, OpenStays DEF Alone
  <1> QED  BY <1>1, <1>3, <1>8, <1>10 DEF Alone

(* A session created. *)
LEMMA CreateSessionFits ==
    ASSUME Alone, NEW s \in Sessions, NEW day \in SessionDays, B!CreateSession(s, day)
    PROVE  Alone' /\ UNCHANGED <<agenda, outcomes>>
  <1>1. Record'  BY CreateSessionKeeps DEF Alone
  <1>2. sessions \in [Sessions -> [status : B!Statuses \cup {"Absent"}, on : SessionDays]]  BY DEF Alone, Record, ItemsOK
  <1>3. /\ \A x \in Sessions \ {s} : sessions'[x] = sessions[x]
        /\ sessions'[s].status = "Draft" /\ sessions[s].status = "Absent"
        /\ UNCHANGED <<history, agenda, outcomes, jobs>>
        /\ \A r \in Requests : jobs[r].s # s
    BY <1>2 DEF B!CreateSession
  <1>4. ~B!IsHeld(s) /\ ~B!IsHeld(s)'  BY <1>3 DEF B!IsHeld
  <1>5. Fitting'  BY <1>3, <1>4, OpenStays DEF Alone
  <1>6. FreshJobs'
    <2> SUFFICES ASSUME NEW r \in Requests  PROVE FreshOn(jobs[r], sessions'[jobs[r].s])
      BY <1>3 DEF FreshJobs
    <2>1. FreshOn(jobs[r], sessions[jobs[r].s])  BY DEF Alone, FreshJobs
    <2>2. CASE jobs[r] = B!Idle  BY <2>2, IdleIsFresh
    <2>3. CASE jobs[r] # B!Idle
      <3>1. jobs[r] \in Jobs  BY DEF Alone, Record
      <3>2. jobs[r].s \in Sessions
        BY <3>1, <2>3 DEF Jobs, ItemJobs, SetJobs, StatusJobs, RedateJobs, DeleteJobs, CorrectJobs
      <3>3. sessions'[jobs[r].s] = sessions[jobs[r].s]  BY <3>2, <1>3
      <3> QED  BY <3>3, <2>1
    <2> QED  BY <2>2, <2>3
  <1> QED  BY <1>1, <1>3, <1>5, <1>6 DEF Alone

(* A session deleted, which was not held. *)
LEMMA DeleteFits ==
    ASSUME B!InputsAssumption, Alone, OneAtATime, NEW r \in Requests, B!Delete(r)
    PROVE  Alone' /\ \E s \in Sessions : ~B!IsHeld(s) /\ \A x \in Sessions \ {s} : agenda'[x] = agenda[x] /\ outcomes'[x] = outcomes[x]
  <1>1. Record'  BY DeleteKeeps DEF Alone
  <1>2. B!Writes(r, "delete_session")  BY DEF B!Delete
  <1>3. FreshOn(jobs[r], sessions[jobs[r].s]) /\ FreshJobs'  BY <1>2, WritingFresh
  <1>4. jobs[r] \in Jobs /\ jobs[r].op = "delete_session"  BY <1>2, WritingFrees DEF Alone
  <1>5. jobs[r].s \in Sessions  BY <1>4, JobOf DEF DeleteJobs
  <1>6. PICK s \in Sessions : s = jobs[r].s  BY <1>5
  <1>7. ~B!IsHeld(s)  BY <1>3, <1>4, <1>6 DEF FreshOn, B!IsHeld
  <1>8. /\ sessions' = [sessions EXCEPT ![s].status = "Absent"]
        /\ agenda' = [agenda EXCEPT ![s] = {}]
        /\ outcomes' = [outcomes EXCEPT ![s] = [m \in Measures |-> <<>>]]
        /\ history' = [m \in Measures |-> Detached(history[m], s)]
    BY <1>6 DEF B!Delete, Detached
  <1>9. /\ sessions \in [Sessions -> [status : B!Statuses \cup {"Absent"}, on : SessionDays]]
        /\ agenda \in [Sessions -> SUBSET Measures] /\ outcomes \in [Sessions -> [Measures -> Seq(B!OutcomeRows)]]
    BY DEF Alone, Record, ItemsOK, RowsOK
  <1>10. /\ \A x \in Sessions \ {s} : /\ agenda'[x] = agenda[x] /\ outcomes'[x] = outcomes[x]
                                      /\ sessions'[x] = sessions[x]
         /\ sessions'[s].status = "Absent"
    BY <1>8, <1>9
  <1>11. Fitting'
    <2> SUFFICES ASSUME NEW x \in Sessions, NEW m \in Measures
                 PROVE  Fits(history'[m], B!IsHeld(x)', sessions'[x].on, outcomes'[x][m], x)
      BY DEF Fitting
    <2>1. Fits(history[m], B!IsHeld(x), sessions[x].on, outcomes[x][m], x)  BY DEF Alone, Fitting
    <2>2. Sound(B!Kind(m), history[m])  BY DEF Alone, Record, MeasuresOK, MeasureOK
    <2>3. history'[m] = Detached(history[m], s)  BY <1>8
    <2>4. s # B!NoSession /\ x # B!NoSession  BY DEF B!InputsAssumption
    <2>5. CASE x = s
      <3>1. OwnIn(history'[m], s) = {}  BY <2>2, <2>3, <2>4, DetachedFit
      <3>2. B!IsHeld(x)' = FALSE  BY <2>5, <1>10 DEF B!IsHeld
      <3> QED  BY <3>1, <3>2, <2>5, NoneFit
    <2>6. CASE x # s
      <3>1. B!IsHeld(x)' = B!IsHeld(x) /\ sessions'[x].on = sessions[x].on /\ outcomes'[x][m] = outcomes[x][m]
        BY <2>6, <1>10 DEF B!IsHeld
      <3>2. Fits(Detached(history[m], s), B!IsHeld(x), sessions[x].on, outcomes[x][m], x)
        BY <2>1, <2>2, <2>4, <2>6, DetachedFit
      <3> QED  BY <3>1, <3>2, <2>3
    <2> QED  BY <2>5, <2>6
  <1> QED  BY <1>1, <1>3, <1>7, <1>10, <1>11 DEF Alone

(* A session becomes held. *)
LEMMA HoldFits ==
    ASSUME B!InputsAssumption, Alone, OneAtATime, NEW r \in Requests, B!Hold(r)
    PROVE  Alone' /\ \E s \in Sessions : ~B!IsHeld(s) /\ \A x \in Sessions \ {s} : agenda'[x] = agenda[x] /\ outcomes'[x] = outcomes[x]
  <1>1. Record'  BY HoldKeeps DEF Alone
  <1>2. B!Writes(r, "change_status")  BY DEF B!Hold
  <1>3. FreshOn(jobs[r], sessions[jobs[r].s]) /\ FreshJobs'  BY <1>2, WritingFresh
  <1>4. jobs[r] \in Jobs /\ jobs[r].op = "change_status"  BY <1>2, WritingFrees DEF Alone
  <1>5. jobs[r].s \in Sessions /\ jobs[r].on \in SessionDays  BY <1>4, JobOf DEF StatusJobs
  <1>6. PICK s \in Sessions, day \in SessionDays : s = jobs[r].s /\ day = jobs[r].on  BY <1>5
  <1>7. ~B!IsHeld(s) /\ sessions[s].on = day  BY <1>3, <1>4, <1>6 DEF FreshOn, B!IsHeld
  <1> DEFINE moves == [m \in Decided(s) |-> B!Last(outcomes[s][m])]
             start == [m \in Decided(s) |-> docs[m].stage]
  <1>8. /\ B!EnterStages(s, day, moves, start, FALSE)
        /\ sessions' = [sessions EXCEPT ![s].status = "Held"] /\ UNCHANGED agenda
    BY <1>6 DEF B!Hold, Decided
  <1>9. /\ DOMAIN moves = Decided(s)
        /\ \A m \in Decided(s) : Movable(s, m, moves[m], start[m], FALSE)
    BY DecidedMovable DEF Alone
  <1> HIDE DEF moves, start
  <1>10. Record  BY DEF Alone
  <1>11. Decided(s) \subseteq Measures
    BY <1>10 DEF Decided, Record, ItemsOK
  <1>12. \A m \in Decided(s) : \E p, t : Moved(s, day, m, moves[m], start[m], FALSE, p, t)
    BY <1>8, <1>9, <1>10, <1>11, EntersMeasure
  <1>13. /\ \A m \in Measures \ Decided(s) : history'[m] = history[m] /\ outcomes'[s][m] = outcomes[s][m]
         /\ \A x \in Sessions \ {s} : outcomes'[x] = outcomes[x]
    <2>1. /\ \A y \in Measures \ DOMAIN moves : /\ docs'[y] = docs[y] /\ history'[y] = history[y]
                                                 /\ outcomes'[s][y] = outcomes[s][y]
          /\ \A x \in Sessions \ {s} : outcomes'[x] = outcomes[x]
      BY <1>8, <1>10, EntersOthers, Zenon
    <2> QED  BY <2>1, <1>9
  <1>14. /\ \A x \in Sessions \ {s} : sessions'[x] = sessions[x]
         /\ sessions'[s].status = "Held" /\ sessions'[s].on = day
    <2>1. sessions \in [Sessions -> [status : B!Statuses \cup {"Absent"}, on : SessionDays]]  BY <1>10 DEF Record, ItemsOK
    <2> QED  BY <2>1, <1>7, <1>8
  <1>15. Fitting'
    <2> SUFFICES ASSUME NEW x \in Sessions, NEW m \in Measures
                 PROVE  Fits(history'[m], B!IsHeld(x)', sessions'[x].on, outcomes'[x][m], x)
      BY DEF Fitting
    <2>1. Fits(history[m], B!IsHeld(x), sessions[x].on, outcomes[x][m], x)  BY DEF Alone, Fitting
    <2>2. CASE x = s /\ m \in Decided(s)
      <3>1. PICK p, t : Moved(s, day, m, moves[m], start[m], FALSE, p, t)  BY <2>2, <1>12
      <3>2. Movable(s, m, moves[m], start[m], FALSE)  BY <2>2, <1>9
      <3>3. Fits(history[m], FALSE, sessions[s].on, outcomes[s][m], s)  BY <2>1, <2>2, <1>7 DEF B!IsHeld
      <3>4. Fits(history'[m], TRUE, day, outcomes'[s][m], s)
        BY <3>1, <3>2, <3>3, <1>10, HeldFits
      <3> QED  BY <3>4, <2>2, <1>14 DEF B!IsHeld
    <2>3. CASE x = s /\ m \notin Decided(s)
      <3>1. outcomes[s][m] = <<>>  BY <2>3, <1>10 DEF Decided, Record, ItemsOK, ItemsDecided
      <3>2. outcomes'[s][m] = <<>> /\ history'[m] = history[m]  BY <3>1, <2>3, <1>13
      <3>3. OwnIn(history[m], s) = {}  BY <2>1, <2>3, <1>7 DEF Fits
      <3>4. Fits(history[m], TRUE, day, <<>>, s)  BY <3>3, NoneFit
      <3> QED  BY <3>2, <3>4, <2>3, <1>14 DEF B!IsHeld
    <2>4. CASE x # s
      <3>1. B!IsHeld(x)' = B!IsHeld(x) /\ sessions'[x].on = sessions[x].on /\ outcomes'[x][m] = outcomes[x][m]
        BY <2>4, <1>13, <1>14 DEF B!IsHeld
      <3>2. Fits(history'[m], B!IsHeld(x), sessions[x].on, outcomes[x][m], x)
        <4>1. CASE m \in Decided(s)
          <5>1. PICK p, t : Moved(s, day, m, moves[m], start[m], FALSE, p, t)  BY <4>1, <1>12
          <5>2. Movable(s, m, moves[m], start[m], FALSE)  BY <4>1, <1>9
          <5> QED  BY <5>1, <5>2, <2>1, <2>4, <1>10, MovedOthersFit
        <4>2. CASE m \notin Decided(s)  BY <4>2, <2>1, <1>13
        <4> QED  BY <4>1, <4>2
      <3> QED  BY <3>1, <3>2
    <2> QED  BY <2>2, <2>3, <2>4
  <1> QED  BY <1>1, <1>3, <1>7, <1>8, <1>13, <1>15 DEF Alone

(* An outcome corrected. *)
LEMMA CorrectOutcomeFits ==
    ASSUME B!InputsAssumption, Alone, OneAtATime, NEW r \in Requests, B!CorrectOutcome(r)
    PROVE  /\ Alone' /\ UNCHANGED agenda
           /\ \E s \in Sessions, m \in Measures, row \in B!OutcomeRows :
                 /\ row.correction /\ outcomes'[s][m] = Append(outcomes[s][m], row)
                 /\ \A x \in Sessions, y \in Measures : ~(x = s /\ y = m) => outcomes'[x][y] = outcomes[x][y]
  <1>1. Record'  BY CorrectOutcomeKeeps DEF Alone
  <1>2. B!Writes(r, "correct_outcome")  BY DEF B!CorrectOutcome
  <1>3. FreshOn(jobs[r], sessions[jobs[r].s]) /\ FreshJobs'  BY <1>2, WritingFresh
  <1>4. jobs[r] \in Jobs /\ jobs[r].op = "correct_outcome"  BY <1>2, WritingFrees DEF Alone
  <1>5. jobs[r].s \in Sessions /\ jobs[r].on \in SessionDays /\ jobs[r].m \in Measures /\ jobs[r].entry \in EntryRows
    BY <1>4, JobOf DEF CorrectJobs
  <1>6. PICK s \in Sessions, day \in SessionDays, m \in Measures, entry \in EntryRows :
            s = jobs[r].s /\ day = jobs[r].on /\ m = jobs[r].m /\ entry = jobs[r].entry
    BY <1>5
  <1>7. B!IsHeld(s) /\ sessions[s].on = day /\ entry.correction  BY <1>3, <1>4, <1>6 DEF FreshOn, B!IsHeld
  <1> DEFINE moves == [x \in {m} |-> entry]
             start == [x \in {m} |-> B!Start(outcomes[s][m], m)]
  <1>8. /\ B!EnterStages(s, day, moves, start, TRUE)
        /\ B!CheckOutcome(m, entry) /\ docs[m].stage = B!LeftAt(outcomes[s][m], m)
        /\ UNCHANGED <<sessions, agenda>>
    BY <1>6 DEF B!CorrectOutcome
  <1>9. DOMAIN moves = {m} /\ moves[m] = entry /\ start[m] = B!Start(outcomes[s][m], m)
    OBVIOUS
  <1> HIDE DEF moves, start
  <1>10. Record  BY DEF Alone
  <1>11. Movable(s, m, entry, start[m], TRUE)
    BY <1>8, <1>9, <1>10, StartIsStage, EntryRowIsRow DEF Movable, B!CheckOutcome
  <1>12. PICK p, t : Moved(s, day, m, entry, start[m], TRUE, p, t)
    BY <1>8, <1>9, <1>10, <1>11, EntersMeasure
  <1>13. /\ \A y \in Measures \ {m} : history'[y] = history[y] /\ outcomes'[s][y] = outcomes[s][y]
         /\ \A x \in Sessions \ {s} : outcomes'[x] = outcomes[x]
    <2>1. /\ \A y \in Measures \ DOMAIN moves : /\ docs'[y] = docs[y] /\ history'[y] = history[y]
                                                 /\ outcomes'[s][y] = outcomes[s][y]
          /\ \A x \in Sessions \ {s} : outcomes'[x] = outcomes[x]
      BY <1>8, <1>10, EntersOthers, Zenon
    <2> QED  BY <2>1, <1>9
  <1>14. Fitting'
    <2> SUFFICES ASSUME NEW x \in Sessions, NEW y \in Measures
                 PROVE  Fits(history'[y], B!IsHeld(x)', sessions'[x].on, outcomes'[x][y], x)
      BY DEF Fitting
    <2>1. Fits(history[y], B!IsHeld(x), sessions[x].on, outcomes[x][y], x)  BY DEF Alone, Fitting
    <2>2. B!IsHeld(x)' = B!IsHeld(x) /\ sessions'[x].on = sessions[x].on  BY <1>8 DEF B!IsHeld
    <2>3. CASE x = s /\ y = m
      <3>1. Fits(history[m], TRUE, day, outcomes[s][m], s)  BY <2>1, <2>3, <1>7 DEF B!IsHeld
      <3>2. Fits(history'[m], TRUE, day, outcomes'[s][m], s)
        BY <3>1, <1>8, <1>9, <1>10, <1>11, <1>12, CorrectedFits
      <3> QED  BY <3>2, <2>2, <2>3, <1>7 DEF B!IsHeld
    <2>4. CASE x # s /\ y = m
      <3>1. Fits(history'[m], B!IsHeld(x), sessions[x].on, outcomes[x][m], x)
        BY <2>1, <2>4, <1>10, <1>11, <1>12, MovedOthersFit
      <3> QED  BY <3>1, <2>2, <2>4, <1>13
    <2>5. CASE y # m  
      <3>1. history'[y] = history[y] /\ outcomes'[x][y] = outcomes[x][y]
        BY <2>5, <1>13
      <3> QED  BY <3>1, <2>1, <2>2
    <2> QED  BY <2>3, <2>4, <2>5
  <1>15. \E row \in B!OutcomeRows : row.correction /\ outcomes'[s][m] = Append(outcomes[s][m], row)
    <2> DEFINE row == [entry EXCEPT !.before = start[m], !.applied = p]
    <2>1. outcomes'[s][m] = Append(outcomes[s][m], row)  BY <1>12 DEF Moved
    <2>2. /\ entry \in B!OutcomeRows /\ entry.outcome \in B!OutcomeChoices(B!Kind(m))
          /\ start[m] \in B!AllStages(B!Kind(m)) /\ (B!IsEnacted(B!Kind(m), start[m]) => docs[m].number # B!NoNumber)
      BY <1>11 DEF Movable
    <2>3. p \in Seq(B!AllStages(B!Kind(m)))  BY <1>12 DEF Moved
    <2>4. row \in B!OutcomeRows  BY <2>2, <2>3, EntryRuled
    <2>5. row.correction  BY <2>2, <1>7 DEF B!OutcomeRows
    <2> QED  BY <2>1, <2>4, <2>5
  <1>16. \A x \in Sessions, y \in Measures : ~(x = s /\ y = m) => outcomes'[x][y] = outcomes[x][y]
    BY <1>13
  <1> QED  BY <1>1, <1>3, <1>8, <1>14, <1>15, <1>16 DEF Alone

(* A request as it is loaded. *)
LEMMA LoadedFresh ==
    ASSUME Alone, NEW r \in Requests, B!Loads(r)
    PROVE  Alone' /\ UNCHANGED <<agenda, outcomes>>
  <1>1. Record' /\ UNCHANGED <<docs, history, sessions, agenda, outcomes>>
    BY LoadsKeep, LoadingKeeps DEF Alone
  <1>2. \E job : FreshOn(job, sessions[job.s]) /\ jobs' = [jobs EXCEPT ![r] = job]
    <2>1. PICK s \in Sessions :
        \/ \E m \in Measures :
              \/ B!AddItemLoad(r, s, m) \/ B!RemoveItemLoad(r, s, m) \/ B!ClearOutcomeLoad(r, s, m)
              \/ \E outcome \in Outcomes, number \in Numbers \cup {B!NoNumber} :
                    \/ \E note \in BOOLEAN : B!SetOutcomeLoad(r, s, m, outcome, number, note)
                    \/ B!CorrectOutcomeLoad(r, s, m, outcome, number)
        \/ \E status \in B!Statuses : B!StatusLoad(r, s, status)
        \/ \E day \in SessionDays : B!RedateLoad(r, s, day)
        \/ B!DeleteLoad(r, s)
      BY DEF B!Loads
    <2>2. ASSUME NEW m \in Measures, B!AddItemLoad(r, s, m) \/ B!RemoveItemLoad(r, s, m) \/ B!ClearOutcomeLoad(r, s, m)
          PROVE  \E job : FreshOn(job, sessions[job.s]) /\ jobs' = [jobs EXCEPT ![r] = job]
      <3>1. PICK op \in {"add_item", "remove_item", "clear_outcome"} :
                B!NotHeld(s) /\ B!Load(r, [op |-> op, s |-> s, m |-> m])
        BY <2>2 DEF B!AddItemLoad, B!RemoveItemLoad, B!ClearOutcomeLoad
      <3>2. FreshOn([op |-> op, s |-> s, m |-> m], sessions[s])  BY <3>1 DEF FreshOn, B!NotHeld
      <3> QED  BY <3>1, <3>2 DEF B!Load
    <2>3. ASSUME NEW m \in Measures, NEW outcome, NEW number, NEW note, B!SetOutcomeLoad(r, s, m, outcome, number, note)
          PROVE  \E job : FreshOn(job, sessions[job.s]) /\ jobs' = [jobs EXCEPT ![r] = job]
      <3> DEFINE job == [op |-> "set_outcome", s |-> s, m |-> m, entry |-> B!Entry(outcome, number, note, FALSE)]
      <3>1. B!NotHeld(s) /\ B!Load(r, job)  BY <2>3 DEF B!SetOutcomeLoad
      <3>2. FreshOn(job, sessions[s])  BY <3>1 DEF FreshOn, B!NotHeld
      <3> QED  BY <3>1, <3>2 DEF B!Load
    <2>4. ASSUME NEW m \in Measures, NEW outcome, NEW number, B!CorrectOutcomeLoad(r, s, m, outcome, number)
          PROVE  \E job : FreshOn(job, sessions[job.s]) /\ jobs' = [jobs EXCEPT ![r] = job]
      <3> DEFINE job == [op |-> "correct_outcome", s |-> s, on |-> sessions[s].on, m |-> m,
                         entry |-> B!Entry(outcome, number, TRUE, TRUE)]
      <3>1. B!IsHeld(s) /\ B!Load(r, job)  BY <2>4 DEF B!CorrectOutcomeLoad
      <3>2. B!Entry(outcome, number, TRUE, TRUE).correction  BY DEF B!Entry
      <3>3. FreshOn(job, sessions[s])  BY <3>1, <3>2 DEF FreshOn, B!IsHeld
      <3> QED  BY <3>1, <3>3 DEF B!Load
    <2>5. ASSUME NEW status, B!StatusLoad(r, s, status)
          PROVE  \E job : FreshOn(job, sessions[job.s]) /\ jobs' = [jobs EXCEPT ![r] = job]
      <3> DEFINE job == [op |-> "change_status", s |-> s, on |-> sessions[s].on, status |-> status]
      <3>1. sessions[s].status \in B!Statuses /\ status \in B!NEXT_STATUSES[sessions[s].status] /\ B!Load(r, job)
        BY <2>5 DEF B!StatusLoad
      <3>2. B!NEXT_STATUSES["Held"] = {}  BY DEF B!NEXT_STATUSES
      <3>3. sessions[s].status \in {"Draft", "Scheduled"}  BY <3>1, <3>2 DEF B!Statuses
      <3>4. FreshOn(job, sessions[s])  BY <3>3 DEF FreshOn
      <3> QED  BY <3>1, <3>4 DEF B!Load
    <2>6. ASSUME NEW day, B!RedateLoad(r, s, day)
          PROVE  \E job : FreshOn(job, sessions[job.s]) /\ jobs' = [jobs EXCEPT ![r] = job]
      <3> DEFINE job == [op |-> "update_session", s |-> s, day |-> day]
      <3>1. B!NotHeld(s) /\ B!Load(r, job)  BY <2>6 DEF B!RedateLoad
      <3>2. FreshOn(job, sessions[s])  BY <3>1 DEF FreshOn, B!NotHeld
      <3> QED  BY <3>1, <3>2 DEF B!Load
    <2>7. ASSUME B!DeleteLoad(r, s)
          PROVE  \E job : FreshOn(job, sessions[job.s]) /\ jobs' = [jobs EXCEPT ![r] = job]
      <3> DEFINE job == [op |-> "delete_session", s |-> s]
      <3>1. sessions[s].status = "Draft" /\ B!Load(r, job)  BY <2>7 DEF B!DeleteLoad
      <3>2. FreshOn(job, sessions[s])  BY <3>1 DEF FreshOn
      <3> QED  BY <3>1, <3>2 DEF B!Load
    <2> QED  BY <2>1, <2>2, <2>3, <2>4, <2>5, <2>6, <2>7
  <1>3. FreshJobs'
    <2>1. PICK job : FreshOn(job, sessions[job.s]) /\ jobs' = [jobs EXCEPT ![r] = job]  BY <1>2
    <2>2. \A q \in Requests : jobs'[q] = IF q = r THEN job ELSE jobs[q]
      <3>1. jobs \in [Requests -> Jobs]  BY DEF Alone, Record
      <3> QED  BY <2>1, <3>1
    <2>3. \A q \in Requests : FreshOn(jobs'[q], sessions[jobs'[q].s])
      BY <2>1, <2>2 DEF Alone, FreshJobs
    <2> QED  BY <2>3, <1>1 DEF FreshJobs
  <1>4. Fitting'  BY <1>1, FittingStays DEF Alone
  <1> QED  BY <1>1, <1>3, <1>4 DEF Alone

(* A request that comes to nothing. *)
LEMMA RollbackFits ==
    ASSUME Alone, NEW r \in Requests, B!Rollback(r)
    PROVE  Alone' /\ UNCHANGED <<agenda, outcomes>>
  <1>1. Record' /\ UNCHANGED <<history, sessions, agenda, outcomes>>  BY RollbackKeeps DEF Alone, B!Rollback
  <1>2. \A q \in Requests : jobs'[q] = IF q = r THEN B!Idle ELSE jobs[q]
    BY DEF B!Rollback, Alone, Record
  <1>3. FreshJobs'
    <2>1. \A q \in Requests : FreshOn(jobs'[q], sessions[jobs'[q].s])
      BY <1>2, IdleIsFresh DEF Alone, FreshJobs
    <2> QED  BY <2>1, <1>1 DEF FreshJobs
  <1>4. Fitting'  BY <1>1, FittingStays DEF Alone
  <1> QED  BY <1>1, <1>3, <1>4 DEF Alone

(* A stage entered outside sessions. *)
LEMMA ChangesFit ==
    ASSUME B!InputsAssumption, Alone, NEW m \in Measures, NEW stage, NEW day \in SessionDays, NEW number \in Numbers,
           B!ChangeStage(m, stage, day, number) \/ B!CorrectStage(m, stage, day, number)
    PROVE  Alone' /\ UNCHANGED <<agenda, outcomes>>
  <1>1. Record'  BY ChangesKeep DEF Alone
  <1>2. PICK correction \in BOOLEAN : B!EnterOutside(m, stage, day, number, correction)
    BY DEF B!ChangeStage, B!CorrectStage
  <1> DEFINE change == [stage |-> stage, previous |-> docs[m].stage, on |-> day, correction |-> correction,
                        note |-> TRUE, session |-> B!NoSession]
  <1>3. history' = [history EXCEPT ![m] = Append(@, change)] /\ UNCHANGED <<sessions, agenda, outcomes, jobs>>
    BY <1>2 DEF B!EnterOutside
  <1>4. history[m] \in Seq(B!Changes) /\ history \in [Measures -> Seq(B!Changes)]
    BY DEF Alone, Record, MeasuresOK
  <1>5. change.session = B!NoSession  OBVIOUS
  <1> HIDE DEF change
  <1>6. FreshJobs'  BY <1>3 DEF Alone, FreshJobs
  <1>7. Fitting'
    <2> SUFFICES ASSUME NEW x \in Sessions, NEW y \in Measures
                 PROVE  Fits(history'[y], B!IsHeld(x)', sessions'[x].on, outcomes'[x][y], x)
      BY DEF Fitting
    <2>1. Fits(history[y], B!IsHeld(x), sessions[x].on, outcomes[x][y], x)  BY DEF Alone, Fitting
    <2>2. B!IsHeld(x)' = B!IsHeld(x) /\ sessions'[x].on = sessions[x].on /\ outcomes'[x][y] = outcomes[x][y]
      BY <1>3 DEF B!IsHeld
    <2>3. CASE y # m  BY <2>1, <2>2, <2>3, <1>3, <1>4
    <2>4. CASE y = m
      <3> DEFINE h == history[m]  g == history'[m]
      <3>1. g = Append(h, change)  BY <1>3, <1>4
      <3>2. DOMAIN h = 1 .. Len(h) /\ Len(h) \in Nat  BY <1>4, LenProperties
      <3>3. h \in Seq(B!Changes)  BY <1>4
      <3> HIDE DEF h, g
      <3>4. /\ DOMAIN g = 1 .. Len(h) + 1 /\ g[Len(h) + 1] = change
            /\ \A i \in 1 .. Len(h) : g[i] = h[i]
        BY <3>1, <3>3
      <3>5. \A i \in DOMAIN h : i \in DOMAIN g /\ g[i] = h[i]  BY <3>2, <3>4
      <3>6. \A i \in DOMAIN g \ DOMAIN h : i = Len(h) + 1  BY <3>2, <3>4
      <3>7. x # B!NoSession  BY DEF B!InputsAssumption
      <3>8. \A i \in DOMAIN g \ DOMAIN h : g[i].session # x  BY <3>4, <3>6, <3>7, <1>5
      <3>9. Fits(h, B!IsHeld(x), sessions[x].on, outcomes[x][m], x)  BY <2>1, <2>4 DEF h
      <3>10. Fits(g, B!IsHeld(x), sessions[x].on, outcomes[x][m], x)
        BY <3>5, <3>8, <3>9, OthersFit
      <3> QED  BY <3>10, <2>2, <2>4 DEF g
    <2> QED  BY <2>3, <2>4
  <1> QED  BY <1>1, <1>3, <1>6, <1>7 DEF Alone

-----------------------------------------------------------------------------
(* What a step does to the record of a held session. *)

(* A sequence is a prefix of itself. *)
LEMMA PrefixOfItself ==
    ASSUME NEW S, NEW rows \in Seq(S)
    PROVE  B!IsPrefix(rows, rows) /\ \A i \in Len(rows) + 1 .. Len(rows) : FALSE
  <1>1. Len(rows) \in Nat  BY LenProperties
  <1> QED  BY <1>1 DEF B!IsPrefix

(* A sequence is a prefix of itself with a row more. *)
LEMMA PrefixOfAdded ==
    ASSUME NEW S, NEW rows \in Seq(S), NEW row \in S
    PROVE  /\ B!IsPrefix(rows, Append(rows, row))
           /\ \A i \in Len(rows) + 1 .. Len(Append(rows, row)) : Append(rows, row)[i] = row
  <1> DEFINE longer == Append(rows, row)  n == Len(rows)
  <1>1. n \in Nat /\ n \in Int /\ 1 \in Int /\ \A i \in 1 .. n : rows[i] \in S
    BY LenProperties, ElementOfSeq
  <1>2. /\ longer \in Seq(S) /\ Len(longer) = n + 1
        /\ \A i \in 1 .. n : longer[i] = rows[i]
        /\ longer[n + 1] = row
    BY AppendProperties
  <1> HIDE DEF longer, n
  <1>3. \A i \in 1 .. n : longer[i] \in S  BY <1>1, <1>2
  <1>4. /\ SubSeq(rows, 1, n) \in Seq(S) /\ Len(SubSeq(rows, 1, n)) = IF 1 <= n THEN n - 1 + 1 ELSE 0
        /\ \A i \in 1 .. n - 1 + 1 : SubSeq(rows, 1, n)[i] = rows[1 + i - 1]
    BY <1>1, SubSeqProperties
  <1>5. /\ SubSeq(longer, 1, n) \in Seq(S) /\ Len(SubSeq(longer, 1, n)) = IF 1 <= n THEN n - 1 + 1 ELSE 0
        /\ \A i \in 1 .. n - 1 + 1 : SubSeq(longer, 1, n)[i] = longer[1 + i - 1]
    BY <1>1, <1>3, SubSeqProperties
  <1>6. SubSeq(rows, 1, n) = SubSeq(longer, 1, n)
    <2>1. Len(SubSeq(rows, 1, n)) = n /\ \A i \in 1 .. n : SubSeq(rows, 1, n)[i] = rows[i]  BY <1>1, <1>4
    <2>2. Len(SubSeq(longer, 1, n)) = n /\ \A i \in 1 .. n : SubSeq(longer, 1, n)[i] = longer[i]  BY <1>1, <1>5
    <2> DEFINE a == SubSeq(rows, 1, n)  b == SubSeq(longer, 1, n)
    <2>3. a \in Seq(S) /\ b \in Seq(S) /\ Len(a) = Len(b)  BY <1>4, <1>5, <2>1, <2>2
    <2>4. \A i \in 1 .. Len(a) : a[i] = b[i]  BY <2>1, <2>2, <1>2
    <2> HIDE DEF a, b
    <2>5. a = b  BY <2>3, <2>4, SeqEqual
    <2> QED  BY <2>5 DEF a, b
  <1>7. B!IsPrefix(rows, longer)
    BY <1>1, <1>2, <1>6 DEF B!IsPrefix, n
  <1>8. \A i \in n + 1 .. Len(longer) : longer[i] = row
    BY <1>1, <1>2
  <1> QED  BY <1>7, <1>8 DEF longer, n

(* Held sessions left alone. *)
LEMMA HeldUntouched ==
    ASSUME Record, \A s \in Sessions : B!IsHeld(s) => agenda'[s] = agenda[s] /\ outcomes'[s] = outcomes[s]
    PROVE  B!RecordStep
  <1> SUFFICES ASSUME NEW s \in Sessions, B!IsHeld(s)
               PROVE  /\ agenda'[s] = agenda[s]
                      /\ \A m \in Measures :
                            /\ B!IsPrefix(outcomes[s][m], outcomes'[s][m])
                            /\ \A i \in Len(outcomes[s][m]) + 1 .. Len(outcomes'[s][m]) : outcomes'[s][m][i].correction
    BY DEF B!RecordStep
  <1>1. agenda'[s] = agenda[s] /\ outcomes'[s] = outcomes[s]  OBVIOUS
  <1>2. \A m \in Measures : outcomes[s][m] \in Seq(B!OutcomeRows)  BY DEF Record, RowsOK
  <1> QED  BY <1>1, <1>2, PrefixOfItself

(* A held session corrected. *)
LEMMA HeldCorrected ==
    ASSUME Record, UNCHANGED agenda, NEW s \in Sessions, NEW m \in Measures, NEW row \in B!OutcomeRows,
           row.correction, outcomes'[s][m] = Append(outcomes[s][m], row),
           \A x \in Sessions, y \in Measures : ~(x = s /\ y = m) => outcomes'[x][y] = outcomes[x][y]
    PROVE  B!RecordStep
  <1> SUFFICES ASSUME NEW x \in Sessions, NEW y \in Measures
               PROVE  /\ B!IsPrefix(outcomes[x][y], outcomes'[x][y])
                      /\ \A i \in Len(outcomes[x][y]) + 1 .. Len(outcomes'[x][y]) : outcomes'[x][y][i].correction
    BY DEF B!RecordStep
  <1>1. outcomes[x][y] \in Seq(B!OutcomeRows)  BY DEF Record, RowsOK
  <1>2. CASE x = s /\ y = m
    <2>1. PICK rows \in Seq(B!OutcomeRows) : rows = outcomes[s][m]  BY <1>1, <1>2
    <2>2. outcomes'[s][m] = Append(rows, row)  BY <2>1
    <2>3. /\ B!IsPrefix(rows, Append(rows, row))
          /\ \A i \in Len(rows) + 1 .. Len(Append(rows, row)) : Append(rows, row)[i] = row
      BY PrefixOfAdded
    <2>4. PICK longer : longer = Append(rows, row)  OBVIOUS
    <2>5. \A i \in Len(rows) + 1 .. Len(longer) : longer[i].correction  BY <2>3, <2>4
    <2> QED  BY <1>2, <2>1, <2>2, <2>3, <2>4, <2>5
  <1>3. CASE ~(x = s /\ y = m)
    <2>1. outcomes'[x][y] = outcomes[x][y]  BY <1>3
    <2> QED  BY <1>1, <2>1, PrefixOfItself
  <1> QED  BY <1>2, <1>3

(* With one request at a time every step keeps the records in agreement,   *)
(* and a held session is corrected, not edited.                            *)
LEMMA AloneIsKept ==
    ASSUME B!InputsAssumption, Alone, OneAtATime, [B!Next]_B!vars
    PROVE  Alone' /\ B!RecordStep
  <1>0. Record  BY DEF Alone
  <1>1. ASSUME UNCHANGED <<agenda, outcomes>>  PROVE B!RecordStep
    BY <1>0, <1>1, HeldUntouched
  <1>2. ASSUME NEW s \in Sessions, ~B!IsHeld(s),
               \A x \in Sessions \ {s} : agenda'[x] = agenda[x] /\ outcomes'[x] = outcomes[x]
        PROVE  B!RecordStep
    <2>1. \A x \in Sessions : B!IsHeld(x) => agenda'[x] = agenda[x] /\ outcomes'[x] = outcomes[x]
      BY <1>2
    <2> QED  BY <2>1, <1>0, HeldUntouched
  <1>3. ASSUME NEW r \in Requests, B!Loads(r)  PROVE Alone' /\ B!RecordStep
    <2>1. Alone' /\ UNCHANGED <<agenda, outcomes>>  BY <1>3, LoadedFresh
    <2> QED  BY <2>1, <1>1
  <1>4. ASSUME NEW r \in Requests, B!AddItem(r) \/ B!RemoveItem(r) \/ B!SetOutcome(r) \/ B!ClearOutcome(r)
        PROVE  Alone' /\ B!RecordStep
    BY <1>4, <1>2, ItemsFit
  <1>5. ASSUME NEW r \in Requests, B!Hold(r)  PROVE Alone' /\ B!RecordStep
    BY <1>5, <1>2, HoldFits
  <1>6. ASSUME NEW r \in Requests, B!Delete(r)  PROVE Alone' /\ B!RecordStep
    BY <1>6, <1>2, DeleteFits
  <1>7. ASSUME NEW r \in Requests, B!Reschedule(r) \/ B!Redate(r)  PROVE Alone' /\ B!RecordStep
    <2>1. Alone' /\ UNCHANGED <<agenda, outcomes>>  BY <1>7, RowsFit
    <2> QED  BY <2>1, <1>1
  <1>8. ASSUME NEW r \in Requests, B!Rollback(r)  PROVE Alone' /\ B!RecordStep
    <2>1. Alone' /\ UNCHANGED <<agenda, outcomes>>  BY <1>8, RollbackFits
    <2> QED  BY <2>1, <1>1
  <1>9. ASSUME NEW r \in Requests, B!CorrectOutcome(r)  PROVE Alone' /\ B!RecordStep
    BY <1>0, <1>9, CorrectOutcomeFits, HeldCorrected
  <1>10. ASSUME NEW s \in Sessions, NEW day \in SessionDays, B!CreateSession(s, day)  PROVE Alone' /\ B!RecordStep
    <2>1. Alone' /\ UNCHANGED <<agenda, outcomes>>  BY <1>10, CreateSessionFits
    <2> QED  BY <2>1, <1>1
  <1>11. ASSUME NEW m \in Measures, NEW stage \in Outside, NEW day \in SessionDays, NEW number \in Numbers,
                B!ChangeStage(m, stage, day, number) \/ B!CorrectStage(m, stage, day, number)
         PROVE  Alone' /\ B!RecordStep
    <2>1. Alone' /\ UNCHANGED <<agenda, outcomes>>  BY <1>11, ChangesFit
    <2> QED  BY <2>1, <1>1
  <1>12. CASE UNCHANGED B!vars
    <2>1. Record'  BY <1>0, RecordIsKept
    <2>2. FreshJobs' /\ Fitting'  BY <1>12, FittingStays DEF Alone, FreshJobs, B!vars
    <2> QED  BY <2>1, <2>2, <1>1, <1>12 DEF Alone, B!vars
  <1> QED
    BY <1>3, <1>4, <1>5, <1>6, <1>7, <1>8, <1>9, <1>10, <1>11, <1>12 DEF B!Next

(* At first no session is in a history. *)
LEMMA AloneAtFirst ==
    ASSUME B!InputsAssumption, B!Init
    PROVE  Alone
  <1>1. Record  BY RecordAtFirst
  <1>2. FreshJobs  BY IdleIsFresh DEF FreshJobs, B!Init
  <1>3. Fitting
    <2> SUFFICES ASSUME NEW s \in Sessions, NEW m \in Measures
                 PROVE  Fits(history[m], B!IsHeld(s), sessions[s].on, outcomes[s][m], s)
      BY DEF Fitting
    <2>1. PICK day \in SessionDays : history = [x \in Measures |->
              <<[stage |-> "Filed", previous |-> B!NoStage, on |-> day, correction |-> FALSE,
                 note |-> TRUE, session |-> B!NoSession]>>]
      BY DEF B!Init
    <2>2. \A i \in DOMAIN history[m] : history[m][i].session = B!NoSession
      <3> DEFINE filed == [stage |-> "Filed", previous |-> B!NoStage, on |-> day, correction |-> FALSE,
                           note |-> TRUE, session |-> B!NoSession]
      <3>1. history[m] = <<filed>> /\ filed.session = B!NoSession  BY <2>1
      <3> HIDE DEF filed
      <3>2. DOMAIN <<filed>> = {1} /\ <<filed>>[1] = filed  OBVIOUS
      <3> QED  BY <3>1, <3>2
    <2>3. s # B!NoSession  BY DEF B!InputsAssumption
    <2>4. OwnIn(history[m], s) = {}  BY <2>2, <2>3 DEF OwnIn
    <2>5. B!IsHeld(s) = FALSE
      <3>1. sessions[s].status \in {"Absent"}  BY DEF B!Init
      <3> QED  BY <3>1 DEF B!IsHeld
    <2> QED  BY <2>4, <2>5, NoneFit
  <1> QED  BY <1>1, <1>2, <1>3 DEF Alone

(* What it says, in the terms of the module. *)
LEMMA AloneSays ==
    ASSUME B!InputsAssumption, Alone
    PROVE  B!OutcomesAreLegal /\ B!HistoryIsChain /\ B!StagesMatchOutcome
  <1>1. B!TypeOK /\ B!OutcomesFollowRules /\ B!EnactedHasNumber /\ B!DatesInOrder /\ B!HistoryIsChain
    BY RecordSays DEF Alone
  <1>2. \A s \in Sessions, m \in Measures : Fits(history[m], B!IsHeld(s), sessions[s].on, outcomes[s][m], s)
    BY DEF Alone, Fitting
  <1>3. B!DatedBySession
    <2> SUFFICES ASSUME NEW m \in Measures, NEW i \in DOMAIN history[m], history[m][i].session # B!NoSession
                 PROVE  history[m][i].on = sessions[history[m][i].session].on
      BY DEF B!DatedBySession
    <2>1. history[m][i] \in B!Changes
      <3>1. history[m] \in Seq(B!Changes)  BY DEF Alone, Record, MeasuresOK
      <3> QED  BY <3>1, ElementOfSeq, LenProperties
    <2>2. history[m][i].session \in Sessions  BY <2>1 DEF B!Changes
    <2>3. i \in OwnIn(history[m], history[m][i].session)  BY DEF OwnIn
    <2> QED  BY <2>2, <2>3, <1>2 DEF Fits
  <1>4. B!StagesMatchOutcome
    <2> SUFFICES ASSUME NEW s \in Sessions, NEW m \in Measures, B!IsHeld(s), outcomes[s][m] # <<>>
                 PROVE  IF B!Last(outcomes[s][m]).applied # <<>>
                        THEN B!Own(s, m) # {} /\ B!LeftBy(s, m, B!Last(B!Last(outcomes[s][m]).applied))
                        ELSE B!LeftBy(s, m, B!Last(outcomes[s][m]).before)
      BY DEF B!StagesMatchOutcome
    <2>1. B!Own(s, m) = OwnIn(history[m], s)  BY DEF B!Own, OwnIn
    <2>2. \A stage : B!LeftBy(s, m, stage) <=> LeftIn(history[m], s, stage)  BY <2>1 DEF B!LeftBy, LeftIn
    <2>3. Fits(history[m], B!IsHeld(s), sessions[s].on, outcomes[s][m], s)  BY <1>2
    <2> QED  BY <2>1, <2>2, <2>3 DEF Fits
  <1> QED  BY <1>1, <1>3, <1>4 DEF B!OutcomesAreLegal

(* With one request at a time the records agree, and a held session is     *)
(* corrected, not edited.                                                  *)
THEOREM AloneInvariance == B!Spec /\ []OneAtATime => []Alone /\ [][B!RecordStep]_B!vars
  <1>1. B!Init => Alone  BY AloneAtFirst, Instances
  <1>2. Alone /\ OneAtATime /\ [B!Next]_B!vars => Alone'  BY AloneIsKept, Instances
  <1>3. Alone /\ OneAtATime /\ [B!Next]_B!vars => [B!RecordStep]_B!vars  BY AloneIsKept, Instances
  <1> QED  BY <1>1, <1>2, <1>3, PTL DEF B!Spec

-----------------------------------------------------------------------------
(* The properties of the runs, of which the parts take the steps above one *)
(* request at a time.                                                      *)

BusinessAlone == part \in {"session", "sessions"} => Alone /\ OneAtATime

(* The parts start alone. *)
LEMMA PartsAtFirst ==
    ASSUME PartsInit
    PROVE  BusinessAlone
  <1>1. CASE part = "stages"  BY <1>1 DEF BusinessAlone
  <1>2. CASE part \in {"session", "sessions"} /\ B!Init
    <2>1. Alone  BY <1>2, AloneAtFirst, Instances
    <2>2. OneAtATime  BY <1>2 DEF OneAtATime, B!Init
    <2> QED  BY <2>1, <2>2 DEF BusinessAlone
  <1> QED  BY <1>1, <1>2 DEF PartsInit

(* Their steps are steps of the order of business, alone. *)
LEMMA PartsKept ==
    ASSUME BusinessAlone, [PartsNext]_parts
    PROVE  BusinessAlone' /\ (part \in {"session", "sessions"} => B!RecordStep)
  <1> SUFFICES ASSUME part \in {"session", "sessions"} \/ part' \in {"session", "sessions"}
               PROVE  Alone' /\ OneAtATime' /\ B!RecordStep
    BY DEF BusinessAlone
  <1>1. part' = part /\ Alone /\ OneAtATime  BY DEF BusinessAlone, PartsNext, parts
  <1>2. [B!Next]_B!vars /\ OneAtATime'
    <2>1. CASE PartsNext  BY <2>1, <1>1 DEF PartsNext
    <2>2. CASE UNCHANGED parts  BY <2>2, <1>1 DEF parts, business, B!vars, OneAtATime
    <2> QED  BY <2>1, <2>2
  <1> QED  BY <1>1, <1>2, AloneIsKept, Instances

(* With one request at a time outcomes enter legal moves, give their       *)
(* numbers, and are dated in order and by their session (business.py plan, *)
(* order_of_business.py _enter_stages, apply_outcomes, correct_outcome).   *)
THEOREM LegalOutcomes == PartsSpec => []OutcomesAreLegal
  <1>1. PartsInit => BusinessAlone  BY PartsAtFirst
  <1>2. BusinessAlone /\ [PartsNext]_parts => BusinessAlone'  BY PartsKept
  <1>3. BusinessAlone => OutcomesAreLegal  BY AloneSays, Instances DEF BusinessAlone, OutcomesAreLegal
  <1> QED  BY <1>1, <1>2, <1>3, PTL DEF PartsSpec

(* With one request at a time the history of a measure is one chain, and   *)
(* the entries of a held session end at the stage of the outcome on record *)
(* (order_of_business.py apply_outcomes, correct_outcome).                 *)
THEOREM SessionsFit == PartsSpec => []SessionsFitHistory
  <1>1. PartsInit => BusinessAlone  BY PartsAtFirst
  <1>2. BusinessAlone /\ [PartsNext]_parts => BusinessAlone'  BY PartsKept
  <1>3. BusinessAlone => SessionsFitHistory  BY AloneSays, Instances DEF BusinessAlone, SessionsFitHistory
  <1> QED  BY <1>1, <1>2, <1>3, PTL DEF PartsSpec

(* With one request at a time the order of business of a held session is   *)
(* fixed, and its outcomes grow by corrections only (docs/adr/0003).       *)
THEOREM HeldIsCorrected == PartsSpec => HeldIsRecord
  <1>1. PartsInit => BusinessAlone  BY PartsAtFirst
  <1>2. BusinessAlone /\ [PartsNext]_parts => BusinessAlone'  BY PartsKept
  <1>3. BusinessAlone /\ [PartsNext]_parts => [part = "sessions" => B!RecordStep]_parts
    BY PartsKept
  <1> QED  BY <1>1, <1>2, <1>3, PTL DEF PartsSpec, HeldIsRecord
=============================================================================
