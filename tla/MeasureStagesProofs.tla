------------------------ MODULE MeasureStagesProofs -------------------------
(***************************************************************************)
(* What every history of stages keeps, for any number of concurrent        *)
(* requests, any stages asked for, any days and any length of history.     *)
(*                                                                         *)
(* The two properties are not inductive: an entry is made legal when its   *)
(* request loads the document and is written some steps later.  The        *)
(* invariant follows the entry on its way (Prepared), the id it is given   *)
(* (Drawn, NotDrawn) so that it replaces no other, and the edits, which    *)
(* write the stage back as they found it (EditsKeepStage).                 *)
(*                                                                         *)
(* Then what holds when requests run one at a time (SerialInv): that the   *)
(* history is the record of the stage, and that what is shown of it agrees *)
(* with it.                                                                *)
(***************************************************************************)
EXTENDS MeasureViews, WellFoundedInduction, NaturalsInduction, TLAPS

LegalEntry(entry) ==
    \/ entry.correction /\ entry.note
    \/ \E kind \in Kinds :
          /\ entry.stage \in AllowedNext(kind, entry.previous)
          /\ IsReferralBack(kind, entry.previous, entry.stage) => entry.note

Prepared ==
    \A r \in Requests : pc[r] \in {"change_check", "flush", "commit"} =>
        /\ loc[r].entry \in Entries
        /\ LegalEntry(loc[r].entry)
        /\ loc[r].new.stage = loc[r].entry.stage

EditsKeepStage == \A r \in Requests : pc[r] = "save" => loc[r].new.stage = loc[r].snap.stage

Drawn ==
    \A r \in Requests : pc[r] = "commit" =>
        /\ loc[r].id \in 1 .. lastId
        /\ changes[loc[r].id] = NoChange
        /\ \A other \in Requests \ {r} : pc[other] = "commit" => loc[other].id # loc[r].id

NotDrawn == \A id \in Ids : id > lastId => changes[id] = NoChange

IInv ==
    /\ TypeOK
    /\ Prepared
    /\ EditsKeepStage
    /\ Drawn
    /\ NotDrawn
    /\ EntriesAreLegal
    /\ StageIsRecorded

-----------------------------------------------------------------------------
(* The data *)

LEMMA KindsStages == \A kind \in Kinds : AllStages(kind) \subseteq Stages
  BY DEF Kinds, Stages

LEMMA BlankEntry == NoChange \notin Entries
  BY BoundsAssumption DEF NoChange, Entries, Days

LEMMA BlankLocals == NoDocument \in Documents /\ NoLocals \in Locals
  <1>1. NoDocument \in Documents
    BY DEF NoDocument, Documents, DocumentTypes
  <1> QED
    BY <1>1 DEF NoLocals, Locals

(* What the UPDATE leaves is a document, with the stage written or kept. *)
LEMMA WrittenRow ==
    ASSUME doc \in Documents, NEW snap \in Documents, NEW new \in Documents
    PROVE  /\ Written(snap, new) \in Documents
           /\ Written(snap, new).stage = IF new.stage # snap.stage THEN new.stage ELSE doc.stage
  BY DEF Written, Documents

LEMMA HistoryEntry ==
    ASSUME TypeOK, NEW id \in History
    PROVE  id \in Ids /\ changes[id] \in Entries
  BY DEF TypeOK, History

-----------------------------------------------------------------------------
(* The first state: a measure with the entry of its registration, or       *)
(* another document without one.                                           *)

LEMMA InitInv == Init => IInv
  <1> SUFFICES ASSUME Init PROVE IInv
    OBVIOUS
  <1>1. PICK day \in Days : changes = [id \in Ids |->
              IF id =< lastId
              THEN [stage |-> doc.stage, previous |-> NoStage, on |-> day, note |-> TRUE, correction |-> FALSE]
              ELSE NoChange]
    BY DEF Init
  <1>2. doc \in Documents /\ lastId \in {0, 1}
    <2>1. doc \in Documents
      BY AskedAssumption DEF Init, Documents, Stages
    <2> QED
      BY <2>1 DEF Init
  <1>3. lastId = 1 => doc.stage \in Stages
    <2>1. ASSUME lastId = 1 PROVE MeasureKind(doc.type) \in Kinds
      BY <2>1 DEF Init
    <2>2. ASSUME NEW kind \in Kinds, doc.stage \in RegistrationStages(kind) PROVE doc.stage \in Stages
      BY <2>2, KindsStages DEF RegistrationStages, AllStages
    <2> QED
      BY <2>1, <2>2 DEF Init
  <1>4. TypeOK
    <2>1. changes \in [Ids -> Entries \cup {NoChange}]
      <3>1. ASSUME NEW id \in Ids, id =< lastId
            PROVE  [stage |-> doc.stage, previous |-> NoStage, on |-> day,
                    note |-> TRUE, correction |-> FALSE] \in Entries
        <4>1. doc.stage \in Stages
          BY <3>1, <1>2, <1>3 DEF Ids
        <4> QED
          BY <4>1 DEF Entries
      <3> QED
        BY <1>1, <3>1
    <2> QED
      BY <1>2, <2>1, BlankLocals, BoundsAssumption DEF Init, TypeOK
  <1>5. Prepared /\ EditsKeepStage /\ Drawn
    BY DEF Init, Prepared, EditsKeepStage, Drawn
  <1>6. NotDrawn
    BY <1>1, <1>2 DEF NotDrawn, Ids
  <1>7. EntriesAreLegal
    BY <1>1, <1>2 DEF EntriesAreLegal, History, Ids
  <1>8. StageIsRecorded
    <2> SUFFICES ASSUME doc.stage # NoStage
                 PROVE  \E id \in History : changes[id].stage = doc.stage
      BY DEF StageIsRecorded
    <2>1. lastId = 1
      BY DEF Init
    <2>2. 1 \in Ids
      BY BoundsAssumption DEF Ids
    <2>3. changes[1].stage = doc.stage /\ changes[1].on = day
      BY <1>1, <2>1, <2>2
    <2>4. 1 \in History
      BY <2>2, <2>3 DEF History, NoChange, Days
    <2> QED
      BY <2>3, <2>4
  <1> QED
    BY <1>4, <1>5, <1>6, <1>7, <1>8 DEF IInv

-----------------------------------------------------------------------------
(* The moves requests are made of *)

(* A stage is asked for: the entry prepared is legal. *)
LEMMA RequestInv ==
    ASSUME IInv, NEW r \in Requests, NEW point \in {"change_check", "flush"}, NEW kind \in Kinds,
           NEW stage \in AllStages(kind), NEW day \in Days, NEW note \in BOOLEAN,
           NEW correction \in BOOLEAN,
           LegalEntry([stage |-> stage, previous |-> doc.stage, on |-> day, note |-> note,
                       correction |-> correction]),
           Request(r, point, kind, stage, day, note, correction)
    PROVE  IInv'
  <1> DEFINE entry == [stage |-> stage, previous |-> doc.stage, on |-> day, note |-> note,
                       correction |-> correction]
             new == [doc EXCEPT !.stage = stage, !.number = @ \/ EntersNumber(doc, kind, stage)]
             locals == [snap |-> doc, new |-> new, entry |-> entry, id |-> 0]
  <1>1. TypeOK /\ doc \in Documents
    BY DEF IInv, TypeOK
  <1>2. stage \in Stages
    BY KindsStages
  <1>3. entry \in Entries
    BY <1>1, <1>2 DEF Entries, Documents
  <1>4. new \in Documents /\ new.stage = stage
    BY <1>1, <1>2 DEF Documents
  <1>5. locals \in Locals
    BY <1>1, <1>3, <1>4 DEF Locals
  <1>6. /\ pc' = [pc EXCEPT ![r] = point] /\ loc' = [loc EXCEPT ![r] = locals]
        /\ UNCHANGED <<doc, changes, lastId>>
    BY DEF Request
  <1> HIDE DEF entry, new, locals
  <1>7. TypeOK'
    BY <1>1, <1>5, <1>6 DEF TypeOK
  <1>8. locals.entry = entry /\ locals.new = new /\ entry.stage = stage
    BY DEF locals, entry
  <1>9. Prepared'
    <2>1. ASSUME NEW s \in Requests, s = r
          PROVE  loc'[s].entry \in Entries /\ LegalEntry(loc'[s].entry)
                 /\ loc'[s].new.stage = loc'[s].entry.stage
      BY <2>1, <1>1, <1>3, <1>4, <1>6, <1>8 DEF TypeOK, entry
    <2>2. ASSUME NEW s \in Requests, s # r PROVE loc'[s] = loc[s] /\ pc'[s] = pc[s]
      BY <2>2, <1>1, <1>6 DEF TypeOK
    <2> QED
      BY <2>1, <2>2 DEF IInv, Prepared
  <1>10. EditsKeepStage' /\ Drawn' /\ NotDrawn'
    BY <1>1, <1>6 DEF IInv, TypeOK, EditsKeepStage, Drawn, NotDrawn
  <1>11. EntriesAreLegal' /\ StageIsRecorded'
    BY <1>6 DEF IInv, EntriesAreLegal, StageIsRecorded, History
  <1> QED
    BY <1>7, <1>9, <1>10, <1>11 DEF IInv

(* An edit leaves the stage as it loaded it. *)
LEMMA EditInv ==
    ASSUME IInv, NEW r \in Requests, NEW new \in Documents, new.stage = doc.stage, Edit(r, new)
    PROVE  IInv'
  <1> DEFINE locals == [NoLocals EXCEPT !.snap = doc, !.new = new]
  <1>1. TypeOK /\ doc \in Documents
    BY DEF IInv, TypeOK
  <1>2. locals \in Locals /\ locals.new = new /\ locals.snap = doc
    BY <1>1, BlankLocals DEF Locals, NoLocals
  <1>3. /\ pc' = [pc EXCEPT ![r] = "save"] /\ loc' = [loc EXCEPT ![r] = locals]
        /\ UNCHANGED <<doc, changes, lastId>>
    BY DEF Edit
  <1> HIDE DEF locals
  <1>4. TypeOK'
    BY <1>1, <1>2, <1>3 DEF TypeOK
  <1>5. Prepared' /\ Drawn' /\ NotDrawn'
    BY <1>1, <1>3 DEF IInv, TypeOK, Prepared, Drawn, NotDrawn
  <1>6. EditsKeepStage'
    BY <1>1, <1>2, <1>3 DEF IInv, TypeOK, EditsKeepStage
  <1>7. EntriesAreLegal' /\ StageIsRecorded'
    BY <1>3 DEF IInv, EntriesAreLegal, StageIsRecorded, History
  <1> QED
    BY <1>4, <1>5, <1>6, <1>7 DEF IInv

(* A request that ends, and what its end leaves of the others. *)
LEMMA FinishOthers ==
    ASSUME IInv, NEW r \in Requests, Finish(r)
    PROVE  /\ pc' \in [Requests -> {"idle", "change_check", "flush", "commit", "save"}]
           /\ loc' \in [Requests -> Locals]
           /\ pc'[r] = "idle"
           /\ \A s \in Requests \ {r} : pc'[s] = pc[s] /\ loc'[s] = loc[s]
  BY BlankLocals DEF IInv, TypeOK, Finish

LEMMA EndInv ==
    ASSUME IInv, NEW r \in Requests, Finish(r), UNCHANGED <<doc, changes, lastId>>
    PROVE  IInv'
  <1>1. TypeOK'
    BY FinishOthers DEF IInv, TypeOK
  <1>2. Prepared' /\ EditsKeepStage' /\ Drawn' /\ NotDrawn'
    BY FinishOthers DEF IInv, Prepared, EditsKeepStage, Drawn, NotDrawn
  <1>3. EntriesAreLegal' /\ StageIsRecorded'
    BY DEF IInv, EntriesAreLegal, StageIsRecorded, History
  <1> QED
    BY <1>1, <1>2, <1>3 DEF IInv

-----------------------------------------------------------------------------
(* The actions *)

LEMMA ChangeLoadInv ==
    ASSUME IInv, NEW r \in Requests, NEW stage \in Asked, NEW day \in Days, NEW note \in BOOLEAN,
           ChangeLoad(r, stage, day, note)
    PROVE  IInv'
  <1>1. PICK kind \in Kinds :
            /\ stage \in AllowedNext(kind, doc.stage)
            /\ IsReferralBack(kind, doc.stage, stage) => note
            /\ Request(r, "change_check", kind, stage, day, note, FALSE)
    BY DEF ChangeLoad
  <1>2. stage \in AllStages(kind)
    BY <1>1 DEF AllowedNext
  <1>3. LegalEntry([stage |-> stage, previous |-> doc.stage, on |-> day, note |-> note,
                    correction |-> FALSE])
    BY <1>1 DEF LegalEntry
  <1> QED
    BY <1>1, <1>2, <1>3, RequestInv

LEMMA CorrectLoadInv ==
    ASSUME IInv, NEW r \in Requests, NEW stage \in Asked, NEW day \in Days, CorrectLoad(r, stage, day)
    PROVE  IInv'
  <1>1. PICK kind \in Kinds :
            stage \in AllStages(kind) /\ Request(r, "flush", kind, stage, day, TRUE, TRUE)
    BY DEF CorrectLoad
  <1>2. LegalEntry([stage |-> stage, previous |-> doc.stage, on |-> day, note |-> TRUE,
                    correction |-> TRUE])
    BY DEF LegalEntry
  <1> QED
    BY <1>1, <1>2, RequestInv

LEMMA ChangeCheckInv ==
    ASSUME IInv, NEW r \in Requests, ChangeCheck(r)
    PROVE  IInv'
  <1>1. CASE Finish(r)
    BY <1>1, EndInv DEF ChangeCheck
  <1>2. CASE Goto(r, "flush")
    <2>1. pc[r] = "change_check" /\ pc' = [pc EXCEPT ![r] = "flush"] /\ UNCHANGED <<doc, changes, lastId, loc>>
      BY <1>2 DEF ChangeCheck, Goto
    <2>2. TypeOK' /\ Prepared' /\ EditsKeepStage' /\ Drawn' /\ NotDrawn'
      BY <2>1 DEF IInv, TypeOK, Prepared, EditsKeepStage, Drawn, NotDrawn
    <2>3. EntriesAreLegal' /\ StageIsRecorded'
      BY <2>1 DEF IInv, EntriesAreLegal, StageIsRecorded, History
    <2> QED
      BY <2>2, <2>3 DEF IInv
  <1> QED
    BY <1>1, <1>2 DEF ChangeCheck

(* The id drawn is past every other. *)
LEMMA FlushInv ==
    ASSUME IInv, NEW r \in Requests, Flush(r)
    PROVE  IInv'
  <1>1. /\ pc[r] = "flush" /\ lastId < MaxChanges /\ lastId' = lastId + 1
        /\ pc' = [pc EXCEPT ![r] = "commit"] /\ loc' = [loc EXCEPT ![r].id = lastId + 1]
        /\ UNCHANGED <<doc, changes>>
    BY DEF Flush
  <1>2. TypeOK /\ lastId \in Nat /\ MaxChanges \in Nat
    BY BoundsAssumption DEF IInv, TypeOK
  <1>3. loc[r] \in Locals /\ lastId + 1 \in Ids
    BY <1>1, <1>2 DEF TypeOK, Ids
  <1>4. loc'[r] = [loc[r] EXCEPT !.id = lastId + 1]
    BY <1>1, <1>2 DEF TypeOK
  <1>5. /\ loc'[r] \in Locals /\ loc'[r].id = lastId + 1
        /\ loc'[r].entry = loc[r].entry /\ loc'[r].new = loc[r].new
    BY <1>3, <1>4 DEF Locals
  <1>6. \A s \in Requests \ {r} : pc'[s] = pc[s] /\ loc'[s] = loc[s]
    BY <1>1, <1>2 DEF TypeOK
  <1>7. pc'[r] = "commit"
    BY <1>1, <1>2 DEF TypeOK
  <1>8. TypeOK'
    <2>1. loc' = [loc EXCEPT ![r] = loc'[r]]
      BY <1>1, <1>4
    <2> QED
      BY <1>1, <1>2, <1>3, <1>5, <2>1 DEF TypeOK
  <1>9. Prepared' /\ EditsKeepStage'
    BY <1>1, <1>5, <1>6, <1>7 DEF IInv, Prepared, EditsKeepStage
  <1>10. Drawn'
    <2>1. ASSUME NEW s \in Requests \ {r}, pc'[s] = "commit"
          PROVE  loc'[s].id \in 1 .. lastId /\ changes'[loc'[s].id] = NoChange
      BY <2>1, <1>1, <1>6 DEF IInv, Drawn
    <2>2. changes'[lastId + 1] = NoChange
      BY <1>1, <1>2, <1>3 DEF IInv, NotDrawn
    <2>3. \A s \in Requests \ {r}, t \in Requests \ {r} :
              s # t /\ pc'[s] = "commit" /\ pc'[t] = "commit" => loc'[t].id # loc'[s].id
      BY <1>6 DEF IInv, Drawn
    <2>4. \A s \in Requests \ {r} : pc'[s] = "commit" => loc'[s].id # lastId + 1
      BY <2>1, <1>2
    <2> QED
      BY <2>1, <2>2, <2>3, <2>4, <1>1, <1>2, <1>5, <1>7 DEF Drawn
  <1>11. NotDrawn'
    BY <1>1, <1>2 DEF IInv, NotDrawn, Ids
  <1>12. EntriesAreLegal' /\ StageIsRecorded'
    BY <1>1 DEF IInv, EntriesAreLegal, StageIsRecorded, History
  <1> QED
    BY <1>8, <1>9, <1>10, <1>11, <1>12 DEF IInv

(* The commit: the entry takes its place and the stage is the one it       *)
(* names, or another request's, which has its entry.                       *)
LEMMA CommitInv ==
    ASSUME IInv, NEW r \in Requests, Commit(r)
    PROVE  IInv'
  <1> DEFINE id == loc[r].id
             entry == loc[r].entry
  <1>1. /\ pc[r] = "commit" /\ changes' = [changes EXCEPT ![id] = entry]
        /\ doc' = Written(loc[r].snap, loc[r].new) /\ Finish(r) /\ lastId' = lastId
    BY DEF Commit
  <1>2. TypeOK /\ loc[r] \in Locals /\ doc \in Documents /\ lastId \in Nat /\ MaxChanges \in Nat
    BY BoundsAssumption DEF IInv, TypeOK
  <1>3. id \in Ids /\ id =< lastId /\ changes[id] = NoChange
    BY <1>1, <1>2 DEF IInv, Drawn, TypeOK, Ids
  <1>4. entry \in Entries /\ LegalEntry(entry) /\ loc[r].new.stage = entry.stage
    BY <1>1 DEF IInv, Prepared
  <1>5. /\ doc' \in Documents
        /\ doc'.stage = IF loc[r].new.stage # loc[r].snap.stage THEN loc[r].new.stage ELSE doc.stage
    BY <1>1, <1>2, WrittenRow DEF Locals
  <1> HIDE DEF id, entry
  <1>6. /\ changes'[id] = entry
        /\ \A other \in Ids \ {id} : changes'[other] = changes[other]
    BY <1>1, <1>2, <1>3 DEF TypeOK
  <1>7. TypeOK'
    <2>1. changes' \in [Ids -> Entries \cup {NoChange}]
      BY <1>1, <1>2, <1>4 DEF TypeOK
    <2> QED
      BY <1>1, <1>2, <1>5, <2>1, FinishOthers DEF TypeOK
  <1>8. Prepared' /\ EditsKeepStage'
    BY <1>1, FinishOthers DEF IInv, Prepared, EditsKeepStage
  <1>9. Drawn'
    <2> SUFFICES ASSUME NEW s \in Requests, pc'[s] = "commit"
                 PROVE  /\ loc'[s].id \in 1 .. lastId' /\ changes'[loc'[s].id] = NoChange
                        /\ \A other \in Requests \ {s} :
                              pc'[other] = "commit" => loc'[other].id # loc'[s].id
      BY DEF Drawn
    <2>1. s # r /\ pc[s] = "commit" /\ loc'[s] = loc[s]
      BY <1>1, FinishOthers
    <2>2. loc[s].id \in 1 .. lastId /\ changes[loc[s].id] = NoChange /\ loc[s].id # id
      BY <1>1, <2>1 DEF IInv, Drawn, id
    <2>3. loc[s].id \in Ids
      BY <2>2, <1>2 DEF TypeOK, Ids
    <2>4. \A other \in Requests \ {s} : pc'[other] = "commit" => loc'[other].id # loc[s].id
      BY <1>1, <2>1, FinishOthers DEF IInv, Drawn
    <2> QED
      BY <1>1, <1>6, <2>1, <2>2, <2>3, <2>4
  <1>10. NotDrawn'
    BY <1>1, <1>2, <1>3, <1>6 DEF IInv, NotDrawn, Ids
  <1>11. id \in History' /\ \A other \in History : other \in History' /\ changes'[other] = changes[other]
    BY <1>3, <1>4, <1>6, BlankEntry DEF History
  <1>12. EntriesAreLegal'
    <2> SUFFICES ASSUME NEW h \in History'
                 PROVE  (h = 1 /\ changes'[h].previous = NoStage) \/ LegalEntry(changes'[h])
      BY DEF EntriesAreLegal, LegalEntry
    <2>1. CASE h = id
      BY <2>1, <1>4, <1>6
    <2>2. CASE h # id
      BY <2>2, <1>6 DEF IInv, EntriesAreLegal, LegalEntry, History
    <2> QED
      BY <2>1, <2>2
  <1>13. StageIsRecorded'
    <2>1. CASE doc'.stage = loc[r].new.stage
      BY <2>1, <1>4, <1>6, <1>11 DEF StageIsRecorded
    <2>2. CASE doc'.stage = doc.stage
      BY <2>2, <1>11 DEF IInv, StageIsRecorded
    <2> QED
      BY <1>5, <2>1, <2>2
  <1> QED
    BY <1>7, <1>8, <1>9, <1>10, <1>12, <1>13 DEF IInv

LEMMA SaveInv ==
    ASSUME IInv, NEW r \in Requests, Save(r)
    PROVE  IInv'
  <1>1. /\ pc[r] = "save" /\ doc' = Written(loc[r].snap, loc[r].new) /\ Finish(r)
        /\ UNCHANGED <<changes, lastId>>
    BY DEF Save
  <1>2. loc[r] \in Locals /\ doc \in Documents
    BY DEF IInv, TypeOK
  <1>3. doc' \in Documents /\ doc'.stage = doc.stage
    BY <1>1, <1>2, WrittenRow DEF IInv, EditsKeepStage, Locals
  <1>4. TypeOK'
    BY <1>1, <1>3, FinishOthers DEF IInv, TypeOK
  <1>5. Prepared' /\ EditsKeepStage' /\ Drawn' /\ NotDrawn'
    BY <1>1, FinishOthers DEF IInv, Prepared, EditsKeepStage, Drawn, NotDrawn
  <1>6. EntriesAreLegal' /\ StageIsRecorded'
    BY <1>1, <1>3 DEF IInv, EntriesAreLegal, StageIsRecorded, History
  <1> QED
    BY <1>4, <1>5, <1>6 DEF IInv

-----------------------------------------------------------------------------
LEMMA NextInv == IInv /\ [Next]_vars => IInv'
  <1> SUFFICES ASSUME IInv, [Next]_vars PROVE IInv'
    OBVIOUS
  <1>1. ASSUME NEW r \in Requests, NEW stage \in Asked, NEW day \in Days, NEW note \in BOOLEAN,
               ChangeLoad(r, stage, day, note)
        PROVE  IInv'
    BY <1>1, ChangeLoadInv
  <1>2. ASSUME NEW r \in Requests, NEW stage \in Asked, NEW day \in Days, CorrectLoad(r, stage, day)
        PROVE  IInv'
    BY <1>2, CorrectLoadInv
  <1>3. ASSUME NEW r \in Requests, NEW type \in Types, NEW number \in BOOLEAN, EditLoad(r, type, number)
        PROVE  IInv'
    <2>1. /\ [doc EXCEPT !.type = type, !.number = number] \in Documents
          /\ [doc EXCEPT !.type = type, !.number = number].stage = doc.stage
      BY AskedAssumption DEF IInv, TypeOK, Documents
    <2> QED
      BY <1>3, <2>1, EditInv DEF EditLoad
  <1>4. ASSUME NEW r \in Requests, ArchiveLoad(r) \/ RestoreLoad(r) PROVE IInv'
    <2>1. \A archived \in BOOLEAN : /\ [doc EXCEPT !.archived = archived] \in Documents
                                    /\ [doc EXCEPT !.archived = archived].stage = doc.stage
      BY DEF IInv, TypeOK, Documents
    <2> QED
      BY <1>4, <2>1, EditInv DEF ArchiveLoad, RestoreLoad
  <1>5. ASSUME NEW r \in Requests, ChangeCheck(r) \/ Flush(r) \/ Commit(r) \/ Save(r) \/ Rollback(r)
        PROVE  IInv'
    BY <1>5, ChangeCheckInv, FlushInv, CommitInv, SaveInv, EndInv DEF Rollback
  <1>6. CASE UNCHANGED vars
    <2>1. UNCHANGED <<doc, changes, lastId, pc, loc>>
      BY <1>6 DEF vars
    <2>2. TypeOK' /\ Prepared' /\ EditsKeepStage' /\ Drawn' /\ NotDrawn'
      BY <2>1 DEF IInv, TypeOK, Prepared, EditsKeepStage, Drawn, NotDrawn
    <2>3. EntriesAreLegal' /\ StageIsRecorded'
      BY <2>1 DEF IInv, EntriesAreLegal, StageIsRecorded, History
    <2> QED
      BY <2>2, <2>3 DEF IInv
  <1> QED
    BY <1>1, <1>2, <1>3, <1>4, <1>5, <1>6 DEF Next

(* The inductive invariant holds of every run of change_stage,             *)
(* correct_stage, update_document, archive and restore.                    *)
THEOREM StagesInvariance == Spec => []IInv
  BY InitInv, NextInv, PTL DEF Spec

(* The columns of the document and of its entries keep their types.        *)
THEOREM StagesTypeCorrect == Spec => []TypeOK
  <1>1. IInv => TypeOK
    BY DEF IInv
  <1> QED
    BY <1>1, StagesInvariance, PTL

(* Every entry is the registration, a correction with its reason, or a     *)
(* move change_stage allows from the stage the entry names.                *)
THEOREM HistoryIsLegal == Spec => []EntriesAreLegal
  <1>1. IInv => EntriesAreLegal
    BY DEF IInv
  <1> QED
    BY <1>1, StagesInvariance, PTL

(* Whatever requests run beside each other, the document is at a stage its *)
(* history has an entry for.                                               *)
THEOREM NoStageUnrecorded == Spec => []StageIsRecorded
  <1>1. IInv => StageIsRecorded
    BY DEF IInv
  <1> QED
    BY <1>1, StagesInvariance, PTL

-----------------------------------------------------------------------------
(* One request at a time: none loads the document before the one before it *)
(* ended, so what a request read (Stands) is what it writes on.            *)

(* A set of numbers up to n has a last one. *)
LEMMA LastExists ==
    ASSUME NEW n \in Nat, NEW S \in SUBSET (1 .. n), S # {}
    PROVE  \E m \in S : \A x \in S : x =< m
  <1> DEFINE T == {n - x : x \in S}
             R == OpToRel(<, Nat)
  <1>1. T \subseteq Nat /\ T # {}
    <2>1. \A x \in S : x \in Int /\ n - x \in Nat
      OBVIOUS
    <2> QED
      BY <2>1
  <1>2. IsWellFoundedOn(R, Nat)
    BY NatLessThanWellFounded, Zenon
  <1>3. \A a, b \in Nat : a < b => <<a, b>> \in R
    BY Zenon DEF OpToRel
  <1> HIDE DEF R
  <1>4. PICK t \in T : \A u \in T : ~ (<<u, t>> \in R)
    <2> HIDE DEF T
    <2> QED
      BY <1>1, <1>2, WFMin
  <1>5. \A u \in T : ~(u < t)
    BY <1>1, <1>3, <1>4
  <1>6. PICK m \in S : t = n - m
    OBVIOUS
  <1>7. \A x \in S : n - x \in T
    OBVIOUS
  <1>8. \A x \in S : ~(n - x < n - m)
    BY <1>5, <1>6, <1>7
  <1>9. \A x \in S : x \in Int
    OBVIOUS
  <1> HIDE DEF T
  <1> QED
    BY <1>8, <1>9

IsLast(m, S) == m \in S /\ \A x \in S : x =< m

(* LatestIsStage and HistoryChains, said of every last entry. *)
ChainIsWhole ==
    /\ History = {} => doc.stage = NoStage
    /\ \A id \in History : IsLatest(id) => doc.stage = changes[id].stage
    /\ \A id \in History : LET before == {other \in History : other < id}
                           IN  /\ before = {} => changes[id].previous = NoStage
                               /\ \A m \in before : IsLast(m, before) => changes[id].previous = changes[m].stage

(* Dates grow up to an entry unless a correction was made on the way.      *)
Sorted ==
    \A e, l \in History :
        e < l /\ (\A id \in History : e < id /\ id =< l => ~changes[id].correction)
        => changes[e].on =< changes[l].on

(* What a stage change or correction decided on the row d. *)
Decided(new, entry, d) ==
    /\ MeasureKind(d.type) \in Kinds
    /\ entry.previous = d.stage
    /\ new = [d EXCEPT !.stage = entry.stage,
                       !.number = @ \/ EntersNumber(d, MeasureKind(d.type), entry.stage)]
    /\ ~entry.correction => ~d.archived

(* What a request under way read still stands. *)
Stands(r) ==
    /\ pc[r] # "idle" => loc[r].snap = doc
    /\ pc[r] \in {"change_check", "flush", "commit"} => Decided(loc[r].new, loc[r].entry, doc)
    /\ pc[r] \in {"flush", "commit"} /\ ~loc[r].entry.correction =>
        \A id \in History : IsLatest(id) => changes[id].on =< loc[r].entry.on
    /\ pc[r] = "commit" => loc[r].id = lastId

SerialInv == IInv /\ ChainIsWhole /\ Sorted /\ \A r \in Requests : Stands(r)

LEMMA IdsAreNumbers == \A id \in Ids : id \in Nat /\ id >= 1 /\ id =< MaxChanges
  BY BoundsAssumption DEF Ids

LEMMA SerialInit == Init => SerialInv
  <1> SUFFICES ASSUME Init PROVE SerialInv
    OBVIOUS
  <1>1. IInv
    BY InitInv
  <1>2. \A r \in Requests : Stands(r)
    BY DEF Init, Stands
  <1>3. PICK day \in Days : changes = [id \in Ids |->
              IF id =< lastId
              THEN [stage |-> doc.stage, previous |-> NoStage, on |-> day, note |-> TRUE, correction |-> FALSE]
              ELSE NoChange]
    BY DEF Init
  <1>4. lastId \in {0, 1}
    BY DEF Init
  <1>5. History \subseteq {1} /\ (lastId = 0 => History = {})
    <2>1. \A id \in History : id \in Ids /\ id =< lastId
      BY <1>3 DEF History
    <2>2. \A id \in History : id = 1 /\ lastId # 0
      BY <1>4, <2>1, IdsAreNumbers
    <2> QED
      BY <2>2
  <1>6. \A id \in History : changes[id].stage = doc.stage /\ changes[id].previous = NoStage
    BY <1>3, <1>4, <1>5 DEF History
  <1>7. History = {} => doc.stage = NoStage
    <2>1. 1 \in Ids
      BY BoundsAssumption DEF Ids
    <2>2. lastId = 1 => changes[1].on = day
      BY <1>3, <2>1
    <2>3. lastId = 1 => 1 \in History
      BY <2>1, <2>2 DEF History, NoChange, Days
    <2> QED
      BY <1>4, <2>3 DEF Init
  <1>8. ChainIsWhole
    BY <1>5, <1>6, <1>7 DEF ChainIsWhole, IsLast
  <1>9. Sorted
    <2>1. \A e, l \in History : ~(e < l)
      <3>1. \A e \in History : e = 1
        BY <1>5
      <3> QED
        BY <3>1
    <2> QED
      BY <2>1 DEF Sorted
  <1> QED
    BY <1>1, <1>2, <1>8, <1>9 DEF SerialInv

(* The history and the row stay as they are. *)
LEMMA Unmoved ==
    ASSUME ChainIsWhole, Sorted, UNCHANGED <<doc, changes>>
    PROVE  ChainIsWhole' /\ Sorted'
  <1>1. History' = History
    BY DEF History
  <1>2. \A id : IsLatest(id)' <=> IsLatest(id)
    BY <1>1 DEF IsLatest
  <1>3. ChainIsWhole'
    BY <1>1, <1>2 DEF ChainIsWhole, IsLast
  <1>4. Sorted'
    BY <1>1 DEF Sorted
  <1> QED
    BY <1>3, <1>4

(* A request that does not move keeps what it read. *)
LEMMA StillStands ==
    ASSUME NEW s \in Requests, Stands(s), UNCHANGED <<doc, changes, lastId>>,
           pc'[s] = pc[s], loc'[s] = loc[s]
    PROVE  Stands(s)'
  <1>1. History' = History
    BY DEF History
  <1>2. \A id : IsLatest(id)' <=> IsLatest(id)
    BY <1>1 DEF IsLatest
  <1> QED
    BY <1>1, <1>2 DEF Stands

LEMMA StandsIdle ==
    ASSUME NEW s \in Requests, pc'[s] = "idle"
    PROVE  Stands(s)'
  BY DEF Stands


LEMMA WrittenWhole ==
    ASSUME doc \in Documents, NEW new \in Documents
    PROVE  Written(doc, new) = new
  BY DEF Written, Documents

(* The moves and actions, as above. *)

LEMMA RequestSerial ==
    ASSUME SerialInv, IInv', NEW r \in Requests, NEW point \in {"change_check", "flush"}, NEW stage, NEW day,
           NEW note, NEW correction \in BOOLEAN,
           MeasureKind(doc.type) \in Kinds,
           point = "flush" => correction,
           ~correction => ~doc.archived,
           Request(r, point, MeasureKind(doc.type), stage, day, note, correction)
    PROVE  SerialInv'
  <1> DEFINE kind == MeasureKind(doc.type)
             entry == [stage |-> stage, previous |-> doc.stage, on |-> day, note |-> note,
                       correction |-> correction]
             new == [doc EXCEPT !.stage = stage, !.number = @ \/ EntersNumber(doc, kind, stage)]
             locals == [snap |-> doc, new |-> new, entry |-> entry, id |-> 0]
  <1>1. /\ pc' = [pc EXCEPT ![r] = point] /\ loc' = [loc EXCEPT ![r] = locals]
        /\ UNCHANGED <<doc, changes, lastId>>
    BY DEF Request
  <1>2. pc \in [Requests -> {"idle", "change_check", "flush", "commit", "save"}] /\ loc \in [Requests -> Locals]
    BY DEF SerialInv, IInv, TypeOK
  <1>3. /\ locals.snap = doc /\ locals.new = new /\ locals.entry = entry
        /\ entry.stage = stage /\ entry.previous = doc.stage /\ entry.correction = correction
    OBVIOUS
  <1> HIDE DEF locals, entry
  <1>4. Stands(r)'
    <2>1. pc'[r] = point /\ loc'[r] = locals
      BY <1>1, <1>2
    <2>2. Decided(new, entry, doc)
      BY <1>3 DEF Decided
    <2> HIDE DEF new
    <2> QED
      BY <1>1, <1>3, <2>1, <2>2 DEF Stands
  <1>5. ASSUME NEW s \in Requests, s # r PROVE Stands(s)'
    <2>1. pc'[s] = pc[s] /\ loc'[s] = loc[s]
      BY <1>1, <1>2, <1>5
    <2> QED
      BY <1>1, <2>1, StillStands DEF SerialInv
  <1> QED
    BY <1>1, <1>4, <1>5, Unmoved DEF SerialInv

LEMMA EditSerial ==
    ASSUME SerialInv, IInv', NEW r \in Requests, NEW new, Edit(r, new)
    PROVE  SerialInv'
  <1> DEFINE locals == [NoLocals EXCEPT !.snap = doc, !.new = new]
  <1>1. /\ pc' = [pc EXCEPT ![r] = "save"] /\ loc' = [loc EXCEPT ![r] = locals]
        /\ UNCHANGED <<doc, changes, lastId>>
    BY DEF Edit
  <1>2. pc \in [Requests -> {"idle", "change_check", "flush", "commit", "save"}] /\ loc \in [Requests -> Locals]
    BY DEF SerialInv, IInv, TypeOK
  <1>3. locals.snap = doc
    BY DEF NoLocals
  <1> HIDE DEF locals
  <1>4. Stands(r)'
    <2>1. pc'[r] = "save" /\ loc'[r] = locals
      BY <1>1, <1>2
    <2> QED
      BY <1>1, <1>3, <2>1 DEF Stands
  <1>5. ASSUME NEW s \in Requests, s # r PROVE Stands(s)'
    <2>1. pc'[s] = pc[s] /\ loc'[s] = loc[s]
      BY <1>1, <1>2, <1>5
    <2> QED
      BY <1>1, <2>1, StillStands DEF SerialInv
  <1> QED
    BY <1>1, <1>4, <1>5, Unmoved DEF SerialInv

LEMMA EndSerial ==
    ASSUME SerialInv, IInv', NEW r \in Requests, Finish(r), UNCHANGED <<doc, changes, lastId>>
    PROVE  SerialInv'
  <1>1. ASSUME NEW s \in Requests PROVE Stands(s)'
    <2>1. CASE s = r
      BY <2>1, FinishOthers, StandsIdle DEF SerialInv
    <2>2. CASE s # r
      BY <2>2, FinishOthers, StillStands DEF SerialInv
    <2> QED
      BY <2>1, <2>2
  <1> QED
    BY <1>1, Unmoved DEF SerialInv

LEMMA CheckSerial ==
    ASSUME SerialInv, IInv', NEW r \in Requests, ChangeCheck(r)
    PROVE  SerialInv'
  <1>1. CASE Finish(r)
    BY <1>1, EndSerial DEF ChangeCheck
  <1>2. CASE ~Finish(r)
    <2>1. /\ pc[r] = "change_check" /\ pc' = [pc EXCEPT ![r] = "flush"]
          /\ UNCHANGED <<doc, changes, lastId, loc>>
          /\ \A id \in Ids : IsLatest(id) => changes[id].on =< loc[r].entry.on
      BY <1>2 DEF ChangeCheck, Goto
    <2>2. pc \in [Requests -> {"idle", "change_check", "flush", "commit", "save"}]
      BY DEF SerialInv, IInv, TypeOK
    <2>3. History' = History
      BY <2>1 DEF History
    <2>4. \A id : IsLatest(id)' <=> IsLatest(id)
      BY <2>3 DEF IsLatest
    <2>5. Stands(r)'
      <3>1. pc'[r] = "flush" /\ loc'[r] = loc[r]
        BY <2>1, <2>2
      <3>2. \A id \in History : id \in Ids
        BY DEF History
      <3> QED
        BY <2>1, <2>3, <2>4, <3>1, <3>2 DEF SerialInv, Stands
    <2>6. ASSUME NEW s \in Requests, s # r PROVE Stands(s)'
      <3>1. pc'[s] = pc[s] /\ loc'[s] = loc[s]
        BY <2>1, <2>2, <2>6
      <3> QED
        BY <2>1, <3>1, StillStands DEF SerialInv
    <2> QED
      BY <2>1, <2>5, <2>6, Unmoved DEF SerialInv
  <1> QED
    BY <1>1, <1>2

(* The other requests are at rest while one is under way. *)
LEMMA OthersRest ==
    ASSUME NoOverlap, NEW r \in Requests, pc[r] # "idle", NEW s \in Requests, s # r
    PROVE  pc[s] = "idle"
  BY DEF NoOverlap

LEMMA FlushSerial ==
    ASSUME SerialInv, IInv', NoOverlap, NEW r \in Requests, Flush(r)
    PROVE  SerialInv'
  <1>1. /\ pc[r] = "flush" /\ lastId' = lastId + 1
        /\ pc' = [pc EXCEPT ![r] = "commit"] /\ loc' = [loc EXCEPT ![r].id = lastId + 1]
        /\ UNCHANGED <<doc, changes>>
    BY DEF Flush
  <1>2. pc \in [Requests -> {"idle", "change_check", "flush", "commit", "save"}] /\ loc \in [Requests -> Locals]
    BY DEF SerialInv, IInv, TypeOK
  <1>3. pc'[r] = "commit" /\ loc'[r] = [loc[r] EXCEPT !.id = lastId + 1]
    BY <1>1, <1>2
  <1>4. /\ loc'[r].id = lastId + 1 /\ loc'[r].snap = loc[r].snap
        /\ loc'[r].new = loc[r].new /\ loc'[r].entry = loc[r].entry
    BY <1>2, <1>3 DEF Locals
  <1>5. History' = History
    BY <1>1 DEF History
  <1>6. \A id : IsLatest(id)' <=> IsLatest(id)
    BY <1>5 DEF IsLatest
  <1>7. Stands(r)'
    BY <1>1, <1>3, <1>4, <1>5, <1>6 DEF SerialInv, Stands
  <1>8. ASSUME NEW s \in Requests, s # r PROVE Stands(s)'
    <2>1. pc'[s] = "idle"
      BY <1>1, <1>2, <1>8, OthersRest
    <2> QED
      BY <2>1, StandsIdle
  <1> QED
    BY <1>1, <1>7, <1>8, Unmoved DEF SerialInv

(* The commit writes the row its request decided on, and an entry past     *)
(* every other.                                                            *)
LEMMA CommitSerial ==
    ASSUME SerialInv, IInv', NoOverlap, NEW r \in Requests, Commit(r)
    PROVE  SerialInv'
  <1> DEFINE entry == loc[r].entry
             new == loc[r].new
  <1>1. /\ pc[r] = "commit" /\ changes' = [changes EXCEPT ![loc[r].id] = entry]
        /\ doc' = Written(loc[r].snap, new) /\ Finish(r) /\ lastId' = lastId
    BY DEF Commit
  <1>2. /\ IInv /\ TypeOK /\ loc[r] \in Locals /\ doc \in Documents /\ lastId \in Nat
        /\ changes \in [Ids -> Entries \cup {NoChange}]
    BY BoundsAssumption DEF SerialInv, IInv, TypeOK
  <1>3. /\ loc[r].id = lastId /\ loc[r].snap = doc /\ Decided(new, entry, doc)
        /\ ~entry.correction => \A id \in History : IsLatest(id) => changes[id].on =< entry.on
    BY <1>1 DEF SerialInv, Stands
  <1>4. lastId \in Ids /\ changes[lastId] = NoChange
    BY <1>1, <1>2, <1>3 DEF IInv, Drawn, TypeOK, Ids
  <1>5. entry \in Entries /\ new.stage = entry.stage /\ new \in Documents
    BY <1>1, <1>2 DEF IInv, Prepared, Locals
  <1>6. doc' = new
    BY <1>1, <1>2, <1>3, <1>5, WrittenWhole
  <1>7. entry.previous = doc.stage
    BY <1>3 DEF Decided
  <1> HIDE DEF entry, new
  <1>8. /\ changes'[lastId] = entry
        /\ \A id \in Ids \ {lastId} : changes'[id] = changes[id]
    BY <1>1, <1>2, <1>3, <1>4
  <1>9. /\ \A id \in History : id \in Ids /\ id \in Nat /\ id < lastId /\ changes[id] \in Entries
    <2> SUFFICES ASSUME NEW id \in History PROVE id \in Ids /\ id \in Nat /\ id < lastId /\ changes[id] \in Entries
      OBVIOUS
    <2>1. id \in Ids /\ changes[id] # NoChange /\ changes[id] \in Entries
      BY <1>2 DEF History
    <2>2. ~(id > lastId) /\ id # lastId
      BY <1>2, <1>4, <2>1 DEF IInv, NotDrawn
    <2> QED
      BY <1>2, <2>1, <2>2, IdsAreNumbers
  <1>10. History' = History \cup {lastId}
    BY <1>4, <1>5, <1>8, <1>9, BlankEntry DEF History
  <1>11. \A id \in History : changes'[id] = changes[id]
    BY <1>8, <1>9
  <1>12. History # {} => \E m \in History : IsLatest(m)
    <2>1. ASSUME History # {} PROVE \E m \in History : \A x \in History : x =< m
      <3>1. History \in SUBSET (1 .. MaxChanges) /\ MaxChanges \in Nat
        BY BoundsAssumption DEF History, Ids
      <3> HIDE DEF History
      <3> QED
        BY <2>1, <3>1, LastExists
    <2> QED
      BY <2>1 DEF IsLatest
  <1>13. ChainIsWhole'
    <2>1. ASSUME NEW id \in History', IsLatest(id)' PROVE doc'.stage = changes'[id].stage
      <3>1. lastId =< id
        BY <1>10, <2>1 DEF IsLatest
      <3>2. id = lastId
        BY <1>2, <1>9, <1>10, <2>1, <3>1
      <3> QED
        BY <1>5, <1>6, <1>8, <3>2
    <2>2. ASSUME NEW id \in History
          PROVE  LET before == {other \in History' : other < id}
                 IN  /\ before = {} => changes'[id].previous = NoStage
                     /\ \A m \in before : IsLast(m, before) => changes'[id].previous = changes'[m].stage
      <3> DEFINE before == {other \in History : other < id}
      <3>1. {other \in History' : other < id} = before
        BY <1>9, <1>10, <1>2
      <3>2. /\ before = {} => changes[id].previous = NoStage
            /\ \A m \in before : IsLast(m, before) => changes[id].previous = changes[m].stage
        BY DEF SerialInv, ChainIsWhole
      <3>3. \A m \in before : m \in History
        OBVIOUS
      <3> HIDE DEF before
      <3> QED
        BY <1>11, <3>1, <3>2, <3>3
    <2>3. LET before == {other \in History' : other < lastId}
          IN  /\ before = {} => changes'[lastId].previous = NoStage
              /\ \A m \in before : IsLast(m, before) => changes'[lastId].previous = changes'[m].stage
      <3>1. {other \in History' : other < lastId} = History
        BY <1>2, <1>9, <1>10
      <3>2. History = {} => doc.stage = NoStage
        BY DEF SerialInv, ChainIsWhole
      <3>3. ASSUME NEW m \in History, IsLast(m, History) PROVE doc.stage = changes[m].stage
        BY <3>3 DEF SerialInv, ChainIsWhole, IsLast, IsLatest
      <3> QED
        BY <1>7, <1>8, <1>11, <3>1, <3>2, <3>3
    <2>4. History' # {}
      BY <1>10
    <2>5. \A id \in History' : LET before == {other \in History' : other < id}
                               IN  /\ before = {} => changes'[id].previous = NoStage
                                   /\ \A m \in before : IsLast(m, before) => changes'[id].previous = changes'[m].stage
      BY <1>10, <2>2, <2>3
    <2> QED
      BY <2>1, <2>4, <2>5 DEF ChainIsWhole, IsLast
  <1>14. Sorted'
    <2> SUFFICES ASSUME NEW e \in History', NEW l \in History', e < l,
                        \A id \in History' : e < id /\ id =< l => ~changes'[id].correction
                 PROVE  changes'[e].on =< changes'[l].on
      BY DEF Sorted
    <2>1. e \in History
      BY <1>2, <1>9, <1>10
    <2>2. CASE l \in History
      BY <2>1, <2>2, <1>10, <1>11 DEF SerialInv, Sorted
    <2>3. CASE l = lastId
      <3>1. PICK m \in History : IsLatest(m)
        BY <1>12, <2>1
      <3>2. changes[m].on =< entry.on
        <4>1. ~entry.correction
          BY <1>8, <1>9, <1>2, <1>10, <2>1, <2>3
        <4> QED
          BY <1>3, <3>1, <4>1
      <3>3. e =< m /\ changes[e].on \in Int /\ changes[m].on \in Int /\ entry.on \in Int
        BY <1>5, <1>9, <2>1, <3>1 DEF IsLatest, Entries, Days
      <3>4. changes[e].on =< changes[m].on
        <4>1. CASE e = m
          BY <3>3, <4>1
        <4>2. CASE e # m
          <5>1. e < m
            BY <1>9, <2>1, <3>3, <4>2
          <5>2. \A id \in History : e < id /\ id =< m => ~changes[id].correction
            BY <1>9, <1>10, <1>11, <1>2, <2>3
          <5> QED
            BY <2>1, <5>1, <5>2 DEF SerialInv, Sorted
        <4> QED
          BY <4>1, <4>2
      <3> QED
        BY <1>8, <1>11, <2>1, <2>3, <3>2, <3>3, <3>4
    <2> QED
      BY <1>10, <2>2, <2>3
  <1>15. ASSUME NEW s \in Requests PROVE Stands(s)'
    <2>1. pc'[s] = "idle"
      BY <1>1, <1>2, OthersRest, FinishOthers
    <2> QED
      BY <2>1, StandsIdle
  <1> QED
    BY <1>13, <1>14, <1>15 DEF SerialInv

(* An edit leaves the stage as it was. *)
LEMMA SaveSerial ==
    ASSUME SerialInv, IInv', NoOverlap, NEW r \in Requests, Save(r)
    PROVE  SerialInv'
  <1>1. /\ pc[r] = "save" /\ doc' = Written(loc[r].snap, loc[r].new) /\ Finish(r)
        /\ UNCHANGED <<changes, lastId>>
    BY DEF Save
  <1>2. IInv /\ loc[r] \in Locals /\ doc \in Documents
    BY DEF SerialInv, IInv, TypeOK
  <1>3. doc'.stage = doc.stage
    BY <1>1, <1>2, WrittenRow DEF IInv, EditsKeepStage, Locals
  <1>4. History' = History
    BY <1>1 DEF History
  <1>5. \A id : IsLatest(id)' <=> IsLatest(id)
    BY <1>4 DEF IsLatest
  <1>6. ChainIsWhole' /\ Sorted'
    BY <1>1, <1>3, <1>4, <1>5 DEF SerialInv, ChainIsWhole, Sorted, IsLast
  <1>7. ASSUME NEW s \in Requests PROVE Stands(s)'
    <2>1. pc'[s] = "idle"
      BY <1>1, <1>2, OthersRest, FinishOthers
    <2> QED
      BY <2>1, StandsIdle
  <1> QED
    BY <1>6, <1>7 DEF SerialInv

-----------------------------------------------------------------------------
LEMMA SerialNext == SerialInv /\ NoOverlap /\ [Next]_vars => SerialInv'
  <1> SUFFICES ASSUME SerialInv, NoOverlap, [Next]_vars PROVE SerialInv'
    OBVIOUS
  <1>0. IInv'
    BY NextInv DEF SerialInv
  <1>1. ASSUME NEW r \in Requests, NEW stage \in Asked, NEW day \in Days, NEW note \in BOOLEAN,
               ChangeLoad(r, stage, day, note)
        PROVE  SerialInv'
    <2>1. /\ MeasureKind(doc.type) \in Kinds /\ ~doc.archived
          /\ Request(r, "change_check", MeasureKind(doc.type), stage, day, note, FALSE)
      BY <1>1 DEF ChangeLoad
    <2> QED
      BY <1>0, <2>1, RequestSerial
  <1>2. ASSUME NEW r \in Requests, NEW stage \in Asked, NEW day \in Days, CorrectLoad(r, stage, day)
        PROVE  SerialInv'
    <2>1. /\ MeasureKind(doc.type) \in Kinds
          /\ Request(r, "flush", MeasureKind(doc.type), stage, day, TRUE, TRUE)
      BY <1>2 DEF CorrectLoad
    <2> QED
      BY <1>0, <2>1, RequestSerial
  <1>3. ASSUME NEW r \in Requests, NEW type \in Types, NEW number \in BOOLEAN, EditLoad(r, type, number)
        PROVE  SerialInv'
    BY <1>0, <1>3, EditSerial DEF EditLoad
  <1>4. ASSUME NEW r \in Requests, ArchiveLoad(r) \/ RestoreLoad(r) PROVE SerialInv'
    BY <1>0, <1>4, EditSerial DEF ArchiveLoad, RestoreLoad
  <1>5. ASSUME NEW r \in Requests, ChangeCheck(r) \/ Flush(r) \/ Commit(r) \/ Save(r) \/ Rollback(r)
        PROVE  SerialInv'
    BY <1>0, <1>5, CheckSerial, FlushSerial, CommitSerial, SaveSerial, EndSerial DEF Rollback
  <1>6. CASE UNCHANGED vars
    BY <1>0, <1>6, Unmoved, StillStands DEF vars, SerialInv
  <1> QED
    BY <1>1, <1>2, <1>3, <1>4, <1>5, <1>6 DEF Next

-----------------------------------------------------------------------------
(* What follows from the invariant. *)

LEMMA LastEntry ==
    ASSUME TypeOK, NEW S \in SUBSET History, S # {}
    PROVE  \E m \in S : \A x \in S : x =< m
  <1>1. S \in SUBSET (1 .. MaxChanges) /\ MaxChanges \in Nat
    BY BoundsAssumption DEF History, Ids
  <1> QED
    BY <1>1, LastExists

LEMMA RecordHolds == SerialInv => HistoryIsRecord
  <1> SUFFICES ASSUME SerialInv PROVE HistoryIsRecord
    OBVIOUS
  <1>1. TypeOK
    BY DEF SerialInv, IInv
  <1>2. LatestIsStage
    <2>1. CASE History = {}
      BY <2>1 DEF SerialInv, ChainIsWhole, LatestIsStage
    <2>2. CASE History # {}
      <3> DEFINE m == CHOOSE id \in History : IsLatest(id)
      <3>1. \E id \in History : IsLatest(id)
        BY <1>1, <2>2, LastEntry DEF IsLatest
      <3>2. m \in History /\ IsLatest(m)
        BY <3>1
      <3> HIDE DEF m
      <3>3. doc.stage = changes[m].stage
        BY <3>2 DEF SerialInv, ChainIsWhole
      <3> QED
        BY <2>2, <3>3 DEF LatestIsStage, m
    <2> QED
      BY <2>1, <2>2
  <1>3. HistoryChains
    <2> SUFFICES ASSUME NEW id \in History
                 PROVE  changes[id].previous =
                            LET before == {other \in History : other < id}
                            IN  IF before = {} THEN NoStage
                                ELSE changes[CHOOSE other \in before : \A x \in before : x =< other].stage
      BY DEF HistoryChains
    <2> DEFINE before == {other \in History : other < id}
               m == CHOOSE other \in before : \A x \in before : x =< other
    <2>1. /\ before = {} => changes[id].previous = NoStage
          /\ \A n \in before : IsLast(n, before) => changes[id].previous = changes[n].stage
      BY DEF SerialInv, ChainIsWhole
    <2>2. before \in SUBSET History
      OBVIOUS
    <2> HIDE DEF before
    <2>3. CASE before # {}
      <3>1. \E n \in before : \A x \in before : x =< n
        BY <1>1, <2>2, <2>3, LastEntry
      <3>2. m \in before /\ \A x \in before : x =< m
        BY <3>1
      <3> HIDE DEF m
      <3>3. changes[id].previous = changes[m].stage
        BY <2>1, <3>2 DEF IsLast
      <3> QED
        BY <2>3, <3>3 DEF m, before
    <2> QED
      BY <2>1, <2>3 DEF before
  <1>4. DatesInOrder
    <2> SUFFICES ASSUME NEW earlier \in History, NEW later \in History, earlier < later,
                        ~\E between \in History : earlier < between /\ between < later,
                        ~changes[later].correction
                 PROVE  changes[earlier].on =< changes[later].on
      BY DEF DatesInOrder
    <2>1. \A id \in History : earlier < id /\ id =< later => id = later
      BY IdsAreNumbers DEF History
    <2> QED
      BY <2>1 DEF SerialInv, Sorted
  <1> QED
    BY <1>2, <1>3, <1>4 DEF HistoryIsRecord

(* The entries change in commits only. *)
LEMMA DueHolds == SerialInv /\ NoOverlap /\ [Next]_vars => [DueStep]_vars
  <1> SUFFICES ASSUME SerialInv, [Next]_vars, NEW id \in Ids, changes'[id] # changes[id]
               PROVE  /\ \A kind \in Kinds : MeasureKind(doc.type) = kind /\ IsEnacted(kind, changes'[id].stage)
                             => doc'.number
                      /\ ~changes'[id].correction => ~doc.archived
    BY DEF DueStep, NumberedStep, ArchivedStep
  <1>1. PICK r \in Requests : Commit(r)
    BY DEF Next, vars, ChangeLoad, CorrectLoad, EditLoad, ArchiveLoad, RestoreLoad, Request, Edit,
           ChangeCheck, Flush, Save, Rollback
  <1> DEFINE entry == loc[r].entry
             new == loc[r].new
  <1>2. /\ pc[r] = "commit" /\ changes' = [changes EXCEPT ![loc[r].id] = entry]
        /\ doc' = Written(loc[r].snap, new)
    BY <1>1 DEF Commit
  <1>3. loc[r] \in Locals /\ doc \in Documents /\ changes \in [Ids -> Entries \cup {NoChange}]
    BY DEF SerialInv, IInv, TypeOK
  <1>4. loc[r].snap = doc /\ Decided(new, entry, doc)
    BY <1>2 DEF SerialInv, Stands
  <1>5. new \in Documents
    BY <1>3 DEF Locals
  <1> HIDE DEF entry, new
  <1>6. doc' = new
    BY <1>2, <1>3, <1>4, <1>5, WrittenWhole
  <1>7. changes'[id] = entry
    BY <1>2, <1>3
  <1>8. new.number = (doc.number \/ EntersNumber(doc, MeasureKind(doc.type), entry.stage))
    BY <1>3, <1>4 DEF Decided, Documents
  <1>9. ASSUME IsEnacted(MeasureKind(doc.type), entry.stage) PROVE new.number
    BY <1>8, <1>9, Zenon DEF EntersNumber
  <1> QED
    BY <1>4, <1>6, <1>7, <1>9 DEF Decided

LEMMA SerialInvariance == Spec /\ []NoOverlap => []SerialInv
  BY SerialInit, SerialNext, PTL DEF Spec

(* When no request of change_stage, correct_stage or the edits loads the   *)
(* document before the last one ended, the stage is the latest entry's,    *)
(* each entry follows from the one before it, and normal moves are in the  *)
(* order of their dates, however many were made.                           *)
THEOREM RecordKept == Spec /\ []NoOverlap => []HistoryIsRecord
  BY RecordHolds, SerialInvariance, PTL

(* When requests do not overlap, an entry at Approved, Adopted or later    *)
(* leaves the document with its number, and no normal move is made on an   *)
(* archived document (_set_enacted_number, change_stage).                  *)
THEOREM EntriesDue == Spec /\ []NoOverlap => EntriesAreDue
  BY DueHolds, SerialInvariance, PTL DEF Spec, EntriesAreDue

-----------------------------------------------------------------------------
(* What is shown of a measure.  The form goes by the place of a stage in   *)
(* its own order, the request by its rank on the path; both single out the *)
(* same stages.                                                            *)

(* The stages from the enacting one on. *)
EnactedStages == [ordinance |-> {"Approved", "Sent to the Mayor", "Signed", "Vetoed", "Lapsed into Law",
                                 "Provincial Review", "Posted"},
                  resolution |-> {"Adopted", "Sent to the Mayor", "Signed", "Vetoed"}]
PathDomains == DOMAIN PATHS.ordinance = 1 .. 11 /\ DOMAIN PATHS.resolution = 1 .. 6

LEMMA Domains == PathDomains
  <1>1. DOMAIN PATHS.ordinance = 1 .. 11
    BY DEF PATHS
  <1>2. DOMAIN PATHS.resolution = 1 .. 6
    BY DEF PATHS
  <1> QED BY <1>1, <1>2 DEF PathDomains

(* Which ranks have them. *)
LEMMA ResolutionRanks ==
    ASSUME NEW i \in DOMAIN PATHS.resolution
    PROVE  /\ i >= 4 => PATHS.resolution[i] \subseteq EnactedStages.resolution
           /\ i < 4 => PATHS.resolution[i] \cap EnactedStages.resolution = {}
  <1> DEFINE p == PATHS.resolution
             e == EnactedStages.resolution
  <1>1. /\ p[1] = {"Filed"} /\ p[2] = {"In Committee"} /\ p[3] = {"Committee Report"}
        /\ p[4] = {"Adopted"} /\ p[5] = {"Sent to the Mayor"} /\ p[6] = {"Signed", "Vetoed"}
    BY DEF PATHS
  <1>2. e = {"Adopted", "Sent to the Mayor", "Signed", "Vetoed"}
    BY DEF EnactedStages
  <1>3. i \in 1 .. 6
    BY Domains DEF PathDomains
  <1>4. i >= 4 => i = 4 \/ i = 5 \/ i = 6
    BY <1>3
  <1>5. i < 4 => i = 1 \/ i = 2 \/ i = 3
    BY <1>3
  <1> HIDE DEF p, e
  <1>6. p[4] \subseteq e /\ p[5] \subseteq e /\ p[6] \subseteq e
    BY <1>1, <1>2
  <1>7. p[1] \cap e = {} /\ p[2] \cap e = {} /\ p[3] \cap e = {}
    BY <1>1, <1>2
  <1>8. i >= 4 => p[i] \subseteq e
    BY <1>4, <1>6, Zenon
  <1>9. i < 4 => p[i] \cap e = {}
    BY <1>5, <1>7, Zenon
  <1> QED
    BY <1>8, <1>9, Zenon DEF p, e

LEMMA OrdinanceRanks ==
    ASSUME NEW i \in DOMAIN PATHS.ordinance
    PROVE  /\ i >= 7 => PATHS.ordinance[i] \subseteq EnactedStages.ordinance
           /\ i < 7 => PATHS.ordinance[i] \cap EnactedStages.ordinance = {}
  <1> DEFINE p == PATHS.ordinance
             e == EnactedStages.ordinance
  <1>1. /\ p[1] = {"Filed"} /\ p[2] = {"First Reading"} /\ p[3] = {"In Committee"}
        /\ p[4] = {"Committee Report"} /\ p[5] = {"Second Reading"} /\ p[6] = {"Third Reading"}
        /\ p[7] = {"Approved"} /\ p[8] = {"Sent to the Mayor"}
        /\ p[9] = {"Signed", "Vetoed", "Lapsed into Law"}
        /\ p[10] = {"Provincial Review"} /\ p[11] = {"Posted"}
    BY DEF PATHS
  <1>2. e = {"Approved", "Sent to the Mayor", "Signed", "Vetoed", "Lapsed into Law",
             "Provincial Review", "Posted"}
    BY DEF EnactedStages
  <1>3. i \in 1 .. 11
    BY Domains DEF PathDomains
  <1>4. i >= 7 => i = 7 \/ i = 8 \/ i = 9 \/ i = 10 \/ i = 11
    BY <1>3
  <1>5. i < 7 => i = 1 \/ i = 2 \/ i = 3 \/ i = 4 \/ i = 5 \/ i = 6
    BY <1>3
  <1> HIDE DEF p, e
  <1>6. p[7] \subseteq e /\ p[8] \subseteq e /\ p[9] \subseteq e /\ p[10] \subseteq e /\ p[11] \subseteq e
    BY <1>1, <1>2
  <1>7. /\ p[1] \cap e = {} /\ p[2] \cap e = {} /\ p[3] \cap e = {}
        /\ p[4] \cap e = {} /\ p[5] \cap e = {} /\ p[6] \cap e = {}
    BY <1>1, <1>2
  <1>8. i >= 7 => p[i] \subseteq e
    BY <1>4, <1>6, Zenon
  <1>9. i < 7 => p[i] \cap e = {}
    BY <1>5, <1>7, Zenon
  <1> QED
    BY <1>8, <1>9, Zenon DEF p, e

LEMMA RankOf ==
    ASSUME NEW kind \in Kinds, NEW stage \in PathStages(kind)
    PROVE  Rank(kind, stage) \in DOMAIN PATHS[kind] /\ stage \in PATHS[kind][Rank(kind, stage)]
  <1>1. PICK i \in DOMAIN PATHS[kind] : stage \in PATHS[kind][i]
    BY DEF PathStages, StagesOfPaths
  <1>2. Rank(kind, stage) = CHOOSE rank \in DOMAIN PATHS[kind] : stage \in PATHS[kind][rank]
    BY DEF Rank, Ranks
  <1> QED
    BY <1>1, <1>2

LEMMA OnPath ==
    ASSUME NEW kind \in Kinds, NEW i \in DOMAIN PATHS[kind], NEW stage \in PATHS[kind][i]
    PROVE  stage \in PathStages(kind)
  BY DEF PathStages, StagesOfPaths

(* The ranks of the stages that enact. *)
LEMMA Enacting ==
    /\ "Approved" \in PathStages("ordinance") /\ Rank("ordinance", "Approved") = 7
    /\ "Adopted" \in PathStages("resolution") /\ Rank("resolution", "Adopted") = 4
  <1> DEFINE i == Rank("ordinance", "Approved")
             j == Rank("resolution", "Adopted")
             p == PATHS.ordinance
             q == PATHS.resolution
  <1>1. "Approved" \in PathStages("ordinance") /\ "Adopted" \in PathStages("resolution")
    <2>1. 7 \in DOMAIN PATHS.ordinance /\ "Approved" \in PATHS.ordinance[7]
      BY DEF PATHS
    <2>2. 4 \in DOMAIN PATHS.resolution /\ "Adopted" \in PATHS.resolution[4]
      BY DEF PATHS
    <2> QED
      BY <2>1, <2>2, OnPath DEF Kinds
  <1>2. i \in 1 .. 11 /\ "Approved" \in p[i]
    BY <1>1, RankOf, Domains DEF PathDomains, Kinds
  <1>3. j \in 1 .. 6 /\ "Adopted" \in q[j]
    BY <1>1, RankOf, Domains DEF PathDomains, Kinds
  <1>4. /\ "Approved" \notin p[1] /\ "Approved" \notin p[2] /\ "Approved" \notin p[3]
        /\ "Approved" \notin p[4] /\ "Approved" \notin p[5] /\ "Approved" \notin p[6]
        /\ "Approved" \notin p[8] /\ "Approved" \notin p[9] /\ "Approved" \notin p[10]
        /\ "Approved" \notin p[11]
    BY DEF PATHS
  <1>5. /\ "Adopted" \notin q[1] /\ "Adopted" \notin q[2] /\ "Adopted" \notin q[3]
        /\ "Adopted" \notin q[5] /\ "Adopted" \notin q[6]
    BY DEF PATHS
  <1> HIDE DEF i, j, p, q
  <1>6. i # 7 => \/ i = 1 \/ i = 2 \/ i = 3 \/ i = 4 \/ i = 5 \/ i = 6
                 \/ i = 8 \/ i = 9 \/ i = 10 \/ i = 11
    BY <1>2
  <1>7. j # 4 => j = 1 \/ j = 2 \/ j = 3 \/ j = 5 \/ j = 6
    BY <1>3
  <1>8. i = 7
    BY <1>2, <1>4, <1>6, Zenon
  <1>9. j = 4
    BY <1>3, <1>5, <1>7, Zenon
  <1> QED
    BY <1>1, <1>8, <1>9 DEF i, j

(* The stages that count as enacted. *)
LEMMA EnactedIs ==
    ASSUME NEW kind \in Kinds, NEW stage
    PROVE  IsEnacted(kind, stage) <=> stage \in EnactedStages[kind]
  <1> DEFINE e == EnactedStages[kind]
             last == Rank(kind, ENACTED[kind])
             i == Rank(kind, stage)
  <1>1. last \in Int /\ last > 0
    BY Enacting DEF ENACTED, Kinds
  <1>2. ASSUME NEW k \in DOMAIN PATHS[kind]
        PROVE  k \in Int /\ (k >= last => PATHS[kind][k] \subseteq e) /\ (k < last => PATHS[kind][k] \cap e = {})
    <2>1. CASE kind = "ordinance"
      <3>1. last = 7
        BY <2>1, Enacting DEF ENACTED
      <3>2. k \in Int
        BY <1>2, <2>1, Domains DEF PathDomains
      <3> QED
        BY <1>2, <2>1, <3>1, <3>2, OrdinanceRanks
    <2>2. CASE kind = "resolution"
      <3>1. last = 4
        BY <2>2, Enacting DEF ENACTED
      <3>2. k \in Int
        BY <1>2, <2>2, Domains DEF PathDomains
      <3> QED
        BY <1>2, <2>2, <3>1, <3>2, ResolutionRanks
    <2> QED
      BY <2>1, <2>2 DEF Kinds
  <1>3. CASE stage \in PathStages(kind)
    <2>1. i \in DOMAIN PATHS[kind] /\ stage \in PATHS[kind][i]
      BY <1>3, RankOf
    <2> HIDE DEF i, e, last
    <2>2. i \in Int /\ (i >= last => stage \in e) /\ (i < last => stage \notin e)
      BY <1>2, <2>1
    <2>3. i >= last <=> stage \in e
      BY <1>1, <2>2
    <2> QED
      BY <2>3 DEF IsEnacted, i, e, last
  <1>4. CASE stage \notin PathStages(kind)
    <2>1. ASSUME stage \in e PROVE stage \in PathStages(kind)
      <3>1. CASE kind = "ordinance"
        <4>1. /\ 7 \in DOMAIN PATHS.ordinance /\ 8 \in DOMAIN PATHS.ordinance
              /\ 9 \in DOMAIN PATHS.ordinance /\ 10 \in DOMAIN PATHS.ordinance
              /\ 11 \in DOMAIN PATHS.ordinance
          BY Domains DEF PathDomains
        <4>2. /\ PATHS.ordinance[7] = {"Approved"} /\ PATHS.ordinance[8] = {"Sent to the Mayor"}
              /\ PATHS.ordinance[9] = {"Signed", "Vetoed", "Lapsed into Law"}
              /\ PATHS.ordinance[10] = {"Provincial Review"} /\ PATHS.ordinance[11] = {"Posted"}
          BY DEF PATHS
        <4>3. stage \in {"Approved", "Sent to the Mayor", "Signed", "Vetoed", "Lapsed into Law",
                         "Provincial Review", "Posted"}
          BY <2>1, <3>1 DEF EnactedStages
        <4> QED
          BY <3>1, <4>1, <4>2, <4>3, OnPath
      <3>2. CASE kind = "resolution"
        <4>1. 4 \in DOMAIN PATHS.resolution /\ 5 \in DOMAIN PATHS.resolution /\ 6 \in DOMAIN PATHS.resolution
          BY Domains DEF PathDomains
        <4>2. /\ PATHS.resolution[4] = {"Adopted"} /\ PATHS.resolution[5] = {"Sent to the Mayor"}
              /\ PATHS.resolution[6] = {"Signed", "Vetoed"}
          BY DEF PATHS
        <4>3. stage \in {"Adopted", "Sent to the Mayor", "Signed", "Vetoed"}
          BY <2>1, <3>2 DEF EnactedStages
        <4> QED
          BY <3>2, <4>1, <4>2, <4>3, OnPath
      <3> QED
        BY <3>1, <3>2 DEF Kinds
    <2>2. i = 0
      BY <1>4 DEF Rank
    <2> QED
      BY <1>1, <1>4, <2>1, <2>2 DEF IsEnacted
  <1> QED
    BY <1>3, <1>4

-----------------------------------------------------------------------------
(* The form's order has every stage, and the enacted ones together. *)

LEMMA OrderDomains == DOMAIN Order.ordinance = 1 .. 16 /\ DOMAIN Order.resolution = 1 .. 10
  <1>1. DOMAIN Order.ordinance = 1 .. 16
    BY DEF Order
  <1>2. DOMAIN Order.resolution = 1 .. 10
    BY DEF Order
  <1> QED
    BY <1>1, <1>2

LEMMA OrdinanceOrder ==
    ASSUME NEW i \in DOMAIN Order.ordinance
    PROVE  /\ i \in Int
           /\ Order.ordinance[i] = "Approved" => i = 7
           /\ i < 7 => Order.ordinance[i] \notin EnactedStages.ordinance
           /\ i >= 7 => Order.ordinance[i] \in EnactedStages.ordinance \cup ENDINGS
  <1> DEFINE o == Order.ordinance
             e == EnactedStages.ordinance
  <1>1. /\ o[1] = "Filed" /\ o[2] = "First Reading" /\ o[3] = "In Committee" /\ o[4] = "Committee Report"
        /\ o[5] = "Second Reading" /\ o[6] = "Third Reading" /\ o[7] = "Approved" /\ o[8] = "Sent to the Mayor"
        /\ o[9] = "Signed" /\ o[10] = "Vetoed" /\ o[11] = "Lapsed into Law" /\ o[12] = "Provincial Review"
        /\ o[13] = "Posted" /\ o[14] = "Withdrawn" /\ o[15] = "Tabled" /\ o[16] = "Lost"
    BY DEF Order
  <1>2. e = {"Approved", "Sent to the Mayor", "Signed", "Vetoed", "Lapsed into Law",
             "Provincial Review", "Posted"}
    BY DEF EnactedStages
  <1>3. i \in 1 .. 16
    BY OrderDomains
  <1> HIDE DEF o, e
  <1>4. i < 7 => i = 1 \/ i = 2 \/ i = 3 \/ i = 4 \/ i = 5 \/ i = 6
    BY <1>3
  <1>5. i >= 7 => \/ i = 7 \/ i = 8 \/ i = 9 \/ i = 10 \/ i = 11 \/ i = 12
                  \/ i = 13 \/ i = 14 \/ i = 15 \/ i = 16
    BY <1>3
  <1>6. /\ o[1] \notin e /\ o[2] \notin e /\ o[3] \notin e
        /\ o[4] \notin e /\ o[5] \notin e /\ o[6] \notin e
    BY <1>1, <1>2
  <1>7. /\ o[7] \in e /\ o[8] \in e /\ o[9] \in e /\ o[10] \in e /\ o[11] \in e /\ o[12] \in e /\ o[13] \in e
        /\ o[14] \in ENDINGS /\ o[15] \in ENDINGS /\ o[16] \in ENDINGS
    BY <1>1, <1>2 DEF ENDINGS
  <1>8. /\ "Approved" \in e /\ o[8] # "Approved" /\ o[9] # "Approved" /\ o[10] # "Approved"
        /\ o[11] # "Approved" /\ o[12] # "Approved" /\ o[13] # "Approved" /\ o[14] # "Approved"
        /\ o[15] # "Approved" /\ o[16] # "Approved"
    BY <1>1, <1>2
  <1>9. i < 7 => o[i] \notin e
    BY <1>4, <1>6, Zenon
  <1>10. i >= 7 => o[i] \in e \cup ENDINGS
    BY <1>5, <1>7, Zenon
  <1>11. i >= 7 /\ i # 7 => o[i] # "Approved"
    BY <1>5, <1>8, Zenon
  <1>12. o[i] = "Approved" => i = 7
    BY <1>3, <1>8, <1>9, <1>11
  <1> QED
    BY <1>3, <1>9, <1>10, <1>12 DEF o, e

LEMMA ResolutionOrder ==
    ASSUME NEW i \in DOMAIN Order.resolution
    PROVE  /\ i \in Int
           /\ Order.resolution[i] = "Adopted" => i = 4
           /\ i < 4 => Order.resolution[i] \notin EnactedStages.resolution
           /\ i >= 4 => Order.resolution[i] \in EnactedStages.resolution \cup ENDINGS
  <1> DEFINE o == Order.resolution
             e == EnactedStages.resolution
  <1>1. /\ o[1] = "Filed" /\ o[2] = "In Committee" /\ o[3] = "Committee Report" /\ o[4] = "Adopted"
        /\ o[5] = "Sent to the Mayor" /\ o[6] = "Signed" /\ o[7] = "Vetoed" /\ o[8] = "Withdrawn"
        /\ o[9] = "Tabled" /\ o[10] = "Lost"
    BY DEF Order
  <1>2. e = {"Adopted", "Sent to the Mayor", "Signed", "Vetoed"}
    BY DEF EnactedStages
  <1>3. i \in 1 .. 10
    BY OrderDomains
  <1> HIDE DEF o, e
  <1>4. i < 4 => i = 1 \/ i = 2 \/ i = 3
    BY <1>3
  <1>5. i >= 4 => i = 4 \/ i = 5 \/ i = 6 \/ i = 7 \/ i = 8 \/ i = 9 \/ i = 10
    BY <1>3
  <1>6. o[1] \notin e /\ o[2] \notin e /\ o[3] \notin e
    BY <1>1, <1>2
  <1>7. /\ o[4] \in e /\ o[5] \in e /\ o[6] \in e /\ o[7] \in e
        /\ o[8] \in ENDINGS /\ o[9] \in ENDINGS /\ o[10] \in ENDINGS
    BY <1>1, <1>2 DEF ENDINGS
  <1>8. /\ "Adopted" \in e /\ o[5] # "Adopted" /\ o[6] # "Adopted" /\ o[7] # "Adopted"
        /\ o[8] # "Adopted" /\ o[9] # "Adopted" /\ o[10] # "Adopted"
    BY <1>1, <1>2
  <1>9. i < 4 => o[i] \notin e
    BY <1>4, <1>6, Zenon
  <1>10. i >= 4 => o[i] \in e \cup ENDINGS
    BY <1>5, <1>7, Zenon
  <1>11. i >= 4 /\ i # 4 => o[i] # "Adopted"
    BY <1>5, <1>8, Zenon
  <1>12. o[i] = "Adopted" => i = 4
    BY <1>3, <1>8, <1>9, <1>11
  <1> QED
    BY <1>3, <1>9, <1>10, <1>12 DEF o, e

LEMMA Ending == ENDINGS \cap EnactedStages.ordinance = {} /\ ENDINGS \cap EnactedStages.resolution = {}
  BY DEF ENDINGS, EnactedStages

(* Every stage of a kind has its place in the form. *)
LEMMA InOrder ==
    ASSUME Kind \in Kinds, NEW stage \in AllStages(Kind)
    PROVE  \E i \in DOMAIN Order[Kind] : Order[Kind][i] = stage
  <1>1. CASE Kind = "ordinance"
    <2> DEFINE o == Order.ordinance
               names == {o[i] : i \in DOMAIN o}
               p == PATHS.ordinance
    <2>1. /\ o[1] = "Filed" /\ o[2] = "First Reading" /\ o[3] = "In Committee" /\ o[4] = "Committee Report"
          /\ o[5] = "Second Reading" /\ o[6] = "Third Reading" /\ o[7] = "Approved"
          /\ o[8] = "Sent to the Mayor" /\ o[9] = "Signed" /\ o[10] = "Vetoed"
          /\ o[11] = "Lapsed into Law" /\ o[12] = "Provincial Review"
          /\ o[13] = "Posted" /\ o[14] = "Withdrawn" /\ o[15] = "Tabled" /\ o[16] = "Lost"
      BY DEF Order
    <2>2. /\ 1 \in DOMAIN o /\ 2 \in DOMAIN o /\ 3 \in DOMAIN o /\ 4 \in DOMAIN o /\ 5 \in DOMAIN o
          /\ 6 \in DOMAIN o /\ 7 \in DOMAIN o /\ 8 \in DOMAIN o /\ 9 \in DOMAIN o /\ 10 \in DOMAIN o
          /\ 11 \in DOMAIN o /\ 12 \in DOMAIN o /\ 13 \in DOMAIN o /\ 14 \in DOMAIN o
          /\ 15 \in DOMAIN o /\ 16 \in DOMAIN o
      BY OrderDomains
    <2> HIDE DEF o
    <2>0. \A i \in DOMAIN o : o[i] \in names
      OBVIOUS
    <2> HIDE DEF names
    <2>9. /\ o[1] \in names /\ o[2] \in names /\ o[3] \in names /\ o[4] \in names /\ o[5] \in names
          /\ o[6] \in names /\ o[7] \in names /\ o[8] \in names /\ o[9] \in names /\ o[10] \in names
          /\ o[11] \in names /\ o[12] \in names /\ o[13] \in names /\ o[14] \in names
          /\ o[15] \in names /\ o[16] \in names
      BY <2>0, <2>2
    <2>3. /\ "Filed" \in names /\ "First Reading" \in names /\ "In Committee" \in names
          /\ "Committee Report" \in names /\ "Second Reading" \in names /\ "Third Reading" \in names
          /\ "Approved" \in names /\ "Sent to the Mayor" \in names
          /\ {"Signed", "Vetoed", "Lapsed into Law"} \subseteq names
          /\ "Provincial Review" \in names /\ "Posted" \in names
          /\ {"Withdrawn", "Tabled", "Lost"} \subseteq names
      BY <2>1, <2>9
    <2>4. stage \in names
      <3>1. CASE stage \in ENDINGS
        BY <2>3, <3>1 DEF ENDINGS
      <3>2. CASE stage \in PathStages(Kind)
        <4>1. PICK j \in DOMAIN p : stage \in p[j]
          BY <1>1, <3>2 DEF PathStages, StagesOfPaths
        <4>2. j \in 1 .. 11
          BY <4>1, Domains DEF PathDomains
        <4>3. /\ p[1] = {"Filed"} /\ p[2] = {"First Reading"} /\ p[3] = {"In Committee"}
              /\ p[4] = {"Committee Report"} /\ p[5] = {"Second Reading"} /\ p[6] = {"Third Reading"}
              /\ p[7] = {"Approved"} /\ p[8] = {"Sent to the Mayor"}
              /\ p[9] = {"Signed", "Vetoed", "Lapsed into Law"}
              /\ p[10] = {"Provincial Review"} /\ p[11] = {"Posted"}
          BY DEF PATHS
        <4> HIDE DEF p
        <4>4. \/ j = 1 \/ j = 2 \/ j = 3 \/ j = 4 \/ j = 5 \/ j = 6
              \/ j = 7 \/ j = 8 \/ j = 9 \/ j = 10 \/ j = 11
          BY <4>2
        <4>5. /\ p[1] \subseteq names /\ p[2] \subseteq names /\ p[3] \subseteq names
              /\ p[4] \subseteq names /\ p[5] \subseteq names /\ p[6] \subseteq names
              /\ p[7] \subseteq names /\ p[8] \subseteq names /\ p[9] \subseteq names
              /\ p[10] \subseteq names /\ p[11] \subseteq names
          BY <2>3, <4>3
        <4>6. p[j] \subseteq names
          BY <4>4, <4>5, Zenon
        <4> QED
          BY <4>1, <4>6
      <3> QED
        BY <3>1, <3>2 DEF AllStages
    <2> QED
      BY <1>1, <2>4 DEF names, o
  <1>2. CASE Kind = "resolution"
    <2> DEFINE o == Order.resolution
               names == {o[i] : i \in DOMAIN o}
               p == PATHS.resolution
    <2>1. /\ o[1] = "Filed" /\ o[2] = "In Committee" /\ o[3] = "Committee Report" /\ o[4] = "Adopted"
          /\ o[5] = "Sent to the Mayor" /\ o[6] = "Signed" /\ o[7] = "Vetoed" /\ o[8] = "Withdrawn"
          /\ o[9] = "Tabled" /\ o[10] = "Lost"
      BY DEF Order
    <2>2. /\ 1 \in DOMAIN o /\ 2 \in DOMAIN o /\ 3 \in DOMAIN o /\ 4 \in DOMAIN o /\ 5 \in DOMAIN o
          /\ 6 \in DOMAIN o /\ 7 \in DOMAIN o /\ 8 \in DOMAIN o /\ 9 \in DOMAIN o /\ 10 \in DOMAIN o
      BY OrderDomains
    <2> HIDE DEF o
    <2>3. /\ "Filed" \in names /\ "In Committee" \in names /\ "Committee Report" \in names
          /\ "Adopted" \in names /\ "Sent to the Mayor" \in names /\ {"Signed", "Vetoed"} \subseteq names
          /\ {"Withdrawn", "Tabled", "Lost"} \subseteq names
      BY <2>1, <2>2
    <2> HIDE DEF names
    <2>4. stage \in names
      <3>1. CASE stage \in ENDINGS
        BY <2>3, <3>1 DEF ENDINGS
      <3>2. CASE stage \in PathStages(Kind)
        <4>1. PICK j \in DOMAIN p : stage \in p[j]
          BY <1>2, <3>2 DEF PathStages, StagesOfPaths
        <4>2. j \in 1 .. 6
          BY <4>1, Domains DEF PathDomains
        <4>3. /\ p[1] = {"Filed"} /\ p[2] = {"In Committee"} /\ p[3] = {"Committee Report"}
              /\ p[4] = {"Adopted"} /\ p[5] = {"Sent to the Mayor"} /\ p[6] = {"Signed", "Vetoed"}
          BY DEF PATHS
        <4> HIDE DEF p
        <4>4. j = 1 \/ j = 2 \/ j = 3 \/ j = 4 \/ j = 5 \/ j = 6
          BY <4>2
        <4>5. /\ p[1] \subseteq names /\ p[2] \subseteq names /\ p[3] \subseteq names
              /\ p[4] \subseteq names /\ p[5] \subseteq names /\ p[6] \subseteq names
          BY <2>3, <4>3
        <4>6. p[j] \subseteq names
          BY <4>4, <4>5, Zenon
        <4> QED
          BY <4>1, <4>6
      <3> QED
        BY <3>1, <3>2 DEF AllStages
    <2> QED
      BY <1>2, <2>4 DEF names, o
  <1> QED
    BY <1>1, <1>2 DEF Kinds

LEMMA IndexOf ==
    ASSUME Kind \in Kinds, NEW stage \in AllStages(Kind)
    PROVE  Index(stage) \in DOMAIN Order[Kind] /\ Order[Kind][Index(stage)] = stage
  BY InOrder DEF Index

(* The form asks for the number exactly when the request will take one. *)
LEMMA FormAgrees ==
    ASSUME Kind \in Kinds, NEW stage \in AllStages(Kind)
    PROVE  FormAsksNumber(stage) <=> EntersNumber(doc, Kind, stage)
  <1> DEFINE i == Index(stage)
             last == Index(ENACTED[Kind])
             e == EnactedStages[Kind]
  <1>1. i \in DOMAIN Order[Kind] /\ Order[Kind][i] = stage
    BY IndexOf
  <1>2. last \in DOMAIN Order[Kind] /\ Order[Kind][last] = ENACTED[Kind]
    <2>1. ENACTED[Kind] \in AllStages(Kind)
      BY Enacting DEF ENACTED, AllStages, Kinds
    <2> QED
      BY <2>1, IndexOf
  <1> HIDE DEF i, last, e
  <1>3. /\ i \in Int /\ last \in Int
        /\ i < last => stage \notin e
        /\ i >= last => stage \in e \cup ENDINGS
        /\ ENDINGS \cap e = {}
    <2>1. CASE Kind = "ordinance"
      <3>1. last = 7
        BY <2>1, <1>2, OrdinanceOrder DEF ENACTED
      <3> QED
        BY <2>1, <3>1, <1>1, OrdinanceOrder, Ending DEF e
    <2>2. CASE Kind = "resolution"
      <3>1. last = 4
        BY <2>2, <1>2, ResolutionOrder DEF ENACTED
      <3> QED
        BY <2>2, <3>1, <1>1, ResolutionOrder, Ending DEF e
    <2> QED
      BY <2>1, <2>2 DEF Kinds
  <1>4. stage \in e <=> stage \notin ENDINGS /\ i >= last
    BY <1>3
  <1>5. IsEnacted(Kind, stage) <=> stage \in e
    BY EnactedIs DEF e
  <1> QED
    BY <1>4, <1>5 DEF FormAsksNumber, EntersNumber, i, last

LEMMA ShownDays ==
    ASSUME TypeOK, NEW stage, EntriesAt(stage) # {}
    PROVE  \E m \in EntriesAt(stage) :
              (\A x \in EntriesAt(stage) : x =< m) /\ Entered(stage) = changes[m].on
  <1> DEFINE m == CHOOSE id \in EntriesAt(stage) : \A other \in EntriesAt(stage) : other =< id
  <1>1. EntriesAt(stage) \in SUBSET History
    BY DEF EntriesAt
  <1>2. \E id \in EntriesAt(stage) : \A other \in EntriesAt(stage) : other =< id
    BY <1>1, LastEntry
  <1>3. m \in EntriesAt(stage) /\ \A other \in EntriesAt(stage) : other =< m
    BY <1>2
  <1> HIDE DEF m
  <1>4. Entered(stage) = changes[m].on
    BY DEF Entered, m
  <1> QED
    BY <1>3, <1>4

LEMMA ViewsHold == SerialInv => ViewsAgree
  <1> SUFFICES ASSUME SerialInv, Kind \in Kinds PROVE ViewsAgree
    BY DEF ViewsAgree
  <1>1. TypeOK
    BY DEF SerialInv, IInv
  <1>2. ASSUME doc.stage # NoStage, History # {}
        PROVE  Entered(doc.stage) = changes[CHOOSE id \in History : IsLatest(id)].on
    <2> DEFINE m == CHOOSE id \in History : IsLatest(id)
    <2>1. \E id \in History : IsLatest(id)
      BY <1>1, <1>2, LastEntry DEF IsLatest
    <2>2. m \in History /\ IsLatest(m)
      BY <2>1
    <2> HIDE DEF m
    <2>3. m \in EntriesAt(doc.stage)
      BY <2>2 DEF SerialInv, ChainIsWhole, EntriesAt
    <2>4. PICK n \in EntriesAt(doc.stage) :
              (\A x \in EntriesAt(doc.stage) : x =< n) /\ Entered(doc.stage) = changes[n].on
      BY <1>1, <2>3, ShownDays
    <2>5. \A x \in EntriesAt(doc.stage) : x \in History
      BY DEF EntriesAt
    <2>6. m = n
      BY <2>2, <2>3, <2>4, <2>5, IdsAreNumbers DEF IsLatest, History
    <2> QED
      BY <2>4, <2>6 DEF m
  <1>3. ASSUME PrintedDay # NoDay
        PROVE  /\ IsEnacted(Kind, doc.stage)
               /\ Entered(ENACTED[Kind]) =< PrintedDay
               /\ (\A id \in History : ~changes[id].correction) => Entered(ENACTED[Kind]) = PrintedDay
    <2> DEFINE at == EntriesAt(ENACTED[Kind])
               days == {changes[id].on : id \in at}
               last == CHOOSE day \in days : \A other \in days : other =< day
    <2>1. IsEnacted(Kind, doc.stage) /\ at # {} /\ PrintedDay = last
      BY <1>3 DEF PrintedDay
    <2>2. \A id \in at : id \in History /\ id \in Nat /\ changes[id].on \in 1 .. Today
      BY <1>1, HistoryEntry, IdsAreNumbers DEF EntriesAt, History, Entries, Days
    <2>3. last \in days /\ \A other \in days : other =< last
      <3>1. days \in SUBSET (1 .. Today) /\ Today \in Nat /\ days # {}
        BY <2>1, <2>2, BoundsAssumption
      <3> HIDE DEF days
      <3>2. \E day \in days : \A other \in days : other =< day
        BY <3>1, LastExists
      <3> QED
        BY <3>2
    <2>4. PICK m \in at : (\A x \in at : x =< m) /\ Entered(ENACTED[Kind]) = changes[m].on
      BY <1>1, <2>1, ShownDays
    <2>5. PICK n \in at : last = changes[n].on
      BY <2>3
    <2>6. changes[m].on =< last
      BY <2>3
    <2> HIDE DEF at, days, last
    <2>7. ASSUME \A id \in History : ~changes[id].correction
          PROVE  changes[n].on =< changes[m].on
      <3>1. n =< m /\ n \in Nat /\ m \in Nat
        BY <2>2, <2>4
      <3>2. CASE n = m
        BY <2>2, <3>2
      <3>3. CASE n # m
        BY <2>2, <2>7, <3>1, <3>3 DEF SerialInv, Sorted
      <3> QED
        BY <3>2, <3>3
    <2> QED
      BY <2>1, <2>2, <2>4, <2>5, <2>6, <2>7
  <1>4. \A stage \in AllStages(Kind) : FormAsksNumber(stage) <=> EntersNumber(doc, Kind, stage)
    BY FormAgrees
  <1> QED
    BY <1>2, <1>3, <1>4 DEF ViewsAgree

(* When requests do not overlap, the summary, the printed list and the     *)
(* form of stage_panel.py agree with the history and with the request, for *)
(* every history the requests can make and every stage of both paths.      *)
THEOREM ViewsKept == Spec /\ []NoOverlap => []ViewsAgree
  BY ViewsHold, SerialInvariance, PTL
=============================================================================
