--------------------------- MODULE MeasureStages ----------------------------
(***************************************************************************)
(* The stage of one document and its history: the stage changes and        *)
(* corrections of Backends/backend/routes/measure_stages.py beside the     *)
(* edits of update_document, run by concurrent requests.                   *)
(*                                                                         *)
(* No request locks the document to decide: each decides on the row it     *)
(* loaded (snap).  At its commit the ORM flushes an UPDATE of the columns  *)
(* given another value than the loaded one, if there are any, and then the *)
(* INSERT of the history entry, which draws its id; both become visible    *)
(* when the transaction ends.  The UPDATE waits for the row, so it orders  *)
(* the requests that make one, and only those.  What a request is given    *)
(* that only refuses it (a missing committee, a number already taken) is   *)
(* left out: a refused request writes nothing.                             *)
(***************************************************************************)
EXTENDS Stages

CONSTANTS Requests,    \* slots for requests the server runs at one time
          Types,       \* BOUND: the types documents are given
          Asked,       \* BOUND: the stages requests ask for
          MaxChanges,  \* BOUND: ids the history may use
          Today        \* BOUND: days on record; nothing is dated after today

ASSUME AskedAssumption == Types \subseteq DocumentTypes /\ Asked \subseteq AllStages("ordinance") \cup AllStages("resolution")
ASSUME BoundsAssumption == MaxChanges \in Nat \ {0} /\ Today \in Nat \ {0}

VARIABLES doc,      \* the row of documents: its type, stage, archived, has it number and year
          changes,  \* its rows of document_stage_changes, by id
          lastId,   \* the last id drawn
          pc,       \* where each request is
          loc       \* the local variables of each request

vars == <<doc, changes, lastId, pc, loc>>

Ids == 1 .. MaxChanges
Days == 1 .. Today
Stages == AllStages("ordinance") \cup AllStages("resolution")

Documents == [type : DocumentTypes, stage : Stages \cup {NoStage}, number : BOOLEAN, archived : BOOLEAN]
NoChange == [stage |-> NoStage, previous |-> NoStage, on |-> 0, note |-> FALSE, correction |-> FALSE]
Entries == [stage : Stages, previous : Stages \cup {NoStage}, on : Days, note : BOOLEAN, correction : BOOLEAN]

(* What a request will write: the document as it wants it, and its entry. *)
Locals == [snap : Documents, new : Documents, entry : Entries \cup {NoChange}, id : Ids \cup {0}]
NoDocument == [type |-> "Letter Request", stage |-> NoStage, number |-> FALSE, archived |-> FALSE]
NoLocals == [snap |-> NoDocument, new |-> NoDocument, entry |-> NoChange, id |-> 0]

TypeOK ==
    /\ doc \in Documents
    /\ changes \in [Ids -> Entries \cup {NoChange}]
    /\ lastId \in 0 .. MaxChanges
    /\ pc \in [Requests -> {"idle", "change_check", "flush", "commit", "save"}]
    /\ loc \in [Requests -> Locals]

-----------------------------------------------------------------------------
History == {id \in Ids : changes[id] # NoChange}
IsLatest(id) == id \in History /\ \A other \in History : other =< id

(* The number is entered the first time the measure is enacted or later. *)
EntersNumber(snap, kind, stage) == IsEnacted(kind, stage) /\ ~snap.number

Finish(r) ==
    /\ pc' = [pc EXCEPT ![r] = "idle"]
    /\ loc' = [loc EXCEPT ![r] = NoLocals]

Goto(r, point) ==
    /\ pc' = [pc EXCEPT ![r] = point]
    /\ UNCHANGED loc

(* The ORM's UPDATE: it is made if a column has a new value, it sets those *)
(* columns, and it waits for the row.                                      *)
Updates(r) == loc[r].new # loc[r].snap
Written(snap, new) ==
    LET Column(c) == IF new[c] # snap[c] THEN new[c] ELSE doc[c]
    IN  [type |-> Column("type"), stage |-> Column("stage"),
         number |-> Column("number"), archived |-> Column("archived")]
RowFree(r) == Updates(r) => \A other \in Requests \ {r} : ~(pc[other] = "commit" /\ Updates(other))

(* A stage requested of the document as loaded. *)
Request(r, point, kind, stage, day, note, correction) ==
    /\ pc[r] = "idle"
    /\ pc' = [pc EXCEPT ![r] = point]
    /\ loc' = [loc EXCEPT ![r] =
          [snap |-> doc,
           new |-> [doc EXCEPT !.stage = stage, !.number = @ \/ EntersNumber(doc, kind, stage)],
           entry |-> [stage |-> stage, previous |-> doc.stage, on |-> day, note |-> note,
                      correction |-> correction],
           id |-> 0]]
    /\ UNCHANGED <<doc, changes, lastId>>

-----------------------------------------------------------------------------
(* POST /documents/{id}/stage: change_stage.  Where no note is asked for,  *)
(* one is taken to be given.                                               *)

NoteMatters(kind, stage, note) == note \/ IsReferralBack(kind, doc.stage, stage)

\* MUTANT: an archived document may change stage.
ChangeArchived(r, stage, day, note) ==
    LET kind == MeasureKind(doc.type)
    IN  /\ kind \in Kinds
        /\ stage \in AllowedNext(kind, doc.stage) /\ NoteMatters(kind, stage, note)
        /\ IsReferralBack(kind, doc.stage, stage) => note
        /\ Request(r, "change_check", kind, stage, day, note, FALSE)
\* MUTANT: a referral back to committee needs no note.
ChangeWithoutNote(r, stage, day, note) ==
    LET kind == MeasureKind(doc.type)
    IN  /\ kind \in Kinds /\ ~doc.archived
        /\ stage \in AllowedNext(kind, doc.stage) /\ NoteMatters(kind, stage, note)
        /\ Request(r, "change_check", kind, stage, day, note, FALSE)
ChangeLoad(r, stage, day, note) ==
    LET kind == MeasureKind(doc.type)
    IN  /\ kind \in Kinds /\ ~doc.archived
        /\ stage \in AllowedNext(kind, doc.stage) /\ NoteMatters(kind, stage, note)
        /\ IsReferralBack(kind, doc.stage, stage) => note
        /\ Request(r, "change_check", kind, stage, day, note, FALSE)

(* The date can't be before the latest entry's, of those committed by now. *)
ChangeCheck(r) ==
    /\ pc[r] = "change_check"
    /\ IF \A id \in Ids : IsLatest(id) => changes[id].on =< loc[r].entry.on
       THEN Goto(r, "flush") ELSE Finish(r)
    /\ UNCHANGED <<doc, changes, lastId>>

-----------------------------------------------------------------------------
(* POST /documents/{id}/stage/corrections: correct_stage *)

(* Any stage of its kind, archived or not, with a reason. *)
CorrectLoad(r, stage, day) ==
    LET kind == MeasureKind(doc.type)
    IN  /\ kind \in Kinds
        /\ stage \in AllStages(kind)
        /\ Request(r, "flush", kind, stage, day, TRUE, TRUE)

-----------------------------------------------------------------------------
(* The commit of a stage change or correction. *)

Flush(r) ==
    /\ pc[r] = "flush" /\ RowFree(r) /\ lastId < MaxChanges
    /\ lastId' = lastId + 1
    /\ pc' = [pc EXCEPT ![r] = "commit"]
    /\ loc' = [loc EXCEPT ![r].id = lastId + 1]
    /\ UNCHANGED <<doc, changes>>

\* MUTANT: a correction moves the stage and leaves no entry.
CommitCorrectionUnrecorded(r) ==
    /\ pc[r] = "commit"
    /\ changes' = IF loc[r].entry.correction THEN changes
                  ELSE [changes EXCEPT ![loc[r].id] = loc[r].entry]
    /\ doc' = Written(loc[r].snap, loc[r].new)
    /\ Finish(r) /\ UNCHANGED lastId
\* MUTANT: a correction is recorded and the document's stage left as it was.
CommitCorrectionOnRecordOnly(r) ==
    /\ pc[r] = "commit"
    /\ changes' = [changes EXCEPT ![loc[r].id] = loc[r].entry]
    /\ doc' = IF loc[r].entry.correction THEN doc ELSE Written(loc[r].snap, loc[r].new)
    /\ Finish(r) /\ UNCHANGED lastId
Commit(r) ==
    /\ pc[r] = "commit"
    /\ changes' = [changes EXCEPT ![loc[r].id] = loc[r].entry]
    /\ doc' = Written(loc[r].snap, loc[r].new)
    /\ Finish(r) /\ UNCHANGED lastId

-----------------------------------------------------------------------------
(* The requests that edit the row and leave the history alone.             *)

Edit(r, new) ==
    /\ pc[r] = "idle"
    /\ pc' = [pc EXCEPT ![r] = "save"]
    /\ loc' = [loc EXCEPT ![r] = [NoLocals EXCEPT !.snap = doc, !.new = new]]
    /\ UNCHANGED <<doc, changes, lastId>>

(* PUT /documents/{id}: update_document may retype the document, and set or*)
(* clear its number, at any stage.                                         *)
EditLoad(r, type, number) == Edit(r, [doc EXCEPT !.type = type, !.number = number])

(* DELETE /documents/{id} and POST /documents/{id}/restore *)
ArchiveLoad(r) == ~doc.archived /\ Edit(r, [doc EXCEPT !.archived = TRUE])
RestoreLoad(r) == Edit(r, [doc EXCEPT !.archived = FALSE])

(* The commit of an edit, archive or restore. *)
Save(r) ==
    /\ pc[r] = "save" /\ RowFree(r)
    /\ doc' = Written(loc[r].snap, loc[r].new)
    /\ Finish(r) /\ UNCHANGED <<changes, lastId>>

(* The connection drops or a statement fails; a drawn id is not used again. *)
Rollback(r) == pc[r] # "idle" /\ Finish(r) /\ UNCHANGED <<doc, changes, lastId>>

-----------------------------------------------------------------------------
(* A measure is registered at any stage of its path, with its number once  *)
(* enacted and not before; another document has no stage.                  *)
Init ==
    /\ doc \in [type : Types, stage : Asked \cup {NoStage}, number : BOOLEAN, archived : {FALSE}]
    /\ LET kind == MeasureKind(doc.type)
       IN  IF kind \in Kinds
           THEN /\ doc.stage \in RegistrationStages(kind)
                /\ doc.number = IsEnacted(kind, doc.stage)
                /\ lastId = 1
           ELSE doc.stage = NoStage /\ lastId = 0
    /\ \E day \in Days :
          changes = [id \in Ids |->
              IF id =< lastId
              THEN [stage |-> doc.stage, previous |-> NoStage, on |-> day, note |-> TRUE, correction |-> FALSE]
              ELSE NoChange]
    /\ pc = [r \in Requests |-> "idle"]
    /\ loc = [r \in Requests |-> NoLocals]

Next ==
    \/ \E r \in Requests :
          \/ \E stage \in Asked, day \in Days, note \in BOOLEAN : ChangeLoad(r, stage, day, note)
          \/ \E stage \in Asked, day \in Days : CorrectLoad(r, stage, day)
          \/ \E type \in Types, number \in BOOLEAN : EditLoad(r, type, number)
          \/ ArchiveLoad(r) \/ RestoreLoad(r)
          \/ ChangeCheck(r) \/ Flush(r) \/ Commit(r) \/ Save(r) \/ Rollback(r)

Spec == Init /\ [][Next]_vars

-----------------------------------------------------------------------------
(* What holds however requests interleave. *)

(* Every entry of the history is legal by itself: it is the registration,  *)
(* a correction with a reason, or a move the rules of its time allowed     *)
(* from the stage it names as previous, with a note when a reading sent    *)
(* the measure back to committee.                                          *)
EntriesAreLegal ==
    \A id \in History :
        \/ id = 1 /\ changes[id].previous = NoStage
        \/ changes[id].correction /\ changes[id].note
        \/ \E kind \in Kinds :
              /\ changes[id].stage \in AllowedNext(kind, changes[id].previous)
              /\ IsReferralBack(kind, changes[id].previous, changes[id].stage) => changes[id].note

(* The document is never at a stage its history does not record. *)
StageIsRecorded == doc.stage # NoStage => \E id \in History : changes[id].stage = doc.stage

-----------------------------------------------------------------------------
(* What holds when requests run one at a time: one ends before another     *)
(* loads the document.                                                     *)

NoOverlap == \A p, q \in Requests : pc[p] # "idle" /\ pc[q] # "idle" => p = q

(* The stage is the latest entry's ("Always the stage of its latest        *)
(* DocumentStageChange", models.py:299), and a document without an entry   *)
(* has none.  Concurrent requests break it.                                *)
LatestIsStage ==
    doc.stage = IF History = {} THEN NoStage
                ELSE changes[CHOOSE id \in History : IsLatest(id)].stage

(* Each entry's previous stage is the stage of the entry before it: the    *)
(* history is one unbroken chain from registration.                        *)
HistoryChains ==
    \A id \in History :
        changes[id].previous =
            LET before == {other \in History : other < id}
            IN  IF before = {} THEN NoStage
                ELSE changes[CHOOSE other \in before : \A x \in before : x =< other].stage

(* A normal change is never dated before the entry it follows. *)
DatesInOrder ==
    \A earlier, later \in History :
        /\ earlier < later
        /\ ~\E between \in History : earlier < between /\ between < later
        /\ ~changes[later].correction
        => changes[earlier].on =< changes[later].on

(* The history is the record of the stage: a chain in the order of its     *)
(* dates that ends at it (measure_stages.py add_stage_change).             *)
HistoryIsRecord == LatestIsStage /\ HistoryChains /\ DatesInOrder

(* An entry at Approved or Adopted or later is only made on a document     *)
(* that has its number, whatever edits and corrections came before it.     *)
NumberedStep ==
    \A id \in Ids :
        changes'[id] # changes[id]
        /\ (\E kind \in Kinds : MeasureKind(doc.type) = kind /\ IsEnacted(kind, changes'[id].stage))
        => doc'.number

(* "Restore the document before changing its stage."                       *)
(* (measure_stages.py:192): an archived document makes no normal move.      *)
(* Concurrent requests break it.                                           *)
ArchivedStep == \A id \in Ids : changes'[id] # changes[id] /\ ~changes'[id].correction => ~doc.archived

(* Entries are made on documents that have the number they need, and that  *)
(* are not archived (measure_stages.py _set_enacted_number, change_stage). *)
DueStep == NumberedStep /\ ArchivedStep
EntriesAreDue == [][DueStep]_vars
=============================================================================
