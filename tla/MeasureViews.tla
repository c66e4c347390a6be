---------------------------- MODULE MeasureViews ----------------------------
(***************************************************************************)
(* What is shown of a measure: the dates of its stages                     *)
(* (measure_stages.py stage_summary, read by the details and the public    *)
(* lookup), the form that changes its stage (frontend/admin/               *)
(* stage_panel.py) and its row of the printed list                         *)
(* (routes/print_list.py).  Each asks the history again, in its own order. *)
(* The committees, notes and wording of each, and the year and month a     *)
(* list is picked by, are left out.                                        *)
(***************************************************************************)
EXTENDS MeasureStages

Kind == MeasureKind(doc.type)
NoDay == 0

EntriesAt(stage) == {id \in History : changes[id].stage = stage}

\* MUTANT: the first time a stage was entered is shown.
FirstEntered(stage) ==
    IF EntriesAt(stage) = {} THEN NoDay
    ELSE changes[CHOOSE id \in EntriesAt(stage) : \A other \in EntriesAt(stage) : id =< other].on
(* stage_summary: the date a stage was entered, of the entry made last. *)
Entered(stage) ==
    IF EntriesAt(stage) = {} THEN NoDay
    ELSE changes[CHOOSE id \in EntriesAt(stage) : \A other \in EntriesAt(stage) : other =< id].on

(* list_rows: the row's date is that of the entry dated last, of those at  *)
(* the stage that enacts, and only while the measure is enacted.  Without  *)
(* a date the row says Pending.                                            *)
PrintedDay ==
    IF IsEnacted(Kind, doc.stage) /\ EntriesAt(ENACTED[Kind]) # {}
    THEN LET days == {changes[id].on : id \in EntriesAt(ENACTED[Kind])}
         IN  CHOOSE day \in days : \A other \in days : other =< day
    ELSE NoDay

(* The panel's own _is_enacted goes by the order of the stages it is sent, *)
(* an ordinance's or a resolution's path one after another, then endings.  *)
Order == [ordinance  |-> <<"Filed", "First Reading", "In Committee", "Committee Report", "Second Reading",
                           "Third Reading", "Approved", "Sent to the Mayor", "Signed", "Vetoed",
                           "Lapsed into Law", "Provincial Review", "Posted", "Withdrawn", "Tabled", "Lost">>,
          resolution |-> <<"Filed", "In Committee", "Committee Report", "Adopted", "Sent to the Mayor",
                           "Signed", "Vetoed", "Withdrawn", "Tabled", "Lost">>]
Index(stage) == CHOOSE i \in DOMAIN Order[Kind] : Order[Kind][i] = stage
FormAsksNumber(stage) == ~doc.number /\ stage \notin ENDINGS /\ Index(stage) >= Index(ENACTED[Kind])

-----------------------------------------------------------------------------
(* What is shown of a measure agrees when requests run one at a time: the  *)
(* date of its stage is that of the last entry; the printed date belongs   *)
(* to a measure that is still enacted, and is the date its stages show,    *)
(* unless a correction left a later one behind; and the form asks for the  *)
(* number of a stage exactly when the request will (stage_panel.py form,   *)
(* measure_stages.py stage_summary and _set_enacted_number, print_list.py  *)
(* list_rows).                                                             *)
ViewsAgree ==
    Kind \in Kinds =>
        /\ doc.stage # NoStage /\ History # {} => Entered(doc.stage) = changes[CHOOSE id \in History : IsLatest(id)].on
        /\ PrintedDay # NoDay => /\ IsEnacted(Kind, doc.stage)
                                 /\ Entered(ENACTED[Kind]) =< PrintedDay
                                 /\ (\A id \in History : ~changes[id].correction) => Entered(ENACTED[Kind]) = PrintedDay
        /\ \A stage \in AllStages(Kind) : FormAsksNumber(stage) <=> EntersNumber(doc, Kind, stage)

(* "A measure not yet enacted is listed as Pending"                        *)
(* (print_list.py:8), under "Not yet approved" (138): an enacted one is    *)
(* not.  One that skipped Approved or Adopted, or was registered beyond    *)
(* it, is.                                                                 *)
PendingIsNotEnacted == Kind \in Kinds /\ PrintedDay = NoDay => ~IsEnacted(Kind, doc.stage)
=============================================================================
