----------------------------- MODULE MCWorkspace -----------------------------
(* Two pages of the administrator's app on small instances: Workspace, one  *)
(* page that two accounts use in turn, and BulkRegister, the dialog that   *)
(* registers several documents.  A run picks a part at the start.          *)
EXTENDS Workspace

CONSTANTS Picks, Slots

VARIABLES part, tmps, rows, type, picking, busy, later, reqs, docs, untold

dialog == <<tmps, rows, type, picking, busy, later, reqs, docs, untold>>
allvars == <<part, vars, dialog>>

D == INSTANCE BulkRegister WITH Names <- {"scan"}, Types <- {"Resolution"}, Content <- [f \in {"scan"} |-> f],
         Number <- [f \in {"scan"} |-> 1], NamedFor <- [f \in {"scan"} |-> None],
         Clicks <- Picks, Requests <- Slots, MaxTmp <- 2, MaxDocs <- 2

(* What BulkRegister assumes of its constants holds of these.              *)
ASSUME Instance == D!FilesAssumption

MCInit == part \in {"workspace", "dialog"} /\ Init /\ D!Init

MCNext ==
    /\ UNCHANGED part
    /\ \/ part = "workspace" /\ Next /\ UNCHANGED dialog
       \/ part = "dialog" /\ D!Next /\ UNCHANGED vars

(* Fairness asks nothing of the part that is not picked: it rests as it    *)
(* began, with nobody logged in, or no file chosen.                        *)
MCSpec == MCInit /\ [][MCNext]_allvars /\ Fairness /\ D!Fairness

(* The dialog settles: see BulkRegister.                                   *)
DialogSettles == D!DialogSettles
=============================================================================
