------------------------------ MODULE Custody -------------------------------
(***************************************************************************)
(* What the handoff requests promise of one document, each taken as a      *)
(* whole: who holds the paper, where it is on its way to, and whether it   *)
(* is archived.  Handoffs implements it when requests run one at a time.   *)
(***************************************************************************)
CONSTANTS Offices, Nowhere

VARIABLES exists,    \* the document has not been permanently deleted
          holders,   \* the offices that may pass it on
          transit,   \* the handoff under way, or Nowhere
          archived,
          worked     \* the offices that recorded an action on it

vars == <<exists, holders, transit, archived, worked>>

InHand == exists /\ ~archived /\ transit = Nowhere

Send(o, p) ==
    /\ InHand /\ o \in holders /\ p # o
    /\ transit' = [from |-> o, to |-> p]
    /\ UNCHANGED <<exists, holders, archived, worked>>

(* The sender takes it back or the receiver declines it: nobody's custody  *)
(* changes.                                                                *)
CallOff ==
    /\ transit # Nowhere
    /\ transit' = Nowhere
    /\ UNCHANGED <<exists, holders, archived, worked>>

Receive ==
    /\ transit # Nowhere
    /\ holders' = {transit.to}
    /\ transit' = Nowhere
    /\ UNCHANGED <<exists, archived, worked>>

Act(o) ==
    /\ InHand /\ o \in holders
    /\ worked' = worked \cup {o}
    /\ UNCHANGED <<exists, holders, transit, archived>>

Archive ==
    /\ InHand
    /\ archived' = TRUE
    /\ UNCHANGED <<exists, holders, transit, worked>>

Restore ==
    /\ exists /\ archived
    /\ archived' = FALSE
    /\ UNCHANGED <<exists, holders, transit, worked>>

Delete ==
    /\ exists /\ archived
    /\ exists' = FALSE /\ archived' = FALSE
    /\ holders' = {} /\ transit' = Nowhere /\ worked' = {}

Init ==
    /\ exists = TRUE /\ archived = FALSE
    /\ holders \in SUBSET Offices
    /\ transit = Nowhere /\ worked = {}

Next ==
    \/ \E o, p \in Offices : Send(o, p)
    \/ CallOff \/ Receive
    \/ \E o \in Offices : Act(o)
    \/ Archive \/ Restore \/ Delete

Spec == Init /\ [][Next]_vars
=============================================================================
