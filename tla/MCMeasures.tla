----------------------------- MODULE MCMeasures -----------------------------
(* The stages of a measure, with what is shown of them, and the order of   *)
(* business of one session and of two, on small instances with one request *)
(* at a time; a run picks a part at the start and takes its steps only. No *)
(* step of one reads what another writes.                                  *)
EXTENDS MeasureViews, TLC

CONSTANTS Measures, Ordinances, Sessions, Numbers, OfYear, Outcomes, FewOutcomes, Outside, SessionDays, OneDay,
          MaxMoves, MaxOutcomes

VARIABLES part, docs, history, sessions, agenda, outcomes, jobs

Symmetry == Permutations(Sessions)

B == INSTANCE OrderOfBusiness WITH Asked <- Outside, Days <- SessionDays, MaxChanges <- MaxMoves

(* What OrderOfBusiness assumes of its constants holds of these. *)
ASSUME Instances == B!InputsAssumption

business == <<docs, history, sessions, agenda, outcomes, jobs>>

(* A document that is no measure and that no request is about. *)
StagesRest == /\ doc = NoDocument /\ changes = [id \in Ids |-> NoChange] /\ lastId = 0
              /\ pc = [r \in Requests |-> "idle"] /\ loc = [r \in Requests |-> NoLocals]

OneAtATime == \A q, r \in Requests : q # r => jobs[q] = B!Idle \/ jobs[r] = B!Idle

(* The part "session" has every outcome and day and one session at a time, *)
(* the part "sessions" fewer outcomes, one day and every session.          *)
IsAbsent(s) == sessions[s].status = "Absent" /\ sessions[s].on \in OneDay
IsFew(job) == /\ "entry" \in DOMAIN job => job.entry.outcome \in FewOutcomes
              /\ "day" \in DOMAIN job => job.day \in OneDay
Bounded ==
    /\ part = "session" => \E s \in Sessions : \A other \in Sessions \ {s} : IsAbsent(other)
    /\ part = "sessions" => /\ \A s \in Sessions : sessions[s].on \in OneDay
                           /\ \A r \in Requests : IsFew(jobs[r])
                           /\ \A m \in Measures : B!Last(history[m]).on \in OneDay

PartsInit ==
    \/ /\ part = "stages" /\ Init
       /\ docs = << >> /\ history = << >> /\ sessions = << >> /\ agenda = << >> /\ outcomes = << >> /\ jobs = << >>
    \/ part \in {"session", "sessions"} /\ StagesRest /\ B!Init /\ Bounded

PartsNext ==
    /\ UNCHANGED part
    /\ \/ part = "stages" /\ Next /\ UNCHANGED business
       \/ part \in {"session", "sessions"} /\ B!Next /\ UNCHANGED vars /\ OneAtATime' /\ Bounded'

parts == <<vars, part, business>>
PartsSpec == PartsInit /\ [][PartsNext]_parts

(* Outcomes enter legal moves: see OrderOfBusiness.                        *)
OutcomesAreLegal == part = "session" => B!OutcomesAreLegal

(* The history is one chain, and a held session's entries in it are its    *)
(* outcome's: see OrderOfBusiness.                                         *)
SessionsFitHistory == part = "sessions" => B!HistoryIsChain /\ B!StagesMatchOutcome

(* A held session is corrected, not edited: see OrderOfBusiness.           *)
HeldIsRecord == [][part = "sessions" => B!RecordStep]_parts
=============================================================================
