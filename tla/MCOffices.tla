----------------------------- MODULE MCOffices -----------------------------
(* What offices see and what is kept for them: the handoffs of a document  *)
(* under one request at a time, the lists of a day, temporary documents,   *)
(* retention, notices and the nightly backups, on small instances; a run   *)
(* picks a part at the start and takes its steps only.  No step of one     *)
(* reads what another writes.                                              *)
EXTENDS OfficeViews, TLC

CONSTANTS DayDocs, Entries, OneDoc, Uploads, Slots, None, MaxId, LastDay, KeepDays,
          Lengths, Times, Periods, Extensions,
          MaxNow, Day, DUE_SOON, RECENT, Kept, WARNING, MAX_ITEMS, Nights, MaxFolder, NightsKept, MaxAge

VARIABLES part, now, entries, gone, lastId, overtaken, today, rows, uploads, files,
          months, retained, jobs, office, sent, docs, retention, seen, panel,
          dest, partial, mirror, log, mirrored, job

Symmetry == Permutations(DayDocs) \cup Permutations(Slots)

(* What a cfg cannot write: months, and moments in them. *)
ShortMonths == <<31, 28, 31, 30, 31, 30, 31>>
MonthEnds == {<<1, 30>>, <<1, 31>>, <<2, 28>>, <<3, 1>>}

T == INSTANCE Todays WITH Docs <- DayDocs, Requests <- Slots, reqs <- jobs
P == INSTANCE Temporary WITH Docs <- OneDoc, Requests <- Slots, MaxDay <- LastDay, reqs <- jobs
K == INSTANCE Retention WITH Requests <- Slots, Moments <- Times, doc <- retained, reqs <- jobs
I == INSTANCE Notices WITH Handoffs <- Requests, Docs <- OneDoc, handoffs <- sent
Nightly == INSTANCE Backups WITH MaxDay <- Nights, KeepDays <- NightsKept

(* What the modules assume of their constants holds of these. *)
ASSUME Instances == /\ T!MaxIdAssumption /\ P!DaysAssumption /\ P!NoneAssumption /\ K!MonthsAssumption
                    /\ I!BoundsAssumption /\ Nightly!BoundsAssumption

todaysVars == <<entries, gone, lastId>>
temporaryVars == <<today, rows, uploads, files>>
retentionVars == <<months, retained>>
noticesVars == <<office, sent, docs, retention, seen, panel>>
nightlyVars == <<dest, partial, mirror, log, mirrored, job>>

(* A document that is placed nowhere, and no office has. *)
HandoffsRest == Init /\ doc.office = NoOffice /\ assoc = {}
TodaysRest == entries = {} /\ gone = {} /\ lastId = 0
TemporaryRests == today = 0 /\ rows = << >> /\ uploads = {} /\ files = {}
RetentionRests == months = 0 /\ retained = << >>
NoticesRest == office = FALSE /\ sent = << >> /\ docs = << >> /\ retention = << >> /\ seen = 0 /\ panel = << >>
NightlyRests == dest = {} /\ partial = {} /\ mirror = {} /\ log = << >> /\ mirrored = FALSE /\ job = << >>

PartsInit ==
    \/ /\ part = "handoffs" /\ Init
       /\ TodaysRest /\ TemporaryRests /\ RetentionRests /\ NoticesRest /\ NightlyRests
       /\ now = 0 /\ overtaken = FALSE /\ jobs = << >>
    \/ /\ part = "todays" /\ T!Init
       /\ HandoffsRest /\ TemporaryRests /\ RetentionRests /\ NoticesRest /\ NightlyRests /\ now = 0
    \/ /\ part = "temporary" /\ P!Init
       /\ HandoffsRest /\ TodaysRest /\ RetentionRests /\ NoticesRest /\ NightlyRests /\ now = 0
    \/ /\ part = "retention" /\ K!Init
       /\ HandoffsRest /\ TodaysRest /\ TemporaryRests /\ NoticesRest /\ NightlyRests
    \/ /\ part \in {"notices", "nightly"} /\ HandoffsRest /\ TodaysRest /\ TemporaryRests /\ RetentionRests
       /\ overtaken = FALSE /\ jobs = << >>
       /\ IF part = "notices" THEN I!Init /\ NightlyRests ELSE Nightly!Init /\ NoticesRest

(* Only documents can always be acted on: the other parts stop at their    *)
(* bounds.                                                                 *)
PartsNext ==
    /\ UNCHANGED part
    /\ \/ /\ part = "handoffs" /\ Next
          /\ UNCHANGED <<now, overtaken, jobs, todaysVars, temporaryVars, retentionVars, noticesVars, nightlyVars>>
       \/ /\ part = "todays" /\ T!Next
          /\ UNCHANGED <<vars, now, temporaryVars, retentionVars, noticesVars, nightlyVars>>
       \/ /\ part = "temporary" /\ P!Next
          /\ UNCHANGED <<vars, now, todaysVars, retentionVars, noticesVars, nightlyVars>>
       \/ /\ part = "retention" /\ K!Next
          /\ UNCHANGED <<vars, todaysVars, temporaryVars, noticesVars, nightlyVars>>
       \/ /\ part = "notices" /\ I!Next
          /\ UNCHANGED <<vars, overtaken, jobs, todaysVars, temporaryVars, retentionVars, nightlyVars>>
       \/ /\ part = "nightly" /\ Nightly!Next
          /\ UNCHANGED <<vars, overtaken, jobs, todaysVars, temporaryVars, retentionVars, noticesVars>>
       \/ /\ part # "handoffs"
          /\ UNCHANGED <<vars, now, overtaken, jobs, todaysVars, temporaryVars, retentionVars, noticesVars, nightlyVars>>

parts == <<vars, part, now, overtaken, jobs, todaysVars, temporaryVars, retentionVars, noticesVars, nightlyVars>>
PartsSpec == PartsInit /\ [][PartsNext]_parts

(* The lists of a day, the extensions of a date and the newest backup are  *)
(* what was set or taken: see Todays, Temporary, Retention and Backups.    *)
ListsAreKept == /\ part = "todays" => T!OrderIsOne
                /\ part = "temporary" => P!EntriesHaveTheirs
                /\ part = "retention" => K!ExtensionsEnd
                /\ part = "nightly" => Nightly!BackupsLast

(* Adding and removing keep the order of the others, and keeping longer is *)
(* longer: see Todays, Temporary and Retention.                            *)
ListsChangeAsAsked == [][/\ part = "todays" => T!OrderStep
                         /\ part = "temporary" => P!KeepStep
                         /\ part = "retention" => K!ExtendStep]_parts

(* No notification becomes read unshown: see Notices.                      *)
NewsIsShown == [][part = "notices" => I!NewsStep]_parts
=============================================================================
