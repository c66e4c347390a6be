----------------------------- MODULE MCRecords -----------------------------
(* The files of documents and their backups, the registration of documents *)
(* and the dialog that registers several, on small instances; a run picks  *)
(* a part at the start and takes its steps only.  No step of one reads what*)
(* another writes.                                                         *)
EXTENDS Storage, TLC

CONSTANTS Types, OneType, Numbers, OneContent, Uploads, MaxNumber, OneRequest,
          Scans, ScanTypes, MaxTmp, MaxDocs

VARIABLES part, docs, given, tmp, jobs, table, tmps, type, picking, busy, later, untold

Symmetry == Permutations(Docs) \cup Permutations(Contents) \cup Permutations(Requests)

R == INSTANCE Registration WITH Contents <- OneContent, reqs <- jobs

(* A scan whose name says its type, and one whose name does not.           *)
Scanned == [f \in Scans |-> f]
Numbered == [f \in Scans |-> 1]
Named == [f \in Scans |-> IF f = "resolution" THEN "Resolution" ELSE None]
Bulk == INSTANCE BulkRegister WITH Names <- Scans, Types <- ScanTypes, Content <- Scanned, Number <- Numbered,
         NamedFor <- Named, Clicks <- OneRequest, rows <- table, reqs <- jobs

(* What the modules assume of their constants holds of these. *)
ASSUME Instances == /\ R!MaxNumberAssumption /\ R!NoneAssumption
                    /\ Bulk!FilesAssumption

numbersVars == <<given, tmp>>
dialogVars == <<table, tmps, type, picking, busy, later, untold>>

(* No document, and no file. *)
FilesRest == Init /\ names = 0
NumbersRest == given = << >> /\ tmp = << >>
DialogRests == table = << >> /\ tmps = << >> /\ type = None /\ picking = << >> /\ busy = None /\ later = << >> /\ untold = {}

PartsInit ==
    \/ part \in {"files", "backups"} /\ Init /\ NumbersRest /\ DialogRests /\ docs = << >> /\ jobs = << >>
    \/ part \in {"registration", "numbers"} /\ R!Init /\ FilesRest /\ DialogRests
    \/ part \in {"overlap", "typed"} /\ Bulk!Init /\ FilesRest /\ NumbersRest

FilesNext == Next /\ UNCHANGED <<backup, kept>>

(* One request at a time and two files of one content, beside a backup.    *)
OneBusy == \A q, r \in Requests : reqs'[q].op # "idle" /\ reqs'[r].op # "idle" => q = r
SameContent == \A p, q \in Paths : files'[p] # None /\ files'[q] # None => files'[p] = files'[q]
BackupsNext == Next /\ OneBusy /\ SameContent /\ names' <= 2

(* With files, legislative numbers and uploads there is one type and a     *)
(* number less; without them every type and number.                        *)
OneOfTypes == /\ \A r \in Requests : jobs[r].type \in OneType \cup {None}
              /\ \A t \in Types : given[t] < MaxNumber
NumbersOnly == /\ \A r \in Requests : jobs[r].file = None /\ jobs[r].legis = None
               /\ \A d \in Docs : docs[d].legis = None
               /\ \A u \in Uploads : tmp[u] = None

(* Requests that overlap for files of one name and type, or both files and *)
(* types, one request at a time and one document.                          *)
OverlapOnly == type # "Ordinance" /\ \A c \in OneRequest : picking[c] \subseteq {"scan"}
TypedOnly == DOMAIN docs \subseteq {1} /\ \A q, r \in Requests : jobs[q].at # "idle" /\ jobs[r].at # "idle" => q = r

PartsNext ==
    /\ UNCHANGED part
    /\ \/ part = "files" /\ FilesNext /\ UNCHANGED <<docs, jobs, numbersVars, dialogVars>>
       \/ part = "backups" /\ BackupsNext /\ UNCHANGED <<docs, jobs, numbersVars, dialogVars>>
       \/ part = "registration" /\ R!Next /\ OneOfTypes' /\ UNCHANGED <<vars, dialogVars>>
       \/ part = "numbers" /\ R!Next /\ NumbersOnly' /\ UNCHANGED <<vars, dialogVars>>
       \/ part = "overlap" /\ Bulk!Next /\ OverlapOnly' /\ UNCHANGED <<vars, numbersVars>>
       \/ part = "typed" /\ Bulk!Next /\ TypedOnly' /\ UNCHANGED <<vars, numbersVars>>

parts == <<vars, part, docs, jobs, numbersVars, dialogVars>>
PartsSpec == PartsInit /\ [][PartsNext]_parts

(* No two documents have one number or file: see Registration.             *)
RegisteredOnce == part \in {"registration", "numbers"} => R!RegisteredOnce

(* What is registered several at once was asked for: see BulkRegister.     *)
RegisteredAsAsked == part \in {"overlap", "typed"} => Bulk!RegisteredAsAsked

(* The rows of the dialog say what became of them: see BulkRegister.       *)
RowsTellTruth == part \in {"overlap", "typed"} => Bulk!RowsTellTruth

(* A document is found by every number it ever had: see Registration.      *)
Found == [][part = "numbers" => R!FoundStep]_parts
=============================================================================
