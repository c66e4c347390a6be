------------------------------ MODULE Backups ------------------------------
(***************************************************************************)
(* The nightly backup folders, their copies on another disk, backup.log    *)
(* and the health the backend reads from it, from scripts/backup.py and    *)
(* Backends/backend/backups.py.  What a folder holds is in Storage.        *)
(*                                                                         *)
(* One run at a time, as the scheduled task has it.  It may fail or be     *)
(* stopped anywhere, also past midnight.                                   *)
(***************************************************************************)
EXTENDS Naturals, FiniteSets

CONSTANTS MaxDay,    \* BOUND: days
          MaxFolder, \* BOUND: folders of a day
          KeepDays,  \* --keep-days
          MaxAge     \* MAX_AGE, in days

BoundsAssumption == MaxDay \in Nat \ {0} /\ MaxFolder \in Nat \ {0} /\ KeepDays \in Nat /\ MaxAge \in Nat

VARIABLES now,
          dest,      \* finished folders
          partial,   \* folders that were begun and neither renamed nor removed
          mirror,    \* finished copies
          log,       \* the last line of each kind, and the folder of the last OK
          mirrored,  \* BACKUP_MIRROR_DIR is set
          job

vars == <<now, dest, partial, mirror, log, mirrored, job>>

Folders == (1 .. MaxDay) \X (1 .. MaxFolder)
NoFolder == <<0, 0>>
Idle == [step |-> "idle", day |-> 0, folder |-> NoFolder]
Results == {"none", "OK", "FAILED"}

(* at: the day of the last OK line; copied: the folder of MIRROR OK.       *)
TypeOK ==
    /\ now \in 1 .. MaxDay
    /\ dest \subseteq Folders /\ partial \subseteq Folders /\ mirror \subseteq Folders
    /\ dest \cap partial = {}
    /\ log \in [run : Results, at : 0 .. MaxDay, folder : Folders \cup {NoFolder},
                copy : Results, copied : Folders \cup {NoFolder}]
    /\ mirrored \in BOOLEAN
    /\ job \in [step : {"idle", "writing", "written", "cleaned", "logged", "copying", "copied"}, day : 0 .. MaxDay,
                folder : Folders \cup {NoFolder}]

Init == /\ now = 1 /\ dest = {} /\ partial = {} /\ mirror = {} /\ mirrored \in BOOLEAN
        /\ log = [run |-> "none", at |-> 0, folder |-> NoFolder, copy |-> "none", copied |-> NoFolder]
        /\ job = Idle

(* A run is stopped after an hour. *)
Midnight == now < MaxDay /\ (job = Idle \/ job.folder[1] = now) /\ now' = now + 1 /\ UNCHANGED <<dest, partial, mirror, log, mirrored, job>>

SetMirror == mirrored' = ~mirrored /\ UNCHANGED <<now, dest, partial, mirror, log, job>>

(* A name of a run that was stopped is not taken again. *)
_new_folder(n) == /\ <<now, n>> \notin dest \cup partial
                  /\ \A k \in 1 .. n - 1 : <<now, k>> \in dest \cup partial

(* What is left: the folder of the run, and what is younger than its days. *)
_remove_old(folders, day, keep) == {f \in folders : f = keep \/ f[1] + KeepDays >= day}
(* ... or more, when it ends before all are removed.                       *)
RemovedTillNow(folders) == {left \in SUBSET folders : _remove_old(folders, job.day, job.folder) \subseteq left}

Begin(n) ==
    /\ job = Idle /\ _new_folder(n)
    /\ partial' = partial \cup {<<now, n>>}
    /\ job' = [step |-> "writing", day |-> now, folder |-> <<now, n>>]
    /\ UNCHANGED <<now, dest, mirror, log, mirrored>>

Rename ==
    /\ job.step = "writing"
    /\ dest' = dest \cup {job.folder} /\ partial' = partial \ {job.folder}
    /\ job' = [job EXCEPT !.step = "written"]
    /\ UNCHANGED <<now, mirror, log, mirrored>>

WriteFails ==
    /\ job.step = "writing"
    /\ partial' = partial \ {job.folder}
    /\ log' = [log EXCEPT !.run = "FAILED"]
    /\ job' = Idle
    /\ UNCHANGED <<now, dest, mirror, mirrored>>

RemoveOld ==
    /\ job.step = "written"
    /\ dest' = _remove_old(dest, job.day, job.folder)
    /\ job' = [job EXCEPT !.step = "cleaned"]
    /\ UNCHANGED <<now, partial, mirror, log, mirrored>>

Done ==
    /\ job.step = "cleaned"
    /\ log' = [log EXCEPT !.run = "OK", !.at = now, !.folder = job.folder]
    /\ job' = IF mirrored THEN [job EXCEPT !.step = "logged"] ELSE Idle
    /\ UNCHANGED <<now, dest, partial, mirror, mirrored>>

(* Its age is counted from now, no longer from the start of the run. *)
CopyBegins ==
    /\ job.step = "logged"
    /\ job' = [job EXCEPT !.step = "copying", !.day = now]
    /\ UNCHANGED <<now, dest, partial, mirror, log, mirrored>>

Copy ==
    /\ job.step = "copying"
    /\ mirror' = _remove_old(mirror \cup {job.folder}, job.day, job.folder)
    /\ job' = [job EXCEPT !.step = "copied"]
    /\ UNCHANGED <<now, dest, partial, log, mirrored>>

CopyLogged ==
    /\ job.step = "copied"
    /\ log' = [log EXCEPT !.copy = "OK", !.copied = job.folder]
    /\ job' = Idle
    /\ UNCHANGED <<now, dest, partial, mirror, mirrored>>

(* Also after the copy got its name, when an old one cannot be removed. *)
CopyFails ==
    /\ job.step = "copying"
    /\ mirror' \in {mirror} \cup RemovedTillNow(mirror \cup {job.folder})
    /\ log' = [log EXCEPT !.copy = "FAILED"]
    /\ job' = Idle
    /\ UNCHANGED <<now, dest, partial, mirrored>>

(* The computer is switched off, or an old folder cannot be removed. *)
Stop ==
    /\ job # Idle
    /\ job' = Idle
    /\ dest' \in IF job.step = "written" THEN RemovedTillNow(dest) ELSE {dest}
    /\ mirror' \in IF job.step = "copying" THEN {mirror} \cup RemovedTillNow(mirror \cup {job.folder}) ELSE {mirror}
    /\ UNCHANGED <<now, partial, log, mirrored>>

Next == \/ Midnight \/ SetMirror \/ \E n \in 1 .. MaxFolder : Begin(n)
        \/ Rename \/ WriteFails \/ RemoveOld \/ Done \/ CopyBegins \/ Copy \/ CopyLogged \/ CopyFails \/ Stop

Spec == Init /\ [][Next]_vars

(* No problem is found: it is reported operational. *)
backup_health == /\ log.at # 0 /\ now <= log.at + MaxAge /\ log.run # "FAILED"
                 /\ mirrored /\ log.copy # "FAILED"

-----------------------------------------------------------------------------
(* Once a backup, or a copy, was logged as done, there always is one as    *)
(* late, whichever step of later runs fails.                               *)
LastStays == /\ log.folder # NoFolder => \E f \in dest : f[1] >= log.folder[1]
             /\ log.copied # NoFolder => \E f \in mirror : f[1] >= log.copied[1]

(* While the backups are reported operational, there is one of the last    *)
(* days.                                                                   *)
HealthMeansBackup == backup_health => \E f \in dest : f[1] + MaxAge + 1 >= now

(* The newest backup outlives the runs after it, and is what the health    *)
(* shown rests on (scripts/backup.py run_backup, backups.py backup_health).*)
BackupsLast == TypeOK /\ LastStays /\ HealthMeansBackup
=============================================================================
