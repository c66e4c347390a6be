------------------------------ MODULE Storage ------------------------------
(***************************************************************************)
(* The files of documents: the rows of attachments and documents beside    *)
(* the folder DOCUMENT_STORAGE_DIR, which no transaction covers.  From     *)
(* Backends/backend/routes/documents.py (registration, replacement,        *)
(* permanent deletion), scripts/migrate_attachment_storage.py and          *)
(* scripts/backup.py, and the restore of docs/backups.md.                  *)
(*                                                                         *)
(* A file is written under a name of its own before its row is committed,  *)
(* and the one it replaces is removed afterwards; a deletion removes the   *)
(* file first.  The server may stop between any two of these.  A document  *)
(* has one file, as registration gives it.                                 *)
(***************************************************************************)
EXTENDS Naturals, FiniteSets

CONSTANTS Docs,      \* the ids of documents
          Contents,  \* what a file can hold; its checksum tells them apart
          Requests,  \* slots for requests, and the migration, at one time
          None,      \* no file
          MaxName    \* BOUND: names of stored files

ASSUME MaxNameAssumption == MaxName \in Nat \ {0}
ASSUME NoneAssumption == None \notin Docs \cup Contents

VARIABLES rows,    \* stored_path and checksum of the attachment, attachment_name of the document
          files,   \* the content of each file of the two folders
          names,   \* the names used so far
          reqs,    \* what each request is about to do
          backup,  \* the backup that is being taken
          kept     \* the last one that succeeded

vars == <<rows, files, names, reqs, backup, kept>>

Folders == {"legacy", "storage"}
Names == 1 .. MaxName
Paths == Folders \X Names
NoPath == <<"nowhere", 0>>
At(n) == <<"storage", n>>

(* crossed: two requests that had read the same row have changed it.       *)
(* torn: a deletion took the file and has not committed, or a replacement  *)
(* could not read back what it had committed and took its new file again.  *)
NoRow == [state |-> "none", path |-> NoPath, sum |-> None, name |-> 0, crossed |-> FALSE, torn |-> FALSE]
Idle == [op |-> "idle", doc |-> None, old |-> NoPath, new |-> NoPath, sum |-> None, was |-> None, fresh |-> TRUE]
NoBackup == [phase |-> "none", rows |-> [d \in Docs |-> NoRow], todo |-> {}, copy |-> [p \in Paths |-> None], moved |-> {}]

Row == [state : {"none", "registered", "attached", "gone"}, path : Paths \cup {NoPath}, sum : Contents \cup {None},
        name : Names \cup {0}, crossed : BOOLEAN, torn : BOOLEAN]

Request == [op : {"idle", "attach", "replace", "tidy", "delete", "migrate"}, doc : Docs \cup {None},
            old : Paths \cup {NoPath}, new : Paths \cup {NoPath},
            sum : Contents \cup {None}, was : Contents \cup {None}, fresh : BOOLEAN]

Backup == [phase : {"none", "dumped", "copying", "done"}, rows : [Docs -> Row], todo : SUBSET Paths,
           copy : [Paths -> Contents \cup {None}], moved : SUBSET Docs]

TypeOK ==
    /\ rows \in [Docs -> Row]
    /\ files \in [Paths -> Contents \cup {None}]
    /\ names \in 0 .. MaxName
    /\ reqs \in [Requests -> Request]
    /\ backup \in Backup /\ kept \in Backup

(* A file may still be in the folder used before. *)
Init == \E old \in {{}} \cup {{d} : d \in Docs}, c \in Contents :
    /\ rows = [d \in Docs |-> IF d \in old
                              THEN [NoRow EXCEPT !.state = "attached", !.path = <<"legacy", 1>>, !.sum = c, !.name = 1]
                              ELSE NoRow]
    /\ files = [p \in Paths |-> IF old # {} /\ p = <<"legacy", 1>> THEN c ELSE None]
    /\ names = Cardinality(old)
    /\ reqs = [r \in Requests |-> Idle]
    /\ backup = NoBackup /\ kept = NoBackup

Exists(d) == rows[d].state \in {"registered", "attached"}
HasFile(d) == rows[d].state = "attached"
OnDisk(p) == p # NoPath /\ files[p] # None
SameSum(d, c) == \E e \in Docs \ {d} : HasFile(e) /\ rows[e].sum = c

Load(r, job) == reqs[r].op = "idle" /\ reqs' = [reqs EXCEPT ![r] = job]
(* The row of d was changed by r. *)
Crossing(r, d, next) == reqs' = [q \in Requests |-> IF q = r THEN next
                                                   ELSE IF reqs[q].doc = d THEN [reqs[q] EXCEPT !.fresh = FALSE] ELSE reqs[q]]
(* A file or row of d goes or changes after a dump of it. *)
Moves(d) == backup' = IF backup.phase = "none" THEN backup ELSE [backup EXCEPT !.moved = @ \cup {d}]

(* Under a new name, of the time and a random part. *)
Write(r, op, d, c) ==
    /\ names < MaxName
    /\ names' = names + 1
    /\ files' = [files EXCEPT ![At(names + 1)] = c]
    /\ Load(r, [Idle EXCEPT !.op = op, !.doc = d, !.old = rows[d].path, !.new = At(names + 1), !.sum = c, !.was = rows[d].sum])

(* The document is committed; the file of its registration is on disk. *)
Register(r, d, c) ==
    /\ rows[d].state = "none" /\ ~SameSum(d, c)
    /\ Write(r, "attach", d, c)
    /\ rows' = [rows EXCEPT ![d].state = "registered"]
    /\ UNCHANGED <<backup, kept>>

AttachCommit(r) ==
    LET job == reqs[r] IN
    /\ job.op = "attach" /\ Exists(job.doc)
    /\ rows' = [rows EXCEPT ![job.doc] = [@ EXCEPT !.state = "attached", !.path = job.new, !.sum = job.sum, !.name = job.new[2]]]
    /\ Crossing(r, job.doc, Idle)
    /\ UNCHANGED <<files, names, backup, kept>>

(* Its own checksum is not looked at: the same file may replace itself. *)
ReplaceLoad(r, d, c) ==
    /\ HasFile(d) /\ ~SameSum(d, c)
    /\ Write(r, "replace", d, c)
    /\ UNCHANGED <<rows, backup, kept>>

(* Of the checksum, only a change from the one loaded is written. *)
ReplaceCommit(r) ==
    LET job == reqs[r]
        d == job.doc IN
    /\ job.op = "replace" /\ HasFile(d)
    /\ rows' = [rows EXCEPT ![d] = [@ EXCEPT !.path = job.new, !.sum = IF job.sum = job.was THEN rows[d].sum ELSE job.sum,
                                             !.name = job.new[2], !.torn = FALSE, !.crossed = ~job.fresh]]
    /\ Crossing(r, d, [job EXCEPT !.op = "tidy"])
    /\ UNCHANGED <<files, names, backup, kept>>

(* It fails up to the commit: the new file goes again. *)
ReplaceFails(r) ==
    /\ reqs[r].op = "replace"
    /\ files' = [files EXCEPT ![reqs[r].new] = None]
    /\ reqs' = [reqs EXCEPT ![r] = Idle]
    /\ UNCHANGED <<rows, names, backup, kept>>

\* MUTANT: the file of the row as it is now is removed.
TidyNow(r) ==
    /\ reqs[r].op = "tidy"
    /\ files' = [files EXCEPT ![rows[reqs[r].doc].path] = None]
    /\ Moves(reqs[r].doc)
    /\ reqs' = [reqs EXCEPT ![r] = Idle]
    /\ UNCHANGED <<rows, names, kept>>
(* The file that was replaced is removed. *)
Tidy(r) ==
    /\ reqs[r].op = "tidy"
    /\ files' = [files EXCEPT ![reqs[r].old] = None]
    /\ Moves(reqs[r].doc)
    /\ reqs' = [reqs EXCEPT ![r] = Idle]
    /\ UNCHANGED <<rows, names, kept>>

(* The commit stood, but the row could not be read again: the new file goes *)
(* all the same, and the row is left with the path of it.                   *)
ReplaceUnread(r) ==
    LET job == reqs[r]
        d == job.doc IN
    /\ job.op = "tidy"
    /\ files' = [files EXCEPT ![job.new] = None]
    /\ rows' = [rows EXCEPT ![d].torn = @ \/ (HasFile(d) /\ rows[d].path = job.new)]
    /\ Moves(d)
    /\ reqs' = [reqs EXCEPT ![r] = Idle]
    /\ UNCHANGED <<names, kept>>

(* An archived document's file is removed before its rows. *)
DeleteFiles(r, d) ==
    /\ Exists(d)
    /\ Load(r, [Idle EXCEPT !.op = "delete", !.doc = d, !.old = rows[d].path])
    /\ files' = [p \in Paths |-> IF p = rows[d].path THEN None ELSE files[p]]
    /\ rows' = [rows EXCEPT ![d].torn = HasFile(d)]
    /\ Moves(d)
    /\ UNCHANGED <<names, kept>>

(* A file that was not there to be loaded keeps the document. *)
DeleteCommit(r) ==
    LET d == reqs[r].doc IN
    /\ reqs[r].op = "delete"
    /\ reqs[r].old = NoPath => ~HasFile(d)
    /\ rows' = [rows EXCEPT ![d] = [NoRow EXCEPT !.state = "gone"]]
    /\ Crossing(r, d, Idle)
    /\ UNCHANGED <<files, names, backup, kept>>

(* The request fails, or the server stops: its files stay as they are. *)
Fail(r) ==
    /\ reqs[r].op \in {"attach", "replace", "tidy", "delete", "migrate"}
    /\ reqs' = [reqs EXCEPT ![r] = Idle]
    /\ UNCHANGED <<rows, files, names, backup, kept>>

(* The migration copies what it read and keeps the original. *)
Migrate(r, d) ==
    /\ HasFile(d) /\ rows[d].path[1] = "legacy" /\ OnDisk(rows[d].path)
    /\ ~OnDisk(At(rows[d].path[2]))
    /\ files' = [files EXCEPT ![At(rows[d].path[2])] = files[rows[d].path]]
    /\ Load(r, [Idle EXCEPT !.op = "migrate", !.doc = d, !.new = At(rows[d].path[2])])
    /\ UNCHANGED <<rows, names, backup, kept>>

MigrateCommit(r) ==
    LET job == reqs[r] IN
    /\ job.op = "migrate" /\ HasFile(job.doc)
    /\ rows' = [rows EXCEPT ![job.doc] = [@ EXCEPT !.path = job.new, !.crossed = rows[job.doc].crossed \/ ~job.fresh]]
    /\ Crossing(r, job.doc, Idle)
    /\ UNCHANGED <<files, names, backup, kept>>

-----------------------------------------------------------------------------
(* A backup dumps the database first, then copies the files it lists.      *)
Dump ==
    /\ backup.phase = "none"
    /\ backup' = [NoBackup EXCEPT !.phase = "dumped", !.rows = rows]
    /\ UNCHANGED <<rows, files, names, reqs, kept>>

List ==
    /\ backup.phase = "dumped"
    /\ backup' = [backup EXCEPT !.phase = "copying", !.todo = {p \in Paths : p[1] = "storage" /\ OnDisk(p)}]
    /\ UNCHANGED <<rows, files, names, reqs, kept>>

CopyFile(p) ==
    /\ backup.phase = "copying" /\ p \in backup.todo /\ OnDisk(p)
    /\ backup' = [backup EXCEPT !.todo = @ \ {p}, !.copy[p] = files[p]]
    /\ UNCHANGED <<rows, files, names, reqs, kept>>

(* Also when a listed file is gone: nothing partial is left. *)
BackupFails ==
    /\ backup.phase # "none"
    /\ backup' = NoBackup
    /\ UNCHANGED <<rows, files, names, reqs, kept>>

\* MUTANT: the database is dumped after the files are copied.
FinishDumpingLast ==
    /\ backup.phase = "copying" /\ backup.todo = {}
    /\ kept' = [backup EXCEPT !.phase = "done", !.rows = rows] /\ backup' = NoBackup
    /\ UNCHANGED <<rows, files, names, reqs>>
Finish ==
    /\ backup.phase = "copying" /\ backup.todo = {}
    /\ kept' = [backup EXCEPT !.phase = "done"] /\ backup' = NoBackup
    /\ UNCHANGED <<rows, files, names, reqs>>

(* With the backend stopped, the files are made to match the backup, which *)
(* has none of the folder used before.                                     *)
Restore ==
    /\ kept.phase = "done" /\ backup.phase = "none"
    /\ rows' = [d \in Docs |-> [kept.rows[d] EXCEPT !.torn = @ \/ d \in kept.moved \/ kept.rows[d].path[1] = "legacy"]]
    /\ files' = [p \in Paths |-> IF p[1] = "legacy" THEN files[p] ELSE kept.copy[p]]
    /\ reqs' = [r \in Requests |-> Idle]
    /\ UNCHANGED <<names, backup, kept>>

Next ==
    \/ \E r \in Requests :
        \/ \E d \in Docs, c \in Contents : Register(r, d, c) \/ ReplaceLoad(r, d, c)
        \/ \E d \in Docs : DeleteFiles(r, d) \/ Migrate(r, d)
        \/ AttachCommit(r) \/ ReplaceCommit(r) \/ ReplaceFails(r) \/ ReplaceUnread(r) \/ Tidy(r)
        \/ DeleteCommit(r) \/ MigrateCommit(r) \/ Fail(r)
    \/ Dump \/ List \/ Finish \/ BackupFails \/ Restore
    \/ \E p \in Paths : CopyFile(p)

Spec == Init /\ [][Next]_vars

-----------------------------------------------------------------------------
(* Whatever fails or overlaps, the file of a document is on disk, unless a *)
(* deletion that did not commit or a replacement that could not read back  *)
(* its row took it, or the backup restored lacks it: replaced or deleted   *)
(* while it was taken, or in the old folder.                               *)
FilesOfRows == \A d \in Docs : HasFile(d) /\ ~rows[d].torn => OnDisk(rows[d].path)

(* It holds what its checksum and its name say, unless two that had read   *)
(* the same row changed it.                                                *)
SumsOfFiles == \A d \in Docs : HasFile(d) /\ ~rows[d].torn /\ ~rows[d].crossed
                               => /\ files[rows[d].path] = rows[d].sum
                                  /\ rows[d].path[2] = rows[d].name

(* A backup has the file of every document in its dump, unless that was    *)
(* replaced or deleted while it was taken, or a deletion or a replacement  *)
(* that did not end as it should had taken it before.                      *)
BackupsHaveFiles ==
    \A d \in Docs : kept.phase = "done" /\ kept.rows[d].state = "attached" /\ kept.rows[d].path[1] = "storage"
                    /\ ~kept.rows[d].torn /\ d \notin kept.moved
                    => kept.copy[kept.rows[d].path] # None

(* Rows and files agree after every step of attaching, replacing, deleting *)
(* and migrating that may be the last one (documents.py                    *)
(* replace_attachment, permanently_delete_document).                       *)
FilesMatchRows == TypeOK /\ FilesOfRows /\ SumsOfFiles
=============================================================================
