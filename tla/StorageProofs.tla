--------------------------- MODULE StorageProofs ---------------------------
(***************************************************************************)
(* Rows and files agree, and a backup has the files of its rows, for any   *)
(* number of documents, requests, contents and names, whatever fails,      *)
(* overlaps or is restored.                                                *)
(*                                                                         *)
(* A file is written under an index nobody used before, so the paths of    *)
(* one document, wherever they are held, are never those of another        *)
(* (OwnNames); the new file of a request is its own until the row has it   *)
(* (Private); what a request knows of the row is true as long as nobody    *)
(* else changed that (Loaded); a row in the old folder was never replaced  *)
(* (LegacyFirst).                                                          *)
(*                                                                         *)
(* Then what is kept for a while: temporary documents with their files,    *)
(* and the dates archived documents are kept until.  Last, the             *)
(* registration of documents: every number in use was drawn from its       *)
(* sequence, the number a retype will keep as an alias is the document's   *)
(* own, and what a request looked for and did not find is still not there  *)
(* unless it was overtaken.                                                *)
(***************************************************************************)
EXTENDS MCRecords, FiniteSetTheorems, SequenceTheorems, WellFoundedInduction, TLAPS

Writing == {"attach", "replace", "migrate"}
Busy(r) == reqs[r].op # "idle"

(* The documents a path is held for: in a row, in one of a backup, or by a *)
(* request.                                                                *)
Uses(d, p) ==
    \/ p = rows[d].path \/ p = backup.rows[d].path \/ p = kept.rows[d].path
    \/ \E r \in Requests : Busy(r) /\ reqs[r].doc = d /\ (p = reqs[r].old \/ p = reqs[r].new)

OwnNames ==
    \A d \in Docs, p \in Paths : Uses(d, p) =>
        /\ p[2] <= names
        /\ \A e \in Docs, q \in Paths : e # d /\ Uses(e, q) => p[2] # q[2]

Jobs == \A r \in Requests : Busy(r) => reqs[r].doc \in Docs

FiledRow(row) == IF row.state = "attached" THEN row.path \in Paths /\ row.sum \in Contents ELSE row.path = NoPath
Filed == \A d \in Docs : FiledRow(rows[d]) /\ FiledRow(backup.rows[d]) /\ FiledRow(kept.rows[d])

PrivateFile(r) ==
    /\ reqs[r].new \in Paths /\ reqs[r].new[1] = "storage" /\ files[reqs[r].new] # None
    /\ \A d \in Docs : rows[d].path # reqs[r].new /\ backup.rows[d].path # reqs[r].new
    /\ \A q \in Requests : /\ Busy(q) => reqs[q].old # reqs[r].new
                           /\ q # r /\ reqs[q].op \in Writing \cup {"tidy"} => reqs[q].new # reqs[r].new
Private == \A r \in Requests : reqs[r].op \in Writing => PrivateFile(r)

LoadedJob(job) ==
    /\ job.op \in {"attach", "replace"} => job.sum \in Contents /\ files[job.new] = job.sum
    /\ job.op = "replace" /\ job.fresh => rows[job.doc].sum = job.was
    /\ job.op = "migrate" /\ job.fresh /\ HasFile(job.doc) /\ ~rows[job.doc].torn /\ ~rows[job.doc].crossed
          => files[job.new] = rows[job.doc].sum /\ job.new[2] = rows[job.doc].name
    /\ job.op \in {"replace", "tidy"} => job.old \in Paths
    /\ job.op = "tidy" => \A d \in Docs : rows[d].path # job.old
Loaded == \A r \in Requests : LoadedJob(reqs[r])

LegacyFirst ==
    \A d \in Docs : HasFile(d) /\ rows[d].path[1] = "legacy" =>
        /\ \A r \in Requests : Busy(r) /\ reqs[r].doc = d => reqs[r].old[1] # "storage" /\ reqs[r].op # "tidy"
        /\ backup.rows[d].path[1] # "storage"

(* What the file of a row holds. *)
Right(row, content) == content # None /\ (~row.crossed => content = row.sum /\ row.path[2] = row.name)
Agree == \A d \in Docs : HasFile(d) /\ ~rows[d].torn => Right(rows[d], files[rows[d].path])

(* A backup owes the file of a document. *)
Due(b, d) == b.rows[d].state = "attached" /\ b.rows[d].path[1] = "storage" /\ ~b.rows[d].torn /\ d \notin b.moved
Dumped ==
    \A d \in Docs : Due(backup, d) =>
        IF backup.phase = "dumped" \/ backup.rows[d].path \in backup.todo
        THEN Right(backup.rows[d], files[backup.rows[d].path])
        ELSE Right(backup.rows[d], backup.copy[backup.rows[d].path])
Copied == \A d \in Docs : Due(kept, d) => Right(kept.rows[d], kept.copy[kept.rows[d].path])
Phases == /\ backup.phase # "done"
          /\ backup.phase = "none" => backup = NoBackup

IInv == /\ TypeOK /\ OwnNames /\ Jobs /\ Filed /\ Private /\ Loaded /\ LegacyFirst
        /\ Agree /\ Dumped /\ Copied /\ Phases

-----------------------------------------------------------------------------
(* Paths                                                                   *)

LEMMA PathsAre == /\ \A p \in Paths : p[1] \in Folders /\ p[2] \in Names /\ p = <<p[1], p[2]>>
                  /\ \A n \in Names : At(n) \in Paths /\ At(n)[1] = "storage" /\ At(n)[2] = n /\ <<"legacy", n>> \in Paths
                  /\ NoPath \notin Paths /\ NoPath[1] = "nowhere"
  BY DEF Paths, Folders, Names, At, NoPath

LEMMA NamesAre == /\ MaxName \in Nat /\ MaxName >= 1
                  /\ \A n : n \in Names <=> n \in Nat /\ 1 <= n /\ n <= MaxName
                  /\ \A n \in Names : n \in Nat
  BY MaxNameAssumption DEF Names

LEMMA Storageless == \A p \in Paths : p[1] # "legacy" => p[1] = "storage"
  BY PathsAre DEF Folders

LEMMA NoRowTyped == NoRow \in Row /\ FiledRow(NoRow) /\ NoRow.state = "none" /\ NoRow.path = NoPath /\ ~NoRow.torn
  BY DEF NoRow, Row, FiledRow

LEMMA IdleTyped == Idle \in Request /\ Idle.op = "idle"
  BY DEF Idle, Request

LEMMA NoBackupTyped ==
    /\ NoBackup \in Backup /\ NoBackup.phase = "none"
    /\ \A d \in Docs : NoBackup.rows[d] = NoRow
  BY NoRowTyped DEF NoBackup, Backup

-----------------------------------------------------------------------------
(* What a step leaves of the requests and rows                             *)

(* Of another request, only that the row changed under it.                 *)
SameJob(q) ==
    /\ reqs'[q].op = reqs[q].op /\ reqs'[q].doc = reqs[q].doc
    /\ reqs'[q].old = reqs[q].old /\ reqs'[q].new = reqs[q].new
    /\ reqs'[q].sum = reqs[q].sum /\ reqs'[q].was = reqs[q].was
    /\ reqs'[q].fresh => reqs[q].fresh
Others(r) == \A q \in Requests : q # r => SameJob(q)

SameRow(d) ==
    /\ rows'[d].path = rows[d].path /\ rows'[d].sum = rows[d].sum /\ rows'[d].name = rows[d].name
    /\ rows'[d].crossed = rows[d].crossed /\ rows'[d].torn = rows[d].torn
    /\ rows'[d].state = "attached" <=> rows[d].state = "attached"
SameRows == \A d \in Docs : SameRow(d)

(* Every path a step holds has an index its document had, or the next one. *)
Inherits(d) ==
    \A e \in Docs, p \in Paths : Uses(e, p)' =>
        \/ \E q \in Paths : Uses(e, q) /\ q[2] = p[2]
        \/ e = d /\ p[2] = names + 1 /\ names' = names + 1

LEMMA OwnNamesKept ==
  ASSUME OwnNames, NEW d, Inherits(d), names \in Nat, names' \in Nat, names' >= names
  PROVE  OwnNames'
<1>1. \A p \in Paths : p[2] \in Nat
  BY PathsAre, NamesAre
<1>2. ASSUME NEW e \in Docs, NEW p \in Paths, Uses(e, p)'
      PROVE  /\ p[2] <= names'
             /\ \A f \in Docs, q \in Paths : f # e /\ Uses(f, q)' => p[2] # q[2]
  <2>1. p[2] <= names'
    BY <1>1, <1>2 DEF OwnNames, Inherits
  <2>2. ASSUME NEW f \in Docs, NEW q \in Paths, f # e, Uses(f, q)'
        PROVE  p[2] # q[2]
    <3>1. CASE \E x \in Paths : Uses(e, x) /\ x[2] = p[2]
      BY <1>1, <2>2, <3>1 DEF OwnNames, Inherits
    <3>2. CASE e = d /\ p[2] = names + 1 /\ names' = names + 1
      BY <1>1, <2>2, <3>2 DEF OwnNames, Inherits
    <3>3. QED  BY <1>2, <3>1, <3>2 DEF Inherits
  <2>3. QED  BY <2>1, <2>2
<1>3. QED  BY <1>2 DEF OwnNames

(* A path of one document is none of another, and none of the next names.  *)
LEMMA Apart ==
  ASSUME OwnNames, NEW d \in Docs, NEW e \in Docs, d # e, NEW p \in Paths, NEW q \in Paths, Uses(d, p), Uses(e, q)
  PROVE  p # q /\ p[2] # q[2]
  BY DEF OwnNames

LEMMA NextIsFree ==
  ASSUME OwnNames, NEW d \in Docs, NEW p, Uses(d, p), names \in Nat, names + 1 \in Names
  PROVE  p # At(names + 1)
<1>1. CASE p \in Paths
  <2>1. p[2] <= names /\ p[2] \in Nat
    BY <1>1, PathsAre, NamesAre DEF OwnNames
  <2>2. At(names + 1)[2] = names + 1
    BY PathsAre
  <2>3. QED  BY <2>1, <2>2
<1>2. CASE p \notin Paths
  BY <1>2, PathsAre
<1>3. QED  BY <1>1, <1>2

LEMMA TypesAre ==
  ASSUME TypeOK
  PROVE  /\ \A d \in Docs : /\ rows[d] \in Row /\ backup.rows[d] \in Row /\ kept.rows[d] \in Row
         /\ \A r \in Requests : reqs[r] \in Request
         /\ backup.todo \subseteq Paths /\ backup.rows \in [Docs -> Row] /\ backup.copy \in [Paths -> Contents \cup {None}]
         /\ kept.rows \in [Docs -> Row] /\ kept.copy \in [Paths -> Contents \cup {None}]
         /\ names \in Nat /\ names <= MaxName
  BY NamesAre DEF TypeOK, Backup

-----------------------------------------------------------------------------
(* A new file                                                              *)

LEMMA WriteStep ==
  ASSUME IInv, NEW r \in Requests, NEW d \in Docs, NEW c \in Contents, NEW op \in {"attach", "replace"},
         Write(r, op, d, c), rows' \in [Docs -> Row], SameRows, UNCHANGED <<backup, kept>>,
         op = "replace" => HasFile(d)
  PROVE  IInv'
<1> DEFINE new == At(names + 1)
<1>t. names \in Nat /\ names + 1 \in Names /\ new \in Paths /\ new[1] = "storage" /\ new[2] = names + 1
  <2>1. names \in Nat /\ names < MaxName
    BY TypesAre DEF IInv, Write
  <2>2. names + 1 \in Names
    BY <2>1, NamesAre
  <2>3. QED  BY <2>1, <2>2, PathsAre
<1>j. /\ reqs'[r].op = op /\ reqs'[r].doc = d /\ reqs'[r].old = rows[d].path /\ reqs'[r].new = new
      /\ reqs'[r].sum = c /\ reqs'[r].was = rows[d].sum
      /\ reqs'[r] \in Request /\ reqs[r].op = "idle"
      /\ \A q \in Requests : q # r => reqs'[q] = reqs[q]
      /\ reqs' \in [Requests -> Request]
  <2> DEFINE job == [Idle EXCEPT !.op = op, !.doc = d, !.old = rows[d].path, !.new = At(names + 1), !.sum = c, !.was = rows[d].sum]
  <2>1. /\ rows[d] \in Row /\ (\A q \in Requests : reqs[q] \in Request) /\ reqs = [q \in Requests |-> reqs[q]]
    BY TypesAre DEF IInv, TypeOK
  <2>2. reqs[r].op = "idle" /\ reqs' = [reqs EXCEPT ![r] = job]
    BY DEF Write, Load
  <2>3. /\ job.op = op /\ job.doc = d /\ job.old = rows[d].path /\ job.new = new /\ job.sum = c /\ job.was = rows[d].sum
        /\ job \in Request
    <3>1. job \in [op : {op}, doc : {d}, old : {rows[d].path}, new : {new}, sum : {c}, was : {rows[d].sum}, fresh : BOOLEAN]
      BY Zenon DEF Idle
    <3> HIDE DEF job
    <3>2. rows[d].path \in Paths \cup {NoPath} /\ rows[d].sum \in Contents \cup {None}
      BY <2>1 DEF Row
    <3>3. /\ op \in {"idle", "attach", "replace", "tidy", "delete", "migrate"} /\ d \in Docs \cup {None}
          /\ new \in Paths \cup {NoPath} /\ c \in Contents \cup {None} /\ TRUE \in BOOLEAN
      BY <1>t
    <3> HIDE DEF new
    <3>4. job \in Request
      BY <3>1, <3>2, <3>3 DEF Request
    <3>5. QED  BY <3>1, <3>4
  <2> HIDE DEF job
  <2>5. reqs'[r] = job /\ \A q \in Requests : q # r => reqs'[q] = reqs[q]
    BY <2>1, <2>2
  <2>6. reqs' \in [Requests -> Request]
    BY <2>1, <2>2, <2>3
  <2>7. QED  BY <2>2, <2>3, <2>5, <2>6
<1>o. Others(r)
  BY <1>j DEF Others, SameJob
<1>f. /\ files' \in [Paths -> Contents \cup {None}] /\ files'[new] = c
      /\ \A p \in Paths : p # new => files'[p] = files[p]
      /\ names' = names + 1
  BY <1>t DEF IInv, TypeOK, Write
<1>n. c # None
  BY NoneAssumption
<1>u. \A e \in Docs : \A p : Uses(e, p) => p # new
  BY <1>t, NextIsFree DEF IInv
<1>v. /\ \A e \in Docs : rows[e].path # new /\ backup.rows[e].path # new /\ kept.rows[e].path # new
      /\ \A q \in Requests : Busy(q) => reqs[q].old # new /\ reqs[q].new # new
  BY <1>u DEF IInv, Jobs, Uses
<1> HIDE DEF new
<1>1. TypeOK'
  BY <1>f, <1>j, <1>t, NamesAre DEF IInv, TypeOK
<1>2. Inherits(d)
  <2> SUFFICES ASSUME NEW e \in Docs, NEW p \in Paths, Uses(e, p)'
               PROVE  \/ \E q \in Paths : Uses(e, q) /\ q[2] = p[2]
                      \/ e = d /\ p[2] = names + 1 /\ names' = names + 1
    BY DEF Inherits
  <2>1. Uses(e, p) \/ (e = d /\ p = new)
    <3>1. CASE p = rows[e].path' \/ p = backup.rows[e].path' \/ p = kept.rows[e].path'
      BY <3>1 DEF Uses, SameRows, SameRow
    <3>2. ASSUME NEW q \in Requests, Busy(q)', reqs'[q].doc = e, p = reqs'[q].old \/ p = reqs'[q].new
          PROVE  Uses(e, p) \/ (e = d /\ p = new)
      <4>1. CASE q = r
        BY <1>j, <3>2, <4>1 DEF Uses
      <4>2. CASE q # r
        BY <1>j, <3>2, <4>2 DEF Uses, Busy
      <4>3. QED  BY <4>1, <4>2
    <3>3. QED  BY <3>1, <3>2 DEF Uses
  <2>2. QED  BY <2>1, <1>f, <1>t
<1>3. OwnNames'
  BY <1>2, <1>f, <1>t, OwnNamesKept DEF IInv
<1>4. Jobs'
  BY <1>j DEF IInv, Jobs, Busy
<1>5. Filed'
  BY DEF IInv, Filed, FiledRow, SameRows, SameRow
<1>6. Private'
  BY <1>f, <1>j, <1>n, <1>t, <1>v DEF IInv, Private, PrivateFile, Writing, Busy, SameRows, SameRow
<1>7. Loaded'
  <2>1. LoadedJob(reqs[r])'
    BY <1>f, <1>j, <1>n DEF IInv, LoadedJob, SameRows, SameRow, HasFile, Filed, FiledRow
  <2>2. ASSUME NEW q \in Requests, q # r
        PROVE  LoadedJob(reqs[q])'
    <3>1. reqs'[q] = reqs[q] /\ LoadedJob(reqs[q])
      BY <1>j, <2>2 DEF IInv, Loaded
    <3>2. Busy(q) => /\ reqs[q].doc \in Docs
                     /\ reqs[q].op \in Writing => files'[reqs[q].new] = files[reqs[q].new]
      BY <1>f, <1>v DEF IInv, Jobs, Private, PrivateFile
    <3>3. CASE ~Busy(q)
      BY <3>1, <3>3 DEF LoadedJob, Busy
    <3>4. CASE Busy(q)
      <4>1. SameRow(reqs[q].doc)
        BY <3>2, <3>4 DEF SameRows
      <4>2. \A e \in Docs : rows'[e].path = rows[e].path
        BY DEF SameRows, SameRow
      <4>3. QED  BY <3>1, <3>2, <3>4, <4>1, <4>2 DEF LoadedJob, SameRow, HasFile, Writing
    <3>5. QED  BY <3>3, <3>4
  <2>3. QED  BY <2>1, <2>2 DEF Loaded
<1>8. LegacyFirst'
  BY <1>j DEF IInv, LegacyFirst, Busy, SameRows, SameRow, HasFile
<1>9. Agree'
  BY <1>f, <1>v DEF IInv, Agree, Right, Filed, FiledRow, SameRows, SameRow, HasFile
<1>10. Dumped'
  BY <1>f, <1>v DEF IInv, Dumped, Due, Right, Filed, FiledRow
<1>11. Copied' /\ Phases'
  BY DEF IInv, Copied, Due, Right, Phases
<1>12. QED  BY <1>1, <1>3, <1>4, <1>5, <1>6, <1>7, <1>8, <1>9, <1>10, <1>11 DEF IInv

LEMMA RegisterStep ==
  ASSUME IInv, NEW r \in Requests, NEW d \in Docs, NEW c \in Contents, Register(r, d, c)
  PROVE  IInv'
<1>1. rows' = [rows EXCEPT ![d].state = "registered"] /\ rows \in [Docs -> Row] /\ rows[d].state = "none"
  BY DEF IInv, TypeOK, Register
<1>2. rows' \in [Docs -> Row] /\ SameRows
  BY <1>1 DEF Row, SameRows, SameRow
<1>3. Write(r, "attach", d, c) /\ UNCHANGED <<backup, kept>>
  BY DEF Register
<1>4. QED  BY <1>2, <1>3, WriteStep

LEMMA ReplaceLoadStep ==
  ASSUME IInv, NEW r \in Requests, NEW d \in Docs, NEW c \in Contents, ReplaceLoad(r, d, c)
  PROVE  IInv'
<1>1. rows' = rows /\ rows \in [Docs -> Row]
  BY DEF IInv, TypeOK, ReplaceLoad
<1>2. SameRows
  BY <1>1 DEF SameRows, SameRow
<1>3. Write(r, "replace", d, c) /\ UNCHANGED <<backup, kept>> /\ HasFile(d)
  BY DEF ReplaceLoad
<1>4. QED  BY <1>1, <1>2, <1>3, WriteStep

-----------------------------------------------------------------------------
(* What others hold                                                        *)

LEMMA UsesKept ==
  ASSUME IInv, names' = names, \A e \in Docs, p \in Paths : Uses(e, p)' => Uses(e, p)
  PROVE  OwnNames'
<1>1. Inherits(None)
  BY DEF Inherits
<1>2. QED  BY <1>1, OwnNamesKept, TypesAre DEF IInv

(* The row of d is as a request that has it fresh knows it.                *)
StillTrue(d) ==
    /\ rows'[d].sum = rows[d].sum /\ rows'[d].name = rows[d].name
    /\ rows'[d].state = "attached" => /\ rows[d].state = "attached"
                                      /\ ~rows'[d].torn => ~rows[d].torn
                                      /\ ~rows'[d].crossed => ~rows[d].crossed

LEMMA OtherLoaded ==
  ASSUME IInv, NEW q \in Requests, SameJob(q),
         reqs[q].op \in Writing => files'[reqs[q].new] = files[reqs[q].new],
         Busy(q) => ~reqs'[q].fresh \/ StillTrue(reqs[q].doc),
         reqs[q].op = "tidy" => \A d \in Docs : rows'[d].path # reqs[q].old
  PROVE  LoadedJob(reqs[q])'
<1>1. LoadedJob(reqs[q])
  BY DEF IInv, Loaded
<1>2. CASE ~Busy(q)
  BY <1>1, <1>2 DEF LoadedJob, SameJob, Busy
<1>3. CASE Busy(q)
  BY <1>1, <1>3 DEF LoadedJob, SameJob, StillTrue, HasFile, Writing, Busy
<1>4. QED  BY <1>2, <1>3

LEMMA CrossingEffect ==
  ASSUME reqs \in [Requests -> Request], NEW r \in Requests, NEW d, NEW next \in Request, Crossing(r, d, next)
  PROVE  /\ reqs' \in [Requests -> Request] /\ reqs'[r] = next /\ Others(r)
         /\ \A q \in Requests : q # r /\ reqs[q].doc = d => ~reqs'[q].fresh
<1>1. \A q \in Requests : reqs[q] \in Request
  OBVIOUS
<1>2. \A q \in Requests : reqs'[q] = IF q = r THEN next
                                     ELSE IF reqs[q].doc = d THEN [reqs[q] EXCEPT !.fresh = FALSE] ELSE reqs[q]
  BY DEF Crossing
<1>3. \A q \in Requests : [reqs[q] EXCEPT !.fresh = FALSE] \in Request
  BY <1>1 DEF Request
<1>4. reqs' \in [Requests -> Request]
  BY <1>1, <1>3 DEF Crossing
<1>5. \A q \in Requests : q # r /\ reqs[q].doc = d => ~reqs'[q].fresh
  BY <1>1, <1>2 DEF Request
<1>6. ASSUME NEW q \in Requests, q # r
      PROVE  SameJob(q)
  <2>1. CASE reqs[q].doc = d
    <3>1. reqs'[q] = [reqs[q] EXCEPT !.fresh = FALSE] /\ ~reqs'[q].fresh
      BY <1>2, <1>5, <1>6, <2>1
    <3>2. reqs[q] \in Request
      BY <1>1
    <3>3. QED  BY <3>1, <3>2 DEF SameJob, Request
  <2>2. CASE reqs[q].doc # d
    BY <1>2, <1>6, <2>2 DEF SameJob
  <2>3. QED  BY <2>1, <2>2
<1>7. QED  BY <1>2, <1>4, <1>5, <1>6 DEF Others

LEMMA IdleEffect ==
  ASSUME reqs \in [Requests -> Request], NEW r \in Requests, reqs' = [reqs EXCEPT ![r] = Idle]
  PROVE  /\ reqs' \in [Requests -> Request] /\ reqs'[r] = Idle /\ Others(r)
         /\ \A q \in Requests : q # r => reqs'[q] = reqs[q]
  BY IdleTyped DEF Others, SameJob

LEMMA IdleLoaded ==
  ASSUME NEW r \in Requests, reqs'[r] = Idle
  PROVE  LoadedJob(reqs[r])'
  BY DEF LoadedJob, Idle

-----------------------------------------------------------------------------
(* A commit of the row                                                     *)

LEMMA CommitStep ==
  ASSUME IInv, NEW r \in Requests, NEW d \in Docs, d = reqs[r].doc, reqs[r].op \in Writing,
         NEW row \in Row, row.state = "attached", row.path = reqs[r].new, row.sum \in Contents,
         ~row.torn => Right(row, files[row.path]),
         NEW next \in Request, next = Idle \/ (reqs[r].op = "replace" /\ next = [reqs[r] EXCEPT !.op = "tidy"]),
         rows' = [rows EXCEPT ![d] = row], Crossing(r, d, next), UNCHANGED <<files, names, backup, kept>>
  PROVE  IInv'
<1>t. /\ reqs \in [Requests -> Request] /\ rows \in [Docs -> Row]
  BY DEF IInv, TypeOK
<1>j. /\ reqs' \in [Requests -> Request] /\ reqs'[r] = next /\ Others(r)
      /\ \A q \in Requests : q # r /\ reqs[q].doc = d => ~reqs'[q].fresh
  BY <1>t, CrossingEffect
<1>r. /\ rows' \in [Docs -> Row] /\ rows'[d] = row
      /\ \A e \in Docs : e # d => rows'[e] = rows[e]
  BY <1>t
<1>p. /\ PrivateFile(r) /\ Busy(r)
      /\ \A e \in Docs : e # d => SameRow(e)
  BY <1>r DEF IInv, Private, Writing, Busy, SameRow
<1>n. /\ next.op \in {"idle", "tidy"}
      /\ next.op = "tidy" => /\ reqs[r].op = "replace" /\ next.doc = reqs[r].doc
                             /\ next.old = reqs[r].old /\ next.new = reqs[r].new
  BY <1>t DEF Idle, Request
<1>1. TypeOK'
  BY <1>j, <1>r DEF IInv, TypeOK
<1>2. OwnNames'
  <2>1. ASSUME NEW e \in Docs, NEW p \in Paths, Uses(e, p)'
        PROVE  Uses(e, p)
    <3>1. CASE p = rows'[e].path \/ p = backup.rows[e].path \/ p = kept.rows[e].path
      BY <1>p, <1>r, <3>1 DEF Uses, SameRow
    <3>2. ASSUME NEW q \in Requests, Busy(q)', reqs'[q].doc = e, p = reqs'[q].old \/ p = reqs'[q].new
          PROVE  Uses(e, p)
      BY <1>j, <1>n, <1>p, <3>2 DEF Uses, Busy, Others, SameJob
    <3>3. QED  BY <2>1, <3>1, <3>2 DEF Uses
  <2>2. QED  BY <2>1, UsesKept
<1>3. Jobs'
  BY <1>j, <1>n DEF IInv, Jobs, Busy, Others, SameJob
<1>4. Filed'
  BY <1>r, <1>p DEF IInv, Filed, FiledRow, PrivateFile
<1>5. Private'
  <2>1. ASSUME NEW q \in Requests, reqs'[q].op \in Writing
        PROVE  PrivateFile(q)'
    <3>1. q # r /\ reqs[q].op \in Writing /\ reqs'[q].new = reqs[q].new /\ PrivateFile(q)
      BY <1>j, <1>n, <2>1 DEF IInv, Private, Writing, Others, SameJob
    <3>2. \A e \in Docs : rows'[e].path # reqs[q].new
      BY <1>r, <1>p, <3>1 DEF PrivateFile
    <3>3. \A x \in Requests : /\ Busy(x)' => Busy(x) /\ reqs'[x].old = reqs[x].old
                              /\ reqs'[x].op \in Writing \cup {"tidy"}
                                     => reqs[x].op \in Writing \cup {"tidy"} /\ reqs'[x].new = reqs[x].new
      BY <1>j, <1>n, <1>p DEF Others, SameJob, Busy, Writing
    <3>4. QED  BY <3>1, <3>2, <3>3 DEF PrivateFile
  <2>2. QED  BY <2>1 DEF Private
<1>6. Loaded'
  <2>1. ASSUME NEW q \in Requests, q # r
        PROVE  LoadedJob(reqs[q])'
    <3>1. SameJob(q)
      BY <1>j, <2>1 DEF Others
    <3>2. Busy(q) => ~reqs'[q].fresh \/ StillTrue(reqs[q].doc)
      BY <1>j, <1>r, <2>1 DEF StillTrue, IInv, Jobs
    <3>3. reqs[q].op = "tidy" => \A e \in Docs : rows'[e].path # reqs[q].old
      BY <1>p, <1>r DEF IInv, Loaded, LoadedJob, PrivateFile, Busy
    <3>4. QED  BY <3>1, <3>2, <3>3, OtherLoaded
  <2>2. LoadedJob(reqs[r])'
    <3>1. CASE next = Idle
      BY <1>j, <3>1, IdleLoaded
    <3>2. CASE next # Idle
      <4>1. next.op = "tidy" /\ reqs[r].op = "replace" /\ next.old = reqs[r].old
        BY <1>t, <3>2 DEF Request
      <4>2. next.old \in Paths /\ Uses(d, next.old)
        BY <1>p, <4>1 DEF IInv, Loaded, LoadedJob, Uses
      <4>3. \A e \in Docs : e # d => rows[e].path # next.old
        BY <4>2, Apart DEF IInv, Uses
      <4>4. \A e \in Docs : rows'[e].path # next.old
        BY <1>p, <1>r, <4>1, <4>3 DEF PrivateFile
      <4>5. QED  BY <1>j, <4>1, <4>2, <4>4 DEF LoadedJob
    <3>3. QED  BY <3>1, <3>2
  <2>3. QED  BY <2>1, <2>2 DEF Loaded
<1>7. LegacyFirst'
  <2>1. ASSUME NEW e \in Docs, rows'[e].state = "attached", rows'[e].path[1] = "legacy"
        PROVE  /\ \A q \in Requests : Busy(q)' /\ reqs'[q].doc = e => reqs'[q].old[1] # "storage" /\ reqs'[q].op # "tidy"
               /\ backup'.rows[e].path[1] # "storage"
    <3>1. e # d /\ rows[e].state = "attached" /\ rows[e].path[1] = "legacy"
      BY <1>p, <1>r, <2>1 DEF PrivateFile
    <3>2. /\ \A q \in Requests : Busy(q) /\ reqs[q].doc = e => reqs[q].old[1] # "storage" /\ reqs[q].op # "tidy"
          /\ backup.rows[e].path[1] # "storage"
      BY <3>1 DEF IInv, LegacyFirst, HasFile
    <3>3. Busy(r)' => reqs'[r].doc = d
      BY <1>j, <1>n DEF Busy
    <3>4. \A q \in Requests \ {r} : Busy(q)' /\ reqs'[q].doc = e => reqs'[q].old[1] # "storage" /\ reqs'[q].op # "tidy"
      BY <1>j, <3>2 DEF Others, SameJob, Busy
    <3>5. QED  BY <3>1, <3>2, <3>3, <3>4
  <2>2. QED  BY <2>1 DEF LegacyFirst, HasFile
<1>8. Agree'
  BY <1>r DEF IInv, Agree, HasFile, Right
<1>9. Dumped' /\ Copied' /\ Phases'
  BY DEF IInv, Dumped, Copied, Due, Right, Phases
<1>10. QED  BY <1>1, <1>2, <1>3, <1>4, <1>5, <1>6, <1>7, <1>8, <1>9 DEF IInv

LEMMA AttachCommitStep ==
  ASSUME IInv, NEW r \in Requests, AttachCommit(r)
  PROVE  IInv'
<1> DEFINE job == reqs[r]
           d == job.doc
<1>1. /\ job.op = "attach" /\ d \in Docs /\ rows[d] \in Row /\ job \in Request /\ PrivateFile(r)
      /\ job.sum \in Contents /\ files[job.new] = job.sum
  BY TypesAre DEF IInv, AttachCommit, Jobs, Busy, Private, Writing, Loaded, LoadedJob
<1>2. PICK row : row = [rows[d] EXCEPT !.state = "attached", !.path = job.new, !.sum = job.sum, !.name = job.new[2]]
  OBVIOUS
<1>3. job.new \in Paths /\ job.new[2] \in Names /\ files[job.new] # None
  BY <1>1, PathsAre DEF PrivateFile
<1>4. /\ row \in Row /\ row.state = "attached" /\ row.path = job.new /\ row.sum = job.sum /\ row.name = job.new[2]
  BY <1>1, <1>2, <1>3 DEF Row
<1>5. Right(row, files[row.path])
  BY <1>1, <1>3, <1>4 DEF Right
<1>6. /\ rows' = [rows EXCEPT ![d] = row] /\ Crossing(r, d, Idle)
      /\ UNCHANGED <<files, names, backup, kept>>
  BY <1>2 DEF AttachCommit, IInv, TypeOK
<1>7. QED  BY <1>1, <1>4, <1>5, <1>6, CommitStep, IdleTyped DEF Writing

LEMMA ReplaceCommitStep ==
  ASSUME IInv, NEW r \in Requests, ReplaceCommit(r)
  PROVE  IInv'
<1> DEFINE job == reqs[r]
           d == job.doc
<1>1. /\ job.op = "replace" /\ d \in Docs /\ rows[d] \in Row /\ job \in Request /\ PrivateFile(r)
      /\ job.sum \in Contents /\ files[job.new] = job.sum /\ rows[d].sum \in Contents
      /\ job.fresh => rows[d].sum = job.was
  BY TypesAre DEF IInv, ReplaceCommit, Jobs, Busy, Private, Writing, Loaded, LoadedJob, HasFile, Filed, FiledRow
<1>2. PICK row : row = [rows[d] EXCEPT !.path = job.new, !.sum = IF job.sum = job.was THEN rows[d].sum ELSE job.sum,
                                       !.name = job.new[2], !.torn = FALSE, !.crossed = ~job.fresh]
  OBVIOUS
<1>3. job.new \in Paths /\ job.new[2] \in Names /\ files[job.new] # None
  BY <1>1, PathsAre DEF PrivateFile
<1>4. /\ row \in Row /\ row.state = "attached" /\ row.path = job.new /\ row.name = job.new[2]
      /\ row.sum = (IF job.sum = job.was THEN rows[d].sum ELSE job.sum) /\ row.crossed = ~job.fresh
  BY <1>1, <1>2, <1>3 DEF Row, ReplaceCommit, HasFile, Request
<1>5. Right(row, files[row.path]) /\ row.sum \in Contents
  BY <1>1, <1>3, <1>4 DEF Right
<1>6. PICK next : next = [job EXCEPT !.op = "tidy"]
  OBVIOUS
<1>7. next \in Request
  BY <1>1, <1>6 DEF Request
<1>8. /\ rows' = [rows EXCEPT ![d] = row] /\ Crossing(r, d, next)
      /\ UNCHANGED <<files, names, backup, kept>>
  BY <1>2, <1>6 DEF ReplaceCommit, IInv, TypeOK
<1>9. QED  BY <1>1, <1>4, <1>5, <1>6, <1>7, <1>8, CommitStep DEF Writing

LEMMA MigrateCommitStep ==
  ASSUME IInv, NEW r \in Requests, MigrateCommit(r)
  PROVE  IInv'
<1> DEFINE job == reqs[r]
           d == job.doc
<1>1. /\ job.op = "migrate" /\ d \in Docs /\ rows[d] \in Row /\ job \in Request /\ PrivateFile(r)
      /\ rows[d].sum \in Contents /\ HasFile(d)
      /\ job.fresh /\ ~rows[d].torn /\ ~rows[d].crossed => files[job.new] = rows[d].sum /\ job.new[2] = rows[d].name
  BY TypesAre DEF IInv, MigrateCommit, Jobs, Busy, Private, Writing, Loaded, LoadedJob, HasFile, Filed, FiledRow
<1>2. PICK row : row = [rows[d] EXCEPT !.path = job.new, !.crossed = rows[d].crossed \/ ~job.fresh]
  OBVIOUS
<1>3. job.new \in Paths /\ files[job.new] # None
  BY <1>1 DEF PrivateFile
<1>4. /\ row \in Row /\ row.state = "attached" /\ row.path = job.new /\ row.name = rows[d].name
      /\ row.sum = rows[d].sum /\ row.torn = rows[d].torn /\ row.crossed = (rows[d].crossed \/ ~job.fresh)
  BY <1>1, <1>2, <1>3 DEF Row, HasFile, Request
<1>5. ~row.torn => Right(row, files[row.path])
  BY <1>1, <1>3, <1>4 DEF Right
<1>6. /\ rows' = [rows EXCEPT ![d] = row] /\ Crossing(r, d, Idle)
      /\ UNCHANGED <<files, names, backup, kept>>
  BY <1>2 DEF MigrateCommit, IInv, TypeOK
<1>7. QED  BY <1>1, <1>4, <1>5, <1>6, CommitStep, IdleTyped DEF Writing

LEMMA DeleteCommitStep ==
  ASSUME IInv, NEW r \in Requests, DeleteCommit(r)
  PROVE  IInv'
<1> DEFINE d == reqs[r].doc
           row == [NoRow EXCEPT !.state = "gone"]
<1>t. /\ reqs \in [Requests -> Request] /\ rows \in [Docs -> Row] /\ d \in Docs /\ Busy(r)
  BY DEF IInv, TypeOK, DeleteCommit, Jobs, Busy
<1>w. row \in Row /\ row.path = NoPath /\ row.state = "gone"
  BY DEF NoRow, Row
<1>a. /\ rows' = [rows EXCEPT ![d] = row] /\ Crossing(r, d, Idle) /\ UNCHANGED <<files, names, backup, kept>>
  BY DEF DeleteCommit
<1> HIDE DEF row
<1>j. /\ reqs' \in [Requests -> Request] /\ reqs'[r] = Idle /\ Others(r) /\ Idle.op = "idle"
      /\ \A q \in Requests : q # r /\ reqs[q].doc = d => ~reqs'[q].fresh
  BY <1>t, <1>a, IdleTyped, CrossingEffect
<1>r. /\ rows' \in [Docs -> Row] /\ rows'[d] = row
      /\ \A e \in Docs : e # d => rows'[e] = rows[e]
  BY <1>t, <1>a, <1>w
<1>1. TypeOK'
  BY <1>a, <1>j, <1>r DEF IInv, TypeOK
<1>2. OwnNames'
  <2>1. ASSUME NEW e \in Docs, NEW p \in Paths, Uses(e, p)'
        PROVE  Uses(e, p)
    <3>1. CASE p = rows'[e].path \/ p = backup.rows[e].path \/ p = kept.rows[e].path
      BY <1>r, <1>w, <3>1, PathsAre DEF Uses
    <3>2. ASSUME NEW q \in Requests, Busy(q)', reqs'[q].doc = e, p = reqs'[q].old \/ p = reqs'[q].new
          PROVE  Uses(e, p)
      BY <1>j, <3>2 DEF Uses, Busy, Others, SameJob
    <3>3. QED  BY <1>a, <2>1, <3>1, <3>2 DEF Uses
  <2>2. QED  BY <1>a, <2>1, UsesKept
<1>3. Jobs'
  BY <1>j DEF IInv, Jobs, Busy, Others, SameJob
<1>4. Filed'
  BY <1>a, <1>r, <1>w DEF IInv, Filed, FiledRow
<1>5. Private'
  <2>1. ASSUME NEW q \in Requests, reqs'[q].op \in Writing
        PROVE  PrivateFile(q)'
    <3>1. reqs[q].op \in Writing /\ reqs'[q].new = reqs[q].new /\ PrivateFile(q)
      BY <1>j, <2>1 DEF IInv, Private, Writing, Others, SameJob
    <3>2. \A e \in Docs : rows'[e].path # reqs[q].new
      BY <1>r, <1>w, <3>1, PathsAre DEF PrivateFile
    <3>3. \A x \in Requests : /\ Busy(x)' => Busy(x) /\ reqs'[x].old = reqs[x].old
                              /\ reqs'[x].op \in Writing \cup {"tidy"}
                                     => reqs[x].op \in Writing \cup {"tidy"} /\ reqs'[x].new = reqs[x].new
      BY <1>j DEF Others, SameJob, Busy, Writing
    <3>4. QED  BY <1>a, <3>1, <3>2, <3>3 DEF PrivateFile
  <2>2. QED  BY <2>1 DEF Private
<1>6. Loaded'
  <2>1. ASSUME NEW q \in Requests, q # r
        PROVE  LoadedJob(reqs[q])'
    <3>1. SameJob(q)
      BY <1>j, <2>1 DEF Others
    <3>2. Busy(q) => ~reqs'[q].fresh \/ StillTrue(reqs[q].doc)
      BY <1>j, <1>r, <2>1 DEF StillTrue, IInv, Jobs
    <3>3. reqs[q].op = "tidy" => \A e \in Docs : rows'[e].path # reqs[q].old
      BY <1>r, <1>w, PathsAre DEF IInv, Loaded, LoadedJob
    <3>4. QED  BY <1>a, <3>1, <3>2, <3>3, OtherLoaded
  <2>2. LoadedJob(reqs[r])'
    BY <1>j, IdleLoaded
  <2>3. QED  BY <2>1, <2>2 DEF Loaded
<1>7. LegacyFirst'
  BY <1>a, <1>j, <1>r, <1>w DEF IInv, LegacyFirst, HasFile, Others, SameJob, Busy
<1>8. Agree'
  BY <1>a, <1>r, <1>w DEF IInv, Agree, HasFile, Right
<1>9. Dumped' /\ Copied' /\ Phases'
  BY <1>a DEF IInv, Dumped, Copied, Due, Right, Phases
<1>10. QED  BY <1>1, <1>2, <1>3, <1>4, <1>5, <1>6, <1>7, <1>8, <1>9 DEF IInv

-----------------------------------------------------------------------------
(* A file that goes                                                        *)

LEMMA MovesEffect ==
  ASSUME TypeOK, NEW d \in Docs, Moves(d)
  PROVE  /\ backup' \in Backup /\ backup'.rows = backup.rows /\ backup'.todo = backup.todo
         /\ backup'.copy = backup.copy /\ backup'.phase = backup.phase
         /\ backup.moved \subseteq backup'.moved /\ (backup.phase = "none" => backup' = backup)
         /\ d \in backup'.moved \/ backup.phase = "none"
<1>1. backup \in Backup
  BY DEF TypeOK
<1>2. CASE backup.phase = "none"
  BY <1>1, <1>2 DEF Moves
<1>3. CASE backup.phase # "none"
  BY <1>1, <1>3 DEF Moves, Backup
<1>4. QED  BY <1>2, <1>3

(* Of the rows, only that their file was taken.                            *)
TornAtMost ==
    \A e \in Docs : /\ rows'[e].path = rows[e].path /\ rows'[e].sum = rows[e].sum /\ rows'[e].name = rows[e].name
                    /\ rows'[e].state = rows[e].state /\ rows'[e].crossed = rows[e].crossed
                    /\ rows[e].state = "attached" /\ rows[e].torn => rows'[e].torn

(* Nobody but r counts on the file.                                        *)
Unowed(r, p) ==
    /\ \A q \in Requests : q # r /\ reqs[q].op \in Writing => reqs[q].new # p
    /\ \A e \in Docs : HasFile(e) /\ ~rows'[e].torn => rows[e].path # p
    /\ \A e \in Docs : Due(backup, e)' => backup.rows[e].path # p

LEMMA RemoveStep ==
  ASSUME IInv, NEW r \in Requests, NEW d \in Docs, NEW p,
         files' = [x \in Paths |-> IF x = p THEN None ELSE files[x]], UNCHANGED <<names, kept>>,
         Moves(d) \/ UNCHANGED backup, rows' \in [Docs -> Row],
         TornAtMost,
         NEW next \in Request, reqs' = [reqs EXCEPT ![r] = next],
         next = Idle \/ (next.op = "delete" /\ next.doc = d /\ next.old = rows[d].path /\ next.new = NoPath),
         Unowed(r, p)
  PROVE  IInv'
<1>t. /\ TypeOK /\ reqs \in [Requests -> Request] /\ backup \in Backup
  BY DEF IInv, TypeOK
<1>j. /\ reqs' \in [Requests -> Request] /\ reqs'[r] = next /\ \A q \in Requests : q # r => reqs'[q] = reqs[q]
      /\ Others(r)
  BY <1>t DEF Others, SameJob
<1>n. /\ next.op \in {"idle", "delete"}
      /\ next.op = "delete" => next.doc = d /\ next.old = rows[d].path /\ next.new = NoPath
  BY DEF Idle
<1>b. /\ backup' \in Backup /\ backup'.rows = backup.rows /\ backup'.todo = backup.todo
      /\ backup'.copy = backup.copy /\ backup'.phase = backup.phase
      /\ backup.moved \subseteq backup'.moved /\ (backup.phase = "none" => backup' = backup)
  BY <1>t, MovesEffect
<1>f. /\ files' \in [Paths -> Contents \cup {None}]
      /\ \A x \in Paths : x # p => files'[x] = files[x]
  BY DEF IInv, TypeOK
<1>u. /\ \A q \in Requests : q # r /\ reqs[q].op \in Writing => reqs[q].new # p
      /\ \A e \in Docs : HasFile(e) /\ ~rows'[e].torn => rows[e].path # p
      /\ \A e \in Docs : Due(backup, e)' => backup.rows[e].path # p
  BY DEF Unowed
<1>r. \A e \in Docs : /\ rows'[e].path = rows[e].path /\ rows'[e].sum = rows[e].sum /\ rows'[e].name = rows[e].name
                      /\ rows'[e].state = rows[e].state /\ rows'[e].crossed = rows[e].crossed
                      /\ rows[e].state = "attached" /\ rows[e].torn => rows'[e].torn
  BY DEF TornAtMost
<1>1. TypeOK'
  BY <1>f, <1>j, <1>b DEF IInv, TypeOK
<1>2. OwnNames'
  <2>1. ASSUME NEW e \in Docs, NEW x \in Paths, Uses(e, x)'
        PROVE  Uses(e, x)
    <3>1. CASE x = rows'[e].path \/ x = backup'.rows[e].path \/ x = kept.rows[e].path
      BY <1>b, <1>r, <3>1 DEF Uses
    <3>2. ASSUME NEW q \in Requests, Busy(q)', reqs'[q].doc = e, x = reqs'[q].old \/ x = reqs'[q].new
          PROVE  Uses(e, x)
      <4>1. CASE q # r
        BY <1>j, <3>2, <4>1 DEF Uses, Busy
      <4>2. CASE q = r
        BY <1>j, <1>n, <3>2, <4>2, PathsAre DEF Uses, Busy
      <4>3. QED  BY <4>1, <4>2
    <3>3. QED  BY <2>1, <3>1, <3>2 DEF Uses
  <2>2. QED  BY <2>1, UsesKept
<1>3. Jobs'
  BY <1>j, <1>n DEF IInv, Jobs, Busy
<1>4. Filed'
  BY <1>b, <1>r DEF IInv, Filed, FiledRow
<1>5. Private'
  <2>1. ASSUME NEW q \in Requests, reqs'[q].op \in Writing
        PROVE  PrivateFile(q)'
    <3>1. q # r /\ reqs'[q] = reqs[q] /\ reqs[q].op \in Writing /\ PrivateFile(q)
      BY <1>j, <1>n, <2>1 DEF IInv, Private, Writing
    <3>2. files'[reqs[q].new] # None
      BY <1>f, <1>u, <3>1 DEF PrivateFile
    <3>3. \A x \in Requests : Busy(x)' => reqs'[x].old # reqs[q].new
      BY <1>j, <1>n, <3>1 DEF PrivateFile, Busy
    <3>4. \A x \in Requests : reqs'[x].op \in Writing \cup {"tidy"} => x # r
      BY <1>j, <1>n DEF Writing
    <3>5. QED  BY <1>b, <1>j, <1>r, <3>1, <3>2, <3>3, <3>4 DEF PrivateFile
  <2>2. QED  BY <2>1 DEF Private
<1>6. Loaded'
  <2>1. ASSUME NEW q \in Requests, q # r
        PROVE  LoadedJob(reqs[q])'
    <3>1. SameJob(q)
      BY <1>j, <2>1 DEF Others
    <3>2. reqs[q].op \in Writing => files'[reqs[q].new] = files[reqs[q].new]
      BY <1>f, <1>u, <2>1 DEF IInv, Private, PrivateFile
    <3>3. Busy(q) => ~reqs'[q].fresh \/ StillTrue(reqs[q].doc)
      BY <1>r DEF StillTrue, IInv, Jobs
    <3>4. reqs[q].op = "tidy" => \A e \in Docs : rows'[e].path # reqs[q].old
      BY <1>r DEF IInv, Loaded, LoadedJob
    <3>5. QED  BY <3>1, <3>2, <3>3, <3>4, OtherLoaded
  <2>2. LoadedJob(reqs[r])'
    BY <1>j, <1>n DEF LoadedJob
  <2>3. QED  BY <2>1, <2>2 DEF Loaded
<1>7. LegacyFirst'
  BY <1>b, <1>j, <1>n, <1>r DEF IInv, LegacyFirst, HasFile, Busy
<1>8. Agree'
  <2>1. ASSUME NEW e \in Docs, rows'[e].state = "attached", ~rows'[e].torn
        PROVE  Right(rows'[e], files'[rows'[e].path])
    <3>1. HasFile(e) /\ ~rows[e].torn /\ rows[e].path \in Paths
      BY <1>r, <2>1 DEF HasFile, IInv, Filed, FiledRow
    <3>2. Right(rows[e], files[rows[e].path])
      BY <3>1 DEF IInv, Agree
    <3>3. files'[rows'[e].path] = files[rows[e].path]
      BY <1>f, <1>r, <1>u, <2>1, <3>1
    <3>4. QED  BY <1>r, <3>2, <3>3 DEF Right
  <2>2. QED  BY <2>1 DEF Agree, HasFile
<1>9. Dumped'
  <2>1. ASSUME NEW e \in Docs, Due(backup, e)'
        PROVE  Due(backup, e) /\ files'[backup.rows[e].path] = files[backup.rows[e].path]
    BY <1>b, <1>f, <1>u, <2>1 DEF Due, IInv, Filed, FiledRow
  <2>2. QED  BY <1>b, <2>1 DEF IInv, Dumped
<1>10. Copied' /\ Phases'
  BY <1>b DEF IInv, Copied, Due, Right, Phases
<1>11. QED  BY <1>1, <1>2, <1>3, <1>4, <1>5, <1>6, <1>7, <1>8, <1>9, <1>10 DEF IInv

LEMMA FailStep ==
  ASSUME IInv, NEW r \in Requests, Fail(r)
  PROVE  IInv'
<1>1. /\ reqs[r].doc \in Docs /\ files \in [Paths -> Contents \cup {None}] /\ rows \in [Docs -> Row]
  BY DEF IInv, TypeOK, Fail, Jobs, Busy
<1>2. files' = [x \in Paths |-> IF x = NoPath THEN None ELSE files[x]]
  BY <1>1, PathsAre DEF Fail
<1>3. /\ reqs' = [reqs EXCEPT ![r] = Idle] /\ UNCHANGED <<rows, names, backup, kept>> /\ Idle \in Request
  BY IdleTyped DEF Fail
<1>4. /\ \A q \in Requests : reqs[q].op \in Writing => reqs[q].new # NoPath
      /\ \A e \in Docs : HasFile(e) => rows[e].path # NoPath
      /\ \A e \in Docs : Due(backup, e)' => backup.rows[e].path # NoPath
  BY <1>3, PathsAre DEF IInv, Private, PrivateFile, Filed, FiledRow, HasFile, Due
<1>5. QED  BY <1>1, <1>2, <1>3, <1>4, RemoveStep DEF TornAtMost, Unowed

LEMMA ReplaceFailsStep ==
  ASSUME IInv, NEW r \in Requests, ReplaceFails(r)
  PROVE  IInv'
<1>1. PICK p : p = reqs[r].new
  OBVIOUS
<1>2. /\ reqs[r].doc \in Docs /\ files \in [Paths -> Contents \cup {None}] /\ rows \in [Docs -> Row]
      /\ reqs[r].op \in Writing /\ PrivateFile(r) /\ p \in Paths
  BY <1>1 DEF IInv, TypeOK, ReplaceFails, Jobs, Busy, Writing, Private, PrivateFile
<1>3. files' = [x \in Paths |-> IF x = p THEN None ELSE files[x]]
  BY <1>1, <1>2 DEF ReplaceFails
<1>4. /\ reqs' = [reqs EXCEPT ![r] = Idle] /\ UNCHANGED <<rows, names, backup, kept>> /\ Idle \in Request
  BY IdleTyped DEF ReplaceFails
<1>5. /\ \A q \in Requests : q # r /\ reqs[q].op \in Writing => reqs[q].new # p
      /\ \A e \in Docs : rows[e].path # p /\ backup.rows[e].path # p
  BY <1>1, <1>2 DEF PrivateFile
<1>6. QED  BY <1>2, <1>3, <1>4, <1>5, RemoveStep DEF TornAtMost, Unowed

(* What is removed of d is in no backup that owes it.                      *)
LEMMA RemovedIsMoved ==
  ASSUME IInv, NEW d \in Docs, NEW p \in Paths, Uses(d, p), Moves(d), NEW e \in Docs, Due(backup, e)'
  PROVE  backup.rows[e].path # p
<1>1. /\ backup'.rows = backup.rows /\ (backup.phase = "none" => backup' = backup)
      /\ d \in backup'.moved \/ backup.phase = "none"
  BY MovesEffect DEF IInv
<1>2. backup.rows[e].state = "attached" /\ e \notin backup'.moved
  BY <1>1 DEF Due
<1>3. backup.phase # "none"
  BY <1>2, NoBackupTyped, NoRowTyped DEF IInv, Phases
<1>4. e # d
  BY <1>1, <1>2, <1>3
<1>5. backup.rows[e].path \in Paths /\ Uses(e, backup.rows[e].path)
  BY <1>2 DEF IInv, Filed, FiledRow, Uses
<1>6. QED  BY <1>4, <1>5, Apart DEF IInv

LEMMA TidyStep ==
  ASSUME IInv, NEW r \in Requests, Tidy(r)
  PROVE  IInv'
<1>1. PICK p : p = reqs[r].old
  OBVIOUS
<1>2. PICK d : d = reqs[r].doc
  OBVIOUS
<1>3. /\ d \in Docs /\ files \in [Paths -> Contents \cup {None}] /\ rows \in [Docs -> Row]
      /\ Busy(r) /\ p \in Paths /\ Uses(d, p) /\ \A e \in Docs : rows[e].path # p
  BY <1>1, <1>2 DEF IInv, TypeOK, Tidy, Jobs, Busy, Loaded, LoadedJob, Uses
<1>4. files' = [x \in Paths |-> IF x = p THEN None ELSE files[x]]
  BY <1>1, <1>3 DEF Tidy
<1>5. /\ reqs' = [reqs EXCEPT ![r] = Idle] /\ UNCHANGED <<rows, names, kept>> /\ Idle \in Request /\ Moves(d)
  BY <1>2, IdleTyped DEF Tidy
<1>6. \A q \in Requests : reqs[q].op \in Writing => reqs[q].new # p
  BY <1>1, <1>3 DEF IInv, Private, PrivateFile
<1>7. \A e \in Docs : Due(backup, e)' => backup.rows[e].path # p
  BY <1>3, <1>5, RemovedIsMoved
<1>8. QED  BY <1>3, <1>4, <1>5, <1>6, <1>7, RemoveStep DEF TornAtMost, Unowed

(* What a replacement takes that could not read back its row is nobody     *)
(* else's, and the row that has it counts as torn.                         *)
LEMMA ReplaceUnreadStep ==
  ASSUME IInv, NEW r \in Requests, ReplaceUnread(r)
  PROVE  IInv'
<1>1. PICK p : p = reqs[r].new
  OBVIOUS
<1>2. PICK d : d = reqs[r].doc
  OBVIOUS
<1>3. /\ d \in Docs /\ files \in [Paths -> Contents \cup {None}] /\ rows \in [Docs -> Row]
      /\ Busy(r) /\ reqs[r].op = "tidy" /\ p \in Paths \cup {NoPath} /\ rows[d] \in Row
  BY <1>1, <1>2, TypesAre DEF IInv, TypeOK, ReplaceUnread, Jobs, Busy, Request
<1>4. files' = [x \in Paths |-> IF x = p THEN None ELSE files[x]]
  BY <1>1, <1>3 DEF ReplaceUnread
<1>5. /\ reqs' = [reqs EXCEPT ![r] = Idle] /\ UNCHANGED <<names, kept>> /\ Idle \in Request /\ Moves(d)
      /\ rows' = [rows EXCEPT ![d].torn = rows[d].torn \/ (HasFile(d) /\ rows[d].path = p)]
  BY <1>1, <1>2, IdleTyped DEF ReplaceUnread
<1>6. /\ rows' \in [Docs -> Row]
      /\ rows'[d].torn = (rows[d].torn \/ (HasFile(d) /\ rows[d].path = p))
      /\ \A e \in Docs : /\ rows'[e].path = rows[e].path /\ rows'[e].sum = rows[e].sum /\ rows'[e].name = rows[e].name
                         /\ rows'[e].state = rows[e].state /\ rows'[e].crossed = rows[e].crossed
                         /\ e # d => rows'[e].torn = rows[e].torn
  BY <1>3, <1>5 DEF Row, HasFile
<1>7. \A q \in Requests : q # r /\ reqs[q].op \in Writing => reqs[q].new # p
  BY <1>1, <1>3 DEF IInv, Private, PrivateFile
<1>8. ASSUME NEW e \in Docs, HasFile(e), ~rows'[e].torn
      PROVE  rows[e].path # p
  <2>1. CASE e = d
    BY <1>6, <1>8, <2>1
  <2>2. CASE e # d
    <3>1. rows[e].path \in Paths /\ Uses(e, rows[e].path) /\ Uses(d, p)
      BY <1>1, <1>2, <1>3, <1>8 DEF IInv, Filed, FiledRow, HasFile, Uses
    <3>2. QED  BY <1>3, <2>2, <3>1, Apart DEF IInv
  <2>3. QED  BY <2>1, <2>2
<1>9. ASSUME NEW e \in Docs, Due(backup, e)'
      PROVE  backup.rows[e].path # p
  <2>1. CASE p \in Paths
    BY <1>1, <1>2, <1>3, <1>5, <1>9, <2>1, RemovedIsMoved DEF Uses
  <2>2. CASE p \notin Paths
    <3>1. backup'.rows = backup.rows
      BY <1>3, <1>5, MovesEffect DEF IInv
    <3>2. backup.rows[e].path \in Paths
      BY <1>9, <3>1 DEF Due, IInv, Filed, FiledRow
    <3>3. QED  BY <2>2, <3>2
  <2>3. QED  BY <2>1, <2>2
<1>10. TornAtMost
  BY <1>6 DEF TornAtMost
<1>11. Unowed(r, p)
  BY <1>7, <1>8, <1>9 DEF Unowed
<1>12. QED  BY <1>3, <1>4, <1>5, <1>6, <1>10, <1>11, RemoveStep

LEMMA DeleteFilesStep ==
  ASSUME IInv, NEW r \in Requests, NEW d \in Docs, DeleteFiles(r, d)
  PROVE  IInv'
<1>1. PICK p : p = rows[d].path
  OBVIOUS
<1>2. PICK next : next = [Idle EXCEPT !.op = "delete", !.doc = d, !.old = p]
  OBVIOUS
<1>3. /\ rows \in [Docs -> Row] /\ rows[d] \in Row /\ p \in Paths \cup {NoPath}
  BY <1>1 DEF IInv, TypeOK, Row
<1>4. /\ next \in Request /\ next.op = "delete" /\ next.doc = d /\ next.old = p /\ next.new = NoPath
  BY <1>2, <1>3 DEF Idle, Request
<1>5. /\ files' = [x \in Paths |-> IF x = p THEN None ELSE files[x]]
      /\ rows' = [rows EXCEPT ![d].torn = HasFile(d)] /\ UNCHANGED <<names, kept>> /\ Moves(d)
      /\ reqs' = [reqs EXCEPT ![r] = next]
  BY <1>1, <1>2 DEF DeleteFiles, Load
<1>6. /\ rows' \in [Docs -> Row] /\ rows'[d].torn = HasFile(d)
      /\ \A e \in Docs : /\ rows'[e].path = rows[e].path /\ rows'[e].sum = rows[e].sum /\ rows'[e].name = rows[e].name
                         /\ rows'[e].state = rows[e].state /\ rows'[e].crossed = rows[e].crossed
                         /\ e # d => rows'[e].torn = rows[e].torn
  BY <1>3, <1>5 DEF Row, HasFile
<1>7. \A q \in Requests : reqs[q].op \in Writing => reqs[q].new # p
  BY <1>1 DEF IInv, Private, PrivateFile
<1>8. ASSUME NEW e \in Docs, HasFile(e), ~rows'[e].torn
      PROVE  rows[e].path # p
  <2>1. e # d
    BY <1>6, <1>8
  <2>2. rows[e].path \in Paths /\ Uses(e, rows[e].path)
    BY <1>8 DEF IInv, Filed, FiledRow, HasFile, Uses
  <2>3. CASE p \in Paths
    BY <1>1, <2>1, <2>2, <2>3, Apart DEF IInv, Uses
  <2>4. CASE p \notin Paths
    BY <2>2, <2>4
  <2>5. QED  BY <2>3, <2>4
<1>9. ASSUME NEW e \in Docs, Due(backup, e)'
      PROVE  backup.rows[e].path # p
  <2>1. CASE p \in Paths
    BY <1>1, <1>5, <1>9, <2>1, RemovedIsMoved DEF Uses
  <2>2. CASE p \notin Paths
    <3>1. backup'.rows = backup.rows
      BY <1>5, MovesEffect DEF IInv
    <3>2. backup.rows[e].path \in Paths
      BY <1>9, <3>1 DEF Due, IInv, Filed, FiledRow
    <3>3. QED  BY <2>2, <3>2
  <2>3. QED  BY <2>1, <2>2
<1>10. TornAtMost
  BY <1>6 DEF HasFile, TornAtMost
<1>11. /\ next = Idle \/ (next.op = "delete" /\ next.doc = d /\ next.old = rows[d].path /\ next.new = NoPath)
       /\ Moves(d) \/ UNCHANGED backup
       /\ rows' \in [Docs -> Row]
  BY <1>1, <1>4, <1>5, <1>6
<1>12. Unowed(r, p)
  BY <1>7, <1>8, <1>9 DEF Unowed
<1>13. files' = [x \in Paths |-> IF x = p THEN None ELSE files[x]] /\ UNCHANGED <<names, kept>>
  BY <1>5
<1>14. next \in Request /\ reqs' = [reqs EXCEPT ![r] = next]
  BY <1>4, <1>5
<1>15. QED  BY <1>10, <1>11, <1>12, <1>13, <1>14, RemoveStep

-----------------------------------------------------------------------------
(* The migration                                                           *)

LEMMA MigrateStep ==
  ASSUME IInv, NEW r \in Requests, NEW d \in Docs, Migrate(r, d)
  PROVE  IInv'
<1> DEFINE p == rows[d].path
           new == At(p[2])
<1>t. /\ TypeOK /\ HasFile(d) /\ p \in Paths /\ p[1] = "legacy" /\ files[p] # None /\ Uses(d, p)
      /\ rows[d] \in Row /\ rows[d].sum \in Contents
  BY TypesAre DEF IInv, Migrate, OnDisk, HasFile, Filed, FiledRow, Uses
<1>w. /\ new \in Paths /\ new[1] = "storage" /\ new[2] = p[2] /\ files[new] = None
  BY <1>t, PathsAre DEF Migrate, OnDisk
<1>a. /\ files' = [files EXCEPT ![new] = files[p]] /\ reqs[r].op = "idle"
      /\ reqs' = [reqs EXCEPT ![r] = [Idle EXCEPT !.op = "migrate", !.doc = d, !.new = new]]
      /\ UNCHANGED <<rows, names, backup, kept>>
  BY DEF Migrate, Load
<1>j. /\ reqs'[r].op = "migrate" /\ reqs'[r].doc = d /\ reqs'[r].old = NoPath /\ reqs'[r].new = new
      /\ reqs'[r] \in Request
      /\ \A q \in Requests : q # r => reqs'[q] = reqs[q]
      /\ reqs' \in [Requests -> Request]
  BY <1>t, <1>w, <1>a DEF TypeOK, Idle, Request
<1>f. /\ files' \in [Paths -> Contents \cup {None}] /\ files'[new] = files[p]
      /\ \A x \in Paths : x # new => files'[x] = files[x]
  BY <1>t, <1>w, <1>a DEF TypeOK
<1>v. /\ \A e \in Docs : rows[e].path # new /\ backup.rows[e].path # new
      /\ \A q \in Requests : Busy(q) => reqs[q].old # new
      /\ \A q \in Requests : reqs[q].op \in Writing \cup {"tidy"} => reqs[q].new # new
  <2>1. ASSUME NEW e \in Docs, e # d, Uses(e, new)
        PROVE  FALSE
    BY <1>t, <1>w, <2>1, Apart DEF IInv
  <2>2. \A e \in Docs : rows[e].path # new
    BY <1>t, <1>w, <2>1 DEF Uses
  <2>3. \A e \in Docs : backup.rows[e].path # new
    BY <1>t, <1>w, <2>1 DEF Uses, IInv, LegacyFirst
  <2>4. \A q \in Requests : Busy(q) => reqs[q].old # new
    BY <1>t, <1>w, <2>1 DEF Uses, IInv, LegacyFirst, Jobs
  <2>5. \A q \in Requests : reqs[q].op \in Writing => reqs[q].new # new
    BY <1>w DEF IInv, Private, PrivateFile
  <2>6. \A q \in Requests : reqs[q].op = "tidy" => reqs[q].new # new
    BY <1>t, <1>w, <2>1 DEF Uses, Busy, IInv, LegacyFirst, Jobs
  <2>7. QED  BY <2>2, <2>3, <2>4, <2>5, <2>6
<1> HIDE DEF new
<1>1. TypeOK'
  BY <1>t, <1>a, <1>f, <1>j DEF TypeOK
<1>2. OwnNames'
  <2>1. Inherits(None)
    <3> SUFFICES ASSUME NEW e \in Docs, NEW x \in Paths, Uses(e, x)'
                 PROVE  \E y \in Paths : Uses(e, y) /\ y[2] = x[2]
      BY DEF Inherits
    <3>1. Uses(e, x) \/ (e = d /\ x = new)
      <4>1. CASE x = rows[e].path \/ x = backup.rows[e].path \/ x = kept.rows[e].path
        BY <4>1 DEF Uses
      <4>2. ASSUME NEW q \in Requests, Busy(q)', reqs'[q].doc = e, x = reqs'[q].old \/ x = reqs'[q].new
            PROVE  Uses(e, x) \/ (e = d /\ x = new)
        <5>1. CASE q = r
          BY <1>j, <4>2, <5>1, PathsAre
        <5>2. CASE q # r
          BY <1>j, <4>2, <5>2 DEF Uses, Busy
        <5>3. QED  BY <5>1, <5>2
      <4>3. QED  BY <1>a, <4>1, <4>2 DEF Uses
    <3>2. QED  BY <3>1, <1>t, <1>w
  <2>2. QED  BY <1>a, <2>1, OwnNamesKept, TypesAre DEF IInv
<1>3. Jobs'
  BY <1>j DEF IInv, Jobs, Busy
<1>4. Filed'
  BY <1>a DEF IInv, Filed, FiledRow
<1>5. Private'
  <2>1. PrivateFile(r)'
    <3>1. reqs'[r].new \in Paths /\ reqs'[r].new[1] = "storage" /\ files'[reqs'[r].new] # None
      BY <1>f, <1>j, <1>t, <1>w
    <3>2. \A e \in Docs : rows'[e].path # reqs'[r].new /\ backup'.rows[e].path # reqs'[r].new
      BY <1>a, <1>j, <1>v
    <3>3. \A x \in Requests : /\ Busy(x)' => reqs'[x].old # new
                              /\ x # r /\ reqs'[x].op \in Writing \cup {"tidy"} => reqs'[x].new # new
      BY <1>j, <1>v, <1>w, PathsAre DEF Busy
    <3>4. QED  BY <1>j, <3>1, <3>2, <3>3 DEF PrivateFile
  <2>2. ASSUME NEW q \in Requests, q # r, reqs[q].op \in Writing
        PROVE  PrivateFile(q)'
    <3>1. PrivateFile(q) /\ reqs[q].new # new /\ reqs'[q] = reqs[q]
      BY <1>j, <1>v, <2>2 DEF IInv, Private
    <3>2. files'[reqs[q].new] = files[reqs[q].new]
      BY <1>f, <3>1 DEF PrivateFile
    <3>3. \A x \in Requests : /\ Busy(x)' => reqs'[x].old # reqs[q].new
                              /\ x # q /\ reqs'[x].op \in Writing \cup {"tidy"} => reqs'[x].new # reqs[q].new
      BY <1>j, <3>1, PathsAre DEF PrivateFile, Busy
    <3>4. QED  BY <1>a, <3>1, <3>2, <3>3 DEF PrivateFile
  <2>3. QED  BY <1>j, <2>1, <2>2 DEF Private
<1>6. Loaded'
  <2>1. LoadedJob(reqs[r])'
    <3>1. ~rows[d].torn /\ ~rows[d].crossed => files[p] = rows[d].sum /\ p[2] = rows[d].name
      BY <1>t DEF IInv, Agree, Right
    <3>2. QED  BY <1>a, <1>f, <1>j, <1>w, <3>1 DEF LoadedJob
  <2>2. ASSUME NEW q \in Requests, q # r
        PROVE  LoadedJob(reqs[q])'
    <3>1. SameJob(q)
      BY <1>j, <2>2 DEF SameJob
    <3>2. reqs[q].op \in Writing => files'[reqs[q].new] = files[reqs[q].new]
      BY <1>f, <1>v DEF IInv, Private, PrivateFile
    <3>3. Busy(q) => StillTrue(reqs[q].doc)
      BY <1>a DEF StillTrue
    <3>4. reqs[q].op = "tidy" => \A e \in Docs : rows'[e].path # reqs[q].old
      BY <1>a DEF IInv, Loaded, LoadedJob
    <3>5. QED  BY <3>1, <3>2, <3>3, <3>4, OtherLoaded
  <2>3. QED  BY <2>1, <2>2 DEF Loaded
<1>7. LegacyFirst'
  BY <1>a, <1>j, PathsAre DEF IInv, LegacyFirst, Busy, HasFile
<1>8. Agree'
  BY <1>a, <1>f, <1>v DEF IInv, Agree, Right, Filed, FiledRow, HasFile
<1>9. Dumped'
  BY <1>a, <1>f, <1>v DEF IInv, Dumped, Due, Right, Filed, FiledRow
<1>10. Copied' /\ Phases'
  BY <1>a DEF IInv, Copied, Due, Right, Phases
<1>11. QED  BY <1>1, <1>2, <1>3, <1>4, <1>5, <1>6, <1>7, <1>8, <1>9, <1>10 DEF IInv

-----------------------------------------------------------------------------
(* A backup                                                                *)

LEMMA BackupStep ==
  ASSUME IInv, UNCHANGED <<rows, files, names, reqs>>, backup' \in Backup, kept' \in Backup,
         \A e \in Docs : /\ backup'.rows[e] = NoRow \/ backup'.rows[e] = rows[e] \/ backup'.rows[e] = backup.rows[e]
                         /\ kept'.rows[e] = kept.rows[e] \/ kept'.rows[e] = backup.rows[e],
         Dumped', Copied', Phases'
  PROVE  IInv'
<1>1. TypeOK'
  BY DEF IInv, TypeOK
<1>2. OwnNames'
  <2>1. ASSUME NEW e \in Docs, NEW p \in Paths, Uses(e, p)'
        PROVE  Uses(e, p)
    <3>1. p # NoRow.path
      BY NoRowTyped, PathsAre
    <3>2. QED  BY <2>1, <3>1 DEF Uses, Busy
  <2>2. QED  BY <2>1, UsesKept
<1>3. Jobs'
  BY DEF IInv, Jobs, Busy
<1>4. Filed'
  BY NoRowTyped DEF IInv, Filed
<1>5. Private'
  BY NoRowTyped, PathsAre DEF IInv, Private, PrivateFile, Busy
<1>6. Loaded'
  BY DEF IInv, Loaded, LoadedJob, HasFile
<1>7. LegacyFirst'
  BY NoRowTyped, PathsAre DEF IInv, LegacyFirst, HasFile, Busy
<1>8. Agree'
  BY DEF IInv, Agree, HasFile, Right
<1>9. QED  BY <1>1, <1>2, <1>3, <1>4, <1>5, <1>6, <1>7, <1>8 DEF IInv

LEMMA DumpStep ==
  ASSUME IInv, Dump
  PROVE  IInv'
<1>t. TypeOK
  BY DEF IInv
<1>1. /\ backup' \in Backup /\ backup'.phase = "dumped" /\ backup'.rows = rows /\ backup'.moved = {}
  BY <1>t, NoBackupTyped DEF TypeOK, Dump, NoBackup, Backup
<1>2. UNCHANGED <<rows, files, names, reqs, kept>> /\ kept' \in Backup
  BY <1>t DEF Dump, TypeOK
<1>3. Dumped'
  BY <1>1, <1>2 DEF IInv, Dumped, Due, Agree, HasFile
<1>4. Copied' /\ Phases'
  BY <1>1, <1>2 DEF IInv, Copied, Due, Right, Phases
<1>5. QED  BY <1>1, <1>2, <1>3, <1>4, BackupStep

LEMMA ListStep ==
  ASSUME IInv, List
  PROVE  IInv'
<1>t. TypeOK /\ backup \in Backup
  BY DEF IInv, TypeOK
<1> DEFINE todo == {p \in Paths : p[1] = "storage" /\ OnDisk(p)}
<1>0. todo \subseteq Paths
  OBVIOUS
<1>1. backup.phase = "dumped" /\ backup' = [backup EXCEPT !.phase = "copying", !.todo = todo]
  BY DEF List
<1>2. UNCHANGED <<rows, files, names, reqs, kept>> /\ kept' \in Backup
  BY <1>t DEF List, TypeOK
<1>3. \A p \in Paths : p[1] = "storage" /\ files[p] # None => p \in todo
  BY PathsAre DEF OnDisk
<1> HIDE DEF todo
<1>4. /\ backup' \in Backup /\ backup'.phase = "copying" /\ backup'.rows = backup.rows
      /\ backup'.moved = backup.moved /\ backup'.todo = todo
  BY <1>t, <1>0, <1>1 DEF Backup
<1>5. Dumped'
  <2>1. ASSUME NEW d \in Docs, Due(backup, d)'
        PROVE  backup.rows[d].path \in todo /\ Right(backup.rows[d], files[backup.rows[d].path])
    <3>1. Due(backup, d) /\ backup.rows[d].path \in Paths /\ backup.rows[d].path[1] = "storage"
      BY <1>4, <2>1 DEF Due, IInv, Filed, FiledRow
    <3>2. Right(backup.rows[d], files[backup.rows[d].path])
      BY <1>1, <3>1 DEF IInv, Dumped
    <3>3. QED  BY <1>3, <3>1, <3>2 DEF Right
  <2>2. QED  BY <1>2, <1>4, <2>1 DEF Dumped, Right
<1>6. Copied' /\ Phases'
  BY <1>2, <1>4 DEF IInv, Copied, Due, Right, Phases
<1>7. QED  BY <1>2, <1>4, <1>5, <1>6, BackupStep

LEMMA CopyFileStep ==
  ASSUME IInv, NEW p \in Paths, CopyFile(p)
  PROVE  IInv'
<1>t. TypeOK /\ backup \in Backup
  BY DEF IInv, TypeOK
<1>1. /\ backup.phase = "copying" /\ files[p] \in Contents \cup {None}
      /\ backup' = [backup EXCEPT !.todo = backup.todo \ {p}, !.copy = [backup.copy EXCEPT ![p] = files[p]]]
  BY <1>t DEF CopyFile, Backup, TypeOK
<1>2. UNCHANGED <<rows, files, names, reqs, kept>> /\ kept' \in Backup
  BY <1>t DEF CopyFile, TypeOK
<1>3. /\ backup' \in Backup /\ backup'.phase = "copying" /\ backup'.rows = backup.rows
      /\ backup'.moved = backup.moved /\ backup'.todo = backup.todo \ {p}
      /\ backup'.copy[p] = files[p] /\ \A q \in Paths : q # p => backup'.copy[q] = backup.copy[q]
  BY <1>t, <1>1 DEF Backup
<1>4. Dumped'
  <2>1. ASSUME NEW d \in Docs, Due(backup, d)'
        PROVE  (IF backup'.phase = "dumped" \/ backup'.rows[d].path \in backup'.todo
                THEN Right(backup.rows[d], files[backup.rows[d].path])
                ELSE Right(backup.rows[d], backup'.copy[backup.rows[d].path]))
    <3>1. Due(backup, d) /\ backup.rows[d].path \in Paths
      BY <1>3, <2>1 DEF Due, IInv, Filed, FiledRow
    <3>2. IF backup.rows[d].path \in backup.todo
          THEN Right(backup.rows[d], files[backup.rows[d].path])
          ELSE Right(backup.rows[d], backup.copy[backup.rows[d].path])
      BY <1>1, <3>1 DEF IInv, Dumped
    <3>3. p \in backup.todo
      BY DEF CopyFile
    <3>4. CASE backup.rows[d].path = p
      BY <1>3, <3>2, <3>3, <3>4
    <3>5. CASE backup.rows[d].path # p
      BY <1>3, <3>1, <3>2, <3>5
    <3>6. QED  BY <3>4, <3>5
  <2>2. QED  BY <1>2, <1>3, <2>1 DEF Dumped, Right
<1>5. Copied' /\ Phases'
  BY <1>2, <1>3 DEF IInv, Copied, Due, Right, Phases
<1>6. QED  BY <1>2, <1>3, <1>4, <1>5, BackupStep

LEMMA BackupFailsStep ==
  ASSUME IInv, BackupFails
  PROVE  IInv'
<1>1. /\ UNCHANGED <<rows, files, names, reqs, kept>> /\ kept' \in Backup /\ backup' = NoBackup
  BY DEF IInv, TypeOK, BackupFails
<1>2. \A d \in Docs : ~Due(NoBackup, d)
  BY NoBackupTyped, NoRowTyped DEF Due
<1>3. Dumped' /\ Copied' /\ Phases'
  BY <1>1, <1>2, NoBackupTyped DEF IInv, Dumped, Copied, Due, Right, Phases
<1>4. QED  BY <1>1, <1>3, NoBackupTyped, BackupStep

LEMMA FinishStep ==
  ASSUME IInv, Finish
  PROVE  IInv'
<1>t. TypeOK /\ backup \in Backup
  BY DEF IInv, TypeOK
<1>1. /\ UNCHANGED <<rows, files, names, reqs>> /\ backup' = NoBackup
      /\ kept' = [backup EXCEPT !.phase = "done"] /\ backup.phase = "copying" /\ backup.todo = {}
  BY DEF Finish
<1>2. /\ kept' \in Backup /\ kept'.rows = backup.rows /\ kept'.moved = backup.moved /\ kept'.copy = backup.copy
  BY <1>t, <1>1 DEF Backup
<1>3. \A d \in Docs : ~Due(NoBackup, d)
  BY NoBackupTyped, NoRowTyped DEF Due
<1>4. Dumped' /\ Phases'
  BY <1>1, <1>3, NoBackupTyped DEF Dumped, Due, Phases
<1>5. Copied'
  BY <1>1, <1>2 DEF IInv, Dumped, Copied, Due, Right
<1>6. QED  BY <1>1, <1>2, <1>4, <1>5, NoBackupTyped, BackupStep

(* Everything is as it was kept, and no request survives.                  *)
LEMMA RestoreStep ==
  ASSUME IInv, Restore
  PROVE  IInv'
<1> DEFINE torn(d) == kept.rows[d].torn \/ d \in kept.moved \/ kept.rows[d].path[1] = "legacy"
<1>t. /\ TypeOK /\ kept \in Backup /\ kept.rows \in [Docs -> Row] /\ \A d \in Docs : kept.rows[d] \in Row
  BY TypesAre DEF IInv, TypeOK
<1>0. \A d \in Docs : torn(d) \in BOOLEAN
  BY <1>t DEF Row
<1>a. /\ rows' = [d \in Docs |-> [kept.rows[d] EXCEPT !.torn = torn(d)]]
      /\ files' = [p \in Paths |-> IF p[1] = "legacy" THEN files[p] ELSE kept.copy[p]]
      /\ reqs' = [r \in Requests |-> Idle] /\ UNCHANGED <<names, backup, kept>> /\ backup = NoBackup
  BY DEF Restore, IInv, Phases
<1>r. /\ rows' \in [Docs -> Row]
      /\ \A d \in Docs : /\ rows'[d].path = kept.rows[d].path /\ rows'[d].state = kept.rows[d].state
                         /\ rows'[d].sum = kept.rows[d].sum /\ rows'[d].name = kept.rows[d].name
                         /\ rows'[d].crossed = kept.rows[d].crossed /\ rows'[d].torn = torn(d)
  BY <1>t, <1>0, <1>a DEF Row
<1>f. /\ files' \in [Paths -> Contents \cup {None}]
      /\ \A p \in Paths : p[1] # "legacy" => files'[p] = kept.copy[p]
  BY <1>t, <1>a DEF TypeOK, Backup
<1>j. /\ reqs' \in [Requests -> Request] /\ \A r \in Requests : reqs'[r] = Idle /\ reqs'[r].op = "idle"
  BY <1>a, IdleTyped
<1>b. \A d \in Docs : backup.rows[d] = NoRow /\ ~Due(backup, d)
  BY <1>a, NoBackupTyped, NoRowTyped DEF Due
<1>1. TypeOK'
  BY <1>t, <1>a, <1>r, <1>f, <1>j DEF TypeOK
<1>2. OwnNames'
  <2>1. ASSUME NEW e \in Docs, NEW p \in Paths, Uses(e, p)'
        PROVE  Uses(e, p)
    BY <1>a, <1>r, <1>j, <2>1 DEF Uses, Busy
  <2>2. QED  BY <1>a, <2>1, UsesKept
<1>3. Jobs' /\ Private' /\ Loaded'
  BY <1>j DEF Jobs, Busy, Private, Loaded, LoadedJob, Writing
<1>4. Filed'
  BY <1>a, <1>r DEF IInv, Filed, FiledRow
<1>5. LegacyFirst'
  BY <1>a, <1>b, <1>j, NoRowTyped, PathsAre DEF LegacyFirst, Busy
<1>6. Agree'
  <2>1. ASSUME NEW d \in Docs, rows'[d].state = "attached", ~rows'[d].torn
        PROVE  Right(rows'[d], files'[rows'[d].path])
    <3>1. /\ kept.rows[d].state = "attached" /\ ~torn(d)
      BY <1>r, <2>1
    <3>2. /\ kept.rows[d].path \in Paths /\ kept.rows[d].path[1] # "legacy" /\ Due(kept, d)
      BY <3>1, Storageless DEF IInv, Filed, FiledRow, Due
    <3>3. Right(kept.rows[d], kept.copy[kept.rows[d].path])
      BY <3>2 DEF IInv, Copied
    <3>4. QED  BY <1>f, <1>r, <3>2, <3>3 DEF Right
  <2>2. QED  BY <2>1 DEF Agree, HasFile
<1>7. Dumped' /\ Copied' /\ Phases'
  BY <1>a, <1>b DEF IInv, Dumped, Copied, Due, Right, Phases
<1>8. QED  BY <1>1, <1>2, <1>3, <1>4, <1>5, <1>6, <1>7 DEF IInv

-----------------------------------------------------------------------------
(* The specification                                                       *)

LEMMA InitHolds == Init => IInv
<1> SUFFICES ASSUME Init
             PROVE  IInv
  OBVIOUS
<1>1. PICK old \in {{}} \cup {{d} : d \in Docs}, c \in Contents :
         /\ rows = [d \in Docs |-> IF d \in old
                                   THEN [NoRow EXCEPT !.state = "attached", !.path = <<"legacy", 1>>, !.sum = c, !.name = 1]
                                   ELSE NoRow]
         /\ files = [p \in Paths |-> IF old # {} /\ p = <<"legacy", 1>> THEN c ELSE None]
         /\ names = Cardinality(old)
  BY DEF Init
<1>2. /\ reqs = [r \in Requests |-> Idle] /\ backup = NoBackup /\ kept = NoBackup
  BY DEF Init
<1>3. \A d, e \in Docs : d \in old /\ e \in old => d = e
  OBVIOUS
<1>4. IF old = {} THEN names = 0 ELSE names = 1
  BY <1>1, FS_EmptySet, FS_Singleton
<1>5. /\ <<"legacy", 1>> \in Paths /\ <<"legacy", 1>>[1] = "legacy" /\ <<"legacy", 1>>[2] = 1 /\ 1 \in Names
  BY NamesAre, PathsAre
<1>6. PICK held : held = [NoRow EXCEPT !.state = "attached", !.path = <<"legacy", 1>>, !.sum = c, !.name = 1]
  OBVIOUS
<1>7. /\ held \in Row /\ held.state = "attached" /\ held.path = <<"legacy", 1>> /\ held.sum = c /\ held.name = 1
  BY <1>5, <1>6 DEF NoRow, Row
<1>8. \A d \in Docs : rows[d] = IF d \in old THEN held ELSE NoRow
  BY <1>1, <1>6
<1>9. /\ \A r \in Requests : reqs[r] = Idle /\ ~Busy(r) /\ reqs[r].op = "idle"
      /\ \A d \in Docs : backup.rows[d] = NoRow /\ kept.rows[d] = NoRow
  BY <1>2, IdleTyped, NoBackupTyped DEF Busy
<1>10. TypeOK
  <2>1. rows \in [Docs -> Row]
    BY <1>1, <1>6, <1>7, NoRowTyped
  <2>2. files \in [Paths -> Contents \cup {None}]
    BY <1>1
  <2>3. names \in 0 .. MaxName
    BY <1>4, NamesAre
  <2>4. QED  BY <1>2, <2>1, <2>2, <2>3, IdleTyped, NoBackupTyped DEF TypeOK
<1>11. OwnNames
  <2>1. ASSUME NEW d \in Docs, NEW p \in Paths, Uses(d, p)
        PROVE  d \in old /\ p = <<"legacy", 1>>
    BY <1>7, <1>8, <1>9, <2>1, NoRowTyped, PathsAre DEF Uses
  <2>2. QED  BY <1>3, <1>4, <1>5, <2>1 DEF OwnNames
<1>12. Jobs /\ Private /\ Loaded /\ Phases
  BY <1>2, <1>9, NoBackupTyped DEF Jobs, Private, Loaded, LoadedJob, Writing, Phases
<1>13. Filed
  BY <1>5, <1>7, <1>8, <1>9, NoRowTyped DEF Filed, FiledRow
<1>14. LegacyFirst
  BY <1>9, NoRowTyped, PathsAre DEF LegacyFirst
<1>15. Agree
  <2>1. ASSUME NEW d \in Docs, HasFile(d)
        PROVE  Right(rows[d], files[rows[d].path])
    <3>1. d \in old /\ rows[d] = held
      BY <1>8, <2>1, NoRowTyped DEF HasFile
    <3>2. files[<<"legacy", 1>>] = c /\ c # None
      BY <1>1, <1>5, <3>1, NoneAssumption
    <3>3. QED  BY <1>5, <1>7, <3>1, <3>2 DEF Right
  <2>2. QED  BY <2>1 DEF Agree
<1>16. Dumped /\ Copied
  BY <1>9, NoRowTyped DEF Dumped, Copied, Due
<1>17. QED  BY <1>10, <1>11, <1>12, <1>13, <1>14, <1>15, <1>16 DEF IInv

LEMMA NextHolds == IInv /\ [Next]_vars => IInv'
<1> SUFFICES ASSUME IInv, [Next]_vars
             PROVE  IInv'
  OBVIOUS
<1>1. ASSUME NEW r \in Requests, NEW d \in Docs, NEW c \in Contents, Register(r, d, c) \/ ReplaceLoad(r, d, c)
      PROVE  IInv'
  BY <1>1, RegisterStep, ReplaceLoadStep
<1>2. ASSUME NEW r \in Requests, NEW d \in Docs, DeleteFiles(r, d) \/ Migrate(r, d)
      PROVE  IInv'
  BY <1>2, DeleteFilesStep, MigrateStep
<1>3. ASSUME NEW r \in Requests, AttachCommit(r) \/ ReplaceCommit(r) \/ ReplaceFails(r) \/ ReplaceUnread(r)
                                  \/ Tidy(r) \/ DeleteCommit(r) \/ MigrateCommit(r) \/ Fail(r)
      PROVE  IInv'
  BY <1>3, AttachCommitStep, ReplaceCommitStep, ReplaceFailsStep, ReplaceUnreadStep, TidyStep,
     DeleteCommitStep, MigrateCommitStep, FailStep
<1>4. ASSUME Dump \/ List \/ Finish \/ BackupFails \/ Restore
      PROVE  IInv'
  BY <1>4, DumpStep, ListStep, FinishStep, BackupFailsStep, RestoreStep
<1>5. ASSUME NEW p \in Paths, CopyFile(p)
      PROVE  IInv'
  BY <1>5, CopyFileStep
<1>6. CASE UNCHANGED vars
  <2>1. UNCHANGED <<rows, files, names, reqs, backup, kept>>
    BY <1>6 DEF vars
  <2>2. TypeOK' /\ OwnNames' /\ Jobs' /\ Filed'
    BY <2>1 DEF IInv, TypeOK, OwnNames, Uses, Busy, Jobs, Filed, FiledRow
  <2>3. Private' /\ Loaded' /\ LegacyFirst' /\ Agree'
    BY <2>1 DEF IInv, Private, PrivateFile, Busy, Loaded, LoadedJob, LegacyFirst, Agree, HasFile, Right
  <2>4. Dumped' /\ Copied' /\ Phases'
    BY <2>1 DEF IInv, Dumped, Copied, Due, Right, Phases
  <2>5. QED  BY <2>2, <2>3, <2>4 DEF IInv
<1>7. QED  BY <1>1, <1>2, <1>3, <1>4, <1>5, <1>6 DEF Next

(* What every state of the specification satisfies, however many requests  *)
(* overlap, fail or are cut off by a restart or a restore of the backup:   *)
(* the paths, the requests and the two backups beside the rows.            *)
THEOREM StorageInvariance == Spec => []IInv
  BY InitHolds, NextHolds, PTL DEF Spec

(* After every step of attaching, replacing, deleting, migrating and       *)
(* restoring that may be the last one, the file of every document is on    *)
(* disk, under the name its row has, and holds what its checksum says      *)
(* (documents.py replace_attachment, permanently_delete_document).  Not so *)
(* where a deletion stopped before its commit, a replacement could not     *)
(* read back its row, or a restored backup lacked the file.                *)
THEOREM FilesStayWithRows == Spec => []FilesMatchRows
<1>1. IInv => FilesMatchRows
  BY PathsAre DEF IInv, Agree, Right, FilesMatchRows, FilesOfRows, SumsOfFiles, Filed, FiledRow, HasFile, OnDisk
<1>2. QED  BY <1>1, StorageInvariance, PTL

(* A backup that succeeded has the file of every document in its dump that *)
(* had its file and was not replaced or deleted while it was taken, also   *)
(* when registrations and replacements went on (scripts/backup.py).        *)
THEOREM BackupsAreWhole == Spec => []BackupsHaveFiles
<1>1. IInv => BackupsHaveFiles
  BY DEF IInv, Copied, Due, Right, BackupsHaveFiles
<1>2. QED  BY <1>1, StorageInvariance, PTL

-----------------------------------------------------------------------------
(* Registration, the instance R of MCRecords. *)

DocRows == [state : {"unused", "live", "archived", "gone"}, type : Types \cup {None},
            number : R!TrackingNumbers \cup {R!NoNumber}, aliases : SUBSET R!TrackingNumbers,
            legis : Numbers \cup {None}, file : OneContent \cup {None},
            late : BOOLEAN, shares : BOOLEAN]
JobRows == [op : {"idle", "register", "attach", "retype"}, doc : Docs \cup {None},
            type : Types \cup {None}, legis : Numbers \cup {None},
            file : OneContent \cup {None}, tmp : Uploads \cup {None},
            was : R!TrackingNumbers \cup {R!NoNumber}, shares : BOOLEAN, fresh : BOOLEAN]

Used(d) == docs[d].state # "unused"

(* What a request under way works on. *)
Registering ==
    \A r \in Requests :
        /\ jobs[r].op \in {"register", "retype"} => jobs[r].type \in Types
        /\ jobs[r].op \in {"attach", "retype"} => jobs[r].doc \in Docs /\ Used(jobs[r].doc)

(* Numbers in use were given, and a retype keeps a number of its document. *)
Given ==
    /\ \A d \in Docs : Used(d) => docs[d].number \in R!TrackingNumbers
    /\ \A d \in Docs : \A x \in R!NumbersOf(d) : x[2] =< given[x[1]]
    /\ \A r \in Requests : jobs[r].op = "retype" => jobs[r].was \in R!NumbersOf(jobs[r].doc)

(* The file a request looked for is on no document. *)
FileFree ==
    \A r \in Requests :
        jobs[r].op \in {"register", "attach"} /\ jobs[r].file # None /\ jobs[r].fresh
            => R!_documents_with_checksum(jobs[r].file) = {}

(* The number it looked for is only on documents that share theirs. *)
NumberFree ==
    \A r \in Requests :
        jobs[r].op = "register" /\ jobs[r].legis # None /\ jobs[r].fresh /\ ~jobs[r].shares
            => \A d \in R!_documents_with_number(jobs[r].type, jobs[r].legis) : docs[d].shares

RegistrationInv ==
    /\ R!TypeOK /\ Registering
    /\ R!NumbersGivenOnce /\ R!NumberOfType /\ Given
    /\ R!FilesOnce /\ FileFree
    /\ R!LegisOnce /\ NumberFree

-----------------------------------------------------------------------------

(* The type invariant, by its rows. *)
LEMMA Rows == R!TypeOK <=> /\ docs \in [Docs -> DocRows] /\ given \in [Types -> 0 .. MaxNumber]
                         /\ tmp \in [Uploads -> OneContent \cup {None}] /\ jobs \in [Requests -> JobRows]
  BY DEF R!TypeOK, DocRows, JobRows

(* A request that waits. *)
LEMMA IdleJob == R!Idle \in JobRows /\ R!Idle.op = "idle"
  BY DEF R!Idle, JobRows

(* A document not registered yet. *)
LEMMA UnusedRow ==
    /\ R!Unused \in DocRows
    /\ R!Unused.state = "unused" /\ R!Unused.number = R!NoNumber /\ R!Unused.aliases = {}
    /\ R!Unused.legis = None /\ R!Unused.file = None
  BY DEF R!Unused, DocRows

(* It holds at first. *)
LEMMA InitInv == R!MaxNumberAssumption /\ R!Init => RegistrationInv
  <1> SUFFICES ASSUME R!MaxNumberAssumption, R!Init PROVE RegistrationInv
    OBVIOUS
  <1>1. R!TypeOK
    <2>1. docs \in [Docs -> DocRows] /\ tmp \in [Uploads -> OneContent \cup {None}] /\ jobs \in [Requests -> JobRows]
      BY IdleJob, UnusedRow DEF R!Init
    <2>2. given \in [Types -> 0 .. MaxNumber]
      BY DEF R!Init, R!MaxNumberAssumption
    <2> QED
      BY <2>1, <2>2, Rows
  <1>2. \A r \in Requests : jobs[r].op = "idle"
    BY IdleJob DEF R!Init
  <1>3. \A d \in Docs : docs[d].state = "unused" /\ R!NumbersOf(d) = {}
    BY UnusedRow DEF R!Init, R!NumbersOf
  <1>4. \A d \in Docs : ~R!Exists(d) /\ ~Used(d)
    BY <1>3 DEF R!Exists, Used
  <1> QED
    BY <1>1, <1>2, <1>3, <1>4
       DEF RegistrationInv, Registering, R!NumbersGivenOnce, R!NumberOfType, Given, R!FilesOnce, FileFree, R!LegisOnce, NumberFree

(* A request that proceeds overtakes those that register the same. *)
LEMMA Proceeds ==
    ASSUME R!TypeOK, NEW r \in Requests, NEW job \in JobRows, R!Proceed(r, job)
    PROVE  /\ jobs' \in [Requests -> JobRows]
           /\ jobs'[r] = job
           /\ \A q \in Requests \ {r} :
                /\ jobs'[q].op = jobs[q].op /\ jobs'[q].doc = jobs[q].doc /\ jobs'[q].type = jobs[q].type
                /\ jobs'[q].legis = jobs[q].legis /\ jobs'[q].file = jobs[q].file
                /\ jobs'[q].was = jobs[q].was /\ jobs'[q].shares = jobs[q].shares
                /\ jobs'[q].fresh => jobs[q].fresh /\ ~R!Same(q, r)
  <1> DEFINE fresh(q) == jobs[q].fresh /\ ~R!Same(q, r)
  <1>1. jobs' = [q \in Requests |-> IF q = r THEN job ELSE [jobs[q] EXCEPT !.fresh = fresh(q)]]
    BY DEF R!Proceed
  <1>2. \A q \in Requests : jobs[q] \in JobRows /\ fresh(q) \in BOOLEAN
    BY Rows DEF JobRows, R!Same
  <1>3. \A q \in Requests : fresh(q) => jobs[q].fresh /\ ~R!Same(q, r)
    OBVIOUS
  <1> HIDE DEF fresh
  <1>4. \A q \in Requests : [jobs[q] EXCEPT !.fresh = fresh(q)] \in JobRows
    BY <1>2 DEF JobRows
  <1>5. jobs' \in [Requests -> JobRows]
    BY <1>1, <1>4
  <1> QED
    BY <1>1, <1>2, <1>3, <1>5 DEF JobRows

(* A request that ends proceeds to waiting. *)
LEMMA Finishes ==
    ASSUME R!TypeOK, NEW r \in Requests, R!Finish(r)
    PROVE  R!Proceed(r, R!Idle) /\ R!Idle \in JobRows
  BY IdleJob DEF R!Finish

-----------------------------------------------------------------------------
(* What each part of the invariant needs of a step. *)

(* Every request is as it was, at most overtaken; or it has ended; or it   *)
(* begins, with its search just made.                                      *)
Kept(q) ==
    /\ jobs'[q].op = jobs[q].op /\ jobs'[q].doc = jobs[q].doc /\ jobs'[q].type = jobs[q].type
    /\ jobs'[q].legis = jobs[q].legis /\ jobs'[q].file = jobs[q].file
    /\ jobs'[q].was = jobs[q].was /\ jobs'[q].shares = jobs[q].shares
    /\ jobs'[q].fresh => jobs[q].fresh
Ended(q) == jobs'[q].op = "idle"

(* Numbers, when no document gets another. *)
LEMMA NumbersStay ==
    ASSUME R!MaxNumberAssumption, RegistrationInv, R!TypeOK',
           \A d \in Docs : /\ docs'[d].number = docs[d].number /\ docs'[d].aliases = docs[d].aliases
                           /\ docs'[d].type = docs[d].type
                           /\ Used(d)' <=> Used(d)
                           /\ R!Exists(d)' => R!Exists(d),
           \A t \in Types : given[t] =< given'[t],
           \A q \in Requests : \/ Kept(q) \/ Ended(q)
                               \/ jobs'[q].op = "register" /\ jobs'[q].type \in Types
                               \/ /\ jobs'[q].op = "attach" /\ jobs'[q].doc \in Docs /\ Used(jobs'[q].doc)
                               \/ /\ jobs'[q].op = "retype" /\ jobs'[q].type \in Types
                                  /\ jobs'[q].doc \in Docs /\ Used(jobs'[q].doc)
                                  /\ jobs'[q].was \in R!NumbersOf(jobs'[q].doc)
    PROVE  Registering' /\ R!NumbersGivenOnce' /\ R!NumberOfType' /\ Given'
  <1>1. \A d \in Docs : R!NumbersOf(d)' = R!NumbersOf(d)
    BY DEF R!NumbersOf
  <1>2. Registering'
    BY DEF RegistrationInv, Registering, Kept, Ended
  <1>3. R!NumbersGivenOnce' /\ R!NumberOfType'
    BY <1>1 DEF RegistrationInv, R!NumbersGivenOnce, R!NumberOfType
  <1>4. \A d \in Docs : \A x \in R!NumbersOf(d)' : x[2] =< given'[x[1]]
    <2> SUFFICES ASSUME NEW d \in Docs, NEW x \in R!NumbersOf(d)
                 PROVE  x[2] =< given'[x[1]]
      BY <1>1
    <2>1. x \in R!TrackingNumbers
      BY Rows DEF RegistrationInv, R!NumbersOf, DocRows
    <2>2. x[1] \in Types /\ x[2] \in Nat
      BY <2>1 DEF R!TrackingNumbers, R!MaxNumberAssumption
    <2>3. x[2] =< given[x[1]] /\ given[x[1]] =< given'[x[1]]
      BY <2>2 DEF RegistrationInv, Given
    <2>4. given[x[1]] \in Nat /\ given'[x[1]] \in Nat
      BY <2>2 DEF RegistrationInv, R!TypeOK, R!MaxNumberAssumption
    <2> QED
      BY <2>2, <2>3, <2>4
  <1>5. Given'
    <2>1. \A d \in Docs : Used(d)' => docs'[d].number \in R!TrackingNumbers
      BY DEF RegistrationInv, Given
    <2>2. ASSUME NEW q \in Requests, jobs'[q].op = "retype"
          PROVE  jobs'[q].doc \in Docs /\ jobs'[q].was \in R!NumbersOf(jobs'[q].doc)
      BY <2>2 DEF RegistrationInv, Given, Registering, Kept, Ended
    <2>3. ASSUME NEW q \in Requests, jobs'[q].op = "retype"
          PROVE  jobs'[q].was \in R!NumbersOf(jobs[q].doc)'
      BY <1>1, <2>2, <2>3 DEF R!NumbersOf
    <2> QED
      BY <1>4, <2>1, <2>3 DEF Given, R!TrackingNumbers
  <1> QED
    BY <1>2, <1>3, <1>5

(* Files, when no document gets another but an attached one. *)
LEMMA FilesStay ==
    ASSUME RegistrationInv, R!TypeOK',
           \A d \in Docs : R!Exists(d)' /\ docs'[d].file # None =>
                            R!Exists(d) /\ docs'[d].file = docs[d].file /\ docs'[d].late = docs[d].late,
           \A q \in Requests : \/ Kept(q) \/ Ended(q)
                               \/ /\ jobs'[q].op = "attach" /\ jobs[q].op = "register"
                                  /\ jobs'[q].file = jobs[q].file
                                  /\ jobs'[q].fresh => jobs[q].fresh
                               \/ R!_documents_with_checksum(jobs'[q].file) = {}
                               \/ jobs'[q].op = "retype"
    PROVE  R!FilesOnce' /\ FileFree'
  <1>1. R!FilesOnce'
    BY DEF RegistrationInv, R!FilesOnce
  <1>2. FileFree'
    <2> SUFFICES ASSUME NEW q \in Requests, jobs'[q].op \in {"register", "attach"}, jobs'[q].file # None,
                        jobs'[q].fresh, NEW d \in Docs, R!Exists(d)', docs'[d].file = jobs'[q].file
                 PROVE  FALSE
      BY DEF FileFree, R!_documents_with_checksum
    <2>1. R!Exists(d) /\ docs[d].file = jobs'[q].file
      OBVIOUS
    <2>2. d \in R!_documents_with_checksum(jobs'[q].file)
      BY <2>1 DEF R!_documents_with_checksum
    <2> QED
      BY <2>2 DEF RegistrationInv, FileFree, Kept, Ended
  <1> QED
    BY <1>1, <1>2

(* Legislative numbers, when no document gets another but one that shares. *)
LEMMA LegisStays ==
    ASSUME RegistrationInv, R!TypeOK',
           \A d \in Docs : R!Exists(d)' /\ docs'[d].legis # None =>
                /\ R!Exists(d)
                /\ \/ docs'[d].shares
                   \/ /\ docs'[d].legis = docs[d].legis /\ docs'[d].type = docs[d].type
                      /\ docs[d].late => docs'[d].late
                      /\ docs[d].shares => docs'[d].shares,
           \A q \in Requests : \/ Kept(q) \/ Ended(q)
                               \/ jobs'[q].shares \/ jobs'[q].legis = None
                               \/ R!_documents_with_number(jobs'[q].type, jobs'[q].legis) = {}
                               \/ jobs'[q].op # "register"
    PROVE  R!LegisOnce' /\ NumberFree'
  <1>1. R!LegisOnce'
    BY DEF RegistrationInv, R!LegisOnce
  <1>2. NumberFree'
    <2> SUFFICES ASSUME NEW q \in Requests, jobs'[q].op = "register", jobs'[q].legis # None,
                        jobs'[q].fresh, ~jobs'[q].shares,
                        NEW d \in Docs, R!Exists(d)', docs'[d].type = jobs'[q].type, docs'[d].legis = jobs'[q].legis,
                        ~docs'[d].shares
                 PROVE  FALSE
      BY DEF NumberFree, R!_documents_with_number
    <2>1. R!Exists(d) /\ docs[d].type = jobs'[q].type /\ docs[d].legis = jobs'[q].legis /\ ~docs[d].shares
      OBVIOUS
    <2>2. d \in R!_documents_with_number(jobs'[q].type, jobs'[q].legis)
      BY <2>1 DEF R!_documents_with_number
    <2> QED
      BY <2>1, <2>2 DEF RegistrationInv, NumberFree, Kept, Ended
  <1> QED
    BY <1>1, <1>2

(* A step that writes no document. *)
LEMMA DocsRest ==
    ASSUME R!MaxNumberAssumption, RegistrationInv, R!TypeOK', UNCHANGED docs,
           \A t \in Types : given[t] =< given'[t],
           \A q \in Requests : Kept(q) \/ Ended(q)
    PROVE  RegistrationInv'
  <1>1. \A d \in Docs : (R!Exists(d)' <=> R!Exists(d)) /\ (Used(d)' <=> Used(d))
    BY DEF R!Exists, Used
  <1>2. Registering' /\ R!NumbersGivenOnce' /\ R!NumberOfType' /\ Given'
    BY <1>1, NumbersStay
  <1>3. R!FilesOnce' /\ FileFree'
    BY <1>1, FilesStay
  <1>4. R!LegisOnce' /\ NumberFree'
    BY <1>1, LegisStays
  <1> QED
    BY <1>2, <1>3, <1>4 DEF RegistrationInv

-----------------------------------------------------------------------------

(* A number drawn. *)
LEMMA Draws ==
    ASSUME R!MaxNumberAssumption, R!TypeOK, NEW t \in Types, R!CanDraw(t), R!Draw(t)
    PROVE  /\ given' \in [Types -> 0 .. MaxNumber]
           /\ given'[t] = given[t] + 1
           /\ \A x \in Types : given[x] =< given'[x]
           /\ R!next_tracking_number(t) \in 1 .. MaxNumber
  BY DEF R!TypeOK, R!Draw, R!CanDraw, R!MaxNumberAssumption, R!next_tracking_number

(* A temporary upload. *)
LEMMA UploadStep ==
    ASSUME R!MaxNumberAssumption, RegistrationInv, NEW u \in Uploads, NEW c \in OneContent, R!upload_tmp_file(u, c)
    PROVE  RegistrationInv'
  <1>1. R!TypeOK' /\ \A t \in Types : given[t] =< given'[t]
    BY DEF RegistrationInv, R!TypeOK, R!upload_tmp_file, R!MaxNumberAssumption
  <1>2. UNCHANGED docs /\ \A q \in Requests : Kept(q)
    BY DEF R!upload_tmp_file, Kept
  <1> QED
    BY <1>1, <1>2, DocsRest

(* A registration looks for the same. *)
LEMMA RegisterCheckStep ==
    ASSUME R!MaxNumberAssumption, RegistrationInv, NEW r \in Requests, NEW t \in Types, NEW n \in Numbers \cup {None},
           NEW c \in OneContent \cup {None}, NEW u \in Uploads \cup {None}, NEW any \in BOOLEAN,
           R!RegisterCheck(r, t, n, c, u, any)
    PROVE  RegistrationInv'
  <1> DEFINE job == [R!Idle EXCEPT !.op = "register", !.type = t, !.legis = n, !.file = c, !.tmp = u,
                                 !.shares = any /\ n # None]
  <1>1. (any /\ n # None) \in BOOLEAN
    OBVIOUS
  <1>2. /\ job \in JobRows
        /\ job.op = "register" /\ job.type = t /\ job.legis = n /\ job.file = c
        /\ job.shares = (any /\ n # None)
    BY <1>1 DEF R!Idle, JobRows
  <1>3. /\ jobs' = [jobs EXCEPT ![r] = job] /\ UNCHANGED <<docs, given, tmp>>
        /\ R!_documents_with_checksum(c) = {}
        /\ any \/ R!_documents_with_number(t, n) = {}
    BY DEF R!RegisterCheck, R!CheckedJob
  <1> HIDE DEF job
  <1>4. jobs \in [Requests -> JobRows]
    BY Rows DEF RegistrationInv
  <1>5. R!TypeOK'
    BY <1>2, <1>3, <1>4, Rows DEF RegistrationInv, R!TypeOK, JobRows
  <1>6. jobs'[r] = job /\ \A q \in Requests \ {r} : Kept(q)
    BY <1>3, <1>4 DEF Kept
  <1>7. \A d \in Docs : (R!Exists(d)' <=> R!Exists(d)) /\ (Used(d)' <=> Used(d))
    BY <1>3 DEF R!Exists, Used
  <1>8. \A x \in Types : given[x] =< given'[x]
    BY <1>3 DEF RegistrationInv, R!TypeOK, R!MaxNumberAssumption
  <1>9. Registering' /\ R!NumbersGivenOnce' /\ R!NumberOfType' /\ Given'
    BY <1>2, <1>3, <1>5, <1>6, <1>7, <1>8, NumbersStay
  <1>10. R!FilesOnce' /\ FileFree'
    BY <1>2, <1>3, <1>5, <1>6, <1>7, FilesStay
  <1>11. R!LegisOnce' /\ NumberFree'
    BY <1>2, <1>3, <1>5, <1>6, <1>7, LegisStays
  <1> QED
    BY <1>5, <1>9, <1>10, <1>11 DEF RegistrationInv

(* A request that fails. *)
LEMMA EndStep ==
    ASSUME R!MaxNumberAssumption, RegistrationInv, NEW r \in Requests,
           R!RegisterFails(r) \/ R!AttachFails(r) \/ R!RetypeFails(r)
    PROVE  RegistrationInv'
  <1>1. R!TypeOK /\ R!Finish(r)
    BY DEF RegistrationInv, R!RegisterFails, R!AttachFails, R!RetypeFails
  <1>2. jobs' \in [Requests -> JobRows] /\ \A q \in Requests : Kept(q) \/ Ended(q)
    BY <1>1, Finishes, Proceeds, IdleJob DEF Kept, Ended
  <1>3. CASE R!AttachFails(r)
    <2>1. UNCHANGED <<docs, given, tmp>>
      BY <1>3 DEF R!AttachFails
    <2>2. R!TypeOK'
      BY <1>1, <1>2, <2>1, Rows DEF R!TypeOK, JobRows
    <2>3. \A t \in Types : given[t] =< given'[t]
      BY <1>1, <2>1 DEF R!TypeOK, R!MaxNumberAssumption
    <2> QED
      BY <1>2, <2>1, <2>2, <2>3, DocsRest
  <1>4. CASE R!RegisterFails(r) \/ R!RetypeFails(r)
    <2>1. /\ jobs[r].op \in {"register", "retype"} /\ R!CanDraw(jobs[r].type) /\ R!Draw(jobs[r].type)
          /\ UNCHANGED <<docs, tmp>>
      BY <1>4 DEF R!RegisterFails, R!RetypeFails
    <2>2. jobs[r].type \in Types
      BY <2>1 DEF RegistrationInv, Registering
    <2>3. given' \in [Types -> 0 .. MaxNumber] /\ \A t \in Types : given[t] =< given'[t]
      BY <1>1, <2>1, <2>2, Draws
    <2>4. R!TypeOK'
      BY <1>1, <1>2, <2>1, <2>3 DEF R!TypeOK, JobRows
    <2> QED
      BY <1>2, <2>1, <2>3, <2>4, DocsRest
  <1> QED
    BY <1>3, <1>4

(* A retype loads its document. *)
LEMMA RetypeLoadStep ==
    ASSUME R!MaxNumberAssumption, RegistrationInv, NEW r \in Requests, NEW d \in Docs, NEW t \in Types, R!RetypeLoad(r, d, t)
    PROVE  RegistrationInv'
  <1> DEFINE job == [R!Idle EXCEPT !.op = "retype", !.doc = d, !.type = t, !.was = docs[d].number]
  <1>1. docs[d] \in DocRows /\ Used(d) /\ docs[d].number \in R!NumbersOf(d)
    <2>1. docs[d] \in DocRows /\ Used(d)
      BY Rows DEF RegistrationInv, R!RetypeLoad, R!Exists, Used
    <2>2. docs[d].number \in R!TrackingNumbers
      BY <2>1 DEF RegistrationInv, Given
    <2>3. R!NoNumber \notin R!TrackingNumbers
      BY DEF R!NoNumber, R!TrackingNumbers, R!MaxNumberAssumption
    <2> QED
      BY <2>1, <2>2, <2>3 DEF R!NumbersOf
  <1>2. job \in JobRows /\ job.op = "retype" /\ job.type = t /\ job.doc = d /\ job.was = docs[d].number
    BY <1>1 DEF R!Idle, JobRows, DocRows
  <1>3. jobs' = [jobs EXCEPT ![r] = job] /\ UNCHANGED <<docs, given, tmp>>
    BY DEF R!RetypeLoad
  <1> HIDE DEF job
  <1>4. jobs \in [Requests -> JobRows]
    BY Rows DEF RegistrationInv
  <1>5. R!TypeOK'
    BY <1>2, <1>3, <1>4, Rows DEF RegistrationInv, R!TypeOK, JobRows
  <1>6. jobs'[r] = job /\ \A q \in Requests \ {r} : Kept(q)
    BY <1>3, <1>4 DEF Kept
  <1>7. \A x \in Docs : (R!Exists(x)' <=> R!Exists(x)) /\ (Used(x)' <=> Used(x))
    BY <1>3 DEF R!Exists, Used
  <1>8. \A x \in Types : given[x] =< given'[x]
    BY <1>3 DEF RegistrationInv, R!TypeOK, R!MaxNumberAssumption
  <1>9. Registering' /\ R!NumbersGivenOnce' /\ R!NumberOfType' /\ Given'
    BY <1>1, <1>2, <1>3, <1>5, <1>6, <1>7, <1>8, NumbersStay
  <1>10. R!FilesOnce' /\ FileFree'
    BY <1>2, <1>3, <1>5, <1>6, <1>7, FilesStay
  <1>11. R!LegisOnce' /\ NumberFree'
    BY <1>2, <1>3, <1>5, <1>6, <1>7, LegisStays
  <1> QED
    BY <1>5, <1>9, <1>10, <1>11 DEF RegistrationInv

(* Editing a number, archiving and deleting. *)
LEMMA EditStep ==
    ASSUME R!MaxNumberAssumption, RegistrationInv, NEW d \in Docs, NEW n \in Numbers \cup {None},
           R!update_document(d, n) \/ R!delete_document(d) \/ R!permanently_delete_document(d)
    PROVE  RegistrationInv'
  <1>1. docs \in [Docs -> DocRows] /\ UNCHANGED <<given, tmp, jobs>>
    BY Rows DEF RegistrationInv, R!update_document, R!delete_document, R!permanently_delete_document
  <1>2. PICK row \in DocRows :
           /\ docs' = [docs EXCEPT ![d] = row]
           /\ row.type = docs[d].type /\ row.number = docs[d].number /\ row.aliases = docs[d].aliases
           /\ row.file = docs[d].file /\ row.late = docs[d].late
           /\ row.shares \/ (row.legis = docs[d].legis /\ row.shares = docs[d].shares)
           /\ row.state \in {"live", "archived"} => R!Exists(d)
           /\ row.state # "unused" /\ Used(d)
    <2>1. CASE R!update_document(d, n)
      <3>1. PICK row \in DocRows : row = [docs[d] EXCEPT !.legis = n, !.shares = TRUE]
        BY <1>1 DEF DocRows
      <3>2. docs' = [docs EXCEPT ![d] = row] /\ row.state = docs[d].state /\ R!Exists(d)
        BY <1>1, <2>1, <3>1 DEF R!update_document, DocRows
      <3> QED
        BY <1>1, <3>1, <3>2 DEF DocRows, R!Exists, Used
    <2>2. CASE R!delete_document(d)
      <3>1. PICK row \in DocRows : row = [docs[d] EXCEPT !.state = "archived"]
        BY <1>1 DEF DocRows
      <3> QED
        BY <1>1, <2>2, <3>1 DEF R!delete_document, DocRows, R!Exists, Used
    <2>3. CASE R!permanently_delete_document(d)
      <3>1. PICK row \in DocRows : row = [docs[d] EXCEPT !.state = "gone"]
        BY <1>1 DEF DocRows
      <3> QED
        BY <1>1, <2>3, <3>1 DEF R!permanently_delete_document, DocRows, R!Exists, Used
    <2> QED
      BY <2>1, <2>2, <2>3
  <1>3. R!TypeOK'
    BY <1>1, <1>2 DEF RegistrationInv, R!TypeOK, DocRows
  <1>4. \A x \in Docs : /\ docs'[x].number = docs[x].number /\ docs'[x].aliases = docs[x].aliases
                        /\ docs'[x].type = docs[x].type /\ docs'[x].file = docs[x].file /\ docs'[x].late = docs[x].late
                        /\ Used(x)' <=> Used(x)
                        /\ R!Exists(x)' => R!Exists(x)
                        /\ docs'[x].shares \/ (docs'[x].legis = docs[x].legis /\ docs'[x].shares = docs[x].shares)
    BY <1>1, <1>2 DEF Used, R!Exists
  <1>5. \A q \in Requests : Kept(q)
    BY <1>1 DEF Kept
  <1>6. \A x \in Types : given[x] =< given'[x]
    BY <1>1 DEF RegistrationInv, R!TypeOK, R!MaxNumberAssumption
  <1>7. Registering' /\ R!NumbersGivenOnce' /\ R!NumberOfType' /\ Given'
    BY <1>3, <1>4, <1>5, <1>6, NumbersStay
  <1>8. R!FilesOnce' /\ FileFree'
    BY <1>3, <1>4, <1>5, FilesStay
  <1>9. R!LegisOnce' /\ NumberFree'
    BY <1>3, <1>4, <1>5, LegisStays
  <1> QED
    BY <1>3, <1>7, <1>8, <1>9 DEF RegistrationInv

(* The file lands on its document; whoever registers the same is overtaken. *)
LEMMA AttachStep ==
    ASSUME R!MaxNumberAssumption, RegistrationInv, NEW r \in Requests, R!Attach(r)
    PROVE  RegistrationInv'
  <1> DEFINE d == jobs[r].doc
             c == jobs[r].file
  <1>1. /\ docs \in [Docs -> DocRows] /\ jobs[r] \in JobRows /\ jobs[r].op = "attach"
        /\ d \in Docs /\ R!Exists(d) /\ Used(d)
        /\ R!Proceed(r, R!Idle) /\ UNCHANGED given /\ R!TypeOK
    BY Rows, Finishes DEF RegistrationInv, Registering, R!Attach
  <1>2. /\ jobs' \in [Requests -> JobRows] /\ Ended(r)
        /\ \A q \in Requests \ {r} : Kept(q) /\ (jobs'[q].fresh => ~R!Same(q, r))
    BY <1>1, Proceeds, IdleJob DEF Kept, Ended
  <1>3. PICK row \in DocRows :
           /\ docs' = [docs EXCEPT ![d] = row]
           /\ row.file = c /\ (row.late <=> docs[d].late \/ ~jobs[r].fresh)
           /\ row.type = docs[d].type /\ row.number = docs[d].number /\ row.aliases = docs[d].aliases
           /\ row.state = docs[d].state /\ row.legis = docs[d].legis /\ row.shares = docs[d].shares
    <2> DEFINE late == docs[d].late \/ ~jobs[r].fresh
    <2>1. late \in BOOLEAN /\ c \in OneContent \cup {None} /\ docs[d] \in DocRows
      BY <1>1 DEF DocRows, JobRows
    <2>2. docs' = [docs EXCEPT ![d] = [docs[d] EXCEPT !.file = c, !.late = late]]
      BY <1>1 DEF R!Attach
    <2> HIDE DEF late
    <2>3. PICK row \in DocRows : row = [docs[d] EXCEPT !.file = c, !.late = late]
      BY <2>1 DEF DocRows
    <2>4. row.late <=> late
      BY <2>1, <2>3 DEF DocRows
    <2> QED
      BY <2>1, <2>2, <2>3, <2>4 DEF late, DocRows
  <1>4. tmp' \in [Uploads -> OneContent \cup {None}]
    BY <1>1 DEF R!Attach, R!TypeOK
  <1>5. R!TypeOK'
    BY <1>1, <1>2, <1>3, <1>4 DEF R!TypeOK, DocRows, JobRows
  <1>6. \A x \in Docs : /\ docs'[x].number = docs[x].number /\ docs'[x].aliases = docs[x].aliases
                        /\ docs'[x].type = docs[x].type /\ docs'[x].legis = docs[x].legis
                        /\ docs'[x].shares = docs[x].shares
                        /\ docs[x].late => docs'[x].late
                        /\ Used(x)' <=> Used(x)
                        /\ R!Exists(x)' <=> R!Exists(x)
                        /\ x # d => docs'[x] = docs[x]
    BY <1>1, <1>3 DEF Used, R!Exists
  <1>7. \A x \in Types : given[x] =< given'[x]
    BY <1>1 DEF R!TypeOK, R!MaxNumberAssumption
  <1>8. Registering' /\ R!NumbersGivenOnce' /\ R!NumberOfType' /\ Given'
    BY <1>2, <1>5, <1>6, <1>7, NumbersStay
  <1>9. R!LegisOnce' /\ NumberFree'
    BY <1>2, <1>5, <1>6, LegisStays
  <1>10. docs'[d] = row
    BY <1>1, <1>3
  <1>11. R!FilesOnce'
    <2>1. ASSUME NEW e \in Docs \ {d}, R!Exists(e), docs[e].file # None, docs[e].file = c
          PROVE  docs'[d].late
      <3>1. e \in R!_documents_with_checksum(c)
        BY <2>1 DEF R!_documents_with_checksum
      <3>2. ~jobs[r].fresh
        BY <1>1, <2>1, <3>1 DEF RegistrationInv, FileFree
      <3> QED
        BY <1>3, <1>10, <3>2
    <2> SUFFICES ASSUME NEW x \in Docs, NEW y \in Docs, x # y, R!Exists(x)', R!Exists(y)',
                        docs'[x].file # None, docs'[x].file = docs'[y].file
                 PROVE  docs'[x].late \/ docs'[y].late
      BY DEF R!FilesOnce
    <2>2. CASE x = d
      BY <1>3, <1>6, <1>10, <2>1, <2>2
    <2>3. CASE y = d
      BY <1>3, <1>6, <1>10, <2>1, <2>3
    <2>4. CASE x # d /\ y # d
      BY <1>6, <2>4 DEF RegistrationInv, R!FilesOnce
    <2> QED
      BY <2>2, <2>3, <2>4
  <1>12. FileFree'
    <2> SUFFICES ASSUME NEW q \in Requests, jobs'[q].op \in {"register", "attach"}, jobs'[q].file # None,
                        jobs'[q].fresh, NEW e \in Docs, R!Exists(e)', docs'[e].file = jobs'[q].file
                 PROVE  FALSE
      BY DEF FileFree, R!_documents_with_checksum
    <2>1. q # r
      BY <1>2 DEF Ended
    <2>2. jobs[q].op \in {"register", "attach"} /\ jobs[q].file = jobs'[q].file /\ jobs[q].fresh /\ ~R!Same(q, r)
      BY <1>2, <2>1 DEF Kept
    <2>3. e # d
      BY <1>3, <1>10, <2>2 DEF R!Same
    <2>4. e \in R!_documents_with_checksum(jobs[q].file)
      BY <1>6, <2>2, <2>3 DEF R!_documents_with_checksum
    <2> QED
      BY <2>2, <2>4 DEF RegistrationInv, FileFree
  <1> QED
    BY <1>5, <1>8, <1>9, <1>11, <1>12 DEF RegistrationInv

(* A number just drawn is on no document yet. *)
LEMMA DrawnIsNew ==
    ASSUME R!MaxNumberAssumption, RegistrationInv, NEW t \in Types, R!CanDraw(t), R!Draw(t)
    PROVE  /\ <<t, R!next_tracking_number(t)>> \in R!TrackingNumbers
           /\ \A d \in Docs : \A x \in R!NumbersOf(d) : x # <<t, R!next_tracking_number(t)>> /\ x[2] =< given'[x[1]]
           /\ R!next_tracking_number(t) =< given'[t]
  <1>1. /\ given' \in [Types -> 0 .. MaxNumber] /\ \A x \in Types : given[x] =< given'[x]
        /\ given'[t] = given[t] + 1 /\ R!next_tracking_number(t) = given[t] + 1
        /\ R!next_tracking_number(t) \in 1 .. MaxNumber /\ given \in [Types -> 0 .. MaxNumber]
    BY Draws DEF RegistrationInv, R!TypeOK, R!next_tracking_number
  <1>2. ASSUME NEW d \in Docs, NEW x \in R!NumbersOf(d)
        PROVE  x # <<t, R!next_tracking_number(t)>> /\ x[2] =< given'[x[1]]
    <2>1. x \in R!TrackingNumbers
      BY Rows DEF RegistrationInv, R!NumbersOf, DocRows
    <2>2. x[1] \in Types /\ x[2] \in Nat /\ given[x[1]] \in Nat /\ given'[x[1]] \in Nat
      BY <1>1, <2>1 DEF R!TrackingNumbers, R!MaxNumberAssumption
    <2>3. x[2] =< given[x[1]]
      BY DEF RegistrationInv, Given
    <2> QED
      BY <1>1, <2>2, <2>3
  <1> QED
    BY <1>1, <1>2 DEF R!TrackingNumbers, R!MaxNumberAssumption

(* The document is registered. *)
LEMMA NewDocumentStep ==
    ASSUME R!MaxNumberAssumption, RegistrationInv, NEW r \in Requests, NEW d \in Docs, R!_new_registered_document(r, d)
    PROVE  RegistrationInv'
  <1> DEFINE t == jobs[r].type
             number == <<t, R!next_tracking_number(t)>>
  <1>1. /\ docs \in [Docs -> DocRows] /\ jobs[r] \in JobRows /\ jobs[r].op = "register" /\ t \in Types
        /\ docs[d].state = "unused" /\ R!CanDraw(t) /\ R!Draw(t) /\ UNCHANGED tmp /\ R!TypeOK
    BY Rows DEF RegistrationInv, Registering, R!_new_registered_document
  <1>2. /\ number \in R!TrackingNumbers
        /\ \A e \in Docs : \A x \in R!NumbersOf(e) : x # number /\ x[2] =< given'[x[1]]
        /\ R!next_tracking_number(t) =< given'[t]
        /\ given' \in [Types -> 0 .. MaxNumber]
    BY <1>1, DrawnIsNew, Draws
  <1>3. PICK row \in DocRows :
           /\ docs' = [docs EXCEPT ![d] = row]
           /\ row.state = "live" /\ row.type = t /\ row.number = number /\ row.aliases = {}
           /\ row.file = None /\ row.legis = jobs[r].legis
           /\ (row.late <=> ~jobs[r].fresh) /\ row.shares = jobs[r].shares
    <2> DEFINE late == ~jobs[r].fresh
    <2>1. number \in R!TrackingNumbers /\ late \in BOOLEAN
      BY <1>2
    <2>2. docs' = [docs EXCEPT ![d] = [R!Unused EXCEPT !.state = "live", !.type = t, !.number = number,
                                         !.legis = jobs[r].legis, !.late = late, !.shares = jobs[r].shares]]
      BY DEF R!_new_registered_document
    <2>3. late <=> ~jobs[r].fresh
      OBVIOUS
    <2> HIDE DEF late, number
    <2>4. PICK row \in DocRows :
             row = [R!Unused EXCEPT !.state = "live", !.type = t, !.number = number,
                                  !.legis = jobs[r].legis, !.late = late, !.shares = jobs[r].shares]
      BY <1>1, <2>1 DEF R!Unused, DocRows, JobRows
    <2>5. /\ row.state = "live" /\ row.type = t /\ row.number = number /\ row.aliases = {}
          /\ row.file = None /\ row.legis = jobs[r].legis
          /\ row.late = late /\ row.shares = jobs[r].shares
      BY <2>4 DEF R!Unused
    <2> QED
      BY <2>2, <2>3, <2>4, <2>5
  <1> HIDE DEF number
  <1>4. PICK job \in JobRows :
           /\ R!Proceed(r, job)
           /\ \/ job.op = "idle"
              \/ job.op = "attach" /\ job.doc = d /\ job.file = jobs[r].file /\ (job.fresh => jobs[r].fresh)
    <2>1. CASE jobs[r].file = None
      BY <1>1, <2>1, Finishes, IdleJob DEF R!_new_registered_document
    <2>2. CASE jobs[r].file # None
      <3>1. PICK job \in JobRows : job = [jobs[r] EXCEPT !.op = "attach", !.doc = d]
        BY <1>1 DEF JobRows
      <3>2. R!Proceed(r, job)
        BY <2>2, <3>1 DEF R!_new_registered_document
      <3> QED
        BY <1>1, <3>1, <3>2 DEF JobRows
    <2> QED
      BY <2>1, <2>2
  <1>5. /\ jobs' \in [Requests -> JobRows] /\ jobs'[r] = job
        /\ \A q \in Requests \ {r} : Kept(q) /\ (jobs'[q].fresh => ~R!Same(q, r))
    BY <1>1, <1>4, Proceeds DEF Kept
  <1>6. R!TypeOK'
    BY <1>1, <1>2, <1>3, <1>5 DEF R!TypeOK, DocRows, JobRows
  <1>7. docs'[d] = row /\ \A x \in Docs \ {d} : docs'[x] = docs[x]
    BY <1>1, <1>3
  <1>8. /\ Used(d)' /\ R!Exists(d)' /\ ~R!Exists(d) /\ R!NumbersOf(d)' \subseteq {number}
        /\ \A x \in Docs \ {d} : /\ R!NumbersOf(x)' = R!NumbersOf(x)
                                 /\ Used(x)' <=> Used(x)
                                 /\ R!Exists(x)' <=> R!Exists(x)
    BY <1>1, <1>3, <1>7 DEF Used, R!Exists, R!NumbersOf
  <1>9. Registering'
    <2> SUFFICES ASSUME NEW q \in Requests
        PROVE  /\ jobs'[q].op \in {"register", "retype"} => jobs'[q].type \in Types
               /\ jobs'[q].op \in {"attach", "retype"} => jobs'[q].doc \in Docs /\ docs'[jobs'[q].doc].state # "unused"
      BY DEF Registering, Used
    <2>1. CASE q = r
      BY <1>4, <1>5, <1>3, <1>7, <2>1
    <2>2. CASE q # r
      BY <1>5, <1>3, <1>7, <2>2 DEF RegistrationInv, Registering, Kept, Used
    <2> QED
      BY <2>1, <2>2
  <1>10. R!NumbersGivenOnce' /\ R!NumberOfType'
    <2>1. R!NumbersGivenOnce'
      BY <1>2, <1>8 DEF RegistrationInv, R!NumbersGivenOnce
    <2>2. R!NumberOfType'
      BY <1>3, <1>7, <1>8 DEF RegistrationInv, R!NumberOfType, number
    <2> QED
      BY <2>1, <2>2
  <1>11. Given'
    <2>1. \A x \in Docs : Used(x)' => docs'[x].number \in R!TrackingNumbers
      BY <1>2, <1>3, <1>7, <1>8 DEF RegistrationInv, Given
    <2>2. \A x \in Docs : \A y \in R!NumbersOf(x)' : y[2] =< given'[y[1]]
      BY <1>2, <1>8 DEF number
    <2>3. ASSUME NEW q \in Requests, jobs'[q].op = "retype"
          PROVE  jobs'[q].was \in R!NumbersOf(jobs[q].doc)'
      <3>1. q # r /\ Kept(q) /\ jobs[q].op = "retype"
        BY <1>4, <1>5, <2>3 DEF Kept
      <3>2. jobs[q].doc \in Docs \ {d} /\ jobs[q].was \in R!NumbersOf(jobs[q].doc)
        BY <1>1, <3>1 DEF RegistrationInv, Registering, Given, Used
      <3> QED
        BY <1>7, <3>1, <3>2 DEF R!NumbersOf, Kept
    <2> QED
      BY <2>1, <2>2, <2>3 DEF Given
  <1>12. R!FilesOnce' /\ FileFree'
    <2>1. \A x \in Docs : R!Exists(x)' /\ docs'[x].file # None =>
                            R!Exists(x) /\ docs'[x].file = docs[x].file /\ docs'[x].late = docs[x].late
      BY <1>3, <1>7, <1>8
    <2>2. \A q \in Requests : \/ Kept(q) \/ Ended(q)
                              \/ /\ jobs'[q].op = "attach" /\ jobs[q].op = "register"
                                 /\ jobs'[q].file = jobs[q].file
                                 /\ jobs'[q].fresh => jobs[q].fresh
      BY <1>1, <1>4, <1>5 DEF Ended
    <2> QED
      BY <1>6, <2>1, <2>2, FilesStay
  <1>13. R!LegisOnce'
    <2>1. ASSUME NEW e \in Docs \ {d}, R!Exists(e), docs[e].type = t, docs[e].legis # None, docs[e].legis = jobs[r].legis
          PROVE  docs'[d].late \/ docs'[d].shares \/ docs'[e].shares
      <3>1. e \in R!_documents_with_number(t, jobs[r].legis)
        BY <2>1 DEF R!_documents_with_number
      <3>2. ~jobs[r].fresh \/ jobs[r].shares \/ docs[e].shares
        BY <1>1, <2>1, <3>1 DEF RegistrationInv, NumberFree
      <3> QED
        BY <1>3, <1>7, <3>2
    <2> SUFFICES ASSUME NEW x \in Docs, NEW y \in Docs, x # y, R!Exists(x)', R!Exists(y)', docs'[x].type = docs'[y].type,
                        docs'[x].legis # None, docs'[x].legis = docs'[y].legis
                 PROVE  docs'[x].late \/ docs'[y].late \/ docs'[x].shares \/ docs'[y].shares
      BY DEF R!LegisOnce
    <2>2. CASE x = d
      BY <1>3, <1>7, <1>8, <2>1, <2>2
    <2>3. CASE y = d
      BY <1>3, <1>7, <1>8, <2>1, <2>3
    <2>4. CASE x # d /\ y # d
      BY <1>7, <1>8, <2>4 DEF RegistrationInv, R!LegisOnce
    <2> QED
      BY <2>2, <2>3, <2>4
  <1>14. NumberFree'
    <2> SUFFICES ASSUME NEW q \in Requests, jobs'[q].op = "register", jobs'[q].legis # None,
                        jobs'[q].fresh, ~jobs'[q].shares,
                        NEW e \in Docs, R!Exists(e)', docs'[e].type = jobs'[q].type, docs'[e].legis = jobs'[q].legis,
                        ~docs'[e].shares
                 PROVE  FALSE
      BY DEF NumberFree, R!_documents_with_number
    <2>1. q # r
      BY <1>4, <1>5
    <2>2. /\ jobs[q].op = "register" /\ jobs[q].type = jobs'[q].type /\ jobs[q].legis = jobs'[q].legis
          /\ jobs[q].fresh /\ ~jobs[q].shares /\ ~R!Same(q, r)
      BY <1>5, <2>1 DEF Kept
    <2>3. e # d
      BY <1>3, <1>7, <2>2 DEF R!Same
    <2>4. e \in R!_documents_with_number(jobs[q].type, jobs[q].legis) /\ ~docs[e].shares
      BY <1>7, <1>8, <2>2, <2>3 DEF R!_documents_with_number
    <2> QED
      BY <2>2, <2>4 DEF RegistrationInv, NumberFree
  <1> QED
    BY <1>6, <1>9, <1>10, <1>11, <1>12, <1>13, <1>14 DEF RegistrationInv

(* A retype keeps the number it had and draws one of its new type. *)
LEMMA RetypeStep ==
    ASSUME R!MaxNumberAssumption, RegistrationInv, NEW r \in Requests, R!_assign_system_tracking_number(r)
    PROVE  RegistrationInv'
  <1>0. PICK d \in Docs : d = jobs[r].doc
    BY DEF RegistrationInv, Registering, R!_assign_system_tracking_number
  <1> DEFINE t == jobs[r].type
             number == <<t, R!next_tracking_number(t)>>
  <1>1. /\ docs \in [Docs -> DocRows] /\ jobs[r].op = "retype" /\ t \in Types
        /\ Used(d) /\ R!Exists(d) /\ jobs[r].was \in R!NumbersOf(d)
        /\ R!CanDraw(t) /\ R!Draw(t) /\ UNCHANGED tmp /\ R!TypeOK /\ R!Proceed(r, R!Idle)
    BY <1>0, Rows, Finishes DEF RegistrationInv, Registering, Given, R!_assign_system_tracking_number
  <1>2. /\ number \in R!TrackingNumbers
        /\ \A e \in Docs : \A x \in R!NumbersOf(e) : x # number /\ x[2] =< given'[x[1]]
        /\ R!next_tracking_number(t) =< given'[t]
        /\ given' \in [Types -> 0 .. MaxNumber]
    BY <1>1, DrawnIsNew, Draws
  <1>3. jobs[r].was \in R!TrackingNumbers
    BY <1>1 DEF R!NumbersOf, DocRows
  <1>4. PICK row \in DocRows :
           /\ docs' = [docs EXCEPT ![d] = row]
           /\ row.type = t /\ row.number = number /\ row.aliases = docs[d].aliases \cup {jobs[r].was}
           /\ row.shares /\ row.state = docs[d].state /\ row.file = docs[d].file /\ row.late = docs[d].late
           /\ row.legis = docs[d].legis
    <2>1. docs' = [docs EXCEPT ![d] = [docs[d] EXCEPT !.type = t, !.number = number,
                                         !.aliases = docs[d].aliases \cup {jobs[r].was}, !.shares = TRUE]]
      BY <1>0, <1>1 DEF R!_assign_system_tracking_number
    <2> HIDE DEF number
    <2>2. docs[d].aliases \cup {jobs[r].was} \in SUBSET R!TrackingNumbers /\ docs[d] \in DocRows
      BY <1>1, <1>3 DEF DocRows
    <2>3. PICK row \in DocRows :
             row = [docs[d] EXCEPT !.type = t, !.number = number,
                                   !.aliases = docs[d].aliases \cup {jobs[r].was}, !.shares = TRUE]
      BY <1>1, <1>2, <2>2 DEF DocRows
    <2>4. /\ row.type = t /\ row.number = number /\ row.aliases = docs[d].aliases \cup {jobs[r].was}
          /\ row.shares /\ row.state = docs[d].state /\ row.file = docs[d].file /\ row.late = docs[d].late
          /\ row.legis = docs[d].legis
      BY <2>2, <2>3 DEF DocRows
    <2>5. docs' = [docs EXCEPT ![d] = row]
      BY <2>1, <2>3
    <2> QED
      BY <2>4, <2>5
  <1> HIDE DEF number
  <1>5. /\ jobs' \in [Requests -> JobRows] /\ Ended(r)
        /\ \A q \in Requests \ {r} : Kept(q)
    BY <1>1, Proceeds, IdleJob DEF Kept, Ended
  <1>6. R!TypeOK'
    BY <1>1, <1>2, <1>4, <1>5 DEF R!TypeOK, DocRows, JobRows
  <1>7. docs'[d] = row /\ \A x \in Docs \ {d} : docs'[x] = docs[x]
    BY <1>1, <1>4
  <1>8. /\ \A x \in Docs : (Used(x)' <=> Used(x)) /\ (R!Exists(x)' <=> R!Exists(x))
        /\ \A x \in Docs \ {d} : R!NumbersOf(x)' = R!NumbersOf(x)
        /\ R!NumbersOf(d)' \subseteq R!NumbersOf(d) \cup {number}
    BY <1>1, <1>4, <1>7 DEF Used, R!Exists, R!NumbersOf
  <1>9. R!NumbersOf(d) \subseteq R!NumbersOf(d)'
    <2>1. jobs[r].was \notin docs[d].aliases
      BY <1>0, <1>1 DEF R!_assign_system_tracking_number, R!AllAliases
    <2>2. jobs[r].was = docs[d].number /\ jobs[r].was # R!NoNumber
      BY <1>1, <2>1 DEF R!NumbersOf
    <2> QED
      BY <1>4, <1>7, <2>2 DEF R!NumbersOf
  <1>10. Registering'
    BY <1>5, <1>8 DEF RegistrationInv, Registering, Kept, Ended
  <1>11. R!NumbersGivenOnce' /\ R!NumberOfType'
    <2>1. R!NumbersGivenOnce'
      BY <1>2, <1>8 DEF RegistrationInv, R!NumbersGivenOnce
    <2>2. R!NumberOfType'
      BY <1>4, <1>7, <1>8 DEF RegistrationInv, R!NumberOfType, number
    <2> QED
      BY <2>1, <2>2
  <1>12. Given'
    <2>1. \A x \in Docs : Used(x)' => docs'[x].number \in R!TrackingNumbers
      BY <1>2, <1>4, <1>7, <1>8 DEF RegistrationInv, Given
    <2>2. \A x \in Docs : \A y \in R!NumbersOf(x)' : y[2] =< given'[y[1]]
      BY <1>2, <1>8 DEF number
    <2>3. ASSUME NEW q \in Requests, jobs'[q].op = "retype"
          PROVE  jobs'[q].was \in R!NumbersOf(jobs[q].doc)'
      <3>1. Kept(q) /\ jobs[q].op = "retype"
        BY <1>5, <2>3 DEF Kept, Ended
      <3>2. jobs[q].doc \in Docs /\ jobs[q].was \in R!NumbersOf(jobs[q].doc)
        BY <3>1 DEF RegistrationInv, Registering, Given
      <3>3. PICK e \in Docs : e = jobs[q].doc
        BY <3>2
      <3>4. jobs[q].was \in R!NumbersOf(e)'
        BY <1>8, <1>9, <3>2, <3>3
      <3> QED
        BY <3>1, <3>3, <3>4 DEF R!NumbersOf, Kept
    <2> QED
      BY <2>1, <2>2, <2>3 DEF Given
  <1>13. R!FilesOnce' /\ FileFree'
    BY <1>4, <1>5, <1>6, <1>7, <1>8, FilesStay
  <1>14. R!LegisOnce' /\ NumberFree'
    BY <1>4, <1>5, <1>6, <1>7, <1>8, LegisStays
  <1> QED
    BY <1>6, <1>10, <1>11, <1>12, <1>13, <1>14 DEF RegistrationInv

-----------------------------------------------------------------------------

(* Every step keeps it. *)
LEMMA NextInv == R!MaxNumberAssumption /\ RegistrationInv /\ [R!Next]_R!vars => RegistrationInv'
  <1> SUFFICES ASSUME R!MaxNumberAssumption, RegistrationInv, [R!Next]_R!vars PROVE RegistrationInv'
    OBVIOUS
  <1>1. CASE UNCHANGED R!vars
    <2>1. R!TypeOK' /\ UNCHANGED docs /\ \A q \in Requests : Kept(q)
      BY <1>1 DEF RegistrationInv, R!TypeOK, R!vars, Kept
    <2>2. \A t \in Types : given[t] =< given'[t]
      BY <1>1 DEF RegistrationInv, R!TypeOK, R!vars, R!MaxNumberAssumption
    <2> QED
      BY <2>1, <2>2, DocsRest
  <1>2. ASSUME NEW r \in Requests, NEW t \in Types, NEW n \in Numbers \cup {None},
               \/ \E c \in OneContent \cup {None}, allow \in BOOLEAN : R!register_document(r, t, n, c, allow)
               \/ \E u \in Uploads, allow \in BOOLEAN : R!confirm_bulk_register_tmp(r, t, n, u, allow)
               \/ \E c \in OneContent : R!confirm_bulk_register(r, t, n, c)
        PROVE  RegistrationInv'
    <2>1. \A u \in Uploads : tmp[u] \in OneContent \cup {None}
      BY DEF RegistrationInv, R!TypeOK
    <2>2. ASSUME NEW c \in OneContent \cup {None}, NEW allow \in BOOLEAN, R!register_document(r, t, n, c, allow)
          PROVE  RegistrationInv'
      <3>1. R!RegisterCheck(r, t, n, c, None, allow)
        BY <2>2 DEF R!register_document
      <3> QED
        BY <3>1, RegisterCheckStep
    <2>3. ASSUME NEW u \in Uploads, NEW allow \in BOOLEAN, R!confirm_bulk_register_tmp(r, t, n, u, allow)
          PROVE  RegistrationInv'
      <3>1. PICK c \in OneContent \cup {None} : c = tmp[u]
        BY <2>1
      <3>2. R!RegisterCheck(r, t, n, c, u, allow)
        BY <2>3, <3>1 DEF R!confirm_bulk_register_tmp
      <3> QED
        BY <3>2, RegisterCheckStep
    <2>4. ASSUME NEW c \in OneContent, R!confirm_bulk_register(r, t, n, c)
          PROVE  RegistrationInv'
      <3>1. R!RegisterCheck(r, t, n, c, None, TRUE)
        BY <2>4 DEF R!confirm_bulk_register
      <3> QED
        BY <3>1, RegisterCheckStep
    <2> QED
      BY <1>2, <2>2, <2>3, <2>4
  <1>3. ASSUME NEW r \in Requests,
               \/ \E d \in Docs : R!_new_registered_document(r, d)
               \/ R!RegisterFails(r) \/ R!Attach(r) \/ R!AttachFails(r)
               \/ \E d \in Docs, t \in Types : R!RetypeLoad(r, d, t)
               \/ R!_assign_system_tracking_number(r) \/ R!RetypeFails(r)
        PROVE  RegistrationInv'
    <2>1. ASSUME NEW d \in Docs, R!_new_registered_document(r, d) PROVE RegistrationInv'
      BY <2>1, NewDocumentStep
    <2>2. CASE R!RegisterFails(r) \/ R!AttachFails(r) \/ R!RetypeFails(r)
      BY <2>2, EndStep
    <2>3. CASE R!Attach(r)
      BY <2>3, AttachStep
    <2>4. ASSUME NEW d \in Docs, NEW t \in Types, R!RetypeLoad(r, d, t) PROVE RegistrationInv'
      BY <2>4, RetypeLoadStep
    <2>5. CASE R!_assign_system_tracking_number(r)
      BY <2>5, RetypeStep
    <2> QED
      BY <1>3, <2>1, <2>2, <2>3, <2>4, <2>5
  <1>4. ASSUME NEW u \in Uploads, NEW c \in OneContent, R!upload_tmp_file(u, c) PROVE RegistrationInv'
    BY <1>4, UploadStep
  <1>5. ASSUME NEW d \in Docs, NEW n \in Numbers, R!update_document(d, n) PROVE RegistrationInv'
    BY <1>5, EditStep
  <1>6. ASSUME NEW d \in Docs, R!delete_document(d) \/ R!permanently_delete_document(d) PROVE RegistrationInv'
    <2>1. None \in Numbers \cup {None}
      OBVIOUS
    <2> QED
      BY <1>6, <2>1, EditStep
  <1> QED
    BY <1>1, <1>2, <1>3, <1>4, <1>5, <1>6 DEF R!Next

(* No tracking number is ever given twice or lost from its document, and   *)
(* nothing is registered twice without a warning, but by requests that     *)
(* overtake each other; for any number of documents and requests.          *)
THEOREM NothingRegisteredTwice == R!Spec => []R!RegisteredOnce
  <1>1. R!Init => RegistrationInv
    BY InitInv, Instances
  <1>2. RegistrationInv /\ [R!Next]_R!vars => RegistrationInv'
    BY NextInv, Instances
  <1>3. RegistrationInv => R!RegisteredOnce
    BY DEF RegistrationInv, R!RegisteredOnce
  <1> QED
    BY <1>1, <1>2, <1>3, PTL DEF R!Spec

-----------------------------------------------------------------------------
(* What a retype keeps as an alias is the number the document has by then: *)
(* had another retype replaced it, it would be an alias already.           *)
LEMMA RetypeFinds ==
    ASSUME RegistrationInv, NEW r \in Requests, R!_assign_system_tracking_number(r)
    PROVE  R!FoundStep
  <1>0. docs \in [Docs -> DocRows] /\ jobs[r].op = "retype" /\ R!Exists(jobs[r].doc) /\ jobs[r].was \notin R!AllAliases
    BY Rows DEF RegistrationInv, R!_assign_system_tracking_number
  <1>1. PICK d \in Docs : d = jobs[r].doc /\ jobs[r].was \in R!NumbersOf(d)
    BY <1>0 DEF RegistrationInv, Registering, Given
  <1>2. jobs[r].was \notin docs[d].aliases
    BY <1>0, <1>1 DEF R!AllAliases
  <1>3. jobs[r].was = docs[d].number
    BY <1>1, <1>2 DEF R!NumbersOf
  <1>4. docs' = [docs EXCEPT ![d].type = jobs[r].type, ![d].number = <<jobs[r].type, R!next_tracking_number(jobs[r].type)>>,
                             ![d].aliases = docs[d].aliases \cup {jobs[r].was}, ![d].shares = TRUE]
    BY <1>0, <1>1 DEF R!_assign_system_tracking_number
  <1>5. /\ docs'[d].aliases = docs[d].aliases \cup {docs[d].number}
        /\ \A e \in Docs \ {d} : docs'[e] = docs[e]
    <2> DEFINE was == jobs[r].was
               row == [docs[d] EXCEPT !.type = jobs[r].type, !.number = <<jobs[r].type, R!next_tracking_number(jobs[r].type)>>,
                                      !.aliases = docs[d].aliases \cup {was}, !.shares = TRUE]
    <2>1. docs' = [docs EXCEPT ![d] = row]
      BY <1>0, <1>1, <1>4
    <2>2. row.aliases = docs[d].aliases \cup {was}
      BY <1>0, <1>1 DEF DocRows
    <2> HIDE DEF row
    <2>3. docs'[d] = row /\ \A e \in Docs \ {d} : docs'[e] = docs[e]
      BY <1>0, <1>1, <2>1
    <2> QED
      BY <1>3, <2>2, <2>3
  <1>6. R!NumbersOf(d) \subseteq R!NumbersOf(d)'
    BY <1>5 DEF R!NumbersOf
  <1>7. \A e \in Docs \ {d} : R!NumbersOf(e) \subseteq R!NumbersOf(e)'
    BY <1>5 DEF R!NumbersOf
  <1> QED
    BY <1>6, <1>7 DEF R!FoundStep

(* No other step changes the numbers of a document that exists. *)
LEMMA NumbersUntouched ==
    ASSUME RegistrationInv, R!Next, \A r \in Requests : ~R!_assign_system_tracking_number(r)
    PROVE  R!FoundStep
  <1> DEFINE Rest(d) == docs'[d].aliases = docs[d].aliases /\ docs'[d].number = docs[d].number
  <1>1. docs \in [Docs -> DocRows]
    BY Rows DEF RegistrationInv
  <1>2. SUFFICES ASSUME NEW d \in Docs, R!Exists(d) PROVE Rest(d)
    BY <1>2 DEF R!FoundStep, R!NumbersOf
  <1>3. ASSUME docs' = docs PROVE Rest(d)
    BY <1>3
  <1>4. ASSUME NEW r \in Requests, NEW e \in Docs, R!_new_registered_document(r, e) PROVE Rest(d)
    BY <1>1, <1>2, <1>4 DEF R!_new_registered_document, R!Exists
  <1>5. ASSUME NEW r \in Requests, R!Attach(r) PROVE Rest(d)
    BY <1>1, <1>5 DEF R!Attach, DocRows
  <1>6. ASSUME NEW e \in Docs, NEW n \in Numbers, R!update_document(e, n) PROVE Rest(d)
    BY <1>1, <1>6 DEF R!update_document, DocRows
  <1>7. ASSUME NEW e \in Docs, R!delete_document(e) \/ R!permanently_delete_document(e) PROVE Rest(d)
    BY <1>1, <1>7 DEF R!delete_document, R!permanently_delete_document, DocRows
  <1>8. CASE \E u \in Uploads, c \in OneContent : R!upload_tmp_file(u, c)
    BY <1>3, <1>8 DEF R!upload_tmp_file
  <1>9. ASSUME NEW r \in Requests, NEW t \in Types, NEW n \in Numbers \cup {None},
               \/ \E c \in OneContent \cup {None}, allow \in BOOLEAN : R!register_document(r, t, n, c, allow)
               \/ \E u \in Uploads, allow \in BOOLEAN : R!confirm_bulk_register_tmp(r, t, n, u, allow)
               \/ \E c \in OneContent : R!confirm_bulk_register(r, t, n, c)
        PROVE  Rest(d)
    BY <1>3, <1>9 DEF R!register_document, R!confirm_bulk_register_tmp, R!confirm_bulk_register, R!RegisterCheck, R!CheckedJob
  <1>10. ASSUME NEW r \in Requests,
                \/ R!RegisterFails(r) \/ R!AttachFails(r) \/ R!RetypeFails(r)
                \/ \E e \in Docs, t \in Types : R!RetypeLoad(r, e, t)
         PROVE  Rest(d)
    BY <1>3, <1>10 DEF R!RegisterFails, R!AttachFails, R!RetypeFails, R!RetypeLoad
  <1> QED
    BY <1>4, <1>5, <1>6, <1>7, <1>8, <1>9, <1>10 DEF R!Next

(* A document is found by its number and every number it had before, for   *)
(* any number of retypes of it that overlap (documents.py                  *)
(* _assign_system_tracking_number).                                        *)
THEOREM NumbersFind == R!Spec => [][R!FoundStep]_R!vars
  <1>1. R!Init => RegistrationInv
    BY InitInv, Instances
  <1>2. RegistrationInv /\ [R!Next]_R!vars => RegistrationInv'
    BY NextInv, Instances
  <1>3. RegistrationInv /\ [R!Next]_R!vars => [R!FoundStep]_R!vars
    <2>1. ASSUME RegistrationInv, R!Next PROVE R!FoundStep
      BY <2>1, RetypeFinds, NumbersUntouched
    <2> QED
      BY <2>1
  <1> QED
    BY <1>1, <1>2, <1>3, PTL DEF R!Spec

-----------------------------------------------------------------------------
(* The parts of the run that register take steps of R. *)

PartsRegister == part \in {"registration", "numbers"} => RegistrationInv

(* They start as R does. *)
LEMMA PartsAtFirst == PartsInit => PartsRegister
  BY InitInv, Instances DEF PartsInit, PartsRegister

(* They go on as R does, or rest. *)
LEMMA PartsKept ==
    ASSUME PartsRegister, [PartsNext]_parts
    PROVE  PartsRegister' /\ [part = "numbers" => R!FoundStep]_parts
  <1> SUFFICES ASSUME part \in {"registration", "numbers"} \/ part' \in {"registration", "numbers"}
               PROVE  RegistrationInv' /\ (UNCHANGED parts \/ R!FoundStep)
    BY DEF PartsRegister
  <1>1. part' = part /\ RegistrationInv
    BY DEF PartsRegister, PartsNext, parts
  <1>2. CASE R!Next
    BY <1>1, <1>2, NextInv, RetypeFinds, NumbersUntouched, Instances
  <1>3. CASE UNCHANGED parts
    <2>1. UNCHANGED R!vars
      BY <1>3 DEF parts, numbersVars, R!vars
    <2> QED
      BY <1>1, <1>3, <2>1, NextInv, Instances
  <1> QED
    BY <1>1, <1>2, <1>3 DEF PartsNext

(* Registering, retyping, editing and deleting at once never gives two     *)
(* documents one number, nor one file or legislative number without a      *)
(* warning, but by requests that overtake each other (documents.py         *)
(* _number_problem, _documents_with_checksum, next_tracking_number).       *)
THEOREM DocumentsRegisteredOnce == PartsSpec => []RegisteredOnce
  <1>1. PartsInit => PartsRegister
    BY PartsAtFirst
  <1>2. PartsRegister /\ [PartsNext]_parts => PartsRegister'
    BY PartsKept
  <1>3. PartsRegister => RegisteredOnce
    BY DEF PartsRegister, RegistrationInv, RegisteredOnce, R!RegisteredOnce
  <1> QED
    BY <1>1, <1>2, <1>3, PTL DEF PartsSpec

(* A document is found by every number it ever had (documents.py           *)
(* _assign_system_tracking_number, tracking_numbers.py).                   *)
THEOREM DocumentsAreFound == PartsSpec => Found
  <1>1. PartsInit => PartsRegister
    BY PartsAtFirst
  <1>2. PartsRegister /\ [PartsNext]_parts => PartsRegister'
    BY PartsKept
  <1>3. PartsRegister /\ [PartsNext]_parts => [part = "numbers" => R!FoundStep]_parts
    BY PartsKept
  <1> QED
    BY <1>1, <1>2, <1>3, PTL DEF PartsSpec, Found

-----------------------------------------------------------------------------
(* Registering several documents at once. *)

Ups == 1 .. Len(tmps)
UpRows == [name : Scans, at : {"coming", "stored", "lost", "gone"}, event : {"none", "done", "error"}]
States == {"uploading", "ready", "registering", "registered", "duplicate", "refused", "failed"}
DialogRows == [tmp : Nat, state : States, allow : BOOLEAN]
BulkDocs == [tmp : Nat, type : ScanTypes, file : BOOLEAN, anyway : BOOLEAN, alone : BOOLEAN]
Ats == {"idle", "check", "row", "file", "done"}
AtWork == {"check", "row", "file"}
BulkJob(j) == /\ j \in [at : Ats, todo : Seq(Nat), type : ScanTypes \cup {None}, anyway : BOOLEAN, doc : Nat, result : {j.result}]
              /\ j.result \in [DOMAIN j.result -> Bulk!Results]

BulkTyped ==
    /\ tmps \in Seq(UpRows)
    /\ table \in Seq(DialogRows) /\ \A i \in DOMAIN table : table[i].tmp \in Ups
    /\ type \in ScanTypes \cup {None}
    /\ picking \in [OneRequest -> SUBSET Scans]
    /\ busy \in Requests \cup {None}
    /\ later \in Seq(Nat) /\ \A n \in DOMAIN later : later[n] \in Ups
    /\ jobs = [r \in Requests |-> jobs[r]] /\ \A r \in Requests : BulkJob(jobs[r])
    /\ docs \in Seq(BulkDocs) /\ \A k \in DOMAIN docs : docs[k].tmp \in Ups

(* An upload has one row, and a ready one was uploaded, or its namesake.   *)
RowsFit ==
    /\ \A i, j \in DOMAIN table : table[i].tmp = table[j].tmp => i = j
    /\ \A u \in Ups : tmps[u].event = "done" => tmps[u].at \in {"stored", "gone"}
    /\ \A i \in DOMAIN table : LET u == table[i].tmp IN
           table[i].state = "ready" /\ tmps[u].at \in {"coming", "lost"} => \E v \in Ups \ {u} : tmps[v].name = tmps[u].name

(* What a request has not answered is what it has still to do. *)
Sends(j) ==
    /\ j.at = "idle" => j.todo = << >> /\ DOMAIN j.result = {} /\ ~j.anyway
    /\ j.at # "idle" => j.type \in ScanTypes
    /\ j.at \in AtWork <=> j.todo # << >>
    /\ \A m, n \in DOMAIN j.todo : j.todo[m] = j.todo[n] => m = n
    /\ DOMAIN j.result \subseteq Ups
    /\ \A n \in DOMAIN j.todo : j.todo[n] \in DOMAIN j.result /\ j.result[j.todo[n]] = "sent"
    /\ \A u \in DOMAIN j.result : j.result[u] = "sent" => \E n \in DOMAIN j.todo : j.todo[n] = u
    /\ j.at = "file" => j.doc \in DOMAIN docs /\ docs[j.doc].tmp = j.todo[1] /\ docs[j.doc].type = j.type

(* What the dialog waits for is what its rows say is being registered.     *)
InAnswer(u) == busy # None /\ u \in DOMAIN jobs[busy].result
InLater(u) == \E n \in DOMAIN later : later[n] = u
Waits ==
    /\ busy = None => later = << >>
    /\ busy # None => jobs[busy].at # "idle" /\ jobs[busy].type = type
    /\ \A m, n \in DOMAIN later : later[m] = later[n] => m = n
    /\ \A n \in DOMAIN later : ~InAnswer(later[n])
    /\ \A i \in DOMAIN table : table[i].state = "registering" <=> InAnswer(table[i].tmp) \/ InLater(table[i].tmp)
    /\ \A r \in Requests : r # busy => jobs[r].at # "done" /\ DOMAIN jobs[r].result \subseteq untold

(* A number that waits for a box to be ticked is in use. *)
NumberOf(u) == Numbered[tmps[u].name]
InUse(u) == NumberOf(u) # None /\ \E m \in DOMAIN docs : NumberOf(docs[m].tmp) = NumberOf(u)
Boxes ==
    /\ \A i \in DOMAIN table : table[i].state = "duplicate" => InUse(table[i].tmp)
    /\ \A n \in DOMAIN later : InUse(later[n])
    /\ \A r \in Requests : /\ \A u \in DOMAIN jobs[r].result : jobs[r].result[u] = "duplicate" => InUse(u)
                           /\ jobs[r].anyway => \A n \in DOMAIN jobs[r].todo : InUse(jobs[r].todo[n])
    /\ \A k \in DOMAIN docs : docs[k].anyway => \E m \in 1 .. k - 1 : Bulk!SameNumber(k, m)

(* What a request looked for and did not find no other registers alone. *)
ContentOf(u) == Scanned[tmps[u].name]
LookedFor(j) ==
    /\ j.at \in {"row", "file"} =>
           \A m \in DOMAIN docs : docs[m].alone /\ docs[m].file /\ ~(j.at = "file" /\ m = j.doc)
                                  => ContentOf(docs[m].tmp) # ContentOf(j.todo[1])
    /\ j.at = "row" /\ ~j.anyway =>
           \A m \in DOMAIN docs : docs[m].alone /\ docs[m].type = j.type /\ NumberOf(docs[m].tmp) # None
                                  => NumberOf(docs[m].tmp) # NumberOf(j.todo[1])
FilesOnce == \A k, m \in DOMAIN docs :
    m # k /\ docs[k].alone /\ docs[m].alone /\ ContentOf(docs[k].tmp) = ContentOf(docs[m].tmp) => ~docs[k].file \/ ~docs[m].file
NumbersOnce == \A k, m \in DOMAIN docs :
    m < k /\ docs[k].alone /\ docs[m].alone /\ Bulk!SameNumber(k, m) /\ docs[k].type = docs[m].type => docs[k].anyway
Once == FilesOnce /\ NumbersOnce /\ \A r \in Requests : LookedFor(jobs[r])

(* What is registered has a document, and what has one says so. *)
Registers(u, t) == \E k \in DOMAIN docs : docs[k].tmp = u /\ docs[k].file /\ docs[k].type = t
Answers(u) == InAnswer(u) /\ jobs[busy].result[u] = "registered"
Truth ==
    /\ \A i \in DOMAIN table : table[i].state = "registered" => Registers(table[i].tmp, type)
    /\ \A r \in Requests : \A u \in DOMAIN jobs[r].result :
           jobs[r].result[u] = "registered" => Registers(u, jobs[r].type)
    /\ \A k \in DOMAIN docs, i \in DOMAIN table : docs[k].file /\ docs[k].tmp = table[i].tmp =>
           table[i].state = "registered" \/ table[i].tmp \in untold \/ Answers(table[i].tmp)

BulkInv == BulkTyped /\ RowsFit /\ (\A r \in Requests : Sends(jobs[r])) /\ Waits /\ Boxes /\ Once /\ Truth

-----------------------------------------------------------------------------
(* Lemmas about the operators *)

(* The numbers of a set in order: for each place there is a number with    *)
(* that many before it.                                                    *)
LEMMA NthExists ==
    ASSUME NEW N \in Nat, NEW S \in SUBSET (1 .. N), NEW k \in 1 .. Cardinality(S)
    PROVE  IsFiniteSet(S) /\ \E i \in S : Cardinality({j \in S : j < i}) = k - 1
  <1> DEFINE Below(x) == {j \in S : j < x}
             Enough == {x \in Nat : Cardinality(Below(x)) >= k}
  <1>0. S \subseteq 1 .. N /\ \A j \in S : j \in Nat /\ 1 <= j /\ j <= N
    OBVIOUS
  <1>1. IsFiniteSet(S)
    <2>1. IsFiniteSet(1 .. N)
      BY FS_Interval
    <2> QED
      BY <1>0, <2>1, FS_Subset
  <1>2. \A x : IsFiniteSet(Below(x)) /\ Cardinality(Below(x)) \in Nat
    <2>1. \A x : Below(x) \subseteq S
      OBVIOUS
    <2> QED
      BY <1>1, <2>1, FS_Subset, FS_CardinalityType
  <1>3. Below(N + 1) = S
    <2>1. \A j \in S : j < N + 1
      BY <1>0
    <2> QED
      BY <2>1
  <1>4. N + 1 \in Enough
    BY <1>3
  <1>5. PICK x \in Enough : \A y \in Enough : ~(y < x)
    <2>1. Enough \subseteq Nat /\ Enough # {}
      BY <1>4
    <2>2. \A y, z \in Nat : y < z => <<y, z>> \in OpToRel(<, Nat)
      BY DEF OpToRel
    <2>3. \E z \in Enough : \A y \in Enough : <<y, z>> \notin OpToRel(<, Nat)
      BY <2>1, WFMin, NatLessThanWellFounded
    <2> QED
      BY <2>1, <2>2, <2>3
  <1>6. Below(0) = {} /\ Cardinality(Below(0)) = 0
    <2>1. \A j \in S : ~(j < 0)
      BY <1>0
    <2>2. Below(0) = {}
      BY <2>1
    <2> QED
      BY <2>2, FS_EmptySet
  <1>7. x # 0 /\ x \in Nat /\ Cardinality(Below(x)) >= k
    BY <1>5, <1>6
  <1> DEFINE i == x - 1
  <1>8. i \in Nat /\ i < x /\ x = i + 1
    BY <1>7
  <1>9. Cardinality(Below(i)) < k
    BY <1>2, <1>5, <1>8
  <1>10. Below(x) = IF i \in S THEN Below(i) \cup {i} ELSE Below(i)
    <2>1. \A j \in S : j < x <=> j < i \/ j = i
      BY <1>0, <1>8
    <2> QED
      BY <1>8, <2>1
  <1>11. i \in S
    <2>1. CASE i \notin S
      <3>1. Cardinality(Below(x)) = Cardinality(Below(i))
        BY <1>10, <2>1
      <3>2. k \in Int /\ Cardinality(Below(i)) \in Int
        <4>1. Cardinality(Below(i)) \in Nat
          BY <1>2
        <4>2. k \in Int
          OBVIOUS
        <4> QED
          BY <4>1, <4>2
      <3> QED
        BY <1>7, <1>9, <3>1, <3>2
    <2> QED
      BY <2>1
  <1>12. Cardinality(Below(x)) = Cardinality(Below(i)) + 1
    <2>1. i \notin Below(i)
      BY <1>8
    <2>2. IsFiniteSet(Below(i)) /\ Below(x) = Below(i) \cup {i}
      BY <1>2, <1>10, <1>11
    <2> HIDE DEF Below
    <2> QED
      BY <2>1, <2>2, FS_AddElement
  <1>13. Cardinality(Below(i)) = k - 1
    BY <1>2, <1>7, <1>9, <1>12
  <1> QED
    BY <1>1, <1>11, <1>13

(* The uploads of some rows, each of them once. *)
LEMMA UploadsInOrder ==
    ASSUME BulkTyped, \A i, j \in DOMAIN table : table[i].tmp = table[j].tmp => i = j, NEW some \in SUBSET (DOMAIN table)
    PROVE  /\ Bulk!TmpNames(some) \in Seq(Nat)
           /\ \A n \in DOMAIN Bulk!TmpNames(some) : \E i \in some : Bulk!TmpNames(some)[n] = table[i].tmp
           /\ \A m, n \in DOMAIN Bulk!TmpNames(some) : Bulk!TmpNames(some)[m] = Bulk!TmpNames(some)[n] => m = n
  <1>1. Len(table) \in Nat /\ DOMAIN table = 1 .. Len(table) /\ \A i \in DOMAIN table : table[i].tmp \in Nat
    <2>1. table \in Seq(DialogRows)
      BY DEF BulkTyped
    <2>2. \A i \in 1 .. Len(table) : table[i] \in DialogRows
      BY <2>1, ElementOfSeq
    <2> QED
      BY <2>1, <2>2, LenProperties DEF DialogRows
  <1> DEFINE C == Bulk!Cardinality(some)
             list == Bulk!TmpNames(some)
  <1>2. C = Cardinality(some) /\ \A i : Bulk!Cardinality({j \in some : j < i}) = Cardinality({j \in some : j < i})
    BY DEF Bulk!Cardinality, Cardinality
  <1>3. C \in Nat
    <2>1. IsFiniteSet(1 .. Len(table))
      <3>1. 1 \in Int /\ Len(table) \in Int
        BY <1>1
      <3> QED
        BY <3>1, FS_Interval
    <2>2. IsFiniteSet(some)
      BY <1>1, <2>1, FS_Subset
    <2> QED
      BY <1>2, <2>2, FS_CardinalityType
  <1>4. \A n \in 1 .. C : Bulk!Nth(some, n) \in some /\ Cardinality({j \in some : j < Bulk!Nth(some, n)}) = n - 1
    <2>1. TAKE n \in 1 .. C
    <2>2. \E i \in some : Cardinality({j \in some : j < i}) = n - 1
      BY <1>1, <1>2, NthExists
    <2>3. \E i \in some : Bulk!Cardinality({j \in some : j < i}) = n - 1
      BY <1>2, <2>2
    <2>4. Bulk!Nth(some, n) \in some /\ Bulk!Cardinality({j \in some : j < Bulk!Nth(some, n)}) = n - 1
      BY <2>3 DEF Bulk!Nth
    <2> QED
      BY <1>2, <2>4
  <1>5. list = [n \in 1 .. C |-> table[Bulk!Nth(some, n)].tmp]
    BY DEF Bulk!TmpNames
  <1>6. \A n \in 1 .. C : list[n] = table[Bulk!Nth(some, n)].tmp /\ list[n] \in Nat
    BY <1>1, <1>4, <1>5
  <1>7. list \in Seq(Nat) /\ DOMAIN list = 1 .. C
    BY <1>3, <1>5, <1>6
  <1>8. ASSUME NEW m \in 1 .. C, NEW n \in 1 .. C, list[m] = list[n] PROVE m = n
    <2>1. Bulk!Nth(some, m) = Bulk!Nth(some, n)
      BY <1>4, <1>6, <1>8
    <2>2. m - 1 = n - 1
      BY <1>4, <2>1
    <2> QED
      BY <1>3, <2>2
  <1> QED
    BY <1>4, <1>6, <1>7, <1>8

(* What is where, in words the steps below can use. *)
LEMMA BulkFacts ==
    ASSUME BulkTyped
    PROVE  /\ Len(tmps) \in Nat /\ DOMAIN tmps = Ups /\ \A u \in Ups : u \in Nat /\ tmps[u] \in UpRows
           /\ Len(table) \in Nat /\ DOMAIN table = 1 .. Len(table) /\ \A i \in DOMAIN table : table[i] \in DialogRows
           /\ Len(docs) \in Nat /\ DOMAIN docs = 1 .. Len(docs) /\ \A k \in DOMAIN docs : docs[k] \in BulkDocs
           /\ Len(later) \in Nat /\ DOMAIN later = 1 .. Len(later) /\ \A n \in DOMAIN later : later[n] \in Nat
  <1>1. tmps \in Seq(UpRows) /\ table \in Seq(DialogRows) /\ docs \in Seq(BulkDocs) /\ later \in Seq(Nat)
    BY DEF BulkTyped
  <1>2. Len(tmps) \in Nat /\ DOMAIN tmps = Ups /\ \A u \in Ups : u \in Nat /\ tmps[u] \in UpRows
    BY <1>1, LenProperties, ElementOfSeq DEF Ups
  <1>3. Len(table) \in Nat /\ DOMAIN table = 1 .. Len(table) /\ \A i \in DOMAIN table : table[i] \in DialogRows
    BY <1>1, LenProperties, ElementOfSeq
  <1>4. Len(docs) \in Nat /\ DOMAIN docs = 1 .. Len(docs) /\ \A k \in DOMAIN docs : docs[k] \in BulkDocs
    BY <1>1, LenProperties, ElementOfSeq
  <1>5. Len(later) \in Nat /\ DOMAIN later = 1 .. Len(later) /\ \A n \in DOMAIN later : later[n] \in Nat
    BY <1>1, LenProperties, ElementOfSeq
  <1> QED
    BY <1>2, <1>3, <1>4, <1>5

(* The list of a request, and what is left after its first row. *)
LEMMA TodoFacts ==
    ASSUME NEW j, BulkJob(j)
    PROVE  /\ Len(j.todo) \in Nat /\ DOMAIN j.todo = 1 .. Len(j.todo) /\ \A n \in DOMAIN j.todo : j.todo[n] \in Nat
           /\ j.todo # << >> => /\ 1 \in DOMAIN j.todo /\ Head(j.todo) = j.todo[1]
                                /\ Tail(j.todo) \in Seq(Nat) /\ DOMAIN Tail(j.todo) = 1 .. Len(j.todo) - 1
                                /\ \A n \in DOMAIN Tail(j.todo) : n + 1 \in DOMAIN j.todo /\ Tail(j.todo)[n] = j.todo[n + 1]
                                /\ Tail(j.todo) = << >> <=> Len(j.todo) = 1
  <1>1. j.todo \in Seq(Nat)
    BY DEF BulkJob
  <1>2. Len(j.todo) \in Nat /\ DOMAIN j.todo = 1 .. Len(j.todo) /\ \A n \in DOMAIN j.todo : j.todo[n] \in Nat
    BY <1>1, LenProperties, ElementOfSeq
  <1>3. ASSUME j.todo # << >>
        PROVE  /\ 1 \in DOMAIN j.todo /\ Head(j.todo) = j.todo[1]
               /\ Tail(j.todo) \in Seq(Nat) /\ DOMAIN Tail(j.todo) = 1 .. Len(j.todo) - 1
               /\ \A n \in DOMAIN Tail(j.todo) : n + 1 \in DOMAIN j.todo /\ Tail(j.todo)[n] = j.todo[n + 1]
               /\ Tail(j.todo) = << >> <=> Len(j.todo) = 1
    <2>1. Len(j.todo) \in Nat \ {0}
      BY <1>1, <1>3, EmptySeq
    <2>2. /\ Tail(j.todo) \in Seq(Nat) /\ Len(Tail(j.todo)) = Len(j.todo) - 1
          /\ \A n \in 1 .. Len(Tail(j.todo)) : Tail(j.todo)[n] = j.todo[n + 1]
      BY <1>1, <1>3, HeadTailProperties
    <2>3. DOMAIN Tail(j.todo) = 1 .. Len(j.todo) - 1
      BY <2>2, LenProperties
    <2>4. Tail(j.todo) = << >> <=> Len(j.todo) = 1
      <3>1. Tail(j.todo) # << >> => Len(Tail(j.todo)) \in Nat \ {0}
        BY <2>2, EmptySeq
      <3>2. Tail(j.todo) = << >> => Len(Tail(j.todo)) = 0
        BY EmptySeq, Zenon
      <3>3. Len(Tail(j.todo)) = 0 <=> Len(j.todo) = 1
        BY <2>1, <2>2
      <3> QED
        BY <3>1, <3>2, <3>3
    <2>5. Head(j.todo) = j.todo[1]
      BY <1>1
    <2> QED
      BY <1>2, <2>1, <2>2, <2>3, <2>4, <2>5
  <1> QED
    BY <1>2, <1>3

(* Names stay, and documents but for what is attached to them. *)
NamesStay == Ups \subseteq Ups' /\ \A u \in Ups : tmps'[u].name = tmps[u].name
DocsStay == /\ DOMAIN docs \subseteq DOMAIN docs'
            /\ \A k \in DOMAIN docs : /\ docs'[k].tmp = docs[k].tmp /\ docs'[k].type = docs[k].type
                                      /\ docs'[k].anyway = docs[k].anyway /\ (docs[k].file => docs'[k].file)

(* What is known of names, numbers and contents is still so. *)
LEMMA StillSo ==
    ASSUME BulkTyped, NamesStay, DocsStay
    PROVE  /\ \A u \in Ups : NumberOf(u)' = NumberOf(u) /\ ContentOf(u)' = ContentOf(u) /\ (InUse(u) => InUse(u)')
           /\ \A k \in DOMAIN docs : NumberOf(docs[k].tmp)' = NumberOf(docs[k].tmp) /\ ContentOf(docs[k].tmp)' = ContentOf(docs[k].tmp)
           /\ \A k, m \in DOMAIN docs : Bulk!SameNumber(k, m)' <=> Bulk!SameNumber(k, m)
           /\ \A u, t : Registers(u, t) => Registers(u, t)'
  <1>1. \A u \in Ups : NumberOf(u)' = NumberOf(u) /\ ContentOf(u)' = ContentOf(u)
    BY DEF NamesStay, NumberOf, ContentOf
  <1>2. \A k \in DOMAIN docs : /\ k \in DOMAIN docs' /\ docs'[k].tmp = docs[k].tmp /\ docs[k].tmp \in Ups
    BY DEF DocsStay, BulkTyped
  <1>3. \A k \in DOMAIN docs : NumberOf(docs[k].tmp)' = NumberOf(docs[k].tmp) /\ ContentOf(docs[k].tmp)' = ContentOf(docs[k].tmp)
    BY <1>1, <1>2 DEF NumberOf, ContentOf
  <1>4. \A u \in Ups : InUse(u) => InUse(u)'
    BY <1>1, <1>2, <1>3 DEF InUse
  <1>5. \A u, t : Registers(u, t) => Registers(u, t)'
    BY DEF DocsStay, Registers
  <1>6. \A k, m \in DOMAIN docs : Bulk!SameNumber(k, m)' <=> Bulk!SameNumber(k, m)
    BY <1>3 DEF Bulk!SameNumber, Bulk!FileName, NumberOf
  <1> QED
    BY <1>1, <1>3, <1>4, <1>5, <1>6

-----------------------------------------------------------------------------
(* The dialog before and after *)

(* A row is as it was, or its upload was told of, or it is new. *)
RowsFrom == \A i \in DOMAIN table' :
    \/ \E j \in DOMAIN table :
           /\ table'[i].tmp = table[j].tmp
           /\ \/ table'[i].state = table[j].state
              \/ table[j].state = "uploading" /\ table'[i].state \in {"ready", "refused"}
    \/ table'[i].tmp \notin Ups /\ table'[i].state = "uploading"

(* What the dialog does while it sends nothing. *)
LEMMA DialogStep ==
    ASSUME BulkInv, docs' = docs, jobs' = jobs, busy' = busy, later' = later, untold' = untold,
           NamesStay, BulkTyped', RowsFit', RowsFrom,
           type' = type \/ (busy = None /\ \A i \in DOMAIN table : table[i].state # "registered")
    PROVE  BulkInv'
  <1>0. BulkTyped /\ (\A r \in Requests : Sends(jobs[r])) /\ Waits /\ Boxes /\ Once /\ Truth
    BY DEF BulkInv
  <1>1. DocsStay
    BY DEF DocsStay
  <1>2. /\ \A u \in Ups : NumberOf(u)' = NumberOf(u) /\ ContentOf(u)' = ContentOf(u) /\ (InUse(u) => InUse(u)')
        /\ \A k \in DOMAIN docs : NumberOf(docs[k].tmp)' = NumberOf(docs[k].tmp) /\ ContentOf(docs[k].tmp)' = ContentOf(docs[k].tmp)
        /\ \A k, m \in DOMAIN docs : Bulk!SameNumber(k, m)' <=> Bulk!SameNumber(k, m)
        /\ \A u, t : Registers(u, t) => Registers(u, t)'
    BY <1>0, <1>1, StillSo
  <1>3. /\ \A i \in DOMAIN table : table[i].tmp \in Ups
        /\ \A n \in DOMAIN later : later[n] \in Ups
        /\ \A r \in Requests : \A u \in DOMAIN jobs[r].result : u \in Ups
        /\ \A r \in Requests : \A n \in DOMAIN jobs[r].todo : jobs[r].todo[n] \in Ups
        /\ busy \in Requests \cup {None}
    BY <1>0 DEF BulkTyped, Sends
  <1>4. \A r \in Requests : Sends(jobs[r])'
    BY <1>0 DEF Sends, NamesStay
  <1>5. Waits'
    <2>2. \A u : InAnswer(u) \/ InLater(u) => u \in Ups
      <3>1. None \notin Requests
        BY Instances DEF Bulk!FilesAssumption
      <3> QED
        BY <1>3, <3>1 DEF InAnswer, InLater
    <2>3. \A i \in DOMAIN table' : table'[i].state = "registering" <=> InAnswer(table'[i].tmp) \/ InLater(table'[i].tmp)
      BY <1>0, <2>2 DEF Waits, RowsFrom
    <2>4. busy # None => jobs[busy].type = type'
      BY <1>0 DEF Waits
    <2> QED
      BY <1>0, <2>3, <2>4 DEF Waits, InAnswer, InLater
  <1>6. Boxes'
    <2>1. \A i \in DOMAIN table' : table'[i].state = "duplicate" => table'[i].tmp \in Ups /\ InUse(table'[i].tmp)
      BY <1>0, <1>3 DEF Boxes, RowsFrom
    <2>2. \A n \in DOMAIN later : later[n] \in Ups /\ InUse(later[n])
      BY <1>0, <1>3 DEF Boxes
    <2>3. \A r \in Requests : /\ \A u \in DOMAIN jobs[r].result : jobs[r].result[u] = "duplicate" => InUse(u)'
                              /\ jobs[r].anyway => \A n \in DOMAIN jobs[r].todo : InUse(jobs[r].todo[n])'
      BY <1>0, <1>2, <1>3 DEF Boxes
    <2>4. \A k \in DOMAIN docs : \A m \in 1 .. k - 1 : m \in DOMAIN docs
      BY <1>0, BulkFacts
    <2>5. \A k \in DOMAIN docs : docs[k].anyway => \E m \in 1 .. k - 1 : Bulk!SameNumber(k, m)'
      BY <1>0, <1>2, <2>4 DEF Boxes
    <2>6. (\A i \in DOMAIN table : table[i].state = "duplicate" => InUse(table[i].tmp))'
      BY <1>2, <2>1 DEF InUse, NumberOf
    <2>7. (\A n \in DOMAIN later : InUse(later[n]))'
      BY <1>2, <2>2 DEF InUse, NumberOf
    <2>8. (\A r \in Requests : /\ \A u \in DOMAIN jobs[r].result : jobs[r].result[u] = "duplicate" => InUse(u)
                               /\ jobs[r].anyway => \A n \in DOMAIN jobs[r].todo : InUse(jobs[r].todo[n]))'
      BY <2>3 DEF InUse, NumberOf
    <2>9. (\A k \in DOMAIN docs : docs[k].anyway => \E m \in 1 .. k - 1 : Bulk!SameNumber(k, m))'
      BY <2>5
    <2> QED
      BY <2>6, <2>7, <2>8, <2>9 DEF Boxes
  <1>7. Once'
    <2>1. FilesOnce' /\ NumbersOnce'
      BY <1>0, <1>2 DEF Once, FilesOnce, NumbersOnce
    <2>2. ASSUME NEW r \in Requests PROVE LookedFor(jobs[r])'
      <3>1. LookedFor(jobs[r]) /\ Sends(jobs[r]) /\ BulkJob(jobs[r])
        BY <1>0 DEF Once, BulkTyped
      <3>2. jobs[r].at \in {"row", "file"} => jobs[r].todo[1] \in Ups
        BY <1>3, <3>1, TodoFacts DEF Sends, AtWork
      <3> QED
        BY <1>2, <3>1, <3>2 DEF LookedFor
    <2> QED
      BY <2>1, <2>2 DEF Once
  <1>8. Truth'
    <2>1. \A i \in DOMAIN table' : table'[i].state = "registered" => Registers(table'[i].tmp, type')
      BY <1>0 DEF Truth, RowsFrom
    <2>2. \A r \in Requests : \A u \in DOMAIN jobs[r].result :
              jobs[r].result[u] = "registered" => Registers(u, jobs[r].type)'
      BY <1>0, <1>2 DEF Truth
    <2>3. ASSUME NEW k \in DOMAIN docs, NEW i \in DOMAIN table', docs[k].file, docs[k].tmp = table'[i].tmp
          PROVE  table'[i].state = "registered" \/ table'[i].tmp \in untold \/ Answers(table'[i].tmp)
      <3>1. docs[k].tmp \in Ups
        BY <1>0 DEF BulkTyped
      <3>2. PICK j \in DOMAIN table : /\ table'[i].tmp = table[j].tmp
                                      /\ \/ table'[i].state = table[j].state
                                         \/ table[j].state = "uploading" /\ table'[i].state \in {"ready", "refused"}
        BY <2>3, <3>1 DEF RowsFrom
      <3>3. table[j].state = "registered" \/ table[j].tmp \in untold \/ Answers(table[j].tmp)
        BY <1>0, <2>3, <3>2 DEF Truth
      <3> QED
        BY <3>2, <3>3
    <2> QED
      BY <2>1, <2>2, <2>3 DEF Truth, Registers, Answers, InAnswer
  <1> QED
    BY <1>4, <1>5, <1>6, <1>7, <1>8 DEF BulkInv

(* A row of the uploads changes, and its name does not. *)
LEMMA UploadChanges ==
    ASSUME BulkTyped, NEW u \in Ups, NEW row \in UpRows, row.name = tmps[u].name, tmps' = [tmps EXCEPT ![u] = row]
    PROVE  /\ tmps' \in Seq(UpRows) /\ Len(tmps') = Len(tmps) /\ Ups' = Ups /\ NamesStay
           /\ tmps'[u] = row /\ \A v \in Ups \ {u} : tmps'[v] = tmps[v]
  <1>1. tmps \in Seq(UpRows) /\ u \in 1 .. Len(tmps)
    BY DEF BulkTyped, Ups
  <1>2. /\ tmps' \in Seq(UpRows) /\ Len(tmps') = Len(tmps)
        /\ \A v \in 1 .. Len(tmps) : tmps'[v] = IF v = u THEN row ELSE tmps[v]
    BY <1>1, ExceptSeq
  <1>3. Ups' = Ups
    BY <1>2 DEF Ups
  <1> QED
    BY <1>1, <1>2, <1>3 DEF NamesStay, Ups

(* Rows that do not change are as they were. *)
LEMMA RowsAsTheyWere == ASSUME table' = table PROVE RowsFrom
  BY DEF RowsFrom

(* Files are picked, or cannot be prepared. *)
LEMMA Picking ==
    ASSUME BulkInv, NEW c \in OneRequest, (\E some \in SUBSET Scans : Bulk!picked(c, some)) \/ Bulk!PickFails(c)
    PROVE  BulkInv'
  <1>1. /\ table' = table /\ tmps' = tmps /\ docs' = docs /\ jobs' = jobs /\ busy' = busy /\ later' = later
        /\ untold' = untold /\ type' = type
    BY DEF Bulk!picked, Bulk!PickFails
  <1>2. picking \in [OneRequest -> SUBSET Scans] /\ BulkTyped /\ RowsFit
    BY DEF BulkInv, BulkTyped
  <1>3. picking' \in [OneRequest -> SUBSET Scans]
    BY <1>2 DEF Bulk!picked, Bulk!PickFails
  <1>4. BulkTyped' /\ RowsFit' /\ NamesStay
    BY <1>1, <1>2, <1>3 DEF BulkTyped, RowsFit, NamesStay, Ups
  <1> QED
    BY <1>1, <1>4, RowsAsTheyWere, DialogStep

(* A type is chosen while nothing is registered. *)
LEMMA Choosing ==
    ASSUME BulkInv, NEW t \in ScanTypes, Bulk!ChooseType(t)
    PROVE  BulkInv'
  <1>1. /\ table' = table /\ tmps' = tmps /\ docs' = docs /\ jobs' = jobs /\ busy' = busy /\ later' = later
        /\ untold' = untold /\ type' = t /\ picking' = picking
        /\ busy = None /\ \A i \in DOMAIN table : table[i].state # "registered"
    BY DEF Bulk!ChooseType, Bulk!Locked, Bulk!RowsThat, Bulk!Registered
  <1>2. BulkTyped /\ RowsFit
    BY DEF BulkInv
  <1>3. BulkTyped' /\ RowsFit' /\ NamesStay
    BY <1>1, <1>2 DEF BulkTyped, RowsFit, NamesStay, Ups
  <1> QED
    BY <1>1, <1>3, RowsAsTheyWere, DialogStep

(* An upload ends, or is cleaned up. *)
LEMMA UploadEnds ==
    ASSUME BulkInv, NEW u \in DOMAIN tmps, Bulk!upload_tmp_file(u) \/ Bulk!cleanup_temp_uploads(u)
    PROVE  BulkInv'
  <1>1. /\ table' = table /\ picking' = picking /\ docs' = docs /\ jobs' = jobs /\ busy' = busy /\ later' = later
        /\ untold' = untold /\ type' = type
    BY DEF Bulk!upload_tmp_file, Bulk!cleanup_temp_uploads, Bulk!Dialog
  <1>2. BulkTyped /\ RowsFit /\ u \in Ups /\ tmps[u] \in UpRows
    BY BulkFacts DEF BulkInv
  <1>3. PICK row \in UpRows : /\ row.name = tmps[u].name /\ tmps' = [tmps EXCEPT ![u] = row]
                              /\ row.event = "done" => row.at \in {"stored", "gone"}
                              /\ row.at \in {"coming", "lost"} => tmps[u].at \in {"coming", "lost"}
    <2>1. ASSUME Bulk!upload_tmp_file(u)
          PROVE  \E row \in UpRows : /\ row.name = tmps[u].name /\ tmps' = [tmps EXCEPT ![u] = row]
                                     /\ row.event = "done" => row.at \in {"stored", "gone"}
                                     /\ row.at \in {"coming", "lost"} => tmps[u].at \in {"coming", "lost"}
      <3>1. tmps[u].at = "coming"
        BY <2>1 DEF Bulk!upload_tmp_file
      <3>2. PICK to \in {"stored", "lost"}, told \in {"done", "error"} :
                /\ tmps' = [tmps EXCEPT ![u].at = to, ![u].event = told]
                /\ told = "done" => to = "stored"
        <4>1. PICK end \in {<<"stored", "done">>, <<"stored", "error">>, <<"lost", "error">>} :
                  tmps' = [tmps EXCEPT ![u].at = end[1], ![u].event = end[2]]
          BY <2>1 DEF Bulk!upload_tmp_file
        <4>2. end[1] \in {"stored", "lost"} /\ end[2] \in {"done", "error"} /\ (end[2] = "done" => end[1] = "stored")
          OBVIOUS
        <4> QED
          BY <4>1, <4>2
      <3> DEFINE row == [tmps[u] EXCEPT !.at = to, !.event = told]
      <3>3. row \in UpRows /\ row.name = tmps[u].name /\ row.at = to /\ row.event = told
        BY <1>2, <3>2 DEF UpRows
      <3>4. tmps' = [tmps EXCEPT ![u] = row]
        BY <1>2, <3>2 DEF UpRows
      <3> QED
        BY <3>1, <3>2, <3>3, <3>4
    <2>2. ASSUME Bulk!cleanup_temp_uploads(u)
          PROVE  \E row \in UpRows : /\ row.name = tmps[u].name /\ tmps' = [tmps EXCEPT ![u] = row]
                                     /\ row.event = "done" => row.at \in {"stored", "gone"}
                                     /\ row.at \in {"coming", "lost"} => tmps[u].at \in {"coming", "lost"}
      <3> DEFINE row == [tmps[u] EXCEPT !.at = "gone"]
      <3>1. row \in UpRows /\ row.name = tmps[u].name /\ row.at = "gone"
        BY <1>2 DEF UpRows
      <3>2. tmps' = [tmps EXCEPT ![u] = row]
        BY <2>2 DEF Bulk!cleanup_temp_uploads
      <3> QED
        BY <3>1, <3>2
    <2> QED
      BY <2>1, <2>2
  <1>4. /\ tmps' \in Seq(UpRows) /\ Ups' = Ups /\ NamesStay
        /\ tmps'[u] = row /\ \A v \in Ups \ {u} : tmps'[v] = tmps[v]
    BY <1>2, <1>3, UploadChanges
  <1>5. BulkTyped'
    BY <1>1, <1>2, <1>4 DEF BulkTyped
  <1>6. RowsFit'
    <2>1. \A v \in Ups : tmps'[v].event = "done" => tmps'[v].at \in {"stored", "gone"}
      BY <1>2, <1>3, <1>4 DEF RowsFit
    <2>2. \A v \in Ups : tmps'[v].name = tmps[v].name /\ (tmps'[v].at \in {"coming", "lost"} => tmps[v].at \in {"coming", "lost"})
      BY <1>3, <1>4
    <2>3. \A i \in DOMAIN table : table[i].tmp \in Ups
      BY <1>2 DEF BulkTyped
    <2>4. \A i \in DOMAIN table : table[i].state = "ready" /\ tmps'[table[i].tmp].at \in {"coming", "lost"}
              => \E v \in Ups \ {table[i].tmp} : tmps'[v].name = tmps'[table[i].tmp].name
      BY <1>2, <2>2, <2>3 DEF RowsFit
    <2> QED
      BY <1>1, <1>2, <1>4, <2>1, <2>4 DEF RowsFit
  <1> QED
    BY <1>1, <1>4, <1>5, <1>6, RowsAsTheyWere, DialogStep

(* New uploads have rows of their own. *)
LEMMA Listing ==
    ASSUME BulkInv, NEW c \in OneRequest, Bulk!create_tmp_uploads(c)
    PROVE  BulkInv'
  <1> DEFINE files_ == Bulk!SetToSeq(picking[c])
             ups == [i \in DOMAIN files_ |-> [name |-> files_[i], at |-> "coming", event |-> "none"]]
             new == [i \in DOMAIN files_ |-> [tmp |-> Len(tmps) + i, state |-> "uploading", allow |-> FALSE]]
  <1>0. BulkTyped /\ RowsFit /\ picking[c] \in SUBSET Scans /\ picking \in [OneRequest -> SUBSET Scans]
    BY DEF BulkInv, BulkTyped
  <1>1. /\ docs' = docs /\ jobs' = jobs /\ busy' = busy /\ later' = later /\ untold' = untold /\ type' = type
        /\ tmps' = tmps \o ups /\ table' = table \o new /\ picking' = [picking EXCEPT ![c] = {}]
    BY DEF Bulk!create_tmp_uploads
  <1>2. IsFiniteSet(Scans)
    BY Instances DEF Bulk!FilesAssumption, Bulk!IsFiniteSet, IsFiniteSet
  <1>3. PICK n \in Nat : files_ \in [1 .. n -> Scans]
    <2>1. IsFiniteSet(picking[c])
      BY <1>0, <1>2, FS_Subset
    <2>2. Bulk!Cardinality(picking[c]) = Cardinality(picking[c]) /\ Cardinality(picking[c]) \in Nat
      BY <2>1, FS_CardinalityType DEF Bulk!Cardinality, Cardinality
    <2>3. \E f \in [1 .. Cardinality(picking[c]) -> picking[c]] : Bulk!IsInjective(f)
      <3>1. PICK f : f \in Bijection(1 .. Cardinality(picking[c]), picking[c])
        BY <2>1, FS_CardinalityType DEF ExistsBijection
      <3> QED
        BY <3>1 DEF Bijection, Injection, IsInjective, Surjection, Bulk!IsInjective
    <2>4. files_ \in [1 .. Cardinality(picking[c]) -> picking[c]]
      BY <2>2, <2>3 DEF Bulk!SetToSeq
    <2> QED
      BY <1>0, <2>2, <2>4
  <1>4. DOMAIN files_ = 1 .. n /\ \A i \in 1 .. n : files_[i] \in Scans
    BY <1>3
  <1> HIDE DEF files_
  <1>5. ups \in Seq(UpRows) /\ Len(ups) = n /\ \A i \in 1 .. n : ups[i].at = "coming" /\ ups[i].event = "none"
    <2>1. ups \in [1 .. n -> UpRows]
      BY <1>4 DEF UpRows
    <2> QED
      BY <1>4, <2>1
  <1>6. new \in Seq(DialogRows) /\ Len(new) = n /\ \A i \in 1 .. n : new[i].tmp = Len(tmps) + i /\ new[i].state = "uploading"
    <2>1. Len(tmps) \in Nat
      BY <1>0, BulkFacts
    <2>2. new \in [1 .. n -> DialogRows]
      BY <1>4, <2>1 DEF DialogRows, States
    <2> QED
      BY <1>4, <2>2
  <1> HIDE DEF ups, new
  <1>7. /\ tmps' \in Seq(UpRows) /\ Len(tmps') = Len(tmps) + n
        /\ \A u \in 1 .. Len(tmps) + n : tmps'[u] = IF u <= Len(tmps) THEN tmps[u] ELSE ups[u - Len(tmps)]
    BY <1>0, <1>1, <1>5, ConcatProperties DEF BulkTyped
  <1>8. /\ table' \in Seq(DialogRows) /\ Len(table') = Len(table) + n
        /\ \A i \in 1 .. Len(table) + n : table'[i] = IF i <= Len(table) THEN table[i] ELSE new[i - Len(table)]
    BY <1>0, <1>1, <1>6, ConcatProperties DEF BulkTyped
  <1>9. /\ Len(tmps) \in Nat /\ Len(table) \in Nat /\ DOMAIN table = 1 .. Len(table)
        /\ \A i \in DOMAIN table : table[i].tmp \in Ups
    BY <1>0, BulkFacts DEF BulkTyped
  <1>10. DOMAIN table' = 1 .. Len(table) + n /\ Ups' = 1 .. Len(tmps) + n
    BY <1>7, <1>8, LenProperties DEF Ups
  <1>11. Ups \subseteq Ups' /\ \A u \in Ups : tmps'[u] = tmps[u]
    BY <1>7, <1>9, <1>10 DEF Ups
  <1>12. \A u \in Ups' \ Ups : tmps'[u].at = "coming" /\ tmps'[u].event = "none"
    <2>1. TAKE u \in Ups' \ Ups
    <2>2. u \in Nat /\ Len(tmps) < u /\ u <= Len(tmps) + n
      BY <1>9, <1>10 DEF Ups
    <2>3. u - Len(tmps) \in 1 .. n
      BY <1>9, <2>2
    <2>4. u \in 1 .. Len(tmps) + n /\ ~(u <= Len(tmps))
      BY <1>9, <2>2
    <2> QED
      BY <1>5, <1>7, <2>3, <2>4
  <1>13. ASSUME NEW i \in DOMAIN table'
         PROVE  \/ i \in DOMAIN table /\ table'[i] = table[i]
                \/ /\ i \notin DOMAIN table /\ table'[i].tmp = Len(tmps) + (i - Len(table)) /\ table'[i].state = "uploading"
                   /\ table'[i].tmp \in Ups' \ Ups
    <2>1. i \in Nat /\ 1 <= i /\ i <= Len(table) + n
      BY <1>9, <1>10, <1>13
    <2>2. CASE i <= Len(table)
      BY <1>8, <1>9, <2>1, <2>2
    <2>3. CASE Len(table) < i
      <3>1. i - Len(table) \in 1 .. n /\ i \in 1 .. Len(table) + n /\ ~(i <= Len(table)) /\ i \notin DOMAIN table
        BY <1>9, <2>1, <2>3
      <3>2. table'[i] = new[i - Len(table)]
        BY <1>8, <3>1
      <3>3. table'[i].tmp = Len(tmps) + (i - Len(table)) /\ table'[i].state = "uploading"
        BY <1>6, <3>1, <3>2
      <3>4. Len(tmps) + (i - Len(table)) \in Ups' \ Ups
        BY <1>9, <1>10, <3>1 DEF Ups
      <3> QED
        BY <3>1, <3>3, <3>4
    <2> QED
      BY <1>9, <2>1, <2>2, <2>3
  <1>14. BulkTyped'
    <2>1. \A i \in DOMAIN table' : table'[i].tmp \in Ups'
      BY <1>9, <1>11, <1>13
    <2>2. picking' \in [OneRequest -> SUBSET Scans]
      BY <1>0, <1>1
    <2>3. \A m \in DOMAIN later : later[m] \in Ups'
      BY <1>0, <1>11 DEF BulkTyped
    <2>4. \A k \in DOMAIN docs : docs[k].tmp \in Ups'
      BY <1>0, <1>11 DEF BulkTyped
    <2> QED
      BY <1>0, <1>1, <1>7, <1>8, <2>1, <2>2, <2>3, <2>4 DEF BulkTyped
  <1>15. RowsFit'
    <2>1. \A i, j \in DOMAIN table' : table'[i].tmp = table'[j].tmp => i = j
      <3>1. TAKE i, j \in DOMAIN table'
      <3>2. i \in Int /\ j \in Int
        BY <1>9, <1>10
      <3>3. CASE i \in DOMAIN table /\ j \in DOMAIN table
        BY <1>0, <1>13, <3>3 DEF RowsFit
      <3>4. CASE i \notin DOMAIN table /\ j \notin DOMAIN table
        BY <1>9, <1>13, <3>2, <3>4
      <3> QED
        BY <1>9, <1>13, <3>3, <3>4
    <2>2. \A u \in Ups' : tmps'[u].event = "done" => tmps'[u].at \in {"stored", "gone"}
      BY <1>0, <1>11, <1>12 DEF RowsFit
    <2>3. ASSUME NEW i \in DOMAIN table', table'[i].state = "ready", tmps'[table'[i].tmp].at \in {"coming", "lost"}
          PROVE  \E v \in Ups' \ {table'[i].tmp} : tmps'[v].name = tmps'[table'[i].tmp].name
      <3>1. i \in DOMAIN table /\ table'[i] = table[i]
        BY <1>13, <2>3
      <3> QED
        BY <1>0, <1>9, <1>11, <2>3, <3>1 DEF RowsFit
    <2> QED
      BY <2>1, <2>2, <2>3 DEF RowsFit
  <1>16. RowsFrom
    BY <1>13 DEF RowsFrom
  <1>17. NamesStay
    BY <1>11 DEF NamesStay
  <1> QED
    BY <1>1, <1>14, <1>15, <1>16, <1>17, DialogStep

(* One row of the dialog changes but for its upload. *)
LEMMA RowChanges ==
    ASSUME BulkInv, NEW i \in DOMAIN table, NEW row \in DialogRows, row.tmp = table[i].tmp,
           row.state = table[i].state \/ (table[i].state = "uploading" /\ row.state \in {"ready", "refused"}),
           table' = [table EXCEPT ![i] = row], Ups' = Ups, NamesStay, tmps' \in Seq(UpRows),
           \A u \in Ups : /\ tmps'[u].at = tmps[u].at
                          /\ tmps'[u].event = "done" => tmps[u].event = "done",
           row.state = "ready" /\ table[i].state = "uploading" =>
               \/ tmps[row.tmp].at \notin {"coming", "lost"}
               \/ \E v \in Ups \ {row.tmp} : tmps[v].name = tmps[row.tmp].name,
           docs' = docs, jobs' = jobs, busy' = busy, later' = later, untold' = untold, type' = type, picking' = picking
    PROVE  BulkInv'
  <1>0. BulkTyped /\ RowsFit /\ table \in Seq(DialogRows) /\ DOMAIN table = 1 .. Len(table)
    BY BulkFacts DEF BulkInv, BulkTyped
  <1>1. /\ table' \in Seq(DialogRows) /\ DOMAIN table' = DOMAIN table
        /\ table'[i] = row /\ \A j \in DOMAIN table \ {i} : table'[j] = table[j]
    BY <1>0
  <1>2. \A j \in DOMAIN table : table'[j].tmp = table[j].tmp /\ table[j].tmp \in Ups
    BY <1>0, <1>1 DEF BulkTyped
  <1>3. BulkTyped'
    BY <1>0, <1>1, <1>2 DEF BulkTyped
  <1>4. RowsFit'
    <2>1. \A j, k \in DOMAIN table : table'[j].tmp = table'[k].tmp => j = k
      BY <1>0, <1>2 DEF RowsFit
    <2>2. \A u \in Ups : tmps'[u].event = "done" => tmps'[u].at \in {"stored", "gone"}
      BY <1>0 DEF RowsFit
    <2>3. ASSUME NEW j \in DOMAIN table, table'[j].state = "ready", tmps'[table'[j].tmp].at \in {"coming", "lost"}
          PROVE  \E v \in Ups \ {table'[j].tmp} : tmps'[v].name = tmps'[table'[j].tmp].name
      <3>1. \E v \in Ups \ {table[j].tmp} : tmps[v].name = tmps[table[j].tmp].name
        BY <1>0, <1>1, <1>2, <2>3 DEF RowsFit
      <3> QED
        BY <1>2, <3>1 DEF NamesStay
    <2> QED
      BY <1>1, <2>1, <2>2, <2>3 DEF RowsFit
  <1>5. RowsFrom
    BY <1>1, <1>2 DEF RowsFrom
  <1> QED
    BY <1>3, <1>4, <1>5, DialogStep

(* An upload that ended is told of to a row of its name that is uploading. *)
LEMMA Telling ==
    ASSUME BulkInv, NEW u \in DOMAIN tmps, Bulk!on_progress(u)
    PROVE  BulkInv'
  <1> DEFINE Fit == {i \in 1 .. Len(table) : Bulk!Name(table[i]) = tmps[u].name /\ Bulk!Uploading(table[i])}
             i == IF Fit # {} THEN Bulk!Min(Fit) ELSE 0
             told == [tmps[u] EXCEPT !.event = "none"]
             to == IF tmps[u].event = "done" THEN "ready" ELSE "refused"
  <1>0. BulkTyped /\ RowsFit /\ u \in Ups /\ tmps[u] \in UpRows /\ DOMAIN table = 1 .. Len(table) /\ Len(table) \in Nat
    BY BulkFacts DEF BulkInv
  <1>1. /\ docs' = docs /\ jobs' = jobs /\ busy' = busy /\ later' = later /\ untold' = untold /\ type' = type
        /\ picking' = picking /\ tmps' = [tmps EXCEPT ![u] = told]
        /\ table' = IF i = 0 \/ ~Bulk!Uploading(table[i]) THEN table ELSE [table EXCEPT ![i].state = to]
    BY DEF Bulk!on_progress, Bulk!Progress, Bulk!SelectInSeq
  <1>2. told \in UpRows /\ told.name = tmps[u].name /\ told.at = tmps[u].at /\ told.event = "none"
    BY <1>0 DEF UpRows
  <1>3. Fit # {} => i \in Fit
    <2>1. \A j \in Fit : j \in Nat
      OBVIOUS
    <2>2. ASSUME Fit # {} PROVE \E j \in Fit : \A k \in Fit : j <= k
      <3>1. \A y, z \in Nat : y < z => <<y, z>> \in OpToRel(<, Nat)
        BY DEF OpToRel
      <3>2. PICK z \in Fit : \A y \in Fit : <<y, z>> \notin OpToRel(<, Nat)
        BY <2>1, <2>2, WFMin, NatLessThanWellFounded
      <3>3. \A y \in Fit : y \in Nat /\ z \in Nat /\ ~(y < z)
        BY <2>1, <3>1, <3>2
      <3>4. \A y \in Fit : z <= y
        <4> HIDE DEF Fit
        <4> QED
          BY <3>3
      <3> QED
        BY <3>4
    <2>3. ASSUME Fit # {} PROVE Bulk!Min(Fit) \in Fit
      BY <2>2, <2>3 DEF Bulk!Min
    <2> QED
      BY <2>3
  <1>4. /\ tmps' \in Seq(UpRows) /\ Ups' = Ups /\ NamesStay
        /\ \A v \in Ups : tmps'[v].at = tmps[v].at /\ (tmps'[v].event = "done" => tmps[v].event = "done")
    <2>1. /\ tmps' \in Seq(UpRows) /\ Ups' = Ups /\ NamesStay
          /\ tmps'[u] = told /\ \A v \in Ups \ {u} : tmps'[v] = tmps[v]
      BY <1>0, <1>1, <1>2, UploadChanges
    <2> QED
      BY <1>2, <2>1
  <1>5. CASE table' = table
    <2>1. BulkTyped'
      BY <1>0, <1>1, <1>4, <1>5 DEF BulkTyped
    <2>2. \A v \in Ups : tmps'[v].event = "done" => tmps'[v].at \in {"stored", "gone"}
      BY <1>0, <1>4 DEF RowsFit
    <2>3. \A j \in DOMAIN table : table[j].tmp \in Ups
      BY <1>0 DEF BulkTyped
    <2>4. \A j \in DOMAIN table : table[j].state = "ready" /\ tmps'[table[j].tmp].at \in {"coming", "lost"}
              => \E v \in Ups \ {table[j].tmp} : tmps'[v].name = tmps'[table[j].tmp].name
      BY <1>0, <1>4, <2>3 DEF RowsFit, NamesStay
    <2>5. RowsFit'
      BY <1>0, <1>4, <1>5, <2>2, <2>4 DEF RowsFit
    <2> QED
      BY <1>1, <1>4, <1>5, <2>1, <2>5, RowsAsTheyWere, DialogStep
  <1>6. CASE i # 0 /\ Bulk!Uploading(table[i]) /\ table' = [table EXCEPT ![i].state = to]
    <2> DEFINE row == [table[i] EXCEPT !.state = to]
    <2>1. i \in Fit
      BY <1>3, <1>6
    <2>2. i \in DOMAIN table /\ table[i] \in DialogRows /\ table[i].state = "uploading" /\ tmps[table[i].tmp].name = tmps[u].name
      BY <1>0, <2>1, BulkFacts DEF Bulk!Uploading, Bulk!Name
    <2> HIDE DEF i, Fit
    <2>3. row \in DialogRows /\ row.tmp = table[i].tmp /\ row.state = to /\ to \in {"ready", "refused"}
      BY <2>2 DEF DialogRows, States
    <2>4. table' = [table EXCEPT ![i] = row]
      BY <1>6
    <2>5. to = "ready" => \/ tmps[row.tmp].at \notin {"coming", "lost"}
                          \/ \E v \in Ups \ {row.tmp} : tmps[v].name = tmps[row.tmp].name
      <3>1. tmps[u].event = "done" => tmps[u].at \in {"stored", "gone"}
        BY <1>0 DEF RowsFit
      <3> QED
        BY <1>0, <2>2, <2>3, <3>1
    <2> HIDE DEF row, to
    <2> QED
      BY <1>1, <1>4, <2>2, <2>3, <2>4, <2>5, RowChanges
  <1> QED
    BY <1>1, <1>5, <1>6

(* A box is ticked or cleared. *)
LEMMA Ticking ==
    ASSUME BulkInv, NEW i \in DOMAIN table, Bulk!toggle(i)
    PROVE  BulkInv'
  <1> DEFINE row == [table[i] EXCEPT !.allow = ~table[i].allow]
  <1>0. BulkTyped /\ table[i] \in DialogRows
    BY BulkFacts DEF BulkInv
  <1>1. /\ docs' = docs /\ jobs' = jobs /\ busy' = busy /\ later' = later /\ untold' = untold /\ type' = type
        /\ picking' = picking /\ tmps' = tmps /\ table' = [table EXCEPT ![i] = row]
    BY DEF Bulk!toggle
  <1>2. row.tmp = table[i].tmp /\ row.state = table[i].state /\ row \in DialogRows
    BY <1>0 DEF DialogRows
  <1>3. Ups' = Ups /\ NamesStay /\ tmps' \in Seq(UpRows)
    BY <1>0, <1>1 DEF Ups, NamesStay, BulkTyped
  <1>4. table[i].state = "duplicate"
    BY DEF Bulk!toggle
  <1> HIDE DEF row
  <1> QED
    BY <1>1, <1>2, <1>3, <1>4, RowChanges

(* A row is taken out, and those after it move up. *)
LEMMA Removing ==
    ASSUME BulkInv, NEW i \in DOMAIN table, Bulk!remove(i)
    PROVE  BulkInv'
  <1> DEFINE left == SubSeq(table, 1, i - 1)
             right == SubSeq(table, i + 1, Len(table))
             from(j) == IF j < i THEN j ELSE j + 1
  <1>0. /\ BulkTyped /\ RowsFit /\ table \in Seq(DialogRows) /\ Len(table) \in Nat /\ DOMAIN table = 1 .. Len(table)
        /\ \A j \in 1 .. Len(table) : table[j] \in DialogRows
    BY BulkFacts DEF BulkInv, BulkTyped
  <1>1. /\ docs' = docs /\ jobs' = jobs /\ busy' = busy /\ later' = later /\ untold' = untold /\ type' = type
        /\ picking' = picking /\ tmps' = tmps /\ table' = left \o right
    BY DEF Bulk!remove, Bulk!RemoveAt
  <1>2. i \in Nat /\ 1 <= i /\ i <= Len(table)
    BY <1>0
  <1>3. left \in Seq(DialogRows) /\ Len(left) = i - 1 /\ \A j \in 1 .. i - 1 : left[j] = table[j]
    <2>1. \A j \in 1 .. i - 1 : table[j] \in DialogRows
      BY <1>0, <1>2
    <2>2. /\ left \in Seq(DialogRows) /\ Len(left) = IF 1 <= i - 1 THEN (i - 1) - 1 + 1 ELSE 0
          /\ \A j \in 1 .. (i - 1) - 1 + 1 : left[j] = table[1 + j - 1]
      BY <1>2, <2>1, SubSeqProperties
    <2> QED
      BY <1>2, <2>2
  <1>4. /\ right \in Seq(DialogRows) /\ Len(right) = Len(table) - i
        /\ \A j \in 1 .. Len(table) - i : right[j] = table[i + j]
    <2>1. \A j \in i + 1 .. Len(table) : table[j] \in DialogRows
      BY <1>0, <1>2
    <2>2. /\ right \in Seq(DialogRows) /\ Len(right) = IF i + 1 <= Len(table) THEN Len(table) - (i + 1) + 1 ELSE 0
          /\ \A j \in 1 .. Len(table) - (i + 1) + 1 : right[j] = table[(i + 1) + j - 1]
      BY <1>0, <1>2, <2>1, SubSeqProperties
    <2> QED
      BY <1>0, <1>2, <2>2
  <1> HIDE DEF left, right
  <1>5. /\ table' \in Seq(DialogRows) /\ Len(table') = Len(table) - 1
        /\ \A j \in 1 .. Len(table) - 1 : table'[j] = IF j <= i - 1 THEN left[j] ELSE right[j - (i - 1)]
    <2>1. /\ table' \in Seq(DialogRows) /\ Len(table') = (i - 1) + (Len(table) - i)
          /\ \A j \in 1 .. (i - 1) + (Len(table) - i) : table'[j] = IF j <= i - 1 THEN left[j] ELSE right[j - (i - 1)]
      BY <1>1, <1>3, <1>4, ConcatProperties
    <2>2. (i - 1) + (Len(table) - i) = Len(table) - 1
      BY <1>0, <1>2
    <2> QED
      BY <2>1, <2>2
  <1>6. DOMAIN table' = 1 .. Len(table) - 1
    BY <1>5, LenProperties
  <1>7. \A j \in DOMAIN table' : from(j) \in DOMAIN table /\ table'[j] = table[from(j)]
    <2>1. TAKE j \in DOMAIN table'
    <2>2. j \in Nat /\ 1 <= j /\ j <= Len(table) - 1 /\ j \in 1 .. Len(table) - 1
      BY <1>0, <1>6
    <2>3. from(j) \in DOMAIN table
      BY <1>0, <1>2, <2>2
    <2>4. CASE j < i
      <3>1. j <= i - 1 /\ j \in 1 .. i - 1
        BY <1>2, <2>2, <2>4
      <3> QED
        BY <1>3, <1>5, <2>2, <2>3, <2>4, <3>1
    <2>5. CASE ~(j < i)
      <3>1. ~(j <= i - 1) /\ j - (i - 1) \in 1 .. Len(table) - i /\ i + (j - (i - 1)) = j + 1
        BY <1>0, <1>2, <2>2, <2>5
      <3> QED
        BY <1>4, <1>5, <2>2, <2>3, <2>5, <3>1
    <2> QED
      BY <2>4, <2>5
  <1>8. \A j, k \in DOMAIN table' : from(j) = from(k) => j = k
    BY <1>0, <1>2, <1>6
  <1> HIDE DEF from
  <1>9. Ups' = Ups /\ NamesStay
    BY <1>1 DEF Ups, NamesStay
  <1>10. BulkTyped'
    <2>1. \A j \in DOMAIN table' : table'[j].tmp \in Ups
      BY <1>0, <1>7 DEF BulkTyped
    <2> QED
      BY <1>0, <1>1, <1>5, <1>9, <2>1 DEF BulkTyped
  <1>11. RowsFit'
    <2>1. \A j, k \in DOMAIN table' : table'[j].tmp = table'[k].tmp => j = k
      BY <1>0, <1>7, <1>8 DEF RowsFit
    <2>2. ASSUME NEW j \in DOMAIN table', table'[j].state = "ready", tmps[table'[j].tmp].at \in {"coming", "lost"}
          PROVE  \E v \in Ups \ {table'[j].tmp} : tmps[v].name = tmps[table'[j].tmp].name
      BY <1>0, <1>7, <2>2 DEF RowsFit
    <2> QED
      BY <1>0, <1>1, <1>9, <2>1, <2>2 DEF RowsFit
  <1>12. RowsFrom
    BY <1>7 DEF RowsFrom
  <1> QED
    BY <1>1, <1>9, <1>10, <1>11, <1>12, DialogStep

-----------------------------------------------------------------------------
(* The server before and after *)

(* One request goes on, and no other. *)
GoesOn(r) ==
    /\ jobs' = [jobs EXCEPT ![r] = jobs'[r]]
    /\ busy = r => jobs'[r].at # "idle" /\ DOMAIN jobs'[r].result = DOMAIN jobs[r].result
    /\ busy # r => jobs'[r].at # "done" /\ DOMAIN jobs'[r].result \subseteq DOMAIN jobs[r].result
    /\ jobs'[r].at # "idle" => jobs'[r].type = jobs[r].type
    /\ jobs'[r].anyway => jobs[r].anyway
    /\ \A n \in DOMAIN jobs'[r].todo : \E m \in DOMAIN jobs[r].todo : jobs'[r].todo[n] = jobs[r].todo[m]

(* An answer stays, and a new one is true. *)
AnswersGoOn(r) ==
    /\ \A u \in DOMAIN jobs'[r].result :
           \/ jobs'[r].result[u] = jobs[r].result[u] /\ jobs'[r].type = jobs[r].type
           \/ /\ jobs'[r].result[u] = "duplicate" => InUse(u)
              /\ jobs'[r].result[u] = "registered" => Registers(u, jobs[r].type)'
    /\ busy = r => \A u \in DOMAIN jobs[r].result : jobs[r].result[u] = "registered" => jobs'[r].result[u] = "registered"

(* What a request registers is registered alone only if no other works.    *)
OthersLook(r) == \A q \in Requests \ {r} : jobs[q].at \in AtWork =>
    \A m \in DOMAIN docs' : docs'[m].alone => m \in DOMAIN docs /\ docs[m].alone /\ docs'[m].file = docs[m].file

UploadsStay == /\ tmps' \in Seq(UpRows) /\ Ups' = Ups
               /\ \A v \in Ups : /\ tmps'[v].name = tmps[v].name /\ tmps'[v].event = tmps[v].event
                                 /\ tmps'[v].at = tmps[v].at \/ (tmps[v].at = "stored" /\ tmps'[v].at = "gone")

DialogStays == table' = table /\ type' = type /\ picking' = picking /\ busy' = busy /\ later' = later

(* What the server does for one request. *)
LEMMA ServerStep ==
    ASSUME BulkInv, NEW r \in Requests, DialogStays, UploadsStay, DocsStay, untold \subseteq untold',
           GoesOn(r), AnswersGoOn(r), OthersLook(r), BulkJob(jobs[r])', Sends(jobs[r])', LookedFor(jobs[r])',
           docs' \in Seq(BulkDocs), \A k \in DOMAIN docs' : docs'[k].tmp \in Ups,
           \A k \in DOMAIN docs' \ DOMAIN docs : docs'[k].anyway => \E m \in 1 .. k - 1 : Bulk!SameNumber(k, m)',
           FilesOnce', NumbersOnce',
           \A k \in DOMAIN docs' : docs'[k].file /\ ~(k \in DOMAIN docs /\ docs[k].file)
               => docs'[k].tmp \in untold' \/ (busy = r /\ docs'[k].tmp \in DOMAIN jobs'[r].result
                                                       /\ jobs'[r].result[docs'[k].tmp] = "registered")
    PROVE  BulkInv'
  <1>0. BulkTyped /\ RowsFit /\ (\A q \in Requests : Sends(jobs[q])) /\ Waits /\ Boxes /\ Once /\ Truth
    BY DEF BulkInv
  <1>1. NamesStay /\ Ups' = Ups /\ tmps' \in Seq(UpRows)
    BY DEF UploadsStay, NamesStay
  <1>2. /\ \A u \in Ups : NumberOf(u)' = NumberOf(u) /\ ContentOf(u)' = ContentOf(u) /\ (InUse(u) => InUse(u)')
        /\ \A k \in DOMAIN docs : NumberOf(docs[k].tmp)' = NumberOf(docs[k].tmp) /\ ContentOf(docs[k].tmp)' = ContentOf(docs[k].tmp)
        /\ \A k, m \in DOMAIN docs : Bulk!SameNumber(k, m)' <=> Bulk!SameNumber(k, m)
        /\ \A u, t : Registers(u, t) => Registers(u, t)'
    BY <1>0, <1>1, StillSo
  <1>3. jobs' = [q \in Requests |-> jobs'[q]] /\ \A q \in Requests \ {r} : jobs'[q] = jobs[q]
    BY <1>0 DEF GoesOn, BulkTyped
  <1>4. /\ \A i \in DOMAIN table : table[i].tmp \in Ups
        /\ \A n \in DOMAIN later : later[n] \in Ups
        /\ \A q \in Requests : \A u \in DOMAIN jobs[q].result : u \in Ups
        /\ \A q \in Requests : \A n \in DOMAIN jobs[q].todo : jobs[q].todo[n] \in Ups
        /\ busy \in Requests \cup {None}
        /\ \A k \in DOMAIN docs : docs[k].tmp \in Ups /\ k \in DOMAIN docs'
    BY <1>0 DEF BulkTyped, Sends, DocsStay
  <1>5. BulkTyped'
    <2>1. \A q \in Requests : BulkJob(jobs[q])'
      <3>1. TAKE q \in Requests
      <3>2. CASE q = r
        BY <3>2
      <3>3. CASE q # r
        BY <1>0, <1>3, <3>3 DEF BulkTyped, BulkJob
      <3> QED
        BY <3>2, <3>3
    <2> QED
      BY <1>0, <1>1, <1>3, <2>1 DEF BulkTyped, DialogStays
  <1>6. RowsFit'
    <2>1. \A i \in DOMAIN table : table[i].state = "ready" /\ tmps'[table[i].tmp].at \in {"coming", "lost"}
              => \E v \in Ups \ {table[i].tmp} : tmps'[v].name = tmps'[table[i].tmp].name
      BY <1>0, <1>4 DEF RowsFit, UploadsStay
    <2>2. \A u \in Ups : tmps'[u].event = "done" => tmps'[u].at \in {"stored", "gone"}
      BY <1>0 DEF RowsFit, UploadsStay
    <2> QED
      BY <1>0, <1>1, <2>1, <2>2 DEF RowsFit, DialogStays
  <1>7. \A q \in Requests : Sends(jobs[q])'
    <2>1. TAKE q \in Requests
    <2>2. CASE q = r
      BY <2>2
    <2>3. CASE q # r
      <3>1. jobs'[q] = jobs[q] /\ Sends(jobs[q])
        BY <1>0, <1>3, <2>3
      <3>2. jobs[q].at = "file" => /\ jobs[q].doc \in DOMAIN docs' /\ docs'[jobs[q].doc].tmp = jobs[q].todo[1]
                                   /\ docs'[jobs[q].doc].type = jobs[q].type
        BY <3>1 DEF Sends, DocsStay
      <3> QED
        BY <1>1, <3>1, <3>2 DEF Sends
    <2> QED
      BY <2>2, <2>3
  <1>8. Waits'
    <2>1. None \notin Requests
      BY Instances DEF Bulk!FilesAssumption
    <2>2. \A u : (InAnswer(u)' <=> InAnswer(u)) /\ (InLater(u)' <=> InLater(u))
      BY <1>3, <1>4, <2>1 DEF InAnswer, InLater, GoesOn, DialogStays
    <2>3. busy # None => jobs'[busy].at # "idle" /\ jobs'[busy].type = type
      BY <1>0, <1>3, <1>4, <2>1 DEF Waits, GoesOn
    <2>4. ASSUME NEW q \in Requests, q # busy PROVE jobs'[q].at # "done" /\ DOMAIN jobs'[q].result \subseteq untold'
      BY <1>0, <1>3, <2>4 DEF Waits, GoesOn
    <2> QED
      BY <1>0, <2>2, <2>3, <2>4 DEF Waits, DialogStays
  <1>9. Boxes'
    <2>1. (\A i \in DOMAIN table : table[i].state = "duplicate" => InUse(table[i].tmp))'
      BY <1>0, <1>2, <1>4 DEF Boxes, DialogStays
    <2>2. (\A n \in DOMAIN later : InUse(later[n]))'
      BY <1>0, <1>2, <1>4 DEF Boxes, DialogStays
    <2>3. ASSUME NEW q \in Requests
          PROVE  (/\ \A u \in DOMAIN jobs[q].result : jobs[q].result[u] = "duplicate" => InUse(u)
                  /\ jobs[q].anyway => \A n \in DOMAIN jobs[q].todo : InUse(jobs[q].todo[n]))'
      <3>1. CASE q # r
        <4>1. jobs'[q] = jobs[q]
          BY <1>3, <3>1
        <4>2. \A u \in DOMAIN jobs[q].result : jobs[q].result[u] = "duplicate" => InUse(u)'
          BY <1>0, <1>2, <1>4 DEF Boxes
        <4>3. jobs[q].anyway => \A n \in DOMAIN jobs[q].todo : InUse(jobs[q].todo[n])'
          BY <1>0, <1>2, <1>4, <4>1 DEF Boxes, InUse, NumberOf
        <4> QED
          BY <4>1, <4>2, <4>3
      <3>2. CASE q = r
        <4>1. \A u \in DOMAIN jobs'[r].result : u \in Ups /\ u \in DOMAIN jobs[r].result
          BY <1>4 DEF GoesOn
        <4>2. \A u \in DOMAIN jobs'[r].result : jobs'[r].result[u] = "duplicate" => InUse(u)
          BY <1>0, <4>1 DEF Boxes, AnswersGoOn
        <4>3. \A u \in DOMAIN jobs'[r].result : jobs'[r].result[u] = "duplicate" => InUse(u)'
          BY <1>2, <4>1, <4>2
        <4>4. ASSUME jobs'[r].anyway, NEW n \in DOMAIN jobs'[r].todo PROVE InUse(jobs[r].todo[n])'
          <5>1. PICK m \in DOMAIN jobs[r].todo : jobs'[r].todo[n] = jobs[r].todo[m]
            BY <4>4 DEF GoesOn
          <5>2. jobs[r].todo[m] \in Ups /\ InUse(jobs[r].todo[m])
            BY <1>0, <1>4, <4>4 DEF Boxes, GoesOn
          <5> QED
            BY <1>2, <1>4, <5>1, <5>2 DEF InUse, NumberOf
        <4> QED
          BY <3>2, <4>3, <4>4
      <3> QED
        BY <3>1, <3>2
    <2>4. (\A k \in DOMAIN docs : docs[k].anyway => \E m \in 1 .. k - 1 : Bulk!SameNumber(k, m))'
      <3>1. \A k \in DOMAIN docs : \A m \in 1 .. k - 1 : m \in DOMAIN docs
        BY <1>0, BulkFacts
      <3>2. ASSUME NEW k \in DOMAIN docs, docs'[k].anyway PROVE \E m \in 1 .. k - 1 : Bulk!SameNumber(k, m)'
        BY <1>0, <1>2, <3>1, <3>2 DEF Boxes, DocsStay
      <3> QED
        BY <3>2
    <2> QED
      BY <2>1, <2>2, <2>3, <2>4 DEF Boxes
  <1>10. Once'
    <2>1. ASSUME NEW q \in Requests \ {r} PROVE LookedFor(jobs[q])'
      <3>1. jobs'[q] = jobs[q] /\ LookedFor(jobs[q]) /\ Sends(jobs[q]) /\ BulkJob(jobs[q])
        BY <1>0, <1>3 DEF Once, BulkTyped
      <3>2. CASE jobs[q].at \in {"row", "file"}
        <4>1. jobs[q].todo[1] \in Ups
          BY <1>4, <3>1, <3>2, TodoFacts DEF Sends, AtWork
        <4>2. \A m \in DOMAIN docs' : docs'[m].alone => m \in DOMAIN docs /\ docs[m].alone /\ docs'[m].file = docs[m].file
          BY <3>2 DEF OthersLook, AtWork
        <4> QED
          BY <1>2, <3>1, <3>2, <4>1, <4>2 DEF LookedFor, DocsStay
      <3>3. CASE jobs[q].at \notin {"row", "file"}
        BY <3>1, <3>3 DEF LookedFor
      <3> QED
        BY <3>2, <3>3
    <2>2. ASSUME NEW q \in Requests PROVE LookedFor(jobs[q])'
      BY <2>1
    <2> QED
      BY <2>2 DEF Once
  <1>11. Truth'
    <2>1. (\A i \in DOMAIN table : table[i].state = "registered" => Registers(table[i].tmp, type))'
      BY <1>0, <1>2 DEF Truth, DialogStays
    <2>2. ASSUME NEW q \in Requests
          PROVE  (\A u \in DOMAIN jobs[q].result : jobs[q].result[u] = "registered" => Registers(u, jobs[q].type))'
      <3>1. CASE q # r
        BY <1>0, <1>2, <1>3, <3>1 DEF Truth
      <3>2. CASE q = r
        <4>1. ASSUME NEW u \in DOMAIN jobs'[r].result, jobs'[r].result[u] = "registered"
              PROVE  Registers(u, jobs[r].type)'
          <5>1. CASE jobs'[r].result[u] = jobs[r].result[u] /\ jobs'[r].type = jobs[r].type
            <6>1. u \in DOMAIN jobs[r].result
              BY <4>1 DEF GoesOn
            <6>2. Registers(u, jobs[r].type)
              BY <1>0, <4>1, <5>1, <6>1 DEF Truth
            <6> QED
              BY <1>2, <5>1, <6>2
          <5> QED
            BY <4>1, <5>1 DEF AnswersGoOn
        <4> QED
          BY <3>2, <4>1
      <3> QED
        BY <3>1, <3>2
    <2>3. ASSUME NEW k \in DOMAIN docs', NEW i \in DOMAIN table, docs'[k].file, docs'[k].tmp = table[i].tmp
          PROVE  table[i].state = "registered" \/ table[i].tmp \in untold' \/ Answers(table[i].tmp)'
      <3>1. CASE k \in DOMAIN docs /\ docs[k].file
        <4>1. table[i].state = "registered" \/ table[i].tmp \in untold \/ Answers(table[i].tmp)
          BY <1>0, <2>3, <3>1 DEF Truth, DocsStay
        <4>2. Answers(table[i].tmp) => Answers(table[i].tmp)'
          BY <1>3, <1>4 DEF Answers, InAnswer, AnswersGoOn, GoesOn, DialogStays
        <4> QED
          BY <4>1, <4>2
      <3>2. CASE ~(k \in DOMAIN docs /\ docs[k].file)
        <4>1. CASE busy = r /\ table[i].tmp \in DOMAIN jobs'[r].result /\ jobs'[r].result[table[i].tmp] = "registered"
          <5>1. None \notin Requests
            BY Instances DEF Bulk!FilesAssumption
          <5>2. busy' = r /\ r # None /\ table' = table
            BY <4>1, <5>1 DEF DialogStays
          <5> QED
            BY <4>1, <5>2 DEF Answers, InAnswer
        <4> QED
          BY <2>3, <3>2, <4>1
      <3> QED
        BY <3>1, <3>2
    <2> QED
      BY <2>1, <2>2, <2>3 DEF Truth, DialogStays
  <1> QED
    BY <1>5, <1>6, <1>7, <1>8, <1>9, <1>10, <1>11 DEF BulkInv

(* A request is done with a row of its list: what its record becomes.      *)
LEMMA RowIsDone ==
    ASSUME BulkInv, NEW r \in Requests, jobs[r].at \in AtWork, NEW to \in Bulk!Results \ {"sent"}, Bulk!Goes(r, to),
           Ups' = Ups, DialogStays
    PROVE  /\ GoesOn(r) /\ BulkJob(jobs[r])' /\ Sends(jobs[r])' /\ jobs'[r].at \notin AtWork \ {"check"}
           /\ jobs[r].todo[1] \in Ups
           /\ \A u \in DOMAIN jobs'[r].result :
                  /\ u \in DOMAIN jobs[r].result /\ jobs'[r].type = jobs[r].type
                  /\ jobs'[r].result[u] = IF u = jobs[r].todo[1] THEN to ELSE jobs[r].result[u]
           /\ busy = r => jobs[r].todo[1] \in DOMAIN jobs'[r].result
           /\ jobs[r].todo[1] \in DOMAIN jobs[r].result /\ jobs[r].result[jobs[r].todo[1]] = "sent"
  <1> DEFINE u == Head(jobs[r].todo)
             done == [jobs[r] EXCEPT !.todo = Tail(jobs[r].todo), !.result[u] = to, !.doc = 0]
             goes == IF done.todo # << >> THEN [done EXCEPT !.at = "check"]
                     ELSE IF busy = r THEN [done EXCEPT !.at = "done"] ELSE Bulk!Idle
  <1>0. /\ BulkTyped /\ BulkJob(jobs[r]) /\ Sends(jobs[r]) /\ Waits /\ jobs = [q \in Requests |-> jobs[q]]
        /\ to \in Bulk!Results /\ to # "sent"
    BY DEF BulkInv, BulkTyped
  <1>1. jobs[r].todo # << >>
    BY <1>0 DEF Sends
  <1>2. /\ Len(jobs[r].todo) \in Nat /\ DOMAIN jobs[r].todo = 1 .. Len(jobs[r].todo)
        /\ 1 \in DOMAIN jobs[r].todo /\ u = jobs[r].todo[1]
        /\ Tail(jobs[r].todo) \in Seq(Nat) /\ DOMAIN Tail(jobs[r].todo) = 1 .. Len(jobs[r].todo) - 1
        /\ \A n \in DOMAIN Tail(jobs[r].todo) : n + 1 \in DOMAIN jobs[r].todo /\ Tail(jobs[r].todo)[n] = jobs[r].todo[n + 1]
        /\ Tail(jobs[r].todo) = << >> <=> Len(jobs[r].todo) = 1
    BY <1>0, <1>1, TodoFacts
  <1>3. u \in DOMAIN jobs[r].result /\ jobs[r].result[u] = "sent" /\ u \in Ups
    BY <1>0, <1>2 DEF Sends
  <1>4. jobs[r].type \in ScanTypes
    BY <1>0 DEF Sends, AtWork
  <1>5. jobs' = [jobs EXCEPT ![r] = goes]
    BY DEF Bulk!Goes, Bulk!Upload
  <1>6. jobs'[r] = goes /\ jobs' = [jobs EXCEPT ![r] = jobs'[r]]
    BY <1>0, <1>5
  <1>7. /\ done.todo = Tail(jobs[r].todo) /\ done.type = jobs[r].type /\ done.anyway = jobs[r].anyway /\ done.doc = 0
        /\ done.result = [jobs[r].result EXCEPT ![u] = to]
        /\ done \in [at : Ats, todo : Seq(Nat), type : ScanTypes \cup {None}, anyway : BOOLEAN, doc : Nat, result : {done.result}]
    BY <1>0, <1>2 DEF BulkJob
  <1>8. /\ DOMAIN done.result = DOMAIN jobs[r].result
        /\ \A v \in DOMAIN jobs[r].result : done.result[v] = IF v = u THEN to ELSE jobs[r].result[v]
        /\ done.result \in [DOMAIN done.result -> Bulk!Results]
    BY <1>0, <1>3, <1>7 DEF BulkJob
  <1> HIDE DEF done, u
  <1> DEFINE j == jobs'[r]
  <1>9. /\ BulkJob(j) /\ Sends(j) /\ j.at \in {"idle", "check", "done"}
        /\ \A n \in DOMAIN j.todo : \E m \in DOMAIN jobs[r].todo : j.todo[n] = jobs[r].todo[m]
        /\ \/ busy # r /\ j = Bulk!Idle
           \/ j.type = jobs[r].type /\ j.anyway = jobs[r].anyway /\ j.result = done.result /\ (j.at = "check" \/ (busy = r /\ j.at = "done"))
    <2>1. CASE j = [done EXCEPT !.at = "check"] /\ Tail(jobs[r].todo) # << >>
      <3>1. /\ j.at = "check" /\ j.todo = Tail(jobs[r].todo) /\ j.type = jobs[r].type /\ j.anyway = jobs[r].anyway
            /\ j.doc = 0 /\ j.result = done.result
            /\ j \in [at : Ats, todo : Seq(Nat), type : ScanTypes \cup {None}, anyway : BOOLEAN, doc : Nat, result : {j.result}]
        BY <1>7, <2>1 DEF Ats
      <3> HIDE DEF j
      <3>2. BulkJob(j)
        BY <1>8, <3>1 DEF BulkJob
      <3>3. \A n \in DOMAIN j.todo : n + 1 \in DOMAIN jobs[r].todo /\ n \in Nat /\ n + 1 # 1 /\ j.todo[n] = jobs[r].todo[n + 1]
        BY <1>2, <3>1
      <3>4. \A n \in DOMAIN j.todo : j.todo[n] \in DOMAIN j.result /\ j.result[j.todo[n]] = "sent"
        <4>1. TAKE n \in DOMAIN j.todo
        <4>2. n + 1 \in DOMAIN jobs[r].todo /\ n + 1 # 1 /\ j.todo[n] = jobs[r].todo[n + 1]
          BY <3>3
        <4>3. /\ jobs[r].todo[n + 1] \in DOMAIN jobs[r].result /\ jobs[r].result[jobs[r].todo[n + 1]] = "sent"
              /\ jobs[r].todo[n + 1] # u
          BY <1>0, <1>2, <4>2 DEF Sends
        <4>4. j.todo[n] \in DOMAIN jobs[r].result /\ jobs[r].result[j.todo[n]] = "sent" /\ j.todo[n] # u
          BY <4>2, <4>3
        <4> QED
          BY <1>8, <3>1, <4>4
      <3>5. \A m, n \in DOMAIN j.todo : j.todo[m] = j.todo[n] => m = n
        <4>1. TAKE m, n \in DOMAIN j.todo
        <4>2. HAVE j.todo[m] = j.todo[n]
        <4>3. m + 1 = n + 1
          BY <1>0, <3>3, <4>2 DEF Sends
        <4> QED
          BY <3>3, <4>3
      <3>6. \A v \in DOMAIN j.result : j.result[v] = "sent" => \E n \in DOMAIN j.todo : j.todo[n] = v
        <4>1. TAKE v \in DOMAIN j.result
        <4>2. HAVE j.result[v] = "sent"
        <4>3. v # u /\ v \in DOMAIN jobs[r].result /\ jobs[r].result[v] = "sent"
          BY <1>0, <1>8, <3>1, <4>2
        <4>4. PICK n \in DOMAIN jobs[r].todo : jobs[r].todo[n] = v
          BY <1>0, <4>3 DEF Sends
        <4>5. n \in 1 .. Len(jobs[r].todo) /\ n # 1
          BY <1>2, <4>3, <4>4
        <4>6. n - 1 \in 1 .. Len(jobs[r].todo) - 1 /\ (n - 1) + 1 = n
          BY <1>2, <4>5
        <4>7. n - 1 \in DOMAIN j.todo
          BY <1>2, <3>1, <4>6
        <4> QED
          BY <3>3, <4>4, <4>6, <4>7
      <3>7. DOMAIN j.result \subseteq Ups
        BY <1>0, <1>8, <3>1 DEF Sends
      <3>8. Sends(j)
        BY <1>4, <2>1, <3>1, <3>4, <3>5, <3>6, <3>7 DEF Sends, AtWork
      <3>9. \A n \in DOMAIN j.todo : \E m \in DOMAIN jobs[r].todo : j.todo[n] = jobs[r].todo[m]
        BY <3>3
      <3> QED
        BY <3>1, <3>2, <3>8, <3>9
    <2>2. CASE j = [done EXCEPT !.at = "done"] /\ Tail(jobs[r].todo) = << >> /\ busy = r
      <3>1. /\ j.at = "done" /\ j.todo = << >> /\ j.type = jobs[r].type /\ j.anyway = jobs[r].anyway
            /\ j.doc = 0 /\ j.result = done.result
            /\ j \in [at : Ats, todo : Seq(Nat), type : ScanTypes \cup {None}, anyway : BOOLEAN, doc : Nat, result : {j.result}]
        BY <1>7, <2>2 DEF Ats
      <3> HIDE DEF j
      <3>2. BulkJob(j)
        BY <1>8, <3>1 DEF BulkJob
      <3>3. DOMAIN j.todo = {}
        BY <3>1
      <3>4. \A v \in DOMAIN j.result : j.result[v] # "sent"
        <4>1. TAKE v \in DOMAIN j.result
        <4>2. CASE v = u
          BY <1>0, <1>8, <3>1, <4>2
        <4>3. CASE v # u
          <5>1. v \in DOMAIN jobs[r].result /\ j.result[v] = jobs[r].result[v]
            BY <1>8, <3>1, <4>3
          <5>2. ASSUME jobs[r].result[v] = "sent" PROVE FALSE
            <6>1. PICK n \in DOMAIN jobs[r].todo : jobs[r].todo[n] = v
              BY <1>0, <5>1, <5>2 DEF Sends
            <6>2. Len(jobs[r].todo) = 1
              BY <1>2, <2>2
            <6>3. n = 1
              BY <1>2, <6>2
            <6> QED
              BY <1>2, <4>3, <6>1, <6>3
          <5> QED
            BY <5>1, <5>2
        <4> QED
          BY <4>2, <4>3
      <3>5. DOMAIN j.result \subseteq Ups
        BY <1>0, <1>8, <3>1 DEF Sends
      <3>6. Sends(j)
        BY <1>4, <3>1, <3>3, <3>4, <3>5 DEF Sends, AtWork
      <3> QED
        BY <2>2, <3>1, <3>2, <3>3, <3>6
    <2>3. CASE j = Bulk!Idle /\ busy # r
      <3> HIDE DEF j
      <3>1. /\ j.at = "idle" /\ j.todo = << >> /\ ~j.anyway /\ DOMAIN j.result = {} /\ DOMAIN j.todo = {}
            /\ BulkJob(j)
        BY <2>3, EmptySeq DEF Bulk!Idle, BulkJob, Ats
      <3>2. Sends(j)
        BY <3>1 DEF Sends, AtWork
      <3> QED
        BY <2>3, <3>1, <3>2
    <2> QED
      BY <1>6, <1>7, <2>1, <2>2, <2>3
  <1>10. Sends(jobs[r])'
    BY <1>9 DEF Sends
  <1>11. BulkJob(jobs[r])'
    BY <1>9 DEF BulkJob
  <1>12. jobs'[r].at \notin AtWork \ {"check"}
    BY <1>9 DEF AtWork
  <1>13. GoesOn(r)
    <2>1. busy # r => jobs'[r].at # "done" /\ DOMAIN jobs'[r].result \subseteq DOMAIN jobs[r].result
      BY <1>8, <1>9 DEF Bulk!Idle
    <2>2. busy = r => jobs'[r].at # "idle" /\ DOMAIN jobs'[r].result = DOMAIN jobs[r].result
      BY <1>8, <1>9
    <2>3. jobs'[r].at # "idle" => jobs'[r].type = jobs[r].type
      BY <1>9 DEF Bulk!Idle
    <2>4. jobs'[r].anyway => jobs[r].anyway
      <3>1. ~Bulk!Idle.anyway
        BY DEF Bulk!Idle
      <3>2. j = Bulk!Idle \/ j.anyway = jobs[r].anyway
        BY <1>9
      <3> QED
        BY <3>1, <3>2, Zenon
    <2> QED
      BY <1>6, <1>9, <2>1, <2>2, <2>3, <2>4 DEF GoesOn
  <1>14. \A v \in DOMAIN jobs'[r].result :
             /\ v \in DOMAIN jobs[r].result /\ jobs'[r].type = jobs[r].type
             /\ jobs'[r].result[v] = IF v = u THEN to ELSE jobs[r].result[v]
    BY <1>8, <1>9 DEF Bulk!Idle
  <1>15. busy = r => u \in DOMAIN jobs'[r].result
    BY <1>3, <1>8, <1>9
  <1> QED
    BY <1>2, <1>3, <1>10, <1>11, <1>12, <1>13, <1>14, <1>15

(* Uploads that do not change stay. *)
LEMMA NothingUploaded == ASSUME BulkInv, tmps' = tmps PROVE UploadsStay /\ Ups' = Ups
  BY DEF UploadsStay, Ups, BulkInv, BulkTyped

(* Without a new document what was looked for is still so. *)
LEMMA NothingFiled ==
    ASSUME BulkInv, tmps' = tmps, docs' = docs, NEW r
    PROVE  /\ DocsStay /\ OthersLook(r) /\ FilesOnce' /\ NumbersOnce'
           /\ docs' \in Seq(BulkDocs) /\ \A k \in DOMAIN docs' : docs'[k].tmp \in Ups
  <1>1. FilesOnce /\ NumbersOnce /\ docs \in Seq(BulkDocs) /\ \A k \in DOMAIN docs : docs[k].tmp \in Ups
    BY DEF BulkInv, BulkTyped, Once
  <1>2. FilesOnce' /\ NumbersOnce'
    BY <1>1 DEF FilesOnce, NumbersOnce, ContentOf, Bulk!SameNumber, Bulk!FileName
  <1> QED
    BY <1>1, <1>2 DEF DocsStay, OthersLook

(* A row is answered for without a document. *)
LEMMA Answering ==
    ASSUME BulkInv, NEW r \in Requests, jobs[r].at \in AtWork, NEW to \in {"refused", "duplicate", "failed"},
           Bulk!Goes(r, to), DialogStays, tmps' = tmps, docs' = docs, untold' = untold,
           to = "duplicate" => InUse(jobs[r].todo[1])
    PROVE  BulkInv'
  <1>1. to \in Bulk!Results \ {"sent"}
    BY DEF Bulk!Results
  <1>2. UploadsStay /\ Ups' = Ups
    BY NothingUploaded
  <1>3. /\ GoesOn(r) /\ BulkJob(jobs[r])' /\ Sends(jobs[r])' /\ jobs'[r].at \notin AtWork \ {"check"}
        /\ \A u \in DOMAIN jobs'[r].result :
               /\ u \in DOMAIN jobs[r].result /\ jobs'[r].type = jobs[r].type
               /\ jobs'[r].result[u] = IF u = jobs[r].todo[1] THEN to ELSE jobs[r].result[u]
        /\ jobs[r].result[jobs[r].todo[1]] = "sent"
    BY <1>1, <1>2, RowIsDone
  <1>4. LookedFor(jobs[r])'
    BY <1>3 DEF LookedFor, AtWork
  <1>5. AnswersGoOn(r)
    BY <1>3 DEF AnswersGoOn, GoesOn
  <1> QED
    BY <1>2, <1>3, <1>4, <1>5, NothingFiled, ServerStep

(* A row fails. *)
LEMMA Failing ==
    ASSUME BulkInv, NEW r \in Requests, Bulk!ItemFails(r)
    PROVE  BulkInv'
  BY Answering DEF Bulk!ItemFails, Bulk!Working, Bulk!Dialog, AtWork, DialogStays

(* A request goes on in its place, with its list and answers as they were. *)
LEMMA SamePlace ==
    ASSUME BulkInv, NEW r \in Requests, jobs[r].at \in AtWork, NEW at \in AtWork, NEW d \in Nat,
           jobs' = [jobs EXCEPT ![r].at = at, ![r].doc = d], NamesStay, Ups' = Ups,
           at = "file" => d \in DOMAIN docs' /\ docs'[d].tmp = jobs[r].todo[1] /\ docs'[d].type = jobs[r].type
    PROVE  /\ GoesOn(r) /\ AnswersGoOn(r) /\ BulkJob(jobs[r])' /\ Sends(jobs[r])'
           /\ jobs'[r].at = at /\ jobs'[r].doc = d /\ jobs'[r].todo = jobs[r].todo /\ jobs'[r].type = jobs[r].type
           /\ jobs'[r].anyway = jobs[r].anyway /\ jobs'[r].result = jobs[r].result
  <1>0. BulkJob(jobs[r]) /\ Sends(jobs[r]) /\ jobs = [q \in Requests |-> jobs[q]]
    BY DEF BulkInv, BulkTyped
  <1>1. /\ jobs'[r].at = at /\ jobs'[r].doc = d /\ jobs'[r].todo = jobs[r].todo /\ jobs'[r].type = jobs[r].type
        /\ jobs'[r].anyway = jobs[r].anyway /\ jobs'[r].result = jobs[r].result /\ jobs' = [jobs EXCEPT ![r] = jobs'[r]]
        /\ jobs'[r] \in [at : Ats, todo : Seq(Nat), type : ScanTypes \cup {None}, anyway : BOOLEAN, doc : Nat, result : {jobs'[r].result}]
    BY <1>0 DEF BulkJob, Ats, AtWork
  <1>2. BulkJob(jobs[r])'
    BY <1>0, <1>1 DEF BulkJob
  <1>3. Sends(jobs[r])'
    BY <1>0, <1>1 DEF Sends, AtWork
  <1>4. GoesOn(r)
    <2>1. jobs'[r].anyway => jobs[r].anyway
      BY <1>1, Zenon
    <2> QED
      BY <1>1, <2>1 DEF GoesOn, AtWork
  <1>5. AnswersGoOn(r)
    BY <1>1 DEF AnswersGoOn
  <1> QED
    BY <1>1, <1>2, <1>3, <1>4, <1>5

(* The server looks for the file and the number of a row. *)
LEMMA Checking ==
    ASSUME BulkInv, NEW r \in Requests, Bulk!CheckUpload(r)
    PROVE  BulkInv'
  <1> DEFINE u == Bulk!Upload(r)
  <1>0. BulkJob(jobs[r]) /\ Sends(jobs[r]) /\ jobs = [q \in Requests |-> jobs[q]] /\ BulkTyped
    BY DEF BulkInv, BulkTyped
  <1>1. jobs[r].at = "check" /\ DialogStays /\ tmps' = tmps /\ docs' = docs /\ untold' = untold /\ jobs[r].at \in AtWork
    BY DEF Bulk!CheckUpload, Bulk!Dialog, DialogStays, AtWork
  <1>2. u = jobs[r].todo[1] /\ 1 \in DOMAIN jobs[r].todo
    BY <1>0, <1>1, TodoFacts DEF Bulk!Upload, Sends
  <1>3. CASE Bulk!Goes(r, "refused")
    BY <1>1, <1>3, Answering
  <1>4. CASE Bulk!_documents_with_number(u, jobs[r].type) # {} /\ Bulk!Goes(r, "duplicate")
    <2>1. InUse(jobs[r].todo[1])
      BY <1>2, <1>4 DEF Bulk!_documents_with_number, Bulk!FileName, InUse, NumberOf
    <2> QED
      BY <1>1, <1>4, <2>1, Answering
  <1>5. CASE /\ Bulk!_documents_with_checksum(u) = {} /\ jobs' = [jobs EXCEPT ![r].at = "row"]
             /\ jobs[r].anyway \/ Bulk!_documents_with_number(u, jobs[r].type) = {}
    <2>1. jobs' = [jobs EXCEPT ![r].at = "row", ![r].doc = jobs[r].doc] /\ jobs[r].doc \in Nat
      BY <1>0, <1>5 DEF BulkJob
    <2>2. UploadsStay /\ Ups' = Ups /\ NamesStay
      BY <1>1, NothingUploaded DEF UploadsStay, NamesStay
    <2>3. /\ GoesOn(r) /\ AnswersGoOn(r) /\ BulkJob(jobs[r])' /\ Sends(jobs[r])'
          /\ jobs'[r].at = "row" /\ jobs'[r].todo = jobs[r].todo /\ jobs'[r].type = jobs[r].type
          /\ jobs'[r].anyway = jobs[r].anyway
      BY <1>1, <2>1, <2>2, SamePlace DEF AtWork
    <2>4. LookedFor(jobs[r])'
      <3>1. \A m \in DOMAIN docs : docs[m].file => ContentOf(docs[m].tmp) # ContentOf(u)
        BY <1>5 DEF Bulk!_documents_with_checksum, Bulk!FileName, ContentOf
      <3>2. jobs[r].anyway \/ \A m \in DOMAIN docs : docs[m].type = jobs[r].type /\ NumberOf(docs[m].tmp) # None
                                                     => NumberOf(docs[m].tmp) # NumberOf(u)
        BY <1>5 DEF Bulk!_documents_with_number, Bulk!FileName, NumberOf
      <3>3. jobs'[r].anyway \/ \A m \in DOMAIN docs : docs[m].type = jobs[r].type /\ NumberOf(docs[m].tmp) # None
                                                      => NumberOf(docs[m].tmp) # NumberOf(u)
        <4>1. jobs[r].anyway => jobs'[r].anyway
          BY <2>3, Zenon
        <4> QED
          BY <3>2, <4>1
      <3> QED
        BY <1>1, <1>2, <2>3, <3>1, <3>3 DEF LookedFor, ContentOf, NumberOf
    <2> QED
      BY <1>1, <2>2, <2>3, <2>4, NothingFiled, ServerStep
  <1> QED
    BY <1>3, <1>4, <1>5 DEF Bulk!CheckUpload

(* The server stops a request nobody waits for. *)
LEMMA Stopping ==
    ASSUME BulkInv, NEW r \in Requests, Bulk!ServerStops(r)
    PROVE  BulkInv'
  <1>0. jobs = [q \in Requests |-> jobs[q]]
    BY DEF BulkInv, BulkTyped
  <1>1. DialogStays /\ tmps' = tmps /\ docs' = docs /\ untold' = untold /\ busy # r /\ jobs' = [jobs EXCEPT ![r] = Bulk!Idle]
    BY DEF Bulk!ServerStops, Bulk!Dialog, DialogStays
  <1>2. jobs'[r] = Bulk!Idle /\ jobs' = [jobs EXCEPT ![r] = jobs'[r]]
    BY <1>0, <1>1
  <1>3. /\ jobs'[r].at = "idle" /\ jobs'[r].todo = << >> /\ ~jobs'[r].anyway /\ DOMAIN jobs'[r].result = {}
        /\ DOMAIN jobs'[r].todo = {}
    BY <1>2 DEF Bulk!Idle
  <1>4. BulkJob(jobs[r])'
    BY <1>2, EmptySeq DEF Bulk!Idle, BulkJob, Ats
  <1>5. Sends(jobs[r])'
    BY <1>3 DEF Sends, AtWork
  <1>6. GoesOn(r) /\ AnswersGoOn(r) /\ LookedFor(jobs[r])'
    BY <1>1, <1>2, <1>3 DEF GoesOn, AnswersGoOn, LookedFor
  <1> QED
    BY <1>1, <1>4, <1>5, <1>6, NothingFiled, NothingUploaded, ServerStep

(* A document is registered: what the request looked for is still so,      *)
(* unless another request is at work.                                      *)
LEMMA RegisteringOne ==
    ASSUME BulkInv, NEW r \in Requests, Bulk!_new_registered_document(r)
    PROVE  BulkInv'
  <1> DEFINE u == jobs[r].todo[1]
             new == [tmp |-> u, type |-> jobs[r].type, file |-> FALSE, anyway |-> jobs[r].anyway, alone |-> Bulk!Alone(r)]
             d == Len(docs) + 1
  <1>0. /\ BulkJob(jobs[r]) /\ Sends(jobs[r]) /\ LookedFor(jobs[r]) /\ BulkTyped /\ Boxes /\ Once
        /\ \A q \in Requests : jobs[q].at \in AtWork => Bulk!Working(q)
    BY DEF BulkInv, BulkTyped, Once, Bulk!Working, AtWork
  <1>1. jobs[r].at = "row" /\ DialogStays /\ tmps' = tmps /\ untold' = untold /\ jobs[r].at \in AtWork
    BY DEF Bulk!_new_registered_document, Bulk!Dialog, DialogStays, AtWork
  <1>2. Head(jobs[r].todo) = u /\ 1 \in DOMAIN jobs[r].todo /\ u \in Ups /\ u \in Nat
    BY <1>0, <1>1, TodoFacts DEF Sends, BulkTyped, Ups
  <1>3. docs' = Append(docs, new) /\ jobs' = [jobs EXCEPT ![r].at = "file", ![r].doc = Len(docs')]
    BY <1>2 DEF Bulk!_new_registered_document, Bulk!Upload
  <1>4. /\ Len(docs) \in Nat /\ DOMAIN docs = 1 .. Len(docs) /\ docs \in Seq(BulkDocs)
        /\ \A k \in DOMAIN docs : docs[k] \in BulkDocs /\ docs[k].tmp \in Ups /\ k \in Nat /\ k < d
    BY <1>0, BulkFacts DEF BulkTyped
  <1>5. new \in BulkDocs
    BY <1>0, <1>1, <1>2 DEF BulkDocs, Sends, BulkJob, Bulk!Alone
  <1>6. /\ new.tmp = u /\ new.type = jobs[r].type /\ ~new.file /\ (new.alone => Bulk!Alone(r))
        /\ (new.anyway => jobs[r].anyway) /\ (jobs[r].anyway => new.anyway)
    OBVIOUS
  <1> HIDE DEF new
  <1>7. /\ docs' \in Seq(BulkDocs) /\ Len(docs') = d /\ DOMAIN docs' = 1 .. d /\ docs'[d] = new
        /\ \A k \in DOMAIN docs : docs'[k] = docs[k] /\ k \in DOMAIN docs'
        /\ \A k \in DOMAIN docs' : k \in DOMAIN docs \/ k = d
        /\ d \notin DOMAIN docs /\ d \in DOMAIN docs' /\ d \in Nat
    <2>1. /\ docs' \in Seq(BulkDocs) /\ Len(docs') = d /\ DOMAIN docs' = 1 .. d
          /\ docs'[d] = new /\ \A k \in 1 .. Len(docs) : docs'[k] = docs[k]
      BY <1>3, <1>4, <1>5, AppendProperties, LenProperties
    <2> QED
      BY <1>4, <2>1
  <1>8. UploadsStay /\ Ups' = Ups /\ NamesStay /\ DocsStay
    <2>1. UploadsStay /\ Ups' = Ups
      BY <1>1, NothingUploaded
    <2> QED
      BY <1>1, <1>7, <2>1 DEF NamesStay, DocsStay
  <1>9. /\ GoesOn(r) /\ AnswersGoOn(r) /\ BulkJob(jobs[r])' /\ Sends(jobs[r])'
        /\ jobs'[r].at = "file" /\ jobs'[r].doc = d /\ jobs'[r].todo = jobs[r].todo
    <2>1. jobs' = [jobs EXCEPT ![r].at = "file", ![r].doc = d]
      BY <1>3, <1>7
    <2>2. d \in DOMAIN docs' /\ docs'[d].tmp = u /\ docs'[d].type = jobs[r].type
      BY <1>6, <1>7
    <2> HIDE DEF d
    <2> QED
      BY <1>1, <1>7, <1>8, <2>1, <2>2, SamePlace DEF AtWork
  <1> HIDE DEF d
  <1>10. /\ \A v \in Ups : NumberOf(v)' = NumberOf(v) /\ ContentOf(v)' = ContentOf(v)
         /\ \A k \in DOMAIN docs : NumberOf(docs[k].tmp)' = NumberOf(docs[k].tmp) /\ ContentOf(docs[k].tmp)' = ContentOf(docs[k].tmp)
         /\ \A k, m \in DOMAIN docs : Bulk!SameNumber(k, m)' <=> Bulk!SameNumber(k, m)
    BY <1>0, <1>8, StillSo
  <1>11. OthersLook(r)
    <2>1. ASSUME NEW q \in Requests \ {r}, jobs[q].at \in AtWork PROVE ~new.alone
      BY <1>0, <1>6, <2>1 DEF Bulk!Alone
    <2> QED
      BY <1>7, <2>1 DEF OthersLook
  <1>12. LookedFor(jobs[r])'
    <2>1. \A m \in DOMAIN docs : docs[m].alone /\ docs[m].file => ContentOf(docs[m].tmp) # ContentOf(u)
      BY <1>0, <1>1 DEF LookedFor
    <2>2. \A m \in DOMAIN docs' : docs'[m].alone /\ docs'[m].file /\ m # d => ContentOf(docs[m].tmp)' # ContentOf(u)
      BY <1>7, <1>10, <2>1
    <2> QED
      BY <1>2, <1>9, <1>10, <2>2 DEF LookedFor, ContentOf
  <1>13. FilesOnce'
    <2>1. ASSUME NEW k \in DOMAIN docs', NEW m \in DOMAIN docs', m # k, docs'[k].alone, docs'[m].alone,
                 ContentOf(docs[k].tmp)' = ContentOf(docs[m].tmp)'
          PROVE  ~docs'[k].file \/ ~docs'[m].file
      <3>1. CASE k = d \/ m = d
        BY <1>6, <1>7, <3>1
      <3>2. CASE k \in DOMAIN docs /\ m \in DOMAIN docs
        BY <1>0, <1>7, <1>10, <2>1, <3>2 DEF Once, FilesOnce
      <3> QED
        BY <1>7, <3>1, <3>2
    <2> QED
      BY <2>1 DEF FilesOnce
  <1>14. NumbersOnce'
    <2>1. ASSUME NEW k \in DOMAIN docs', NEW m \in DOMAIN docs', m < k, docs'[k].alone, docs'[m].alone,
                 Bulk!SameNumber(k, m)', docs'[k].type = docs'[m].type
          PROVE  docs'[k].anyway
      <3>1. CASE k = d
        <4>1. m \in DOMAIN docs
          BY <1>7, <2>1, <3>1
        <4>2. NumberOf(docs[k].tmp)' = NumberOf(u)
          BY <1>2, <1>6, <1>7, <1>10, <3>1 DEF NumberOf
        <4>3. NumberOf(docs[m].tmp) = NumberOf(u) /\ NumberOf(u) # None
          BY <1>10, <2>1, <4>1, <4>2 DEF Bulk!SameNumber, Bulk!FileName, NumberOf
        <4>4. jobs[r].anyway
          BY <1>0, <1>1, <1>6, <1>7, <2>1, <3>1, <4>1, <4>3 DEF LookedFor
        <4> QED
          BY <1>6, <1>7, <3>1, <4>4
      <3>2. CASE k \in DOMAIN docs /\ m = d
        BY <1>4, <1>7, <2>1, <3>2
      <3>3. CASE k \in DOMAIN docs /\ m \in DOMAIN docs
        BY <1>0, <1>7, <1>10, <2>1, <3>3 DEF Once, NumbersOnce
      <3> QED
        BY <1>7, <3>1, <3>2, <3>3
    <2> QED
      BY <2>1 DEF NumbersOnce
  <1>15. \A k \in DOMAIN docs' \ DOMAIN docs : docs'[k].anyway => \E m \in 1 .. k - 1 : Bulk!SameNumber(k, m)'
    <2>1. ASSUME NEW k \in DOMAIN docs', k = d, new.anyway PROVE \E m \in 1 .. k - 1 : Bulk!SameNumber(k, m)'
      <3>1. InUse(u)
        BY <1>0, <1>2, <1>6, <2>1 DEF Boxes
      <3>2. PICK m \in DOMAIN docs : NumberOf(docs[m].tmp) = NumberOf(u) /\ NumberOf(u) # None
        BY <3>1 DEF InUse
      <3>3. NumberOf(docs[k].tmp)' = NumberOf(u)
        BY <1>2, <1>6, <1>7, <1>10, <2>1 DEF NumberOf
      <3>4. Bulk!SameNumber(k, m)'
        BY <1>10, <3>2, <3>3 DEF Bulk!SameNumber, Bulk!FileName, NumberOf
      <3>5. m \in 1 .. k - 1
        BY <1>4, <1>7, <2>1, <3>2
      <3> QED
        BY <3>4, <3>5
    <2> QED
      BY <1>7, <2>1
  <1>16. \A k \in DOMAIN docs' : docs'[k].file => k \in DOMAIN docs /\ docs[k].file
    BY <1>6, <1>7
  <1>17. \A k \in DOMAIN docs' : docs'[k].tmp \in Ups
    BY <1>2, <1>4, <1>6, <1>7
  <1> QED
    BY <1>1, <1>7, <1>8, <1>9, <1>11, <1>12, <1>13, <1>14, <1>15, <1>16, <1>17, ServerStep

(* A file is attached to the document registered for it. *)
LEMMA AttachingOne ==
    ASSUME BulkInv, NEW r \in Requests, Bulk!Attach(r)
    PROVE  BulkInv'
  <1> DEFINE u == jobs[r].todo[1]
             d == jobs[r].doc
             filed == [docs[d] EXCEPT !.file = TRUE, !.alone = docs[d].alone /\ Bulk!Alone(r)]
  <1>0. /\ BulkJob(jobs[r]) /\ Sends(jobs[r]) /\ LookedFor(jobs[r]) /\ BulkTyped /\ Boxes /\ Once /\ Waits
        /\ \A q \in Requests : jobs[q].at \in AtWork => Bulk!Working(q)
    BY DEF BulkInv, BulkTyped, Once, Bulk!Working, AtWork
  <1>1. jobs[r].at = "file" /\ DialogStays /\ jobs[r].at \in AtWork
    BY DEF Bulk!Attach, Bulk!Dialog, DialogStays, AtWork
  <1>2. Head(jobs[r].todo) = u /\ u \in Ups /\ d \in DOMAIN docs /\ docs[d].tmp = u /\ docs[d].type = jobs[r].type
    BY <1>0, <1>1, TodoFacts DEF Sends, BulkTyped, AtWork
  <1>3. /\ Len(docs) \in Nat /\ DOMAIN docs = 1 .. Len(docs) /\ docs \in Seq(BulkDocs)
        /\ \A k \in DOMAIN docs : docs[k] \in BulkDocs /\ docs[k].tmp \in Ups /\ k \in Nat
        /\ tmps \in Seq(UpRows) /\ tmps[u] \in UpRows
    BY <1>0, <1>2, BulkFacts DEF BulkTyped
  <1>4. docs' = [docs EXCEPT ![d] = filed]
    BY DEF Bulk!Attach
  <1>5. filed \in BulkDocs /\ filed.tmp = u /\ filed.type = docs[d].type /\ filed.anyway = docs[d].anyway /\ filed.file
        /\ (filed.alone => docs[d].alone /\ Bulk!Alone(r))
    BY <1>2, <1>3 DEF BulkDocs, Bulk!Alone
  <1> HIDE DEF filed
  <1>6. /\ docs' \in Seq(BulkDocs) /\ DOMAIN docs' = DOMAIN docs /\ docs'[d] = filed
        /\ \A k \in DOMAIN docs \ {d} : docs'[k] = docs[k]
    BY <1>2, <1>3, <1>4, <1>5
  <1>7. DocsStay
    BY <1>2, <1>5, <1>6 DEF DocsStay
  <1>8. PICK logged \in BOOLEAN, left \in {"gone", "stored"} :
            /\ tmps' = [tmps EXCEPT ![u].at = IF @ = "stored" /\ logged THEN left ELSE @]
            /\ untold' = IF logged THEN untold ELSE untold \cup {u}
            /\ Bulk!Goes(r, IF logged THEN "registered" ELSE "failed")
    BY <1>2 DEF Bulk!Attach, Bulk!Upload
  <1> DEFINE to == IF logged THEN "registered" ELSE "failed"
  <1>9. UploadsStay /\ Ups' = Ups /\ NamesStay
    <2> DEFINE row == [tmps[u] EXCEPT !.at = IF tmps[u].at = "stored" /\ logged THEN left ELSE tmps[u].at]
    <2>1. /\ row \in UpRows /\ row.name = tmps[u].name /\ row.event = tmps[u].event
          /\ row.at = tmps[u].at \/ (tmps[u].at = "stored" /\ row.at = "gone")
      BY <1>3 DEF UpRows
    <2>2. tmps' = [tmps EXCEPT ![u] = row]
      BY <1>8
    <2> HIDE DEF row
    <2>3. /\ tmps' \in Seq(UpRows) /\ Ups' = Ups /\ NamesStay
          /\ tmps'[u] = row /\ \A v \in Ups \ {u} : tmps'[v] = tmps[v]
      BY <1>0, <1>2, <2>1, <2>2, UploadChanges
    <2> QED
      BY <2>1, <2>3 DEF UploadsStay
  <1>10. /\ GoesOn(r) /\ BulkJob(jobs[r])' /\ Sends(jobs[r])' /\ jobs'[r].at \notin AtWork \ {"check"}
         /\ \A v \in DOMAIN jobs'[r].result :
                /\ v \in DOMAIN jobs[r].result /\ jobs'[r].type = jobs[r].type
                /\ jobs'[r].result[v] = IF v = u THEN to ELSE jobs[r].result[v]
         /\ busy = r => u \in DOMAIN jobs'[r].result
         /\ u \in DOMAIN jobs[r].result /\ jobs[r].result[u] = "sent"
    <2>1. to \in Bulk!Results \ {"sent"} /\ Bulk!Goes(r, to)
      BY <1>8 DEF Bulk!Results
    <2> HIDE DEF to
    <2> QED
      BY <1>1, <1>9, <2>1, RowIsDone
  <1>11. /\ \A v \in Ups : NumberOf(v)' = NumberOf(v) /\ ContentOf(v)' = ContentOf(v)
         /\ \A k \in DOMAIN docs : NumberOf(docs[k].tmp)' = NumberOf(docs[k].tmp) /\ ContentOf(docs[k].tmp)' = ContentOf(docs[k].tmp)
         /\ \A k, m \in DOMAIN docs : Bulk!SameNumber(k, m)' <=> Bulk!SameNumber(k, m)
    BY <1>0, <1>7, <1>9, StillSo
  <1>12. AnswersGoOn(r)
    <2>1. ASSUME NEW v \in DOMAIN jobs'[r].result, v = u PROVE Registers(v, jobs[r].type)'
      <3>1. jobs'[r].type = jobs[r].type
        BY <1>10
      <3>2. docs'[d].tmp = u /\ docs'[d].file /\ docs'[d].type = jobs[r].type /\ d \in DOMAIN docs'
        BY <1>2, <1>5, <1>6
      <3> QED
        BY <2>1, <3>1, <3>2 DEF Registers
    <2>2. \A v \in DOMAIN jobs'[r].result :
              \/ jobs'[r].result[v] = jobs[r].result[v] /\ jobs'[r].type = jobs[r].type
              \/ /\ jobs'[r].result[v] = "duplicate" => InUse(v)
                 /\ jobs'[r].result[v] = "registered" => Registers(v, jobs[r].type)'
      <3>1. to # "duplicate"
        OBVIOUS
      <3>2. TAKE v \in DOMAIN jobs'[r].result
      <3> QED
        BY <1>10, <2>1, <3>1
    <2>3. busy = r => \A v \in DOMAIN jobs[r].result : jobs[r].result[v] = "registered" => jobs'[r].result[v] = "registered"
      BY <1>10 DEF GoesOn
    <2> QED
      BY <2>2, <2>3 DEF AnswersGoOn
  <1>13. OthersLook(r)
    <2>1. ASSUME NEW q \in Requests \ {r}, jobs[q].at \in AtWork PROVE ~filed.alone
      BY <1>0, <1>5, <2>1 DEF Bulk!Alone
    <2> QED
      BY <1>6, <2>1 DEF OthersLook
  <1>14. LookedFor(jobs[r])'
    BY <1>10 DEF LookedFor, AtWork
  <1>15. FilesOnce'
    <2>1. \A m \in DOMAIN docs \ {d} : docs[m].alone /\ docs[m].file => ContentOf(docs[m].tmp) # ContentOf(u)
      BY <1>0, <1>1 DEF LookedFor
    <2>2. ASSUME NEW k \in DOMAIN docs, NEW m \in DOMAIN docs, m # k, docs'[k].alone, docs'[m].alone,
                 ContentOf(docs[k].tmp)' = ContentOf(docs[m].tmp)', docs'[k].file, docs'[m].file
          PROVE  FALSE
      <3>1. ContentOf(docs[k].tmp) = ContentOf(docs[m].tmp)
        BY <1>11, <2>2
      <3>2. CASE k = d
        BY <1>2, <1>6, <2>1, <2>2, <3>1, <3>2
      <3>3. CASE m = d
        BY <1>2, <1>6, <2>1, <2>2, <3>1, <3>3
      <3>4. CASE k # d /\ m # d
        BY <1>0, <1>6, <2>2, <3>1, <3>4 DEF Once, FilesOnce
      <3> QED
        BY <3>2, <3>3, <3>4
    <2> QED
      BY <1>6, <2>2 DEF FilesOnce
  <1>16. NumbersOnce'
    <2>1. ASSUME NEW k \in DOMAIN docs, NEW m \in DOMAIN docs, m < k, docs'[k].alone, docs'[m].alone,
                 Bulk!SameNumber(k, m)', docs'[k].type = docs'[m].type
          PROVE  docs'[k].anyway
      <3>1. \A i \in DOMAIN docs : (docs'[i].alone => docs[i].alone) /\ docs'[i].type = docs[i].type /\ docs'[i].anyway = docs[i].anyway
        BY <1>5, <1>6
      <3>2. Bulk!SameNumber(k, m)
        BY <1>11, <2>1
      <3>3. docs[k].anyway
        BY <1>0, <2>1, <3>1, <3>2 DEF Once, NumbersOnce
      <3> QED
        BY <3>1, <3>3, Zenon
    <2> QED
      BY <1>6, <2>1 DEF NumbersOnce
  <1>17. \A k \in DOMAIN docs' : docs'[k].file /\ ~(k \in DOMAIN docs /\ docs[k].file)
             => docs'[k].tmp \in untold' \/ (busy = r /\ docs'[k].tmp \in DOMAIN jobs'[r].result
                                                     /\ jobs'[r].result[docs'[k].tmp] = "registered")
    <2>1. ASSUME logged, busy # r PROVE u \in untold'
      BY <1>0, <1>8, <1>10, <2>1 DEF Waits
    <2>2. ASSUME logged, busy = r PROVE u \in DOMAIN jobs'[r].result /\ jobs'[r].result[u] = "registered"
      BY <1>10, <2>2
    <2>3. ASSUME ~logged PROVE u \in untold'
      BY <1>8, <2>3
    <2> QED
      BY <1>2, <1>5, <1>6, <2>1, <2>2, <2>3
  <1>18. \A k \in DOMAIN docs' : docs'[k].tmp \in Ups
    BY <1>2, <1>3, <1>5, <1>6
  <1>19. untold \subseteq untold'
    BY <1>8
  <1> QED
    BY <1>1, <1>6, <1>7, <1>9, <1>10, <1>12, <1>13, <1>14, <1>15, <1>16, <1>17, <1>18, <1>19, ServerStep

-----------------------------------------------------------------------------
(* The dialog sends and hears *)

(* A request just sent. *)
Fresh(j) == /\ j.at = "check" /\ j.type = type /\ BulkJob(j) /\ Sends(j)
            /\ \A u \in DOMAIN j.result : j.result[u] = "sent"
            /\ j.anyway => \A n \in DOMAIN j.todo : InUse(j.todo[n])

(* What is sent is a list of uploads, each once, and nothing is answered. *)
LEMMA RequestIsFresh ==
    ASSUME BulkInv, type \in ScanTypes, NEW list \in Seq(Nat), list # << >>, \A n \in DOMAIN list : list[n] \in Ups,
           \A m, n \in DOMAIN list : list[m] = list[n] => m = n, NEW anyway \in BOOLEAN,
           anyway => \A n \in DOMAIN list : InUse(list[n])
    PROVE  /\ Fresh(Bulk!Request(list, anyway))
           /\ \A u : u \in DOMAIN Bulk!Request(list, anyway).result <=> \E n \in DOMAIN list : list[n] = u
  <1> DEFINE j == Bulk!Request(list, anyway)
  <1>1. /\ j.at = "check" /\ j.todo = list /\ j.type = type /\ j.anyway = anyway /\ j.doc = 0
        /\ j.result = [u \in Bulk!ToSet(list) |-> "sent"]
        /\ j \in [at : Ats, todo : Seq(Nat), type : ScanTypes \cup {None}, anyway : BOOLEAN, doc : Nat, result : {j.result}]
    BY DEF Bulk!Request, Bulk!Idle, Ats
  <1> HIDE DEF j
  <1>2. DOMAIN j.result = {list[n] : n \in DOMAIN list} /\ \A u \in DOMAIN j.result : j.result[u] = "sent"
    BY <1>1 DEF Bulk!ToSet
  <1>3. BulkJob(j)
    BY <1>1, <1>2 DEF BulkJob, Bulk!Results
  <1>4. Sends(j)
    BY <1>1, <1>2 DEF Sends, AtWork
  <1>5. j.anyway => \A n \in DOMAIN j.todo : InUse(j.todo[n])
    <2>1. j.anyway => anyway
      BY <1>1, Zenon
    <2> QED
      BY <1>1, <2>1
  <1> QED
    BY <1>1, <1>2, <1>3, <1>4, <1>5 DEF Fresh, j

(* The dialog sends a request, or none, and lets another go.               *)
LEMMA DialogTurns ==
    ASSUME BulkInv, docs' = docs, tmps' = tmps, type' = type, picking' = picking, untold \subseteq untold',
           table' \in Seq(DialogRows), DOMAIN table' = DOMAIN table,
           \A i \in DOMAIN table : /\ table'[i].tmp = table[i].tmp
                                   /\ table'[i].state = "ready" => table[i].state = "ready"
                                   /\ table'[i].state = "duplicate" => InUse(table[i].tmp)
                                   /\ table'[i].state = "registered" => Registers(table[i].tmp, type),
           \A k \in DOMAIN docs, i \in DOMAIN table :
               docs[k].file /\ docs[k].tmp = table[i].tmp => table'[i].state = "registered" \/ table[i].tmp \in untold',
           busy' \in Requests \cup {None}, later' \in Seq(Nat),
           \A n \in DOMAIN later' : later'[n] \in Ups /\ InUse(later'[n]),
           jobs' = [q \in Requests |-> jobs'[q]],
           \A q \in Requests : \/ jobs'[q] = jobs[q]
                               \/ jobs'[q] = Bulk!Idle
                               \/ Fresh(jobs'[q]),
           Waits'
    PROVE  BulkInv'
  <1>0. BulkTyped /\ RowsFit /\ (\A q \in Requests : Sends(jobs[q])) /\ Boxes /\ Once /\ Truth
    BY DEF BulkInv
  <1>1. Ups' = Ups /\ NamesStay /\ DocsStay
    BY DEF Ups, NamesStay, DocsStay
  <1>2. /\ \A u \in Ups : NumberOf(u)' = NumberOf(u) /\ ContentOf(u)' = ContentOf(u) /\ (InUse(u) => InUse(u)')
        /\ \A k \in DOMAIN docs : NumberOf(docs[k].tmp)' = NumberOf(docs[k].tmp) /\ ContentOf(docs[k].tmp)' = ContentOf(docs[k].tmp)
        /\ \A k, m \in DOMAIN docs : Bulk!SameNumber(k, m)' <=> Bulk!SameNumber(k, m)
        /\ \A u, t : Registers(u, t) => Registers(u, t)'
    BY <1>0, <1>1, StillSo
  <1>3. /\ Bulk!Idle.at = "idle" /\ Bulk!Idle.todo = << >> /\ ~Bulk!Idle.anyway /\ DOMAIN Bulk!Idle.result = {}
        /\ DOMAIN Bulk!Idle.todo = {} /\ BulkJob(Bulk!Idle)
    BY EmptySeq DEF Bulk!Idle, BulkJob, Ats
  <1>4. \A i \in DOMAIN table : table[i].tmp \in Ups
    BY <1>0 DEF BulkTyped
  <1>5. BulkTyped'
    <2>1. ASSUME NEW q \in Requests PROVE BulkJob(jobs[q])'
      <3>1. BulkJob(jobs'[q])
        BY <1>0, <1>3 DEF BulkTyped, Fresh
      <3> QED
        BY <3>1 DEF BulkJob
    <2> QED
      BY <1>0, <1>1, <1>4, <2>1 DEF BulkTyped
  <1>6. RowsFit'
    <2>1. \A i, j \in DOMAIN table : table'[i].tmp = table'[j].tmp => i = j
      BY <1>0 DEF RowsFit
    <2>2. ASSUME NEW i \in DOMAIN table, table'[i].state = "ready", tmps[table'[i].tmp].at \in {"coming", "lost"}
          PROVE  \E v \in Ups \ {table'[i].tmp} : tmps[v].name = tmps[table'[i].tmp].name
      BY <1>0, <2>2 DEF RowsFit
    <2> QED
      BY <1>0, <1>1, <2>1, <2>2 DEF RowsFit
  <1>7. ASSUME NEW q \in Requests PROVE Sends(jobs[q])'
    <2>1. Sends(jobs'[q])
      <3>1. Sends(Bulk!Idle)
        BY <1>3 DEF Sends, AtWork
      <3> QED
        BY <1>0, <3>1 DEF Fresh
    <2> QED
      BY <1>1, <2>1 DEF Sends
  <1>8. Boxes'
    <2>1. (\A i \in DOMAIN table : table[i].state = "duplicate" => InUse(table[i].tmp))'
      BY <1>2, <1>4
    <2>2. (\A n \in DOMAIN later : InUse(later[n]))'
      BY <1>2 DEF InUse, NumberOf
    <2>3. ASSUME NEW q \in Requests
          PROVE  (/\ \A u \in DOMAIN jobs[q].result : jobs[q].result[u] = "duplicate" => InUse(u)
                  /\ jobs[q].anyway => \A n \in DOMAIN jobs[q].todo : InUse(jobs[q].todo[n]))'
      <3>1. /\ \A u \in DOMAIN jobs'[q].result : jobs'[q].result[u] = "duplicate" => InUse(u)
            /\ jobs'[q].anyway => \A n \in DOMAIN jobs'[q].todo : InUse(jobs'[q].todo[n])
        <4>1. CASE jobs'[q] = jobs[q]
          BY <1>0, <4>1 DEF Boxes
        <4>2. CASE jobs'[q] = Bulk!Idle
          BY <1>3, <4>2
        <4>3. CASE Fresh(jobs'[q])
          BY <4>3 DEF Fresh
        <4> QED
          BY <4>1, <4>2, <4>3
      <3> QED
        BY <3>1 DEF InUse, NumberOf
    <2>4. (\A k \in DOMAIN docs : docs[k].anyway => \E m \in 1 .. k - 1 : Bulk!SameNumber(k, m))'
      BY <1>0 DEF Boxes, Bulk!SameNumber, Bulk!FileName
    <2> QED
      BY <2>1, <2>2, <2>3, <2>4 DEF Boxes
  <1>9. Once'
    <2>1. FilesOnce' /\ NumbersOnce'
      BY <1>0, <1>2 DEF Once, FilesOnce, NumbersOnce
    <2>2. ASSUME NEW q \in Requests PROVE LookedFor(jobs[q])'
      <3>1. LookedFor(jobs'[q])
        BY <1>0, <1>3 DEF Once, LookedFor, Fresh
      <3> QED
        BY <3>1 DEF LookedFor, ContentOf, NumberOf
    <2> QED
      BY <2>1, <2>2 DEF Once
  <1>10. Truth'
    <2>1. (\A i \in DOMAIN table : table[i].state = "registered" => Registers(table[i].tmp, type))'
      BY DEF Registers
    <2>2. ASSUME NEW q \in Requests
          PROVE  (\A u \in DOMAIN jobs[q].result : jobs[q].result[u] = "registered" => Registers(u, jobs[q].type))'
      <3>1. \A u \in DOMAIN jobs'[q].result : jobs'[q].result[u] = "registered" => Registers(u, jobs'[q].type)
        BY <1>0, <1>3 DEF Truth, Fresh
      <3> QED
        BY <3>1 DEF Registers
    <2>3. \A k \in DOMAIN docs, i \in DOMAIN table : docs[k].file /\ docs[k].tmp = table'[i].tmp
              => table'[i].state = "registered" \/ table'[i].tmp \in untold'
      OBVIOUS
    <2> QED
      BY <2>1, <2>2, <2>3 DEF Truth
  <1> QED
    BY <1>5, <1>6, <1>7, <1>8, <1>9, <1>10 DEF BulkInv

(* An answer, or that there is none, is shown and the ticked rows are sent. *)
LEMMA Hearing ==
    ASSUME BulkInv, busy # None, NEW result, DOMAIN result = DOMAIN jobs[busy].result,
           \A u \in DOMAIN result : /\ result[u] \in {"registered", "duplicate", "refused", "failed"}
                                    /\ result[u] = "duplicate" => InUse(u)
                                    /\ result[u] = "registered" => Registers(u, type)
                                    /\ Answers(u) => result[u] = "registered" \/ u \in untold',
           NEW free, free = [q \in Requests |-> free[q]],
           \A q \in Requests : free[q] = Bulk!Idle \/ (free[q] = jobs[q] /\ (q = busy => /\ jobs[q].at # "done"
                                                                                       /\ DOMAIN jobs[q].result \subseteq untold')),
           Bulk!Answered(result, free), untold \subseteq untold'
    PROVE  BulkInv'
  <1> DEFINE New(i) == IF table[i].tmp \notin DOMAIN result THEN table[i]
                       ELSE [table[i] EXCEPT !.state = result[table[i].tmp],
                                             !.allow = table[i].allow /\ result[table[i].tmp] # "duplicate"]
  <1>0. BulkTyped /\ RowsFit /\ (\A q \in Requests : Sends(jobs[q])) /\ Waits /\ Boxes /\ Truth
    BY DEF BulkInv
  <1>1. None \notin Requests /\ busy \in Requests
    BY <1>0, Instances DEF Bulk!FilesAssumption, BulkTyped
  <1>2. docs' = docs /\ tmps' = tmps /\ type' = type /\ picking' = picking /\ later' = << >> /\ DOMAIN later' = {}
    <2>1. docs' = docs /\ tmps' = tmps /\ type' = type /\ picking' = picking /\ later' = << >>
      BY DEF Bulk!Answered
    <2> QED
      BY <2>1
  <1>3. table' = [i \in DOMAIN table |-> New(i)]
    BY DEF Bulk!Answered
  <1>4. /\ Len(table) \in Nat /\ DOMAIN table = 1 .. Len(table)
        /\ \A i \in DOMAIN table : table[i] \in DialogRows /\ table[i].tmp \in Ups
    BY <1>0, BulkFacts DEF BulkTyped
  <1>5. \A i \in DOMAIN table : /\ New(i) \in DialogRows /\ New(i).tmp = table[i].tmp
                                /\ New(i).state = IF table[i].tmp \in DOMAIN result THEN result[table[i].tmp] ELSE table[i].state
    <2>1. TAKE i \in DOMAIN table
    <2>2. table[i] \in [tmp : Nat, state : States, allow : BOOLEAN]
      BY <1>4 DEF DialogRows
    <2>3. CASE table[i].tmp \notin DOMAIN result
      BY <1>4, <2>3
    <2>4. CASE table[i].tmp \in DOMAIN result
      <3>1. result[table[i].tmp] \in States
        BY <2>4 DEF States
      <3> QED
        BY <2>2, <2>4, <3>1 DEF DialogRows
    <2> QED
      BY <2>3, <2>4
  <1> HIDE DEF New
  <1>6. /\ table' \in Seq(DialogRows) /\ DOMAIN table' = DOMAIN table
        /\ \A i \in DOMAIN table : /\ table'[i].tmp = table[i].tmp
                                   /\ table'[i].state = IF table[i].tmp \in DOMAIN result THEN result[table[i].tmp] ELSE table[i].state
    <2>1. table' \in [1 .. Len(table) -> DialogRows]
      BY <1>3, <1>4, <1>5
    <2> QED
      BY <1>3, <1>4, <1>5, <2>1
  <1>7. \A i \in DOMAIN table : table[i].tmp \in DOMAIN result => table[i].state = "registering"
    BY <1>0 DEF Waits, InAnswer
  <1>8. \A i \in DOMAIN table : /\ table'[i].state = "ready" => table[i].state = "ready"
                                /\ table'[i].state = "duplicate" => InUse(table[i].tmp)
                                /\ table'[i].state = "registered" => Registers(table[i].tmp, type)
    BY <1>0, <1>6 DEF Boxes, Truth
  <1>9. ASSUME NEW k \in DOMAIN docs, NEW i \in DOMAIN table, docs[k].file, docs[k].tmp = table[i].tmp
        PROVE  table'[i].state = "registered" \/ table[i].tmp \in untold'
    <2>1. table[i].state = "registered" \/ table[i].tmp \in untold \/ Answers(table[i].tmp)
      BY <1>0, <1>9 DEF Truth
    <2>2. CASE table[i].tmp \in DOMAIN result
      BY <1>6, <1>7, <2>1, <2>2
    <2>3. CASE table[i].tmp \notin DOMAIN result
      BY <1>6, <2>1, <2>3 DEF Answers, InAnswer
    <2> QED
      BY <2>2, <2>3
  <1>10. \A q \in Requests : q # busy => free[q].at # "done" /\ DOMAIN free[q].result \subseteq untold'
    BY <1>0 DEF Waits, Bulk!Idle
  <1>11. free[busy].at # "done" /\ DOMAIN free[busy].result \subseteq untold'
    BY <1>1 DEF Bulk!Idle
  <1>12. \A i \in DOMAIN table : table'[i].state = "registering" <=> InLater(table[i].tmp)
    <2>1. TAKE i \in DOMAIN table
    <2>2. table[i].state = "registering" <=> InAnswer(table[i].tmp) \/ InLater(table[i].tmp)
      BY <1>0 DEF Waits
    <2>3. InAnswer(table[i].tmp) <=> table[i].tmp \in DOMAIN result
      BY DEF InAnswer
    <2>4. InAnswer(table[i].tmp) => ~InLater(table[i].tmp)
      BY <1>0 DEF Waits, InLater
    <2> QED
      BY <1>6, <2>2, <2>3, <2>4
  <1>13. CASE later = << >>
    <2>1. busy' = None /\ jobs' = free
      BY <1>13 DEF Bulk!Answered
    <2>2. \A i \in DOMAIN table : table'[i].state # "registering"
      BY <1>12, <1>13 DEF InLater
    <2>3. \A q \in Requests : jobs'[q] = jobs[q] \/ jobs'[q] = Bulk!Idle
      BY <2>1
    <2>4. Waits'
      BY <1>1, <1>2, <1>6, <1>10, <1>11, <2>1, <2>2 DEF Waits, InAnswer, InLater
    <2>5. jobs' = [q \in Requests |-> jobs'[q]] /\ later' \in Seq(Nat)
      BY <1>2, <2>1, EmptySeq
    <2> QED
      BY <1>2, <1>6, <1>8, <1>9, <2>1, <2>3, <2>4, <2>5, DialogTurns
  <1>14. CASE later # << >>
    <2>1. PICK r \in Requests : /\ free[r].at = "idle" /\ busy' = r
                                /\ jobs' = [free EXCEPT ![r] = Bulk!Request(later, TRUE)]
      BY <1>14 DEF Bulk!Answered
    <2>2. type \in ScanTypes
      BY <1>0, <1>1 DEF Waits, Sends
    <2>3. /\ later \in Seq(Nat) /\ (\A n \in DOMAIN later : later[n] \in Ups /\ InUse(later[n]))
          /\ \A m, n \in DOMAIN later : later[m] = later[n] => m = n
      BY <1>0 DEF BulkTyped, Waits, Boxes
    <2> DEFINE j == Bulk!Request(later, TRUE)
    <2>4. Fresh(j) /\ \A u : u \in DOMAIN j.result <=> InLater(u)
      BY <1>14, <2>2, <2>3, RequestIsFresh DEF InLater
    <2> HIDE DEF j
    <2>5. jobs'[r] = j /\ (\A q \in Requests \ {r} : jobs'[q] = free[q]) /\ jobs' = [q \in Requests |-> jobs'[q]]
      BY <2>1 DEF j
    <2>6. \A q \in Requests : jobs'[q] = jobs[q] \/ jobs'[q] = Bulk!Idle \/ Fresh(jobs'[q])
      BY <2>4, <2>5
    <2>7. \A q \in Requests : q # r => jobs'[q].at # "done" /\ DOMAIN jobs'[q].result \subseteq untold'
      BY <1>10, <1>11, <2>5
    <2>8. \A i \in DOMAIN table' : table'[i].state = "registering" <=> table'[i].tmp \in DOMAIN j.result
      BY <1>6, <1>12, <2>4
    <2>9. Waits'
      BY <1>1, <1>2, <2>1, <2>4, <2>5, <2>7, <2>8 DEF Waits, InAnswer, InLater, Fresh
    <2>10. later' \in Seq(Nat)
      BY <1>2, EmptySeq
    <2> QED
      BY <1>2, <1>6, <1>8, <1>9, <2>1, <2>5, <2>6, <2>9, <2>10, DialogTurns
  <1> QED
    BY <1>13, <1>14

(* The answer arrives. *)
LEMMA Confirming ==
    ASSUME BulkInv, Bulk!confirm
    PROVE  BulkInv'
  <1> DEFINE result == jobs[busy].result
             free == [jobs EXCEPT ![busy] = Bulk!Idle]
  <1>0. BulkTyped /\ (\A q \in Requests : Sends(jobs[q])) /\ Waits /\ Boxes /\ Truth /\ busy \in Requests /\ busy # None
    BY DEF BulkInv, BulkTyped, Bulk!confirm
  <1>1. jobs[busy].at = "done" /\ Bulk!Answered(result, free) /\ untold' = untold
    BY DEF Bulk!confirm
  <1>2. free = [q \in Requests |-> free[q]] /\ \A q \in Requests : free[q] = Bulk!Idle \/ (free[q] = jobs[q] /\ q # busy)
    BY <1>0 DEF BulkTyped
  <1>3. BulkJob(jobs[busy]) /\ Sends(jobs[busy]) /\ jobs[busy].type = type
    BY <1>0 DEF BulkTyped, Waits
  <1>4. \A u \in DOMAIN result : result[u] \in {"registered", "duplicate", "refused", "failed"}
    <2>1. \A u \in DOMAIN result : result[u] \in Bulk!Results
      BY <1>3 DEF BulkJob
    <2>2. \A u \in DOMAIN result : result[u] # "sent"
      BY <1>1, <1>3 DEF Sends, AtWork
    <2> QED
      BY <2>1, <2>2 DEF Bulk!Results
  <1>5. \A u \in DOMAIN result : /\ result[u] = "duplicate" => InUse(u)
                                 /\ result[u] = "registered" => Registers(u, type)
                                 /\ Answers(u) => result[u] = "registered"
    BY <1>0, <1>3 DEF Boxes, Truth, Answers
  <1> HIDE DEF result, free
  <1>6. DOMAIN result = DOMAIN jobs[busy].result
    BY DEF result
  <1> QED
    BY <1>0, <1>1, <1>2, <1>4, <1>5, <1>6, Hearing

(* The dialog stops waiting, and the server may be at work still. *)
LEMMA GivingUp ==
    ASSUME BulkInv, Bulk!GiveUp
    PROVE  BulkInv'
  <1> DEFINE result == [u \in DOMAIN jobs[busy].result |-> "failed"]
             free == IF jobs[busy].at = "done" THEN [jobs EXCEPT ![busy] = Bulk!Idle] ELSE jobs
  <1>0. jobs = [q \in Requests |-> jobs[q]] /\ busy # None
    BY DEF BulkInv, BulkTyped, Bulk!GiveUp
  <1>1. Bulk!Answered(result, free) /\ untold' = untold \cup DOMAIN jobs[busy].result
    BY DEF Bulk!GiveUp
  <1>2. free = [q \in Requests |-> free[q]]
    BY <1>0
  <1>3. \A q \in Requests : free[q] = Bulk!Idle \/ (free[q] = jobs[q] /\ (q = busy => /\ jobs[q].at # "done"
                                                                                    /\ DOMAIN jobs[q].result \subseteq untold'))
    BY <1>0, <1>1
  <1>4. DOMAIN result = DOMAIN jobs[busy].result /\ \A u \in DOMAIN result : result[u] = "failed" /\ u \in untold'
    BY <1>1
  <1> HIDE DEF result, free
  <1> QED
    BY <1>0, <1>1, <1>2, <1>3, <1>4, Hearing

(* The rows that can go are sent, the ticked ones after the others. *)
LEMMA Submitting ==
    ASSUME BulkInv, Bulk!submit
    PROVE  BulkInv'
  <1> DEFINE misnamed(row) == Bulk!Pending(row) /\ Named[Bulk!Name(row)] \notin {None, type}
             plain == {i \in DOMAIN table : Bulk!Pending(table[i]) /\ table[i].state # "duplicate" /\ ~misnamed(table[i])}
             boxed == {i \in DOMAIN table : table[i].state = "duplicate" /\ table[i].allow /\ ~misnamed(table[i])}
             normal == Bulk!TmpNames(plain)
             ticked == Bulk!TmpNames(boxed)
             sent == Bulk!ToSet(normal) \cup Bulk!ToSet(ticked)
             New(i) == IF table[i].tmp \in sent THEN [table[i] EXCEPT !.state = "registering"]
                       ELSE IF misnamed(table[i]) THEN [table[i] EXCEPT !.state = "failed"] ELSE table[i]
  <1>0. BulkTyped /\ RowsFit /\ (\A q \in Requests : Sends(jobs[q])) /\ Waits /\ Boxes /\ Truth
    BY DEF BulkInv
  <1>1. /\ busy = None /\ type \in ScanTypes /\ later = << >>
        /\ docs' = docs /\ tmps' = tmps /\ type' = type /\ picking' = picking /\ untold' = untold
    BY <1>0 DEF Bulk!submit, BulkTyped, Waits
  <1>2. table' = [i \in DOMAIN table |-> New(i)]
    BY DEF Bulk!submit
  <1>3. IF sent = {} THEN busy' = busy /\ later' = later /\ jobs' = jobs
        ELSE \E r \in Requests :
                 /\ jobs[r].at = "idle" /\ busy' = r
                 /\ jobs' = [jobs EXCEPT ![r] = IF normal = << >> THEN Bulk!Request(ticked, TRUE) ELSE Bulk!Request(normal, FALSE)]
                 /\ later' = IF normal = << >> THEN << >> ELSE ticked
    BY DEF Bulk!submit
  <1>4. /\ Len(table) \in Nat /\ DOMAIN table = 1 .. Len(table)
        /\ \A i \in DOMAIN table : table[i] \in DialogRows /\ table[i].tmp \in Ups
        /\ \A i, j \in DOMAIN table : table[i].tmp = table[j].tmp => i = j
    BY <1>0, BulkFacts DEF BulkTyped, RowsFit
  <1>5. plain \subseteq DOMAIN table /\ boxed \subseteq DOMAIN table
    OBVIOUS
  <1>6. /\ \A i \in plain : table[i].state \in {"ready", "failed"}
        /\ \A i \in boxed : table[i].state = "duplicate"
    BY DEF Bulk!Pending
  <1>7. \A i \in DOMAIN table : misnamed(table[i]) => table[i].state \in {"ready", "duplicate", "failed"}
    BY DEF Bulk!Pending
  <1> HIDE DEF plain, boxed, misnamed
  <1>8. /\ normal \in Seq(Nat) /\ \A n \in DOMAIN normal : \E i \in plain : normal[n] = table[i].tmp
        /\ \A m, n \in DOMAIN normal : normal[m] = normal[n] => m = n
    BY <1>0, <1>4, <1>5, UploadsInOrder
  <1>9. /\ ticked \in Seq(Nat) /\ \A n \in DOMAIN ticked : \E i \in boxed : ticked[n] = table[i].tmp
        /\ \A m, n \in DOMAIN ticked : ticked[m] = ticked[n] => m = n
    BY <1>0, <1>4, <1>5, UploadsInOrder
  <1> HIDE DEF normal, ticked
  <1>10. /\ \A n \in DOMAIN normal : normal[n] \in Ups
         /\ \A n \in DOMAIN ticked : ticked[n] \in Ups /\ InUse(ticked[n])
    <2>1. \A n \in DOMAIN normal : normal[n] \in Ups
      BY <1>4, <1>5, <1>8
    <2>2. \A i \in boxed : InUse(table[i].tmp) /\ table[i].tmp \in Ups
      BY <1>0, <1>4, <1>5, <1>6 DEF Boxes
    <2>3. \A n \in DOMAIN ticked : ticked[n] \in Ups /\ InUse(ticked[n])
      BY <1>9, <2>2
    <2> QED
      BY <2>1, <2>3
  <1>11. \A m \in DOMAIN normal, n \in DOMAIN ticked : normal[m] # ticked[n]
    <2>1. TAKE m \in DOMAIN normal, n \in DOMAIN ticked
    <2>2. PICK i \in plain : normal[m] = table[i].tmp
      BY <1>8
    <2>3. PICK k \in boxed : ticked[n] = table[k].tmp
      BY <1>9
    <2>4. i # k /\ i \in DOMAIN table /\ k \in DOMAIN table
      BY <1>5, <1>6
    <2> QED
      BY <1>4, <2>2, <2>3, <2>4
  <1>12. \A u : u \in sent <=> (\E n \in DOMAIN normal : normal[n] = u) \/ (\E n \in DOMAIN ticked : ticked[n] = u)
    BY DEF Bulk!ToSet
  <1>13. \A i \in DOMAIN table : table[i].tmp \in sent => table[i].state \in {"ready", "duplicate", "failed"}
    <2>1. TAKE i \in DOMAIN table
    <2>2. HAVE table[i].tmp \in sent
    <2>3. PICK j \in plain \cup boxed : table[i].tmp = table[j].tmp
      <3>1. CASE \E n \in DOMAIN normal : normal[n] = table[i].tmp
        BY <1>8, <3>1
      <3>2. CASE \E n \in DOMAIN ticked : ticked[n] = table[i].tmp
        BY <1>9, <3>2
      <3> QED
        BY <1>12, <2>2, <3>1, <3>2
    <2>4. j = i
      BY <1>4, <1>5, <2>3
    <2> QED
      BY <1>6, <2>3, <2>4
  <1> HIDE DEF sent
  <1>14. \A i \in DOMAIN table :
             /\ New(i) \in DialogRows /\ New(i).tmp = table[i].tmp
             /\ New(i).state = IF table[i].tmp \in sent THEN "registering"
                               ELSE IF misnamed(table[i]) THEN "failed" ELSE table[i].state
    <2>1. TAKE i \in DOMAIN table
    <2>2. table[i] \in [tmp : Nat, state : States, allow : BOOLEAN] /\ {"registering", "failed"} \subseteq States
      BY <1>4 DEF DialogRows, States
    <2> QED
      BY <2>2 DEF DialogRows
  <1> HIDE DEF New
  <1>15. /\ table' \in Seq(DialogRows) /\ DOMAIN table' = DOMAIN table
         /\ \A i \in DOMAIN table :
                /\ table'[i].tmp = table[i].tmp
                /\ table'[i].state = IF table[i].tmp \in sent THEN "registering"
                                     ELSE IF misnamed(table[i]) THEN "failed" ELSE table[i].state
    <2>1. table' \in [1 .. Len(table) -> DialogRows]
      BY <1>2, <1>4, <1>14
    <2> QED
      BY <1>2, <1>4, <1>14, <2>1
  <1>16. \A i \in DOMAIN table : /\ table'[i].state = "ready" => table[i].state = "ready"
                                 /\ table'[i].state = "duplicate" => InUse(table[i].tmp)
                                 /\ table'[i].state = "registered" => Registers(table[i].tmp, type)
    BY <1>0, <1>15 DEF Boxes, Truth
  <1>17. ASSUME NEW k \in DOMAIN docs, NEW i \in DOMAIN table, docs[k].file, docs[k].tmp = table[i].tmp
         PROVE  table'[i].state = "registered" \/ table[i].tmp \in untold'
    <2>1. table[i].state = "registered" \/ table[i].tmp \in untold
      BY <1>0, <1>1, <1>17 DEF Truth, Answers, InAnswer
    <2> QED
      BY <1>1, <1>7, <1>13, <1>15, <2>1
  <1>18. \A i \in DOMAIN table : table'[i].state = "registering" <=> table[i].tmp \in sent
    <2>1. \A i \in DOMAIN table : table[i].state # "registering"
      BY <1>0, <1>1 DEF Waits, InAnswer, InLater
    <2> QED
      BY <1>15, <2>1
  <1>19. jobs = [q \in Requests |-> jobs[q]] /\ None \notin Requests
    BY <1>0, Instances DEF BulkTyped, Bulk!FilesAssumption
  <1>20. \A q \in Requests : jobs[q].at # "done" /\ DOMAIN jobs[q].result \subseteq untold
    BY <1>0, <1>1, <1>19 DEF Waits
  <1>21. CASE sent = {}
    <2>1. busy' = None /\ later' = << >> /\ jobs' = jobs /\ DOMAIN later' = {}
      BY <1>1, <1>3, <1>21
    <2>2. Waits'
      BY <1>1, <1>15, <1>18, <1>20, <1>21, <2>1 DEF Waits, InAnswer, InLater
    <2>3. later' \in Seq(Nat)
      BY <2>1, EmptySeq
    <2> QED
      BY <1>1, <1>15, <1>16, <1>17, <1>19, <2>1, <2>2, <2>3, DialogTurns
  <1>22. CASE sent # {}
    <2>1. PICK r \in Requests :
              /\ jobs[r].at = "idle" /\ busy' = r
              /\ jobs' = [jobs EXCEPT ![r] = IF normal = << >> THEN Bulk!Request(ticked, TRUE) ELSE Bulk!Request(normal, FALSE)]
              /\ later' = IF normal = << >> THEN << >> ELSE ticked
      BY <1>3, <1>22
    <2>2. normal = << >> => ticked # << >>
      BY <1>12, <1>22
    <2> DEFINE list == IF normal = << >> THEN ticked ELSE normal
               anyway == normal = << >>
               j == Bulk!Request(list, anyway)
    <2>3. Fresh(j) /\ \A u : u \in DOMAIN j.result <=> \E n \in DOMAIN list : list[n] = u
      <3>1. /\ list \in Seq(Nat) /\ list # << >> /\ (\A n \in DOMAIN list : list[n] \in Ups)
            /\ \A m, n \in DOMAIN list : list[m] = list[n] => m = n
        BY <1>8, <1>9, <1>10, <2>2
      <3>2. anyway \in BOOLEAN /\ (anyway => \A n \in DOMAIN list : InUse(list[n]))
        BY <1>10
      <3> HIDE DEF list, anyway
      <3> QED
        BY <1>1, <3>1, <3>2, RequestIsFresh
    <2>4. jobs' = [jobs EXCEPT ![r] = j]
      BY <2>1
    <2> HIDE DEF j
    <2>5. jobs'[r] = j /\ (\A q \in Requests \ {r} : jobs'[q] = jobs[q]) /\ jobs' = [q \in Requests |-> jobs'[q]]
      BY <1>19, <2>4
    <2>6. /\ later' \in Seq(Nat) /\ (\A n \in DOMAIN later' : later'[n] \in Ups /\ InUse(later'[n]))
          /\ \A m, n \in DOMAIN later' : later'[m] = later'[n] => m = n
      BY <1>9, <1>10, <2>1, EmptySeq
    <2>7. \A u : u \in sent <=> u \in DOMAIN j.result \/ \E n \in DOMAIN later' : later'[n] = u
      <3>1. DOMAIN << >> = {}
        OBVIOUS
      <3> QED
        BY <1>12, <2>1, <2>3, <3>1
    <2>8. \A n \in DOMAIN later' : later'[n] \notin DOMAIN j.result
      BY <1>11, <2>1, <2>3
    <2>9. \A q \in Requests : jobs'[q] = jobs[q] \/ Fresh(jobs'[q])
      BY <2>3, <2>5
    <2>10. Waits'
      <3>1. \A u : InAnswer(u)' <=> u \in DOMAIN j.result
        BY <1>19, <2>1, <2>5 DEF InAnswer
      <3>2. \A i \in DOMAIN table' : table'[i].state = "registering" <=>
                table'[i].tmp \in DOMAIN j.result \/ \E n \in DOMAIN later' : later'[n] = table'[i].tmp
        BY <1>15, <1>18, <2>7
      <3>3. busy' # None /\ jobs'[busy'].at # "idle" /\ jobs'[busy'].type = type'
        BY <1>1, <1>19, <2>1, <2>3, <2>5 DEF Fresh
      <3>4. \A q \in Requests : q # busy' => jobs'[q].at # "done" /\ DOMAIN jobs'[q].result \subseteq untold'
        BY <1>1, <1>20, <2>1, <2>5
      <3> QED
        BY <2>1, <2>5, <2>6, <2>8, <3>2, <3>3, <3>4 DEF Waits, InAnswer, InLater
    <2> QED
      BY <1>1, <1>15, <1>16, <1>17, <2>1, <2>5, <2>6, <2>9, <2>10, DialogTurns
  <1> QED
    BY <1>21, <1>22

-----------------------------------------------------------------------------
(* Several documents registered at once, whatever is done in the dialog    *)
(* meanwhile and however the requests overlap                              *)

(* The dialog opens with nothing chosen. *)
LEMMA BulkInit == Bulk!Init => BulkInv
  <1> SUFFICES ASSUME Bulk!Init PROVE BulkInv
    OBVIOUS
  <1>1. /\ tmps = << >> /\ table = << >> /\ type = None /\ picking = [c \in OneRequest |-> {}]
        /\ busy = None /\ later = << >> /\ jobs = [r \in Requests |-> Bulk!Idle] /\ docs = << >> /\ untold = {}
    BY DEF Bulk!Init
  <1>2. DOMAIN tmps = {} /\ DOMAIN table = {} /\ DOMAIN later = {} /\ DOMAIN docs = {} /\ Ups = {}
    BY <1>1, EmptySeq DEF Ups
  <1>3. None \notin Requests
    BY Instances DEF Bulk!FilesAssumption
  <1>4. /\ Bulk!Idle.at = "idle" /\ Bulk!Idle.todo = << >> /\ ~Bulk!Idle.anyway /\ DOMAIN Bulk!Idle.result = {}
        /\ DOMAIN Bulk!Idle.todo = {} /\ BulkJob(Bulk!Idle)
    BY EmptySeq DEF Bulk!Idle, BulkJob, Ats
  <1>5. \A r \in Requests : jobs[r] = Bulk!Idle
    BY <1>1
  <1>6. BulkTyped
    BY <1>1, <1>2, <1>4, <1>5, EmptySeq DEF BulkTyped
  <1>7. RowsFit
    BY <1>2 DEF RowsFit
  <1>8. \A r \in Requests : Sends(jobs[r])
    BY <1>4, <1>5 DEF Sends, AtWork
  <1>9. Waits
    BY <1>1, <1>2, <1>4, <1>5 DEF Waits, InAnswer, InLater
  <1>10. Boxes
    BY <1>2, <1>4, <1>5 DEF Boxes
  <1>11. Once
    BY <1>2, <1>4, <1>5 DEF Once, FilesOnce, NumbersOnce, LookedFor
  <1>12. Truth
    BY <1>2, <1>4, <1>5 DEF Truth
  <1> QED
    BY <1>6, <1>7, <1>8, <1>9, <1>10, <1>11, <1>12 DEF BulkInv

(* Every step keeps the invariant. *)
LEMMA BulkNext == BulkInv /\ [Bulk!Next]_Bulk!vars => BulkInv'
  <1> SUFFICES ASSUME BulkInv, [Bulk!Next]_Bulk!vars PROVE BulkInv'
    OBVIOUS
  <1>1. ASSUME NEW c \in OneRequest, \/ \E some \in SUBSET Scans : Bulk!picked(c, some)
                                     \/ Bulk!create_tmp_uploads(c) \/ Bulk!PickFails(c)
        PROVE  BulkInv'
    BY <1>1, Picking, Listing
  <1>2. ASSUME NEW u \in DOMAIN tmps, Bulk!upload_tmp_file(u) \/ Bulk!on_progress(u) \/ Bulk!cleanup_temp_uploads(u)
        PROVE  BulkInv'
    BY <1>2, UploadEnds, Telling
  <1>3. ASSUME NEW i \in DOMAIN table, Bulk!remove(i) \/ Bulk!toggle(i) PROVE BulkInv'
    BY <1>3, Removing, Ticking
  <1>4. ASSUME NEW t \in ScanTypes, Bulk!ChooseType(t) PROVE BulkInv'
    BY <1>4, Choosing
  <1>5. CASE Bulk!submit \/ Bulk!confirm \/ Bulk!GiveUp
    BY <1>5, Submitting, Confirming, GivingUp
  <1>6. ASSUME NEW r \in Requests, Bulk!Serve(r) \/ Bulk!ServerStops(r) PROVE BulkInv'
    BY <1>6, Checking, RegisteringOne, AttachingOne, Failing, Stopping DEF Bulk!Serve
  <1>7. CASE UNCHANGED Bulk!vars
    <2>1. /\ DialogStays /\ tmps' = tmps /\ jobs' = jobs /\ docs' = docs /\ untold' = untold
      BY <1>7 DEF Bulk!vars, DialogStays
    <2>2. BulkTyped /\ RowsFit
      BY DEF BulkInv
    <2>3. BulkTyped' /\ RowsFit' /\ NamesStay
      BY <2>1, <2>2 DEF BulkTyped, RowsFit, NamesStay, Ups, DialogStays
    <2> QED
      BY <2>1, <2>3, RowsAsTheyWere, DialogStep DEF DialogStays
  <1> QED
    BY <1>1, <1>2, <1>3, <1>4, <1>5, <1>6, <1>7 DEF Bulk!Next

(* The invariant says what the dialog and the server promise. *)
LEMMA AskedFor == BulkInv => Bulk!RegisteredAsAsked
  <1> SUFFICES ASSUME BulkInv PROVE Bulk!RegisteredAsAsked
    OBVIOUS
  <1>1. FilesOnce /\ NumbersOnce /\ Boxes /\ BulkTyped
    BY DEF BulkInv, Once
  <1>2. \A k \in DOMAIN docs : k \in Nat
    BY <1>1, BulkFacts
  <1>3. \A k, m \in DOMAIN docs : m < k /\ docs[k].alone /\ docs[m].alone =>
            /\ Scanned[Bulk!FileName(k)] = Scanned[Bulk!FileName(m)] => ~docs[k].file \/ ~docs[m].file
            /\ Bulk!SameNumber(k, m) /\ docs[k].type = docs[m].type => docs[k].anyway
    <2>1. TAKE k, m \in DOMAIN docs
    <2>2. HAVE m < k /\ docs[k].alone /\ docs[m].alone
    <2>3. m # k
      BY <1>2, <2>2
    <2>4. Scanned[Bulk!FileName(k)] = Scanned[Bulk!FileName(m)] => ~docs[k].file \/ ~docs[m].file
      BY <1>1, <2>2, <2>3 DEF FilesOnce, ContentOf, Bulk!FileName
    <2>5. Bulk!SameNumber(k, m) /\ docs[k].type = docs[m].type => docs[k].anyway
      BY <1>1, <2>2 DEF NumbersOnce
    <2> QED
      BY <2>4, <2>5
  <1> QED
    BY <1>1, <1>3 DEF Boxes, Bulk!RegisteredAsAsked

(* And what its rows say. *)
LEMMA RowsTell == BulkInv => Bulk!RowsTellTruth
  <1> SUFFICES ASSUME BulkInv, busy = None, NEW i \in DOMAIN table
               PROVE  LET u == table[i].tmp
                          Done(k) == docs[k].tmp = u /\ docs[k].file IN
                      /\ Bulk!Registered(table[i]) => \E k \in DOMAIN docs : Done(k) /\ docs[k].type = type
                      /\ (\E k \in DOMAIN docs : Done(k)) => Bulk!Registered(table[i]) \/ u \in untold
                      /\ table[i].state = "ready" /\ tmps[u].at \in {"coming", "lost"}
                             => \E v \in DOMAIN tmps \ {u} : tmps[v].name = tmps[u].name
    BY DEF Bulk!RowsTellTruth
  <1>1. Truth /\ RowsFit /\ BulkTyped
    BY DEF BulkInv
  <1>2. table[i].state = "registered" => \E k \in DOMAIN docs : docs[k].tmp = table[i].tmp /\ docs[k].file /\ docs[k].type = type
    BY <1>1 DEF Truth, Registers
  <1>3. \A k \in DOMAIN docs : docs[k].tmp = table[i].tmp /\ docs[k].file => table[i].state = "registered" \/ table[i].tmp \in untold
    BY <1>1 DEF Truth, Answers, InAnswer
  <1>4. table[i].state = "ready" /\ tmps[table[i].tmp].at \in {"coming", "lost"}
            => \E v \in DOMAIN tmps \ {table[i].tmp} : tmps[v].name = tmps[table[i].tmp].name
    BY <1>1, BulkFacts DEF RowsFit
  <1> QED
    BY <1>2, <1>3, <1>4 DEF Bulk!Registered

(* Both hold of the dialog and its server by themselves, for any number of *)
(* files, uploads and requests: what makes them true is not that the run   *)
(* bounds anything.                                                        *)
THEOREM SeveralRegistered == Bulk!Spec => [](Bulk!RegisteredAsAsked /\ Bulk!RowsTellTruth)
  <1>1. BulkInv => Bulk!RegisteredAsAsked /\ Bulk!RowsTellTruth
    BY AskedFor, RowsTell
  <1> QED
    BY <1>1, BulkInit, BulkNext, PTL DEF Bulk!Spec

(* The parts of the run that register several take steps of Bulk. *)
PartsBulk == part \in {"overlap", "typed"} => BulkInv

(* They start as Bulk does. *)
LEMMA BulkAtFirst == PartsInit => PartsBulk
  BY BulkInit DEF PartsInit, PartsBulk

(* They go on as Bulk does, or rest. *)
LEMMA BulkKept == PartsBulk /\ [PartsNext]_parts => PartsBulk'
  <1> SUFFICES ASSUME PartsBulk, [PartsNext]_parts, part' \in {"overlap", "typed"} PROVE BulkInv'
    BY DEF PartsBulk
  <1>1. part' = part /\ BulkInv
    BY DEF PartsBulk, PartsNext, parts
  <1>2. Bulk!Next \/ UNCHANGED parts
    BY <1>1 DEF PartsNext
  <1>3. UNCHANGED parts => UNCHANGED Bulk!vars
    BY DEF parts, dialogVars, Bulk!vars
  <1> QED
    BY <1>1, <1>2, <1>3, BulkNext

(* Whatever is uploaded, registered and given up at once, by any number of *)
(* requests: a file or number that is there twice was asked for, or        *)
(* registered by requests that overlapped (documents.py                    *)
(* confirm_bulk_register_tmp, registration.py submit).                     *)
THEOREM SeveralAsAsked == PartsSpec => []RegisteredAsAsked
  <1>1. PartsInit => PartsBulk
    BY BulkAtFirst
  <1>2. PartsBulk /\ [PartsNext]_parts => PartsBulk'
    BY BulkKept
  <1>3. PartsBulk => RegisteredAsAsked
    BY AskedFor DEF PartsBulk, RegisteredAsAsked
  <1> QED
    BY <1>1, <1>2, <1>3, PTL DEF PartsSpec

(* When the dialog waits for nothing, its rows say what the server did,    *)
(* unless that could not be told (registration.py confirm, on_progress).   *)
THEOREM RowsSayTruly == PartsSpec => []RowsTellTruth
  <1>1. PartsInit => PartsBulk
    BY BulkAtFirst
  <1>2. PartsBulk /\ [PartsNext]_parts => PartsBulk'
    BY BulkKept
  <1>3. PartsBulk => RowsTellTruth
    BY RowsTell DEF PartsBulk, RowsTellTruth
  <1> QED
    BY <1>1, <1>2, <1>3, PTL DEF PartsSpec
=============================================================================
