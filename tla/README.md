# Verification of the Sangguniang Bayan records system

The program is a document tracking and legislative records system for a municipal council: a FastAPI back end
(`src/Backends/backend`) over PostgreSQL, with Flet front ends. This directory holds TLA+ models of its core
logic, the TLC configurations that check them on small instances, and TLAPS proofs of what holds on every instance.

Line numbers refer to `src/`; `documents.py`, `measure_stages.py` and so on are files of
`src/Backends/backend/routes` unless another directory is named.

## How the program runs, and how the models see it

FastAPI runs each handler on a worker thread with its own SQLAlchemy session (`database.py:28-37`): `autocommit`
and `autoflush` off, PostgreSQL's default READ COMMITTED, and `db.close()` at the end, which rolls back what was
not committed. Nearly every handler has one shape: load a row, check it, assign to it, commit. Five facts decide
which interleavings matter, and every model is built on them.

- Only the handoff requests lock rows (`with_for_update`). Everywhere else a row may change between the check and
  the commit.
- The ORM keeps the row as it first loaded it for the whole request, and its UPDATE sets only the columns whose
  value differs from the loaded one. A column assigned the value it was loaded with is not written, even if another
  request has changed it since.
- An UPDATE of a row that is gone by then fails the request; a DELETE of one only warns.
- With `autoflush` off, a query does not see what the same request has assigned.
- The writes of a transaction become visible to others at its commit. So the models put the effects of a handler in
  its commit step, and earlier steps only move a request forward. But each statement takes the rows that are
  committed when it runs, not those there are at the commit: where a handler sends an UPDATE or DELETE of many rows
  before it commits, as the one that ends a user's sessions (`auth.py:83-87`), that is a step of its own.

The audit row (`core.record_audit_log`) commits by itself after the change it tells of, or takes with it what is still
pending (`change_my_password` has no other commit), or joins the handler's commit (`commit=False`). Nothing but the
lockout reads these rows, so `Logins` has the failed logins and the other models leave the rows out.

In the front end, Flet runs each click in a thread of its own; the bell that asks for notifications is one more.

## Inventory

| Part | State | Operations | Hard behaviour | What makes it correct | Module |
| --- | --- | --- | --- | --- | --- |
| Custody and handoffs (`documents.py:2651-3085`) | documents' current office and associations, handoffs, receipts, actions | send, cancel, return, receive, act | row locks in opposite orders, stale reads, repeated scans | one handoff under way, custody moves only by receipt, the trail matches | Handoffs, Custody |
| Office screens (`documents.py:1426-1802, 2492-2579, 3254-3395`) | none of their own | queue, dashboard, lists, trail, details, QR access | each asks the tables in its own way | one place for a document on every screen; nothing offered that is refused | OfficeViews |
| Archive, restore, permanent deletion (`documents.py:3421-3535`) | `archived`, the row itself, its files | archive, restore, delete | no lock; files removed before the commit | only archived documents deleted, with all that hangs on them | Handoffs, MeasureStages, Storage, Registration, Retention, Todays |
| Stages of measures (`stages.py`, `measure_stages.py`) | a document's stage and number, its history of changes | change, correct; edits retype | decisions on unlocked rows | the history is legal, unbroken, and ends at the stage; views agree | Stages, MeasureStages, MeasureViews |
| Order of business (`business.py`, `order_of_business.py`) | items and outcomes of a session | add, remove, set, clear, correct; applied when the session is held | two records of one move, requests racing with Held | outcomes and histories agree; a held session is corrected, not edited | Business, OrderOfBusiness |
| Votes (`order_of_business.py:441-519`) | votes of an item, votes of members | set, clear, correct | rows removed and added by two requests at once | a vote is one request's, and a held one only grows | Votes |
| Council sessions (`council_sessions.py`) | sessions, attendance | create, update, change status, delete, mark, correct | numbers and status read without a lock | one number per session, marks of members in office | Attendance |
| Council (`council.py`) | terms, members, committees | create, edit, end | checks across rows no constraint backs | terms don't overlap, one holder of a single seat | Council |
| Registration (`documents.py:91-918, 2086-2191`, `tracking_numbers.py`) | documents, sequences, aliases | register in three ways, retype, edit | duplicates checked without a lock; two commits | no number or file registered twice; found by every number it had | Registration |
| Registering several (`frontend/admin/registration.py:732-1053`, `documents.py:91-500`) | rows of a dialog, uploads, requests | choose, upload, remove, tick, register | events by file name, answers given up, each row of a batch fails alone | nothing registered unasked, rows say what was done, the dialog settles | BulkRegister |
| Attachments (`documents.py:3503-3649`), migration, backups' content | files and their rows | attach, replace, delete, migrate, back up, restore | file system and database not atomic | a row's file exists and is the one it names | Storage |
| Nightly backups (`backups.py`, `scripts/backup.py`) | folders, copies, a log | back up, prune, copy | failures and stops at any step | while reported operational there is a recent backup | Backups |
| Retention (`Backends/backend/retention.py`, `settings.py`) | date of archiving, extension, periods | archive, restore, extend, set periods | months of different lengths, two requests at once | extending keeps longer | Retention |
| Today's documents (`todays_documents.py`) | a list of documents per day | add, remove, reorder | positions rewritten from unlocked reads | positions are the order asked for | Todays |
| Temporary documents (`temporary_documents.py`) | entries and uploaded files | add, keep longer, delete | a file moved before its commit; midnight | an entry's file exists; one entry of a document and day | Temporary |
| Login, lockout, two-step (`auth.py`, `login_lockout.py`, `two_step.py`) | failed logins, last step, recovery codes | log in, set up, use a code, unlock | counts and codes read without a lock | a code is spent by its use; an account locks | Logins |
| Users, sessions, tokens (`auth.py`, `authentication.py`) | accounts, sessions | edit, (de)activate, delete, change and reset passwords, log in, refresh, log out, revoke | sessions ended by a statement before the commit, a login in between | no session outlives its account; who is deactivated or changes the password is out | Accounts |
| Sign-in of a workspace (`frontend/admin/app.py`) | the page's variables, the browser's storage | log in, log out, refresh, reload | lost and late answers, a click and the bell at once | one person's pages with that person's session | Workspace |
| Notifications (`notifications.py`, `frontend/admin/admin_shell.py`) | when a user last looked | list, mark seen | what is read is a time, not an item | nothing becomes read unshown | Notices, OfficeViews |
| Overview and print lists (`analytics.py`, `print_list.py`) | none | read | months, order of a history | answers at any date; dates agree | Analytics, MeasureViews |
| Offices, settings, audit log, public lookup, SB member service, startup | rows; a rate counter | edit, read | - | see *Not modelled* | - |

The parts meet in the database. A handoff, archiving, stage changes, edits, and a session becoming Held all
write the same row of `documents`; the order of business writes the histories that `measure_stages.py` writes; a
login session belongs to an account and is carried by a workspace. `PROJECT.json` lists each part with its status
and each hazard at its line.

## Modules

Custody of documents:

- **Handoffs** - the custody of one document. One action per SQL statement of each handler. `doc`, `assoc`,
  `handoffs`, `receipts`, `actions` are the tables; `pc` and `loc` are where each request is and what it has
  loaded (`loc[r].snap` is the ORM's copy of the document). Row locks are not variables: they are read off the
  program counters (`LocksDocument`, `LocksHandoff`). `DeadlockVictim` is PostgreSQL's detector; `Rollback` is a
  dropped connection at any point.
- **Custody** - what those requests promise, each taken as a whole: who holds the paper, where it is going.
- **OfficeViews** - every screen of an office as an operator over the tables of Handoffs. The queue's list of documents
  passed on stops at `PASSED_ON_LIMIT` and has no further page: `PassedOn(ahead)` is who sees the document there when so
  many others are listed before it.
- **HandoffsProofs** - the theorems about these three.

Measures and sessions:

- **Stages** - the rules of `Backends/backend/stages.py` (paths of an ordinance and a resolution, allowed moves)
  as operators.
- **MeasureStages** - the stage of one document and its history, with concurrent changes, corrections, retyping
  edits, archiving and restoring. A request loads the document (`ChangeLoad`, `CorrectLoad`, `EditLoad`...), a stage
  change reads the history's last date (`ChangeCheck`), the flush sends the UPDATE if a column differs and draws the
  id of the entry (`Flush`), and the commit makes both visible (`Commit`, `Save`).
- **MeasureViews** - what the details, the stage form and the printed list make of that history.
- **MeasureStagesProofs** - the theorems about MeasureStages and MeasureViews.
- **Business** - the outcomes of `Backends/backend/business.py` and `Plan`, the stages an outcome enters.
- **OrderOfBusiness** - sessions, their measures and outcomes. A request reads the session in one step (`...Load`) and
  writes in a second. `Hold` applies every outcome in one commit or none; `IsTaken` looks a number up among the rows
  that are committed, `GivenTwice` among those of the same commit, which are found by the year saved for them;
  `CorrectOutcome` redoes the stages of an outcome from where it began; `ChangeStage` and `CorrectStage` are the
  requests of MeasureStages, whole.
- **OrderOfBusinessProofs** - the theorems about Business and OrderOfBusiness.
- **Votes**, **Attendance**, **Council** - each request in two steps, what it loaded and its commit; ids drawn in
  order; a variable `overtaken` records that a commit was made over rows that had changed since they were loaded.
- **SittingsProofs** - the theorems about Attendance, Council and Votes.

Records:

- **Registration** - documents from their registration to their deletion by the numbers they are found by.
  A check, the commit of the row with its number, and the commit of its file are separate steps, and each can fail.
- **BulkRegister** - the dialog that registers several documents and the requests it sends. Choosing files has two
  steps (the rows known are read, then the uploads are named), an upload two (the browser sends the file, the dialog is
  told by its name), a row of a request three (checks, the document's commit, its file's). `Answered` is what the
  dialog does with an answer, and with none.
- **Storage** - files on disk beside their rows, through replacement, deletion, migration to the new folder, a backup
  taken meanwhile, and its restore. A step may be the last one before a stop. A replacement fails before its commit
  (`ReplaceFails`) or after it, when the row cannot be read back (`ReplaceUnread`). **StorageProofs** - the theorems
  about it, and about Registration and BulkRegister.
- **Backups** - the folders of `scripts/backup.py` as days pass. A run may also stop with only some of the old folders
  removed (`RemovedTillNow`).
- **Todays**, **Temporary**, **Retention** - as above, a load and a commit; Retention has a calendar of short months
  so that the end of one clips an addition.
- **Notices** - the notifications of one user. A handoff is stamped, and committed some time after; documents come to
  the user's office and leave it (`Move`); the months of retention and the user's permission to delete change (`Rule`);
  a panel shows what was answered some time before it makes it read.
- **OfficesProofs** - the theorems about Backups, Todays, Temporary, Retention and Notices.
- **Analytics** - the overview at a month of the year.

People:

- **Accounts** - accounts, login sessions and whom a token is taken for. A request that ends sessions has three steps:
  what it reads, the statement that ends the sessions committed by then (`SignOut`), and the commit. Of a password is
  kept whether it was changed or reset since a session was opened. **AccountsProofs** - the theorems about it.
- **Logins** - one account's failures, authenticator codes and recovery codes, over a clock. **SittingsProofs** has the
  theorems about it.
- **Workspace** - one page of the administrator's app: its variables, the browser's storage, and a thread per
  click and one for the bell, each split where it waits for an answer. `Shell` asks for the profile, `Draw` draws.
  **WorkspaceProofs** - the theorem about it.

For TLC, an MC module extends the module it runs, so that the run evaluates the assumptions and the properties of the
theorems. **MCHandoffs**, **MCMeasureStages**, **MCOrderOfBusiness**, **MCAccounts** and **MCAnalytics** run a module
each. **MCWorkspace** (parts `workspace`, `dialog`), **MCMeasures** (`stages`, `session`, `sessions`), **MCSittings**
(`votes`, `marks`, `numbers`, `dates`, `seats`, `chairs`, `logins`), **MCOffices** (`handoffs`, `todays`, `temporary`,
`retention`, `notices`, `nightly`) and **MCRecords** (`registration`, `numbers`, `files`, `backups`, `overlap`, `typed`)
put several modules that read nothing of each other side by side: the run picks a part at the start and takes only its
steps, so that each part is explored to the end, and a property of a part that is an instance names the part.

Definitions marked `MUTANT` are the code with a plausible mistake. Nothing uses them; `PROJECT.json` says which
property each one breaks.

## Runs

Passing runs explore their whole state space, in less than five minutes with two workers.

| Run | Instance | Question |
| --- | --- | --- |
| `handoffs_concurrent` | 2 offices, 2 requests, 2 handoffs | Does the trail stay consistent at every interleaving, deadlock and rollback, do the screens agree on it, and does every request that begins end? |
| `offices` | `handoffs`: 3 offices, 1 request, 3 handoffs, a list of 2 passed on. `notices`: 1 handoff, 1 document, 6 steps of the clock, days of 3. The others: 2 requests, 1-3 documents, up to 4 days | Does Handoffs implement Custody when requests don't overlap, and does every office keep track of what it passed on; are lists, extensions, backups and notices kept through overlaps and failures? |
| `stages_concurrent` | 2 requests, resolution or letter, 2 stages, 3 entries, 1 day | Are entries legal and stages recorded, however requests overlap? |
| `measures` | 1 request. `stages`: all types, 3 stages asked for, 3 entries, 2 days. `session`: 1 session, 1 ordinance, 3 outcomes, 2 days, 4 entries. `sessions`: 2 sessions, 2 outcomes, 4 entries | Is the history one dated chain that its views agree on; are outcomes entered by the rules; do two sessions and one history agree through corrections? |
| `accounts` | 3 accounts (2 created as Super Administrators) of which 2 are ever registered, 2 names, 2 sessions, 2 requests, of which one saves the user form and one refreshes; of those signed in or logging in only employees have their password reset | Does no session outlive its account, is who must be signed out signed out, does a Super Administrator remain? |
| `workspace` | `workspace`: 2 people, 2 sessions, 1 click beside the bell. `dialog`: 1 file, 2 uploads and rows, 2 clicks | Is one person's page ever over another's session; is a session that ended noticed; does the dialog that registers several stop waiting? |
| `sittings` | 2 requests, 1-2 members, sessions, terms | Are votes, attendance, seats and chairs what one request at a time would leave, or excused by name; do codes and the lockout hold? |
| `records` | 2 documents, 2 requests, 1-2 contents and types, 3 file names. `backups`: 1 request at a time, 2 file names, 1 content at a time. `overlap`: 2 requests, 1 file, 2 uploads, 2 documents. `typed`: 2 files, 2 types, 1 document | Are numbers and files kept through overlaps and failures, and are the files of a backup there; is what is registered several at once what was asked for? |

The bounds are enough for what the properties tell apart. Two requests give every pairwise race and every
deadlock, because the program locks two kinds of rows. Three offices let a document go from one to another and on
to a third. Two handoffs let one be under way or be tried while the other is closed or received, and three, with
one request, let a document come back; the proofs cover the rest. Three entries are a registration, a change and
one that races with or follows it. The stages asked for are those that separate the rules: adjacent, skipping, back
to committee, enacted and beyond. In `session` the ordinance may be referred, approved or deferred, and moved outside
the session before, between and after; `Adopted` is no stage of an ordinance, so a correction to it has to be
refused. In `sessions` both sessions may take up the ordinance, be held in either order and be corrected twice.
Two accounts let two administrators act on each other, or one on an employee who logs in, and a name change hands;
two sessions let one end while the other is opened; the theorems of AccountsProofs cover any number of either. In
`sittings` two rows of attendance let one be marked anew while the other is removed, the clock of `logins` passes the
window once, and two failures lock. In `files` a third file name lets one be
written while another is removed, and in `backups` a second one lets a file be replaced or moved while it is copied; in
`nightly` four days let a backup be kept, pruned and outlived; six steps of `notices`
let a handoff be sent, become overdue and be looked at before and after, and a document come to the office after it was
due. A list of two passed on is full with two others ahead. Two uploads of one file name are two rows
of it, or one removed while it uploads and chosen again; in `overlap` a request goes on after the dialog has sent the
file again; in `typed` one file's name says a type that is chosen or not.

With one request at a time nothing decides on a stale row: `measures` and the handoffs of `offices` say what the handlers
keep between them then. The properties of the runs with two requests either hold whatever overlaps, or name
what they excuse: a record written by a request that was overtaken (`overtaken`, `late`, `crossed`, `torn`, `shares`
in the modules), and nothing else. So they show both that the code is right when requests do not overlap on a row,
and how far an overlap can reach.

### What the code says of itself and does not keep

Each of these runs ends in a counterexample. `PROJECT.json` quotes the line each one contradicts.

| Run | What happens |
| --- | --- |
| `stale_receipt` | A receipt loads the document while its office holds it; the document is sent away, received and sent back meanwhile; the ORM sees no change of office and custody stays where it was. |
| `outcome_same_number` | Two resolutions filed one year and adopted the next at one session with one number both get it: nothing is flushed between them, and the first is looked for by the year saved when it was filed (`documents.py:849-859`). Where that is the year of adoption, or for a number already committed, the code answers 409. |
| `print_list_pending` | A measure registered beyond Approved or Adopted, or corrected past it, has no entry there and is printed under "Not yet approved". |
| `overview_in_january` | The overview makes the month five before this one by subtracting from its number; from January to May there is none and the request fails. |

### What else overlapping requests can leave

The models contain these too; the properties excuse them by name.

- Archiving looks for a pending handoff, one is created, and the document is archived in transit
  (`documents.py:3429`); a document restored after the check is permanently deleted (3509); an action is recorded after
  the office sent the document on (3059).
- Two stage changes decided on one stage are both made (`measure_stages.py:194`); a document archived after the
  check changes stage (191); a correction that keeps the stage makes no UPDATE and becomes the latest entry beside
  a change (76). A single edit can retype a measure, which keeps its stage (`documents.py:2045`).
- Of two status changes decided on a Draft, one to Held and one to Scheduled, the second can take the session out of
  Held (`council_sessions.py:249`); an item, an outcome, a mark or a vote is written after its session was held. A
  measure that moved on and came back lets the correction of an outcome through (`order_of_business.py:423`).
- Two administrators deactivate each other, or one edits a user with the form, which counts nobody
  (`auth.py:319, 417`), and no active Super Administrator is left. A start makes a default account only when none
  exists.
- Two members get one seat, two terms overlap, a chair is a member who has left (`council.py:94-129`); a member
  added or leaving later changes who is counted for a session that was held.
- A login that committed between the statement that ends an account's sessions and the commit of the account
  (`auth.py:323-324, 427-429, 547-552`), or that had checked the password before, keeps its session: it is there again
  when the account is reactivated, and outlasts the change of the password. A reset by an administrator ends no session
  at all (458).
- Two files and one checksum, when both replacements loaded the same row (`documents.py:3560-3618`). When a
  replacement cannot read back the row it committed (3617-3618) it removes the new file, which the row names: the
  document is left without a file, with no request overlapping and nothing but one failed query. A failure after
  the first commit of a registration leaves a document without its file, and a retry registers it again.
- A batch the dialog did not wait for is worked on beside the one that repeats it (`app.py:1284`), and a file or a number
  gets two documents. A row then says "failed" though its file is registered, as it does when only the audit row could
  not be written (`documents.py:471`, `core.py:66`): trying again says that the file exists. A row of a file
  chosen twice can be ready before its own upload has ended (`registration.py:902`).
- A file replaced while a backup runs is in neither state in it; files still in the old folder are not backed up; a
  migration that stops between a file and its row leaves that row to the operator.
- Two codes of the two-step login are accepted at once (`auth.py:601-616`), and two failures at once can pass the
  number that locks without locking (588-598).
- A list of the day can get two entries at one position (`todays_documents.py:106-139`). Of two extensions at once
  one is lost.
- A late answer to a refresh puts the token of the person before under the name of the person now
  (`frontend/admin/app.py:546-556`). That session has ended, so the next call signs the second person out.
  `WorkspaceIsOwners` excuses a session that was let go of without the back end being told (`dropped`): a call was
  lost, a refresh was overtaken by another, or the page was left. A logout whose access token has expired is refused,
  and its session stays usable until it expires.
- A notice stamped before a look and committed after it, or beyond the thirty newest, becomes read without being shown.
  So does one that comes to the list with a time before the last look: a document given a due date past it, or received
  by the office after it was due soon or overdue (`notifications.py:139-140`), a retention that ends soon once the months
  are shortened (`settings.py:147`) or the permission to delete is given. `NewsIsShown` lets exactly these through
  (`Excused`), so such items never count as unread.
- Once twenty other documents an office passed on were sent later, a document is no longer in its queue
  (`documents.py:1714-1715`, `PASSED_ON_LIMIT` at 2252), though the comment at 1691 says these are tracked to the end. Its
  trail, history and list still have it, and they are what `OfficesKeepTrack` says of it then.
- When a session ends while `show_shell` asks for the profile, the shell is drawn over the login screen all the same,
  against the comment at `app.py:3945`; the next call notices.

## Fairness

`handoffs_concurrent` assumes `FairSpec`. A request that has begun is executed by its thread, so its next
statement is taken unless it waits. PostgreSQL grants a contended row in the order of its queue, so a request
that can proceed again and again does: strong fairness of `Continue(r)`. The deadlock detector runs after
`deadlock_timeout`: weak fairness of `DeadlockVictim`. Starting a request and losing a connection are not fair:
nobody has to. A handoff locks the document and then its pending handoff; a receipt locks the handoff and then
updates the document. `RequestsEnd` holds because the detector breaks that cycle; without `DeadlockVictim` it fails.

`workspace` assumes `FairSpec` of Workspace. A thread that can go on does (weak fairness of `Step(t)`); the bell
rings every thirty seconds while its page is open (`admin_shell.py:27-54`, weak fairness of `Call(Bell)`); and a
back end called again and again answers at last (strong fairness of `CallAnswered(Bell)`), which no call does if the
network never comes back. Nobody has to click, and an answer may always be lost.

It also assumes `Fairness` of BulkRegister: the browser ends an upload, well or not, and tells the dialog (weak fairness
of `Uploaded(u)`, `Told(u)`); the thread of a request goes on (`Serve(r)`); and the dialog has its answer or, after three
minutes, gives it up (`Heard`). Nobody has to choose, remove or register anything. `DialogSettles` says that rows do
not stay uploading, on which Register waits for good.

The other runs check safety only and assume none.

## Proofs

Every theorem holds for any number of offices, requests, documents, people and so on, under the assumptions each
module makes of its constants. Each rests on an inductive invariant, which TLC checked first. Two kinds of
hypotheses occur besides: `[]NoOverlap`, for what the handlers keep between them when one request has ended before the
next begins (the runs with one request show the same), and `IsFiniteSet(Members)`, for votes that are counted.

- **HandoffsProofs**: `TypeCorrect`, `OnePending` (`AtMostOnePending`), `CustodyWaits` (`SenderStillHolds`),
  `TrailMatches` (`ReceiptsMatch`), and the action properties `OnlyReceiptMovesCustody` (`CustodyMovesByReceipt`),
  `HolderSends` (`SentByHolder`), `FinalEnds` (`EndsAreFinal`); from the assumptions that `NoOffice` is not an office
  and the bound is positive. None is inductive. A handoff is inserted some steps after the checks that justify it, so
  `IInv` adds that the locks exclude each other (`DocumentLock`, `HandoffLock`) and, for each request and each point
  it can be at, what it has checked and still holds (`Checked(r)`). Each step either writes nothing another request
  relies on (`QuietStep`), or is one of five writes with a lemma each. `Effects` names what a step can do to the
  tables, and the action properties follow from it. `CustodyKept` is the refinement: while requests don't overlap,
  every behaviour of Handoffs is one of Custody, each step a step of Custody or a stutter. What a lone request loaded
  is still so when it writes (`AllCurrent`), which is just what the counterexample of `stale_receipt` lacks.
  `OneAtATime` says the same where there is one request. `OneStory` (`ScreensAgree`) adds that the office a document
  is at is associated with it (`CurrentIsAssociated`); the latest handoff of a set exists because ids are bounded
  numbers (`LatestExists`). `NobodyLosesTrack` (`OfficesKeepTrack`, under `[]NoOverlap`) adds that receivers are
  associated (`ReceiversAssociated`), and that the office a handoff was received at still has the document or sent it
  on by one that was received (`Chained`); of the queue it says so as far as the list goes, for any limit.
- **MeasureStagesProofs**: `HistoryIsLegal` (`EntriesAreLegal`), `NoStageUnrecorded` (`StageIsRecorded`),
  `StagesTypeCorrect`. An entry is made legal when its request loads the document and is written later, so the
  invariant follows it: `Prepared` (the entry on its way is legal, and names the stage the request will set),
  `EditsKeepStage` (an edit writes back the stage it loaded), `Drawn` and `NotDrawn` (its id is its own, so it
  replaces no entry). `StageIsRecorded` survives a write that leaves the stage out, because the entry is added and
  none is removed. Under `[]NoOverlap`: `RecordKept` (`HistoryIsRecord`), `EntriesDue` (`EntriesAreDue`) and
  `ViewsKept` (`ViewsAgree`). There the invariant `SerialInv` says that the history is one chain that ends at the
  stage (`ChainIsWhole`), that dates grow from one correction to the next (`Sorted`), and that what the request under
  way decided on is still so (`Stands`).
- **WorkspaceProofs**: `OwnWorkspace` (`WorkspaceIsOwners`). Any number of threads may be waiting for answers that
  come after the page changed hands, so the invariant says of every one of them what session it can still bring:
  `Owned`, `WelcomeIsNew` (a login under way has a session nobody else has), `Kept` (a session still usable is the
  page's, on its way, or one the back end was not told of), `SavedFits`, `LetGo`, `SavedSoon`.
- **AccountsProofs**: `NoneOutlivesAccount` (`SessionsHaveAccounts`), `SignsOut` (`SignedOut`), `ASuperRemains`
  (`SupersRemain`). A request commits some time after its checks, so `Checked(r)` keeps what they found as long as
  nobody overtook it: the account that logs in is active, the one deactivated or deleted is not the last Super
  Administrator. Between the statement that ends sessions and the commit, those it did not take are
  of logins that overlap it (`Taken`). Sessions have an account from when they are opened (`Opened`), for the deletion
  of an account takes those the statement missed, and accounts have a name (`HaveNames`).
- **StorageProofs**: `FilesStayWithRows` (`FilesMatchRows`) and `BackupsAreWhole` (`BackupsHaveFiles`), with failures,
  stops, migrations and restores at any point. A path is held for one document only, wherever it is held (`OwnNames`);
  a new file is its request's alone until the row has it (`Private`); what a request loaded is true unless the row was
  torn or crossed by another (`Loaded`); and for a document with its file in the old folder nothing holds one in the
  new (`LegacyFirst`). A backup copies after it dumps, and `Dumped` and `Copied` follow the file of each dumped row
  from the one folder to the other.
  For registration `DocumentsRegisteredOnce` (`RegisteredOnce`): a document gets its number steps after the checks, so
  the invariant adds what holds between them: `Jobs` (what a request works on at each of its steps), `FileFree` (the
  file a fresh request looked for is on no document), `NumberFree` (the legislative number it looked for is only on
  documents that share theirs), and `Given` (every number in use was given by the sequence; a retype keeps a number of
  its document). `DocumentsAreFound` (`Found`): a document is found by every number it ever had, whichever retypes
  overlap. For registering several `SeveralAsAsked` (`RegisteredAsAsked`) and `RowsSayTruly` (`RowsTellTruth`), for any
  number of files, uploads and requests, whatever files hold and their names say. Dialog and server hear of each other
  late or never, and `BulkInv` joins them: an upload has one row at most (`RowsFit`); what a request has not answered
  is what it has still to do (`Sends`); what the dialog waits for is what its rows say is registering, and what it gave
  up waiting for is in `untold` (`Waits`); a file or number that a request looked for and did not find, no other has
  registered alone since (`Once`); and a row says registered exactly if its upload has a document (`Truth`).
- **OfficesProofs**: `ListsLast` (`ListsAreKept`), `ListsChangeRightly` (`ListsChangeAsAsked`) and `NewsGetsShown`
  (`NewsIsShown`), and of the modules alone `EntriesKeepTheirs`, `KeptLonger`, `ExtensionsAreOfThisArchive`,
  `ExtendingIsLonger`, `BackupsOutlast` and `NothingReadUnshown`.
  For the list of a day: as long as nobody overtook a request, the places it writes are different ones for all
  entries, in the order they have, and none is that of the entry it adds (`Placed`); that rests on the places an entry
  has before it being fewer than those of a later entry (`IndexRises`), counted over a finite list (`EntriesFit`).
  For temporary documents: an upload waits, or is a request's, or an entry's, and of one entry only (`OneOwner`), and
  the file that is removed is of an entry that is gone (`LoadedEntry`). For retention, in any calendar of months up to
  31 days: months added to a date make a date, and a later one (`ExtendedDate`), and a fresh request's date is later
  than the document's (`LoadedDate`). For backups: the folder of the run under way is as new as any logged and is
  among those left (`UnderWay`), so what a run removes can be spared, and a run ends the day after it began at the
  latest (`Logged`).
  For notices: what is in a list is what is news at its moment (`ItemsAreNews`, `NewsAreItems`), what is news now and
  older than a list was news when the list was made (`HandoffNewsBefore`, `DueNewsBefore`, `KeptNewsBefore`), and a
  list that was loaded has told of what was news and committed by then (`Looked`), so what opening the panel makes read
  was shown, but for what was stamped or listed too late.
- **SittingsProofs**: for sessions `SessionsRecorded` and `HeldSessionsStay`, for the council `TermsAndSeatsApart` and
  `ChairsInOffice`, for votes `VotesCounted` and `HeldVotesRemain`. All say what is so unless a request was overtaken,
  and each invariant says what a fresh one may rely on. In Attendance the rows it removes or changes are of its
  session, its session is not held, and a member marked for the first time has no row (`Good`), while ids are drawn
  once (`IdsOnce`) and a session is created by one request (`CreatesAlone`). In Council its checks of the other rows
  and the columns it leaves alone stand (`CouncilChecked`). In Votes it has the row that is the latest (`LoadedVote`),
  and there is one row at most until the session is held.
  For logins `LoginsGuarded` (`LoginsAreGuarded`), by counting. The failures there are and the requests past
  the look at the lockout are together no more than the limit, less one, and the requests there can be (`Bounded`);
  unless two counted at once (`crowded`), a limit that was reached has a lock, and the rows newer than it are made by
  the other requests that were past the look (`Fewer`). A code is checked against the row as loaded, which is the row
  still unless the request was overtaken (`Current`), so a code used before is seen (`Unused`). The requests are a
  finite set.
- **OrderOfBusinessProofs**: `PlanFollowsRules`: whatever outcome is planned, each stage entered is allowed from the one
  before it. `Plan` recurses over the stages of an outcome; that the recursion has values and that they keep the rule
  is shown by the least stage at which they would not.
  `RecordHolds`, for requests that overlap in any way: the history of a measure is one chain that ends at its stage,
  in the order of dates but for corrections, every outcome entered moves the rules allow, and what is approved or
  adopted has its number (`Record`). With one request at a time, `LegalOutcomes` (`OutcomesAreLegal`),
  `SessionsFit` (`SessionsFitHistory`) and `HeldIsCorrected` (`HeldIsRecord`) say that the two records of one move
  agree. `Record` is too weak for that: `Fitting` says of each session and measure that the last stage the session
  entered is the one its latest outcome ends at, dated by the session; and `FreshJobs` that the session a request
  loaded is the session still. A correction takes the stages of an outcome back and plans anew from where they
  began, so most of the proof is about a history with the entries of one session detached and others put after it.

The modules run as parts of one MC module are instances in it. The theorems about Registration, BulkRegister,
OrderOfBusiness, Attendance, Council, Votes, Todays, Temporary, Retention, Notices and Backups are stated of its
specification (`PartsSpec`), and most of them of the module's own besides, so none rests on the bound of another part.
For Notices the days before a due date that a notice is given (`DUE_SOON`) are whole days, as `DUE_SOON_DAYS`
are, and the handoffs and documents of a list are a finite set.

So every invariant and every action property that a passing run checks is a theorem. Only model-checked is liveness
(`RequestsEnd`, `EndedIsNoticed`, `DialogSettles`), which is out of this prover's reach; of Analytics only a property
that the code does not have is stated. Induction over data is out of its reach as well: a fold or a sequence is proved
about through its least counterexample where that is enough.

## Bounds and abstractions

- `MaxHandoffs`, `MaxChanges`, `MaxOutcomes`, `MaxFills`, `MaxNumber`, `MaxEntries`, `MaxName`, `MaxId`, `MaxFolder`,
  `MaxTmp`, `MaxDocs` stop rows from growing without limit; a request that would pass one does not begin or does not
  write. `MaxDay`, `MaxNow`, `MaxMonth` stop the clock.
- `Types`, `Asked`, `Outcomes`, `Days`, `Leaving`, `Numbers`, `Moments` are the inputs requests are given; days of
  stages and sessions are past, since a later one is only refused.
- What only refuses a request is left out where nothing depends on it: permissions, an inactive receiving office, a
  missing committee, input that is too long.
- Handoffs and MeasureStages follow one document: every lock and every check of their handlers is on one document and
  its rows. In MeasureStages a number already taken by another document only refuses.
- In OrderOfBusiness items removed and added again are one item, measures keep their type and are not archived, and a
  request has two steps: the loaded session, then everything else. Stage changes outside a session are one step.
- A request of Votes, Attendance, Council, Todays, Retention, Accounts and Logins has two steps, what it loaded and its
  commit. What it reads in between is read with the first.
- In Accounts expiry, which only ends sessions, is a revocation; a token carries a name and a session. Resetting a
  password is one step, since it ends no session.
- In OrderOfBusiness the numbers are of one year, and `OfYear` are the measures filed in it. The order of items in a
  session is left out: of two given one number, one filed that year and one not, the one that was not comes first.
- In Logins an authenticator code is the number of the thirty seconds it is for.
- In Registration one year is modelled; in Storage a document has one file, and content and checksum are the same.
- In BulkRegister years, titles, offices, closing the dialog and what refuses a file before it is uploaded are left
  out. An upload's answer may be lost; a token that expired is an upload that was lost.
- In Notices whatever is stamped takes a step of the clock, and days begin at multiples of a constant. `Kept` are the
  months of retention there can be. The office of the user and whether notices may be seen stay.
- `stages.path_stages` and the ranks are tables; their entries are those of `stages.py:33-48`.

Deadlock is checked in `handoffs_concurrent`, `stages_concurrent`, `measures` and the handoffs of `offices`. The other
systems may stop: ids, names and days are used up.

## Not modelled, and why

- Audit rows: added by a commit after the one they tell of, or by the same, and read by screens only; a stop in between
  leaves a change without its row (`core.py:66`).
- Items of a session that are not measures, sections and positions of items, notes of entries: kept and shown, and
  read by no rule.
- Offices: an inactive one only refuses new handoffs. Settings but the periods of retention: single rows
  overwritten by one administrator.
- The notices of temporary documents, which are those of archived documents with other dates.
- Reports, breakdowns and filters of the analytics, the printed page, health checks but the backup's, the public
  lookup with its counter per address: queries that change no state.
- The SB members' service, which lists what Todays and Temporary keep, and the employees', which mounts the same
  routers.
- The page of a QR code scanned before a login (it waits for the login of Workspace), and every other page of the
  front ends: they lay out the answers of the API, and every rule is enforced there.
- Startup, schema and migrations: run by one process before requests are served.

`PROJECT.json` maps definitions to about a sixth of the repository's lines besides tests, and to about two fifths of
the back end (`Backends/backend`). Half of those lines are pages of the front ends (`frontend/admin` and the others),
most of what then remains parses and formats, declares columns and payloads, or migrates tables, and there is no state
to model there. Of the handlers that change state, those of offices, settings and items that are not measures are the
ones without a definition.

## What is left

1. The rest of the order of business: items that are not measures and the order of items.
2. A composition of Accounts and Workspace: two pages of one account, of which one revokes the other's session.

## Checking

In this directory, `tlc -config MCHandoffs_concurrent.cfg MCHandoffs` runs one configuration, and
`tlapm HandoffsProofs.tla` checks one module of proofs.
