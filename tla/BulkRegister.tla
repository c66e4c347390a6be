---------------------------- MODULE BulkRegister ----------------------------
(***************************************************************************)
(* Registering several documents at once: the dialog of                    *)
(* frontend/admin/registration.py and the requests it sends to             *)
(* Backends/backend/routes/documents.py.                                   *)
(*                                                                         *)
(* Each chosen file is a row of the dialog.  The server names a temporary  *)
(* upload for it, the browser sends it there, and tells the dialog how     *)
(* that went by the NAME of the file.  A request to register is worked     *)
(* through row by row, each with two commits; the dialog stops waiting for *)
(* its answer after a time, and the server does not know.  Years, titles   *)
(* and what only refuses a file before it is uploaded are left out; a file *)
(* keeps its content and the number its name says.                         *)
(***************************************************************************)
EXTENDS Naturals, Sequences, FiniteSets, SequencesExt

CONSTANTS Names,    \* names of files
          Types,    \* types of documents
          Content,  \* what each file holds
          Number,   \* the legislative number each name says, or None
          NamedFor, \* the type each name says, or None: its title says the type
          Clicks,   \* threads of clicks on Choose files running at one time
          Requests, \* slots for requests the server runs at one time
          None,     \* Python's None
          MaxTmp,   \* BOUND: temporary uploads, and rows
          MaxDocs   \* BOUND: documents

(* What a module that takes this one assumes of its instance.              *)
FilesAssumption ==
    /\ MaxTmp \in Nat /\ MaxDocs \in Nat /\ None \notin Types \cup Requests /\ IsFiniteSet(Names)
    /\ Names \subseteq DOMAIN Content \cap DOMAIN Number
    /\ \A f \in Names : NamedFor[f] \in Types \cup {None}

VARIABLES tmps,    \* the temporary uploads, in the order they were named
          rows,    \* the rows of the dialog
          type,    \* the chosen type
          picking, \* the files a click is having uploads named for
          busy,    \* the request the dialog waits for, or None
          later,   \* the rows it will send next
          reqs,    \* the requests the server works on
          docs,    \* the documents registered, in order
          untold   \* HISTORY: uploads whose answer was not waited for, or whose audit row failed

vars == <<tmps, rows, type, picking, busy, later, reqs, docs, untold>>

Idle == [at |-> "idle", todo |-> << >>, type |-> None, anyway |-> FALSE, doc |-> 0, result |-> << >>]
Results == {"sent", "registered", "duplicate", "refused", "failed"}
Tmps == 1 .. MaxTmp

(* alone: no other request was running whenever it was written.            *)
TypeOK ==
    /\ Len(tmps) =< MaxTmp
    /\ \A i \in DOMAIN tmps : tmps[i] \in [name : Names, at : {"coming", "stored", "lost", "gone"},
                                           event : {"none", "done", "error"}]
    /\ \A i \in DOMAIN rows : rows[i] \in [tmp : DOMAIN tmps, allow : BOOLEAN,
                                state : {"uploading", "ready", "registering"} \cup (Results \ {"sent"})]
    /\ type \in Types \cup {None} /\ picking \in [Clicks -> SUBSET Names]
    /\ busy \in Requests \cup {None} /\ untold \subseteq Tmps
    /\ \A r \in Requests : /\ reqs[r].at \in {"idle", "check", "row", "file", "done"}
                           /\ \A u \in DOMAIN reqs[r].result : reqs[r].result[u] \in Results
    /\ \A k \in DOMAIN docs : docs[k] \in [tmp : DOMAIN tmps, type : Types, file : BOOLEAN, anyway : BOOLEAN, alone : BOOLEAN]

Init ==
    /\ tmps = << >> /\ rows = << >> /\ type = None /\ picking = [c \in Clicks |-> {}]
    /\ busy = None /\ later = << >> /\ reqs = [r \in Requests |-> Idle]
    /\ docs = << >> /\ untold = {}

-----------------------------------------------------------------------------
(* The rows of the dialog. *)

Name(row) == tmps[row.tmp].name
RowsThat(Test(_)) == {i \in DOMAIN rows : Test(rows[i])}
Pending(row) == row.state \in {"ready", "duplicate", "failed"}
Registered(row) == row.state = "registered"
Uploading(row) == row.state = "uploading"

(* A file chosen again while it is listed is skipped.                      *)
picked(c, names) ==
    LET fresh == names \ {Name(rows[i]) : i \in DOMAIN rows} IN
    /\ picking[c] = {} /\ fresh # {}
    /\ picking' = [picking EXCEPT ![c] = fresh]
    /\ UNCHANGED <<tmps, rows, type, busy, later, reqs, docs, untold>>

create_tmp_uploads(c) ==
    LET files == SetToSeq(picking[c]) IN
    /\ picking[c] # {} /\ Len(tmps) + Len(files) =< MaxTmp
    /\ tmps' = tmps \o [i \in DOMAIN files |-> [name |-> files[i], at |-> "coming", event |-> "none"]]
    /\ rows' = rows \o [i \in DOMAIN files |-> [tmp |-> Len(tmps) + i, state |-> "uploading", allow |-> FALSE]]
    /\ picking' = [picking EXCEPT ![c] = {}]
    /\ UNCHANGED <<type, busy, later, reqs, docs, untold>>

(* The files could not be prepared for upload. *)
PickFails(c) == /\ picking[c] # {}
                /\ picking' = [picking EXCEPT ![c] = {}]
                /\ UNCHANGED <<tmps, rows, type, busy, later, reqs, docs, untold>>

(* The upload ends; its answer may be lost, and then it counts as failed.  *)
upload_tmp_file(u) ==
    /\ tmps[u].at = "coming"
    /\ \E end \in {<<"stored", "done">>, <<"stored", "error">>, <<"lost", "error">>} :
           tmps' = [tmps EXCEPT ![u].at = end[1], ![u].event = end[2]]
    /\ UNCHANGED <<rows, type, picking, busy, later, reqs, docs, untold>>

Progress(u, RowOf(_)) ==
    /\ tmps[u].event # "none"
    /\ tmps' = [tmps EXCEPT ![u].event = "none"]
    /\ LET i == SelectInSeq(rows, RowOf) IN
       rows' = IF i = 0 \/ ~Uploading(rows[i]) THEN rows
               ELSE [rows EXCEPT ![i].state = IF tmps[u].event = "done" THEN "ready" ELSE "refused"]
    /\ UNCHANGED <<type, picking, busy, later, reqs, docs, untold>>

\* MUTANT: the first row of that name is taken, uploading or not.
on_progress_by_name(u) == Progress(u, LAMBDA row : Name(row) = tmps[u].name)
(* The first row of that name that is uploading. *)
on_progress(u) == Progress(u, LAMBDA row : Name(row) = tmps[u].name /\ Uploading(row))

remove(i) == /\ busy = None /\ rows[i].state \notin {"registered", "registering"}
             /\ rows' = RemoveAt(rows, i)
             /\ UNCHANGED <<tmps, type, picking, busy, later, reqs, docs, untold>>

toggle(i) == /\ busy = None /\ rows[i].state = "duplicate"
             /\ rows' = [rows EXCEPT ![i].allow = ~@]
             /\ UNCHANGED <<tmps, type, picking, busy, later, reqs, docs, untold>>

\* MUTANT: the type is locked while a request runs only.
LockedWhileBusy == busy # None
(* The type is chosen until the first file is registered.                  *)
Locked == busy # None \/ RowsThat(Registered) # {}
ChooseType(t) == /\ ~Locked
                 /\ type' = t
                 /\ UNCHANGED <<tmps, rows, picking, busy, later, reqs, docs, untold>>

-----------------------------------------------------------------------------
(* Registering them. *)

(* The uploads of some rows, in the order of the rows.                     *)
Nth(some, n) == CHOOSE i \in some : Cardinality({j \in some : j < i}) = n - 1
TmpNames(some) == [n \in 1 .. Cardinality(some) |-> rows[Nth(some, n)].tmp]

\* MUTANT: every file goes as if its box were ticked.
AllTicked(list, anyway) == [Idle EXCEPT !.at = "check", !.todo = list, !.type = type, !.anyway = TRUE,
                                        !.result = [u \in ToSet(list) |-> "sent"]]
Request(list, anyway) == [Idle EXCEPT !.at = "check", !.todo = list, !.type = type, !.anyway = anyway,
                                      !.result = [u \in ToSet(list) |-> "sent"]]

(* Files named for another type stay out, files with a number in use wait  *)
(* for their box, and the ticked ones go in a second request.              *)
submit ==
    LET misnamed(row) == Pending(row) /\ NamedFor[Name(row)] \notin {None, type}
        normal == TmpNames({i \in DOMAIN rows : /\ Pending(rows[i]) /\ rows[i].state # "duplicate"
                                                /\ ~misnamed(rows[i])})
        ticked == TmpNames({i \in DOMAIN rows : rows[i].state = "duplicate" /\ rows[i].allow /\ ~misnamed(rows[i])})
        sent == ToSet(normal) \cup ToSet(ticked) IN
    /\ busy = None /\ type # None
    /\ RowsThat(Pending) # {} /\ RowsThat(Uploading) = {}
    /\ rows' = [i \in DOMAIN rows |->
                   IF rows[i].tmp \in sent THEN [rows[i] EXCEPT !.state = "registering"]
                   ELSE IF misnamed(rows[i]) THEN [rows[i] EXCEPT !.state = "failed"] ELSE rows[i]]
    /\ IF sent = {} THEN UNCHANGED <<busy, later, reqs>>
       ELSE \E r \in Requests :
                /\ reqs[r].at = "idle"
                /\ busy' = r
                /\ reqs' = [reqs EXCEPT ![r] = IF normal = << >> THEN Request(ticked, TRUE) ELSE Request(normal, FALSE)]
                /\ later' = IF normal = << >> THEN << >> ELSE ticked
    /\ UNCHANGED <<tmps, type, picking, docs, untold>>

(* The rows show what became of them, and the ticked ones are sent.        *)
Answered(result, free) ==
    /\ rows' = [i \in DOMAIN rows |->
                   IF rows[i].tmp \notin DOMAIN result THEN rows[i]
                   ELSE LET to == result[rows[i].tmp] IN [rows[i] EXCEPT !.state = to, !.allow = @ /\ to # "duplicate"]]
    /\ IF later = << >> THEN busy' = None /\ reqs' = free
       ELSE \E r \in Requests : /\ free[r].at = "idle"
                                /\ busy' = r
                                /\ reqs' = [free EXCEPT ![r] = Request(later, TRUE)]
    /\ later' = << >>
    /\ UNCHANGED <<tmps, type, picking, docs>>

confirm == /\ busy # None /\ reqs[busy].at = "done"
           /\ Answered(reqs[busy].result, [reqs EXCEPT ![busy] = Idle])
           /\ UNCHANGED untold

(* The call fails or takes too long.  The server may still be at work.     *)
GiveUp ==
    /\ busy # None
    /\ Answered([u \in DOMAIN reqs[busy].result |-> "failed"],
                IF reqs[busy].at = "done" THEN [reqs EXCEPT ![busy] = Idle] ELSE reqs)
    /\ untold' = untold \cup DOMAIN reqs[busy].result

-----------------------------------------------------------------------------
(* The server. *)

Upload(r) == Head(reqs[r].todo)
FileName(k) == tmps[docs[k].tmp].name
Working(r) == reqs[r].at \in {"check", "row", "file"}
Alone(r) == \A q \in Requests \ {r} : ~Working(q)

_documents_with_checksum(u) == {k \in DOMAIN docs : docs[k].file /\ Content[FileName(k)] = Content[tmps[u].name]}

_documents_with_number(u, t) == {k \in DOMAIN docs : /\ docs[k].type = t
                                                     /\ Number[FileName(k)] # None /\ Number[FileName(k)] = Number[tmps[u].name]}

(* On with the next row, or with the answer if it is waited for.           *)
Goes(r, result) ==
    LET done == [reqs[r] EXCEPT !.todo = Tail(@), !.result[Upload(r)] = result, !.doc = 0] IN
    reqs' = [reqs EXCEPT ![r] = IF done.todo # << >> THEN [done EXCEPT !.at = "check"]
                                ELSE IF busy = r THEN [done EXCEPT !.at = "done"] ELSE Idle]
Dialog == <<rows, type, picking, busy, later>>

CheckUpload(r) ==
    LET u == Upload(r) IN
    /\ reqs[r].at = "check"
    /\ IF tmps[u].at # "stored" \/ _documents_with_checksum(u) # {} THEN Goes(r, "refused")
       ELSE IF ~reqs[r].anyway /\ _documents_with_number(u, reqs[r].type) # {} THEN Goes(r, "duplicate")
       ELSE reqs' = [reqs EXCEPT ![r].at = "row"]
    /\ UNCHANGED <<Dialog, tmps, docs, untold>>

_new_registered_document(r) ==
    /\ reqs[r].at = "row" /\ Len(docs) < MaxDocs
    /\ docs' = Append(docs, [tmp |-> Upload(r), type |-> reqs[r].type, file |-> FALSE,
                             anyway |-> reqs[r].anyway, alone |-> Alone(r)])
    /\ reqs' = [reqs EXCEPT ![r].at = "file", ![r].doc = Len(docs')]
    /\ UNCHANGED <<Dialog, tmps, untold>>

(* After the commit the audit row is written, or that fails and so does the *)
(* item, and the upload is removed; that it could not be is passed over.   *)
Attach(r) ==
    LET u == Upload(r) IN
    /\ reqs[r].at = "file"
    /\ docs' = [docs EXCEPT ![reqs[r].doc].file = TRUE, ![reqs[r].doc].alone = @ /\ Alone(r)]
    /\ \E logged \in BOOLEAN, left \in {"gone", "stored"} :
           /\ tmps' = [tmps EXCEPT ![u].at = IF @ = "stored" /\ logged THEN left ELSE @]
           /\ untold' = IF logged THEN untold ELSE untold \cup {u}
           /\ Goes(r, IF logged THEN "registered" ELSE "failed")
    /\ UNCHANGED Dialog

(* Anything before that fails.  A document committed by then keeps its number. *)
ItemFails(r) == /\ Working(r)
                /\ Goes(r, "failed")
                /\ UNCHANGED <<Dialog, tmps, docs, untold>>

(* Who looks after the files removes the old uploads.                      *)
cleanup_temp_uploads(u) == /\ tmps[u].at = "stored"
                           /\ tmps' = [tmps EXCEPT ![u].at = "gone"]
                           /\ UNCHANGED <<Dialog, reqs, docs, untold>>

ServerStops(r) == /\ Working(r) /\ busy # r
                  /\ reqs' = [reqs EXCEPT ![r] = Idle]
                  /\ UNCHANGED <<Dialog, tmps, docs, untold>>

Serve(r) == CheckUpload(r) \/ _new_registered_document(r) \/ Attach(r) \/ ItemFails(r)

Next ==
    \/ \E c \in Clicks : (\E names \in SUBSET Names : picked(c, names)) \/ create_tmp_uploads(c) \/ PickFails(c)
    \/ \E u \in DOMAIN tmps : upload_tmp_file(u) \/ on_progress(u) \/ cleanup_temp_uploads(u)
    \/ \E i \in DOMAIN rows : remove(i) \/ toggle(i)
    \/ \E t \in Types : ChooseType(t)
    \/ submit \/ confirm \/ GiveUp
    \/ \E r \in Requests : Serve(r) \/ ServerStops(r)

(* A browser ends its uploads and says so, the server goes on, and the     *)
(* dialog does not wait for ever.  Nobody has to click.                    *)
Uploaded(u) == u \in DOMAIN tmps /\ upload_tmp_file(u)
Told(u) == u \in DOMAIN tmps /\ on_progress(u)
Heard == confirm \/ GiveUp

Fairness == /\ \A u \in Tmps : WF_vars(Uploaded(u)) /\ WF_vars(Told(u))
            /\ \A r \in Requests : WF_vars(Serve(r))
            /\ WF_vars(Heard)

Spec == Init /\ [][Next]_vars
FairSpec == Spec /\ Fairness

-----------------------------------------------------------------------------
SameNumber(k, m) == Number[FileName(k)] = Number[FileName(m)] /\ Number[FileName(k)] # None

(* Nothing is registered behind the back of whoever registers: a file      *)
(* twice, or a number twice without its box, only by requests that         *)
(* overlapped because an answer was not waited for; and what is registered *)
(* anyway had a number in use (documents.py confirm_bulk_register_tmp,     *)
(* registration.py submit).                                                *)
RegisteredAsAsked ==
    /\ \A k, m \in DOMAIN docs : m < k /\ docs[k].alone /\ docs[m].alone =>
           /\ Content[FileName(k)] = Content[FileName(m)] => ~docs[k].file \/ ~docs[m].file
           /\ SameNumber(k, m) /\ docs[k].type = docs[m].type => docs[k].anyway
    /\ \A k \in DOMAIN docs : docs[k].anyway => \E m \in 1 .. k - 1 : SameNumber(k, m)

(* When the dialog is not waiting, its rows say what the server did with   *)
(* them, whatever failed, unless that could not be told; what is           *)
(* registered is of the one type it shows; and a ready file was uploaded,  *)
(* unless another of its name was taken for it (registration.py confirm,   *)
(* on_progress, form.lock).                                                *)
RowsTellTruth ==
    busy = None =>
        \A i \in DOMAIN rows :
            LET u == rows[i].tmp
                Done(k) == docs[k].tmp = u /\ docs[k].file IN
            /\ Registered(rows[i]) => \E k \in DOMAIN docs : Done(k) /\ docs[k].type = type
            /\ (\E k \in DOMAIN docs : Done(k)) => Registered(rows[i]) \/ u \in untold
            /\ rows[i].state = "ready" /\ tmps[u].at \in {"coming", "lost"}
                   => \E v \in DOMAIN tmps \ {u} : tmps[v].name = tmps[u].name

(* The dialog settles: a file does not stay uploading, nor Register        *)
(* waiting, whichever rows of its name were removed or listed twice        *)
(* (registration.py on_progress, submit).                                  *)
DialogSettles ==
    /\ \A u \in Tmps : LET At == \E i \in DOMAIN rows : rows[i].tmp = u /\ Uploading(rows[i]) IN At ~> ~At
    /\ (busy # None) ~> (busy = None)
=============================================================================
