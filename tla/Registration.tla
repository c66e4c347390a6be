---------------------------- MODULE Registration ----------------------------
(***************************************************************************)
(* Registering documents and the tracking numbers they are found by, from  *)
(* Backends/backend/routes/documents.py and tracking_numbers.py.           *)
(*                                                                         *)
(* A registration checks for the same file and the same legislative number *)
(* without a lock, commits the document with the next number of its type's *)
(* sequence, and commits its file afterwards, so that a failure between    *)
(* leaves a document without one.  The files of a batch go through the     *)
(* same steps one by one; the one-document form sends its file through a   *)
(* batch of one.  A sequence does not go back when its transaction does.   *)
(* One year is modelled; titles, offices, QR images and the audit row are  *)
(* left out, and the stage a measure starts at is in MeasureStages.        *)
(***************************************************************************)
EXTENDS Naturals, FiniteSets

CONSTANTS Docs,       \* the ids of documents, used once each
          Types,      \* Ordinance, Resolution, Letter Request
          Numbers,    \* legislative numbers
          Contents,   \* what a file can hold
          Uploads,    \* temporary uploads
          Requests,   \* slots for requests the server runs at one time
          None,       \* no document, number, file or upload
          MaxNumber   \* BOUND: tracking numbers of a type

MaxNumberAssumption == MaxNumber \in Nat
NoneAssumption == None \notin Docs \cup Types \cup Numbers \cup Contents \cup Uploads

VARIABLES docs,   \* the row of documents, its aliases and its attachment's content
          given,  \* the tracking number sequence of each type
          tmp,    \* the content of each temporary upload
          reqs    \* what each request is about to write

vars == <<docs, given, tmp, reqs>>

NoNumber == <<None, 0>>
TrackingNumbers == Types \X (1 .. MaxNumber)
Idle == [op |-> "idle", doc |-> None, type |-> None, legis |-> None, file |-> None, tmp |-> None,
         was |-> NoNumber, shares |-> FALSE, fresh |-> TRUE]

(* late: another registration ended between its checks and its commits.    *)
(* shares: it was registered, edited or retyped without looking for its    *)
(* number on others.                                                       *)
TypeOK ==
    /\ docs \in [Docs -> [state : {"unused", "live", "archived", "gone"}, type : Types \cup {None},
                          number : TrackingNumbers \cup {NoNumber}, aliases : SUBSET TrackingNumbers,
                          legis : Numbers \cup {None}, file : Contents \cup {None},
                          late : BOOLEAN, shares : BOOLEAN]]
    /\ given \in [Types -> 0 .. MaxNumber]
    /\ tmp \in [Uploads -> Contents \cup {None}]
    /\ reqs \in [Requests -> [op : {"idle", "register", "attach", "retype"}, doc : Docs \cup {None},
                              type : Types \cup {None}, legis : Numbers \cup {None},
                              file : Contents \cup {None}, tmp : Uploads \cup {None},
                              was : TrackingNumbers \cup {NoNumber}, shares : BOOLEAN, fresh : BOOLEAN]]

Unused == [state |-> "unused", type |-> None, number |-> NoNumber, aliases |-> {},
           legis |-> None, file |-> None, late |-> FALSE, shares |-> FALSE]

Init == /\ docs = [d \in Docs |-> Unused]
        /\ given = [t \in Types |-> 0]
        /\ tmp = [u \in Uploads |-> None]
        /\ reqs = [r \in Requests |-> Idle]

Exists(d) == docs[d].state \in {"live", "archived"}
_documents_with_checksum(c) == {d \in Docs : Exists(d) /\ c # None /\ docs[d].file = c}
_documents_with_number(t, n) == {d \in Docs : Exists(d) /\ n # None /\ docs[d].type = t /\ docs[d].legis = n}
AllAliases == UNION {docs[d].aliases : d \in {d \in Docs : Exists(d)}}
(* Every number of a document, the ones before a retype included. *)
NumbersOf(d) == docs[d].aliases \cup ({docs[d].number} \ {NoNumber})

next_tracking_number(t) == given[t] + 1

Draw(t) == given' = [given EXCEPT ![t] = @ + 1]
CanDraw(t) == given[t] < MaxNumber

(* A request that ends is overtaken by those that register the same.       *)
Same(q, r) == \/ reqs[q].file # None /\ reqs[q].file = reqs[r].file
              \/ reqs[q].legis # None /\ reqs[q].legis = reqs[r].legis /\ reqs[q].type = reqs[r].type
Proceed(r, job) == reqs' = [q \in Requests |-> IF q = r THEN job
                                               ELSE [reqs[q] EXCEPT !.fresh = @ /\ ~Same(q, r)]]
Finish(r) == Proceed(r, Idle)

upload_tmp_file(u, c) == /\ tmp' = [tmp EXCEPT ![u] = c]
                         /\ UNCHANGED <<docs, given, reqs>>

CheckedJob(r, t, n, c, u, any) ==
    /\ reqs' = [reqs EXCEPT ![r] = [Idle EXCEPT !.op = "register", !.type = t, !.legis = n, !.file = c, !.tmp = u,
                                                !.shares = any /\ n # None]]
    /\ UNCHANGED <<docs, given, tmp>>

\* MUTANT: the same file is not looked for.
RegisterCheckNumberOnly(r, t, n, c, u, any) ==
    /\ reqs[r].op = "idle"
    /\ any \/ _documents_with_number(t, n) = {}
    /\ CheckedJob(r, t, n, c, u, any)
(* any: the same number may be on another document. *)
RegisterCheck(r, t, n, c, u, any) ==
    /\ reqs[r].op = "idle"
    /\ _documents_with_checksum(c) = {}
    /\ any \/ _documents_with_number(t, n) = {}
    /\ CheckedJob(r, t, n, c, u, any)

(* allow: allow_duplicate_number, the form's second try. *)
register_document(r, t, n, c, allow) == RegisterCheck(r, t, n, c, None, allow)
confirm_bulk_register_tmp(r, t, n, u, allow) == tmp[u] # None /\ RegisterCheck(r, t, n, tmp[u], u, allow)
(* A batch sent with its files looks for no number. *)
confirm_bulk_register(r, t, n, c) == c # None /\ RegisterCheck(r, t, n, c, None, TRUE)

_new_registered_document(r, d) ==
    LET job == reqs[r]
        number == <<job.type, next_tracking_number(job.type)>> IN
    /\ job.op = "register" /\ CanDraw(job.type)
    /\ docs[d].state = "unused"
    /\ docs' = [docs EXCEPT ![d] = [Unused EXCEPT !.state = "live", !.type = job.type, !.number = number,
                                                  !.legis = job.legis, !.late = ~job.fresh, !.shares = job.shares]]
    /\ Draw(job.type)
    /\ IF job.file = None THEN Finish(r) ELSE Proceed(r, [job EXCEPT !.op = "attach", !.doc = d])
    /\ UNCHANGED tmp

(* The database refuses it; the number it drew is not given again. *)
RegisterFails(r) ==
    /\ reqs[r].op = "register" /\ CanDraw(reqs[r].type)
    /\ Draw(reqs[r].type)
    /\ Finish(r)
    /\ UNCHANGED <<docs, tmp>>

(* The file is written and its row committed; the upload is done with. *)
Attach(r) ==
    LET job == reqs[r] IN
    /\ job.op = "attach"
    /\ Exists(job.doc)
    /\ docs' = [docs EXCEPT ![job.doc].file = job.file, ![job.doc].late = @ \/ ~job.fresh]
    /\ tmp' = IF job.tmp = None THEN tmp ELSE [tmp EXCEPT ![job.tmp] = None]
    /\ Finish(r)
    /\ UNCHANGED given

(* The answer is an error, but the document stays, without its file. *)
AttachFails(r) ==
    /\ reqs[r].op = "attach"
    /\ Finish(r)
    /\ UNCHANGED <<docs, given, tmp>>

RetypeLoad(r, d, t) ==
    /\ reqs[r].op = "idle"
    /\ Exists(d) /\ docs[d].type # t
    /\ reqs' = [reqs EXCEPT ![r] = [Idle EXCEPT !.op = "retype", !.doc = d, !.type = t, !.was = docs[d].number]]
    /\ UNCHANGED <<docs, given, tmp>>

\* MUTANT: nothing keeps two documents' aliases, or two of one, from being the same.
_assign_system_tracking_number_again(r) ==
    LET job == reqs[r] IN
    /\ job.op = "retype" /\ CanDraw(job.type)
    /\ Exists(job.doc)
    /\ docs' = [docs EXCEPT ![job.doc].type = job.type, ![job.doc].number = <<job.type, next_tracking_number(job.type)>>,
                            ![job.doc].aliases = @ \cup {job.was}, ![job.doc].shares = TRUE]
    /\ Draw(job.type)
    /\ Finish(r)
    /\ UNCHANGED tmp
(* The number it had when loaded becomes an alias, which no other row has. *)
_assign_system_tracking_number(r) ==
    LET job == reqs[r] IN
    /\ job.op = "retype" /\ CanDraw(job.type)
    /\ Exists(job.doc) /\ job.was \notin AllAliases
    /\ docs' = [docs EXCEPT ![job.doc].type = job.type, ![job.doc].number = <<job.type, next_tracking_number(job.type)>>,
                            ![job.doc].aliases = @ \cup {job.was}, ![job.doc].shares = TRUE]
    /\ Draw(job.type)
    /\ Finish(r)
    /\ UNCHANGED tmp

RetypeFails(r) ==
    /\ reqs[r].op = "retype" /\ CanDraw(reqs[r].type)
    /\ Draw(reqs[r].type)
    /\ Finish(r)
    /\ UNCHANGED <<docs, tmp>>

(* Editing a number looks for no other document with it. *)
update_document(d, n) == /\ Exists(d)
                         /\ docs' = [docs EXCEPT ![d].legis = n, ![d].shares = TRUE]
                         /\ UNCHANGED <<given, tmp, reqs>>

delete_document(d) == /\ docs[d].state = "live"
                      /\ docs' = [docs EXCEPT ![d].state = "archived"]
                      /\ UNCHANGED <<given, tmp, reqs>>

permanently_delete_document(d) == /\ docs[d].state = "archived"
                                  /\ docs' = [docs EXCEPT ![d].state = "gone"]
                                  /\ UNCHANGED <<given, tmp, reqs>>

Next ==
    \/ \E u \in Uploads, c \in Contents : upload_tmp_file(u, c)
    \/ \E r \in Requests, t \in Types, n \in Numbers \cup {None} :
        \/ \E c \in Contents \cup {None}, allow \in BOOLEAN : register_document(r, t, n, c, allow)
        \/ \E u \in Uploads, allow \in BOOLEAN : confirm_bulk_register_tmp(r, t, n, u, allow)
        \/ \E c \in Contents : confirm_bulk_register(r, t, n, c)
    \/ \E r \in Requests :
        \/ \E d \in Docs : _new_registered_document(r, d)
        \/ RegisterFails(r) \/ Attach(r) \/ AttachFails(r)
        \/ \E d \in Docs, t \in Types : RetypeLoad(r, d, t)
        \/ _assign_system_tracking_number(r) \/ RetypeFails(r)
    \/ \E d \in Docs, n \in Numbers : update_document(d, n)
    \/ \E d \in Docs : delete_document(d) \/ permanently_delete_document(d)

Spec == Init /\ [][Next]_vars

-----------------------------------------------------------------------------
(* A tracking number was given to one document only, the numbers of        *)
(* deleted documents and the ones before a retype included.                *)
NumbersGivenOnce == \A d, e \in Docs : d # e => NumbersOf(d) \cap NumbersOf(e) = {}

(* A document is found by its latest number, which is of its type's        *)
(* series, and by every number it had before, whichever retypes overlap.   *)
NumberOfType == \A d \in Docs : Exists(d) => docs[d].number[1] = docs[d].type
FoundStep == \A d \in Docs : Exists(d) => NumbersOf(d) \subseteq NumbersOf(d)'

(* One file is on two documents only if one of them was registered while   *)
(* another registration was under way.                                     *)
FilesOnce == \A d, e \in Docs : d # e /\ Exists(d) /\ Exists(e) /\ docs[d].file # None /\ docs[d].file = docs[e].file
                                => docs[d].late \/ docs[e].late
(* So is a legislative number, unless one of them was registered or edited *)
(* without looking for it.                                                 *)
LegisOnce == \A d, e \in Docs :
    d # e /\ Exists(d) /\ Exists(e) /\ docs[d].type = docs[e].type /\ docs[d].legis # None /\ docs[d].legis = docs[e].legis
        => \/ docs[d].late \/ docs[e].late
           \/ docs[d].shares \/ docs[e].shares

(* Registering, retyping, editing and deleting at once never gives two     *)
(* documents one number, nor without a warning one file (documents.py      *)
(* _number_problem, _documents_with_checksum, next_tracking_number).       *)
RegisteredOnce == TypeOK /\ NumbersGivenOnce /\ NumberOfType /\ FilesOnce /\ LegisOnce
=============================================================================
