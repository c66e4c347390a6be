------------------------------- MODULE Logins -------------------------------
(***************************************************************************)
(* Logging in to one account: the lockout after failed logins, counted     *)
(* over audit rows, and two-step login with codes that may be used once,   *)
(* from Backends/backend/routes/auth.py, login_lockout.py, two_step.py and *)
(* scripts/reset_two_step.py.                                              *)
(*                                                                         *)
(* A login looks at the lockout first, then loads the account and checks   *)
(* what it was given against that; a success commits, a failure commits    *)
(* its audit row and then counts the rows.  Nothing is locked in between.  *)
(* Turning two-step login on and off loads and commits in the same way.    *)
(* Audit rows are taken to be dated in the order they are committed.  An   *)
(* authenticator code is the number of the thirty seconds it is for: codes *)
(* of different secrets and steps do not collide.                          *)
(***************************************************************************)
EXTENDS Integers, FiniteSets

CONSTANTS Requests,      \* slots for requests the server runs at one time
          MaxFailures,   \* LOGIN_MAX_FAILURES
          Window,        \* LOGIN_LOCKOUT_MINUTES, in steps of thirty seconds
          Recovery,      \* recovery codes, given out in turns of Given
          Given,         \* RECOVERY_CODE_COUNT
          MaxNow         \* BOUND: the last step of the clock

ASSUME NumbersAssumption == {MaxFailures, Window, Given, MaxNow} \subseteq Nat \ {0}
ASSUME RequestsAssumption == IsFiniteSet(Requests)

VARIABLES now,       \* two_step.current_step()
          failures,  \* the FAILED_LOGIN rows since the last login or unlocking: when, and which then
          locked,    \* when the last ACCOUNT_LOCKED row since then was made, or Never
          account,   \* the two-step columns of the row of users
          used,      \* history: the codes accepted since two-step login was turned on
          twice,     \* history: those accepted again
          overtaken, \* history: a request wrote two-step columns another wrote after it read them
          crowded,   \* history: a failure was recorded while another was being counted
          reqs       \* what each request has read and found

vars == <<now, failures, locked, account, used, twice, overtaken, crowded, reqs>>

Never == 0 - Window - 1
NoStep == 0
Steps == 1 .. MaxNow + 1
Wrong == 0
Codes == Steps \cup Recovery \cup {Wrong}
ASSUME RecoveryAssumption == Recovery \cap (Steps \cup {Wrong}) = {}

(* last: totp_last_step.  codes: totp_recovery_codes. *)
Off == [on |-> FALSE, pending |-> FALSE, last |-> NoStep, codes |-> {}]
AccountRows == [on : BOOLEAN, pending : BOOLEAN, last : Steps \cup {NoStep}, codes : SUBSET Recovery]

Idle == [pc |-> "idle", view |-> Off, code |-> Wrong, fresh |-> TRUE]
Jobs == [pc : {"idle", "checked", "login", "failed", "count", "enable", "disable"},
         view : AccountRows, code : Codes, fresh : BOOLEAN]

TypeOK == /\ now \in 1 .. MaxNow
          /\ failures \subseteq (1 .. MaxNow) \X Nat
          /\ locked \in {Never} \cup 1 .. MaxNow
          /\ account \in AccountRows
          /\ twice \subseteq used /\ used \subseteq Codes
          /\ overtaken \in BOOLEAN /\ crowded \in BOOLEAN
          /\ reqs \in [Requests -> Jobs]

Init == /\ now = 1
        /\ failures = {} /\ locked = Never
        /\ account = Off /\ used = {} /\ twice = {}
        /\ overtaken = FALSE /\ crowded = FALSE
        /\ reqs = [r \in Requests |-> Idle]

(* The failures within the last LOGIN_LOCKOUT_MINUTES. *)
Recent == {row \in failures : row[1] >= now - Window}
RecentFailureCount == Cardinality(Recent)
IsUsernameLocked == RecentFailureCount >= MaxFailures

(* A code is for its step and the one on either side, and never for a step *)
(* up to the last one used.                                                *)
MatchingStep(c, last) == c \in {k \in Steps : k \in now - 1 .. now + 1 /\ k > last}
Accepted(c, view) == MatchingStep(c, view.last) \/ c \in view.codes

(* The columns as they are after the code is used up. *)
After(view, c) == IF c \in Steps THEN [view EXCEPT !.last = c]
                                 ELSE [view EXCEPT !.codes = @ \ {c}]

(* The columns changed since they were loaded are written, over whatever   *)
(* they have become.                                                       *)
Write(view, new) ==
    LET Column(c) == IF new[c] = view[c] THEN account[c] ELSE new[c]
    IN  [on |-> Column("on"), pending |-> Column("pending"), last |-> Column("last"), codes |-> Column("codes")]

(***************************************************************************)
(* The clock, and the steps of a request.                                  *)
(***************************************************************************)

(* Rows that have left the window are never counted again. *)
Tick == /\ now < MaxNow
        /\ now' = now + 1
        /\ failures' = {row \in failures : row[1] >= now' - Window}
        /\ UNCHANGED << locked, account, used, twice, overtaken, crowded, reqs>>

Do(r, job) == reqs' = [reqs EXCEPT ![r] = job]

LoginCheck(r) ==
    /\ reqs[r].pc = "idle"
    /\ ~IsUsernameLocked
    /\ Do(r, [Idle EXCEPT !.pc = "checked"])
    /\ UNCHANGED <<now, failures, locked, account, used, twice, overtaken, crowded>>

(* The password may be wrong, and so may the code, which is asked for when *)
(* two-step login is on.                                                   *)
LoginLoad(r, password, c) ==
    /\ reqs[r].pc = "checked"
    /\ LET right == password /\ (account.on => Accepted(c, account))
       IN Do(r, IF right THEN [pc |-> "login", view |-> account, fresh |-> TRUE,
                               code |-> IF account.on THEN c ELSE Wrong]
                ELSE [Idle EXCEPT !.pc = "failed"])
    /\ UNCHANGED <<now, failures, locked, account, used, twice, overtaken, crowded>>

(* The password is right and no code is given: asked for one, which counts *)
(* as nothing.                                                             *)
LoginAsks(r) ==
    /\ reqs[r].pc = "checked" /\ account.on
    /\ Do(r, Idle)
    /\ UNCHANGED <<now, failures, locked, account, used, twice, overtaken, crowded>>

(* USER_LOGIN and ACCOUNT_UNLOCKED clear the count. *)
ResetFailures == failures' = {} /\ locked' = Never

Stale(q, r) == q # r /\ reqs[q].pc \in {"login", "enable", "disable"}
WriteAccount(r, new) ==
    /\ account' = Write(reqs[r].view, new)
    /\ overtaken' = (overtaken \/ ~reqs[r].fresh)
    /\ reqs' = [q \in Requests |-> IF q = r THEN Idle
                                   ELSE IF Stale(q, r) THEN [reqs[q] EXCEPT !.fresh = FALSE] ELSE reqs[q]]

(* The history of codes is kept until columns are written over. *)
Use(c) == /\ used' = IF overtaken' THEN {} ELSE used \cup {c}
          /\ twice' = IF overtaken' THEN {} ELSE twice \cup ({c} \cap used)
UseFirst(codes) == used' = (IF overtaken' THEN {} ELSE codes) /\ twice' = {}

\* MUTANT: the code is checked and not used up.
LoginCommitKept(r) ==
    /\ reqs[r].pc = "login"
    /\ ResetFailures
    /\ IF reqs[r].view.on THEN WriteAccount(r, reqs[r].view) /\ Use(reqs[r].code)
       ELSE Do(r, Idle) /\ UNCHANGED <<account, used, twice, overtaken>>
    /\ UNCHANGED <<now, crowded>>
LoginCommit(r) ==
    /\ reqs[r].pc = "login"
    /\ ResetFailures
    /\ IF reqs[r].view.on
       THEN WriteAccount(r, After(reqs[r].view, reqs[r].code)) /\ Use(reqs[r].code)
       ELSE Do(r, Idle) /\ UNCHANGED <<account, used, twice, overtaken>>
    /\ UNCHANGED <<now, crowded>>

(* _record_failed_login: the row, then the count. *)
NewRow == <<now, CHOOSE n \in 1 .. Cardinality(failures) + 1 : <<now, n>> \notin failures>>
LoginFailed(r) ==
    /\ reqs[r].pc = "failed"
    /\ failures' = failures \cup {NewRow}
    /\ crowded' = (crowded \/ \E q \in Requests : reqs[q].pc = "count")
    /\ Do(r, [Idle EXCEPT !.pc = "count"])
    /\ UNCHANGED <<now, locked, account, used, twice, overtaken>>

LoginCount(r) ==
    /\ reqs[r].pc = "count"
    /\ locked' = IF RecentFailureCount = MaxFailures THEN now ELSE locked
    /\ Do(r, Idle)
    /\ UNCHANGED <<now, failures, account, used, twice, overtaken, crowded>>

UnlockUser == /\ failures # {}
              /\ ResetFailures
              /\ UNCHANGED <<now, account, used, twice, overtaken, crowded, reqs>>

(***************************************************************************)
(* Two-step login on and off.                                              *)
(***************************************************************************)
StartTwoStepSetup ==
    /\ ~account.on
    /\ account' = [account EXCEPT !.pending = TRUE]
    /\ UNCHANGED <<now, failures, locked, used, twice, overtaken, crowded, reqs>>

(* The code is one of the new secret. *)
EnableLoad(r, c) ==
    /\ reqs[r].pc = "idle"
    /\ ~account.on /\ account.pending
    /\ MatchingStep(c, NoStep)
    /\ Do(r, [pc |-> "enable", view |-> account, code |-> c, fresh |-> TRUE])
    /\ UNCHANGED <<now, failures, locked, account, used, twice, overtaken, crowded>>

EnableCommit(r, new) ==
    /\ reqs[r].pc = "enable"
    /\ new \subseteq Recovery /\ Cardinality(new) = Given
    /\ WriteAccount(r, [on |-> TRUE, pending |-> FALSE, last |-> reqs[r].code, codes |-> new])
    /\ UseFirst({reqs[r].code})
    /\ UNCHANGED <<now, failures, locked, crowded>>

(* With the password and a code; the code is not counted as a login. *)
DisableLoad(r, c) ==
    /\ reqs[r].pc = "idle"
    /\ account.on /\ Accepted(c, account)
    /\ Do(r, [pc |-> "disable", view |-> account, code |-> c, fresh |-> TRUE])
    /\ UNCHANGED <<now, failures, locked, account, used, twice, overtaken, crowded>>

DisableCommit(r) ==
    /\ reqs[r].pc = "disable"
    /\ WriteAccount(r, Off) /\ UseFirst({})
    /\ UNCHANGED <<now, failures, locked, crowded>>

(* scripts/reset_two_step.py, run on the server in one go. *)
ResetTwoStep ==
    /\ account.on
    /\ UNCHANGED <<now, failures, locked, overtaken, crowded>>
    /\ account' = Off /\ UseFirst({})
    /\ reqs' = [q \in Requests |-> IF reqs[q].pc \in {"login", "disable"} THEN [reqs[q] EXCEPT !.fresh = FALSE] ELSE reqs[q]]

Next ==
    \/ Tick
    \/ \E r \in Requests : LoginCheck(r) \/ LoginAsks(r) \/ LoginCommit(r) \/ LoginFailed(r) \/ LoginCount(r) \/ DisableCommit(r)
    \/ \E r \in Requests, password \in BOOLEAN, c \in Codes : LoginLoad(r, password, c)
    \/ \E r \in Requests, c \in Codes : EnableLoad(r, c) \/ DisableLoad(r, c)
    \/ \E r \in Requests, new \in SUBSET Recovery : EnableCommit(r, new)
    \/ UnlockUser \/ StartTwoStepSetup \/ ResetTwoStep

Spec == Init /\ [][Next]_vars

(* Within the window at most as many wrong passwords and codes are checked *)
(* as the limit allows, and one more for every request that looked at the  *)
(* lockout before it fell (auth.py login_user, login_lockout.py).          *)
FailuresBounded == RecentFailureCount < MaxFailures + Cardinality(Requests)

(* When no failure is recorded while another is being counted, an account  *)
(* that is locked has an ACCOUNT_LOCKED row no older than the window       *)
(* (auth.py _record_failed_login: a count that skips the limit writes      *)
(* none).  With more requests at a time than the limit this fails: those   *)
(* that looked at the lockout before it fell keep the account locked after *)
(* the row has left the window.                                            *)
LockIsRecorded ==
    (/\ IsUsernameLocked /\ ~crowded /\ \A r \in Requests : reqs[r].pc # "count"
     /\ Cardinality(Requests) <= MaxFailures) => locked >= now - Window

(* While no request has written over another's two-step columns, an        *)
(* authenticator or recovery code logs in once (auth.py _accept_code,      *)
(* two_step.py matching_step).                                             *)
CodesUsedOnce == overtaken \/ twice = {}

(* And the recovery codes that are left are those not used yet.            *)
RecoveryCodesLeft == (~overtaken /\ account.on) => account.codes \cap used = {}

(* An account is locked after the failures the limit allows, and that is   *)
(* on record (auth.py _record_failed_login, login_lockout.py).             *)
LockoutHolds == TypeOK /\ FailuresBounded /\ LockIsRecorded

(* Codes are used up by logging in, turning two-step login on and off and  *)
(* resetting it (auth.py _accept_code, two_step.py).                       *)
CodesAreSpent == CodesUsedOnce /\ RecoveryCodesLeft

(* Wrong passwords and codes lock the account, and a code logs in once     *)
(* (auth.py login_user).                                                   *)
LoginsAreGuarded == LockoutHolds /\ CodesAreSpent
=============================================================================
