------------------------------ MODULE Accounts ------------------------------
(***************************************************************************)
(* User accounts, login sessions and the tokens that carry them, from      *)
(* Backends/backend/routes/auth.py, authentication.py and core.py.         *)
(*                                                                         *)
(* A request that decides on rows it has read loads them in one step,      *)
(* works out what it will write, and commits in a later one; the ORM       *)
(* writes only the columns whose value it changed, and a row that is gone  *)
(* by then fails the whole request.  That includes the session the request *)
(* was made with, whose last_activity every request writes.  One that ends *)
(* sessions has a step in between: its statement takes the rows committed  *)
(* so far, and a login may commit another one before the account changes.  *)
(* Requests that only write what their input says are one step.  The super *)
(* of an account is fixed when it is created, as update_user has it; which *)
(* employees may manage accounts is left open.  Of a password only whether *)
(* it was changed since is kept; codes are in Logins.  Left out: offices,  *)
(* permissions, names and addresses of people.                             *)
(***************************************************************************)
EXTENDS Naturals, FiniteSets

CONSTANTS Users,     \* the ids of accounts, used once each
          Supers,    \* those created as Super Administrators
          Names,     \* usernames
          Sessions,  \* the ids of login sessions, used once each
          Requests,  \* slots for requests the server runs at one time
          None       \* no account, session or name

ASSUME SupersAssumption == Supers \subseteq Users
ASSUME NoneAssumption == None \notin Users \cup Names \cup Sessions

VARIABLES users,     \* the row of users: whether it exists and is active, and its name
          sessions,  \* the row of user_sessions, and the usernames in the tokens handed out for it
          reqs       \* what each request is about to write

vars == <<users, sessions, reqs>>

Idle == [op |-> "idle", by |-> None, user |-> None, name |-> None,
         on |-> TRUE, flip |-> FALSE, fresh |-> TRUE, since |-> "kept",
         sent |-> FALSE, ends |-> {}]
Ops == {"idle", "login", "refresh", "edit", "status", "delete", "password"}

(* What became of a password since it was typed in: changed by its user,   *)
(* reset by an administrator, or neither.                                  *)
Passwords == {"kept", "reset", "changed"}

(* late: its login was overtaken, another request committing between its   *)
(* two steps, or it committed while its user was being signed out.         *)
(* since: of the password it was opened with.  sent, ends: the statement   *)
(* that ends sessions was sent, and the rows it took.                      *)
TypeOK ==
    /\ users \in [Users -> [state : {"unused", "active", "inactive", "deleted"}, name : Names \cup {None}]]
    /\ sessions \in [Sessions -> [state : {"unused", "live", "ended"}, user : Users \cup {None},
                                  tokens : SUBSET Names, late : BOOLEAN, since : Passwords]]
    /\ reqs \in [Requests -> [op : Ops, by : Sessions \cup {None}, user : Users \cup {None},
                              name : Names \cup {None}, on : BOOLEAN, flip : BOOLEAN, fresh : BOOLEAN,
                              since : Passwords, sent : BOOLEAN, ends : SUBSET Sessions]]

Exists(u) == users[u].state \in {"active", "inactive"}
Active(u) == users[u].state = "active"
ActiveSupers == {u \in Supers : Active(u)}
Named(n) == {u \in Users : Exists(u) /\ users[u].name = n}
Live(s) == sessions[s].state = "live"

(* The account the bearer of a token of s for username n is taken for. *)
ActsAs(s, n, u) == /\ n \in sessions[s].tokens
                   /\ u \in Named(n)
                   /\ Active(u)
                   /\ Live(s)
                   /\ sessions[s].user = u

(* s carries a request of an account that may change account u. *)
MayManage(s, u) == \E a \in Users, n \in Names :
    ActsAs(s, n, a) /\ (u \in Supers => a \in Supers)

Init == /\ users = [u \in Users |-> [state |-> "unused", name |-> None]]
        /\ sessions = [s \in Sessions |-> [state |-> "unused", user |-> None, tokens |-> {},
                                           late |-> FALSE, since |-> "kept"]]
        /\ reqs = [r \in Requests |-> Idle]

(***************************************************************************)
(* First steps: what the request reads and refuses.                        *)
(***************************************************************************)
Load(r, job) == /\ reqs[r].op = "idle"
                /\ reqs' = [reqs EXCEPT ![r] = job]
                /\ UNCHANGED <<users, sessions>>

(* The right password for an active account. *)
LoginLoad(r, n) == \E u \in Named(n) :
    /\ Active(u)
    /\ Load(r, [Idle EXCEPT !.op = "login", !.user = u])

RefreshLoad(r, s, n) == \E u \in Users :
    /\ ActsAs(s, n, u)
    /\ Load(r, [Idle EXCEPT !.op = "refresh", !.by = s, !.user = u])

(* An administrator saves the user form: only what differs is written. *)
EditLoad(r, s, u, n, on) ==
    /\ Exists(u) /\ MayManage(s, u)
    /\ Named(n) \subseteq {u}
    /\ Load(r, [Idle EXCEPT !.op = "edit", !.by = s, !.user = u, !.on = on, !.flip = on # Active(u),
                            !.name = IF users[u].name = n THEN None ELSE n])

\* MUTANT: inactive Super Administrators are counted.
NotLastSuperAtAll(u) == u \in ActiveSupers => Cardinality({v \in Supers : Exists(v)}) > 1

(* The last active Super Administrator can be neither deactivated nor deleted. *)
NotLastSuper(u) == u \in ActiveSupers => Cardinality(ActiveSupers) > 1

StatusLoad(r, s, u, on) ==
    /\ Exists(u) /\ MayManage(s, u)
    /\ on \/ NotLastSuper(u)
    /\ Load(r, [Idle EXCEPT !.op = "status", !.by = s, !.user = u, !.on = on, !.flip = on # Active(u)])

DeleteLoad(r, s, u) ==
    /\ Exists(u) /\ MayManage(s, u)
    /\ NotLastSuper(u)
    /\ Load(r, [Idle EXCEPT !.op = "delete", !.by = s, !.user = u])

PasswordLoad(r, s, n) == \E u \in Users :
    /\ ActsAs(s, n, u)
    /\ Load(r, [Idle EXCEPT !.op = "password", !.by = s, !.user = u])

(***************************************************************************)
(* The statement that ends the account's sessions.  A row committed later  *)
(* is not one of them, and none ends before the commit.                    *)
(***************************************************************************)
SessionsOf(u) == {s \in Sessions : sessions[s].user = u}

\* MUTANT: the user form makes an account inactive and ends no session.
EndsSessionsByStatus(r) == \/ reqs[r].op \in {"delete", "password"}
                           \/ reqs[r].op = "status" /\ ~reqs[r].on

EndsSessions(r) == \/ reqs[r].op \in {"delete", "password"}
                   \/ reqs[r].op \in {"edit", "status"} /\ ~reqs[r].on

SignOut(r) ==
    /\ EndsSessions(r) /\ ~reqs[r].sent
    /\ reqs' = [reqs EXCEPT ![r].sent = TRUE, ![r].ends =
                    {s \in SessionsOf(reqs[r].user) : Live(s) /\ (reqs[r].op = "password" => s # reqs[r].by)}]
    /\ UNCHANGED <<users, sessions>>

(***************************************************************************)
(* Last steps: the commit.  A request in flight meanwhile is no longer   *)
(* fresh.                                                                  *)
(***************************************************************************)
Finish(r) == reqs' = [q \in Requests |->
    IF q = r \/ reqs[q].op = "idle" THEN Idle ELSE [reqs[q] EXCEPT !.fresh = FALSE]]

Working(r, op) == /\ reqs[r].op = op
                  /\ Exists(reqs[r].user)
                  /\ reqs[r].by # None => Exists(sessions[reqs[r].by].user)
                  /\ EndsSessions(r) => reqs[r].sent

BeingSignedOut(u) == \E q \in Requests :
    reqs[q].sent /\ reqs[q].op # "delete" /\ reqs[q].user = u

(* The token carries the username as it is after the commit. *)
LoginCommit(r, s) ==
    /\ Working(r, "login")
    /\ sessions[s].state = "unused"
    /\ sessions' = [sessions EXCEPT ![s] = 
            [state |-> "live", user |-> reqs[r].user, tokens |-> {users[reqs[r].user].name},
             late |-> ~reqs[r].fresh \/ BeingSignedOut(reqs[r].user), since |-> reqs[r].since]]
    /\ Finish(r)
    /\ UNCHANGED users

RefreshCommit(r) ==
    /\ Working(r, "refresh")
    /\ sessions' = [sessions EXCEPT ![reqs[r].by].tokens =
                        IF Live(reqs[r].by) THEN @ \cup {users[reqs[r].user].name} ELSE @]
    /\ Finish(r)
    /\ UNCHANGED users

(* Nothing reads again what a session that ended was opened with; its row  *)
(* goes when its account does.                                             *)
Ended(these) == [s \in Sessions |->
    IF s \in these /\ Live(s)
    THEN [state |-> "ended", user |-> sessions[s].user, tokens |-> {}, late |-> FALSE, since |-> "kept"]
    ELSE sessions[s]]

(* Names are unique in the database. *)
ChangeAccount(r) ==
    LET job == reqs[r]
        u == job.user
    IN /\ job.name # None => Named(job.name) \subseteq {u}
       /\ users' = [users EXCEPT ![u].name = IF job.name = None THEN @ ELSE job.name,
                                 ![u].state = IF ~job.flip THEN @ ELSE IF job.on THEN "active" ELSE "inactive"]
       /\ sessions' = Ended(job.ends)
       /\ Finish(r)

EditCommit(r) == Working(r, "edit") /\ ChangeAccount(r)
StatusCommit(r) == Working(r, "status") /\ ChangeAccount(r)

\* MUTANT: the database does not delete what was opened since.
DeleteCommitSeen(r) ==
    LET u == reqs[r].user IN
    /\ Working(r, "delete")
    /\ reqs[r].by \notin SessionsOf(u)
    /\ users' = [users EXCEPT ![u] = [state |-> "deleted", name |-> None]]
    /\ sessions' = Ended(reqs[r].ends)
    /\ Finish(r)

(* Its sessions go first, and with them the one an administrator would     *)
(* delete their own account in: that request fails.  One opened since goes *)
(* with the account, by the foreign key.                                   *)
DeleteCommit(r) ==
    LET u == reqs[r].user IN
    /\ Working(r, "delete")
    /\ reqs[r].by \notin SessionsOf(u)
    /\ users' = [users EXCEPT ![u] = [state |-> "deleted", name |-> None]]
    /\ sessions' = Ended(SessionsOf(u))
    /\ Finish(r)

(* The password of account u is no longer what it was.  A login under way  *)
(* has checked the old one, and so had whoever opened the sessions.        *)
Outdate(since, how) == IF since = "changed" THEN since ELSE how
Overtake(u, how) == [q \in Requests |->
    IF reqs[q].op = "idle" THEN Idle
    ELSE [reqs[q] EXCEPT !.fresh = FALSE,
                         !.since = IF reqs[q].op = "login" /\ reqs[q].user = u THEN Outdate(@, how) ELSE @]]

PasswordCommit(r) ==
    LET u == reqs[r].user
        after == Ended(reqs[r].ends)
    IN /\ Working(r, "password")
       /\ sessions' = [s \in Sessions |->
            IF s \in SessionsOf(u) /\ s # reqs[r].by /\ after[s].state = "live"
            THEN [after[s] EXCEPT !.since = "changed"] ELSE after[s]]
       /\ reqs' = [Overtake(u, "changed") EXCEPT ![r] = Idle]
       /\ UNCHANGED users

(* Refused by the database, a row gone or a name taken: rolled back. *)
Fail(r) == /\ reqs[r].op # "idle"
           /\ reqs' = [reqs EXCEPT ![r] = Idle]
           /\ UNCHANGED <<users, sessions>>

(***************************************************************************)
(* Requests in one step.                                                   *)
(***************************************************************************)
Register(s, u, n) ==
    /\ users[u].state = "unused" /\ MayManage(s, u)
    /\ Named(n) = {}
    /\ users' = [users EXCEPT ![u] = [state |-> "active", name |-> n]]
    /\ reqs' = [r \in Requests |-> IF reqs[r].op = "idle" THEN Idle ELSE [reqs[r] EXCEPT !.fresh = FALSE]]
    /\ UNCHANGED sessions

(* Whoever is signed in stays so. *)
ResetPassword(s, u) ==
    /\ Exists(u) /\ MayManage(s, u)
    /\ sessions' = [t \in Sessions |->
         IF t \in SessionsOf(u) /\ Live(t)
         THEN [sessions[t] EXCEPT !.since = Outdate(@, "reset")] ELSE sessions[t]]
    /\ reqs' = Overtake(u, "reset")
    /\ UNCHANGED users

(* By logging out, or when its seven days are over. *)
EndSession(s) ==
    /\ Live(s)
    /\ sessions' = Ended({s})
    /\ UNCHANGED <<users, reqs>>

(* By a Super Administrator, and never of a Super Administrator's session. *)
RevokeSession(admin, s) ==
    /\ \E a \in Supers, n \in Names : ActsAs(admin, n, a)
    /\ sessions[s].user \notin Supers
    /\ EndSession(s)

(* The server stops and starts again: nothing in flight is kept, and an    *)
(* account is made under the configured name when no Super Administrator   *)
(* is active.                                                              *)
Restart ==
    /\ ActiveSupers # {}
    /\ reqs' = [r \in Requests |-> Idle]
    /\ UNCHANGED <<users, sessions>>

RestartWithout(u, n) ==
    /\ ActiveSupers = {}
    /\ u \in Supers /\ users[u].state = "unused"
    /\ Named(n) = {}
    /\ users' = [users EXCEPT ![u] = [state |-> "active", name |-> n]]
    /\ reqs' = [r \in Requests |-> Idle]
    /\ UNCHANGED sessions

Next ==
    \/ \E r \in Requests, n \in Names : LoginLoad(r, n)
    \/ \E r \in Requests, s \in Sessions, n \in Names : RefreshLoad(r, s, n) \/ PasswordLoad(r, s, n)
    \/ \E r \in Requests, s \in Sessions, u \in Users, n \in Names, on \in BOOLEAN : EditLoad(r, s, u, n, on)
    \/ \E r \in Requests, s \in Sessions, u \in Users, on \in BOOLEAN : StatusLoad(r, s, u, on)
    \/ \E r \in Requests, s \in Sessions, u \in Users : DeleteLoad(r, s, u)
    \/ \E r \in Requests, s \in Sessions : LoginCommit(r, s)
    \/ \E r \in Requests : \/ RefreshCommit(r) \/ EditCommit(r) \/ StatusCommit(r)
                           \/ DeleteCommit(r) \/ PasswordCommit(r) \/ SignOut(r) \/ Fail(r)
    \/ \E s \in Sessions, u \in Users, n \in Names : Register(s, u, n)
    \/ \E s \in Sessions, u \in Users : ResetPassword(s, u)
    \/ \E s \in Sessions : EndSession(s)
    \/ \E admin, s \in Sessions : RevokeSession(admin, s)
    \/ Restart
    \/ \E u \in Users, n \in Names : RestartWithout(u, n)

Spec == Init /\ [][Next]_vars

(***************************************************************************)
(* What holds, with requests interleaved.                                  *)
(***************************************************************************)

(* No session outlives its account, not even one whose login checked the  *)
(* password before the account was deleted and committed while it was: the *)
(* row goes with the account, or the login fails (auth.py delete_user,     *)
(* login_user, models.py UserSession.user_id).                             *)
SessionsHaveAccounts == TypeOK /\ \A s \in Sessions : Live(s) => Exists(sessions[s].user)

(* Deactivating an account signs it out everywhere, so reactivating it     *)
(* later brings back no session, except one whose login was overtaken or   *)
(* committed while its sessions were being ended (auth.py                  *)
(* _revoke_user_sessions, update_user, update_user_status, login_user).    *)
InactiveSignedOut == \A s \in Sessions : Live(s) /\ ~Active(sessions[s].user) => sessions[s].late

(* After its user changes a password only the session it was done in is    *)
(* signed in with the old one, with the same exception.  A password reset  *)
(* by an administrator ends no session (auth.py change_my_password,        *)
(* reset_user_password).                                                   *)
OldPasswordSignedOut ==
    \A s \in Sessions : Live(s) /\ sessions[s].since = "changed" => sessions[s].late

(* Deactivating, and changing one's password, signs out whoever it should, *)
(* but for a login that overlapped it (auth.py update_user,                *)
(* update_user_status, change_my_password).                                *)
SignedOut == InactiveSignedOut /\ OldPasswordSignedOut

(* The system is left with no active Super Administrator only by the user  *)
(* form, or by a request that counted them before another one committed    *)
(* (auth.py delete_user, update_user_status, update_user).                 *)
SupersRemain == [][ActiveSupers # {} /\ ActiveSupers' = {} =>
    \E r \in Requests : reqs'[r] = Idle /\ (reqs[r].op = "edit" \/ ~reqs[r].fresh)]_vars
=============================================================================
