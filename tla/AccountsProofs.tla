--------------------------- MODULE AccountsProofs ---------------------------
(***************************************************************************)
(* Proofs about Accounts for any accounts, names, login sessions and       *)
(* number of concurrent requests.                                          *)
(*                                                                         *)
(* The inductive invariant adds to the properties what a request may still *)
(* rely on when it commits: of one that no other has overtaken, that the   *)
(* account it logs in is active, and the one it deactivates or deletes not *)
(* the last Super Administrator; of one that ends sessions, that those it  *)
(* did not take were opened while it was under way.                        *)
(***************************************************************************)
EXTENDS Accounts, FiniteSetTheorems, TLAPS

(* What a request read, as far as its commit relies on it. *)
Checked(r) ==
    LET job == reqs[r] IN
    /\ job.op # "idle" => job.user \in Users
    /\ job.op = "login" /\ job.fresh => job.since = "kept" /\ Active(job.user)
    /\ (job.op = "delete" \/ (job.op = "status" /\ ~job.on)) /\ job.fresh => NotLastSuper(job.user)

(* A statement that ends sessions took all there were; since then only     *)
(* logins that overlap the request have opened one.                        *)
Taken(r) ==
    LET job == reqs[r] IN
    job.sent /\ job.op # "delete" =>
        \A s \in Sessions : Live(s) /\ sessions[s].user = job.user =>
            s \in job.ends \/ sessions[s].late \/ (job.op = "password" /\ s = job.by)

(* A session belongs to an account from the moment it is opened. *)
Opened == \A s \in Sessions : Live(s) => sessions[s].user \in Users /\ Exists(sessions[s].user)

(* An account has a username until it is deleted. *)
HaveNames == \A u \in Users : Exists(u) => users[u].name \in Names

IInv ==
    /\ TypeOK
    /\ HaveNames
    /\ Opened
    /\ SignedOut
    /\ \A r \in Requests : Checked(r) /\ Taken(r)

-----------------------------------------------------------------------------
(* Lemmas about the operators *)

UserRows == [state : {"unused", "active", "inactive", "deleted"}, name : Names \cup {None}]
SessionRows == [state : {"unused", "live", "ended"}, user : Users \cup {None},
                tokens : SUBSET Names, late : BOOLEAN, since : Passwords]
Jobs == [op : Ops, by : Sessions \cup {None}, user : Users \cup {None},
         name : Names \cup {None}, on : BOOLEAN, flip : BOOLEAN, fresh : BOOLEAN,
         since : Passwords, sent : BOOLEAN, ends : SUBSET Sessions]

LEMMA Types ==
    TypeOK <=> /\ users \in [Users -> UserRows]
               /\ sessions \in [Sessions -> SessionRows]
               /\ reqs \in [Requests -> Jobs]
  BY DEF TypeOK, UserRows, SessionRows, Jobs

LEMMA TypesNext ==
    ASSUME users' \in [Users -> UserRows], sessions' \in [Sessions -> SessionRows],
           reqs' \in [Requests -> Jobs]
    PROVE  TypeOK'
  BY DEF TypeOK, UserRows, SessionRows, Jobs

LEMMA IdleJob == Idle \in Jobs /\ Idle.op = "idle" /\ ~Idle.sent
  BY DEF Idle, Jobs, Ops, Passwords

(* Ending sessions leaves the other ones, and whose each one is, alone. *)
LEMMA EndedSessions ==
    ASSUME TypeOK, NEW these \in SUBSET Sessions
    PROVE  /\ Ended(these) \in [Sessions -> SessionRows]
           /\ \A s \in Sessions :
                 /\ Ended(these)[s].user = sessions[s].user
                 /\ s \in these => Ended(these)[s].state # "live"
                 /\ Ended(these)[s].state = "live" => Ended(these)[s] = sessions[s]
  <1>1. sessions \in [Sessions -> SessionRows]
    BY Types
  <1>2. ASSUME NEW s \in Sessions
        PROVE  [state |-> "ended", user |-> sessions[s].user, tokens |-> {},
                late |-> FALSE, since |-> "kept"] \in SessionRows
    BY <1>1 DEF SessionRows, Passwords
  <1>3. Ended(these) \in [Sessions -> SessionRows]
    BY <1>1, <1>2 DEF Ended
  <1>4. ASSUME NEW s \in Sessions
        PROVE  /\ Ended(these)[s].user = sessions[s].user
               /\ s \in these => Ended(these)[s].state # "live"
               /\ Ended(these)[s].state = "live" => Ended(these)[s] = sessions[s]
    BY DEF Ended, Live
  <1> QED
    BY <1>3, <1>4

(* Where a Super Administrator is not the last active one, another is. *)
LEMMA AnotherSuper ==
    ASSUME NEW u \in Users, NotLastSuper(u), ActiveSupers # {}
    PROVE  \E v \in ActiveSupers : v # u
  <1> SUFFICES ASSUME \A v \in ActiveSupers : v = u PROVE FALSE
    OBVIOUS
  <1>1. ActiveSupers = {u}
    OBVIOUS
  <1>2. Cardinality(ActiveSupers) = 1
    BY <1>1, FS_Singleton
  <1> QED
    BY <1>1, <1>2 DEF NotLastSuper

(* Every commit overtakes the requests in flight: each is over or no       *)
(* longer fresh.                                                           *)
Overtaken ==
    \A q \in Requests :
        \/ reqs'[q] = Idle
        \/ /\ reqs[q].op # "idle"
           /\ reqs'[q].op = reqs[q].op /\ reqs'[q].user = reqs[q].user /\ reqs'[q].by = reqs[q].by
           /\ reqs'[q].sent = reqs[q].sent /\ reqs'[q].ends = reqs[q].ends
           /\ ~reqs'[q].fresh

LEMMA OvertakenChecked ==
    ASSUME IInv, Overtaken
    PROVE  \A r \in Requests : Checked(r)'
  BY DEF IInv, Overtaken, Checked, Idle

LEMMA FinishJobs ==
    ASSUME TypeOK, NEW r \in Requests, Finish(r)
    PROVE  reqs' \in [Requests -> Jobs] /\ Overtaken /\ reqs'[r] = Idle
  <1>1. reqs \in [Requests -> Jobs]
    BY Types
  <1>2. ASSUME NEW q \in Requests PROVE [reqs[q] EXCEPT !.fresh = FALSE] \in Jobs
    BY <1>1 DEF Jobs
  <1>3. reqs' \in [Requests -> Jobs]
    BY <1>2, IdleJob DEF Finish
  <1>4. Overtaken
    BY <1>1 DEF Finish, Overtaken, Jobs
  <1> QED
    BY <1>3, <1>4 DEF Finish

-----------------------------------------------------------------------------
(* Steps of a request before its commit, and a request that ends without  *)
(* a word                                                                  *)

(* What such a step leaves alone. *)
LEMMA RequestStep ==
    ASSUME IInv, NEW r \in Requests, NEW job \in Jobs,
           reqs' = [reqs EXCEPT ![r] = job], UNCHANGED <<users, sessions>>,
           /\ job.op # "idle" => job.user \in Users
           /\ job.op = "login" /\ job.fresh => job.since = "kept" /\ Active(job.user)
           /\ (job.op = "delete" \/ (job.op = "status" /\ ~job.on)) /\ job.fresh => NotLastSuper(job.user)
           /\ job.sent /\ job.op # "delete" =>
                \A s \in Sessions : Live(s) /\ sessions[s].user = job.user =>
                    s \in job.ends \/ sessions[s].late \/ (job.op = "password" /\ s = job.by)
    PROVE  IInv'
  <1>1. TypeOK'
    BY Types, TypesNext DEF IInv
  <1>2. HaveNames' /\ Opened' /\ SignedOut'
    BY DEF IInv, HaveNames, Exists, Opened, SignedOut, InactiveSignedOut,
           OldPasswordSignedOut, Live, Active
  <1>3. reqs \in [Requests -> Jobs]
    BY Types DEF IInv
  <1>4. ASSUME NEW q \in Requests PROVE Checked(q)'
    <2>1. CASE q = r
      BY <1>3, <2>1 DEF Checked, Active, NotLastSuper, ActiveSupers
    <2>2. CASE q # r
      BY <1>3, <2>2 DEF IInv, Checked, Active, NotLastSuper, ActiveSupers
    <2> QED
      BY <2>1, <2>2
  <1>5. ASSUME NEW q \in Requests PROVE Taken(q)'
    <2>1. CASE q = r
      BY <1>3, <2>1 DEF Taken, Live
    <2>2. CASE q # r
      BY <1>3, <2>2 DEF IInv, Taken, Live
    <2> QED
      BY <2>1, <2>2
  <1> QED
    BY <1>1, <1>2, <1>4, <1>5 DEF IInv

LEMMA LoadStep ==
    ASSUME IInv, NEW r \in Requests, NEW job \in Jobs, Load(r, job),
           /\ job.user \in Users /\ ~job.sent
           /\ job.op = "login" => job.since = "kept" /\ Active(job.user)
           /\ job.op = "delete" \/ (job.op = "status" /\ ~job.on) => NotLastSuper(job.user)
    PROVE  IInv'
  BY RequestStep DEF Load

LEMMA FailStep ==
    ASSUME IInv, NEW r \in Requests, Fail(r)
    PROVE  IInv'
  BY RequestStep, IdleJob DEF Fail, Idle

(* The statement takes every session there is but the one kept. *)
LEMMA SignOutStep ==
    ASSUME IInv, NEW r \in Requests, SignOut(r)
    PROVE  IInv'
  <1> DEFINE these == {s \in SessionsOf(reqs[r].user) : Live(s) /\ (reqs[r].op = "password" => s # reqs[r].by)}
  <1> DEFINE job == [reqs[r] EXCEPT !.sent = TRUE, !.ends = these]
  <1>1. reqs \in [Requests -> Jobs]
    BY Types DEF IInv
  <1>2. these \in SUBSET Sessions
    BY DEF SessionsOf
  <1>3. \A s \in Sessions : Live(s) /\ sessions[s].user = reqs[r].user =>
            s \in these \/ (reqs[r].op = "password" /\ s = reqs[r].by)
    BY DEF SessionsOf
  <1>4. reqs' = [reqs EXCEPT ![r] = job] /\ UNCHANGED <<users, sessions>>
    BY <1>1 DEF SignOut
  <1> HIDE DEF these
  <1>5. /\ job \in Jobs
        /\ job.op = reqs[r].op /\ job.user = reqs[r].user /\ job.by = reqs[r].by /\ job.on = reqs[r].on
        /\ job.fresh = reqs[r].fresh /\ job.since = reqs[r].since /\ job.ends = these
    BY <1>1, <1>2 DEF Jobs
  <1>6. Checked(r)
    BY DEF IInv
  <1> HIDE DEF job
  <1> QED
    BY <1>3, <1>4, <1>5, <1>6, RequestStep DEF Checked

(* The jobs an administrator's requests load. *)
LEMMA EditLoadStep ==
    ASSUME IInv, NEW r \in Requests, NEW s \in Sessions, NEW u \in Users, NEW n \in Names,
           NEW on \in BOOLEAN, EditLoad(r, s, u, n, on)
    PROVE  IInv'
  <1> DEFINE job == [Idle EXCEPT !.op = "edit", !.by = s, !.user = u, !.on = on, !.flip = on # Active(u),
                                 !.name = IF users[u].name = n THEN None ELSE n]
  <1>1. (on # Active(u)) \in BOOLEAN
    BY DEF Active
  <1>2. job \in Jobs /\ job.op = "edit" /\ job.user = u /\ ~job.sent
    BY <1>1 DEF Idle, Jobs, Ops, Passwords
  <1>3. Load(r, job)
    BY DEF EditLoad
  <1> HIDE DEF job
  <1> QED
    BY <1>2, <1>3, LoadStep

LEMMA StatusLoadStep ==
    ASSUME IInv, NEW r \in Requests, NEW s \in Sessions, NEW u \in Users,
           NEW on \in BOOLEAN, StatusLoad(r, s, u, on)
    PROVE  IInv'
  <1> DEFINE job == [Idle EXCEPT !.op = "status", !.by = s, !.user = u, !.on = on, !.flip = on # Active(u)]
  <1>1. (on # Active(u)) \in BOOLEAN
    BY DEF Active
  <1>2. job \in Jobs /\ job.op = "status" /\ job.user = u /\ job.on = on /\ ~job.sent
    BY <1>1 DEF Idle, Jobs, Ops, Passwords
  <1>3. Load(r, job) /\ (on \/ NotLastSuper(u))
    BY DEF StatusLoad
  <1> HIDE DEF job
  <1> QED
    BY <1>2, <1>3, LoadStep

LEMMA DeleteLoadStep ==
    ASSUME IInv, NEW r \in Requests, NEW s \in Sessions, NEW u \in Users, DeleteLoad(r, s, u)
    PROVE  IInv'
  <1> DEFINE job == [Idle EXCEPT !.op = "delete", !.by = s, !.user = u]
  <1>1. job \in Jobs /\ job.op = "delete" /\ job.user = u /\ ~job.sent
    BY DEF Idle, Jobs, Ops, Passwords
  <1>2. Load(r, job) /\ NotLastSuper(u)
    BY DEF DeleteLoad
  <1> HIDE DEF job
  <1> QED
    BY <1>1, <1>2, LoadStep

-----------------------------------------------------------------------------
(* Commits *)

(* A session that is live afterwards was so before.  If its account is no  *)
(* longer active, or its user has changed the password, its login          *)
(* overlapped that.                                                        *)
OnlyEnds ==
    \A s \in Sessions : sessions'[s].state = "live" =>
        /\ sessions[s].state = "live"
        /\ sessions'[s].user = sessions[s].user
        /\ sessions'[s].late = sessions[s].late
        /\ sessions'[s].since = "changed" => sessions[s].since = "changed" \/ sessions[s].late
        /\ \/ users'[sessions[s].user].state = users[sessions[s].user].state
           \/ users'[sessions[s].user].state = "active"
           \/ users'[sessions[s].user].state = "inactive" /\ sessions[s].late

LEMMA OnlyEndsKeeps ==
    ASSUME IInv, OnlyEnds
    PROVE  Opened' /\ SignedOut'
  BY DEF IInv, OnlyEnds, Opened, SignedOut, InactiveSignedOut, OldPasswordSignedOut, Live, Active, Exists

LEMMA OnlyEndsTaken ==
    ASSUME IInv, OnlyEnds, Overtaken
    PROVE  \A r \in Requests : Taken(r)'
  <1> SUFFICES ASSUME NEW r \in Requests PROVE Taken(r)'
    OBVIOUS
  <1>1. CASE reqs'[r] = Idle
    BY <1>1, IdleJob DEF Taken
  <1>2. CASE reqs'[r] # Idle
    BY <1>2 DEF IInv, OnlyEnds, Overtaken, Taken, Live
  <1> QED
    BY <1>1, <1>2

(* What a commit leaves, put together. *)
LEMMA CommitStep ==
    ASSUME IInv, users' \in [Users -> UserRows], sessions' \in [Sessions -> SessionRows],
           reqs' \in [Requests -> Jobs], Overtaken, HaveNames', OnlyEnds
    PROVE  IInv'
  <1>1. TypeOK'
    BY TypesNext
  <1>2. \A r \in Requests : Checked(r)' /\ Taken(r)'
    BY OvertakenChecked, OnlyEndsTaken
  <1> QED
    BY <1>1, <1>2, OnlyEndsKeeps DEF IInv

LEMMA LoginStep ==
    ASSUME IInv, NEW r \in Requests, NEW s \in Sessions, LoginCommit(r, s)
    PROVE  IInv'
  <1> DEFINE u == reqs[r].user
  <1> DEFINE late == ~reqs[r].fresh \/ BeingSignedOut(u)
  <1> DEFINE row == [state |-> "live", user |-> u, tokens |-> {users[u].name},
                     late |-> late, since |-> reqs[r].since]
  <1>1. /\ users \in [Users -> UserRows]
        /\ sessions \in [Sessions -> SessionRows]
        /\ reqs \in [Requests -> Jobs]
    BY Types DEF IInv
  <1>2. /\ reqs[r].op = "login" /\ Exists(u) /\ Finish(r)
        /\ sessions' = [sessions EXCEPT ![s] = row]
        /\ users' = users
    BY DEF LoginCommit, Working
  <1>3. /\ u \in Users
        /\ reqs[r].fresh => reqs[r].since = "kept" /\ Active(u)
    BY <1>2 DEF IInv, Checked
  <1>4. late \in BOOLEAN
    BY <1>1 DEF Jobs, BeingSignedOut
  <1>5. row \in SessionRows
    BY <1>1, <1>2, <1>3, <1>4 DEF SessionRows, Jobs, IInv, HaveNames
  <1>6. ~late => reqs[r].fresh /\ ~BeingSignedOut(u)
    BY <1>1 DEF Jobs
  <1>7. /\ sessions'[s].state = "live" /\ sessions'[s].user = u
        /\ sessions'[s].late = late /\ sessions'[s].since = reqs[r].since
        /\ \A t \in Sessions \ {s} : sessions'[t] = sessions[t]
    BY <1>1, <1>2
  <1> HIDE DEF row, late, u
  <1>8. ASSUME NEW t \in Sessions, Live(t)'
        PROVE  /\ sessions'[t].user \in Users /\ Exists(sessions[t].user)'
               /\ ~Active(sessions[t].user)' => sessions'[t].late
               /\ sessions'[t].since = "changed" => sessions'[t].late
    <2>1. CASE t = s
      BY <1>2, <1>3, <1>4, <1>6, <1>7, <2>1 DEF Active, Exists
    <2>2. CASE t # s
      BY <1>2, <1>7, <1>8, <2>2 DEF IInv, Opened, SignedOut, InactiveSignedOut, OldPasswordSignedOut,
                                    Live, Active, Exists
    <2> QED
      BY <2>1, <2>2
  <1>9. Opened' /\ SignedOut' /\ HaveNames'
    BY <1>2, <1>8 DEF Opened, SignedOut, InactiveSignedOut, OldPasswordSignedOut, IInv, HaveNames, Exists
  <1>10. reqs' \in [Requests -> Jobs] /\ Overtaken
    BY <1>2, FinishJobs DEF IInv
  <1>11. ASSUME NEW q \in Requests PROVE Taken(q)'
    <2>1. CASE reqs'[q] = Idle
      BY <2>1, IdleJob DEF Taken
    <2>2. CASE reqs'[q] # Idle
      <3>1. /\ reqs'[q].op = reqs[q].op /\ reqs'[q].user = reqs[q].user /\ reqs'[q].by = reqs[q].by
            /\ reqs'[q].sent = reqs[q].sent /\ reqs'[q].ends = reqs[q].ends
        BY <1>10, <2>2 DEF Overtaken
      <3>2. reqs[q].sent /\ reqs[q].op # "delete" /\ reqs[q].user = u => sessions'[s].late
        BY <1>6, <1>7 DEF BeingSignedOut
      <3>3. Taken(q)
        BY DEF IInv
      <3> QED
        BY <1>7, <3>1, <3>2, <3>3 DEF Taken, Live
    <2> QED
      BY <2>1, <2>2
  <1>12. TypeOK'
    BY <1>1, <1>2, <1>5, <1>10, TypesNext
  <1>13. \A q \in Requests : Checked(q)'
    BY <1>10, OvertakenChecked
  <1> QED
    BY <1>9, <1>11, <1>12, <1>13 DEF IInv

LEMMA RefreshStep ==
    ASSUME IInv, NEW r \in Requests, RefreshCommit(r)
    PROVE  IInv'
  <1> DEFINE by == reqs[r].by
  <1> DEFINE more == IF Live(by) THEN sessions[by].tokens \cup {users[reqs[r].user].name}
                     ELSE sessions[by].tokens
  <1>1. /\ users \in [Users -> UserRows]
        /\ sessions \in [Sessions -> SessionRows]
        /\ reqs \in [Requests -> Jobs]
    BY Types DEF IInv
  <1>2. /\ reqs[r].op = "refresh" /\ Exists(reqs[r].user) /\ Finish(r)
        /\ sessions' = [sessions EXCEPT ![by].tokens = more]
        /\ users' = users
    BY DEF RefreshCommit, Working
  <1>3. users[reqs[r].user].name \in Names
    BY <1>2 DEF IInv, Checked, HaveNames
  <1>4. sessions' \in [Sessions -> SessionRows]
    <2>1. by \in Sessions => more \in SUBSET Names
      BY <1>1, <1>3 DEF SessionRows
    <2> HIDE DEF by, more
    <2> QED
      BY <1>1, <1>2, <2>1 DEF SessionRows
  <1>5. OnlyEnds
    <2> HIDE DEF by, more
    <2> QED
      BY <1>1, <1>2 DEF OnlyEnds, SessionRows
  <1>6. HaveNames'
    BY <1>2 DEF IInv, HaveNames, Exists
  <1>7. reqs' \in [Requests -> Jobs] /\ Overtaken
    BY <1>2, FinishJobs DEF IInv
  <1> QED
    BY <1>1, <1>2, <1>4, <1>5, <1>6, <1>7, CommitStep

(* What a new password makes of the requests under way. *)
LEMMA OvertakeJobs ==
    ASSUME IInv, NEW u \in Users, NEW how \in Passwords, NEW r \in Requests,
           reqs' = Overtake(u, how) \/ reqs' = [Overtake(u, how) EXCEPT ![r] = Idle]
    PROVE  reqs' \in [Requests -> Jobs] /\ Overtaken
  <1> DEFINE new(q) == [reqs[q] EXCEPT !.fresh = FALSE,
                          !.since = IF reqs[q].op = "login" /\ reqs[q].user = u THEN Outdate(@, how) ELSE @]
  <1>1. reqs \in [Requests -> Jobs]
    BY Types DEF IInv
  <1>2. ASSUME NEW q \in Requests
        PROVE  /\ new(q) \in Jobs /\ ~new(q).fresh
               /\ new(q).op = reqs[q].op /\ new(q).user = reqs[q].user /\ new(q).by = reqs[q].by
               /\ new(q).sent = reqs[q].sent /\ new(q).ends = reqs[q].ends
    BY <1>1 DEF Jobs, Outdate
  <1> HIDE DEF new
  <1>3. Overtake(u, how) = [q \in Requests |-> IF reqs[q].op = "idle" THEN Idle ELSE new(q)]
    BY DEF Overtake, new
  <1>4. reqs' \in [Requests -> Jobs]
    BY <1>2, <1>3, IdleJob
  <1>5. \A q \in Requests : reqs'[q] = Idle \/ (reqs[q].op # "idle" /\ reqs'[q] = new(q))
    BY <1>3
  <1> QED
    BY <1>2, <1>4, <1>5 DEF Overtaken

(* The password is changed: the other sessions of the account end, but     *)
(* those whose login overlapped the change.                                *)
LEMMA PasswordStep ==
    ASSUME IInv, NEW r \in Requests, PasswordCommit(r)
    PROVE  IInv'
  <1> DEFINE u == reqs[r].user
  <1> DEFINE after == Ended(reqs[r].ends)
  <1>1. /\ users \in [Users -> UserRows]
        /\ reqs \in [Requests -> Jobs]
    BY Types DEF IInv
  <1>2. /\ reqs[r].op = "password" /\ reqs[r].sent /\ users' = users
        /\ sessions' = [s \in Sessions |->
             IF s \in SessionsOf(u) /\ s # reqs[r].by /\ after[s].state = "live"
             THEN [after[s] EXCEPT !.since = "changed"] ELSE after[s]]
        /\ reqs' = [Overtake(u, "changed") EXCEPT ![r] = Idle]
    BY DEF PasswordCommit, Working, EndsSessions
  <1>3. reqs[r].ends \in SUBSET Sessions
    BY <1>1 DEF Jobs
  <1>4. /\ after \in [Sessions -> SessionRows]
        /\ \A s \in Sessions :
              /\ s \in reqs[r].ends => after[s].state # "live"
              /\ after[s].state = "live" => after[s] = sessions[s]
    BY <1>3, EndedSessions DEF IInv
  <1>5. u \in Users /\ Taken(r)
    BY <1>2 DEF IInv, Checked
  <1> HIDE DEF after
  <1>6. ASSUME NEW s \in Sessions
        PROVE  /\ sessions'[s] \in SessionRows
               /\ sessions'[s].state = after[s].state /\ sessions'[s].user = after[s].user
               /\ sessions'[s].late = after[s].late
               /\ \/ sessions'[s].since = after[s].since
                  \/ s \in SessionsOf(u) /\ s # reqs[r].by
    <2>1. after[s] \in SessionRows
      BY <1>4
    <2>2. [after[s] EXCEPT !.since = "changed"] \in SessionRows
      BY <2>1 DEF SessionRows, Passwords
    <2> QED
      BY <1>2, <2>1, <2>2 DEF SessionRows
  <1>7. sessions' \in [Sessions -> SessionRows]
    BY <1>2, <1>6
  <1>8. OnlyEnds
    <2> SUFFICES ASSUME NEW s \in Sessions, sessions'[s].state = "live"
                 PROVE  /\ sessions[s].state = "live"
                        /\ sessions'[s].user = sessions[s].user
                        /\ sessions'[s].late = sessions[s].late
                        /\ sessions'[s].since = "changed" => sessions[s].since = "changed" \/ sessions[s].late
      BY <1>2 DEF OnlyEnds
    <2>1. after[s].state = "live" /\ after[s] = sessions[s] /\ s \notin reqs[r].ends
      BY <1>4, <1>6
    <2>2. s \in SessionsOf(u) /\ s # reqs[r].by => sessions[s].late
      BY <1>2, <1>5, <2>1 DEF Taken, Live, SessionsOf
    <2> QED
      BY <1>6, <2>1, <2>2
  <1>9. HaveNames'
    BY <1>2 DEF IInv, HaveNames, Exists
  <1>10. reqs' \in [Requests -> Jobs] /\ Overtaken
    BY <1>2, <1>5, OvertakeJobs DEF Passwords
  <1> QED
    BY <1>1, <1>2, <1>7, <1>8, <1>9, <1>10, CommitStep

(* A reset ends no session, and changes none that its user had outdated.   *)
LEMMA ResetStep ==
    ASSUME IInv, NEW by \in Sessions, NEW u \in Users, ResetPassword(by, u)
    PROVE  IInv'
  <1>1. /\ sessions \in [Sessions -> SessionRows]
        /\ users \in [Users -> UserRows]
        /\ reqs \in [Requests -> Jobs]
    BY Types DEF IInv
  <1>2. /\ users' = users
        /\ sessions' = [t \in Sessions |->
             IF t \in SessionsOf(u) /\ Live(t)
             THEN [sessions[t] EXCEPT !.since = Outdate(@, "reset")] ELSE sessions[t]]
        /\ reqs' = Overtake(u, "reset")
    BY DEF ResetPassword
  <1>3. ASSUME NEW s \in Sessions
        PROVE  /\ sessions'[s] \in SessionRows
               /\ sessions'[s].state = sessions[s].state /\ sessions'[s].user = sessions[s].user
               /\ sessions'[s].late = sessions[s].late
               /\ sessions'[s].since = "changed" => sessions[s].since = "changed"
    <2>1. [sessions[s] EXCEPT !.since = Outdate(@, "reset")] \in SessionRows
      BY <1>1 DEF SessionRows, Passwords, Outdate
    <2> QED
      BY <1>1, <1>2, <2>1 DEF SessionRows, Outdate
  <1>4. sessions' \in [Sessions -> SessionRows] /\ OnlyEnds
    BY <1>2, <1>3 DEF OnlyEnds
  <1>5. HaveNames'
    BY <1>2 DEF IInv, HaveNames, Exists
  <1>6. ASSUME NEW r \in Requests PROVE IInv'
    <2>1. reqs' \in [Requests -> Jobs] /\ Overtaken
      BY <1>2, OvertakeJobs DEF Passwords
    <2> QED
      BY <1>1, <1>2, <1>4, <1>5, <2>1, CommitStep
  <1>7. ASSUME Requests = {} PROVE IInv'
    <2>1. reqs' \in [Requests -> Jobs] /\ Overtaken
      BY <1>2, <1>7 DEF Overtaken, Overtake
    <2> QED
      BY <1>1, <1>2, <1>4, <1>5, <2>1, CommitStep
  <1> QED
    BY <1>6, <1>7

(* What ChangeAccount makes of an account and its sessions. *)
LEMMA Changed ==
    ASSUME IInv, NEW r \in Requests, Exists(reqs[r].user), reqs[r].op # "idle", ChangeAccount(r)
    PROVE  /\ users' \in [Users -> UserRows]
           /\ users'[reqs[r].user].name =
                 IF reqs[r].name = None THEN users[reqs[r].user].name ELSE reqs[r].name
           /\ users'[reqs[r].user].state =
                 IF ~reqs[r].flip THEN users[reqs[r].user].state
                 ELSE IF reqs[r].on THEN "active" ELSE "inactive"
           /\ \A v \in Users \ {reqs[r].user} : users'[v] = users[v]
  <1> DEFINE u == reqs[r].user
  <1> DEFINE name == IF reqs[r].name = None THEN users[u].name ELSE reqs[r].name
  <1> DEFINE state == IF ~reqs[r].flip THEN users[u].state ELSE IF reqs[r].on THEN "active" ELSE "inactive"
  <1>1. users \in [Users -> UserRows] /\ reqs[r] \in Jobs /\ u \in Users
    BY Types DEF IInv, Checked
  <1>2. users' = [users EXCEPT ![u].name = name, ![u].state = state]
    BY <1>1 DEF ChangeAccount, UserRows
  <1>3. name \in Names \cup {None} /\ state \in {"unused", "active", "inactive", "deleted"}
    BY <1>1 DEF UserRows, Jobs
  <1> HIDE DEF u, name, state
  <1>4. /\ users' \in [Users -> UserRows] /\ users'[u].name = name /\ users'[u].state = state
        /\ \A v \in Users \ {u} : users'[v] = users[v]
    BY <1>1, <1>2, <1>3 DEF UserRows
  <1> QED
    BY <1>4 DEF u, name, state

LEMMA ChangeStep ==
    ASSUME IInv, NEW r \in Requests, EditCommit(r) \/ StatusCommit(r)
    PROVE  IInv'
  <1> DEFINE u == reqs[r].user
  <1>1. /\ reqs[r].op \in {"edit", "status"} /\ Exists(u) /\ ChangeAccount(r)
        /\ ~reqs[r].on => reqs[r].sent
        /\ sessions' = Ended(reqs[r].ends)
        /\ Finish(r)
    BY DEF EditCommit, StatusCommit, Working, EndsSessions, ChangeAccount
  <1>2. /\ users \in [Users -> UserRows] /\ reqs[r] \in Jobs /\ u \in Users /\ Taken(r)
    BY <1>1, Types DEF IInv, Checked
  <1>3. /\ users' \in [Users -> UserRows]
        /\ users'[u].name = IF reqs[r].name = None THEN users[u].name ELSE reqs[r].name
        /\ users'[u].state = IF ~reqs[r].flip THEN users[u].state
                             ELSE IF reqs[r].on THEN "active" ELSE "inactive"
        /\ \A v \in Users \ {u} : users'[v] = users[v]
    BY <1>1, Changed
  <1> HIDE DEF u
  <1>4. HaveNames'
    BY <1>1, <1>2, <1>3 DEF IInv, HaveNames, Exists, Jobs
  <1>5. /\ sessions' \in [Sessions -> SessionRows]
        /\ \A s \in Sessions : sessions'[s].state = "live" =>
              sessions'[s] = sessions[s] /\ s \notin reqs[r].ends
    BY <1>1, <1>2, EndedSessions DEF IInv, Jobs
  <1>6. OnlyEnds
    <2> SUFFICES ASSUME NEW s \in Sessions, sessions'[s].state = "live"
                 PROVE  \/ users'[sessions[s].user].state = users[sessions[s].user].state
                        \/ users'[sessions[s].user].state = "active"
                        \/ users'[sessions[s].user].state = "inactive" /\ sessions[s].late
      BY <1>5 DEF OnlyEnds
    <2>1. sessions[s].user \in Users /\ sessions[s].state = "live" /\ s \notin reqs[r].ends
      BY <1>5 DEF IInv, Opened, Live
    <2>2. ~reqs[r].on /\ sessions[s].user = u => sessions[s].late
      BY <1>1, <1>2, <2>1 DEF u, Taken, Live
    <2> QED
      BY <1>3, <2>1, <2>2
  <1>7. reqs' \in [Requests -> Jobs] /\ Overtaken
    BY <1>1, FinishJobs DEF IInv
  <1> QED
    BY <1>3, <1>4, <1>5, <1>6, <1>7, CommitStep

LEMMA DeleteStep ==
    ASSUME IInv, NEW r \in Requests, DeleteCommit(r)
    PROVE  IInv'
  <1> DEFINE u == reqs[r].user
  <1>1. /\ reqs[r].op = "delete" /\ Exists(u)
        /\ users' = [users EXCEPT ![u] = [state |-> "deleted", name |-> None]]
        /\ sessions' = Ended(SessionsOf(u))
        /\ Finish(r)
    BY DEF DeleteCommit, Working
  <1>2. users \in [Users -> UserRows] /\ u \in Users
    BY <1>1, Types DEF IInv, Checked
  <1> HIDE DEF u
  <1>3. /\ users' \in [Users -> UserRows] /\ users'[u].state = "deleted"
        /\ \A v \in Users \ {u} : users'[v] = users[v]
    BY <1>1, <1>2 DEF UserRows
  <1>4. HaveNames'
    BY <1>2, <1>3 DEF IInv, HaveNames, Exists
  <1>5. sessions' \in [Sessions -> SessionRows] /\ OnlyEnds
    <2>1. \A s \in Sessions : sessions'[s].state = "live" =>
              sessions'[s] = sessions[s] /\ sessions[s].user # u
      BY <1>1, EndedSessions DEF IInv, SessionsOf
    <2>2. sessions' \in [Sessions -> SessionRows]
      BY <1>1, EndedSessions DEF IInv, SessionsOf
    <2> QED
      BY <1>3, <2>1, <2>2 DEF OnlyEnds, IInv, Opened, Live
  <1>6. reqs' \in [Requests -> Jobs] /\ Overtaken
    BY <1>1, FinishJobs DEF IInv
  <1> QED
    BY <1>3, <1>4, <1>5, <1>6, CommitStep

-----------------------------------------------------------------------------
(* Requests in one step, and the server's restarts *)

(* A new account under a name nobody has. *)
LEMMA NewAccount ==
    ASSUME IInv, NEW u \in Users, NEW n \in Names, users[u].state = "unused", Named(n) = {},
           users' = [users EXCEPT ![u] = [state |-> "active", name |-> n]], UNCHANGED sessions
    PROVE  /\ users' \in [Users -> UserRows]
           /\ HaveNames' /\ OnlyEnds
  <1>1. users \in [Users -> UserRows]
    BY Types DEF IInv
  <1>2. /\ users' \in [Users -> UserRows] /\ users'[u] = [state |-> "active", name |-> n]
        /\ \A v \in Users \ {u} : users'[v] = users[v]
    BY <1>1 DEF UserRows
  <1>3. HaveNames'
    BY <1>2 DEF IInv, HaveNames, Exists
  <1>4. OnlyEnds
    BY <1>2 DEF OnlyEnds, IInv, Opened, Live
  <1> QED
    BY <1>2, <1>3, <1>4

LEMMA RegisterStep ==
    ASSUME IInv, NEW s \in Sessions, NEW u \in Users, NEW n \in Names, Register(s, u, n)
    PROVE  IInv'
  <1>1. reqs \in [Requests -> Jobs]
    BY Types DEF IInv
  <1>2. reqs' \in [Requests -> Jobs]
    <2>1. \A r \in Requests : [reqs[r] EXCEPT !.fresh = FALSE] \in Jobs
      BY <1>1 DEF Jobs
    <2> QED
      BY <2>1, IdleJob DEF Register
  <1>3. Overtaken
    BY <1>1 DEF Register, Overtaken, Jobs
  <1>4. sessions' \in [Sessions -> SessionRows]
    BY Types DEF IInv, Register
  <1> QED
    BY <1>2, <1>3, <1>4, NewAccount, CommitStep DEF Register

LEMMA RestartStep ==
    ASSUME IInv, Restart \/ \E u \in Users, n \in Names : RestartWithout(u, n)
    PROVE  IInv'
  <1>1. reqs' \in [Requests -> Jobs] /\ Overtaken /\ UNCHANGED sessions
    BY IdleJob DEF Restart, RestartWithout, Overtaken
  <1>2. sessions' \in [Sessions -> SessionRows]
    BY <1>1, Types DEF IInv
  <1>3. CASE Restart
    <2>1. users' \in [Users -> UserRows] /\ users' = users
      BY <1>3, Types DEF IInv, Restart
    <2>2. HaveNames' /\ OnlyEnds
      BY <1>1, <2>1 DEF IInv, HaveNames, Exists, OnlyEnds
    <2> QED
      BY <1>1, <1>2, <2>1, <2>2, CommitStep
  <1>4. ASSUME NEW u \in Users, NEW n \in Names, RestartWithout(u, n)
        PROVE  IInv'
    BY <1>1, <1>2, <1>4, NewAccount, CommitStep DEF RestartWithout
  <1> QED
    BY <1>3, <1>4

LEMMA EndStep ==
    ASSUME IInv, NEW s \in Sessions, EndSession(s)
    PROVE  IInv'
  <1>1. sessions' = Ended({s}) /\ UNCHANGED <<users, reqs>>
    BY DEF EndSession
  <1>2. /\ sessions' \in [Sessions -> SessionRows] /\ OnlyEnds
        /\ \A t \in Sessions : sessions'[t].state = "live" => sessions'[t] = sessions[t]
    BY <1>1, EndedSessions DEF IInv, OnlyEnds
  <1>3. TypeOK'
    BY <1>1, <1>2, Types, TypesNext DEF IInv
  <1>4. HaveNames' /\ \A r \in Requests : Checked(r)'
    BY <1>1 DEF IInv, HaveNames, Exists, Checked, Active, NotLastSuper, ActiveSupers
  <1>5. ASSUME NEW r \in Requests PROVE Taken(r)'
    <2>1. Taken(r)
      BY DEF IInv
    <2> QED
      BY <1>1, <1>2, <2>1 DEF Taken, Live
  <1> QED
    BY <1>2, <1>3, <1>4, <1>5, OnlyEndsKeeps DEF IInv

-----------------------------------------------------------------------------
(* The inductive invariant and what it implies *)

LEMMA InitInv == Init => IInv
  <1> SUFFICES ASSUME Init PROVE IInv
    OBVIOUS
  <1>1. TypeOK
    <2>1. [state |-> "unused", name |-> None] \in UserRows
      BY DEF UserRows
    <2>2. [state |-> "unused", user |-> None, tokens |-> {}, late |-> FALSE, since |-> "kept"]
            \in SessionRows
      BY DEF SessionRows, Passwords
    <2> QED
      BY <2>1, <2>2, IdleJob, Types DEF Init
  <1>2. HaveNames
    BY DEF Init, HaveNames, Exists
  <1>3. Opened /\ SignedOut
    BY DEF Init, Opened, SignedOut, InactiveSignedOut, OldPasswordSignedOut, Live
  <1>4. \A r \in Requests : Checked(r) /\ Taken(r)
    BY DEF Init, Idle, Checked, Taken
  <1> QED
    BY <1>1, <1>2, <1>3, <1>4 DEF IInv

LEMMA NextInv == IInv /\ [Next]_vars => IInv'
  <1> SUFFICES ASSUME IInv, [Next]_vars PROVE IInv'
    OBVIOUS
  <1>1. CASE UNCHANGED vars
    <2>1. UNCHANGED <<users, sessions, reqs>>
      BY <1>1 DEF vars
    <2>2. TypeOK'
      BY <2>1, Types, TypesNext DEF IInv
    <2>3. HaveNames' /\ \A r \in Requests : Checked(r)' /\ Taken(r)'
      BY <2>1 DEF IInv, HaveNames, Exists, Checked, Taken, Live, Active, NotLastSuper, ActiveSupers
    <2>4. OnlyEnds
      BY <2>1 DEF OnlyEnds
    <2> QED
      BY <2>2, <2>3, <2>4, OnlyEndsKeeps DEF IInv
  <1>2. ASSUME NEW r \in Requests, NEW n \in Names, LoginLoad(r, n) PROVE IInv'
    <2>1. PICK v \in Named(n) : Active(v) /\ Load(r, [Idle EXCEPT !.op = "login", !.user = v])
      BY <1>2 DEF LoginLoad
    <2> DEFINE job == [Idle EXCEPT !.op = "login", !.user = v]
    <2>2. /\ v \in Users
          /\ job \in Jobs /\ job.op = "login" /\ job.user = v /\ job.since = "kept" /\ ~job.sent
      BY <2>1 DEF Named, Idle, Jobs, Ops, Passwords
    <2> HIDE DEF job
    <2>3. Load(r, job)
      BY <2>1 DEF job
    <2> QED
      BY <2>1, <2>2, <2>3, LoadStep
  <1>3. ASSUME NEW r \in Requests, NEW s \in Sessions, NEW n \in Names,
               RefreshLoad(r, s, n) \/ PasswordLoad(r, s, n)
        PROVE  IInv'
    <2>1. PICK u \in Users : Load(r, [Idle EXCEPT !.op = "refresh", !.by = s, !.user = u])
                           \/ Load(r, [Idle EXCEPT !.op = "password", !.by = s, !.user = u])
      BY <1>3 DEF RefreshLoad, PasswordLoad
    <2>2. ASSUME NEW op \in {"refresh", "password"},
                 Load(r, [Idle EXCEPT !.op = op, !.by = s, !.user = u])
          PROVE  IInv'
      <3> DEFINE job == [Idle EXCEPT !.op = op, !.by = s, !.user = u]
      <3>1. job \in Jobs /\ job.op = op /\ job.user = u /\ ~job.sent
        BY DEF Idle, Jobs, Ops, Passwords
      <3> HIDE DEF job
      <3>2. Load(r, job)
        BY <2>2 DEF job
      <3> QED
        BY <3>1, <3>2, LoadStep
    <2> QED
      BY <2>1, <2>2
  <1>4. ASSUME NEW r \in Requests, NEW s \in Sessions, NEW u \in Users, NEW n \in Names, NEW on \in BOOLEAN,
               EditLoad(r, s, u, n, on)
        PROVE  IInv'
    BY <1>4, EditLoadStep
  <1>5. ASSUME NEW r \in Requests, NEW s \in Sessions, NEW u \in Users, NEW on \in BOOLEAN,
               StatusLoad(r, s, u, on) \/ DeleteLoad(r, s, u)
        PROVE  IInv'
    BY <1>5, StatusLoadStep, DeleteLoadStep
  <1>6. ASSUME NEW r \in Requests, NEW s \in Sessions, LoginCommit(r, s) PROVE IInv'
    BY <1>6, LoginStep
  <1>7. ASSUME NEW r \in Requests,
               \/ RefreshCommit(r) \/ EditCommit(r) \/ StatusCommit(r)
               \/ DeleteCommit(r) \/ PasswordCommit(r) \/ SignOut(r) \/ Fail(r)
        PROVE  IInv'
    BY <1>7, RefreshStep, ChangeStep, DeleteStep, PasswordStep, SignOutStep, FailStep
  <1>8. ASSUME NEW s \in Sessions, NEW u \in Users, NEW n \in Names, Register(s, u, n) PROVE IInv'
    BY <1>8, RegisterStep
  <1>9. ASSUME NEW admin \in Sessions, NEW s \in Sessions,
               EndSession(s) \/ RevokeSession(admin, s)
        PROVE  IInv'
    BY <1>9, EndStep DEF RevokeSession
  <1>10. ASSUME NEW s \in Sessions, NEW u \in Users, ResetPassword(s, u) PROVE IInv'
    BY <1>10, ResetStep
  <1>11. CASE Restart \/ \E u \in Users, n \in Names : RestartWithout(u, n)
    BY <1>11, RestartStep
  <1> QED
    BY <1>1, <1>2, <1>3, <1>4, <1>5, <1>6, <1>7, <1>8, <1>9, <1>10, <1>11 DEF Next

(* A request that deactivates or deletes without having been overtaken     *)
(* leaves another Super Administrator active.                              *)
LEMMA SupersGo ==
    ASSUME IInv, [Next]_vars, ActiveSupers # {}, ActiveSupers' = {}
    PROVE  \E r \in Requests : reqs'[r] = Idle /\ (reqs[r].op = "edit" \/ ~reqs[r].fresh)
  <1>1. users \in [Users -> UserRows] /\ Supers \subseteq Users
    BY Types, SupersAssumption DEF IInv
  <1>2. ASSUME NEW u \in Users,
               \A v \in Users \ {u} : users'[v] = users[v]
        PROVE  ~NotLastSuper(u)
    <2> SUFFICES ASSUME NotLastSuper(u) PROVE FALSE
      OBVIOUS
    <2>1. PICK v \in ActiveSupers : v # u
      BY AnotherSuper
    <2>2. v \in ActiveSupers'
      BY <1>1, <1>2, <2>1 DEF ActiveSupers, Active
    <2> QED
      BY <2>2
  <1>3. ASSUME \A v \in Users : users[v].state = "active" => users'[v].state = "active"
        PROVE  FALSE
    BY <1>1, <1>3 DEF ActiveSupers, Active
  <1>4. ASSUME NEW r \in Requests, EditCommit(r) \/ StatusCommit(r) \/ DeleteCommit(r)
        PROVE  reqs'[r] = Idle /\ (reqs[r].op = "edit" \/ ~reqs[r].fresh)
    <2>1. /\ reqs[r].op \in {"edit", "status", "delete"} /\ Exists(reqs[r].user)
          /\ reqs[r].user \in Users /\ reqs'[r] = Idle
      BY <1>4, FinishJobs
         DEF EditCommit, StatusCommit, DeleteCommit, ChangeAccount, Working, IInv, Checked
    <2>2. \A v \in Users \ {reqs[r].user} : users'[v] = users[v]
      BY <1>1, <1>4, <2>1, Changed DEF EditCommit, StatusCommit, DeleteCommit
    <2>3. ~NotLastSuper(reqs[r].user)
      BY <1>2, <2>1, <2>2
    <2>4. CASE reqs[r].op = "status" /\ reqs[r].on
      <3>1. ChangeAccount(r)
        BY <1>4, <2>4 DEF EditCommit, StatusCommit, DeleteCommit, Working
      <3>2. \A v \in Users : users[v].state = "active" => users'[v].state = "active"
        BY <2>1, <2>2, <2>4, <3>1, Changed
      <3> QED
        BY <1>3, <3>2
    <2>5. CASE reqs[r].op = "delete" \/ (reqs[r].op = "status" /\ ~reqs[r].on)
      BY <2>1, <2>3, <2>5 DEF IInv, Checked
    <2> QED
      BY <2>1, <2>4, <2>5
  <1>5. ASSUME UNCHANGED users PROVE FALSE
    BY <1>3, <1>5
  <1>6. ASSUME NEW u \in Users, NEW n \in Names, users[u].state = "unused",
               users' = [users EXCEPT ![u] = [state |-> "active", name |-> n]]
        PROVE  FALSE
    BY <1>1, <1>3, <1>6
  <1>7. CASE \E r \in Requests : EditCommit(r) \/ StatusCommit(r) \/ DeleteCommit(r)
    BY <1>4, <1>7
  <1>8. CASE UNCHANGED users
    BY <1>5, <1>8
  <1>9. CASE \E u \in Users, n \in Names :
               users[u].state = "unused" /\ users' = [users EXCEPT ![u] = [state |-> "active", name |-> n]]
    BY <1>6, <1>9
  <1> QED
    BY <1>7, <1>8, <1>9
       DEF Next, LoginLoad, RefreshLoad, PasswordLoad, EditLoad, StatusLoad, DeleteLoad, Load,
           LoginCommit, RefreshCommit, PasswordCommit, SignOut, Fail, Register, ResetPassword, EndSession, RevokeSession,
           Restart, RestartWithout, vars

(* What a request read still holds when it commits, unless another one     *)
(* committed in between; what it has not taken was opened meanwhile; and   *)
(* sessions, names and accounts agree.                                     *)
THEOREM AccountsInvariance == Spec => []IInv
  BY InitInv, NextInv, PTL DEF Spec

(* No session outlives its account, though a login may have checked the    *)
(* password before the account was deleted and commit at any time.         *)
THEOREM NoneOutlivesAccount == Spec => []SessionsHaveAccounts
  <1>1. IInv => SessionsHaveAccounts
    BY DEF IInv, Opened, SessionsHaveAccounts
  <1> QED
    BY <1>1, AccountsInvariance, PTL

(* Deactivating an account and changing its password leave no session      *)
(* signed in but one whose login was overtaken, or committed after the     *)
(* statement that ends sessions and before the change.                     *)
THEOREM SignsOut == Spec => []SignedOut
  <1>1. IInv => SignedOut
    BY DEF IInv
  <1> QED
    BY <1>1, AccountsInvariance, PTL

(* Only the user form, or a request that counted them before another one   *)
(* committed, leaves no active Super Administrator.                        *)
THEOREM ASuperRemains == Spec => SupersRemain
  <1>1. IInv /\ [Next]_vars =>
          (ActiveSupers # {} /\ ActiveSupers' = {} =>
             \E r \in Requests : reqs'[r] = Idle /\ (reqs[r].op = "edit" \/ ~reqs[r].fresh))
    BY SupersGo
  <1> QED
    BY <1>1, AccountsInvariance, PTL DEF Spec, SupersRemain
=============================================================================
