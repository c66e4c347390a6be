--------------------------- MODULE WorkspaceProofs ---------------------------
(***************************************************************************)
(* Proofs about Workspace for any users, any number of login sessions and  *)
(* any number of threads on the page.                                      *)
(*                                                                         *)
(* The inductive invariant says where a session that still works can be:   *)
(* under its owner's name in the variables, or in the answer to a login    *)
(* that has not reached them, unless the page let go of it (Kept).  What   *)
(* the storage holds and what the threads carry is tied to that.           *)
(***************************************************************************)
EXTENDS Workspace, TLAPS

States == [at : Points, sent : Sessions \cup {None}, who : Users \cup {None},
           older : BOOLEAN, then : After]

(* A session has an owner from its login on, and whatever the page, the    *)
(* storage or a thread holds is a session that was opened.                 *)
Opened(s) == s = None \/ sessions[s].state # "unused"
Owned ==
    /\ \A s \in Sessions : sessions[s].state # "unused" => sessions[s].user \in Users
    /\ Opened(token) /\ Opened(saved.token)
    /\ \A t \in Threads : /\ Opened(thread[t].sent)
                          /\ At(t, "login") => thread[t].who \in Users
                          /\ At(t, "refresh") \/ At(t, "logout") => thread[t].sent \in Sessions

(* The answer to a login is with one thread only. *)
WelcomeIsNew ==
    \A t \in Threads : At(t, "welcome") =>
        /\ thread[t].sent \in Sessions
        /\ sessions[thread[t].sent].user = thread[t].who
        /\ thread[t].sent \notin {token, saved.token}
        /\ \A q \in Threads \ {t} : thread[q].sent # thread[t].sent

Kept ==
    \A s \in Sessions : Live(s) /\ s \notin dropped =>
        \/ token = s /\ user = sessions[s].user
        \/ \E t \in Threads : At(t, "welcome") /\ thread[t].sent = s

SavedFits ==
    Live(saved.token) /\ saved.token \notin dropped => saved.user = sessions[saved.token].user

(* A session is done with before the page forgets it. *)
DoneWith(s) == ~Live(s) \/ s \in dropped
LetGo == \A t \in Threads : At(t, "refused") \/ At(t, "leave") => DoneWith(thread[t].sent)

(* A thread that changed the variables is about to write the storage. *)
SavedSoon ==
    \/ None \in {saved.token, saved.user}
    \/ saved = [token |-> token, user |-> user]
    \/ \E t \in Threads : At(t, "save") \/ At(t, "clear")

IInv == TypeOK /\ Owned /\ WelcomeIsNew /\ Kept /\ SavedFits /\ LetGo /\ SavedSoon

-----------------------------------------------------------------------------

LEMMA IdleState == Idle \in States
  BY DEF Idle, States, Points, After

LEMMA ThreadState ==
    ASSUME TypeOK, NEW t \in Threads
    PROVE  thread[t] \in States /\ thread[t].sent \in Sessions \cup {None}
  BY DEF TypeOK, States

LEMMA ResumeState ==
    ASSUME TypeOK, NEW t \in Threads
    PROVE  /\ Resume(t) \in States
           /\ Resume(t).sent \in {None, token}
           /\ Resume(t).at \in {"idle", "call", "shell", "draw"}
  <1>1. thread[t].then \in After /\ token \in Sessions \cup {None}
    BY ThreadState DEF TypeOK, States
  <1> QED
    BY <1>1 DEF Resume, Idle, States, Points, After

LEMMA ReturnState ==
    ASSUME NEW t \in Threads
    PROVE  Return(t) \in States /\ Return(t).sent = None /\ Return(t).at \in {"idle", "draw"}
  BY DEF Return, Idle, States, Points, After

LEMMA InitInv == Init => IInv
  <1> SUFFICES ASSUME Init PROVE IInv
    OBVIOUS
  <1>1. TypeOK
    BY IdleState DEF Init, TypeOK, States, NothingSaved
  <1>2. \A t \in Threads : thread[t].at = "idle" /\ thread[t].sent = None
    BY DEF Init, Idle
  <1>3. \A s \in Sessions : sessions[s].state = "unused" /\ ~Live(s)
    BY DEF Init, Live
  <1> QED
    BY <1>1, <1>2, <1>3, WorkspaceAssumption
       DEF Init, IInv, Owned, Opened, WelcomeIsNew, Kept, SavedFits, Live, LetGo, SavedSoon,
           NothingSaved, At

(* Sessions may have ended, and that is all. *)
SessionRows == [state : {"unused", "live", "ended"}, user : Users \cup {None}]
SessionsEnd ==
    /\ sessions' \in [Sessions -> SessionRows]
    /\ \A s \in Sessions : /\ sessions'[s].user = sessions[s].user
                           /\ sessions'[s].state = "unused" <=> sessions[s].state = "unused"
                           /\ sessions'[s].state = "live" => sessions[s].state = "live"

LEMMA NoneEnds == TypeOK /\ UNCHANGED sessions => SessionsEnd
  BY DEF TypeOK, SessionsEnd, SessionRows

LEMMA OneEnds ==
    ASSUME TypeOK, NEW s \in Sessions \cup {None}, sessions' = EndOf(s)
    PROVE  SessionsEnd /\ ~Live(s)'
  <1>1. CASE Live(s)
    <2>1. s \in Sessions /\ sessions \in [Sessions -> SessionRows]
      BY <1>1 DEF Live, TypeOK, SessionRows
    <2>2. sessions' = [sessions EXCEPT ![s].state = "ended"]
      BY <1>1 DEF EndOf
    <2> QED
      BY <1>1, <2>1, <2>2 DEF SessionsEnd, SessionRows, Live
  <1>2. CASE ~Live(s)
    BY <1>2, NoneEnds DEF EndOf, Live
  <1> QED
    BY <1>1, <1>2

(* A thread that only moves on, taking along what it had or the token of   *)
(* the moment.                                                             *)
LEMMA AnyMove ==
    ASSUME IInv, NEW t \in Threads, NEW state \in States, Move(t, state),
           UNCHANGED <<user, token, saved>>, SessionsEnd,
           dropped \subseteq dropped', dropped' \subseteq Sessions,
           screen' \in {"login", "shell"}, polled' \in BOOLEAN,
           ~At(t, "welcome"), ~At(t, "save"), ~At(t, "clear"),
           state.at # "welcome",
           state.sent \in {None, token, thread[t].sent},
           state.at = "login" => state.who \in Users,
           state.at \in {"refresh", "logout"} => state.sent \in Sessions,
           state.at \in {"refused", "leave"} => state.sent \in dropped' \/ ~Live(state.sent)'
    PROVE  IInv'
  <1> USE DEF Move, At
  <1>0. \A s \in Sessions \cup {None} : Live(s)' => Live(s) /\ s \in Sessions
    BY DEF SessionsEnd, Live
  <1>1. TypeOK'
    BY DEF IInv, TypeOK, States, SessionsEnd, SessionRows
  <1>2. thread \in [Threads -> States]
    BY DEF IInv, TypeOK, States
  <1>3. thread' = [thread EXCEPT ![t] = state]
    OBVIOUS
  <1>4. Owned'
    BY <1>1, <1>2, <1>3 DEF IInv, Owned, Opened, SessionsEnd, TypeOK
  <1>5. WelcomeIsNew'
    <2> SUFFICES ASSUME NEW q \in Threads, thread'[q].at = "welcome"
                 PROVE  /\ thread'[q].sent \in Sessions
                        /\ sessions'[thread'[q].sent].user = thread'[q].who
                        /\ thread'[q].sent \notin {token, saved.token}
                        /\ \A p \in Threads \ {q} : thread'[p].sent # thread'[q].sent
      BY DEF WelcomeIsNew
    <2>1. q # t /\ thread'[q] = thread[q]
      BY <1>2, <1>3
    <2>2. thread[q].sent \in Sessions /\ thread[q].sent # None
      BY <2>1, WorkspaceAssumption DEF IInv, WelcomeIsNew
    <2>3. \A p \in Threads \ {q} : thread'[p].sent # thread[q].sent
      BY <1>2, <1>3, <2>1, <2>2 DEF IInv, WelcomeIsNew
    <2> QED
      BY <2>1, <2>2, <2>3 DEF IInv, WelcomeIsNew, SessionsEnd
  <1>6. Kept'
    <2> SUFFICES ASSUME NEW s \in Sessions, Live(s)', s \notin dropped'
                 PROVE  \/ token = s /\ user = sessions'[s].user
                        \/ \E q \in Threads : thread'[q].at = "welcome" /\ thread'[q].sent = s
      BY DEF Kept
    <2>1. Live(s) /\ s \notin dropped /\ sessions'[s].user = sessions[s].user
      BY <1>0 DEF SessionsEnd
    <2>2. CASE token = s /\ user = sessions[s].user
      BY <2>1, <2>2
    <2>3. ASSUME NEW q \in Threads, At(q, "welcome"), thread[q].sent = s
          PROVE  thread'[q].at = "welcome" /\ thread'[q].sent = s
      BY <1>2, <1>3, <2>3
    <2> QED
      BY <2>1, <2>2, <2>3 DEF IInv, Kept
  <1>7. SavedFits'
    <2>1. saved.token \in Sessions \cup {None}
      BY DEF IInv, TypeOK
    <2> QED
      BY <1>0, <2>1 DEF IInv, SavedFits, SessionsEnd
  <1>8. LetGo'
    <2> SUFFICES ASSUME NEW q \in Threads, thread'[q].at \in {"refused", "leave"}
                 PROVE  DoneWith(thread[q].sent)'
      BY DEF LetGo
    <2>1. CASE q = t
      <3>1. thread'[q] = state
        BY <1>2, <1>3, <2>1
      <3> QED
        BY <3>1 DEF DoneWith, Live
    <2>2. CASE q # t
      <3>1. thread'[q] = thread[q] /\ thread[q].sent \in Sessions \cup {None}
        BY <1>2, <1>3, <2>2 DEF States
      <3>2. DoneWith(thread[q].sent)
        BY <3>1 DEF IInv, LetGo
      <3> QED
        BY <3>1, <3>2 DEF DoneWith, Live, SessionsEnd
    <2> QED
      BY <2>1, <2>2
  <1>9. SavedSoon'
    BY <1>2, <1>3 DEF IInv, SavedSoon
  <1> QED
    BY <1>1, <1>4, <1>5, <1>6, <1>7, <1>8, <1>9 DEF IInv

LEMMA QuietMove ==
    ASSUME IInv, NEW t \in Threads, NEW state \in States, Move(t, state),
           UNCHANGED <<sessions, user, token, saved>>,
           dropped \subseteq dropped', dropped' \subseteq Sessions,
           screen' \in {"login", "shell"}, polled' \in BOOLEAN,
           ~At(t, "welcome"), ~At(t, "save"), ~At(t, "clear"),
           state.at # "welcome",
           state.sent \in {None, token, thread[t].sent},
           state.at = "login" => state.who \in Users,
           state.at \in {"refresh", "logout"} => state.sent \in Sessions,
           state.at \in {"refused", "leave"} => state.sent \in dropped' \/ ~Live(state.sent)
    PROVE  IInv'
  <1>1. SessionsEnd
    BY NoneEnds DEF IInv
  <1>2. Live(state.sent)' <=> Live(state.sent)
    BY DEF Live
  <1> QED
    BY <1>1, <1>2, AnyMove

LEMMA QuietSteps ==
    ASSUME IInv, NEW t \in Threads,
           \/ Call(t) \/ CallAnswered(t) \/ CallLost(t) \/ RefreshAnswered(t) \/ RefreshLost(t)
           \/ \E u \in Users : Login(t, u)
           \/ LoginRefused(t) \/ Shell(t) \/ Draw(t) \/ Logout(t) \/ LogoutLost(t)
    PROVE  IInv'
  <1> USE DEF At, Goto
  <1>1. /\ TypeOK
        /\ thread[t] \in States
        /\ token \in Sessions \cup {None}
        /\ screen \in {"login", "shell"} /\ polled \in BOOLEAN /\ dropped \subseteq Sessions
    BY ThreadState DEF IInv, TypeOK
  <1>2. /\ Idle \in States /\ Idle.at = "idle" /\ Idle.sent = None
    BY IdleState DEF Idle
  <1>3. CASE Call(t)
    <2> DEFINE call == [Idle EXCEPT !.at = "call", !.sent = token]
               refresh == [Idle EXCEPT !.at = "refresh", !.sent = token, !.then = "call"]
    <2>1. call \in States /\ call.at = "call" /\ call.sent = token
      BY <1>1, <1>2 DEF Idle, States, Points, After
    <2>2. refresh \in States /\ refresh.at = "refresh" /\ refresh.sent = token
      BY <1>1, <1>2 DEF Idle, States, Points, After
    <2>3. Move(t, call) \/ (token \in Sessions /\ Move(t, refresh))
      BY <1>1, <1>3 DEF Call
    <2>4. thread[t].at = "idle" /\ UNCHANGED <<sessions, user, token, screen, saved, polled, dropped>>
      BY <1>3 DEF Call
    <2> HIDE DEF call, refresh
    <2>5. CASE Move(t, call)
      BY <1>1, <2>1, <2>4, <2>5, QuietMove
    <2>6. CASE token \in Sessions /\ Move(t, refresh)
      BY <1>1, <2>2, <2>4, <2>6, QuietMove
    <2> QED
      BY <2>3, <2>5, <2>6
  <1>4. CASE CallAnswered(t)
    <2> DEFINE refresh == [Idle EXCEPT !.at = "refresh", !.sent = token, !.then = thread[t].then]
    <2>1. refresh \in States /\ refresh.at = "refresh" /\ refresh.sent = token
      BY <1>1, <1>2 DEF Idle, States, Points, After
    <2>2. Move(t, Return(t)) \/ (token \in Sessions /\ Move(t, refresh))
      BY <1>1, <1>4 DEF CallAnswered
    <2>3. thread[t].at = "call" /\ UNCHANGED <<sessions, user, token, screen, saved, polled, dropped>>
      BY <1>4 DEF CallAnswered
    <2> HIDE DEF refresh
    <2>4. CASE Move(t, Return(t))
      BY <1>1, <2>3, <2>4, ReturnState, QuietMove
    <2>5. CASE token \in Sessions /\ Move(t, refresh)
      BY <1>1, <2>1, <2>3, <2>5, QuietMove
    <2> QED
      BY <2>2, <2>4, <2>5
  <1>5. CASE CallLost(t) \/ LoginRefused(t)
    <2>1. CASE CallLost(t)
      BY <1>1, <2>1, ReturnState, QuietMove DEF CallLost
    <2>2. CASE LoginRefused(t)
      BY <1>1, <1>2, <2>2, QuietMove DEF LoginRefused
    <2> QED
      BY <1>5, <2>1, <2>2
  <1>6. CASE RefreshAnswered(t)
    <2> DEFINE Moved(point) == [thread[t] EXCEPT !.at = point]
    <2>1. \A point \in Points : /\ Moved(point) \in States
                               /\ Moved(point).at = point /\ Moved(point).sent = thread[t].sent
      BY <1>1 DEF States
    <2>2. UNCHANGED <<sessions, user, token, screen, saved, polled, dropped>>
      BY <1>6 DEF RefreshAnswered
    <2>3. \/ Move(t, Moved("renewed"))
          \/ Move(t, Moved("refused")) /\ ~Live(thread[t].sent)
      BY <1>6 DEF RefreshAnswered
    <2>4. ~At(t, "welcome") /\ ~At(t, "save") /\ ~At(t, "clear")
      BY <1>6 DEF RefreshAnswered
    <2>5. "renewed" \in Points /\ "refused" \in Points
      BY DEF Points
    <2> HIDE DEF Moved
    <2>6. CASE Move(t, Moved("renewed"))
      BY <1>1, <2>1, <2>2, <2>4, <2>5, <2>6, QuietMove
    <2>7. CASE Move(t, Moved("refused")) /\ ~Live(thread[t].sent)
      BY <1>1, <2>1, <2>2, <2>4, <2>5, <2>7, QuietMove
    <2> QED
      BY <2>3, <2>6, <2>7
  <1>7. CASE RefreshLost(t) \/ LogoutLost(t)
    <2> DEFINE point == IF At(t, "refresh") THEN "refused" ELSE "leave"
               next == [thread[t] EXCEPT !.at = point]
    <2>1. next \in States /\ next.at = point /\ next.sent = thread[t].sent
      BY <1>1 DEF States, Points, After
    <2>2. /\ Move(t, next) /\ UNCHANGED <<sessions, user, token, screen, saved, polled>>
          /\ dropped' = dropped \cup {thread[t].sent}
          /\ At(t, "refresh") \/ At(t, "logout")
      BY <1>7 DEF RefreshLost, LogoutLost
    <2>3. PICK state \in States : /\ Move(t, state)
                                  /\ state.sent = thread[t].sent
                                  /\ state.at \in {"refused", "leave"}
      BY <2>1, <2>2
    <2>4. thread[t].sent \in Sessions
      BY <2>2 DEF IInv, Owned
    <2>5. dropped \subseteq dropped' /\ dropped' \subseteq Sessions /\ state.sent \in dropped'
      BY <1>1, <2>2, <2>3, <2>4
    <2>6. ~At(t, "welcome") /\ ~At(t, "save") /\ ~At(t, "clear")
      BY <2>2
    <2> QED
      BY <1>1, <2>2, <2>3, <2>5, <2>6, QuietMove
  <1>8. ASSUME NEW u \in Users, Login(t, u) PROVE IInv'
    <2>1. [Idle EXCEPT !.at = "login", !.who = u] \in States
      BY <1>2 DEF Idle, States, Points, After
    <2> QED
      BY <1>1, <1>8, <2>1, QuietMove DEF Login, Idle
  <1>9. CASE Shell(t) \/ Draw(t)
    <2> DEFINE draw == [Idle EXCEPT !.at = "draw"]
               call == [Idle EXCEPT !.at = "call", !.sent = token, !.then = "draw"]
               refresh == [Idle EXCEPT !.at = "refresh", !.sent = token, !.then = "profile"]
    <2>1. /\ draw \in States /\ draw.at = "draw" /\ draw.sent = None
          /\ call \in States /\ call.at = "call" /\ call.sent = token
          /\ refresh \in States /\ refresh.at = "refresh" /\ refresh.sent = token
      BY <1>1, <1>2 DEF Idle, States, Points, After
    <2>2. \/ Move(t, Idle) /\ screen' \in {"login", "shell"} /\ polled' \in BOOLEAN
          \/ (Move(t, draw) \/ Move(t, call) \/ (token \in Sessions /\ Move(t, refresh))) /\ UNCHANGED <<screen, polled>>
      BY <1>1, <1>9 DEF Shell, Draw
    <2>3. thread[t].at \in {"shell", "draw"} /\ UNCHANGED <<sessions, user, token, saved, dropped>>
      BY <1>9 DEF Shell, Draw
    <2> HIDE DEF draw, call, refresh
    <2>4. CASE Move(t, Idle) /\ screen' \in {"login", "shell"} /\ polled' \in BOOLEAN
      BY <1>1, <1>2, <2>3, <2>4, QuietMove
    <2>5. CASE Move(t, draw) /\ UNCHANGED <<screen, polled>>
      BY <1>1, <2>1, <2>3, <2>5, QuietMove
    <2>6. CASE Move(t, call) /\ UNCHANGED <<screen, polled>>
      BY <1>1, <2>1, <2>3, <2>6, QuietMove
    <2>7. CASE token \in Sessions /\ Move(t, refresh) /\ UNCHANGED <<screen, polled>>
      BY <1>1, <2>1, <2>3, <2>7, QuietMove
    <2> QED
      BY <2>2, <2>4, <2>5, <2>6, <2>7
  <1>10. CASE Logout(t)
    <2> DEFINE Moved(point) == [Idle EXCEPT !.at = point, !.sent = token]
    <2>1. \A point \in Points : /\ Moved(point) \in States
                               /\ Moved(point).at = point /\ Moved(point).sent = token
      BY <1>1 DEF Idle, States, Points, After
    <2>2. UNCHANGED <<sessions, user, token, screen, saved, polled, dropped>>
      BY <1>10 DEF Logout
    <2>3. \/ Move(t, Moved("leave")) /\ token = None
          \/ Move(t, Moved("logout")) /\ token \in Sessions
      BY <1>1, <1>10 DEF Logout
    <2>4. token = None => ~Live(token)
      BY DEF Live
    <2>5. ~At(t, "welcome") /\ ~At(t, "save") /\ ~At(t, "clear")
      BY <1>10 DEF Logout
    <2>6. "leave" \in Points /\ "logout" \in Points
      BY DEF Points
    <2> HIDE DEF Moved
    <2>7. CASE Move(t, Moved("leave")) /\ token = None
      BY <1>1, <2>1, <2>2, <2>4, <2>5, <2>6, <2>7, QuietMove
    <2>8. CASE Move(t, Moved("logout")) /\ token \in Sessions
      BY <1>1, <2>1, <2>2, <2>5, <2>6, <2>8, QuietMove
    <2> QED
      BY <2>3, <2>7, <2>8
  <1> QED
    BY <1>3, <1>4, <1>5, <1>6, <1>7, <1>8, <1>9, <1>10

(* The backend ends the session; then the page leaves it. *)
LEMMA LogoutAnsweredStep ==
    ASSUME IInv, NEW t \in Threads, LogoutAnswered(t)
    PROVE  IInv'
  <1>1. TypeOK /\ thread[t] \in States
    BY ThreadState DEF IInv
  <1>2. PICK state \in States : state = [thread[t] EXCEPT !.at = "leave"]
    BY <1>1 DEF States, Points, After
  <1>3. state.at = "leave" /\ state.sent = thread[t].sent /\ state.sent \in Sessions \cup {None}
    BY <1>1, <1>2 DEF States
  <1>4. Move(t, state) /\ UNCHANGED <<user, token, screen, saved, polled, dropped>>
    BY <1>2 DEF LogoutAnswered, Goto, Move
  <1>5. sessions' = EndOf(state.sent)
    BY <1>3 DEF LogoutAnswered
  <1>6. SessionsEnd /\ ~Live(state.sent)'
    BY <1>1, <1>3, <1>5, OneEnds
  <1>7. ~At(t, "welcome") /\ ~At(t, "save") /\ ~At(t, "clear")
    BY DEF LogoutAnswered, At
  <1>8. screen' \in {"login", "shell"} /\ polled' \in BOOLEAN
        /\ dropped \subseteq dropped' /\ dropped' \subseteq Sessions
    BY <1>1, <1>4 DEF TypeOK
  <1> QED
    BY <1>3, <1>4, <1>6, <1>7, <1>8, AnyMove

LEMMA RevokeStep ==
    ASSUME IInv, NEW s \in Sessions, Revoke(s)
    PROVE  IInv'
  <1>1. SessionsEnd /\ UNCHANGED <<user, token, screen, saved, polled, thread, dropped>>
    BY OneEnds DEF IInv, Revoke
  <1>2. \A q \in Sessions \cup {None} : Live(q)' => Live(q)
    BY <1>1 DEF SessionsEnd, Live
  <1>3. TypeOK'
    BY <1>1 DEF IInv, TypeOK, SessionsEnd, SessionRows
  <1>4. Owned'
    BY <1>1, <1>3 DEF IInv, Owned, Opened, SessionsEnd, TypeOK, At
  <1>5. WelcomeIsNew'
    BY <1>1 DEF IInv, WelcomeIsNew, SessionsEnd, At
  <1>6. Kept'
    BY <1>1, <1>2 DEF IInv, Kept, SessionsEnd, At
  <1>7. SavedFits'
    <2>1. saved.token \in Sessions \cup {None}
      BY DEF IInv, TypeOK
    <2> QED
      BY <1>1, <1>2, <2>1 DEF IInv, SavedFits, SessionsEnd, Live
  <1>8. LetGo'
    BY <1>1, <1>2, ThreadState DEF IInv, LetGo, DoneWith, At
  <1>9. SavedSoon'
    BY <1>1 DEF IInv, SavedSoon, At
  <1> QED
    BY <1>3, <1>4, <1>5, <1>6, <1>7, <1>8, <1>9 DEF IInv

-----------------------------------------------------------------------------
(* The steps that write the variables, the storage or both. *)

(* New tokens are those of the session the page has, unless it was let go. *)
LEMMA RenewedStep ==
    ASSUME IInv, NEW t \in Threads, Renewed(t)
    PROVE  IInv'
  <1>1. /\ thread[t].at = "renewed"
        /\ token' = thread[t].sent
        /\ dropped' = dropped \cup ({token} \ {None, token'})
        /\ UNCHANGED <<sessions, user, screen, saved, polled>>
    BY DEF Renewed, At
  <1>2. TypeOK /\ thread \in [Threads -> States]
    BY DEF IInv, TypeOK, States
  <1>3. \A q \in Threads :
           /\ thread'[q] \in States
           /\ thread'[q].at = IF q = t THEN "save" ELSE thread[q].at
           /\ thread'[q].sent = thread[q].sent /\ thread'[q].who = thread[q].who
    <2> SUFFICES ASSUME NEW q \in Threads
        PROVE  /\ thread'[q] \in States
               /\ thread'[q].at = IF q = t THEN "save" ELSE thread[q].at
               /\ thread'[q].sent = thread[q].sent /\ thread'[q].who = thread[q].who
      OBVIOUS
    <2> DEFINE replaced == thread[q].older \/ (thread[q].at = "call" /\ thread[q].sent = token')
    <2>1. replaced \in BOOLEAN
      BY <1>2 DEF States
    <2>2. thread'[q] = IF q = t THEN [thread[q] EXCEPT !.at = "save"] ELSE [thread[q] EXCEPT !.older = replaced]
      BY DEF Renewed
    <2> HIDE DEF replaced
    <2> QED
      BY <1>2, <2>1, <2>2 DEF States, Points, After
  <1>4. thread' \in [Threads -> States]
    BY <1>3 DEF Renewed
  <1>5. TypeOK'
    BY <1>1, <1>2, <1>4 DEF TypeOK, States
  <1>6. Owned'
    BY <1>1, <1>3 DEF IInv, Owned, Opened, At
  <1>7. WelcomeIsNew'
    BY <1>1, <1>3 DEF IInv, WelcomeIsNew, At
  <1>8. Kept'
    <2> SUFFICES ASSUME NEW s \in Sessions, Live(s), s \notin dropped'
                 PROVE  \/ token' = s /\ user = sessions[s].user
                        \/ \E q \in Threads : thread'[q].at = "welcome" /\ thread'[q].sent = s
      BY <1>1 DEF Kept, Live, At
    <2>1. CASE token = s /\ user = sessions[s].user
      BY <1>1, <2>1, WorkspaceAssumption
    <2>2. ASSUME NEW q \in Threads, thread[q].at = "welcome", thread[q].sent = s
          PROVE  thread'[q].at = "welcome" /\ thread'[q].sent = s
      BY <1>1, <1>3, <2>2
    <2> QED
      BY <1>1, <2>1, <2>2 DEF IInv, Kept, At
  <1>9. SavedFits' /\ LetGo'
    BY <1>1, <1>3 DEF IInv, SavedFits, LetGo, DoneWith, Live, At
  <1>10. SavedSoon'
    BY <1>3 DEF SavedSoon, At
  <1> QED
    BY <1>5, <1>6, <1>7, <1>8, <1>9, <1>10 DEF IInv

LEMMA SaveStep ==
    ASSUME IInv, NEW t \in Threads, Save(t)
    PROVE  IInv'
  <1>1. /\ thread[t].at = "save"
        /\ saved' = [token |-> token, user |-> user]
        /\ UNCHANGED <<sessions, user, token, screen, polled, dropped>>
    BY DEF Save, At
  <1>2. TypeOK /\ thread \in [Threads -> States]
    BY DEF IInv, TypeOK, States
  <1>3. PICK state \in States : /\ thread' = [thread EXCEPT ![t] = state]
                                /\ state.at \in {"idle", "call", "shell", "draw"}
                                /\ state.sent \in {None, token}
    BY <1>2, ResumeState DEF Save, Move
  <1>4. TypeOK'
    BY <1>1, <1>2, <1>3 DEF TypeOK, States
  <1>5. Owned'
    BY <1>1, <1>2, <1>3 DEF IInv, Owned, Opened, At
  <1>6. WelcomeIsNew'
    BY <1>1, <1>2, <1>3, WorkspaceAssumption DEF IInv, WelcomeIsNew, At
  <1>7. Kept'
    BY <1>1, <1>2, <1>3 DEF IInv, Kept, Live, At
  <1>8. SavedFits'
    <2> SUFFICES ASSUME Live(token), token \notin dropped
                 PROVE  user = sessions[token].user
      BY <1>1 DEF SavedFits, Live
    <2>1. token \in Sessions
      BY <1>2 DEF TypeOK, Live
    <2> QED
      BY <2>1 DEF IInv, Kept, WelcomeIsNew
  <1>9. LetGo'
    BY <1>1, <1>2, <1>3 DEF IInv, LetGo, DoneWith, Live, At
  <1>10. SavedSoon'
    BY <1>1 DEF SavedSoon
  <1> QED
    BY <1>4, <1>5, <1>6, <1>7, <1>8, <1>9, <1>10 DEF IInv

(* The page forgets the login of a session it is done with. *)
LEMMA ForgetStep ==
    ASSUME IInv, NEW t \in Threads, Refused(t) \/ Leave(t)
    PROVE  IInv'
  <1>1. /\ thread[t].at \in {"refused", "leave"}
        /\ user' = None /\ token' = None
        /\ dropped' = dropped \cup ({token} \ {None, thread[t].sent})
        /\ UNCHANGED <<sessions, screen, saved, polled>>
    BY DEF Refused, Leave, Forget, At
  <1>2. TypeOK /\ thread \in [Threads -> States]
    BY DEF IInv, TypeOK, States
  <1>3. /\ thread' \in [Threads -> States]
        /\ thread'[t].at = "clear" /\ thread'[t].sent = thread[t].sent
        /\ \A q \in Threads \ {t} : thread'[q] = thread[q]
    BY <1>2 DEF Refused, Leave, Goto, Move, States, Points, After
  <1>4. TypeOK'
    BY <1>1, <1>2, <1>3 DEF TypeOK, States
  <1>5. Owned'
    BY <1>1, <1>3 DEF IInv, Owned, Opened, At
  <1>6. WelcomeIsNew'
    BY <1>1, <1>3, WorkspaceAssumption DEF IInv, WelcomeIsNew, At
  <1>7. Kept'
    <2> SUFFICES ASSUME NEW s \in Sessions, Live(s), s \notin dropped'
                 PROVE  \E q \in Threads : thread'[q].at = "welcome" /\ thread'[q].sent = s
      BY <1>1 DEF Kept, Live, At
    <2>1. ~(token = s)
      BY <1>1, WorkspaceAssumption DEF IInv, LetGo, DoneWith, At
    <2>2. PICK q \in Threads : thread[q].at = "welcome" /\ thread[q].sent = s
      BY <1>1, <2>1 DEF IInv, Kept, At
    <2> QED
      BY <1>1, <1>3, <2>2
  <1>8. SavedFits' /\ LetGo'
    BY <1>1, <1>3 DEF IInv, SavedFits, LetGo, DoneWith, Live, At
  <1>9. SavedSoon'
    BY <1>3 DEF SavedSoon, At
  <1> QED
    BY <1>4, <1>5, <1>6, <1>7, <1>8, <1>9 DEF IInv

LEMMA ClearStep ==
    ASSUME IInv, NEW t \in Threads, Clear(t)
    PROVE  IInv'
  <1>1. /\ thread[t].at = "clear"
        /\ saved' = [token |-> None, user |-> None] /\ screen' = "login"
        /\ dropped' = dropped \cup ({token} \ {None})
        /\ UNCHANGED <<sessions, user, token, polled>>
    BY DEF Clear, NothingSaved, At
  <1>2. TypeOK /\ thread \in [Threads -> States]
    BY DEF IInv, TypeOK, States
  <1>3. PICK state \in States : /\ thread' = [thread EXCEPT ![t] = state]
                                /\ state.at \in {"idle", "call", "shell", "draw"}
                                /\ state.sent \in {None, token}
    BY <1>2, ResumeState DEF Clear, Move
  <1>4. TypeOK'
    BY <1>1, <1>2, <1>3 DEF TypeOK, States
  <1>5. Owned'
    BY <1>1, <1>2, <1>3 DEF IInv, Owned, Opened, At
  <1>6. WelcomeIsNew'
    BY <1>1, <1>2, <1>3, WorkspaceAssumption DEF IInv, WelcomeIsNew, At
  <1>7. Kept'
    BY <1>1, <1>2, <1>3 DEF IInv, Kept, Live, At
  <1>8. SavedFits' /\ SavedSoon'
    BY <1>1 DEF SavedFits, SavedSoon, Live
  <1>9. LetGo'
    BY <1>1, <1>2, <1>3 DEF IInv, LetGo, DoneWith, Live, At
  <1> QED
    BY <1>4, <1>5, <1>6, <1>7, <1>8, <1>9 DEF IInv

LEMMA LoginAnsweredStep ==
    ASSUME IInv, NEW t \in Threads, NEW s \in Sessions, LoginAnswered(t, s)
    PROVE  IInv'
  <1>1. /\ thread[t].at = "login" /\ thread[t].who \in Users
        /\ sessions[s].state = "unused"
        /\ sessions' = [sessions EXCEPT ![s] = [state |-> "live", user |-> thread[t].who]]
        /\ UNCHANGED <<user, token, screen, saved, polled>>
    BY DEF LoginAnswered, At, IInv, Owned
  <1>2. TypeOK /\ thread \in [Threads -> States] /\ sessions \in [Sessions -> SessionRows]
    BY DEF IInv, TypeOK, States, SessionRows
  <1>3. PICK state \in States :
           /\ thread' = [thread EXCEPT ![t] = state]
           /\ \/ state.at = "welcome" /\ state.sent = s /\ state.who = thread[t].who /\ dropped' = dropped
              \/ state.at = "idle" /\ state.sent = None /\ dropped' = dropped \cup {s}
    <2>1. CASE Move(t, [thread[t] EXCEPT !.at = "welcome", !.sent = s]) /\ UNCHANGED dropped
      <3>1. PICK state \in States : state = [thread[t] EXCEPT !.at = "welcome", !.sent = s]
        BY <1>2 DEF States, Points, After
      <3>2. state.at = "welcome" /\ state.sent = s /\ state.who = thread[t].who
        BY <1>2, <3>1 DEF States
      <3>3. thread' = [thread EXCEPT ![t] = state]
        BY <2>1, <3>1 DEF Move
      <3> QED
        BY <2>1, <3>2, <3>3
    <2>2. CASE Move(t, Idle) /\ dropped' = dropped \cup {s}
      BY <2>2, IdleState DEF Move, Idle
    <2> QED
      BY <2>1, <2>2 DEF LoginAnswered
  <1>4. /\ s \notin {token, saved.token}
        /\ \A q \in Threads : thread[q].sent # s
    BY <1>1, WorkspaceAssumption DEF IInv, Owned, Opened
  <1>5. /\ \A q \in Sessions : q # s => sessions'[q] = sessions[q]
        /\ sessions'[s].user = thread[t].who /\ sessions'[s].state = "live"
        /\ sessions' \in [Sessions -> SessionRows]
    BY <1>1, <1>2 DEF SessionRows
  <1>6. TypeOK'
    BY <1>1, <1>2, <1>3, <1>5 DEF TypeOK, States, SessionRows
  <1>7. Owned'
    <2>1. \A q \in Sessions : sessions'[q].state # "unused" => sessions'[q].user \in Users
      BY <1>1, <1>5 DEF IInv, Owned
    <2>2. \A q \in Sessions \cup {None} : Opened(q) => Opened(q)'
      BY <1>5 DEF Opened
    <2>3. Opened(s)' /\ Opened(None)'
      BY <1>5 DEF Opened
    <2> QED
      BY <1>1, <1>2, <1>3, <2>1, <2>2, <2>3 DEF IInv, Owned, TypeOK, At, States
  <1>8. WelcomeIsNew'
    <2> SUFFICES ASSUME NEW q \in Threads, thread'[q].at = "welcome"
                 PROVE  /\ thread'[q].sent \in Sessions
                        /\ sessions'[thread'[q].sent].user = thread'[q].who
                        /\ thread'[q].sent \notin {token, saved.token}
                        /\ \A p \in Threads \ {q} : thread'[p].sent # thread'[q].sent
      BY <1>1 DEF WelcomeIsNew, At
    <2>1. CASE q = t
      BY <1>2, <1>3, <1>4, <1>5, <2>1
    <2>2. CASE q # t
      <3>1. thread'[q] = thread[q] /\ thread[q].at = "welcome" /\ thread'[t].sent \in {None, s}
        BY <1>2, <1>3, <2>2
      <3>2. /\ thread[q].sent \in Sessions \ {s}
            /\ sessions[thread[q].sent].user = thread[q].who
            /\ thread[q].sent \notin {token, saved.token}
            /\ \A p \in Threads \ {q} : thread[p].sent # thread[q].sent
        BY <1>4, <3>1 DEF IInv, WelcomeIsNew, At
      <3>3. \A p \in Threads \ {q} : thread'[p].sent # thread[q].sent
        BY <1>2, <1>3, <3>1, <3>2, WorkspaceAssumption
      <3> QED
        BY <1>5, <3>1, <3>2, <3>3
    <2> QED
      BY <2>1, <2>2
  <1>9. Kept'
    <2> SUFFICES ASSUME NEW x \in Sessions, Live(x)', x \notin dropped'
                 PROVE  \/ token = x /\ user = sessions'[x].user
                        \/ \E q \in Threads : thread'[q].at = "welcome" /\ thread'[q].sent = x
      BY <1>1 DEF Kept, At
    <2>1. CASE x = s
      BY <1>2, <1>3, <2>1
    <2>2. CASE x # s
      <3>1. Live(x) /\ x \notin dropped /\ sessions'[x] = sessions[x]
        BY <1>3, <1>5, <2>2 DEF Live
      <3>2. ASSUME NEW q \in Threads, thread[q].at = "welcome", thread[q].sent = x
            PROVE  thread'[q].at = "welcome" /\ thread'[q].sent = x
        BY <1>1, <1>2, <1>3, <3>2
      <3> QED
        BY <3>1, <3>2 DEF IInv, Kept, At
    <2> QED
      BY <2>1, <2>2
  <1>10. SavedFits'
    <2>1. saved.token \in Sessions => sessions'[saved.token] = sessions[saved.token]
      BY <1>4, <1>5
    <2>2. saved.token \in Sessions \cup {None}
      BY <1>2 DEF TypeOK
    <2> QED
      BY <1>1, <1>3, <2>1, <2>2 DEF IInv, SavedFits, Live
  <1>11. LetGo'
    <2> SUFFICES ASSUME NEW q \in Threads, thread'[q].at \in {"refused", "leave"}
                 PROVE  DoneWith(thread[q].sent)'
      BY DEF LetGo, At
    <2>1. thread'[q] = thread[q] /\ thread[q].sent \in Sessions \cup {None} /\ thread[q].sent # s
      BY <1>2, <1>3, <1>4 DEF States
    <2>2. DoneWith(thread[q].sent)
      BY <2>1 DEF IInv, LetGo, At
    <2> QED
      BY <1>3, <1>5, <2>1, <2>2 DEF DoneWith, Live
  <1>12. SavedSoon'
    BY <1>1, <1>2, <1>3 DEF IInv, SavedSoon, At
  <1> QED
    BY <1>6, <1>7, <1>8, <1>9, <1>10, <1>11, <1>12 DEF IInv

LEMMA WelcomeStep ==
    ASSUME IInv, NEW t \in Threads, Welcome(t)
    PROVE  IInv'
  <1>1. /\ thread[t].at = "welcome"
        /\ token' = thread[t].sent /\ user' = thread[t].who
        /\ dropped' = dropped \cup ({token} \ {None})
        /\ UNCHANGED <<sessions, screen, saved, polled>>
    BY DEF Welcome, At
  <1>2. TypeOK /\ thread \in [Threads -> States]
    BY DEF IInv, TypeOK, States
  <1>3. /\ thread' \in [Threads -> States]
        /\ thread'[t].at = "save" /\ thread'[t].sent = thread[t].sent
        /\ \A q \in Threads \ {t} : thread'[q] = thread[q]
    BY <1>2 DEF Welcome, Move, States, Points, After
  <1>4. TypeOK'
    BY <1>1, <1>2, <1>3 DEF TypeOK, States
  <1>5. Owned'
    BY <1>1, <1>3 DEF IInv, Owned, Opened, At
  <1>6. WelcomeIsNew'
    BY <1>1, <1>3 DEF IInv, WelcomeIsNew, At
  <1>7. Kept'
    <2> SUFFICES ASSUME NEW s \in Sessions, Live(s), s \notin dropped'
                 PROVE  \/ token' = s /\ user' = sessions[s].user
                        \/ \E q \in Threads : thread'[q].at = "welcome" /\ thread'[q].sent = s
      BY <1>1 DEF Kept, Live, At
    <2>1. token # s
      BY <1>1, WorkspaceAssumption
    <2>2. PICK q \in Threads : thread[q].at = "welcome" /\ thread[q].sent = s
      BY <1>1, <2>1 DEF IInv, Kept, At
    <2>3. CASE q = t
      BY <1>1, <2>2, <2>3 DEF IInv, WelcomeIsNew, At
    <2> QED
      BY <1>3, <2>2, <2>3
  <1>8. SavedFits' /\ LetGo'
    BY <1>1, <1>3 DEF IInv, SavedFits, LetGo, DoneWith, Live, At
  <1>9. SavedSoon'
    BY <1>3 DEF SavedSoon, At
  <1> QED
    BY <1>4, <1>5, <1>6, <1>7, <1>8, <1>9 DEF IInv

(* What a page that is left lets go of: every session that works, but the  *)
(* one in the storage.                                                     *)
LEMMA PageLeft ==
    ASSUME IInv, NEW s \in Sessions, Live(s), s \notin dropped, s # saved.token
    PROVE  s \in ({token} \cup InFlight) \ {None, saved.token}
  <1>1. s # None
    BY WorkspaceAssumption
  <1>2. token = s \/ \E t \in Threads : At(t, "welcome") /\ thread[t].sent = s
    BY DEF IInv, Kept
  <1>3. ASSUME NEW t \in Threads, At(t, "welcome"), thread[t].sent = s
        PROVE  s \in InFlight
    BY <1>3 DEF InFlight, At
  <1> QED
    BY <1>1, <1>2, <1>3

LEMMA InFlightTyped == TypeOK => InFlight \subseteq Sessions \cup {None}
  BY DEF TypeOK, InFlight

LEMMA ReloadStep ==
    ASSUME IInv, NEW t \in Clicks, Reload(t)
    PROVE  IInv'
  <1>1. /\ dropped' = dropped \cup (({token} \cup InFlight) \ {None, saved.token})
        /\ screen' = "login" /\ polled' = FALSE
        /\ UNCHANGED <<sessions, saved>>
    BY DEF Reload, LeavePage
  <1>2. TypeOK /\ thread \in [Threads -> States] /\ t \in Threads
    BY DEF IInv, TypeOK, States, Threads
  <1>3. ASSUME NEW s \in Sessions, Live(s), s \notin dropped'
        PROVE  s = saved.token /\ saved.user = sessions[s].user /\ saved.user \in Users
    <2>1. s = saved.token
      BY <1>1, <1>3, PageLeft
    <2> QED
      BY <1>1, <1>3, <2>1 DEF IInv, SavedFits, Owned, Live
  <1>4. dropped' \subseteq Sessions
    BY <1>1, <1>2, InFlightTyped DEF TypeOK
  <1>5. CASE /\ None \in {saved.token, saved.user}
             /\ user' = None /\ token' = None /\ thread' = [q \in Threads |-> Idle]
    <2>1. thread' \in [Threads -> States] /\ \A q \in Threads : thread'[q].at = "idle" /\ thread'[q].sent = None
      BY <1>5, IdleState DEF Idle
    <2>2. TypeOK'
      BY <1>1, <1>2, <1>4, <1>5, <2>1 DEF TypeOK, States
    <2>3. Owned' /\ WelcomeIsNew' /\ LetGo'
      BY <1>1, <1>5, <2>1 DEF IInv, Owned, Opened, WelcomeIsNew, LetGo, At
    <2>4. Kept'
      BY <1>1, <1>3, <1>5, WorkspaceAssumption DEF Kept, Live
    <2>5. SavedFits' /\ SavedSoon'
      BY <1>1, <1>5 DEF IInv, SavedFits, SavedSoon, Live
    <2> QED
      BY <2>2, <2>3, <2>4, <2>5 DEF IInv
  <1>6. CASE /\ None \notin {saved.token, saved.user}
             /\ token' = saved.token /\ user' = saved.user
             /\ thread' = [q \in Threads |->
                   IF q = t THEN [Idle EXCEPT !.at = "refresh", !.sent = saved.token, !.then = "shell"]
                   ELSE Idle]
    <2>1. saved.token \in Sessions /\ saved.user \in Users
      BY <1>2, <1>6 DEF TypeOK
    <2>2. [Idle EXCEPT !.at = "refresh", !.sent = saved.token, !.then = "shell"] \in States
      BY <2>1 DEF Idle, States, Points, After
    <2>3. /\ thread' \in [Threads -> States]
          /\ \A q \in Threads : /\ thread'[q].at \in {"idle", "refresh"}
                                /\ thread'[q].sent \in {None, saved.token}
                                /\ thread'[q].at = "refresh" => thread'[q].sent = saved.token
      BY <1>6, <2>2, IdleState DEF Idle
    <2>4. TypeOK'
      BY <1>1, <1>2, <1>4, <1>6, <2>1, <2>3 DEF TypeOK, States
    <2>5. Owned' /\ WelcomeIsNew' /\ LetGo'
      BY <1>1, <1>6, <2>1, <2>3 DEF IInv, Owned, Opened, WelcomeIsNew, LetGo, At
    <2>6. Kept'
      BY <1>1, <1>3, <1>6 DEF Kept, Live
    <2>7. SavedFits'
      BY <1>1 DEF IInv, SavedFits, Live
    <2>8. SavedSoon'
      <3>1. saved = [token |-> saved.token, user |-> saved.user]
        BY <1>2 DEF TypeOK
      <3> QED
        BY <1>1, <1>6, <3>1 DEF SavedSoon
    <2> QED
      BY <2>4, <2>5, <2>6, <2>7, <2>8 DEF IInv
  <1> QED
    BY <1>5, <1>6 DEF Reload, Forget

LEMMA RestartStep ==
    ASSUME IInv, Restart
    PROVE  IInv'
  <1>1. /\ screen' = "login" /\ polled' = FALSE
        /\ saved' = [token |-> None, user |-> None]
        /\ user' = None /\ token' = None /\ thread' = [q \in Threads |-> Idle]
    BY DEF Restart, Forget, NothingSaved
  <1>2. TypeOK /\ saved.token \in Sessions \cup {None}
    BY DEF IInv, TypeOK
  <1>3. SessionsEnd /\ dropped \subseteq dropped' /\ dropped' \subseteq Sessions
    BY <1>2, OneEnds, NoneEnds, InFlightTyped DEF Restart, LeavePage, TypeOK
  <1>4. ASSUME NEW s \in Sessions, Live(s)' PROVE s \in dropped'
    <2>1. Live(s)
      BY <1>3, <1>4 DEF SessionsEnd, Live
    <2>2. CASE sessions' = EndOf(saved.token) /\ LeavePage
      <3>1. s # saved.token
        BY <1>2, <1>4, <2>1, <2>2 DEF EndOf, Live, TypeOK
      <3> QED
        BY <2>1, <2>2, <3>1, PageLeft DEF LeavePage
    <2>3. CASE dropped' = dropped \cup (({token, saved.token} \cup InFlight) \ {None})
      BY <2>1, <2>3, PageLeft, WorkspaceAssumption
    <2> QED
      BY <2>2, <2>3 DEF Restart
  <1>5. thread' \in [Threads -> States] /\ \A q \in Threads : thread'[q].at = "idle" /\ thread'[q].sent = None
    BY <1>1, IdleState DEF Idle
  <1>6. TypeOK'
    BY <1>1, <1>2, <1>3, <1>5 DEF TypeOK, States, SessionsEnd, SessionRows
  <1>7. Owned'
    BY <1>1, <1>3, <1>5 DEF IInv, Owned, Opened, SessionsEnd, At
  <1>8. WelcomeIsNew' /\ LetGo'
    BY <1>5 DEF WelcomeIsNew, LetGo, At
  <1>9. Kept'
    BY <1>4 DEF Kept
  <1>10. SavedFits' /\ SavedSoon'
    BY <1>1 DEF SavedFits, SavedSoon, Live
  <1> QED
    BY <1>6, <1>7, <1>8, <1>9, <1>10 DEF IInv

-----------------------------------------------------------------------------

LEMMA NextInv == IInv /\ [Next]_vars => IInv'
  <1> SUFFICES ASSUME IInv, [Next]_vars PROVE IInv'
    OBVIOUS
  <1>1. CASE UNCHANGED vars
    BY <1>1 DEF vars, IInv, TypeOK, Owned, Opened, WelcomeIsNew, Kept, SavedFits, Live, LetGo, DoneWith,
                SavedSoon, At
  <1>2. ASSUME NEW t \in Threads, Step(t) PROVE IInv'
    BY <1>2, QuietSteps, RenewedStep, SaveStep, ForgetStep, ClearStep, LoginAnsweredStep, WelcomeStep,
       LogoutAnsweredStep
       DEF Step
  <1>3. ASSUME NEW t \in Threads, Call(t) \/ CallLost(t) \/ RefreshLost(t) \/ Logout(t) \/ LogoutLost(t)
        PROVE  IInv'
    BY <1>3, QuietSteps
  <1>4. ASSUME NEW t \in Threads, NEW u \in Users, Login(t, u) PROVE IInv'
    BY <1>4, QuietSteps
  <1> QED
    BY <1>1, <1>2, <1>3, <1>4, RevokeStep, ReloadStep, RestartStep DEF Next

(* The inductive invariant holds of every reachable state. *)
THEOREM WorkspaceInvariance == Spec => []IInv
  BY InitInv, NextInv, PTL DEF Spec

(* One person's name is never over another's working session that the page *)
(* has not let go of, and a reload restores the login the page has, for    *)
(* any number of users, sessions and threads, however calls overlap.       *)
THEOREM OwnWorkspace == Spec => []WorkspaceIsOwners
  <1>1. IInv => WorkspaceIsOwners
    <2> SUFFICES ASSUME IInv PROVE WorkspaceIsOwners
      OBVIOUS
    <2>1. NameFitsSession
      <3> SUFFICES ASSUME user # None, Live(token), sessions[token].user # user, token \notin dropped
                   PROVE  FALSE
        BY DEF NameFitsSession
      <3>1. token \in Sessions
        BY DEF IInv, TypeOK, Live
      <3> QED
        BY <3>1 DEF IInv, Kept, WelcomeIsNew
    <2>2. SavedIsCurrent
      BY DEF SavedIsCurrent, IInv, SavedSoon, At
    <2> QED
      BY <2>1, <2>2 DEF WorkspaceIsOwners, IInv
  <1> QED
    BY <1>1, WorkspaceInvariance, PTL
=============================================================================
