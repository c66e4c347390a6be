------------------------------ MODULE Workspace ------------------------------
(***************************************************************************)
(* Who is signed in to an open workspace: frontend/admin/app.py, one page  *)
(* of the app and the login sessions it opens in the backend.              *)
(*                                                                         *)
(* Flet runs every click in a thread of its own, and the bell asks for     *)
(* notifications from one more, so calls to the backend overlap; all read  *)
(* and write the variables of main.  A handler is split where it waits: at *)
(* a call, and at the browser's storage.  The access and refresh tokens of *)
(* a session are set together and stand for the session (refreshing gives  *)
(* new ones for the same session).  Left out: roles and permissions, which *)
(* go with the tokens, and the page of a scanned QR code, which waits for  *)
(* a login.                                                                *)
(***************************************************************************)
EXTENDS Naturals, FiniteSets

CONSTANTS Users,     \* accounts that log in on this page
          Sessions,  \* the ids of login sessions, used once each (BOUND)
          Clicks,    \* threads of clicks running at one time
          Bell,      \* the thread that polls notifications
          None       \* Python's None

ASSUME WorkspaceAssumption == None \notin Users \cup Sessions /\ Bell \notin Clicks

VARIABLES sessions,  \* the backend's rows: [state, user]
          user,      \* current_user
          token,     \* runtime_token and refresh_token
          screen,    \* what the page shows
          saved,     \* the browser's storage: sb_access_token, sb_current_user
          polled,    \* a shell was drawn, so the bell polls
          thread,    \* where each thread is
          dropped    \* HISTORY: sessions let go of while a call failed, a page was
                     \* left or another login or logout overtook, not known ended

vars == <<sessions, user, token, screen, saved, polled, thread, dropped>>
Threads == Clicks \cup {Bell}

(* sent: the session a call carries, or opened; older: its access token was *)
(* replaced by a refresh since; then: what follows the call or refresh,    *)
(* where "profile" is the call a shell is drawn after.                     *)
Idle == [at |-> "idle", sent |-> None, who |-> None, older |-> FALSE, then |-> "idle"]
Points == {"idle", "call", "refresh", "renewed", "save", "refused", "clear",
           "login", "welcome", "shell", "draw", "logout", "leave"}
After == {"idle", "call", "shell", "profile", "draw"}

TypeOK ==
    /\ sessions \in [Sessions -> [state : {"unused", "live", "ended"}, user : Users \cup {None}]]
    /\ user \in Users \cup {None} /\ token \in Sessions \cup {None}
    /\ screen \in {"login", "shell"} /\ polled \in BOOLEAN
    /\ saved \in [token : Sessions \cup {None}, user : Users \cup {None}]
    /\ thread \in [Threads -> [at : Points, sent : Sessions \cup {None}, who : Users \cup {None},
                               older : BOOLEAN, then : After]]
    /\ dropped \subseteq Sessions

NothingSaved == [token |-> None, user |-> None]
Live(s) == s # None /\ sessions[s].state = "live"
EndOf(s) == IF Live(s) THEN [sessions EXCEPT ![s].state = "ended"] ELSE sessions

Init ==
    /\ sessions = [s \in Sessions |-> [state |-> "unused", user |-> None]]
    /\ user = None /\ token = None /\ screen = "login" /\ polled = FALSE
    /\ saved = NothingSaved
    /\ thread = [t \in Threads |-> Idle]
    /\ dropped = {}

At(t, point) == thread[t].at = point
Move(t, state) == thread' = [thread EXCEPT ![t] = state]
Goto(t, point) == Move(t, [thread[t] EXCEPT !.at = point])

(* On with what the refresh was made for, with the token there is now. *)
Resume(t) ==
    LET next == thread[t].then
    IN  IF next \in {"call", "profile"}
        THEN [Idle EXCEPT !.at = "call", !.sent = token, !.then = IF next = "profile" THEN "draw" ELSE "idle"]
        ELSE [Idle EXCEPT !.at = next]
(* On after a call, answered or not.                                       *)
Return(t) == [Idle EXCEPT !.at = IF thread[t].then = "draw" THEN "draw" ELSE "idle"]

-----------------------------------------------------------------------------
(* A call to the backend: http, get_admin_headers and the hook that looks  *)
(* at every answer.                                                        *)

(* A token with less than five minutes left is refreshed first. *)
Call(t) ==
    /\ At(t, "idle")
    /\ IF t = Bell THEN polled /\ token # None ELSE screen = "shell"
    /\ \/ Move(t, [Idle EXCEPT !.at = "call", !.sent = token])
       \/ token # None /\ Move(t, [Idle EXCEPT !.at = "refresh", !.sent = token, !.then = "call"])
    /\ UNCHANGED <<sessions, user, token, screen, saved, polled, dropped>>

\* MUTANT: the hook leaves it to the next call to notice.
CallAnsweredOnly(t) ==
    /\ At(t, "call")
    /\ Move(t, Return(t))
    /\ UNCHANGED <<sessions, user, token, screen, saved, polled, dropped>>
(* A refused call with the token of the moment is followed by a refresh. *)
CallAnswered(t) ==
    /\ At(t, "call")
    /\ Move(t, IF /\ thread[t].sent # None /\ ~Live(thread[t].sent)
                  /\ token = thread[t].sent /\ ~thread[t].older
               THEN [Idle EXCEPT !.at = "refresh", !.sent = token, !.then = thread[t].then] ELSE Return(t))
    /\ UNCHANGED <<sessions, user, token, screen, saved, polled, dropped>>

CallLost(t) ==
    /\ At(t, "call")
    /\ Move(t, Return(t))
    /\ UNCHANGED <<sessions, user, token, screen, saved, polled, dropped>>

(* POST /auth/refresh: whatever is not a new token ends the session here.  *)
RefreshAnswered(t) ==
    /\ At(t, "refresh")
    /\ Goto(t, IF Live(thread[t].sent) THEN "renewed" ELSE "refused")
    /\ UNCHANGED <<sessions, user, token, screen, saved, polled, dropped>>

RefreshLost(t) ==
    /\ At(t, "refresh")
    /\ Goto(t, "refused")
    /\ dropped' = dropped \cup {thread[t].sent}
    /\ UNCHANGED <<sessions, user, token, screen, saved, polled>>

(* The new tokens are taken, for whoever is signed in by now. *)
Renewed(t) ==
    /\ At(t, "renewed")
    /\ token' = thread[t].sent
    /\ thread' = [q \in Threads |->
          IF q = t THEN [thread[q] EXCEPT !.at = "save"]
          ELSE [thread[q] EXCEPT !.older = @ \/ (thread[q].at = "call" /\ thread[q].sent = token')]]
    /\ dropped' = dropped \cup ({token} \ {None, token'})
    /\ UNCHANGED <<sessions, user, screen, saved, polled>>

\* MUTANT: the tokens of the answer are saved, not those of the moment.
SaveAnswer(t) ==
    /\ At(t, "save")
    /\ saved' = [token |-> thread[t].sent, user |-> user]
    /\ Move(t, Resume(t))
    /\ UNCHANGED <<sessions, user, token, screen, polled, dropped>>
(* save_session_state *)
Save(t) ==
    /\ At(t, "save")
    /\ saved' = [token |-> token, user |-> user]
    /\ Move(t, Resume(t))
    /\ UNCHANGED <<sessions, user, token, screen, polled, dropped>>

(* Everything the page knows of the login is forgotten ... *)
Forget == user' = None /\ token' = None

Refused(t) ==
    /\ At(t, "refused")
    /\ Forget
    /\ dropped' = dropped \cup ({token} \ {None, thread[t].sent})
    /\ Goto(t, "clear")
    /\ UNCHANGED <<sessions, screen, saved, polled>>

(* ... and then the storage is cleared and the login screen shown. *)
Clear(t) ==
    /\ At(t, "clear")
    /\ saved' = NothingSaved /\ screen' = "login"
    /\ dropped' = dropped \cup ({token} \ {None})
    /\ Move(t, Resume(t))
    /\ UNCHANGED <<sessions, user, token, polled>>

-----------------------------------------------------------------------------
(* attempt_login *)

Login(t, u) ==
    /\ t \in Clicks /\ At(t, "idle") /\ screen = "login"
    /\ Move(t, [Idle EXCEPT !.at = "login", !.who = u])
    /\ UNCHANGED <<sessions, user, token, screen, saved, polled, dropped>>

LoginAnswered(t, s) ==
    /\ At(t, "login")
    /\ sessions[s].state = "unused"
    /\ sessions' = [sessions EXCEPT ![s] = [state |-> "live", user |-> thread[t].who]]
    /\ \/ Move(t, [thread[t] EXCEPT !.at = "welcome", !.sent = s]) /\ UNCHANGED dropped
       \/ Move(t, Idle) /\ dropped' = dropped \cup {s}
    /\ UNCHANGED <<user, token, screen, saved, polled>>

LoginRefused(t) ==
    /\ At(t, "login")
    /\ Move(t, Idle)
    /\ UNCHANGED <<sessions, user, token, screen, saved, polled, dropped>>

Welcome(t) ==
    /\ At(t, "welcome")
    /\ token' = thread[t].sent /\ user' = thread[t].who
    /\ dropped' = dropped \cup ({token} \ {None})
    /\ Move(t, [thread[t] EXCEPT !.at = "save", !.then = "shell"])
    /\ UNCHANGED <<sessions, screen, saved, polled>>

(* show_shell: not when the session ended while the screen was built.     *)
(* The profile is asked for unless it is this user's already ...           *)
Shell(t) ==
    /\ At(t, "shell")
    /\ IF token = None THEN Move(t, Idle)
       ELSE \/ Move(t, [Idle EXCEPT !.at = "draw"])
            \/ Move(t, [Idle EXCEPT !.at = "call", !.sent = token, !.then = "draw"])
            \/ Move(t, [Idle EXCEPT !.at = "refresh", !.sent = token, !.then = "profile"])
    /\ UNCHANGED <<sessions, user, token, screen, saved, polled, dropped>>

(* ... and the shell is drawn, also when that call found the session ended. *)
Draw(t) ==
    /\ At(t, "draw")
    /\ screen' = "shell" /\ polled' = TRUE
    /\ Move(t, Idle)
    /\ UNCHANGED <<sessions, user, token, saved, dropped>>

-----------------------------------------------------------------------------
(* logout_user *)

Logout(t) ==
    /\ t \in Clicks /\ At(t, "idle") /\ screen = "shell"
    /\ Move(t, [Idle EXCEPT !.at = IF token = None THEN "leave" ELSE "logout", !.sent = token])
    /\ UNCHANGED <<sessions, user, token, screen, saved, polled, dropped>>

\* MUTANT: the backend is not told.
LogoutHere(t) ==
    /\ At(t, "logout")
    /\ Goto(t, "leave")
    /\ UNCHANGED <<sessions, user, token, screen, saved, polled, dropped>>
LogoutAnswered(t) ==
    /\ At(t, "logout")
    /\ sessions' = EndOf(thread[t].sent)
    /\ Goto(t, "leave")
    /\ UNCHANGED <<user, token, screen, saved, polled, dropped>>

(* Lost, or refused because the access token has expired: nothing ended. *)
LogoutLost(t) ==
    /\ At(t, "logout")
    /\ dropped' = dropped \cup {thread[t].sent}
    /\ Goto(t, "leave")
    /\ UNCHANGED <<sessions, user, token, screen, saved, polled>>

Leave(t) ==
    /\ At(t, "leave")
    /\ Forget
    /\ dropped' = dropped \cup ({token} \ {None, thread[t].sent})
    /\ Goto(t, "clear")
    /\ UNCHANGED <<sessions, screen, saved, polled>>

-----------------------------------------------------------------------------
(* Around the page. *)

(* Revoked by an administrator, expired, or its account deactivated. *)
Revoke(s) ==
    /\ Live(s)
    /\ sessions' = EndOf(s)
    /\ UNCHANGED <<user, token, screen, saved, polled, thread, dropped>>

(* The threads of the page that is left write to it in vain. *)
InFlight == {thread[t].sent : t \in {q \in Threads : thread[q].at = "welcome"}}
LeavePage == dropped' = dropped \cup (({token} \cup InFlight) \ {None, saved.token})

(* restore_saved_session: a login found in the storage is refreshed first. *)
Reload(t) ==
    /\ t \in Clicks
    /\ LeavePage
    /\ screen' = "login" /\ polled' = FALSE
    /\ IF None \in {saved.token, saved.user}
       THEN Forget /\ thread' = [q \in Threads |-> Idle]
       ELSE /\ token' = saved.token /\ user' = saved.user
            /\ thread' = [q \in Threads |->
                  IF q = t THEN [Idle EXCEPT !.at = "refresh", !.sent = saved.token, !.then = "shell"]
                  ELSE Idle]
    /\ UNCHANGED <<sessions, saved>>

(* The app is started again: a login saved by an earlier run is ended. *)
Restart ==
    /\ \/ sessions' = EndOf(saved.token) /\ LeavePage
       \/ UNCHANGED sessions /\ dropped' = dropped \cup (({token, saved.token} \cup InFlight) \ {None})
    /\ screen' = "login" /\ polled' = FALSE /\ saved' = NothingSaved
    /\ Forget
    /\ thread' = [q \in Threads |-> Idle]

Step(t) ==
    \/ CallAnswered(t) \/ RefreshAnswered(t) \/ Renewed(t) \/ Save(t) \/ Refused(t) \/ Clear(t)
    \/ Welcome(t) \/ Shell(t) \/ Draw(t) \/ LogoutAnswered(t) \/ Leave(t)
    \/ LoginRefused(t) \/ \E s \in Sessions : LoginAnswered(t, s)

Next ==
    \/ \E t \in Threads : \/ Call(t) \/ Step(t) \/ CallLost(t) \/ RefreshLost(t)
                          \/ Logout(t) \/ LogoutLost(t) \/ \E u \in Users : Login(t, u)
    \/ \E s \in Sessions : Revoke(s)
    \/ \E t \in Clicks : Reload(t)
    \/ Restart

Spec == Init /\ [][Next]_vars

(* Threads run on, the bell rings every thirty seconds while the page is   *)
(* open, and a backend asked again and again answers at last.              *)
Fairness ==
    /\ \A t \in Threads : WF_vars(Step(t))
    /\ WF_vars(Call(Bell)) /\ SF_vars(CallAnswered(Bell))

FairSpec == Spec /\ Fairness

-----------------------------------------------------------------------------
(* What the workspace owes the people who share it. *)

(* One person's name is never over another's working session, however a    *)
(* refresh under way for the one is overtaken by a logout and the login of *)
(* the other: the session is ended by then, unless it had been dropped     *)
(* without the backend being told.                                         *)
NameFitsSession ==
    user # None /\ Live(token) /\ sessions[token].user # user => token \in dropped

(* With no thread under way, the login a reload would restore is the one   *)
(* the page has now, never one that was left.                              *)
SavedIsCurrent ==
    (\A t \in Threads : At(t, "idle")) /\ None \notin {saved.token, saved.user}
        => saved = [token |-> token, user |-> user]

(* The variables, the storage and the sessions behind a workspace belong   *)
(* together (app.py refresh_runtime_token_if_needed, logout_user).         *)
WorkspaceIsOwners == TypeOK /\ NameFitsSession /\ SavedIsCurrent

(* "The backend refuses a revoked, signed-out or deactivated session on    *)
(* its next call" (app.py:254): a page that polls does not keep a session  *)
(* that has ended.                                                         *)
EndedIsNoticed ==
    \A s \in Sessions : (polled /\ token = s /\ ~Live(s)) ~> (token # s \/ ~polled)
=============================================================================
