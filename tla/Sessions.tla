------------------------------ MODULE Sessions ------------------------------
(***************************************************************************)
(* One browser of one user: its tabs, the refresh cookie they share, and   *)
(* the rows of user_sessions behind it.                                    *)
(*                                                                         *)
(* A tab keeps its access token in memory and loses it with every page     *)
(* load.  It then restores the session with POST /auth/refresh; so does    *)
(* ApiClient, once for all requests that were answered 401.  The server    *)
(* checks the cookie, then revokes it and issues another one; the browser  *)
(* stores the cookie of whichever reply comes last.  Replies are lost,     *)
(* tokens expire, accounts are disabled.                                   *)
(*                                                                         *)
(* The names that StudentApp has too carry a prefix: BrowserProofs extends *)
(* both modules.                                                           *)
(***************************************************************************)
EXTENDS Integers, FiniteSets

CONSTANTS
  Tabs,
  Requests,     \* protected requests a tab may have open at once
  MaxSessions   \* bound on the sessions issued

ASSUME SessionAssumption == IsFiniteSet(Tabs) /\ MaxSessions \in Nat

VARIABLES
  place,      \* what a tab shows: /login, nothing (checked = false), a page
  token,      \* accessToken of lib/api.ts and whether it has expired
  req,        \* the protected requests of a tab
  renew,      \* refreshInFlight or bootstrapSession of a tab
  form,       \* login, logout or changePassword of a tab
  cookie,     \* the refresh_token cookie, 0 without one
  active,     \* user_sessions that are neither revoked nor expired
  issued,     \* sessions created so far: session n is the n-th
  revokedTo,  \* issued when a password change last revoked all sessions
  signedIn,   \* the user logged in and has not pressed log out since
  interfered  \* what has interfered with the calls: see Interferences

sessionsVars == <<place, token, req, renew, form, cookie, active, issued, revokedTo,
                  signedIn, interfered>>

Interferences == {"overlap", "lost", "disabled"}
AccountEnabled == "disabled" \notin interfered   \* users.is_active
SessionIds == 1..MaxSessions
ReqStates == {"idle", "sent", "waiting"}
CallSteps == {"sent", "checked", "revoked", "done", "refused", "lost"}
NoSend == [op |-> "none", step |-> "none", held |-> 0, new |-> 0]
Calls(ops) == {NoSend} \cup
  [op : ops, step : CallSteps, held : 0..MaxSessions, new : 0..MaxSessions]
RenewOps == {"refresh", "boot"}
FormOps == {"login", "logout", "change"}

InFlight == {t \in Tabs : renew[t] # NoSend} \cup {t \in Tabs : form[t] # NoSend}

(* Bound: n more sessions may be issued besides those of the calls under way. *)
Room(n) == issued + n + Cardinality({t \in Tabs : renew[t] # NoSend})
                     + Cardinality({t \in Tabs : form[t] # NoSend}) <= MaxSessions

(* A call carries the cookie the browser holds when it is sent. *)
Sent(op) == [op |-> op, step |-> "sent", held |-> cookie, new |-> 0]
NoteOverlap == interfered' = interfered \cup (IF InFlight = {} THEN {} ELSE {"overlap"})

SessionsInit ==
  /\ place = [t \in Tabs |-> "login"]
  /\ token = [t \in Tabs |-> "none"]
  /\ req = [t \in Tabs |-> [r \in Requests |-> "idle"]]
  /\ renew = [t \in Tabs |-> NoSend]
  /\ form = [t \in Tabs |-> NoSend]
  /\ cookie = 0
  /\ active = {}
  /\ issued = 0
  /\ revokedTo = 0
  /\ signedIn = FALSE
  /\ interfered = {}

-----------------------------------------------------------------------------
(* The tab. *)

(* A page is opened, or loaded again: the token is gone, and the layout     *)
(* asks for a new one before it shows anything.                             *)
LoadPage(t) ==
  /\ renew[t] = NoSend /\ form[t] = NoSend /\ Room(1)
  /\ place' = [place EXCEPT ![t] = "boot"]
  /\ token' = [token EXCEPT ![t] = "none"]
  /\ req' = [req EXCEPT ![t] = [r \in Requests |-> "idle"]]
  /\ renew' = [renew EXCEPT ![t] = Sent("boot")]
  /\ NoteOverlap
  /\ UNCHANGED <<form, cookie, active, issued, revokedTo, signedIn>>

(* A request is sent with a token that has expired.  One with a valid token *)
(* is answered and leaves no trace here, and so does a second try.          *)
Ask(t, r) ==
  /\ place[t] = "page" /\ req[t][r] = "idle" /\ token[t] # "valid"
  /\ req' = [req EXCEPT ![t][r] = "sent"]
  /\ UNCHANGED <<place, token, renew, form, cookie, active, issued, revokedTo,
                 signedIn, interfered>>

(* Its 401: the request waits for the refresh in flight, or starts one, even *)
(* if the tab has got a valid token since.                                  *)
Denied(t, r) ==
  /\ req[t][r] = "sent"
  /\ renew[t].op # "boot"
  /\ req' = [req EXCEPT ![t][r] = "waiting"]
  /\ IF renew[t] = NoSend
       THEN Room(1) /\ renew' = [renew EXCEPT ![t] = Sent("refresh")] /\ NoteOverlap
       ELSE UNCHANGED <<renew, interfered>>
  /\ UNCHANGED <<place, token, form, cookie, active, issued, revokedTo,
                 signedIn>>

ExpireToken(t) ==
  /\ place[t] = "page" /\ token[t] = "valid"
  /\ token' = [token EXCEPT ![t] = "expired"]
  /\ UNCHANGED <<place, req, renew, form, cookie, active, issued, revokedTo,
                 signedIn, interfered>>

(* Bound: a user waits for one form before pressing the next. *)
PressForm(t, op) ==
  /\ Room(1) /\ \A u \in Tabs : form[u] = NoSend
  /\ form' = [form EXCEPT ![t] = Sent(op)]
  /\ NoteOverlap
  /\ UNCHANGED <<place, token, req, renew, cookie, active, issued, revokedTo>>

PressLogin(t) == place[t] = "login" /\ PressForm(t, "login") /\ UNCHANGED signedIn
PressLogout(t) == place[t] = "page" /\ PressForm(t, "logout") /\ signedIn' = FALSE
PressChange(t) ==   \* one with an expired token is refused, and changes nothing
  /\ place[t] = "page" /\ token[t] = "valid"
  /\ PressForm(t, "change") /\ UNCHANGED signedIn

(* The callback of an OAuth provider issues a session, to an account that   *)
(* is disabled too, and sends the browser to a page that boots with it.     *)
ReturnFromProvider(t) ==
  /\ place[t] = "login" /\ renew[t] = NoSend /\ form[t] = NoSend
  /\ Room(2)
  /\ issued' = issued + 1
  /\ active' = active \cup {issued + 1}
  /\ cookie' = issued + 1
  /\ place' = [place EXCEPT ![t] = "boot"]
  /\ token' = [token EXCEPT ![t] = "none"]
  /\ req' = [req EXCEPT ![t] = [r \in Requests |-> "idle"]]
  /\ renew' = [renew EXCEPT ![t] = [Sent("boot") EXCEPT !.held = issued + 1]]
  /\ signedIn' = TRUE
  /\ NoteOverlap
  /\ UNCHANGED <<form, revokedTo>>

(* The requests that wait for the refresh end with it: with a result or an error. *)
ReleasedRequests(t) ==
  [r \in Requests |-> IF req[t][r] = "waiting" THEN "idle" ELSE req[t][r]]

(* Mutant: the reply does not replace the cookie. *)
RenewWithoutCookie(t) ==
  /\ renew[t].step = "done"
  /\ token' = [token EXCEPT ![t] = "valid"]
  /\ place' = [place EXCEPT ![t] = IF renew[t].op = "boot" THEN "page" ELSE @]
  /\ req' = [req EXCEPT ![t] = ReleasedRequests(t)]
  /\ renew' = [renew EXCEPT ![t] = NoSend]
  /\ UNCHANGED <<form, cookie, active, issued, revokedTo, signedIn, interfered>>

(* A new pair of token and cookie arrives. *)
RenewArrives(t) ==
  /\ renew[t].step = "done"
  /\ cookie' = renew[t].new
  /\ token' = [token EXCEPT ![t] = "valid"]
  /\ place' = [place EXCEPT ![t] = IF renew[t].op = "boot" THEN "page" ELSE @]
  /\ req' = [req EXCEPT ![t] = ReleasedRequests(t)]
  /\ renew' = [renew EXCEPT ![t] = NoSend]
  /\ UNCHANGED <<form, active, issued, revokedTo, signedIn, interfered>>

(* Mutant: a failed refresh clears the token and stays on the page. *)
RenewFailsHere(t) ==
  /\ renew[t].step \in {"refused", "lost"}
  /\ cookie' = IF renew[t].step = "refused" /\ renew[t].held # 0 THEN 0 ELSE cookie
  /\ token' = [token EXCEPT ![t] = "none"]
  /\ renew' = [renew EXCEPT ![t] = NoSend]
  /\ req' = [req EXCEPT ![t] = ReleasedRequests(t)]
  /\ UNCHANGED <<place, form, active, issued, revokedTo, signedIn, interfered>>

(* Mutant: a refresh without an answer is not caught. *)
RenewFailsIfRefused(t) ==
  /\ renew[t].step = "refused"
  /\ cookie' = IF renew[t].held # 0 THEN 0 ELSE cookie
  /\ token' = [token EXCEPT ![t] = "none"]
  /\ renew' = [renew EXCEPT ![t] = NoSend]
  /\ place' = [place EXCEPT ![t] = "login"]
  /\ req' = [req EXCEPT ![t] = [r \in Requests |-> "idle"]]
  /\ UNCHANGED <<form, active, issued, revokedTo, signedIn, interfered>>

(* The refresh failed.  A refusal empties the cookie, whatever it holds by  *)
(* now.  onAuthFailure of a page loads /login, and the tab forgets its      *)
(* requests; so does the layout after a failed bootstrap, by its router.    *)
RenewFails(t) ==
  /\ renew[t].step \in {"refused", "lost"}
  /\ cookie' = IF renew[t].step = "refused" /\ renew[t].held # 0 THEN 0 ELSE cookie
  /\ token' = [token EXCEPT ![t] = "none"]
  /\ renew' = [renew EXCEPT ![t] = NoSend]
  /\ IF place[t] = "login"
       THEN /\ req' = [req EXCEPT ![t] = ReleasedRequests(t)]
            /\ UNCHANGED place
       ELSE /\ place' = [place EXCEPT ![t] = "login"]
            /\ req' = [req EXCEPT ![t] = [r \in Requests |-> "idle"]]
  /\ UNCHANGED <<form, active, issued, revokedTo, signedIn, interfered>>

(* login and changePassword succeeded: applySession. *)
FormSucceeds(t) ==
  /\ form[t].op \in {"login", "change"} /\ form[t].step = "done"
  /\ cookie' = form[t].new
  /\ token' = [token EXCEPT ![t] =
       IF form[t].op = "change" /\ place[t] = "login" THEN "none" ELSE "valid"]
  /\ IF form[t].op = "login"
       THEN place' = [place EXCEPT ![t] = "page"] /\ signedIn' = TRUE
       ELSE UNCHANGED <<place, signedIn>>
  /\ form' = [form EXCEPT ![t] = NoSend]
  /\ UNCHANGED <<req, renew, active, issued, revokedTo, interfered>>

FormFails(t) ==
  /\ form[t].op \in {"login", "change"} /\ form[t].step \in {"refused", "lost"}
  /\ form' = [form EXCEPT ![t] = NoSend]
  /\ UNCHANGED <<place, token, req, renew, cookie, active, issued, revokedTo,
                 signedIn, interfered>>

(* The tab forgets its token and shows /login even if logout failed. *)
LogoutReturns(t) ==
  /\ form[t].op = "logout" /\ form[t].step \in {"done", "lost"}
  /\ cookie' = IF form[t].step = "done" THEN 0 ELSE cookie
  /\ token' = [token EXCEPT ![t] = "none"]
  /\ place' = [place EXCEPT ![t] = "login"]
  /\ form' = [form EXCEPT ![t] = NoSend]
  /\ UNCHANGED <<req, renew, active, issued, revokedTo, signedIn, interfered>>

-----------------------------------------------------------------------------
(* The server.  A statement of AuthService is a step. *)

RenewTo(t, step) == renew' = [renew EXCEPT ![t].step = step]

CheckCookie(t) ==
  /\ renew[t].step = "sent"
  /\ IF renew[t].held \notin active
       THEN RenewTo(t, "refused") /\ UNCHANGED active
       ELSE IF AccountEnabled
              THEN RenewTo(t, "checked") /\ UNCHANGED active
              ELSE RenewTo(t, "refused") /\ active' = {}
  /\ UNCHANGED <<place, token, req, form, cookie, issued, revokedTo,
                 signedIn, interfered>>

(* The statements between the check and the reply: the old session is      *)
(* revoked, its error ignored, and issueTokens inserts the next.           *)
Rotate(t) ==
  /\ renew[t].step = "checked"
  /\ issued' = issued + 1
  /\ active' = (active \ {renew[t].held}) \cup {issued + 1}
  /\ renew' = [renew EXCEPT ![t].step = "done", ![t].new = issued + 1, ![t].held = 0]
  /\ UNCHANGED <<place, token, req, form, cookie, revokedTo, signedIn, interfered>>

(* A wrong password, a disabled account, or (changePassword) a token that   *)
(* has expired by now, which paths under /auth/ do not renew.               *)
RefuseForm(t) ==
  /\ form[t].op \in {"login", "change"} /\ form[t].step = "sent"
  /\ form' = [form EXCEPT ![t].step = "refused"]
  /\ UNCHANGED <<place, token, req, renew, cookie, active, issued, revokedTo,
                 signedIn, interfered>>

(* Mutant: the change revokes the session of this browser's cookie only. *)
RevokeOwn(t) ==
  /\ form[t].op = "change" /\ form[t].step = "sent"
  /\ active' = active \ {form[t].held}
  /\ revokedTo' = issued
  /\ form' = [form EXCEPT ![t].step = "revoked"]
  /\ UNCHANGED <<place, token, req, renew, cookie, issued, signedIn, interfered>>

RevokeAll(t) ==
  /\ form[t].op = "change" /\ form[t].step = "sent"
  /\ active' = {}
  /\ revokedTo' = issued
  /\ form' = [form EXCEPT ![t].step = "revoked"]
  /\ UNCHANGED <<place, token, req, renew, cookie, issued, signedIn, interfered>>

IssueForForm(t) ==
  /\ \/ form[t].op = "login" /\ form[t].step = "sent" /\ AccountEnabled
     \/ form[t].op = "change" /\ form[t].step = "revoked"
  /\ issued' = issued + 1
  /\ active' = active \cup {issued + 1}
  /\ form' = [form EXCEPT ![t].step = "done", ![t].new = issued + 1]
  /\ UNCHANGED <<place, token, req, renew, cookie, revokedTo, signedIn, interfered>>

RevokeByLogout(t) ==
  /\ form[t].op = "logout" /\ form[t].step = "sent"
  /\ active' = active \ {form[t].held}
  /\ form' = [form EXCEPT ![t].step = "done"]
  /\ UNCHANGED <<place, token, req, renew, cookie, issued, revokedTo,
                 signedIn, interfered>>

(* issueTokens fails after the old session was revoked. *)
IssueFails(t) ==
  /\ renew[t].step = "checked" /\ "lost" \notin interfered
  /\ active' = active \ {renew[t].held}
  /\ RenewTo(t, "refused")
  /\ interfered' = interfered \cup {"lost"}
  /\ UNCHANGED <<place, token, req, form, cookie, issued, revokedTo, signedIn>>

Disable ==
  /\ AccountEnabled
  /\ interfered' = interfered \cup {"disabled"}
  /\ UNCHANGED <<place, token, req, renew, form, cookie, active, issued, revokedTo,
                 signedIn>>

(* A request does not reach the server, a statement of it fails, or its    *)
(* reply does not come back.                                                *)
(* Bound: this happens once.                                               *)
LoseRenew(t) ==
  /\ renew[t].step \in {"sent", "done", "refused"} /\ "lost" \notin interfered
  /\ RenewTo(t, "lost")
  /\ interfered' = interfered \cup {"lost"}
  /\ UNCHANGED <<place, token, req, form, cookie, active, issued, revokedTo, signedIn>>

LoseForm(t) ==
  /\ form[t].step \in {"sent", "revoked", "done", "refused"} /\ "lost" \notin interfered
  /\ form' = [form EXCEPT ![t].step = "lost"]
  /\ interfered' = interfered \cup {"lost"}
  /\ UNCHANGED <<place, token, req, renew, cookie, active, issued, revokedTo, signedIn>>

-----------------------------------------------------------------------------
Renewing(t) == CheckCookie(t) \/ Rotate(t) \/ RenewArrives(t) \/ RenewFails(t)
Submitting(t) == RevokeAll(t) \/ IssueForForm(t) \/ RevokeByLogout(t)
                   \/ FormSucceeds(t) \/ FormFails(t) \/ LogoutReturns(t)

SessionsNext ==
  \/ \E t \in Tabs :
       \/ LoadPage(t) \/ ExpireToken(t)
       \/ PressLogin(t) \/ PressLogout(t) \/ PressChange(t) \/ ReturnFromProvider(t)
       \/ \E r \in Requests : Ask(t, r) \/ Denied(t, r)
       \/ Renewing(t) \/ Submitting(t) \/ RefuseForm(t)
       \/ IssueFails(t) \/ LoseRenew(t) \/ LoseForm(t)
  \/ Disable

SessionsSpec == SessionsInit /\ [][SessionsNext]_sessionsVars

(* The server answers and the replies arrive; nothing makes a user act, a  *)
(* token expire or a page load.                                            *)
SessionsFairness == \A t \in Tabs :
  /\ WF_sessionsVars(Renewing(t))
  /\ \A r \in Requests : WF_sessionsVars(Denied(t, r))
FairSpec == SessionsSpec /\ SessionsFairness

-----------------------------------------------------------------------------
(* The types of the variables; place, token and the calls of a tab agree. *)
SessionsTypeOK ==
  /\ place \in [Tabs -> {"login", "boot", "page"}]
  /\ token \in [Tabs -> {"none", "valid", "expired"}]
  /\ req \in [Tabs -> [Requests -> ReqStates]]
  /\ renew \in [Tabs -> Calls(RenewOps)]
  /\ form \in [Tabs -> Calls(FormOps)]
  /\ cookie \in 0..MaxSessions
  /\ active \subseteq SessionIds
  /\ issued \in 0..MaxSessions /\ revokedTo \in 0..issued
  /\ signedIn \in BOOLEAN
  /\ interfered \subseteq Interferences

(* Rotation loses no session: while no two calls overlap, no reply is lost  *)
(* and the account stays enabled, the cookie of a signed-in user is an      *)
(* active session whenever no call is under way.                            *)
KeepsSession ==
  interfered = {} /\ signedIn /\ InFlight = {} => cookie \in active

(* What the comment of tryRefresh says of concurrent requests, for the tabs *)
(* of a browser: that calls overlap takes nobody's session away.            *)
OverlapKeepsSession ==
  interfered \subseteq {"overlap"} /\ signedIn /\ InFlight = {} => cookie \in active

(* A password change ends the sessions: one that was issued by the time it  *)
(* revoked them all is never active again, whatever refreshes and logins    *)
(* run meanwhile.  A refresh that had passed its check by then may still    *)
(* issue one, which is active.                                              *)
ChangeEndsSessions == \A s \in active : s > revokedTo

(* A page is shown only with a token to ask for its data, and the requests  *)
(* of a tab wait for a refresh only while there is one.                     *)
PageHasToken ==
  \A t \in Tabs :
    /\ place[t] = "page" => token[t] # "none"
    /\ (\E r \in Requests : req[t][r] = "waiting") => renew[t].op = "refresh"

(* A request that was answered 401 is answered in the end: every refresh    *)
(* releases the requests that wait for it.                                  *)
RequestsReturn ==
  \A t \in Tabs, r \in Requests : req[t][r] = "waiting" ~> req[t][r] = "idle"
=============================================================================
