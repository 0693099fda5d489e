----------------------------- MODULE MCBrowser -----------------------------
(* The session of a browser and the pages of the administrators, which     *)
(* share no state: each moves while the other rests where it started.      *)
EXTENDS Sessions, MCPages

PagesRest == Init /\ view = "grades" /\ role = "admin" /\ UNCHANGED vars
SessionsRest == SessionsInit /\ UNCHANGED sessionsVars

BrowserNext ==
  \/ SessionsNext /\ PagesRest
  \/ Next /\ SessionsRest

BrowserInit == SessionsInit /\ Init
BrowserSpec ==
  /\ BrowserInit
  /\ [][BrowserNext]_<<sessionsVars, vars>>
  /\ SessionsFairness
=============================================================================
