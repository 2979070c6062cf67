----------------------------- MODULE SignInPage -----------------------------
(***************************************************************************)
(* What cmd/bridge-control/signin.go promises whoever talks to its sign-in *)
(* page: when a page comes up, what it is told, for what it goes, and what *)
(* its watchers do to the login session, without events, accounts and      *)
(* goroutines.  SignIn implements it, and SetupPage relies on it.          *)
(*                                                                         *)
(* The accounts are the bridge's: whether one of them is connected is an   *)
(* argument of the steps that look.                                        *)
(***************************************************************************)
EXTENDS SignInFlow

VARIABLES
  page,       \* called for, up, closing (http.Shutdown), or down
  signedIn,   \* MarkSignedIn was called for the page that runs
  resetDue    \* a watcher saw a success and has not reset the session yet

pageVars == <<page, signedIn, resetDue>>

Page == {"down", "called", "up", "closing"}

PageTypeOK == page \in Page /\ signedIn \in BOOLEAN /\ resetDue \in BOOLEAN

PageInit == FlowInit /\ page = "down" /\ signedIn = FALSE /\ resetDue = FALSE

\* No account is connected, so a page is wanted.
Called(connected) ==
  /\ page = "down" /\ ~connected
  /\ page' = "called"
  /\ UNCHANGED <<flow, signedIn, resetDue>>

ComesUp ==
  /\ page = "called"
  /\ page' = "up"
  /\ UNCHANGED <<flow, signedIn, resetDue>>

Gone == page' = "down" /\ signedIn' = FALSE /\ UNCHANGED <<flow, resetDue>>

Fails == page \in {"called", "up"} /\ Gone

\* The page's watcher tells it of a success, which it then resets, or of an
\* account, whoever connected it; maybe before the page is up.
MarkSignedIn(connected) ==
  /\ page # "down"
  /\ signedIn' = TRUE
  /\ \/ state = "succeeded" /\ resetDue' = TRUE
     \/ connected /\ UNCHANGED resetDue
  /\ UNCHANGED <<flow, page>>

\* The watcher of a page that is gone sees a success; no page hears of it.
SeesLate ==
  /\ state = "succeeded"
  /\ resetDue' = TRUE
  /\ UNCHANGED <<flow, page, signedIn>>

\* Another watcher may be about to do the same.
Resets ==
  /\ resetDue /\ Clear
  /\ resetDue' \in BOOLEAN
  /\ UNCHANGED <<page, signedIn>>

ServeSelects ==
  /\ page = "up" /\ signedIn
  /\ page' = "closing"
  /\ UNCHANGED <<flow, signedIn, resetDue>>

\* The process is told to stop.
ServeCancelled ==
  /\ page = "up"
  /\ page' = "closing"
  /\ UNCHANGED <<flow, signedIn, resetDue>>

Shutdown == page = "closing" /\ Gone

\* What the handlers, the bridge and the session itself do; a handler may outlive
\* its page.
Session ==
  /\ \/ Begin \/ Answer \/ Settle \/ GiveUp \/ CallFails
     \/ \E news \in News : Report(news)
  /\ UNCHANGED pageVars

\* The container stops and starts again.
Crash ==
  /\ state' = "idle" /\ disturbed' = FALSE
  /\ page' = "down" /\ signedIn' = FALSE /\ resetDue' = FALSE

\* Everything but the end of the process.
PageRuns(connected) ==
  \/ Called(connected)
  \/ ComesUp
  \/ Fails
  \/ MarkSignedIn(connected)
  \/ SeesLate
  \/ Resets
  \/ ServeSelects
  \/ Shutdown
  \/ Session

PageNext(connected) == PageRuns(connected) \/ ServeCancelled \/ Crash
=============================================================================
