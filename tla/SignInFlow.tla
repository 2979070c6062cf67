----------------------------- MODULE SignInFlow -----------------------------
(***************************************************************************)
(* What the login session promises whoever reads its status: the course of *)
(* a sign-in, without handlers, calls, events and goroutines.  Session     *)
(* implements it, and ProtonLogin is a reader that relies on it.           *)
(*                                                                         *)
(* The promise ends where somebody aborts, a call to the bridge fails or a *)
(* Reset comes late: from then on a report may find any state, until a     *)
(* sign-in begins with nothing of an earlier one on its way.               *)
(***************************************************************************)

VARIABLES
  state,       \* Status().State
  disturbed    \* the promise has ended

flow == <<state, disturbed>>

Secret == {"awaiting_totp", "awaiting_mailbox_password"}

\* The states in which a sign-in may be started.
Ended  == {"idle", "awaiting_human_verification", "succeeded", "failed"}

State  == Ended \cup Secret \cup {"awaiting_credentials", "setting_mode"}

\* What a report of the bridge may show.
News   == (State \ {"idle", "awaiting_credentials"})

FlowTypeOK == state \in State /\ disturbed \in BOOLEAN

FlowInit == state = "idle" /\ disturbed = FALSE

\* With nothing left on its way the promise begins anew.
Begin ==
  /\ state \in Ended
  /\ state' = "awaiting_credentials"
  /\ disturbed' \in {disturbed, FALSE}

Answer ==
  /\ state \in Secret
  /\ state' = "awaiting_credentials"
  /\ UNCHANGED disturbed

\* The bridge reports on a sign-in that waits for it.
Report(news) ==
  /\ state = "awaiting_credentials" \/ disturbed
  /\ state' = news
  /\ UNCHANGED disturbed

Settle ==
  /\ state = "setting_mode"
  /\ state' = "succeeded"
  /\ UNCHANGED disturbed

\* Abort.
GiveUp == state' = "idle" /\ disturbed' = TRUE

\* A call to the bridge fails; that of Abort leaves the status alone.
CallFails == state' \in {state, "failed"} /\ disturbed' = TRUE

\* Reset, meant for a sign-in that succeeded; on an idle session it does nothing.
Clear ==
  /\ state' = "idle"
  /\ disturbed' = (disturbed \/ state \notin {"idle", "succeeded"})

FlowNext ==
  \/ Begin
  \/ Answer
  \/ \E news \in News : Report(news)
  \/ Settle
  \/ GiveUp
  \/ CallFails
  \/ Clear

FlowSpec == FlowInit /\ [][FlowNext]_flow
=============================================================================
