------------------------------- MODULE Session -------------------------------
(***************************************************************************)
(* internal/login/login.go: one Proton sign-in driven through the bridge.  *)
(*                                                                         *)
(* Four kinds of goroutine share the Session and its mutex:                *)
(*   - HTTP handlers (Client) run Start, SubmitTOTP, SubmitMailboxPassword *)
(*     and Abort.  Each takes the mutex, changes the status, RELEASES the  *)
(*     mutex and only then calls the bridge, so a call is three steps      *)
(*     here: the locked section, the arrival at the bridge, the return.    *)
(*   - the event stream runs Handle, one event after the other;            *)
(*   - one settleMode goroutine per finished sign-in;                      *)
(*   - the pages' watchers, each of which reads the status and resets it.  *)
(*                                                                         *)
(* The bridge is outside the repository.  It is modelled by what login.go  *)
(* says of it: it keeps one set of authentication state (lines 109-111),   *)
(* its calls return at once and everything else arrives as an event        *)
(* (lines 3-8), it allows three attempts at the mailbox password (lines    *)
(* 241-242).  LoginAbort names a user, and is taken to cancel no sign-in   *)
(* of another one.                                                         *)
(***************************************************************************)
EXTENDS Naturals, Sequences

CONSTANTS
  Client,      \* HTTP handlers: browser tabs and proton-login
  User,        \* usernames
  NoUser,      \* the empty username
  MaxStarts,   \* bound: how many sign-ins are started
  MaxAborts,   \* bound: how many times Abort is called
  CallsFail    \* whether a call to the bridge may return an error

ASSUME SessionAssumption ==
  /\ NoUser \notin User
  /\ MaxStarts \in Nat
  /\ MaxAborts \in Nat
  /\ CallsFail \in BOOLEAN

VARIABLES
  status,          \* what Status() returns
  username,
  splitAddresses,
  humanVerified,
  caller,          \* per handler: the call it has on its way
  settling,        \* running settleMode goroutines
  sawSuccess,      \* a watcher read "succeeded" and may be about to Reset
  auth,            \* the bridge: the one sign-in it holds
  events,          \* the bridge's stream, oldest first
  \* History, read by no guard of the code:
  attempt,         \* number of the sign-in last started
  finished,        \* number of the sign-in whose Finished was handled last
  asks,            \* how often the stream asked for a secret
  lastAnswered,    \* number of the request last answered
  confirmed,       \* the bridge has reported success since the last Start
  disturbed,       \* Abort was called, a call failed or a Reset came late,
                   \* and no sign-in has begun afresh since
  aborts           \* how often Abort was called

session == <<status, username, splitAddresses, humanVerified>>
bridge  == <<auth, events>>
history == <<attempt, finished, asks, lastAnswered, confirmed, disturbed,
             aborts>>
vars    == <<session, caller, settling, sawSuccess, bridge, history>>

-----------------------------------------------------------------------------
(* States and records *)

Ended   == {"idle", "awaiting_human_verification", "succeeded", "failed"}
Secret  == {"awaiting_totp", "awaiting_mailbox_password"}
State   == Ended \cup Secret \cup {"awaiting_credentials", "setting_mode"}

Name    == User \cup {NoUser}

\* Status; modeRead says that SplitMode is set.
Status  == [state : State, username : Name, modeRead : BOOLEAN,
            modeKept : BOOLEAN]

Shown(state, name) ==
  [state |-> state, username |-> name, modeRead |-> FALSE, modeKept |-> FALSE]

Rpc     == {"none", "Login", "Login2FA", "Login2Passwords", "LoginAbort"}

\* at: "ready" between two calls, "calling" before the bridge has the request,
\* "called" after.  number and split are history: the sign-in the call is of
\* and the answer about split mode given with it.
Call    == [at : {"ready", "calling", "called"}, rpc : Rpc, user : Name,
            hv : BOOLEAN, number : Nat, split : BOOLEAN]

Ready   == [at |-> "ready", rpc |-> "none", user |-> NoUser, hv |-> FALSE,
            number |-> 0, split |-> FALSE]

Calling(rpc, name, hv, number, split) ==
  [at |-> "calling", rpc |-> rpc, user |-> name, hv |-> hv,
   number |-> number, split |-> split]

\* What the bridge does with the sign-in it holds.
Phase   == {"none", "password", "await_code", "code", "await_mailbox",
            "mailbox"}

Auth    == [phase : Phase, user : Name, number : Nat, split : BOOLEAN,
            wrong : 0..2]

NoAuth  == [phase |-> "none", user |-> NoUser, number |-> 0, split |-> FALSE,
            wrong |-> 0]

Kind    == {"error", "tfa", "two_password", "hv", "finished", "already"}

\* number, user and split are the sign-in the event is about; the code sees
\* only the kind and, with "finished", wasSignedOut.
Event   == [kind : Kind, number : Nat, user : Name, split : BOOLEAN,
            wasSignedOut : BOOLEAN]

\* A settleMode goroutine: newAccount and split are its arguments, number, user
\* and meant (the answer given with that sign-in) are history.
Settle  == [number : Nat, user : Name, newAccount : BOOLEAN,
            split : BOOLEAN, meant : BOOLEAN]

TypeOK ==
  /\ status \in Status
  /\ username \in Name
  /\ splitAddresses \in BOOLEAN
  /\ humanVerified \in BOOLEAN
  /\ caller \in [Client -> Call]
  /\ settling \subseteq Settle
  /\ sawSuccess \in BOOLEAN
  /\ auth \in Auth
  /\ events \in Seq(Event)
  /\ attempt \in Nat
  /\ finished \in Nat
  /\ asks \in Nat
  /\ lastAnswered \in Nat
  /\ confirmed \in BOOLEAN
  /\ disturbed \in BOOLEAN
  /\ aborts \in Nat

Init ==
  /\ status = Shown("idle", NoUser)
  /\ username = NoUser
  /\ splitAddresses = FALSE
  /\ humanVerified = FALSE
  /\ caller = [c \in Client |-> Ready]
  /\ settling = {}
  /\ sawSuccess = FALSE
  /\ auth = NoAuth
  /\ events = <<>>
  /\ attempt = 0
  /\ finished = 0
  /\ asks = 0
  /\ lastAnswered = 0
  /\ confirmed = FALSE
  /\ disturbed = FALSE
  /\ aborts = 0

-----------------------------------------------------------------------------
(* The handlers' locked sections.  A refused step changes nothing and is a  *)
(* stutter.                                                                 *)

\* (mutant) forgets that a sign-in without news is one in progress
MayStartUnanswered == status.state \notin Secret \cup {"setting_mode"}

\* (mutant) forgets that a mode being set belongs to a sign-in
MayStartWhileSetting == status.state \notin Secret \cup {"awaiting_credentials"}

\* The states login.go:188 lets through.
MayStart == status.state \in Ended

\* The sign-in on its way: a call the bridge has not received, work at the
\* bridge, or an event nobody has handled.
CallPending == \E c \in Client : caller[c].at = "calling"

Working == auth.phase \in {"password", "code", "mailbox"}

InFlight == CallPending \/ Working \/ events # <<>>

\* Nothing is left of an earlier sign-in but what the bridge holds of one that
\* waits for a secret, and drops for the next.
Quiet == ~InFlight /\ settling = {}

Start(c, u, split) ==
  /\ caller[c] = Ready
  /\ attempt < MaxStarts
  /\ MayStart
  /\ status' = Shown("awaiting_credentials", u)
  /\ username' = u
  /\ splitAddresses' = split
  /\ caller' = [caller EXCEPT ![c] =
                  Calling("Login", u, humanVerified, attempt + 1, split)]
  /\ attempt' = attempt + 1
  /\ confirmed' = FALSE
  /\ disturbed' = (disturbed /\ ~Quiet)
  /\ UNCHANGED <<humanVerified, settling, sawSuccess, bridge, finished, asks,
                 lastAnswered, aborts>>

\* (mutant) leaves the status for the stream to change
SubmitKeepsAsking(c, state, rpc) ==
  /\ caller[c] = Ready
  /\ status.state = state
  /\ caller' = [caller EXCEPT ![c] =
                  Calling(rpc, username, FALSE, attempt, FALSE)]
  /\ lastAnswered' = asks
  /\ UNCHANGED <<session, settling, sawSuccess, bridge, attempt, finished,
                 asks, confirmed, disturbed, aborts>>

\* (mutant) sends the secret without a look at the state
SubmitUnasked(c, state, rpc) ==
  /\ caller[c] = Ready
  /\ status' = [status EXCEPT !.state = "awaiting_credentials"]
  /\ caller' = [caller EXCEPT ![c] =
                  Calling(rpc, username, FALSE, attempt, FALSE)]
  /\ lastAnswered' = asks
  /\ UNCHANGED <<username, splitAddresses, humanVerified, settling, sawSuccess,
                 bridge, attempt, finished, asks, confirmed, disturbed, aborts>>

\* What SubmitTOTP and SubmitMailboxPassword have in common.
Submit(c, state, rpc) ==
  /\ caller[c] = Ready
  /\ status.state = state
  /\ status' = [status EXCEPT !.state = "awaiting_credentials"]
  /\ caller' = [caller EXCEPT ![c] =
                  Calling(rpc, username, FALSE, attempt, FALSE)]
  /\ lastAnswered' = asks
  /\ UNCHANGED <<username, splitAddresses, humanVerified, settling, sawSuccess,
                 bridge, attempt, finished, asks, confirmed, disturbed, aborts>>

SubmitTOTP(c) == Submit(c, "awaiting_totp", "Login2FA")

SubmitMailboxPassword(c) ==
  Submit(c, "awaiting_mailbox_password", "Login2Passwords")

\* Without a username the bridge is not called.
Abort(c) ==
  /\ caller[c] = Ready
  /\ aborts < MaxAborts
  /\ status' = Shown("idle", NoUser)
  /\ humanVerified' = FALSE
  /\ caller' = IF username = NoUser THEN caller
               ELSE [caller EXCEPT ![c] =
                       Calling("LoginAbort", username, FALSE, attempt, FALSE)]
  /\ aborts' = aborts + 1
  /\ disturbed' = TRUE
  /\ UNCHANGED <<username, splitAddresses, settling, sawSuccess, bridge,
                 attempt, finished, asks, lastAnswered, confirmed>>

-----------------------------------------------------------------------------
(* The call itself *)

Emit(kind, a, wasSignedOut) ==
  events' = Append(events, [kind |-> kind, number |-> a.number,
                            user |-> a.user, split |-> a.split,
                            wasSignedOut |-> wasSignedOut])

\* A secret the bridge is not waiting for ends the sign-in with an error.
TakeSecret(phase, next) ==
  IF auth.phase = phase
  THEN auth' = [auth EXCEPT !.phase = next] /\ UNCHANGED events
  ELSE Emit("error", auth, FALSE) /\ auth' = NoAuth

\* The bridge receives the request.
Receive(c) ==
  LET call == caller[c] IN
  /\ call.at = "calling"
  /\ caller' = [caller EXCEPT ![c].at = "called"]
  /\ \/ /\ call.rpc = "Login"
        /\ auth' = [phase |-> "password", user |-> call.user,
                    number |-> call.number, split |-> call.split, wrong |-> 0]
        /\ UNCHANGED events
     \/ call.rpc = "Login2FA" /\ TakeSecret("await_code", "code")
     \/ call.rpc = "Login2Passwords" /\ TakeSecret("await_mailbox", "mailbox")
     \/ /\ call.rpc = "LoginAbort"
        /\ auth' = IF auth.user = call.user THEN NoAuth ELSE auth
        /\ UNCHANGED events
  /\ UNCHANGED <<session, settling, sawSuccess, history>>

Returns(c) ==
  /\ caller[c].at = "called"
  /\ caller' = [caller EXCEPT ![c] = Ready]
  /\ UNCHANGED <<session, settling, sawSuccess, bridge, history>>

\* fail: whatever the status is by now, it becomes "failed".
Fail == status' = Shown("failed", username)

\* The call returns an error: the bridge was not reached, or it was and the
\* request's context was cancelled before the answer came back.  Abort hands
\* the error on; every other step records it.
ReturnsError(c) ==
  /\ CallsFail
  /\ caller[c].at \in {"calling", "called"}
  /\ caller' = [caller EXCEPT ![c] = Ready]
  /\ IF caller[c].rpc = "LoginAbort" THEN UNCHANGED status ELSE Fail
  /\ disturbed' = TRUE
  /\ UNCHANGED <<username, splitAddresses, humanVerified, settling, sawSuccess,
                 bridge, attempt, finished, asks, lastAnswered, confirmed,
                 aborts>>

-----------------------------------------------------------------------------
(* The bridge works on the sign-in it holds and reports on the stream. *)

\* It asks for the second factor or the mailbox password, in that order.
BridgeAsks ==
  /\ \/ /\ auth.phase = "password"
        /\ auth' = [auth EXCEPT !.phase = "await_code"]
        /\ Emit("tfa", auth, FALSE)
     \/ /\ auth.phase \in {"password", "code"}
        /\ auth' = [auth EXCEPT !.phase = "await_mailbox"]
        /\ Emit("two_password", auth, FALSE)
  /\ UNCHANGED <<session, caller, settling, sawSuccess, history>>

\* It is done with the sign-in, one way or another.
BridgeEnds ==
  /\ Working
  /\ auth' = NoAuth
  /\ \/ Emit("error", auth, FALSE)
     \/ auth.phase = "password" /\ Emit("hv", auth, FALSE)
     \/ auth.phase = "password" /\ Emit("already", auth, FALSE)
     \/ \E wasSignedOut \in BOOLEAN : Emit("finished", auth, wasSignedOut)
  /\ UNCHANGED <<session, caller, settling, sawSuccess, history>>

\* A wrong mailbox password: the first two leave the sign-in waiting.
BridgeRejectsMailbox ==
  /\ auth.phase = "mailbox"
  /\ auth.wrong < 2
  /\ auth' = [auth EXCEPT !.phase = "await_mailbox", !.wrong = @ + 1]
  /\ Emit("error", auth, FALSE)
  /\ UNCHANGED <<session, caller, settling, sawSuccess, history>>

-----------------------------------------------------------------------------
(* Handle: the head of the stream, whatever the session is doing.  None of  *)
(* these looks at the state it replaces.                                    *)

Take(kind) ==
  /\ events # <<>>
  /\ Head(events).kind = kind
  /\ events' = Tail(events)
  /\ UNCHANGED <<username, splitAddresses, caller, sawSuccess, auth, attempt,
                 lastAnswered, disturbed, aborts>>

\* (mutant) drops an error it has no words for
HandleErrorIgnored ==
  Take("error") /\ UNCHANGED <<status, humanVerified, settling, finished, asks,
                               confirmed>>

HandleError ==
  /\ Take("error")
  /\ Fail
  /\ UNCHANGED <<humanVerified, settling, finished, asks, confirmed>>

\* (mutant) shows the request in place of the state
AwaitSwapped(kind, state) ==
  /\ Take(kind)
  /\ status' = Shown(kind, username)
  /\ asks' = asks + 1
  /\ UNCHANGED <<humanVerified, settling, finished, confirmed>>

Await(kind, state) ==
  /\ Take(kind)
  /\ status' = Shown(state, username)
  /\ asks' = asks + 1
  /\ UNCHANGED <<humanVerified, settling, finished, confirmed>>

HandleTfaRequested == Await("tfa", "awaiting_totp")

HandleTwoPasswordRequested == Await("two_password", "awaiting_mailbox_password")

HandleHvRequested ==
  /\ Take("hv")
  /\ status' = Shown("awaiting_human_verification", username)
  /\ humanVerified' = TRUE
  /\ UNCHANGED <<settling, finished, asks, confirmed>>

\* (mutant) has nothing to set for an account that comes back
HandleFinishedNewOnly ==
  /\ Take("finished")
  /\ status' = Shown("setting_mode", username)
  /\ humanVerified' = FALSE
  /\ LET e == Head(events) IN
     /\ settling' = IF e.wasSignedOut THEN settling ELSE settling \cup
          {[number |-> e.number, user |-> e.user, newAccount |-> TRUE,
            split |-> splitAddresses, meant |-> e.split]}
     /\ finished' = e.number
  /\ confirmed' = TRUE
  /\ UNCHANGED asks

HandleFinished ==
  /\ Take("finished")
  /\ status' = Shown("setting_mode", username)
  /\ humanVerified' = FALSE
  /\ LET e == Head(events) IN
     /\ settling' = settling \cup
          {[number |-> e.number, user |-> e.user,
            newAccount |-> ~e.wasSignedOut, split |-> splitAddresses,
            meant |-> e.split]}
     /\ finished' = e.number
  /\ confirmed' = TRUE
  /\ UNCHANGED asks

HandleAlreadyLoggedIn ==
  /\ Take("already")
  /\ status' = Shown("succeeded", username)
  /\ humanVerified' = FALSE
  /\ confirmed' = TRUE
  /\ UNCHANGED <<settling, finished, asks>>

-----------------------------------------------------------------------------
(* settleMode, from the answer of the bridge (or the end of its minute) on. *)

\* What settleMode g writes; ok says that the mode could be read back.
Settled(g, ok) ==
  [state |-> "succeeded", username |-> username, modeRead |-> ok,
   modeKept |-> ~g.newAccount]

\* (mutant) writes its result whatever the session shows
SettleModeAlways(g, ok) ==
  /\ g \in settling
  /\ settling' = settling \ {g}
  /\ status' = Settled(g, ok)
  /\ UNCHANGED <<username, splitAddresses, humanVerified, caller, sawSuccess,
                 bridge, history>>

\* (mutant) records only a mode it could read
SettleModeOnlyRead(g, ok) ==
  /\ g \in settling
  /\ settling' = settling \ {g}
  /\ status' = IF ok /\ status.state = "setting_mode" THEN Settled(g, ok)
               ELSE status
  /\ UNCHANGED <<username, splitAddresses, humanVerified, caller, sawSuccess,
                 bridge, history>>

SettleMode(g, ok) ==
  /\ g \in settling
  /\ settling' = settling \ {g}
  /\ status' = IF status.state = "setting_mode" THEN Settled(g, ok) ELSE status
  /\ UNCHANGED <<username, splitAddresses, humanVerified, caller, sawSuccess,
                 bridge, history>>

(* watchForAccount reads the status and, one step later, resets it.  Each   *)
(* page has a watcher of its own, and how many of them have seen a success  *)
(* and not reset it yet is not counted: another Reset may always follow.    *)

WatcherSees ==
  /\ ~sawSuccess
  /\ status.state = "succeeded"
  /\ sawSuccess' = TRUE
  /\ UNCHANGED <<session, caller, settling, bridge, history>>

Reset ==
  /\ sawSuccess
  /\ status' = Shown("idle", NoUser)
  /\ username' = NoUser
  /\ humanVerified' = FALSE
  /\ disturbed' = (disturbed \/ status.state \notin {"idle", "succeeded"})
  /\ UNCHANGED <<splitAddresses, caller, settling, sawSuccess, bridge, attempt,
                 finished, asks, lastAnswered, confirmed, aborts>>

-----------------------------------------------------------------------------

Handler(c) ==
  \/ \E u \in User, split \in BOOLEAN : Start(c, u, split)
  \/ SubmitTOTP(c)
  \/ SubmitMailboxPassword(c)
  \/ Abort(c)

Rpcs(c) == Receive(c) \/ Returns(c) \/ ReturnsError(c)

Bridge == BridgeAsks \/ BridgeEnds \/ BridgeRejectsMailbox

Handle ==
  \/ HandleError
  \/ HandleTfaRequested
  \/ HandleTwoPasswordRequested
  \/ HandleHvRequested
  \/ HandleFinished
  \/ HandleAlreadyLoggedIn

Settler == \E g \in settling, ok \in BOOLEAN : SettleMode(g, ok)

Next ==
  \/ \E c \in Client : Handler(c) \/ Rpcs(c)
  \/ Bridge
  \/ Handle
  \/ Settler
  \/ WatcherSees
  \/ Reset

Spec == Init /\ [][Next]_vars

\* A call returns, the bridge answers what it is working on, the stream is
\* read, and settleMode has a deadline.  Nobody has to start anything.
Fairness ==
  /\ \A c \in Client : WF_vars(Rpcs(c))
  /\ WF_vars(Bridge)
  /\ WF_vars(Handle)
  /\ WF_vars(Settler)

LiveSpec == Spec /\ Fairness
-----------------------------------------------------------------------------
(* Safety *)

\* "setting_mode" refuses every Start, and only a settleMode goroutine ends it
\* (login.go:183-188, 424-428).  So whenever the session is in it, the
\* goroutine of the sign-in that finished last is still running.
SettingModeIsServed ==
  status.state = "setting_mode" => \E g \in settling : g.number = finished

\* The session shows a sign-in as done, or as done but for its mode, only when
\* the bridge has said so since that sign-in was started: no result that comes
\* late (login.go:424-428) and no order of calls and events makes up a success.
NoInventedSuccess ==
  status.state \in {"setting_mode", "succeeded"} => confirmed

\* Every request for a code or a mailbox password is answered at most once,
\* however many tabs and commands submit one at the same time
\* (login.go:219-227, 246-254).
OneAnswerPerRequest ==
  status.state \in Secret => lastAnswered < asks

\* While nobody aborts, no call fails and no Reset comes late, a sign-in that
\* began with nothing left of an earlier one is alone: something of it is on its way exactly while the session waits for
\* the bridge, and then it is one thing only, of the sign-in last started.
\* This is what "one sign-in at a time" (login.go:107-111) amounts to.
SignInIsAlone ==
  ~disturbed =>
    /\ InFlight <=> status.state = "awaiting_credentials"
    /\ Len(events) + (IF Working THEN 1 ELSE 0)
         + (IF CallPending THEN 1 ELSE 0) <= 1
    /\ \A c, d \in Client :
         caller[c].at = "calling" /\ caller[d].at = "calling" => c = d
    /\ \A i \in DOMAIN events : events[i].number = attempt

\* Under the same condition the answer about split mode that is applied to an
\* account is the one given with its own sign-in (login.go:118-120, 349-355),
\* and the result on show is that of the sign-in that finished last.
OwnResult ==
  ~disturbed =>
    \A g \in settling : /\ g.split = g.meant
                        /\ g.number = attempt
                        /\ status.state = "setting_mode"

\* Whatever the handlers, the stream and settleMode do at once, the status shows
\* a sign-in that takes its course: it begins where none is under way, asks,
\* reports and settles in turn, and only an Abort, a failed call or a late Reset
\* lets a report replace anything else (login.go:183-193, 219-225, 246-252,
\* 306-436).
Flow == INSTANCE SignInFlow WITH state <- status.state

TakesItsCourse == Flow!FlowSpec

-----------------------------------------------------------------------------
(* The inductive invariant behind the safety properties *)

AnswersFollowRequests == lastAnswered <= asks

\* The bridge holds the sign-in last started, in the given phases.
Holds(phases) ==
  /\ auth.phase \in phases
  /\ auth.number = attempt
  /\ auth.split = splitAddresses

\* A call on its way is the only thing on its way, and fits what the bridge
\* is waiting for.
CallIsAlone ==
  \A c \in Client : caller[c].at = "calling" =>
    /\ status.state = "awaiting_credentials"
    /\ ~Working
    /\ events = <<>>
    /\ \A d \in Client : caller[d].at = "calling" => c = d
    /\ \/ /\ caller[c].rpc = "Login"
          /\ caller[c].number = attempt
          /\ caller[c].split = splitAddresses
       \/ caller[c].rpc = "Login2FA" /\ Holds({"await_code"})
       \/ caller[c].rpc = "Login2Passwords" /\ Holds({"await_mailbox"})

WorkIsAlone ==
  Working => /\ status.state = "awaiting_credentials"
             /\ events = <<>>
             /\ Holds(Phase)

EventIsAlone ==
  events # <<>> =>
    /\ status.state = "awaiting_credentials"
    /\ Len(events) = 1
    /\ events[1].number = attempt
    /\ events[1].split = splitAddresses
    /\ events[1].kind = "tfa" => Holds({"await_code"})
    /\ events[1].kind = "two_password" => Holds({"await_mailbox"})

RequestIsHeld ==
  /\ status.state = "awaiting_totp" => Holds({"await_code"})
  /\ status.state = "awaiting_mailbox_password" => Holds({"await_mailbox"})

WaitingIsForSomething == status.state = "awaiting_credentials" => InFlight

SettlerIsAlone ==
  \A g, h \in settling : /\ g = h
                         /\ g.split = g.meant
                         /\ g.number = attempt
                         /\ status.state = "setting_mode"

Alone ==
  /\ CallIsAlone
  /\ WorkIsAlone
  /\ EventIsAlone
  /\ RequestIsHeld
  /\ WaitingIsForSomething
  /\ SettlerIsAlone

AloneInv == ~disturbed => Alone

-----------------------------------------------------------------------------
(* Liveness *)

\* The wait for an account's mode ends: settleMode has a deadline of a minute
\* and reports a failure as a success with something left to do.
SettingModeEnds ==
  status.state = "setting_mode" ~> status.state # "setting_mode"

\* A sign-in the bridge was asked for does not stay without news, as long as
\* the stream delivers and nobody aborts.
SignInIsAnswered ==
  status.state = "awaiting_credentials" ~>
    status.state # "awaiting_credentials" \/ aborts > 0

-----------------------------------------------------------------------------
(* What comments and tests say, and the code does not keep *)

\* login.go:424-425: "Somebody may have started over while this ran. Their
\* attempt is the one the page shows now, and this result is only for the log
\* above."
LateResultIsForTheLog ==
  [][\A g \in settling \ settling' :
       status' # status => g.number = finished]_vars

\* login_test.go:511-512: "Starting again is allowed from this state, and only
\* from here does the retry claim the stored details."
ClaimOnlyFromTheChallenge ==
  [][\A c \in Client :
       caller'[c].hv /\ ~caller[c].hv =>
         status.state = "awaiting_human_verification"]_vars

-----------------------------------------------------------------------------
(* What is left of it *)

\* Undisturbed, the result on show is that of the sign-in that finished last
\* (login.go:424-429).
UndisturbedResultIsItsOwn ==
  [][~disturbed =>
       \A g \in settling \ settling' :
         status' # status => g.number = finished]_vars

\* A sign-in claims a solved challenge only right after one was asked for or
\* after a failure: no success, Abort or Reset leaves the claim behind
\* (login.go:196-204, 270, 291, 346-360).
ClaimEndsWithTheSignIn ==
  [][\A c \in Client :
       caller'[c].hv /\ ~caller[c].hv =>
         status.state \in {"awaiting_human_verification", "failed"}]_vars

ClaimInv ==
  humanVerified => status.state \notin {"idle", "setting_mode", "succeeded"}

=============================================================================
