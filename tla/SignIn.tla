-------------------------------- MODULE SignIn --------------------------------
(***************************************************************************)
(* cmd/bridge-control/signin.go: the sign-in page runs whenever no account *)
(* is connected, and only then.                                            *)
(*                                                                         *)
(* runSignIn (the variable at), streamEvents and one watchForAccount per   *)
(* page (watcher) run concurrently.  They share the login session, of      *)
(* which only what they look at is kept, the one-slot channel changed, the *)
(* closed-once channel of the page's server (signedIn) and, through the    *)
(* bridge, the list of accounts.  The token file is in the volume and      *)
(* survives the process.                                                   *)
(*                                                                         *)
(* Timers may fire at any moment, and calls to the bridge may fail.        *)
(***************************************************************************)
EXTENDS Naturals, Sequences

CONSTANTS
  Account,       \* accounts that can be in the vault
  Nobody,        \* no account
  Slot,          \* bound: watchers alive at a time
  NoSlot,        \* no watcher
  MaxEvents,     \* bound: events on the stream that nobody has handled
  MaxRuns,       \* bound: starts of the container
  MaxChanges     \* bound: how often a sign-in is started or an account lost

ASSUME SignInAssumption ==
  /\ Nobody \notin Account
  /\ NoSlot \notin Slot
  /\ MaxEvents \in Nat
  /\ MaxRuns \in Nat
  /\ MaxChanges \in Nat

VARIABLES
  \* the bridge
  listed,        \* the vault has been read, GetUserList names the accounts
  account,       \* the state of each account
  signing,       \* the account a sign-in is in progress for
  events,        \* the event stream, oldest first
  \* shared in the process
  session,       \* the state of the login session
  changed,       \* the one slot of the channel is taken
  signedIn,      \* the current page's server was told of an account
  \* goroutines
  at,            \* where runSignIn is
  watcher,       \* where each watchForAccount is
  current,       \* the watcher of the current page
  ctxDone,       \* the process was told to stop
  \* the volume and the environment
  token,         \* the token file: none, of this page, or left by another
  expose,        \* BRIDGE_SETUP_EXPOSE
  \* History, read by no guard of the code:
  reason,        \* since the page was called for an account was connected, or
                 \* the page began with a session that was not at rest
  served,        \* this process has had a page, whose handlers may be at work
  disturbed,     \* of SignInFlow: its promise has ended, for now
  slow,          \* a start-up wait gave up before the vault was open
  runs, changes

bridge  == <<listed, account, signing, events>>
signIn  == <<session, disturbed>>
shared  == <<signIn, changed, signedIn>>
volume  == <<token, expose>>
history == <<reason, served, slow, runs, changes>>
vars == <<bridge, shared, at, watcher, current, ctxDone, volume, history>>

-----------------------------------------------------------------------------

\* "opening" and "locked" are one state to the code, UserState_LOCKED: an
\* account the bridge is still unlocking and one that wants a password.
AccountState == {"absent", "opening", "locked", "signed_out", "connected"}

AtRest == {"idle", "failed"}
SessionState == AtRest \cup {"waiting", "setting_mode", "succeeded"}

Success == {"finished", "already"}
Kind == Success \cup {"error", "user"}

Started == {"accounts", "settled"}
Paged   == {"server", "listen", "serving", "shutdown", "forget"}
Place   == Started \cup Paged \cup {"check", "wait", "setup", "done"}

WatcherPlace == {"none", "look", "doze", "check", "wait", "reset"}

TypeOK ==
  /\ listed \in BOOLEAN
  /\ account \in [Account -> AccountState]
  /\ signing \in Account \cup {Nobody}
  /\ events \in Seq(Kind)
  /\ session \in SessionState
  /\ changed \in BOOLEAN
  /\ signedIn \in BOOLEAN
  /\ at \in Place
  /\ watcher \in [Slot -> WatcherPlace]
  /\ current \in Slot \cup {NoSlot}
  /\ ctxDone \in BOOLEAN
  /\ token \in {"none", "live", "left"}
  /\ expose \in BOOLEAN
  /\ reason \in BOOLEAN
  /\ served \in BOOLEAN
  /\ disturbed \in BOOLEAN
  /\ slow \in BOOLEAN
  /\ runs \in Nat
  /\ changes \in Nat

AllAbsent == \A a \in Account : account[a] = "absent"

\* What GetUserList returns: nothing until the vault has been read, before
\* which no account is connected.
Reported == listed /\ ~AllAbsent

SomeConnected == \E a \in Account : account[a] = "connected"

SignInNeeded == ~SomeConnected

EveryAccountLocked ==
  /\ Reported
  /\ \A a \in Account : account[a] \in {"absent", "opening", "locked"}

\* run() has started the bridge and runSignIn.  Only a start that found a vault
\* waits for it; the vault of a used volume may hold accounts.
Init ==
  /\ \/ account = [a \in Account |-> "absent"] /\ at = "check"
     \/ /\ account \in [Account -> {"absent", "opening", "locked",
                                    "signed_out"}]
        /\ at = "accounts"
  /\ listed = FALSE /\ signing = Nobody /\ events = <<>>
  /\ session = "idle" /\ disturbed = FALSE
  /\ changed = FALSE /\ signedIn = FALSE
  /\ watcher = [w \in Slot |-> "none"] /\ current = NoSlot
  /\ ctxDone = FALSE
  /\ token = "none" /\ expose \in BOOLEAN
  /\ reason = FALSE /\ served = FALSE /\ slow = FALSE
  /\ runs = 1 /\ changes = 0

-----------------------------------------------------------------------------
(* The bridge *)

Emit(kind) == Len(events) < MaxEvents /\ events' = Append(events, kind)

BecomesConnected(a) ==
  /\ account' = [account EXCEPT ![a] = "connected"]
  /\ reason' = (reason \/ at \in Paged \cup {"setup"})

ReadVault ==
  /\ ~listed
  /\ listed' = TRUE
  /\ UNCHANGED <<account, signing, events, shared, at, watcher, current,
                 ctxDone, volume, history>>

\* An account that was unlocking turns out connected, or not.
Opens(a) ==
  /\ listed
  /\ account[a] = "opening"
  /\ Emit("user")
  /\ \/ BecomesConnected(a)
     \/ \E s \in {"locked", "signed_out"} : account' = [account EXCEPT ![a] = s]
        /\ UNCHANGED reason
  /\ UNCHANGED <<listed, signing, shared, at, watcher, current, ctxDone,
                 volume, served, slow, runs, changes>>

\* A changed password, a revoked session, a long time offline, a failed sync.
SignsOut(a) ==
  /\ changes < MaxChanges
  /\ account[a] = "connected" /\ signing # a
  /\ account' = [account EXCEPT ![a] = "signed_out"]
  /\ Emit("user")
  /\ changes' = changes + 1
  /\ UNCHANGED <<listed, signing, shared, at, watcher, current, ctxDone,
                 volume, reason, served, slow, runs>>

Ending == Success \cup {"error"}

\* Nothing of an earlier sign-in is on its way.
Quiet == signing = Nobody /\ \A i \in DOMAIN events : events[i] \notin Ending

\* Somebody starts a sign-in on a page.  Its handler waits for the body up to two
\* minutes, and http.Shutdown waits ten seconds for the handler.
Starts(a) ==
  /\ served
  /\ changes < MaxChanges
  /\ session \in AtRest \cup {"succeeded"}
  /\ session' = "waiting"
  /\ disturbed' = (disturbed /\ ~Quiet)
  /\ signing' = a
  /\ changes' = changes + 1
  /\ UNCHANGED <<listed, account, events, changed, signedIn, at, watcher,
                 current, ctxDone, volume, reason, served, slow, runs>>

\* The bridge connects the account, a moment before it says it is finished.
Connects(a) ==
  /\ listed
  /\ signing = a
  /\ account[a] # "connected"
  /\ BecomesConnected(a)
  /\ Emit("user")
  /\ UNCHANGED <<listed, signing, shared, at, watcher, current, ctxDone,
                 volume, served, slow, runs, changes>>

Answers(a) ==
  /\ signing = a
  /\ IF account[a] = "connected" THEN Emit("finished") \/ Emit("already")
     ELSE Emit("error")
  /\ signing' = Nobody
  /\ UNCHANGED <<listed, account, shared, at, watcher, current, ctxDone,
                 volume, history>>

-----------------------------------------------------------------------------
(* streamEvents *)

\* (mutant) hands the event on in place of the state
ToldKind(kind) == session' = IF kind = "user" THEN session ELSE kind

Told(kind) ==
  session' = CASE kind = "finished" -> "setting_mode"
               [] kind = "already"  -> "succeeded"
               [] kind = "error"    -> "failed"
               [] kind = "user"     -> session

\* One event: the session is told, and changed is signalled without blocking.
HandleEvent ==
  /\ events # <<>>
  /\ Told(Head(events))
  /\ events' = Tail(events)
  /\ changed' = TRUE
  /\ UNCHANGED <<listed, account, signing, disturbed, signedIn, at, watcher,
                 current, ctxDone, volume, history>>

\* settleMode of the session.
Settles ==
  /\ session = "setting_mode"
  /\ session' = "succeeded"
  /\ UNCHANGED <<bridge, disturbed, changed, signedIn, at, watcher, current,
                 ctxDone, volume, history>>

\* The session lets go of a sign-in: somebody aborts it, or a call to the bridge
\* fails, which may be noticed late.  The bridge may hold on to it.
GivesUp ==
  /\ session \notin AtRest
  /\ session' \in AtRest
  /\ disturbed' = TRUE
  /\ signing' \in {signing, Nobody}
  /\ UNCHANGED <<listed, account, events, changed, signedIn, at, watcher,
                 current, ctxDone, volume, history>>

\* The stream breaks, and what it had not delivered is lost.
StreamBreaks ==
  /\ events # <<>>
  /\ events' = <<>>
  /\ UNCHANGED <<listed, account, signing, shared, at, watcher, current,
                 ctxDone, volume, history>>

-----------------------------------------------------------------------------
(* runSignIn *)

waitRest == <<bridge, shared, watcher, current, ctxDone, volume, reason,
              served, runs, changes>>

loopRest == <<bridge, signIn, watcher, current, ctxDone, served, slow, runs,
              changes>>

Goto(place) == at' = place

\* WaitForAccounts: an account is named, or the wait is given up.
WaitForAccounts ==
  /\ at = "accounts"
  /\ Goto("settled")
  /\ \/ (Reported \/ ctxDone) /\ UNCHANGED slow
     \/ slow' = (slow \/ ~listed)
  /\ UNCHANGED waitRest

\* (mutant) acts on the first list that names an account
WaitForSettledOnce ==
  /\ at = "settled"
  /\ Goto("check")
  /\ UNCHANGED <<waitRest, slow>>

\* WaitForSettled: not every account is locked, or the wait is given up.
WaitForSettled ==
  /\ at = "settled"
  /\ Goto("check")
  /\ \/ (~EveryAccountLocked \/ ctxDone) /\ UNCHANGED slow
     \/ slow' = (slow \/ \E a \in Account : account[a] = "opening")
  /\ UNCHANGED waitRest

\* A sign-in that began before the page was called for may still report.
Unsettled ==
  \/ session \notin AtRest
  \/ signing # Nobody
  \/ \E i \in DOMAIN events : events[i] \in Success

\* AccountsNeedSignIn.
LoopChecks ==
  /\ at = "check" /\ ~ctxDone
  /\ IF SignInNeeded
     THEN Goto("setup") /\ reason' = Unsettled
     ELSE Goto("wait") /\ UNCHANGED reason
  /\ UNCHANGED <<loopRest, changed, signedIn, volume>>

\* (mutant) reads needed without looking at err
LoopCheckFailsServes ==
  /\ at = "check" /\ ~ctxDone
  /\ Goto("setup")
  /\ UNCHANGED <<loopRest, changed, signedIn, volume, reason>>

LoopCheckFails ==
  /\ at = "check" /\ ~ctxDone
  /\ Goto("wait")
  /\ UNCHANGED <<loopRest, changed, signedIn, volume, reason>>

LoopEnds ==
  /\ at = "check" /\ ctxDone
  /\ Goto("done")
  /\ UNCHANGED <<loopRest, changed, signedIn, volume, reason>>

\* (mutant) once an account is there, the work is done
LoopWaitsOnce ==
  /\ at = "wait"
  /\ Goto("done")
  /\ UNCHANGED <<loopRest, changed, signedIn, volume, reason>>

\* waitFor: the channel, the timer or the end of the context.
LoopWaits ==
  /\ at = "wait"
  /\ Goto("check")
  /\ changed' \in {changed, FALSE}
  /\ UNCHANGED <<loopRest, signedIn, volume, reason>>

-----------------------------------------------------------------------------
(* serveSetup *)

\* exposeSetup stores a token; a page that is not exposed removes what an
\* earlier run left.
Expose ==
  /\ at = "setup"
  /\ token' = IF expose THEN "live" ELSE "none"
  /\ Goto("server")
  /\ UNCHANGED <<loopRest, changed, signedIn, expose, reason>>

\* No settings directory, no address, no randomness: before a token is stored.
ExposeFails ==
  /\ at = "setup"
  /\ Goto("check")
  /\ reason' = FALSE
  /\ UNCHANGED <<loopRest, changed, signedIn, volume>>

\* NewServer, and the watcher of its page.
NewServer(w) ==
  /\ at = "server"
  /\ watcher[w] = "none"
  /\ watcher' = [watcher EXCEPT ![w] = "look"]
  /\ current' = w
  /\ signedIn' = FALSE
  /\ Goto("listen")
  /\ UNCHANGED <<bridge, signIn, changed, ctxDone, volume, history>>

\* (mutant) returns before the removal of the token is deferred
NewServerFailsEarly ==
  /\ at = "server"
  /\ Goto("check")
  /\ UNCHANGED <<loopRest, changed, signedIn, volume, reason>>

NewServerFails ==
  /\ at = "server"
  /\ Goto("forget")
  /\ UNCHANGED <<loopRest, changed, signedIn, volume, reason>>

Listen ==
  /\ at = "listen"
  /\ Goto("serving")
  /\ served' = TRUE
  /\ UNCHANGED <<bridge, shared, watcher, current, ctxDone, volume, reason, slow, runs, changes>>

ListenFails ==
  /\ at = "listen"
  /\ Goto("forget")
  /\ UNCHANGED <<loopRest, changed, signedIn, volume, reason>>

\* The listener fails under a page that is up.
ServeFails ==
  /\ at = "serving"
  /\ changes < MaxChanges
  /\ Goto("forget")
  /\ changes' = changes + 1
  /\ UNCHANGED <<bridge, shared, watcher, current, ctxDone, volume, reason, served, slow, runs>>

\* Serve: the account is there, or the process stops.
Shutdown ==
  /\ at = "serving"
  /\ signedIn \/ ctxDone
  /\ Goto("shutdown")
  /\ UNCHANGED <<loopRest, changed, signedIn, volume, reason>>

ServeReturns ==
  /\ at = "shutdown"
  /\ Goto("forget")
  /\ UNCHANGED <<loopRest, changed, signedIn, volume, reason>>

\* The deferred calls: the watcher's context ends, and the token goes.  Nobody
\* looks at the server any more.
Forget ==
  /\ at = "forget"
  /\ Goto("check")
  /\ current' = NoSlot /\ signedIn' = FALSE /\ reason' = FALSE
  /\ token' = IF expose THEN "none" ELSE token
  /\ UNCHANGED <<bridge, signIn, changed, watcher, ctxDone, expose, served, slow,
                 runs, changes>>

-----------------------------------------------------------------------------
(* watchForAccount *)

WatcherGoes(w, place) == watcher' = [watcher EXCEPT ![w] = place]

watchRest == <<bridge, at, current, ctxDone, volume, history>>

\* The context of a watcher ends with its page, or with the process.
Cancelled(w) == ctxDone \/ current # w

\* MarkSignedIn closes the channel of the watcher's own server.
MarkSignedIn(w) == signedIn' = (signedIn \/ current = w)

WatcherLooks(w) ==
  /\ watcher[w] = "look"
  /\ \/ session = "succeeded" /\ MarkSignedIn(w) /\ WatcherGoes(w, "reset")
     \/ /\ session = "setting_mode"
        /\ WatcherGoes(w, "doze") /\ UNCHANGED signedIn
     \/ /\ session \notin {"succeeded", "setting_mode"}
        /\ WatcherGoes(w, "check") /\ UNCHANGED signedIn
  /\ UNCHANGED <<watchRest, signIn, changed>>

WatcherResets(w) ==
  /\ watcher[w] = "reset"
  /\ session' = "idle"
  /\ disturbed' = (disturbed \/ session \notin {"idle", "succeeded"})
  /\ WatcherGoes(w, "none")
  /\ UNCHANGED <<watchRest, changed, signedIn>>

\* waitFor, a second at most, whether or not the page is still there.
WatcherDozes(w) ==
  /\ watcher[w] = "doze"
  /\ changed' \in {changed, FALSE}
  /\ WatcherGoes(w, "look")
  /\ UNCHANGED <<watchRest, signIn, signedIn>>

\* A call with a context that has ended fails.
WatcherChecks(w) ==
  /\ watcher[w] = "check"
  /\ IF SignInNeeded \/ Cancelled(w)
     THEN WatcherGoes(w, "wait") /\ UNCHANGED signedIn
     ELSE WatcherGoes(w, "none") /\ MarkSignedIn(w)
  /\ UNCHANGED <<watchRest, signIn, changed>>

\* (mutant) reads needed without looking at err
WatcherCheckFailsMarks(w) ==
  /\ watcher[w] = "check"
  /\ WatcherGoes(w, "none")
  /\ MarkSignedIn(w)
  /\ UNCHANGED <<watchRest, signIn, changed>>

\* (mutant) gives up on an error
WatcherCheckFailsEnds(w) ==
  /\ watcher[w] = "check"
  /\ WatcherGoes(w, "none")
  /\ UNCHANGED <<watchRest, signIn, changed, signedIn>>

WatcherCheckFails(w) ==
  /\ watcher[w] = "check"
  /\ WatcherGoes(w, "wait")
  /\ UNCHANGED <<watchRest, signIn, changed, signedIn>>

\* The select: the end of the context, the channel, or the timer, which does
\* not fire before a context that has ended is noticed.
WatcherWaits(w) ==
  /\ watcher[w] = "wait"
  /\ \/ Cancelled(w) /\ WatcherGoes(w, "none") /\ UNCHANGED changed
     \/ changed /\ WatcherGoes(w, "look") /\ changed' = FALSE
     \/ ~Cancelled(w) /\ WatcherGoes(w, "look") /\ UNCHANGED changed
  /\ UNCHANGED <<watchRest, signIn, signedIn>>

-----------------------------------------------------------------------------
(* The process *)

Stop ==
  /\ ~ctxDone
  /\ ctxDone' = TRUE
  /\ UNCHANGED <<bridge, shared, at, watcher, current, volume, history>>

\* The process ends: run() returns as soon as the bridge has exited, whatever
\* the other goroutines are doing.  The container starts again over the same
\* volume, maybe with other settings; its accounts have to be unlocked again.
Restart ==
  /\ runs < MaxRuns
  /\ runs' = runs + 1
  /\ account' = [a \in Account |-> IF account[a] = "connected" THEN "opening"
                                   ELSE account[a]]
  /\ at' = "accounts"
  /\ listed' = FALSE /\ signing' = Nobody /\ events' = <<>>
  /\ session' = "idle" /\ disturbed' = FALSE
  /\ changed' = FALSE /\ signedIn' = FALSE
  /\ watcher' = [w \in Slot |-> "none"] /\ current' = NoSlot
  /\ ctxDone' = FALSE /\ expose' \in BOOLEAN
  /\ reason' = FALSE /\ served' = FALSE /\ slow' = FALSE
  /\ token' = IF token = "none" THEN "none" ELSE "left"
  /\ UNCHANGED changes

-----------------------------------------------------------------------------

Bridge ==
  \/ ReadVault
  \/ \E a \in Account : Opens(a) \/ SignsOut(a) \/ Connects(a) \/ Answers(a)

Loop ==
  \/ WaitForAccounts
  \/ WaitForSettled
  \/ LoopChecks
  \/ LoopEnds
  \/ LoopWaits
  \/ Expose
  \/ \E w \in Slot : NewServer(w)
  \/ Listen
  \/ Shutdown
  \/ ServeReturns
  \/ Forget

Failures ==
  \/ LoopCheckFails
  \/ ExposeFails
  \/ NewServerFails
  \/ ListenFails
  \/ ServeFails
  \/ \E w \in Slot : WatcherCheckFails(w)
  \/ GivesUp
  \/ StreamBreaks

Watcher(w) ==
  \/ WatcherLooks(w)
  \/ WatcherResets(w)
  \/ WatcherDozes(w)
  \/ WatcherChecks(w)
  \/ WatcherWaits(w)

Next ==
  \/ Bridge
  \/ \E a \in Account : Starts(a)
  \/ HandleEvent
  \/ Settles
  \/ Loop
  \/ Failures
  \/ \E w \in Slot : Watcher(w)
  \/ Stop
  \/ Restart

Spec == Init /\ [][Next]_vars

\* Goroutines are scheduled, timers fire, and what may fail (a call, a port, a
\* certificate) does not fail for ever; the stream may still lose any event.
\* Nobody has to sign in, and nothing has to connect an account or to lose one.
Fairness ==
  /\ WF_vars(Settles)
  /\ WF_vars(Loop)
  /\ SF_vars(LoopChecks)
  /\ SF_vars(Expose)
  /\ SF_vars(\E w \in Slot : NewServer(w))
  /\ SF_vars(Listen)
  /\ \A w \in Slot : WF_vars(Watcher(w)) /\ SF_vars(WatcherChecks(w))

LiveSpec == Spec /\ Fairness

-----------------------------------------------------------------------------
(* Safety *)

\* A page that began with nothing left of an earlier sign-in is told of an
\* account only when one was connected since the page was called for.  One that
\* began with a success nobody reset yet ends for that success, although README.md:212
\* has it run "whenever no account is signed in" (signin.go:276-314).
PageEndsForAReason ==
  current # NoSlot /\ signedIn => reason

\* The token in the volume is that of the page: while an exposed page is up
\* its token is there for proton-login, while one that is not exposed is up
\* there is none, and with no page up none of this process is left
\* (signin.go:158-169, 269-273).
TokenIsOfThePage ==
  /\ at \in Paged => token = IF expose THEN "live" ELSE "none"
  /\ at \notin Paged => token # "live"

\* With a vault that opens in time a restart does not bring the page up for an
\* account that is still unlocking, unless another one is signed out already
\* (signin.go:81-108, accounts.go:83-176).
NoPageWhileOpening ==
  [][at = "check" /\ at' = "setup" /\ ~slow =>
       /\ Reported \/ AllAbsent
       /\ (\E a \in Account : account[a] = "opening")
            => \E a \in Account : account[a] = "signed_out"]_vars

-----------------------------------------------------------------------------
(* The page is the one that SignInPage describes *)

\* "waiting" stands for every state in which the session waits for the bridge or
\* for the person.
state == IF session = "waiting" THEN "awaiting_credentials" ELSE session

page ==
  CASE at \in {"setup", "server", "listen"} -> "called"
    [] at = "serving"  -> "up"
    [] at = "shutdown" -> "closing"
    [] OTHER           -> "down"

\* What a server was told is of interest as long as there is its page.
told == signedIn /\ at \in {"listen", "serving", "shutdown"}

resetDue == \E w \in Slot : watcher[w] = "reset"

P == INSTANCE SignInPage WITH signedIn <- told

\* Whatever the stream, the loop, the accounts and any number of watchers do is a
\* step of SignInPage: a page is called for only while no account is connected,
\* goes only for a success, for an account that is connected, because it fails or
\* is cancelled, and no report finds a session that does not wait for it
\* (signin.go:71-130, 208-213, 276-314, login.go:292-361).
ServesThePage ==
  P!PageInit /\ [][P!PageNext(SomeConnected)]_<<P!flow, P!pageVars>>

-----------------------------------------------------------------------------
(* The inductive invariants behind the safety properties *)

\* Undisturbed, what the bridge owes a sign-in and what it has sent of its end
\* add up to one, and the session waits for it.
CourseInv ==
  ~disturbed =>
    /\ signing # Nobody =>
         session = "waiting" /\ \A i \in DOMAIN events : events[i] \notin Ending
    /\ \A i \in DOMAIN events : events[i] \in Ending =>
         /\ session = "waiting"
         /\ \A j \in DOMAIN events : events[j] \in Ending => j = i

\* As long as a page that began with nothing left has seen no account, nothing
\* can tell its watcher of one.
NothingToTell ==
  /\ ~SomeConnected
  /\ session \notin {"setting_mode", "succeeded"}
  /\ \A i \in DOMAIN events : events[i] \notin Success

PageInv ==
  /\ at \in Paged \cup {"setup"} => reason \/ NothingToTell
  /\ current # NoSlot => at \in Paged
  /\ at = "server" => current = NoSlot
  /\ PageEndsForAReason

\* What the start-up waits have established, unless they were given up.
VaultInv ==
  ~slow /\ ~ctxDone =>
    /\ at # "accounts" => listed \/ AllAbsent
    /\ at \notin Started =>
         \/ \A a \in Account : account[a] # "opening"
         \/ \E a \in Account : account[a] \in {"signed_out", "connected"}

-----------------------------------------------------------------------------
(* Liveness *)

\* The page goes when an account is there, whoever connected it.
PageEnds ==
  at = "serving" /\ SomeConnected ~> at # "serving" \/ ~SomeConnected

\* The page comes back, and stays, when no account is connected any more: at
\* start-up as well as after a sign-out (signin.go:66-71).
PageComesBack ==
  <>[](~SomeConnected /\ ~ctxDone) => <>[](at = "serving")

=============================================================================
