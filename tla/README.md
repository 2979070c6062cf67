# proton-mail-bridge-docker in TLA+

This directory holds TLA+ models of `bridge-control` and its helper packages:
the part of this repository that starts Proton Mail Bridge in a container,
configures it, forwards its mail ports and runs the page on which somebody
signs in. TLC checks the models on small instances, TLAPS proves the theorems
for every value of the constants. Line numbers are those of the source files.

## The system

| Part | State | Operations | Talks to |
| --- | --- | --- | --- |
| Login session, `internal/login/login.go` | `Session`: status, username, splitAddresses, humanVerified, one mutex | `Start`, `SubmitTOTP`, `SubmitMailboxPassword`, `Abort`, `Reset`, `Handle`, `settleMode` | the bridge (calls and the event stream), the setup server, `watchForAccount` |
| Sign-in supervision, `cmd/bridge-control/signin.go`, `internal/control/accounts.go` | the one-slot channel `changed`, the running page | `runSignIn`, `serveSetup`, `watchForAccount`, `streamEvents`, `WaitForAccounts`, `WaitForSettled` | session, setup server, bridge, token file |
| Setup server, `internal/setup` | `signedIn` (closed once), access token, CSRF token, token file, certificate | `Serve`, `MarkSignedIn`, the page and five HTTP routes, the writes behind `guard` | session, browsers |
| Page, the script in `internal/setup/page.go` | in each tab: the step shown, the token entered; one cookie jar | `render`, `poll`, `post` | setup server |
| Process lifecycle, `cmd/bridge-control/main.go`, `internal/bridgeclient` | the bridge process, `bridgeDone`, the server config file | `run`, `configure`, `startForwarding`, `terminate` | the bridge, the forwards, the container runtime |
| Forwards, `internal/forward/forward.go` | one socat per port | `WaitForPort`, `Start`, `Stop` | the bridge's ports |
| Settings, `internal/control/control.go`, `internal/config` | the bridge's vault | `Apply`, `setAndVerify`, `Repair`, `Reset` | the bridge |
| Split mode, `internal/control/mode.go`, `cmd/proton-mode` | the account's mode in the vault | `SetSplitMode` | the bridge |
| Commands, `cmd/proton-login`, `-reset`, `-repair`, `-info` | none of their own | `drive`, `resolveUnreachable`, confirmations | setup server, bridge |
| Certificate, `internal/setup/cert.go` | key and certificate files | `LoadOrCreateCertificate` | the volume |
| Spinner, `internal/progress` | label, done, one goroutine | `Start`, `Say`, `Stop` | the terminal |

The hard parts are these. The session releases its mutex before every call to
the bridge, and the bridge answers on a stream and not in the call, so a call
that fails, an event and another browser tab can come in any order. `settleMode`
runs for up to a minute beside all of that. The page ends from two sides (the
session's success, the account list), each with a delay, and a new page may
begin before the watcher of the old one has ended. A browser's tab outlives the
page it came from and goes on asking and sending, with the tokens it has. The
bridge answers before it has read its vault. SIGTERM may come at any point of the start-up, and the
volume (the token, the server config) survives whatever happens.

What makes each part correct:

- session: its status never claims what the bridge has not said, and a sign-in
  gets the answers and the result that are its own;
- supervision: a page runs when no account is connected, and only then, with
  its own token;
- page: what is entered in a tab goes to the page whose status the tab shows, and
  a tab comes to show where the sign-in is;
- lifecycle: it talks to the bridge it has started, in the order bridge,
  settings, forwards, and ends in the reverse order, always;
- settings and modes: what is reported as set has been read back;
- certificate: the page never presents anything but what its fingerprint in the
  log said, at whatever point an earlier start was interrupted;
- terminal sign-in: it says "signed in" of an account that is, tells a failure
  only where there is one, and comes back to the person.

## Modules

| Module | Models |
| --- | --- |
| `Session` | `login.go` with any number of concurrent handlers, the bridge's side of a sign-in, and the two steps of `watchForAccount` that touch the session |
| `SignIn` | `signin.go` and `accounts.go`: the loop, its pages and their watchers, the event stream, the token file, restarts |
| `Lifecycle` | `main.go`, the server config and the forwards, one start of the container after another |
| `Control` | `mode.go`, `Reset` of `control.go`, `proton-mode` and `proton-reset`: any number of them at once, over a bridge that works in the background |
| `SignInFlow` | the abstract session: what `Session` promises whoever reads its status |
| `SignInPage` | the abstract page over `SignInFlow`: when `signin.go` brings it up, for what it goes, what its watchers do to the session |
| `Container` | the abstract start of the container: in which order `main.go` brings bridge, settings and forwards up and takes them down, and what its exit says |
| `SetupPage` | `server.go`, `security.go` and `page.go` over `SignInPage`: pages that come and go, and a browser's tabs that outlive them |
| `Certificate` | `cert.go`: the two files of the page's certificate, and starts that are interrupted while they are written |
| `ProtonLogin` | `cmd/proton-login` and `client.go` over `SignInFlow` and `Certificate`, with pages that come and go |
| `SessionProofs`, `SignInProofs`, `LifecycleProofs`, `ContainerProofs`, `ControlProofs`, `ProtonLoginProofs`, `SetupPageProofs` | theorems about them |
| `MCSession`, `MCSignIn`, `MCLifecycle`, `MCControl`, `MCProtonLogin`, `MCSetupPage` | the instances for TLC |

`Session` and `SignIn` look at the same program from two sides. `Session` keeps
every field of the session and nothing of the pages but the watcher's look and
its `Reset`. `SignIn` keeps the session's state only: `Starts`, `HandleEvent`,
`Settles` and `GivesUp` are what its neighbours can do to it. `Lifecycle` starts
`runSignIn` and then waits for nothing it does, so the two share no variable
but the end of the process (`Stop` and `Restart` in `SignIn`). `Control` opens
up the calls that `settleMode` makes, which `Session` sees as one step at their
end, beside the commands that change the same accounts from other processes.

`SignInFlow` and `SignInPage` hold them together. `Session` implements the first
(`TakesItsCourse`), `SignIn` the second (`ServesThePage`), which is `SignInFlow`
and a page. `ProtonLogin` and `SetupPage` are the two ways in. `SetupPage` EXTENDS
`SignInPage` and takes its actions. `ProtonLogin` EXTENDS `SignInFlow` and
`Certificate`, keeps a page of its own with its files and tokens, and implements
`SignInPage` with it (`KeepsToThePage`). So whatever the ways in rely on, in the
session or in the page, is what `Session` and `SignIn` are shown to do.
`Lifecycle` implements `Container` (`RunsInOrder`).

Operators whose comment begins with "(mutant)" are not part of a model. Each is
a plausible mistake in the operator that follows it, and each property of a
passing run fails when the operator is replaced by one of them.

### Session

A handler's call is three steps: the locked section (`Start`, `SubmitTOTP`,
`SubmitMailboxPassword`, `Abort`), the arrival at the bridge (`Receive`), and
the return (`Returns`, or `ReturnsError` before or after the arrival, which runs
`fail`). The event stream handles one event at a time (`HandleError`,
`HandleTfaRequested`, ...). `HandleFinished` starts a `settleMode`, whose only
shared step is its last one (`SettleMode`): the calls before it touch no field
of the session. `WatcherSees` and `Reset` are lines 278 and 282 of `signin.go`,
between which the mutex is free; several pages' watchers may be there at a time, and
how many are about to reset is not counted. The security-key request (`fido`) is a `fail`
and so `HandleError`; `tfaOrFido` is `HandleTfaRequested`. Message texts are
left out.

The bridge's side (`Receive`, `BridgeAsks`, `BridgeEnds`, `BridgeRejectsMailbox`)
is written from what `login.go` says of it: one sign-in at a time, three attempts
at the mailbox password, answers as events. A handler that reports an error does
not run `Fail` for `LoginAbort`: `Abort` only hands the error on.

Once somebody aborts, a call fails or the watcher's `Reset` comes late, a
sign-in is no longer alone, and the properties that speak of a sign-in's own
result say so (`disturbed`), until a `Start` finds nothing of an earlier one on its way
or at the bridge (`Quiet`) and begins afresh. A `Reset` disturbs only a session
that is neither idle nor succeeded. What can happen while disturbed: a new sign-in replaces the
one the bridge still holds, whose `Finished` is then taken for the new one's; a
`LoginAbort` that arrives late stops a later sign-in of the same user; a `Reset`
puts a sign-in that has just been started back to idle.

### SignInFlow

Two variables: the status that readers see, and `disturbed`, which says that the
promise has ended because somebody aborted, a call failed or a `Reset` came
late. Undisturbed, a sign-in waits for the bridge from `Begin` or `Answer` to the
next `Report`, "finished" leads through `setting_mode`, and only a success is
cleared. A `Begin` may renew the promise; `Session` says when it does.

### SignInPage

`SignInFlow` with a page (called for, up, closing, down), what it was told
(`signedIn`) and a `Reset` that is due. A page is called for only while no account
is connected; it is told of a success, which is then reset, or of an account; it
goes when it was told, when it fails, or when the process is told to stop. A
watcher may see a success after its page has gone (`SeesLate`), and what the
session does goes on whether a page is up or not. Whether an account is connected
is an argument, because the accounts are the bridge's.

### SignIn

`at` walks through `runSignIn` and `serveSetup`: the two start-up waits, the
check of the account list, the token, the server, `Serve`, and the deferred
calls. A `watcher` is one `watchForAccount`; up to two are alive at a time,
because nothing waits for the old one when a page ends. The removal of the token
is deferred in a goroutine `run` does not wait for, so the file outlives a
process that ends with its page up. "opening" and "locked"
are one state to the code (`UserState_LOCKED`): an account still being unlocked,
and one that wants its mailbox password. The start-up waits may give up at any
time; `slow` is history and says that one did before the vault was open. A
listener may fail under a page that is up (`ServeFails`). A stream that breaks
loses what it had not delivered. That the token file cannot be removed is not
modelled: the code logs it and goes on.

`served` is history: once there was a page, a sign-in may start at any time, also
with no page up, because a handler may wait two minutes for its request's body and
`Shutdown` waits ten seconds for the handler. `reason` is history too: since the
page was called for an account was connected, or the session was not at rest when
it was. A page of the second kind, which the account list's or the watcher's delay
makes possible, may end for the success of an earlier sign-in, also when no account
is connected. The next check of the list brings it up again, but README.md:212 has it run
"whenever no account is signed in" (`PageEndsForAReason`).

`SignIn`'s session has fewer states: its "waiting" is every state in which the
session waits for the bridge or for the person. A restart is `Crash` of
`SignInPage`, which begins a new session.

### SetupPage

A tab is a copy of the session's status. `shown` is the step it shows, `from` the
page whose status that is (history), `token` the one token its script has. The
button of the token step is never disabled: `EnterToken` is a click on it, with a
token from the log, with a wrong one or with the field it has just emptied, also
while earlier clicks wait for their answers, until one of those answers takes the
step away. Each click overwrites the token; each answer that accepts one begins a
chain of polls of its own (`poll`, one record for each `Chain`): `Poll` is the
arrival at `handleStatus`, which takes the status of that moment with it, and
`StatusArrives` is `render`, any time later; in between everything else goes on. A
401 and the success end a chain, a connection that breaks does not. A write (`post`) takes the cookie and the token
of the moment it is sent (`Submit`), meets whatever page is up when it arrives
(`LetIn`, `TurnedAway`, by `guard`), waits for its body and for the bridge
(`Taken`, `CallReturns`) and is rendered out of order with the polls
(`AnswerArrives`).

An answer does not say to which token it is. `crossed` is history: the token was
replaced while the answer to another one was on its way. A double click does it:
the first click is accepted, the second sends nothing, the answer to the first
shows the app, and the polls then go out without a token, to a 401 from the very
page that has let the tab in. So does a click with the token of the next page
while the answer of the page before is under way: the tab then shows the status of
the one and sends what is entered there to the other. No document or comment says
that this cannot happen, and the tab is whole again once it is loaded again. So
`AnswersItsOwnPage` and `ShutOutByAnotherPage` except exactly these tabs and say
that nothing else, no restart, no late or lost answer, no other tab and no order of
pages, brings a tab there.

A page is known by its `number`; its access token and its CSRF token are that
number, as each is drawn afresh. Handlers go on after `Shutdown` has given up on
them, beside the next page. The jar is the browser's: `OtherTab` is any tab that
is not followed, answered by this page, and `StrayAnswer` one that hears late from
the page before, any number of times. The session
and the page's coming and going are `SignInPage`'s (`PageSteps`, `ServeEnds`, `Stops`),
its watchers with them: a `Reset` comes late and clears what it finds. `Others` are
the bridge's reports, `proton-login`, `Abort` (which no button of the page sends)
and calls for tabs that are gone.

A page that is not exposed is reached by a browser in the container's network
only, which is why it asks for no token; the properties about tokens are about
exposed pages, and on one that is not, a stale tab's entry may reach a later
sign-in if the jar has been refreshed by then. A browser sends one Host header and the
origin it was loaded from: `checkHost` and `checkOrigin` ask the same of it. A tab
that was loaded under the name of the docker host, which is in no list of
`exposeSetup` (signin.go:236) although the log names it (line 250), gets no
script (`LoadRejected`).

The simplifications are: one write at a time in each tab (its buttons stay enabled
too), as many requests for the status as there are chains (`MaxChains`), an answer arrives whole or not at all, a tab that shows a status of the
page that is up is not loaded again, and the bridge reports what `Reports` has only.

### Lifecycle

`at` walks through `run`, `configure` and `startForwarding`. `ConfigureFails` is
every error of `configure`: SIGTERM to the bridge, and the end of `run`. `Exit`
is the end of the container: the bridge is "cut" if it still runs. SIGTERM
reaches `bridge-control` alone or, through `tini -g` (`docker/Dockerfile:278`),
bridge and socat as well. `Set` and `Verify` are the steps of `Apply`: five
settings in a row, all but those of the mail server read back, and All Mail only
if `BRIDGE_SHOW_ALL_MAIL` is set (`named`). `kept` is what the vault has as this
start wants it; the bridge may lose a write without a word, and the next start
may want something else.
`SocatDies` has no counterpart in the code, which does
not look after a socat. `Restart` comes after an exit or, as a crash, at any
moment.

### Container

What is left of `Lifecycle` for whoever runs the container: five stages, the
bridge, its exit, SIGTERM, whether the vault has this start's settings, the ports
that are open and those that are forwarded, and the exit. A forward begins after
the bridge has opened its port and after the settings are there, once for each port,
and never after SIGTERM; whatever ends the start or the service stops all of them
first; a bridge that is asked to close is gone or killed before the container
ends, and one whose start failed is cut off.

### Control

A `Switch` is one run of `proton-mode` or one `settleMode` that has to switch:
the list and the question (`Lists`, `Answers`; a sign-in starts at `SignsIn`
instead), then `SetSplitMode` (`Reads`, `Calls`, `Polls`, `GivesUp`). A `Wipe` is
one run of `proton-reset`: `WipeLists` and `WipeAnswers`, then `control.Reset`
(`Triggers`, `WipePolls`, `WipeGivesUp`). A failed read during a wait changes
nothing, and any wait may run out at any moment.

The bridge queues a switch and carries it out later, or fails silently
(`Switches`), also one that was given up on; a reset takes the accounts one
after another (`Removes`), or stops before it has them all (`EndsReset`). Before
`ReadsVault` it names no account. Every call that fails may have reached it.

`ReportedModeHolds` leaves out a switch that is `disturbed`: another one to the
other mode was on its way at the bridge when it first read, or arrived later, or
the account was removed. Then anything may happen: `proton-mode combined` says
"already in combined mode" while a switch to split that was given up on is still
queued.

### Certificate

A pair is a key with its certificate, numbered as generated. `PageCalled` is a page that is wanted. `OpenCert`,
`WriteCert`, `OpenKey` and `WriteKey` are the two `os.WriteFile` calls, each of
which truncates before it writes; `PageStops` may come between any two. A file
that is there and does not fit the other, or was left `Torn`, is an error that
every later start ends with (`PageStops` again), until somebody removes the files:
`TestUnusableCertificateIsAnError` (cert_test.go:94-97) wants it so. What is
lost is a page; what is kept is the fingerprint. A certificate file is taken as
unusable while it is torn, since a prefix of a PEM block does not parse.

### ProtonLogin

The command is one process: `Run` (the token and the certificate from the
volume), `First` (`/api/status`), `Split` and `Prompt` (the person), a write that
arrives, is taken and is answered (`WriteTaken`, `WriteRefused`,
`WriteAnswered`, `WriteFails`, `WriteUnreachable`), `waitForChange` (`Poll...`,
`Deadline`, `PollLate`), and `Resolve`. `Drive` is `drive` with the status it
has: `seen`, which may be minutes old when the person has answered. A page is
known by the `number` of its tokens; another page has others. `watcher` is
`watchForAccount`, "over" once it has called `MarkSignedIn`; the watcher of a page
that is gone may still see a success (`WatcherSeesLate`). `PageStarts` calls for a
page with fresh tokens, `PageReads` is its certificate. The bridge connects
the account before it reports the sign-in (`BridgeSignsIn`, `BridgeReports`),
and `Others` is a browser on the same page, or a call that fails unseen.

`astray` and `mine` are history: whether somebody or something came between, and
how far the sign-in of this command is. A command is alone again when a sign-in of
its own begins afresh. A second command in another terminal is
one of the `Others`. After the watcher's `Reset` a poll may find the session
idle: the person who has just succeeded is then asked for credentials again,
until they answer and the write finds no page (`Resolve`), or leave.

## Runs

Passing runs:

| Run | Instance | Shows |
| --- | --- | --- |
| `session` | 2 handlers, 1 user, 2 sign-ins, 1 abort, calls fail | `SettingModeIsServed`, `NoInventedSuccess` and `OneAnswerPerRequest` in every interleaving; `SignInIsAlone` and `OwnResult` while nothing disturbs a sign-in; `TakesItsCourse`, that it implements `SignInFlow`; `SettingModeEnds`, `SignInIsAnswered` |
| `sign_in` | 2 accounts, 2 starts, 2 unread events, 2 changes; symmetric | `PageEndsForAReason`, `TokenIsOfThePage`, `NoPageWhileOpening` |
| `sign_in_live` | 1 account, 1 start, 1 change | `PageEnds`, `PageComesBack`; `ServesThePage`, that it implements `SignInPage` |
| `lifecycle` | 2 ports, 2 starts | `ConfigIsOurs`, `GraceOnceConfigured`, `ExitIsHonest`, `SettingsHold`; `RunsInOrder`, that it implements `Container`; `ContainerEnds` |
| `control` | 2 accounts, 2 switches, 2 resets; symmetric | `ReportedModeHolds`, `DoneMeansEmpty` |
| `proton_login` | 2 keys, 2 pages, 1 account that goes, crashes without bound | `FingerprintKept`, `PinHolds`, `SignedInIsTrue` whatever happens; `AloneNotRefused` and `SuccessIsTold` while the person is alone; `KeepsToThePage`, that its page is one of `SignInPage`; `ComesBack` |
| `setup_page` | 1 tab and the others behind its cookie, 2 names, 2 pages, 1 request for the status at a time, clicks, late answers and crashes without bound | `AnswersItsOwnPage`, `ShutOutByAnotherPage`; `ComesToShow` and `ComesToBeHeard` once session and page have come to rest and late answers to other tabs are in; `PageGoes` |

Runs in which TLC refutes what a comment, a test or the page itself says:

| Run | Refutes | What the code does |
| --- | --- | --- |
| `session_late_result` | login.go:424-425 | a late result is shown as that of a later sign-in that is itself in `setting_mode` |
| `session_claim` | login_test.go:511-512 | `humanVerified` survives a failure and a change of user, so another sign-in claims the solved challenge |
| `lifecycle_grace` | main.go:33-35, 60-61 | when `configure` fails, the container ends over a bridge that was asked to stop a moment before |
| `control_nothing` | control.go:274-278 | right after a start `proton-reset` takes a list that is still empty for an empty vault, and ends with success |
| `setup_challenge` | page.go:99 | the step that asks to sign in again hides the form to do so, and every poll shows that step again; only `proton-login` can |

Why the bounds are enough. Two handlers, sign-ins, accounts, pages and starts
are what it takes for one to meet a leftover of another, and every hazard in
the list is about two. `session` has one user, which is the harder case: users
are compared only where a `LoginAbort` arrives, and spares a sign-in of another
one; `session_claim` has two. Three would only add a third that meets the second. The
event queue holds two because `user` and `finished` follow each other. The
bounds are guards of `Start`, `Abort`, `Emit`, `Starts`, `SignsOut`, `ServeFails`, `Restart`,
`CreateCertificate` (`MaxPairs`), `PageStarts` (`MaxPages`), `AccountGone`
(`MaxChanges`), `Accepted` (`MaxChains`) and `Load`, and nowhere else; `Control`
has none, because every command runs once. Two keys are what an interrupted first start needs to leave one file of
each, and two pages what a command or a tab needs to meet the tokens of another.
One tab is followed, because tabs meet in the jar and in the session only, and
there `OtherTab`, `StrayAnswer` and `Others` stand for them. One chain is
enough for a click that crosses an answer, as the request of the second click may be
refused or lost; with a second one, accepted too, the same run has some seven million
states. `setup_challenge` has two chains, and the theorems any number. For the
safety properties that are proved the bounds do not matter.

`CHECK_DEADLOCK FALSE` stands in every configuration but those of `proton_login`
and of `SetupPage` because the system really stops: when nobody wants to sign in
any more, and when the process has ended. There a command can always be run
again and a container restarted, so that the check for deadlock costs nothing and
says little: that nothing gets stuck is what the liveness properties say.

### Fairness

- Session: a call returns (every handler has a context), the bridge goes on
  with what it is working on, the stream is read, and `settleMode` has a
  deadline of a minute. Nobody has to start or to answer anything.
- SignIn: goroutines are scheduled and timers fire (weak fairness of the loop,
  of every watcher, of `settleMode` and of the stream's reader). A call, a port
  or a certificate that can fail does not fail for ever (strong fairness of
  `LoopChecks`, `Expose`, `NewServer`, `Listen` and `WatcherChecks`): with a bridge that
  never answers there is no telling whether a page is needed. Nothing is
  assumed of the events: the page ends and comes back by polling alone.
- ProtonLogin: the command goes on by itself, each of its calls ends
  (`clientTimeout`, `bridgeAskTimeout`), and the deadline of `waitForChange`
  comes. Neither the page nor the bridge nor the person owes it anything.
- SetupPage: `Serve` is scheduled and `Shutdown` has its deadline (weak fairness
  of the two together); a tab polls while a page is up (`setTimeout`), and its
  connection does not break on every answer (strong fairness of the arrival).
  Nothing is assumed of the writes, the person, the bridge or the watcher.
- Lifecycle: `run`, the polling goroutine and the one that reaps the bridge are
  scheduled. Nothing is assumed of the bridge, not even that SIGTERM ends it.

## Proofs

TLAPS checks every leaf with Z3, Zenon and, for the temporal steps, LS4.

`SessionProofs`, for any sets of handlers and users, and any bounds:

- `TypeInvariant`: `TypeOK`.
- `HonestStatus`: `SettingModeIsServed`, `NoInventedSuccess` and
  `OneAnswerPerRequest` (`SettingModeStaysServed` and `AnsweredOnce` state the
  first and the last by themselves). They are inductive together with `TypeOK` and
  `AnswersFollowRequests`: no request is answered before it was made, without
  which a fresh request could look answered.
- `OneSignInAtATime` and `OwnResultAlways`: `SignInIsAlone` and `OwnResult`.
  Neither is inductive, and both hold again from a sign-in that begins afresh,
  whatever went before. `AloneInv` says what is on its way when, and of which
  sign-in: a call that has not arrived fits what the bridge is waiting for; the
  bridge works only while the session waits and nothing else is on its way; a
  single event is of the sign-in last started; what the session asks for is
  what the bridge holds.
- `UndisturbedResult`: undisturbed, `settleMode` shows the result of the sign-in
  that finished last. The finding of `session_late_result` is confined by it: it
  needs an `Abort`, a failed call or a late `Reset`.
- `ClaimEnds`: the action property `ClaimEndsWithTheSignIn`, through `ClaimInv`. No
  success, `Abort` or `Reset` leaves a claim to a later sign-in. The finding of
  `session_claim` goes no further than the challenge itself and a failure.
- `ImplementsFlow`: `TakesItsCourse`, that `Session` implements `SignInFlow` with
  `status.state` for its state: every step is one of the flow's or a stutter. It
  rests on `AloneInv`, which keeps the bridge's events away from a session that
  does not wait for them.

The assumption is `SessionAssumption`: `NoUser` is no user, and the bounds are
numbers. No assumption makes the set of handlers or users finite.

`SignInProofs`, for any accounts, watchers and bounds
(`SignInAssumption`: `Nobody` and `NoSlot` are neither, the bounds are numbers):

- `TypeInvariant`: `TypeOK`.
- `TokenFollowsThePage`: `TokenIsOfThePage`, inductive as it stands.
- `EndsForAReason`: `PageEndsForAReason`, through `PageInv`. Until an account was
  connected, a page that began with nothing left of an earlier sign-in has
  nothing to tell its watcher (`NothingToTell`): no account is connected, the
  session is not on its way to a success, and no success is on the stream. A
  watcher that outlives its page cannot end the next one, because `current`
  names another.
- `OpensNoPageEarly`: the action property `NoPageWhileOpening`, through
  `VaultInv`, which says what the two start-up waits have established unless
  they were given up, and that nothing takes it back: an account never starts
  to unlock again before the next start.
- `ImplementsPage`: `ServesThePage`, that every step is one of `SignInPage`'s or
  leaves page and session alone. It rests on `PageInv` (a watcher that names the
  current page has a page) and on `CourseInv`: while the promise holds, what the
  bridge owes a sign-in and what it has sent of its end add up to one at most, and
  the session waits for it, so no answer finds a session that does not expect one.

`LifecycleProofs`, for any number of ports and starts (`LifecycleAssumption`):

- `TypeInvariant`: `TypeOK`.
- `OwnConfig`: `ConfigIsOurs`, through `ConfigInv`. Past the wait for it the
  server config was written by the running bridge, because `run` removes the
  old one first and a bridge that ends early ends the wait.
- `ForwardsFollow`: `BridgeGoesFirst` and `ForwardsEndFirst`, through
  `ForwardInv`: the port at hand and those after it have no socat yet. The run
  checks them as part of `RunsInOrder`, which implies them (`OrderHolds` below).
- `SettingsFirst`: `SettingsHold`, through `SettingInv`: the settings that were
  read back before the one at hand (`Earlier`) are kept, and nothing takes
  them back before the next start.
- `OrderlyEnd`: `GraceOnceConfigured` and `ExitIsHonest`, through `EndInv`,
  which relates the place of `run` to what it knows of the bridge.
  `GraceIsGiven` states the first of them by itself.
- `ImplementsContainer`: `RunsInOrder`, step by step: a step of `run` is one of
  `Container`'s or a stutter. It rests on the last three invariants: on `SettingInv`, that a
  forward finds the settings there and that only the end of `Apply` can change what
  they are; on `ForwardInv`, that a port is forwarded once; on `EndInv`, that the
  bridge is up before anything is applied to it and, once configured, is not
  running when the container ends.

`ContainerProofs`, for any ports: `OrderHolds`, that whatever runs in the order of
`Container` forwards a port only once bridge and settings are there, stops the
forwards first, serves and ends well over its own settings only, and cuts off a
bridge only under an error. `StageInv` says what each stage knows of bridge and exit.

`ControlProofs`, for any number of accounts and commands (`ControlAssumption`:
`NoAccount` is none):

- `TypeInvariant`: `TypeOK`.
- `ReportHolds`: `ReportedModeHolds`, through `ModeInv`: while a switch is
  undisturbed, no switch to the other mode is queued for its account.
- `DoneIsEmpty`: the action property `DoneMeansEmpty`. Only `WipePolls` ends
  that way, and by then the vault has been read (`ResetInv`), so that an empty
  list is an empty vault.
- `SuccessOnceRead`: the action property `ReadSuccessMeansEmpty`: from then on
  *every* success of `proton-reset`, also "nothing to do", is over an empty vault.
  The finding of `control_nothing` is about the first moments of a start only.

`ProtonLoginProofs`, for any number of keys, pages and changes
(`CertificateAssumption`: no file and a torn one are not pairs;
`ProtonLoginAssumption`):

- `TypeInvariant`: `TypeOK`, which needs `FilesHold`: a page that is being set up
  has a pair to write.
- `FingerprintStays`: `FingerprintKept`, through `FilesHold`: what was shown is in
  both files, so no later start finds one missing and generates another.
- `PinStays`: `PinHolds`, through `PinInv`: the pin a page has answered to is one
  that was shown.
- `SignedInStays`: `SignedInIsTrue`, through `DoneIsConnected` and `StartInv`: the
  account is connected before the session says anything about it.
- `NotRefusedStays` and `SuccessStays`: `AloneNotRefused` and `SuccessIsTold`,
  through `Kept`: the page that answered is up or an account is connected
  (`SamePage`), the session still asks what the person was asked
  (`SnapshotHolds`), and a sign-in that is done is not undone (`OwnIsDone`). The
  lemma `BeginsAnew` is the step at which a command is alone again.
- `ImplementsPage`: `KeepsToThePage`, through `WatcherInv`: a watcher that may yet
  tell its page has a page.

`SetupPageProofs`, for any number of tabs, names, pages and chains, and any reports
(`SetupPageAssumption`):

- `TypeInvariant`: `TypeOK`.
- `OwnPageAlways` and `ShutOutStays`: `AnswersItsOwnPage` and
  `ShutOutByAnotherPage`, through `TokenInv`. Neither is inductive: both speak of
  one moment of a write or a poll. What holds all along is that the token a tab
  has names the page of everything the tab shows, waits for and has sent
  (`OfItsToken`), unless the tab is `crossed`. A click keeps that because of
  `InTheApp`: while the token step is shown nothing has been polled or sent, so all
  that a new token could belie are answers to the token step, and that is what
  `crossed` records (`EnterKeepsToken`). Any number of clicks and of chains.
- `KeepsToThePage` and `MeetsEveryStep`: what the module assumes of page and
  session is `SignInPage`, no more and no less. Every step is one of its steps or
  leaves them alone; and every one of its steps, but for the end of the process,
  which `Stops` is, may happen whatever the tabs show, wait for or have sent,
  as long as the bound on the pages is not reached.

Together: `SetupPage` and `ProtonLogin` meet any page of `SignInPage`
(`MeetsEveryStep`) or one of its pages (`ImplementsPage`), the pages `signin.go`
runs are such pages (`SignIn`'s `ImplementsPage`), and the session is one of
`SignInFlow` (`ImplementsFlow`). The composition itself, one behaviour in which
all of them take part, is not stated as a theorem.

Model-checked only: the liveness properties (`SettingModeEnds`,
`SignInIsAnswered`, `PageEnds`, `PageComesBack`, `ContainerEnds`, `ComesBack`,
`ComesToShow`, `ComesToBeHeard`, `PageGoes`), because liveness under fairness is out of the prover's reach.

## Not modelled

- What the page says: message texts, headers, the link to the challenge.
- The spinner (`internal/progress`): it draws on the terminal. `Say` and the
  goroutine share one mutex, `Stop` closes a channel once and waits for the
  goroutine, and nothing else reads what it keeps.
- The parsing of `/proc/net/tcp`, the configuration and command lines.
- The cryptography of the certificate.
- `internal/info`, `internal/certinfo`, `proton-info`, `proton-repair`: they ask and format.
- `docker/`, `scripts/ci/`: shell around docker and git.
- The bridge. Its side of the interface is written from the uses in this
  repository and marked external in the map.

## Plan

Done: the seven parts above with their theorems, and the abstract session, page
and container they implement. Left, in this order:

1. The vault's commands beside a start: `proton-reset` and `proton-repair` while
   `Apply` runs, over the settings of `Lifecycle`.
2. The parsers (`/proc/net/tcp`, the configuration) as operators, checked against
   a reference definition.
