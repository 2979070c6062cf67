---------------------------- MODULE ProtonLogin ----------------------------
(***************************************************************************)
(* cmd/proton-login and internal/setup/client.go: a sign-in driven from    *)
(* the terminal, through the same page as the browser's.                   *)
(*                                                                         *)
(* The command works on snapshots.  It reads the status, asks a person,    *)
(* sends the answer, and meanwhile the bridge reports, browsers sign in,   *)
(* and the page ends because an account is connected, which is also how    *)
(* the command's own success reaches it: as a call nobody answers.         *)
(*                                                                         *)
(* The session is the one SignInFlow describes and Session implements; the *)
(* page's files are those of Certificate.                                  *)
(***************************************************************************)
EXTENDS SignInFlow, Certificate

CONSTANTS
  MaxPages,    \* bound: how often the page comes up
  MaxChanges   \* bound: how often the accounts go away

ASSUME ProtonLoginAssumption == MaxPages \in Nat /\ MaxChanges \in Nat

VARIABLES
  exposed,     \* BRIDGE_SETUP_EXPOSE: the page wants its token
  number,      \* of the page: its access token and its CSRF token
  watcher,     \* watchForAccount: about to read the status or to look at the
               \* list, or over
  resetDue,    \* a watcher saw a success and has not reset the session yet
  connected,   \* the bridge lists a connected account
  done,        \* the bridge signed an account in and has not reported it
  pc,          \* where the command is
  handled,     \* the page has taken the write that is on its way
  seen,        \* the status the command holds
  csrf,        \* Client.csrf, by the number of its page
  token,       \* Client.token, by the number of its page
  pinned,      \* the certificate the client trusts
  late,        \* the deadline of waitForChange is over
  \* History:
  why,         \* why the command ended without a sign-in
  mine,        \* whether the page took a sign-in of this command, and whether
               \* that was done before the command ended
  astray,      \* since the command began somebody else signed in, a call to the
               \* bridge failed, an account went away, or the page did and none
               \* was connected
  changes

page_   == <<exposed, number, watcher, resetDue>>
bridge  == <<connected, done>>
command == <<pc, handled, seen, csrf, token, pinned, late, why>>
vars    == <<flow, certState, page_, bridge, command, mine, astray, changes>>

Waiting == {"awaiting_credentials", "setting_mode"}
Over    == {"signed_in", "already", "failed"}
Busy    == {"first", "write", "poll", "resolve"}
Pc      == {"off", "split", "prompt"} \cup Busy \cup Over
Reason  == {"none", "certificate", "refused", "unreachable", "late", "silent",
            "hopeless", "given_up"}

TypeOK ==
  /\ FlowTypeOK
  /\ CertTypeOK
  /\ exposed \in BOOLEAN
  /\ number \in Nat
  /\ watcher \in {"reads", "looks", "over"}
  /\ resetDue \in BOOLEAN
  /\ connected \in BOOLEAN
  /\ done \in BOOLEAN
  /\ pc \in Pc
  /\ handled \in BOOLEAN
  /\ seen \in State
  /\ csrf \in Nat
  /\ token \in Nat
  /\ pinned \in Pair \cup {Nothing}
  /\ late \in BOOLEAN
  /\ why \in Reason
  /\ mine \in {"none", "taken", "done"}
  /\ astray \in BOOLEAN
  /\ changes \in Nat

Init ==
  /\ FlowInit
  /\ CertInit
  /\ exposed \in BOOLEAN
  /\ number = 0
  /\ watcher = "over"
  /\ resetDue = FALSE
  /\ connected = FALSE
  /\ done = FALSE
  /\ pc = "off"
  /\ handled = FALSE
  /\ seen = "idle"
  /\ csrf = 0
  /\ token = 0
  /\ pinned = Nothing
  /\ late = FALSE
  /\ why = "none"
  /\ mine = "none"
  /\ astray = FALSE
  /\ changes = 0

-----------------------------------------------------------------------------
(* The page, as serveSetup and watchForAccount run it *)

\* It is called for while no account is connected.
PageStarts ==
  /\ ~connected
  /\ number < MaxPages
  /\ PageCalled
  /\ UNCHANGED <<flow, page_, bridge, command, mine, astray, changes>>

\* Another page has other tokens.
ComesUp ==
  IF page' = "up" THEN number' = number + 1 /\ watcher' = "reads"
                  ELSE UNCHANGED <<number, watcher>>

PageReads ==
  /\ LoadCertificate \/ CreateCertificate
  /\ ComesUp
  /\ UNCHANGED <<flow, exposed, resetDue, bridge, command, mine, astray,
                 changes>>

PageWrites ==
  /\ OpenCert \/ WriteCert \/ OpenKey \/ WriteKey
  /\ ComesUp
  /\ UNCHANGED <<flow, exposed, resetDue, bridge, command, mine, astray,
                 changes>>

\* The page ends once MarkSignedIn was called, or because it fails.
PageEnds ==
  /\ PageStops
  /\ watcher' = "over"
  /\ astray' = (astray \/ watcher # "over" \/ ~connected)
  /\ UNCHANGED <<flow, exposed, number, resetDue, bridge, command, mine,
                 changes>>

WatcherReads ==
  /\ watcher = "reads"
  /\ \/ state = "succeeded" /\ watcher' = "over" /\ resetDue' = TRUE
     \/ state \notin {"succeeded", "setting_mode"} /\ watcher' = "looks"
          /\ UNCHANGED resetDue
  /\ UNCHANGED <<flow, certState, exposed, number, bridge, command, mine,
                 astray, changes>>

\* (mutant) reads needed without looking at err
WatcherLooksAnyway ==
  /\ watcher = "looks"
  /\ watcher' = "over"
  /\ UNCHANGED <<flow, certState, exposed, number, resetDue, bridge, command,
                 mine, astray, changes>>

WatcherLooks ==
  /\ watcher = "looks"
  /\ watcher' = IF connected THEN "over" ELSE "reads"
  /\ UNCHANGED <<flow, certState, exposed, number, resetDue, bridge, command,
                 mine, astray, changes>>

\* The watcher of a page that is gone looks once more.
WatcherSeesLate ==
  /\ number > (IF page = "up" THEN 1 ELSE 0)
  /\ state = "succeeded"
  /\ resetDue' = TRUE
  /\ UNCHANGED <<flow, certState, exposed, number, watcher, bridge, command,
                 mine, astray, changes>>

\* Another watcher may be about to do the same.
WatcherResets ==
  /\ resetDue
  /\ Clear
  /\ resetDue' \in BOOLEAN
  /\ UNCHANGED <<certState, exposed, number, watcher, bridge, command, mine,
                 astray, changes>>

-----------------------------------------------------------------------------
(* The bridge, and the others who use the page *)

\* It signs the account in, which connects it, a moment before it reports the
\* sign-in as finished (signin.go:291-295).
BridgeSignsIn ==
  /\ state = "awaiting_credentials" \/ disturbed
  /\ ~done
  /\ done' = TRUE
  /\ connected' = TRUE
  /\ mine' = IF mine = "taken" /\ pc \notin Over THEN "done" ELSE mine
  /\ UNCHANGED <<flow, certState, page_, command, astray, changes>>

\* It reports: finished only what it did, already signed in only what is.
BridgeReports(news) ==
  /\ Report(news)
  /\ done <=> news = "setting_mode"
  /\ news = "succeeded" => connected
  /\ done' = FALSE
  /\ UNCHANGED <<certState, page_, connected, command, mine, astray, changes>>

ModeSettles ==
  Settle /\ UNCHANGED <<certState, page_, bridge, command, mine, astray,
                        changes>>

\* An account connects by itself, or goes away.
Reconnects ==
  /\ ~connected
  /\ connected' = TRUE
  /\ UNCHANGED <<flow, certState, page_, done, command, mine, astray, changes>>

AccountGone ==
  /\ connected
  /\ changes < MaxChanges
  /\ connected' = FALSE
  /\ changes' = changes + 1
  /\ astray' = TRUE
  /\ UNCHANGED <<flow, certState, page_, done, command, mine>>

\* A browser begins a sign-in, answers for one or aborts it; or a call to the
\* bridge fails for which nobody waits here, a browser's or that of a write whose
\* answer the command has given up on.
Others ==
  /\ (page = "up" /\ (Begin \/ Answer \/ GiveUp)) \/ CallFails
  /\ astray' = TRUE
  /\ UNCHANGED <<certState, page_, bridge, command, mine, changes>>

\* The container stops; the volume and its bridge's accounts stay.
Crash ==
  /\ PageStops
  /\ state' = "idle" /\ disturbed' = FALSE
  /\ watcher' = "over" /\ resetDue' = FALSE
  /\ connected' = FALSE /\ done' = FALSE
  /\ pc' = "off" /\ handled' = FALSE /\ seen' = "idle" /\ csrf' = 0
  /\ token' = 0 /\ pinned' = Nothing /\ late' = FALSE /\ why' = "none"
  /\ mine' = "none" /\ astray' = FALSE
  /\ UNCHANGED <<exposed, number, changes>>

-----------------------------------------------------------------------------
(* The command *)

others == <<page_, bridge, changes>>

\* The command ends, for a reason, and with it what it held.
Ends(reason) ==
  /\ pc' = "failed"
  /\ why' = reason
  /\ handled' = FALSE /\ seen' = "idle" /\ token' = 0 /\ pinned' = Nothing
  /\ late' = FALSE
  /\ UNCHANGED csrf

\* (mutant) does not know the state in which the mode is set
DriveWithoutSetting(status) ==
  \/ status = "awaiting_credentials" /\ pc' = "poll" /\ late' = FALSE
       /\ UNCHANGED why
  \/ status = "succeeded" /\ pc' = "signed_in" /\ UNCHANGED <<late, why>>
  \/ status \notin {"awaiting_credentials", "succeeded"} /\ pc' = "prompt"
       /\ UNCHANGED <<late, why>>

\* drive, with the status at hand: wait for the bridge, ask the person, or end.
Drive(status) ==
  \/ status \in Waiting /\ pc' = "poll" /\ late' = FALSE /\ UNCHANGED why
  \/ status = "succeeded" /\ pc' = "signed_in" /\ UNCHANGED <<late, why>>
  \/ status \notin Waiting \cup {"succeeded"} /\ pc' = "prompt"
       /\ UNCHANGED <<late, why>>
  \/ status = "failed" /\ pc' = "failed" /\ why' = "hopeless" /\ UNCHANGED late

\* The token in the volume: that of the page that runs or is about to.  One that
\* is left of an earlier start fits no later page and counts as none.
TokenFile ==
  CASE ~exposed \/ page = "down" -> 0
    [] exposed /\ page = "up"    -> number
    [] OTHER                     -> number + 1

\* LoadToken and NewClient.
Run ==
  /\ pc \in {"off"} \cup Over
  /\ handled' = FALSE /\ seen' = "idle" /\ csrf' = 0 /\ late' = FALSE
  /\ mine' = "none" /\ astray' = FALSE
  /\ IF cert \in Pair
     THEN /\ pc' = "first" /\ why' = "none"
          /\ token' = TokenFile /\ pinned' = cert
     ELSE /\ pc' = "failed" /\ why' = "certificate"
          /\ token' = 0 /\ pinned' = Nothing
  /\ UNCHANGED <<flow, certState, others>>

\* (mutant) trusts any certificate
ReachedUnpinned == page = "up"

\* A connection is made with the page that presents the pinned certificate.
Reached == page = "up" /\ pinned = served

TokenFits == exposed => token = number

\* (mutant) reads the answer into the wrong field
StatusAnsweredPage ==
  /\ Reached
  /\ TokenFits
  /\ seen' = page
  /\ csrf' = number
  /\ UNCHANGED <<flow, certState, others, handled, token, pinned, mine, astray>>

\* GET /api/status: the state, and the page's CSRF token on the way.
StatusAnswered ==
  /\ Reached
  /\ TokenFits
  /\ seen' = state
  /\ csrf' = number
  /\ UNCHANGED <<flow, certState, others, handled, token, pinned, mine, astray>>

StatusRefused ==
  /\ Reached
  /\ ~TokenFits
  /\ Ends("refused")
  /\ UNCHANGED <<flow, certState, others, mine, astray>>

First ==
  /\ pc = "first"
  /\ \/ /\ StatusAnswered
        /\ pc' = IF state = "succeeded" THEN "already" ELSE "split"
        /\ UNCHANGED <<late, why>>
     \/ StatusRefused
     \/ /\ ~Reached
        /\ Ends("unreachable")
        /\ UNCHANGED <<flow, certState, others, mine, astray>>

\* The question about split mode, answered over the status read before it.
Split ==
  /\ pc = "split"
  /\ Drive(seen)
  /\ UNCHANGED <<flow, certState, others, handled, seen, csrf, token, pinned,
                 mine, astray>>

\* The person answers what drive asks for in this state.
Prompt ==
  /\ pc = "prompt"
  /\ pc' = "write"
  /\ handled' = FALSE
  /\ UNCHANGED <<flow, certState, others, seen, csrf, token, pinned, late, why,
                 mine, astray>>

\* Or ends the input, or answers with nothing or neither yes nor no.
GivesUp ==
  /\ pc \in {"split", "prompt"}
  /\ Ends("given_up")
  /\ UNCHANGED <<flow, certState, others, mine, astray>>

-----------------------------------------------------------------------------
(* A write: it arrives, the session takes it or not, the bridge is called,  *)
(* and the answer carries the status there is by then.                      *)

\* What the session takes: a secret it asks for, or the start of a sign-in.
Fits == IF seen \in Secret THEN state = seen ELSE state \in Ended

Allowed == Reached /\ TokenFits /\ csrf = number

WriteTaken ==
  /\ pc = "write" /\ ~handled
  /\ Allowed /\ Fits
  /\ IF seen \in Secret THEN Answer /\ UNCHANGED mine
                        ELSE Begin /\ mine' = "taken"
  /\ handled' = TRUE
  /\ UNCHANGED <<certState, others, pc, seen, csrf, token, pinned, late, why,
                 astray>>

WriteRefused ==
  /\ pc = "write" /\ ~handled
  /\ Reached
  /\ ~(Allowed /\ Fits)
  /\ Ends("refused")
  /\ UNCHANGED <<flow, certState, others, mine, astray>>

WriteAnswered ==
  /\ pc = "write" /\ handled
  /\ Reached
  /\ seen' = state
  /\ Drive(state)
  /\ handled' = FALSE
  /\ UNCHANGED <<flow, certState, others, csrf, token, pinned, mine, astray>>

\* The bridge does not take the call: the session fails and so does the command.
WriteFails ==
  /\ pc = "write" /\ handled
  /\ CallFails /\ state' = "failed"
  /\ Ends("refused")
  /\ astray' = TRUE
  /\ UNCHANGED <<certState, others, mine>>

\* No answer comes: there is no page, it goes before it answers, or the time
\* for a call is over.
WriteUnreachable ==
  /\ pc = "write"
  /\ handled \/ ~Reached
  /\ pc' = "resolve"
  /\ handled' = FALSE
  /\ UNCHANGED <<flow, certState, others, seen, csrf, token, pinned, late, why,
                 mine, astray>>

-----------------------------------------------------------------------------
(* waitForChange *)

\* (mutant) has a deadline for every poll
PollAnsweredForever ==
  /\ pc = "poll"
  /\ StatusAnswered
  /\ Drive(state)

PollAnswered ==
  /\ pc = "poll"
  /\ ~late
  /\ StatusAnswered
  /\ IF state \in Waiting THEN UNCHANGED <<pc, late, why>> ELSE Drive(state)

PollRefused == pc = "poll" /\ ~late /\ StatusRefused

PollUnreachable ==
  /\ pc = "poll"
  /\ ~late
  /\ ~Reached
  /\ pc' = "resolve"
  /\ UNCHANGED <<flow, certState, others, handled, seen, csrf, token, pinned,
                 late, why, mine, astray>>

\* stepTimeout passes.
Deadline ==
  /\ pc = "poll"
  /\ ~late
  /\ late' = TRUE
  /\ UNCHANGED <<flow, certState, others, pc, handled, seen, csrf, token,
                 pinned, why, mine, astray>>

PollLate ==
  /\ pc = "poll"
  /\ late
  /\ Ends("late")
  /\ UNCHANGED <<flow, certState, others, mine, astray>>

-----------------------------------------------------------------------------
(* resolveUnreachable *)

\* (mutant) takes the page that is gone for the success it waited for
ResolveUnasked ==
  /\ pc = "resolve"
  /\ pc' = "signed_in"
  /\ UNCHANGED <<flow, certState, others, handled, seen, csrf, token, pinned,
                 late, why, mine, astray>>

\* (mutant) reports a page that is gone as a failure
ResolveNever ==
  /\ pc = "resolve"
  /\ Ends("unreachable")
  /\ UNCHANGED <<flow, certState, others, mine, astray>>

\* The bridge is asked for its accounts, and may not answer.
Resolve ==
  /\ pc = "resolve"
  /\ \/ connected /\ pc' = "signed_in"
          /\ UNCHANGED <<handled, seen, csrf, token, pinned, late, why>>
     \/ ~connected /\ Ends("unreachable")
     \/ Ends("silent")
  /\ UNCHANGED <<flow, certState, others, mine, astray>>

-----------------------------------------------------------------------------

Page == PageStarts \/ PageReads \/ PageWrites \/ PageEnds
          \/ WatcherReads \/ WatcherLooks \/ WatcherSeesLate \/ WatcherResets

Bridge == BridgeSignsIn \/ (\E news \in News : BridgeReports(news))
            \/ ModeSettles \/ Reconnects \/ AccountGone

Write == WriteTaken \/ WriteRefused \/ WriteAnswered \/ WriteFails
           \/ WriteUnreachable

Poll == PollAnswered \/ PollRefused \/ PollUnreachable

\* The steps the command takes without the person.
Works == First \/ Write \/ Poll \/ PollLate \/ Resolve

Next ==
  \/ Page
  \/ Bridge
  \/ Others
  \/ Crash
  \/ Run \/ Split \/ Prompt \/ GivesUp
  \/ Works
  \/ Deadline

\* The command runs, its calls end, and time passes.  The page, the bridge and
\* the person owe it nothing.
Spec == Init /\ [][Next]_vars /\ WF_vars(Works) /\ WF_vars(Deadline)

-----------------------------------------------------------------------------
(* Safety *)

\* Where the command is once the page has answered it.
Driving == {"split", "prompt", "write", "poll", "resolve"}

\* The client's pin (client.go:46-78) is read before the page answered, and
\* may be that of a start that was interrupted.  Once the page has answered,
\* no later page presents anything else.
PinHolds == pc \in Driving /\ page = "up" => pinned = served

\* "Signed in" is said of an account that is: of the page's going alone the
\* command concludes nothing (main.go:357-360).  Accounts that went away while
\* it ran excepted.
SignedInIsTrue == pc = "signed_in" /\ changes = 0 => connected

\* Nobody else signs in, no call to the bridge fails, no account goes away.
Alone == ~astray /\ ~disturbed

\* Meanwhile whatever the command sends fits the session and the page, however
\* old the status is on which it asked the person.  A page may refuse its first
\* question only: the token of a page that has not come up yet is not there.
AloneNotRefused == Alone => ~(why = "refused" /\ csrf # 0)

\* A sign-in of the command's own that is done is not told as a failure
\* (main.go:348-355) under the same condition, unless the bridge does not say
\* or does not report in time, or the person left.
SuccessIsTold ==
  Alone /\ pc = "failed" /\ mine = "done" => why \in {"late", "silent", "given_up"}

-----------------------------------------------------------------------------
(* The page is the one that SignInPage describes *)

\* Its files are no concern of a page that others call for, talk to and lose.
stage == IF page \in {"down", "up"} THEN page ELSE "called"

\* The watcher of a page that is up has told it.
told == page = "up" /\ watcher = "over"

P == INSTANCE SignInPage WITH page <- stage, signedIn <- told

\* What this command meets is a page as SignIn runs it: whatever the files, the
\* watcher, the bridge and the others do is a step of SignInPage
\* (signin.go:111-130, 208-213, 276-314, server.go:168-207).
KeepsToThePage ==
  P!PageInit /\ [][P!PageNext(connected)]_<<P!flow, P!pageVars>>

-----------------------------------------------------------------------------
(* The inductive invariants behind them *)

\* A watcher is at work while its page is up; later ones see late.
WatcherInv == watcher # "over" => page = "up"

\* The page answered once: its certificate was the pinned one.
PinInv == pc \in Driving => pinned \in shown

\* A sign-in that is done, reported or not, left an account connected.
DoneIsConnected ==
  changes = 0 =>
    /\ (done \/ state \in {"setting_mode", "succeeded"}) => connected
    /\ pc = "signed_in" => connected

\* The page that answered is still there, or an account is.
SamePage ==
  \/ page = "up" /\ csrf = number /\ TokenFits
  \/ page = "down" /\ connected

\* What the person is asked for is what the session waits for.
SnapshotHolds ==
  pc \in {"split", "prompt"} \/ (pc = "write" /\ ~handled) =>
    /\ seen \in Secret => state = seen
    /\ seen \in Ended => state \in Ended
    /\ pc # "split" => seen \in Secret \cup Ended

\* The command's own sign-in is done, and not undone.
OwnIsDone ==
  mine = "done" /\ pc \notin Over =>
    /\ connected
    /\ \/ state = "awaiting_credentials" /\ done
       \/ state \in {"setting_mode", "succeeded", "idle"}

Kept ==
  /\ pc \in Driving => SamePage
  /\ SnapshotHolds
  /\ OwnIsDone
  /\ ~(why = "refused" /\ csrf # 0)
  /\ pc = "failed" /\ mine = "done" => why \in {"late", "silent", "given_up"}

AloneHolds == Alone => Kept

\* Before the first answer there is nothing to remember.
StartInv ==
  /\ pc \in {"off", "first"} => csrf = 0
  /\ pc \in {"off", "first", "split"} => mine = "none"
  /\ pc = "split" => seen # "succeeded"
  /\ pc # "failed" => why = "none"

-----------------------------------------------------------------------------
(* Liveness *)

\* The command always comes back to the person, or ends.
ComesBack == pc \in Busy ~> pc \notin Busy

=============================================================================
