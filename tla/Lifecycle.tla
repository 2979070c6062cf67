------------------------------- MODULE Lifecycle -------------------------------
(***************************************************************************)
(* cmd/bridge-control/main.go: one start of the container after another.   *)
(*                                                                         *)
(* run (the variable at) removes the server config an earlier start left,  *)
(* starts the bridge, waits for the config the bridge writes, configures   *)
(* the bridge, forwards the mail ports with one socat each, and then waits *)
(* for the bridge to exit or for SIGTERM.  Beside it run the goroutine     *)
(* that polls for the config (waiter) and the one that reaps the bridge    *)
(* (done).  When run returns the container ends, and whatever still runs   *)
(* in it is killed.                                                        *)
(*                                                                         *)
(* Timers may fire at any moment, calls to the bridge may fail, and the    *)
(* bridge may exit on its own.  runSignIn, which nothing here waits for,   *)
(* has a module of its own.                                                *)
(***************************************************************************)
EXTENDS Naturals

CONSTANTS
  Ports,       \* how many ports are forwarded, one after the other
  MaxStarts    \* bound: starts of the container

ASSUME LifecycleAssumption == Ports \in Nat /\ MaxStarts \in Nat

VARIABLES
  at,          \* where run is
  next,        \* the port startForwarding has come to
  waiter,      \* the goroutine of configure: polling, or what it sent
  loaded,      \* the server config run connects with
  ctxDone,     \* SIGTERM has arrived
  outcome,     \* what run returns
  bridge,      \* the bridge process
  done,        \* bridgeDone: how the bridge exited, once it was reaped
  listening,   \* ports the bridge has open
  socat,       \* the socat process of each port
  file,        \* the server config in the volume
  setting,     \* the setting Apply has come to
  kept,        \* the settings the vault has as this start wants them
  named,       \* BRIDGE_SHOW_ALL_MAIL is set
  \* History, read by no guard of the code:
  opened,      \* ports the bridge has had open since this start
  configured,  \* configure has returned without an error
  starts

process == <<at, next, loaded, outcome, configured>>
outside == <<bridge, listening, file, opened>>
settings == <<setting, kept, named>>
vars == <<process, waiter, ctxDone, outside, done, socat, settings, starts>>

-----------------------------------------------------------------------------

Port == 1 .. Ports

Alive == {"starting", "serving", "stopping"}

\* "cut": killed with the container; "killed": by run, when its grace was over.
BridgeState == Alive \cup {"none", "gone", "killed", "cut"}

Place == {"remove", "start", "wait", "version", "set", "verify", "port",
          "socat", "run", "grace", "ending", "exited"}

\* before startForwarding
Before == {"remove", "start", "wait", "version", "set", "verify"}

\* In the order of Apply.
Setting == {"updates", "mail", "routing", "telemetry", "all_mail"}

\* The mail server settings are one call, and nobody reads them back.
ReadBack == Setting \ {"mail"}

\* What Apply makes sure of; All Mail stays as it is if nobody named it.
Required == IF named THEN ReadBack ELSE ReadBack \ {"all_mail"}

TypeOK ==
  /\ at \in Place
  /\ next \in Nat
  /\ at \in {"port", "socat"} => next \in Port
  /\ at \in Before => next = 1
  /\ waiter \in {"none", "polling", "stale", "fresh", "failed"}
  /\ loaded \in {"none", "stale", "fresh"}
  /\ ctxDone \in BOOLEAN
  /\ outcome \in {"none", "ok", "error"}
  /\ bridge \in BridgeState
  /\ done \in {"none", "ok", "error"}
  /\ listening \subseteq Port
  /\ socat \in [Port -> {"none", "running", "dead"}]
  /\ file \in {"none", "stale", "fresh"}
  /\ setting \in Setting
  /\ kept \subseteq Setting
  /\ named \in BOOLEAN
  /\ opened \subseteq Port
  /\ configured \in BOOLEAN
  /\ starts \in Nat

Init ==
  /\ at = "remove" /\ next = 1
  /\ waiter = "none" /\ loaded = "none"
  /\ ctxDone = FALSE /\ outcome = "none"
  /\ bridge = "none" /\ done = "none" /\ listening = {}
  /\ socat = [p \in Port |-> "none"]
  /\ file \in {"none", "stale"}
  /\ setting = "updates" /\ kept \in SUBSET Setting /\ named \in BOOLEAN
  /\ opened = {} /\ configured = FALSE
  /\ starts = 1

-----------------------------------------------------------------------------
(* Helpers *)

Goto(place) == at' = place

\* terminate: SIGTERM, unless the bridge is gone.
Terminate == bridge' = IF bridge \in Alive THEN "stopping" ELSE bridge

\* Forwarder.Stop
StopForwards ==
  socat' = [p \in Port |-> IF socat[p] = "running" THEN "dead" ELSE socat[p]]

\* run has nothing left to do but to return.
Ends(result) == Goto("ending") /\ outcome' = result

\* configure returned an error.
ConfigureFails ==
  /\ Ends("error")
  /\ Terminate
  /\ UNCHANGED <<next, loaded, configured, waiter, ctxDone, listening, file,
                 opened, done, starts, setting, named>>

-----------------------------------------------------------------------------
(* run, up to the start of the bridge *)

\* (mutant) leaves the file of an earlier start
RemoveServerConfigNothing ==
  /\ at = "remove"
  /\ Goto("start")
  /\ UNCHANGED <<next, loaded, outcome, configured, waiter, ctxDone, outside,
                 done, socat, starts, settings>>

RemoveServerConfig ==
  /\ at = "remove"
  /\ \/ Goto("start") /\ file' = "none" /\ UNCHANGED outcome
     \/ Ends("error") /\ UNCHANGED file
  /\ UNCHANGED <<next, loaded, configured, waiter, ctxDone, bridge, listening,
                 opened, done, socat, starts, settings>>

\* startBridge, and the two goroutines.
StartBridge ==
  /\ at = "start"
  /\ \/ /\ Goto("wait")
        /\ bridge' = "starting"
        /\ waiter' = "polling"
        /\ UNCHANGED outcome
     \/ Ends("error") /\ UNCHANGED <<bridge, waiter>>
  /\ UNCHANGED <<next, loaded, configured, ctxDone, listening, file, opened,
                 done, socat, starts, settings>>

-----------------------------------------------------------------------------
(* configure *)

\* WaitForServerConfig: the file is there, or the start timeout or SIGTERM.
WaiterPolls ==
  /\ waiter = "polling"
  /\ waiter' \in {file, "failed"} \ {"none"}
  /\ UNCHANGED <<process, ctxDone, outside, done, socat, starts, settings>>

TakeConfig ==
  /\ at = "wait"
  /\ waiter \in {"stale", "fresh"}
  /\ loaded' = waiter
  /\ Goto("version")
  /\ UNCHANGED <<next, outcome, configured, waiter, ctxDone, outside, done,
                 socat, starts, settings>>

\* The waiter gave up, or the bridge stopped before its service was up.
WaitFails ==
  /\ at = "wait"
  /\ waiter = "failed" \/ done # "none"
  /\ ConfigureFails
  /\ UNCHANGED <<socat, kept>>

\* Version and Apply are answered by a bridge that serves, and by no other; a
\* call with a context that has ended fails.
Call(place) ==
  /\ at = place
  /\ bridge \in {"serving", "stopping"} /\ loaded = "fresh"
  /\ ~ctxDone
  /\ UNCHANGED <<next, loaded, outcome, waiter, ctxDone, outside, done, socat,
                 starts, named>>

Version ==
  /\ Call("version")
  /\ Goto("set")
  /\ UNCHANGED <<setting, kept, configured>>

\* startForwarding begins, or leaves the ports on loopback for want of an
\* address.
Forwarding ==
  \/ Ports > 0 /\ Goto("port") /\ UNCHANGED configured
  \/ Goto("run") /\ configured' = TRUE

\* The setting after s.
After == [updates |-> "mail", mail |-> "routing", routing |-> "telemetry",
          telemetry |-> "all_mail"]

\* Apply goes on to the next setting, or is done.
NextSetting ==
  \/ /\ setting # "all_mail" /\ (setting = "telemetry" => named)
     /\ setting' = After[setting]
     /\ Goto("set")
     /\ UNCHANGED configured
  \/ /\ setting = "all_mail" \/ (setting = "telemetry" /\ ~named)
     /\ Forwarding
     /\ UNCHANGED setting

\* The bridge writes the setting, or loses it without a word.
Write == kept' \in {kept, kept \cup {setting}}

\* (mutant) trusts the call
SetOnly == Call("set") /\ Write /\ NextSetting

Set ==
  /\ Call("set")
  /\ Write
  /\ \/ setting \in ReadBack /\ Goto("verify") /\ UNCHANGED <<setting,
                                                              configured>>
     \/ setting \notin ReadBack /\ NextSetting

\* The setting is read back, and is what was written.
Verify ==
  /\ Call("verify")
  /\ setting \in kept
  /\ NextSetting
  /\ UNCHANGED kept

\* A call fails, maybe after it was carried out, or the setting was not kept.
CallFails ==
  /\ at \in {"version", "set", "verify"}
  /\ ConfigureFails
  /\ IF at = "set" THEN Write ELSE UNCHANGED kept
  /\ UNCHANGED socat

\* (mutant) goes one port too far
NextPortTooFar ==
  IF next <= Ports
  THEN Goto("port") /\ next' = next + 1 /\ UNCHANGED configured
  ELSE Goto("run") /\ configured' = TRUE /\ UNCHANGED next

\* The next port, or the end of configure.
NextPort ==
  IF next < Ports
  THEN Goto("port") /\ next' = next + 1 /\ UNCHANGED configured
  ELSE Goto("run") /\ configured' = TRUE /\ UNCHANGED next

\* A port that does not open, or SIGTERM, skips the port.
WaitForPort ==
  /\ at = "port"
  /\ \/ next \in listening /\ Goto("socat") /\ UNCHANGED <<next, configured>>
     \/ NextPort
  /\ UNCHANGED <<loaded, outcome, waiter, ctxDone, outside, done, socat,
                 starts, settings>>

\* A process is not started with a context that has ended.
StartSocat ==
  /\ at = "socat" /\ ~ctxDone
  /\ socat' = [socat EXCEPT ![next] = "running"]
  /\ NextPort
  /\ UNCHANGED <<loaded, outcome, waiter, ctxDone, outside, done, starts,
                 settings>>

\* (mutant) leaves the forwards that had been started
StartSocatFailsOnly ==
  at = "socat" /\ ConfigureFails /\ UNCHANGED <<socat, kept>>

StartSocatFails ==
  at = "socat" /\ ConfigureFails /\ StopForwards /\ UNCHANGED kept

-----------------------------------------------------------------------------
(* run, once everything is configured *)

\* (mutant) takes every exit for a clean one
BridgeExitedCleanly ==
  /\ at = "run"
  /\ done # "none"
  /\ Ends("ok")
  /\ StopForwards
  /\ UNCHANGED <<next, loaded, configured, waiter, ctxDone, outside, done,
                 starts, settings>>

\* The bridge exited; the forwards are stopped on the way out.
BridgeExited ==
  /\ at = "run"
  /\ done # "none"
  /\ Ends(done)
  /\ StopForwards
  /\ UNCHANGED <<next, loaded, configured, waiter, ctxDone, outside, done,
                 starts, settings>>

\* (mutant) asks the bridge to stop and returns
ShutDownAtOnce ==
  /\ at = "run"
  /\ ctxDone
  /\ StopForwards
  /\ Terminate
  /\ Ends("ok")
  /\ UNCHANGED <<next, loaded, configured, waiter, ctxDone, listening, file,
                 opened, done, starts, settings>>

ShutDown ==
  /\ at = "run"
  /\ ctxDone
  /\ StopForwards
  /\ Terminate
  /\ Goto("grace")
  /\ UNCHANGED <<next, loaded, outcome, configured, waiter, ctxDone, listening,
                 file, opened, done, starts, settings>>

\* (mutant) waits for the bridge however long it takes
GraceForEver ==
  /\ at = "grace"
  /\ done # "none"
  /\ Ends("ok")
  /\ UNCHANGED <<next, loaded, configured, waiter, ctxDone, outside, done,
                 socat, starts, settings>>

\* The bridge is gone, or its time is up and it is killed.
Grace ==
  /\ at = "grace"
  /\ Ends("ok")
  /\ \/ done # "none" /\ UNCHANGED bridge
     \/ bridge' = IF bridge \in Alive THEN "killed" ELSE bridge
  /\ UNCHANGED <<next, loaded, configured, waiter, ctxDone, listening, file,
                 opened, done, socat, starts, settings>>

\* run returns, the process exits and with it the container.
Exit ==
  /\ at = "ending"
  /\ Goto("exited")
  /\ bridge' = IF bridge \in Alive THEN "cut" ELSE bridge
  /\ listening' = {}
  /\ UNCHANGED <<next, loaded, outcome, configured, waiter, ctxDone, file,
                 opened, done, socat, starts, settings>>

-----------------------------------------------------------------------------
(* Around the process *)

Running == at # "exited"

\* The bridge writes its server config and takes calls.
BridgeServes ==
  /\ Running /\ bridge = "starting"
  /\ bridge' = "serving"
  /\ file' = "fresh"
  /\ UNCHANGED <<process, waiter, ctxDone, listening, opened, done, socat,
                 starts, settings>>

BridgeListens(p) ==
  /\ Running /\ bridge = "serving"
  /\ p \notin listening
  /\ listening' = listening \cup {p}
  /\ opened' = opened \cup {p}
  /\ UNCHANGED <<process, waiter, ctxDone, bridge, file, done, socat, starts,
                 settings>>

BridgeExits ==
  /\ Running /\ bridge \in Alive
  /\ bridge' = "gone"
  /\ listening' = {}
  /\ UNCHANGED <<process, waiter, ctxDone, file, opened, done, socat, starts,
                 settings>>

\* bridge.Wait returns.
Reaped ==
  /\ Running /\ bridge \in {"gone", "killed"}
  /\ done = "none"
  /\ done' \in {"ok", "error"}
  /\ UNCHANGED <<process, waiter, ctxDone, outside, socat, starts, settings>>

\* Nobody looks after a socat.
SocatDies(p) ==
  /\ Running /\ socat[p] = "running"
  /\ socat' = [socat EXCEPT ![p] = "dead"]
  /\ UNCHANGED <<process, waiter, ctxDone, outside, done, starts, settings>>

\* SIGTERM, to bridge-control alone or, through tini -g, to all of them.
Signal ==
  /\ Running /\ ~ctxDone
  /\ ctxDone' = TRUE
  /\ \/ UNCHANGED <<bridge, socat>>
     \/ Terminate /\ StopForwards
  /\ UNCHANGED <<process, waiter, listening, file, opened, done, starts,
                 settings>>

\* The container starts again, after an exit or a crash of the whole machine,
\* maybe with other settings to apply to the same vault.
Restart ==
  /\ starts < MaxStarts
  /\ starts' = starts + 1
  /\ file' = IF file = "none" THEN "none" ELSE "stale"
  /\ at' = "remove" /\ next' = 1
  /\ waiter' = "none" /\ loaded' = "none"
  /\ ctxDone' = FALSE /\ outcome' = "none"
  /\ bridge' = "none" /\ done' = "none" /\ listening' = {}
  /\ socat' = [p \in Port |-> "none"]
  /\ setting' = "updates" /\ kept' \in SUBSET Setting /\ named' \in BOOLEAN
  /\ opened' = {} /\ configured' = FALSE

-----------------------------------------------------------------------------

Main ==
  \/ RemoveServerConfig
  \/ StartBridge
  \/ TakeConfig
  \/ WaitFails
  \/ Version
  \/ Set
  \/ Verify
  \/ CallFails
  \/ WaitForPort
  \/ StartSocat
  \/ StartSocatFails
  \/ BridgeExited
  \/ ShutDown
  \/ Grace
  \/ Exit

Next ==
  \/ Main
  \/ WaiterPolls
  \/ BridgeServes
  \/ \E p \in Port : BridgeListens(p) \/ SocatDies(p)
  \/ BridgeExits
  \/ Reaped
  \/ Signal
  \/ Restart

Spec == Init /\ [][Next]_vars

\* run and its goroutines are scheduled and their timers fire; an exited child
\* is reaped.  The bridge owes nothing, not even an exit after SIGTERM.
Fairness == WF_vars(Main) /\ WF_vars(WaiterPolls) /\ WF_vars(Reaped)

LiveSpec == Spec /\ Fairness

-----------------------------------------------------------------------------
(* Safety *)

\* Past the wait for it the server config is the one the bridge of this start
\* has written, never one an earlier start left in the volume (main.go:65-69,
\* config.go:166-169).
ConfigIsOurs == loaded # "stale" /\ (loaded = "fresh" => file = "fresh")

\* The bridge always goes first: a socat runs only on a port that the bridge
\* of this start has opened, so the bridge never finds its port taken
\* (forward.go:10-13).
BridgeGoesFirst == \A p \in Port : socat[p] # "none" => p \in opened

\* No forward outlives the reason for it: none is left running once run waits
\* for the bridge to close its vault, has failed or has returned
\* (main.go:96, 108-111, 227-229).
ForwardsEndFirst ==
  at \in {"grace", "ending", "exited"} => \A p \in Port : socat[p] # "running"

\* Once configure has succeeded the container does not end over a bridge that
\* is closing its vault, unless its grace is over (main.go:33-36, 108-121).
GraceOnceConfigured == bridge = "cut" => ~configured

\* An exit without an error is a shutdown that was asked for, or a configured
\* bridge that exited without an error (main.go:98-124).
ExitIsHonest ==
  outcome = "ok" => configured /\ (ctxDone \/ done = "ok")

\* The ports are forwarded, and the container is configured, only over a vault
\* that has every setting as it was asked for, but for those of the mail server
\* (control.go:29-133).
SettingsHold ==
  at \in {"port", "socat"} \/ configured => Required \subseteq kept

-----------------------------------------------------------------------------
(* The container is the one that Container describes *)

stage ==
  CASE at \in Before \cup {"port", "socat"} -> "starting"
    [] at = "run"   -> "serving"
    [] at = "grace" -> "closing"
    [] OTHER        -> at

C == INSTANCE Container WITH
       bridge  <- IF bridge \in Alive THEN "alive" ELSE bridge,
       exit    <- done,
       asked   <- ctxDone,
       applied <- Required \subseteq kept,
       open    <- opened,
       forward <- socat

\* Whatever fails, wherever SIGTERM comes and however the bridge behaves, a start
\* is one of Container: bridge, settings, forwards, each port once, and the way
\* back (main.go:49-125, 151-234).
RunsInOrder == C!ContainerSpec

-----------------------------------------------------------------------------
(* The inductive invariant behind the safety properties *)

\* From its removal on the server config is missing or of this start, and so is
\* what the waiter reads and run loads.
ConfigInv ==
  /\ at = "start" \/ waiter # "none" => file # "stale"
  /\ at \in {"remove", "start"} => waiter = "none" /\ loaded = "none"
  /\ waiter # "stale"
  /\ waiter = "fresh" \/ loaded = "fresh" => file = "fresh"
  /\ loaded # "stale"

\* A socat follows the port it is for; there is none before startForwarding, and
\* none for a port it has not come to.
ForwardInv ==
  /\ listening \subseteq opened
  /\ at \in {"port", "socat"} => \A p \in Port : p >= next => socat[p] = "none"
  /\ at = "socat" => next \in opened
  /\ BridgeGoesFirst
  /\ at \in Before => \A p \in Port : socat[p] = "none"
  /\ ForwardsEndFirst

\* The settings that were read back before Apply has come to one.
Earlier ==
  [updates |-> {}, mail |-> {"updates"}, routing |-> {"updates"},
   telemetry |-> {"updates", "routing"},
   all_mail |-> {"updates", "routing", "telemetry"}]

SettingInv ==
  /\ at \in Before \ {"set", "verify"} => setting = "updates"
  /\ at \in {"set", "verify"} => Earlier[setting] \subseteq kept
  /\ setting = "all_mail" => named
  /\ at = "verify" => setting # "mail"
  /\ configured => at \in {"run", "grace", "ending", "exited"}
  /\ SettingsHold

\* Where run is says whether configure is over, and how run may end.
EndInv ==
  /\ at \in {"remove", "start"} => bridge = "none" /\ done = "none"
  /\ done # "none" => bridge \notin Alive
  /\ configured => at \in {"run", "grace", "ending", "exited"}
  /\ at \in {"run", "grace"} => configured
  /\ at = "grace" => ctxDone
  /\ at = "ending" /\ configured => bridge \notin Alive
  /\ bridge = "cut" => at = "exited"
  /\ GraceOnceConfigured
  /\ ExitIsHonest

-----------------------------------------------------------------------------
(* Liveness *)

\* SIGTERM, or a bridge that is gone, ends the container, however the bridge
\* behaves, at every point of the start-up as well as later (main.go:84-129,
\* 174-191).  It can then be started again, or was before.
ContainerEnds ==
  LET ending == ctxDone \/ bridge = "gone"
  IN  ending ~> at = "exited" \/ ~ending

-----------------------------------------------------------------------------
(* What comments say, and the code does not keep *)

\* main.go:60-61: "this process has to tear down the forwards and give the
\* bridge a chance to close its vault"; main.go:33-35: "a half-written vault is
\* the one thing in this container that cannot be recreated."
BridgeMayClose == bridge # "cut"
=============================================================================
