------------------------------ MODULE Container ------------------------------
(***************************************************************************)
(* What cmd/bridge-control/main.go promises whoever starts and stops the   *)
(* container: in which order the bridge, its settings and the forwards     *)
(* come and go, and what the exit says; without the server config, calls,  *)
(* waits and goroutines.  Lifecycle implements it, whatever fails and      *)
(* whenever SIGTERM arrives.                                               *)
(***************************************************************************)
CONSTANT Port   \* the ports that are forwarded

VARIABLES
  stage,     \* starting, serving, closing (SIGTERM), ending, or exited
  bridge,    \* alive, gone by itself or when asked, killed by run, or cut off
             \* by the end of the container
  exit,      \* how the bridge exited, once that is known
  asked,     \* SIGTERM has arrived
  applied,   \* the vault has the settings of this start
  open,      \* the ports that the bridge of this start has opened
  forward,   \* of each port
  outcome    \* what the container exits with

containerVars == <<stage, bridge, exit, asked, applied, open, forward, outcome>>

\* A container that is created; its vault may be that of an earlier one.
ContainerInit ==
  /\ stage = "starting" /\ bridge = "none" /\ exit = "none"
  /\ asked = FALSE /\ applied \in BOOLEAN
  /\ open = {} /\ forward = [p \in Port |-> "none"]
  /\ outcome = "none"

Up == stage # "exited"

\* None is left running.
ForwardsStop ==
  forward' = [p \in Port |-> IF forward[p] = "running" THEN "dead" ELSE forward[p]]

-----------------------------------------------------------------------------
(* The start *)

StartBridge ==
  /\ stage = "starting" /\ bridge = "none"
  /\ bridge' = "alive"
  /\ UNCHANGED <<stage, exit, asked, applied, open, forward, outcome>>

\* The settings are there, one way or the other, and stay.
Applies ==
  /\ stage = "starting" /\ bridge = "alive"
  /\ applied' = TRUE
  /\ UNCHANGED <<stage, bridge, exit, asked, open, forward, outcome>>

\* A port is forwarded once, after the bridge has taken it, over a bridge that is
\* set up; the last one may be the end of the start.
Forwards(p) ==
  /\ stage = "starting" /\ applied /\ ~asked
  /\ p \in open /\ forward[p] = "none"
  /\ forward' = [forward EXCEPT ![p] = "running"]
  /\ stage' \in {"starting", "serving"}
  /\ UNCHANGED <<bridge, exit, asked, applied, open, outcome>>

\* Every port was forwarded or skipped.
Configured ==
  /\ stage = "starting" /\ applied
  /\ stage' = "serving"
  /\ UNCHANGED <<bridge, exit, asked, applied, open, forward, outcome>>

\* The bridge gets no time to close.  The last write may have been carried out.
Fails ==
  /\ stage = "starting"
  /\ stage' = "ending" /\ outcome' = "error"
  /\ ForwardsStop
  /\ applied' \in BOOLEAN /\ (applied => applied')
  /\ UNCHANGED <<bridge, exit, asked, open>>

-----------------------------------------------------------------------------
(* The end *)

BridgeExited ==
  /\ stage = "serving" /\ exit # "none"
  /\ stage' = "ending" /\ outcome' = exit
  /\ ForwardsStop
  /\ UNCHANGED <<bridge, exit, asked, applied, open>>

ShutDown ==
  /\ stage = "serving" /\ asked
  /\ stage' = "closing"
  /\ ForwardsStop
  /\ UNCHANGED <<bridge, exit, asked, applied, open, outcome>>

Grace ==
  /\ stage = "closing"
  /\ stage' = "ending" /\ outcome' = "ok"
  /\ \/ exit # "none" /\ UNCHANGED bridge
     \/ bridge' = IF bridge = "alive" THEN "killed" ELSE bridge
  /\ UNCHANGED <<exit, asked, applied, open, forward>>

Exit ==
  /\ stage = "ending"
  /\ stage' = "exited"
  /\ bridge' = IF bridge = "alive" THEN "cut" ELSE bridge
  /\ UNCHANGED <<exit, asked, applied, open, forward, outcome>>

-----------------------------------------------------------------------------
(* What comes from outside *)

BridgeOpens(p) ==
  /\ Up /\ bridge = "alive"
  /\ open' = open \cup {p}
  /\ UNCHANGED <<stage, bridge, exit, asked, applied, forward, outcome>>

BridgeExits ==
  /\ Up /\ bridge = "alive"
  /\ bridge' = "gone"
  /\ UNCHANGED <<stage, exit, asked, applied, open, forward, outcome>>

Reaped ==
  /\ Up /\ bridge \in {"gone", "killed"} /\ exit = "none"
  /\ exit' \in {"ok", "error"}
  /\ UNCHANGED <<stage, bridge, asked, applied, open, forward, outcome>>

ForwardDies(p) ==
  /\ Up /\ forward[p] = "running"
  /\ forward' = [forward EXCEPT ![p] = "dead"]
  /\ UNCHANGED <<stage, bridge, exit, asked, applied, open, outcome>>

Signal ==
  /\ Up /\ ~asked
  /\ asked' = TRUE
  /\ UNCHANGED forward \/ ForwardsStop
  /\ UNCHANGED <<stage, bridge, exit, applied, open, outcome>>

\* Another start, after the exit or a crash.
Restart ==
  /\ stage' = "starting" /\ bridge' = "none" /\ exit' = "none"
  /\ asked' = FALSE /\ applied' \in BOOLEAN
  /\ open' = {} /\ forward' = [p \in Port |-> "none"]
  /\ outcome' = "none"

-----------------------------------------------------------------------------

ContainerNext ==
  \/ StartBridge \/ Applies \/ Configured \/ Fails
  \/ \E p \in Port : Forwards(p) \/ BridgeOpens(p) \/ ForwardDies(p)
  \/ BridgeExited \/ ShutDown \/ Grace \/ Exit
  \/ BridgeExits \/ Reaped \/ Signal
  \/ Restart

ContainerSpec == ContainerInit /\ [][ContainerNext]_containerVars

-----------------------------------------------------------------------------
(* What follows from it *)

\* A forward comes after the bridge's own hold on the port and after the
\* settings, and goes before the bridge does (forward.go:10-13, main.go:96,
\* 108-111, 227-229).
ForwardsWithin ==
  /\ \A p \in Port : forward[p] # "none" => p \in open /\ applied
  /\ stage \in {"closing", "ending", "exited"}
       => \A p \in Port : forward[p] # "running"

\* The container serves over this start's settings only, ends well only when it
\* was asked to or its bridge ended well, and cuts off no bridge but under an
\* error (main.go:98-124).
EndsAsItServed ==
  /\ stage \in {"serving", "closing"} => applied
  /\ outcome = "ok" => applied /\ (asked \/ exit = "ok")
  /\ bridge = "cut" => outcome = "error"
=============================================================================
