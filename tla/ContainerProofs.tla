-------------------------- MODULE ContainerProofs --------------------------
(***************************************************************************)
(* What the order Container describes comes to, for any ports.             *)
(***************************************************************************)
EXTENDS Container, TLAPS

\* In each stage: what the bridge may be, and what is known of the exit.
StageInv ==
  /\ stage \in {"starting", "serving", "closing", "ending", "exited"}
  /\ applied \in BOOLEAN
  /\ stage \in {"starting", "serving", "closing"} <=> outcome = "none"
  /\ stage = "closing" => asked
  /\ exit # "none" => bridge \in {"gone", "killed"}
  /\ exit \in {"none", "ok", "error"}
  /\ bridge = "cut" => stage = "exited"
  /\ stage = "ending" /\ bridge = "alive" => outcome = "error"
  /\ forward \in [Port -> {"none", "running", "dead"}]

Inv == StageInv /\ ForwardsWithin /\ EndsAsItServed

LEMMA InitInv == ContainerInit => Inv
  BY DEF ContainerInit, Inv, StageInv, ForwardsWithin, EndsAsItServed

\* The forwards that are stopped at once are the ones that ran.
LEMMA NoneRuns ==
  ASSUME StageInv, ForwardsStop
  PROVE  /\ forward' \in [Port -> {"none", "running", "dead"}]
         /\ \A p \in Port : /\ forward'[p] # "running"
                            /\ forward'[p] # "none" => forward[p] # "none"
  BY DEF StageInv, ForwardsStop

LEMMA StepInv == Inv /\ [ContainerNext]_containerVars => Inv'
<1> SUFFICES ASSUME Inv, [ContainerNext]_containerVars
             PROVE  Inv'
  OBVIOUS
<1> USE DEF Inv, StageInv, ForwardsWithin, EndsAsItServed
<1>1. CASE StartBridge
  BY <1>1 DEF StartBridge
<1>2. CASE Applies
  BY <1>2 DEF Applies
<1>3. CASE Configured
  BY <1>3 DEF Configured
<1>4. CASE Fails
  BY <1>4, NoneRuns DEF Fails
<1>5. ASSUME NEW p \in Port, Forwards(p)
      PROVE  Inv'
  BY <1>5 DEF Forwards
<1>6. ASSUME NEW p \in Port, BridgeOpens(p)
      PROVE  Inv'
  BY <1>6 DEF BridgeOpens
<1>7. ASSUME NEW p \in Port, ForwardDies(p)
      PROVE  Inv'
  BY <1>7 DEF ForwardDies
<1>8. CASE BridgeExited
  BY <1>8, NoneRuns DEF BridgeExited
<1>9. CASE ShutDown
  BY <1>9, NoneRuns DEF ShutDown
<1>10. CASE Grace
  BY <1>10 DEF Grace
<1>11. CASE Exit
  BY <1>11 DEF Exit
<1>12. CASE BridgeExits
  BY <1>12 DEF BridgeExits, Up
<1>13. CASE Reaped
  BY <1>13 DEF Reaped, Up
<1>14. CASE Signal
  BY <1>14, NoneRuns DEF Signal, Up
<1>15. CASE Restart
  BY <1>15 DEF Restart
<1>16. CASE UNCHANGED containerVars
  BY <1>16 DEF containerVars
<1> QED
  BY <1>1, <1>2, <1>3, <1>4, <1>5, <1>6, <1>7, <1>8, <1>9, <1>10, <1>11, <1>12,
     <1>13, <1>14, <1>15, <1>16 DEF ContainerNext

\* Whatever runs in the order of Container forwards nothing outside the time in
\* which bridge and settings are there, serves no settings but its own, and ends
\* well only if it ended as it was asked to (main.go:49-125, 227-234).
THEOREM OrderHolds == ContainerSpec => [](ForwardsWithin /\ EndsAsItServed)
<1>1. Inv => ForwardsWithin /\ EndsAsItServed
  BY DEF Inv
<1> QED
  BY <1>1, InitInv, StepInv, PTL DEF ContainerSpec
=============================================================================
