--------------------------- MODULE LifecycleProofs ---------------------------
(***************************************************************************)
(* What a start of the container keeps for any number of forwarded ports   *)
(* and of starts.                                                          *)
(***************************************************************************)
EXTENDS Lifecycle, TLAPS

\* Every initial state is well typed.
LEMMA InitTypes == Init => TypeOK
<1> SUFFICES ASSUME Init PROVE TypeOK
  OBVIOUS
<1>1. socat \in [Port -> {"none", "running", "dead"}]
  BY DEF Init
<1>2. starts \in Nat
  BY DEF Init
<1>3. at \in Place /\ next = 1 /\ next \in Nat /\ at \notin {"port", "socat"}
  BY DEF Init, Place, Before
<1>4. bridge \in BridgeState
  BY DEF Init, BridgeState
<1>5. setting \in Setting /\ kept \subseteq Setting /\ named \in BOOLEAN
  BY DEF Init, Setting
<1> QED
  BY <1>1, <1>2, <1>3, <1>4, <1>5 DEF Init, TypeOK

\* The next port is a port, as long as there is one.
LEMMA NextPortTypes ==
  ASSUME TypeOK, at \in {"port", "socat"}, NextPort
  PROVE  /\ at' \in {"port", "run"}
         /\ next' \in Nat
         /\ at' = "port" => next' \in Port
         /\ configured' \in BOOLEAN
<1>1. next \in Nat /\ next \in Port /\ Ports \in Nat
  BY LifecycleAssumption DEF TypeOK
<1>2. CASE next < Ports
  <2>1. next + 1 \in Nat /\ next + 1 \in Port
    BY <1>1, <1>2 DEF Port
  <2> QED
    BY <2>1, <1>2 DEF TypeOK, NextPort, Goto
<1>3. CASE ~(next < Ports)
  BY <1>1, <1>3 DEF NextPort, Goto
<1> QED
  BY <1>2, <1>3

\* The next setting is a setting, and after the last come the ports.
LEMMA NextSettingTypes ==
  ASSUME TypeOK, at \in {"set", "verify"}, NextSetting
  PROVE  /\ at' \in {"set", "port", "run"}
         /\ at' = "port" => 1 \in Port
         /\ setting' \in Setting
         /\ configured' \in BOOLEAN
<1>1. CASE setting # "all_mail" /\ setting' = After[setting] /\ Goto("set")
             /\ UNCHANGED configured
  BY <1>1 DEF TypeOK, Setting, After, Goto
<1>2. CASE Forwarding /\ UNCHANGED setting
  <2>1. Ports > 0 => 1 \in Port
    BY LifecycleAssumption DEF Port
  <2> QED
    BY <1>2, <2>1 DEF TypeOK, Forwarding, Goto
<1> QED
  BY <1>1, <1>2 DEF NextSetting

\* Every step preserves the type invariant.
LEMMA StepTypes == TypeOK /\ [Next]_vars => TypeOK'
<1> SUFFICES ASSUME TypeOK, [Next]_vars PROVE TypeOK'
  OBVIOUS
<1> USE LifecycleAssumption
        DEF TypeOK, Place, BridgeState, Alive, Before, process, outside, settings, Goto,
            Ends
<1>1. CASE RemoveServerConfig
  BY <1>1 DEF RemoveServerConfig
<1>2. CASE StartBridge
  BY <1>2 DEF StartBridge
<1>3. CASE TakeConfig
  BY <1>3 DEF TakeConfig
<1>4. CASE WaitFails
  BY <1>4 DEF WaitFails, ConfigureFails, Terminate
<1>5. CASE Version
  BY <1>5 DEF Version, Call
<1>6. CASE Set
  <2>1. kept' \subseteq Setting
    BY <1>6 DEF Set, Write
  <2>2. at = "set" /\ UNCHANGED <<next, loaded, outcome, waiter, ctxDone, outside,
                                  done, socat, starts, named>>
    BY <1>6 DEF Set, Call
  <2>3. CASE NextSetting
    BY <2>1, <2>2, <2>3, NextSettingTypes
  <2>4. CASE Goto("verify") /\ UNCHANGED <<setting, configured>>
    BY <2>1, <2>2, <2>4
  <2> QED
    BY <1>6, <2>3, <2>4 DEF Set
<1>7. CASE Verify
  <2>1. at = "verify" /\ UNCHANGED <<next, loaded, outcome, waiter, ctxDone,
                                     outside, done, socat, starts, named, kept>>
    BY <1>7 DEF Verify, Call
  <2> QED
    BY <1>7, <2>1, NextSettingTypes DEF Verify
<1>8. CASE CallFails
  BY <1>8 DEF CallFails, ConfigureFails, Terminate, Write
<1>9. CASE WaitForPort
  <2>1. CASE NextPort
    BY <1>9, <2>1, NextPortTypes DEF WaitForPort
  <2>2. CASE Goto("socat") /\ UNCHANGED <<next, configured>>
    BY <1>9, <2>2 DEF WaitForPort
  <2> QED
    BY <1>9, <2>1, <2>2 DEF WaitForPort
<1>10. CASE StartSocat
  <2>1. socat' \in [Port -> {"none", "running", "dead"}]
    BY <1>10 DEF StartSocat
  <2>2. NextPort /\ at = "socat"
    BY <1>10 DEF StartSocat
  <2> QED
    BY <1>10, <2>1, <2>2, NextPortTypes DEF StartSocat
<1>11. CASE StartSocatFails
  BY <1>11 DEF StartSocatFails, ConfigureFails, Terminate, StopForwards
<1>12. CASE BridgeExited
  BY <1>12 DEF BridgeExited, StopForwards
<1>13. CASE ShutDown
  BY <1>13 DEF ShutDown, StopForwards, Terminate
<1>14. CASE Grace
  BY <1>14 DEF Grace
<1>15. CASE Exit
  BY <1>15 DEF Exit
<1>16. CASE WaiterPolls
  BY <1>16 DEF WaiterPolls
<1>17. CASE BridgeServes
  BY <1>17 DEF BridgeServes
<1>18. ASSUME NEW p \in Port, BridgeListens(p)
       PROVE  TypeOK'
  BY <1>18 DEF BridgeListens
<1>19. ASSUME NEW p \in Port, SocatDies(p)
       PROVE  TypeOK'
  BY <1>19 DEF SocatDies
<1>20. CASE BridgeExits
  BY <1>20 DEF BridgeExits
<1>21. CASE Reaped
  BY <1>21 DEF Reaped
<1>22. CASE Signal
  BY <1>22 DEF Signal, Terminate, StopForwards
<1>23. CASE Restart
  <2>1. socat' \in [Port -> {"none", "running", "dead"}]
    BY <1>23 DEF Restart
  <2>2. starts' \in Nat /\ next' = 1 /\ next' \in Nat
    BY <1>23 DEF Restart
  <2>3. setting' \in Setting /\ kept' \subseteq Setting /\ named' \in BOOLEAN
    BY <1>23 DEF Restart, Setting
  <2> QED
    BY <1>23, <2>1, <2>2, <2>3 DEF Restart
<1>24. CASE UNCHANGED vars
  BY <1>24 DEF vars
<1> QED
  BY <1>1, <1>2, <1>3, <1>4, <1>5, <1>6, <1>7, <1>8, <1>9, <1>10, <1>11,
     <1>12, <1>13, <1>14, <1>15, <1>16, <1>17, <1>18, <1>19, <1>20, <1>21, <1>22,
     <1>23, <1>24
  DEF Next, Main

\* Every variable keeps its type, whatever fails and whenever SIGTERM comes.
THEOREM TypeInvariant == Spec => []TypeOK
  BY InitTypes, StepTypes, PTL DEF Spec

-----------------------------------------------------------------------------
(* The server config *)

\* Every step preserves what is known of the server config.
LEMMA StepConfig == TypeOK /\ ConfigInv /\ [Next]_vars => ConfigInv'
<1> SUFFICES ASSUME TypeOK, ConfigInv, [Next]_vars PROVE ConfigInv'
  OBVIOUS
<1> USE DEF ConfigInv, process, outside, settings, Goto, Ends
<1>1. CASE RemoveServerConfig
  BY <1>1 DEF RemoveServerConfig
<1>2. CASE StartBridge
  BY <1>2 DEF StartBridge
<1>3. CASE TakeConfig
  BY <1>3 DEF TakeConfig
<1>4. CASE WaitFails
  BY <1>4 DEF WaitFails, ConfigureFails, Terminate
<1>5. CASE Version
  BY <1>5 DEF Version, Call
<1>6. CASE Set
  BY <1>6 DEF Set, Call, Write, NextSetting, Forwarding
<1>7. CASE Verify
  BY <1>7 DEF Verify, Call, NextSetting, Forwarding
<1>8. CASE CallFails
  BY <1>8 DEF CallFails, ConfigureFails, Terminate, Write
<1>9. CASE WaitForPort
  BY <1>9 DEF WaitForPort, NextPort
<1>10. CASE StartSocat
  BY <1>10 DEF StartSocat, NextPort
<1>11. CASE StartSocatFails
  BY <1>11 DEF StartSocatFails, ConfigureFails, Terminate, StopForwards
<1>12. CASE BridgeExited
  BY <1>12 DEF BridgeExited, StopForwards
<1>13. CASE ShutDown
  BY <1>13 DEF ShutDown, StopForwards, Terminate
<1>14. CASE Grace
  BY <1>14 DEF Grace
<1>15. CASE Exit
  BY <1>15 DEF Exit
<1>16. CASE WaiterPolls
  BY <1>16 DEF WaiterPolls
<1>17. CASE BridgeServes
  BY <1>17 DEF BridgeServes
<1>18. ASSUME NEW p \in Port, BridgeListens(p)
       PROVE  ConfigInv'
  BY <1>18 DEF BridgeListens
<1>19. ASSUME NEW p \in Port, SocatDies(p)
       PROVE  ConfigInv'
  BY <1>19 DEF SocatDies
<1>20. CASE BridgeExits
  BY <1>20 DEF BridgeExits
<1>21. CASE Reaped
  BY <1>21 DEF Reaped
<1>22. CASE Signal
  BY <1>22 DEF Signal, Terminate, StopForwards
<1>23. CASE Restart
  BY <1>23 DEF Restart
<1>24. CASE UNCHANGED vars
  BY <1>24 DEF vars
<1> QED
  BY <1>1, <1>2, <1>3, <1>4, <1>5, <1>6, <1>7, <1>8, <1>9, <1>10, <1>11,
     <1>12, <1>13, <1>14, <1>15, <1>16, <1>17, <1>18, <1>19, <1>20, <1>21, <1>22,
     <1>23, <1>24
  DEF Next, Main

-----------------------------------------------------------------------------
(* The forwards *)

\* Every step preserves what is known of the forwards.
LEMMA StepForwards == TypeOK /\ ForwardInv /\ [Next]_vars => ForwardInv'
<1> SUFFICES ASSUME TypeOK, ForwardInv, [Next]_vars PROVE ForwardInv'
  OBVIOUS
<1> USE DEF ForwardInv, BridgeGoesFirst, ForwardsEndFirst, Before, process, outside,
        settings, Goto, Ends, TypeOK
<1>1. CASE RemoveServerConfig
  BY <1>1 DEF RemoveServerConfig
<1>2. CASE StartBridge
  BY <1>2 DEF StartBridge
<1>3. CASE TakeConfig
  BY <1>3 DEF TakeConfig
<1>4. CASE WaitFails
  BY <1>4 DEF WaitFails, ConfigureFails, Terminate
<1>5. CASE Version
  BY <1>5 DEF Version, Call
<1>6. CASE Set
  BY <1>6 DEF Set, Call, Write, NextSetting, Forwarding
<1>7. CASE Verify
  BY <1>7 DEF Verify, Call, NextSetting, Forwarding
<1>8. CASE CallFails
  BY <1>8 DEF CallFails, ConfigureFails, Terminate, Write
<1>0. next \in Nat /\ \A p \in Port : p \in Nat
  BY LifecycleAssumption DEF Port
<1>9. CASE WaitForPort
  <2>1. \A p \in Port : p >= next' => socat'[p] = "none"
    BY <1>0, <1>9 DEF WaitForPort, NextPort
  <2> QED
    BY <1>9, <2>1 DEF WaitForPort, NextPort
<1>10. CASE StartSocat
  <2>1. at' = "port" => \A p \in Port : p >= next' => socat'[p] = "none"
    BY <1>0, <1>10 DEF StartSocat, NextPort
  <2> QED
    BY <1>10, <2>1 DEF StartSocat, NextPort
<1>11. CASE StartSocatFails
  BY <1>11 DEF StartSocatFails, ConfigureFails, Terminate, StopForwards
<1>12. CASE BridgeExited
  BY <1>12 DEF BridgeExited, StopForwards
<1>13. CASE ShutDown
  BY <1>13 DEF ShutDown, StopForwards, Terminate
<1>14. CASE Grace
  BY <1>14 DEF Grace
<1>15. CASE Exit
  BY <1>15 DEF Exit
<1>16. CASE WaiterPolls
  BY <1>16 DEF WaiterPolls
<1>17. CASE BridgeServes
  BY <1>17 DEF BridgeServes
<1>18. ASSUME NEW p \in Port, BridgeListens(p)
       PROVE  ForwardInv'
  BY <1>18 DEF BridgeListens
<1>19. ASSUME NEW p \in Port, SocatDies(p)
       PROVE  ForwardInv'
  BY <1>19 DEF SocatDies
<1>20. CASE BridgeExits
  BY <1>20 DEF BridgeExits
<1>21. CASE Reaped
  BY <1>21 DEF Reaped
<1>22. CASE Signal
  BY <1>22 DEF Signal, Terminate, StopForwards
<1>23. CASE Restart
  BY <1>23 DEF Restart
<1>24. CASE UNCHANGED vars
  BY <1>24 DEF vars
<1> QED
  BY <1>1, <1>2, <1>3, <1>4, <1>5, <1>6, <1>7, <1>8, <1>9, <1>10, <1>11,
     <1>12, <1>13, <1>14, <1>15, <1>16, <1>17, <1>18, <1>19, <1>20, <1>21, <1>22,
     <1>23, <1>24
  DEF Next, Main

-----------------------------------------------------------------------------
(* The settings *)

\* Going on to the next setting keeps what is known of those before it.
LEMMA NextSettingKeeps ==
  ASSUME TypeOK, SettingInv, at \in {"set", "verify"}, NextSetting,
         kept \subseteq kept', UNCHANGED named, setting = "mail" \/ setting \in kept'
  PROVE  SettingInv'
<1>1. Earlier[setting] \subseteq kept'
  BY DEF SettingInv
<1>2. CASE setting # "all_mail" /\ (setting = "telemetry" => named)
           /\ setting' = After[setting] /\ Goto("set") /\ UNCHANGED configured
  <2>1. setting \in {"updates", "mail", "routing", "telemetry"}
    BY <1>2 DEF TypeOK, Setting
  <2>2. Earlier[setting'] \subseteq kept' /\ setting' # "updates"
    BY <1>1, <1>2, <2>1 DEF Earlier, After
  <2>3. setting' = "all_mail" => named
    BY <1>2, <2>1 DEF After
  <2>4. ~configured
    BY DEF SettingInv
  <2> QED
    BY <1>2, <2>2, <2>3, <2>4 DEF SettingInv, SettingsHold, Goto
<1>3. CASE setting \in {"telemetry", "all_mail"} /\ (setting = "telemetry" => ~named)
           /\ Forwarding /\ UNCHANGED setting
  <2>1. Required' \subseteq kept'
    <3>1. CASE setting = "telemetry"
      BY <1>1, <1>3, <3>1 DEF Earlier, Required, ReadBack, Setting
    <3>2. CASE setting = "all_mail"
      BY <1>1, <3>2 DEF Earlier, Required, ReadBack, Setting
    <3> QED
      BY <1>3, <3>1, <3>2
  <2>2. at' \in {"port", "run"} /\ (configured' => at' = "run")
    BY <1>3 DEF Forwarding, Goto, SettingInv
  <2>3. setting = "all_mail" => named
    BY DEF SettingInv
  <2> QED
    BY <1>3, <2>1, <2>2, <2>3 DEF SettingInv, SettingsHold, Before
<1> QED
  BY <1>2, <1>3 DEF NextSetting, TypeOK, Setting

\* Every step preserves what is known of the settings.
LEMMA StepSettings == TypeOK /\ SettingInv /\ [Next]_vars => SettingInv'
<1> SUFFICES ASSUME TypeOK, SettingInv, [Next]_vars PROVE SettingInv'
  OBVIOUS
<1> USE DEF SettingInv, SettingsHold, Required, ReadBack, Before, process, outside,
        settings, Goto, Ends
<1>1. CASE RemoveServerConfig
  BY <1>1 DEF RemoveServerConfig
<1>2. CASE StartBridge
  BY <1>2 DEF StartBridge
<1>3. CASE TakeConfig
  BY <1>3 DEF TakeConfig
<1>4. CASE WaitFails
  BY <1>4 DEF WaitFails, ConfigureFails, Terminate
<1>5. CASE Version
  <2>1. setting = "updates" /\ ~configured
    BY <1>5 DEF Version, Call
  <2> QED
    BY <1>5, <2>1 DEF Version, Call, Earlier
<1>6. CASE Set
  <2>1. at = "set" /\ kept \subseteq kept' /\ UNCHANGED named /\ ~configured
    BY <1>6 DEF Set, Call, Write
  <2>2. CASE NextSetting /\ setting \notin ReadBack
    <3>1. setting = "mail"
      BY <2>2 DEF TypeOK, Setting
    <3> QED
      BY <2>1, <2>2, <3>1, NextSettingKeeps
  <2>3. CASE setting \in ReadBack /\ Goto("verify") /\ UNCHANGED <<setting, configured>>
    BY <2>1, <2>3
  <2> QED
    BY <1>6, <2>2, <2>3 DEF Set
<1>7. CASE Verify
  <2>1. at = "verify" /\ UNCHANGED <<named, kept>> /\ setting \in kept /\ NextSetting
    BY <1>7 DEF Verify, Call
  <2> QED
    BY <2>1, NextSettingKeeps
<1>8. CASE CallFails
  BY <1>8 DEF CallFails, ConfigureFails, Terminate, Write
<1>9. CASE WaitForPort
  BY <1>9 DEF WaitForPort, NextPort
<1>10. CASE StartSocat
  BY <1>10 DEF StartSocat, NextPort
<1>11. CASE StartSocatFails
  BY <1>11 DEF StartSocatFails, ConfigureFails, Terminate, StopForwards
<1>12. CASE BridgeExited
  BY <1>12 DEF BridgeExited, StopForwards
<1>13. CASE ShutDown
  BY <1>13 DEF ShutDown, StopForwards, Terminate
<1>14. CASE Grace
  BY <1>14 DEF Grace
<1>15. CASE Exit
  BY <1>15 DEF Exit
<1>16. CASE WaiterPolls
  BY <1>16 DEF WaiterPolls
<1>17. CASE BridgeServes
  BY <1>17 DEF BridgeServes
<1>18. ASSUME NEW p \in Port, BridgeListens(p)
       PROVE  SettingInv'
  BY <1>18 DEF BridgeListens
<1>19. ASSUME NEW p \in Port, SocatDies(p)
       PROVE  SettingInv'
  BY <1>19 DEF SocatDies
<1>20. CASE BridgeExits
  BY <1>20 DEF BridgeExits
<1>21. CASE Reaped
  BY <1>21 DEF Reaped
<1>22. CASE Signal
  BY <1>22 DEF Signal, Terminate, StopForwards
<1>23. CASE Restart
  BY <1>23 DEF Restart
<1>24. CASE UNCHANGED vars
  BY <1>24 DEF vars
<1> QED
  BY <1>1, <1>2, <1>3, <1>4, <1>5, <1>6, <1>7, <1>8, <1>9, <1>10, <1>11,
     <1>12, <1>13, <1>14, <1>15, <1>16, <1>17, <1>18, <1>19, <1>20, <1>21, <1>22,
     <1>23, <1>24
  DEF Next, Main

-----------------------------------------------------------------------------
(* The end *)

\* Every step preserves what is known of the way run ends.
LEMMA StepEnd == TypeOK /\ EndInv /\ [Next]_vars => EndInv'
<1> SUFFICES ASSUME TypeOK, EndInv, [Next]_vars PROVE EndInv'
  OBVIOUS
<1> USE DEF EndInv, GraceOnceConfigured, ExitIsHonest, Alive, process, outside,
        settings, Goto, Ends
<1>1. CASE RemoveServerConfig
  BY <1>1 DEF RemoveServerConfig
<1>2. CASE StartBridge
  BY <1>2 DEF StartBridge
<1>3. CASE TakeConfig
  BY <1>3 DEF TakeConfig
<1>4. CASE WaitFails
  BY <1>4 DEF WaitFails, ConfigureFails, Terminate
<1>5. CASE Version
  BY <1>5 DEF Version, Call
<1>6. CASE Set
  BY <1>6 DEF Set, Call, Write, NextSetting, Forwarding
<1>7. CASE Verify
  BY <1>7 DEF Verify, Call, NextSetting, Forwarding
<1>8. CASE CallFails
  BY <1>8 DEF CallFails, ConfigureFails, Terminate, Write
<1>9. CASE WaitForPort
  BY <1>9 DEF WaitForPort, NextPort
<1>10. CASE StartSocat
  BY <1>10 DEF StartSocat, NextPort
<1>11. CASE StartSocatFails
  BY <1>11 DEF StartSocatFails, ConfigureFails, Terminate, StopForwards
<1>12. CASE BridgeExited
  BY <1>12 DEF BridgeExited, StopForwards
<1>13. CASE ShutDown
  BY <1>13 DEF ShutDown, StopForwards, Terminate
<1>14. CASE Grace
  BY <1>14 DEF Grace
<1>15. CASE Exit
  BY <1>15 DEF Exit
<1>16. CASE WaiterPolls
  BY <1>16 DEF WaiterPolls
<1>17. CASE BridgeServes
  BY <1>17 DEF BridgeServes
<1>18. ASSUME NEW p \in Port, BridgeListens(p)
       PROVE  EndInv'
  BY <1>18 DEF BridgeListens
<1>19. ASSUME NEW p \in Port, SocatDies(p)
       PROVE  EndInv'
  BY <1>19 DEF SocatDies
<1>20. CASE BridgeExits
  BY <1>20 DEF BridgeExits
<1>21. CASE Reaped
  BY <1>21 DEF Reaped
<1>22. CASE Signal
  BY <1>22 DEF Signal, Terminate, StopForwards
<1>23. CASE Restart
  BY <1>23 DEF Restart
<1>24. CASE UNCHANGED vars
  BY <1>24 DEF vars
<1> QED
  BY <1>1, <1>2, <1>3, <1>4, <1>5, <1>6, <1>7, <1>8, <1>9, <1>10, <1>11,
     <1>12, <1>13, <1>14, <1>15, <1>16, <1>17, <1>18, <1>19, <1>20, <1>21, <1>22,
     <1>23, <1>24
  DEF Next, Main

-----------------------------------------------------------------------------
(* The theorems *)

\* Past the wait for it, the server config is that of the running bridge.
THEOREM OwnConfig == Spec => []ConfigIsOurs
<1>1. Init => TypeOK /\ ConfigInv
  BY InitTypes DEF Init, ConfigInv
<1>2. (TypeOK /\ ConfigInv) /\ [Next]_vars => (TypeOK /\ ConfigInv)'
  BY StepTypes, StepConfig
<1>3. ConfigInv => ConfigIsOurs
  BY DEF ConfigInv, ConfigIsOurs
<1> QED
  BY <1>1, <1>2, <1>3, PTL DEF Spec

\* A forward follows the bridge's port, and is gone when run ends or waits for
\* the bridge to stop.
THEOREM ForwardsFollow == Spec => [](BridgeGoesFirst /\ ForwardsEndFirst)
<1>1. Init => TypeOK /\ ForwardInv
  BY InitTypes DEF Init, ForwardInv, BridgeGoesFirst, ForwardsEndFirst
<1>2. (TypeOK /\ ForwardInv) /\ [Next]_vars => (TypeOK /\ ForwardInv)'
  BY StepTypes, StepForwards
<1>3. ForwardInv => BridgeGoesFirst /\ ForwardsEndFirst
  BY DEF ForwardInv
<1> QED
  BY <1>1, <1>2, <1>3, PTL DEF Spec

\* The ports are forwarded, and the container is configured, only over settings
\* that were read back, in any number of starts over one vault
\* (control.go:29-133).
THEOREM SettingsFirst == Spec => []SettingsHold
<1>1. Init => TypeOK /\ SettingInv
  BY InitTypes DEF Init, SettingInv, SettingsHold, Before
<1>2. (TypeOK /\ SettingInv) /\ [Next]_vars => (TypeOK /\ SettingInv)'
  BY StepTypes, StepSettings
<1>3. SettingInv => SettingsHold
  BY DEF SettingInv
<1> QED
  BY <1>1, <1>2, <1>3, PTL DEF Spec

\* A container that was configured ends over no bridge that is closing its
\* vault, and reports no success it did not have.
THEOREM OrderlyEnd == Spec => [](GraceOnceConfigured /\ ExitIsHonest)
<1>1. Init => TypeOK /\ EndInv
  BY InitTypes DEF Init, EndInv, GraceOnceConfigured, ExitIsHonest, Alive
<1>2. (TypeOK /\ EndInv) /\ [Next]_vars => (TypeOK /\ EndInv)'
  BY StepTypes, StepEnd
<1>3. EndInv => GraceOnceConfigured /\ ExitIsHonest
  BY DEF EndInv
<1> QED
  BY <1>1, <1>2, <1>3, PTL DEF Spec

\* Once configured, the container does not end over a bridge that was given no
\* time to close its vault (main.go:110-126).
THEOREM GraceIsGiven == Spec => []GraceOnceConfigured
  BY OrderlyEnd, PTL

-----------------------------------------------------------------------------
(* Container *)

\* What is the same whatever the place of run.
LEMMA PlaceStages ==
  ASSUME TypeOK
  PROVE  /\ at \in Before \cup {"port", "socat"} <=> stage = "starting"
         /\ at = "run" <=> stage = "serving"
         /\ at = "grace" <=> stage = "closing"
         /\ at = "ending" <=> stage = "ending"
         /\ at = "exited" <=> stage = "exited"
  BY DEF stage, Before, TypeOK, Place

\* The place decides on the stage.
LEMMA NextStage ==
  /\ at' \in Before \cup {"port", "socat"} => stage' = "starting"
  /\ at' = "run" => stage' = "serving"
  /\ at' = "grace" => stage' = "closing"
  /\ at' = "ending" => stage' = "ending"
  /\ at' = "exited" => stage' = "exited"
  BY DEF stage, Before

\* A step that changes nothing but the place of run within one stage.
LEMMA StaysInStage ==
  ASSUME UNCHANGED <<bridge, done, ctxDone, opened, socat, outcome, kept, named>>,
         stage' = stage
  PROVE  UNCHANGED C!containerVars
  BY DEF C!containerVars, Required, ReadBack

\* A configured container: the settings are there.
LEMMA IsConfigured ==
  ASSUME UNCHANGED <<bridge, done, ctxDone, opened, socat, outcome, kept, named>>,
         stage = "starting", stage' = "serving", Required \subseteq kept
  PROVE  C!Configured
  BY DEF C!Configured, Required, ReadBack

\* What Container makes of the bridge.
Bridge == IF bridge \in Alive THEN "alive" ELSE bridge

\* An error ends the start, with no forward left.
LEMMA StartFails ==
  ASSUME TypeOK, ForwardInv, stage = "starting", Ends("error"),
         UNCHANGED <<Bridge, ctxDone, opened, done, named>>,
         StopForwards \/ (at \in Before /\ UNCHANGED socat),
         kept \subseteq kept'
  PROVE  C!Fails
<1>1. stage' = "ending" /\ outcome' = "error"
  BY NextStage DEF Ends, Goto
<1>2. C!ForwardsStop
  BY DEF StopForwards, ForwardInv, TypeOK, C!ForwardsStop
<1>3. Required \subseteq kept => (Required \subseteq kept)'
  BY DEF Required, ReadBack
<1> QED
  BY <1>1, <1>2, <1>3 DEF Bridge, C!Fails

\* An error of configure is one.
LEMMA ConfigureEnds ==
  ASSUME ConfigureFails
  PROVE  Ends("error") /\ UNCHANGED <<Bridge, ctxDone, opened, done, named>>
  BY DEF ConfigureFails, Terminate, Bridge, Alive

\* Every step is one of Container's or none.
LEMMA StepContainer ==
  ASSUME TypeOK, ForwardInv, SettingInv, EndInv, [Next]_vars
  PROVE  C!ContainerNext \/ UNCHANGED C!containerVars
<1> USE DEF C!ContainerNext, Goto
<1>0. bridge # "alive"
  BY DEF TypeOK, BridgeState, Alive
<1>1. CASE RemoveServerConfig
  <2>1. CASE at' = "start"
    BY <1>1, <2>1, PlaceStages, NextStage, StaysInStage DEF RemoveServerConfig, Before, Ends,
       settings
  <2>2. CASE Ends("error")
    BY <1>1, <2>2, PlaceStages, StartFails DEF RemoveServerConfig, Before, settings, Bridge
  <2> QED
    BY <1>1, <2>1, <2>2 DEF RemoveServerConfig
<1>2. CASE StartBridge
  <2>1. CASE bridge' = "starting" /\ at' = "wait" /\ UNCHANGED outcome
    <3>1. C!StartBridge
      BY <1>2, <2>1, PlaceStages, NextStage DEF StartBridge, Before, EndInv, settings, Alive,
         Required, ReadBack, C!StartBridge
    <3> QED
      BY <3>1
  <2>2. CASE Ends("error") /\ UNCHANGED bridge
    BY <1>2, <2>2, PlaceStages, StartFails DEF StartBridge, Before, settings, Bridge
  <2> QED
    BY <1>2, <2>1, <2>2 DEF StartBridge
<1>3. CASE TakeConfig \/ Version
  BY <1>3, PlaceStages, NextStage, StaysInStage DEF TakeConfig, Version, Call, Before,
     outside, settings
<1>4. CASE WaitFails \/ CallFails
  BY <1>4, PlaceStages, ConfigureEnds, StartFails DEF WaitFails, CallFails, Before, Write
<1>5. CASE StartSocatFails
  BY <1>5, PlaceStages, ConfigureEnds, StartFails DEF StartSocatFails
<1>6. CASE Set
  <2>1. /\ stage = "starting" /\ bridge \in Alive /\ kept \subseteq kept'
        /\ UNCHANGED <<bridge, done, ctxDone, opened, socat, outcome, named>>
    BY <1>6, PlaceStages DEF Set, Call, Before, Alive, outside, Write
  <2>2. stage' = "starting"
    <3>1. at' \in {"set", "verify"}
      BY <1>6 DEF Set, NextSetting, ReadBack, Setting
    <3> QED
      BY <3>1, NextStage DEF Before
  <2>3. CASE UNCHANGED (Required \subseteq kept)
    BY <2>1, <2>2, <2>3 DEF C!containerVars
  <2>4. CASE ~UNCHANGED (Required \subseteq kept)
    <3>1. (Required \subseteq kept)'
      BY <2>1, <2>4 DEF Required, ReadBack
    <3>2. C!Applies
      BY <2>1, <2>2, <3>1 DEF C!Applies
    <3> QED
      BY <3>2
  <2> QED
    BY <2>3, <2>4
<1>7. CASE Verify
  <2>1. /\ stage = "starting"
        /\ UNCHANGED <<bridge, done, ctxDone, opened, socat, outcome, kept, named>>
    BY <1>7, PlaceStages DEF Verify, Call, Before, outside
  <2>2. at' \in {"set", "port", "run"}
    BY <1>7, NextSettingTypes DEF Verify, Call
  <2>3. CASE at' # "run"
    BY <2>1, <2>2, <2>3, NextStage, StaysInStage DEF Before
  <2>4. CASE at' = "run"
    <3>1. Required' \subseteq kept'
      BY <1>7, <2>4, StepSettings DEF SettingInv, SettingsHold, Verify, NextSetting, Forwarding, Goto, Call
    <3>2. C!Configured
      BY <2>1, <2>4, <3>1, NextStage, IsConfigured DEF Required, ReadBack
    <3> QED
      BY <3>2
  <2> QED
    BY <2>2, <2>3, <2>4
<1>8. CASE WaitForPort
  <2>1. /\ stage = "starting" /\ Required \subseteq kept
        /\ UNCHANGED <<bridge, done, ctxDone, opened, socat, outcome, kept, named>>
    BY <1>8, PlaceStages DEF WaitForPort, SettingInv, SettingsHold, outside, settings
  <2>2. at' \in {"port", "socat", "run"}
    BY <1>8 DEF WaitForPort, NextPort
  <2>3. CASE at' # "run"
    BY <2>1, <2>2, <2>3, NextStage, StaysInStage
  <2>4. CASE at' = "run"
    <3>1. C!Configured
      BY <2>1, <2>4, NextStage, IsConfigured
    <3> QED
      BY <3>1
  <2> QED
    BY <2>3, <2>4
<1>9. CASE StartSocat
  <2>1. /\ stage = "starting" /\ Required \subseteq kept /\ ~ctxDone
        /\ next \in Port /\ next \in opened /\ socat[next] = "none"
        /\ socat' = [socat EXCEPT ![next] = "running"]
        /\ UNCHANGED <<bridge, done, ctxDone, opened, outcome, kept, named>>
    BY <1>9, PlaceStages DEF StartSocat, SettingInv, SettingsHold, ForwardInv, TypeOK,
       outside, settings
  <2>2. stage' \in {"starting", "serving"}
    <3>1. at' \in {"port", "run"}
      BY <1>9 DEF StartSocat, NextPort
    <3> QED
      BY <3>1, NextStage
  <2>3. C!Forwards(next)
    BY <2>1, <2>2 DEF C!Forwards, Required, ReadBack
  <2> QED
    BY <2>1, <2>3
<1>10. CASE BridgeExited
  <2>1. C!BridgeExited
    BY <1>10, PlaceStages, NextStage DEF BridgeExited, StopForwards, Ends, outside, settings,
       Required, ReadBack, C!BridgeExited, C!ForwardsStop
  <2> QED
    BY <2>1
<1>11. CASE ShutDown
  <2>1. C!ShutDown
    BY <1>11, PlaceStages, NextStage DEF ShutDown, StopForwards, Terminate, Alive, settings,
       Required, ReadBack, C!ShutDown, C!ForwardsStop
  <2> QED
    BY <2>1
<1>12. CASE Grace
  <2>1. C!Grace
    BY <1>0, <1>12, PlaceStages, NextStage DEF Grace, Ends, Alive, settings, Required, ReadBack,
       C!Grace
  <2> QED
    BY <2>1
<1>13. CASE Exit
  <2>1. C!Exit
    BY <1>0, <1>13, PlaceStages, NextStage DEF Exit, Alive, settings, Required, ReadBack,
       C!Exit
  <2> QED
    BY <2>1
<1>14. ASSUME UNCHANGED <<process, settings>>, Running
       PROVE  /\ UNCHANGED <<stage, outcome, Required \subseteq kept>> /\ C!Up
  BY <1>14, PlaceStages DEF process, settings, stage, Required, ReadBack, Running, C!Up
<1>15. CASE WaiterPolls
  BY <1>15, StaysInStage DEF WaiterPolls, process, outside, settings, stage
<1>16. CASE BridgeServes
  <2>1. UNCHANGED <<Bridge, done, ctxDone, opened, socat>>
    BY <1>16 DEF BridgeServes, Bridge, Alive
  <2> QED
    BY <1>14, <1>16, <2>1 DEF BridgeServes, Bridge, C!containerVars
<1>17. ASSUME NEW p \in Port, BridgeListens(p)
       PROVE  C!ContainerNext
  <2>1. C!BridgeOpens(p)
    BY <1>14, <1>17 DEF BridgeListens, Alive, C!BridgeOpens
  <2> QED
    BY <2>1
<1>18. ASSUME NEW p \in Port, SocatDies(p)
       PROVE  C!ContainerNext
  <2>1. C!ForwardDies(p)
    BY <1>14, <1>18 DEF SocatDies, outside, C!ForwardDies
  <2> QED
    BY <2>1
<1>19. CASE BridgeExits
  <2>1. C!BridgeExits
    BY <1>14, <1>19 DEF BridgeExits, Alive, C!BridgeExits
  <2> QED
    BY <2>1
<1>20. CASE Reaped
  <2>1. C!Reaped
    BY <1>14, <1>20 DEF Reaped, Alive, outside, C!Reaped
  <2> QED
    BY <2>1
<1>21. CASE Signal
  <2>1. UNCHANGED socat \/ C!ForwardsStop
    BY <1>21 DEF Signal, StopForwards, C!ForwardsStop
  <2>2. C!Signal
    BY <1>14, <1>21, <2>1 DEF Signal, Terminate, Alive, C!Signal
  <2> QED
    BY <2>2
<1>22. CASE Restart
  <2>1. C!Restart
    BY <1>22 DEF Restart, stage, Before, Alive, C!Restart
  <2> QED
    BY <2>1
<1>23. CASE UNCHANGED vars
  BY <1>23, StaysInStage DEF vars, process, outside, settings, stage
<1> QED
  BY <1>1, <1>2, <1>3, <1>4, <1>5, <1>6, <1>7, <1>8, <1>9, <1>10, <1>11,
     <1>12, <1>13, <1>15, <1>16, <1>17, <1>18, <1>19, <1>20, <1>21, <1>22, <1>23
  DEF Next, Main

\* Every start of the container is one that Container describes, for any number of
\* ports, whatever fails and whenever SIGTERM comes (main.go:49-125, 151-234).
THEOREM ImplementsContainer == Spec => RunsInOrder
<1>1. Init => TypeOK /\ ForwardInv /\ SettingInv /\ EndInv /\ C!ContainerInit
  BY InitTypes DEF Init, ForwardInv, BridgeGoesFirst, ForwardsEndFirst, SettingInv,
     SettingsHold, Before, EndInv, GraceOnceConfigured, ExitIsHonest, Alive, stage,
     C!ContainerInit
<1>2. (TypeOK /\ ForwardInv /\ SettingInv /\ EndInv) /\ [Next]_vars
        => (TypeOK /\ ForwardInv /\ SettingInv /\ EndInv)'
  BY StepTypes, StepForwards, StepSettings, StepEnd
<1>3. (TypeOK /\ ForwardInv /\ SettingInv /\ EndInv) /\ [Next]_vars
        => [C!ContainerNext]_C!containerVars
  BY StepContainer
<1> QED
  BY <1>1, <1>2, <1>3, PTL DEF Spec, RunsInOrder, C!ContainerSpec

=============================================================================
