----------------------------- MODULE SignInProofs -----------------------------
(***************************************************************************)
(* What the sign-in page keeps for any set of accounts, any number of      *)
(* watchers alive at a time, and any number of starts.                     *)
(***************************************************************************)
EXTENDS SignIn, TLAPS

-----------------------------------------------------------------------------
(* Types *)

\* A report lengthens the stream by one event.
LEMMA EmitTypes ==
  ASSUME events \in Seq(Kind), NEW kind \in Kind, Emit(kind)
  PROVE  events' \in Seq(Kind)
  BY DEF Emit

\* Every step preserves the type invariant.
LEMMA StepTypes == TypeOK /\ [Next]_vars => TypeOK'
<1> SUFFICES ASSUME TypeOK, [Next]_vars PROVE TypeOK'
  OBVIOUS
<1> USE SignInAssumption DEF TypeOK, AccountState, SessionState, AtRest, Started, Paged,
        Place, WatcherPlace, Goto, bridge, signIn, shared, volume, history
<1>1. CASE ReadVault
  BY <1>1 DEF ReadVault
<1>2. ASSUME NEW a \in Account, Opens(a)
      PROVE  TypeOK'
  <2>1. events' \in Seq(Kind)
    BY <1>2, EmitTypes DEF Opens, Kind
  <2>2. account' \in [Account -> AccountState]
    BY <1>2 DEF Opens, BecomesConnected
  <2>3. reason' \in BOOLEAN
    BY <1>2, Zenon DEF Opens, BecomesConnected
  <2> QED
    BY <1>2, <2>1, <2>2, <2>3 DEF Opens
<1>3. ASSUME NEW a \in Account, SignsOut(a)
      PROVE  TypeOK'
  <2>1. events' \in Seq(Kind)
    BY <1>3, EmitTypes DEF SignsOut, Kind
  <2>2. account' \in [Account -> AccountState]
    BY <1>3 DEF SignsOut
  <2>3. changes' \in Nat
    BY <1>3 DEF SignsOut
  <2> QED
    BY <1>3, <2>1, <2>2, <2>3 DEF SignsOut
<1>4. ASSUME NEW a \in Account, Connects(a)
      PROVE  TypeOK'
  <2>1. events' \in Seq(Kind)
    BY <1>4, EmitTypes DEF Connects, Kind
  <2>2. account' \in [Account -> AccountState]
    BY <1>4 DEF Connects, BecomesConnected
  <2>3. reason' \in BOOLEAN
    BY <1>4, Zenon DEF Connects, BecomesConnected
  <2> QED
    BY <1>4, <2>1, <2>2, <2>3 DEF Connects
<1>5. ASSUME NEW a \in Account, Answers(a)
      PROVE  TypeOK'
  <2>1. PICK kind \in Kind : Emit(kind)
    BY <1>5, Zenon DEF Answers, Kind, Success
  <2>2. events' \in Seq(Kind)
    BY <2>1, EmitTypes
  <2> QED
    BY <1>5, <2>2 DEF Answers
<1>6. ASSUME NEW a \in Account, Starts(a)
      PROVE  TypeOK'
  BY <1>6 DEF Starts
<1>7. CASE HandleEvent
  <2>1. events' \in Seq(Kind)
    BY <1>7 DEF HandleEvent
  <2>2. Head(events) \in Kind
    BY <1>7 DEF HandleEvent
  <2>3. session' \in SessionState
    BY <1>7, <2>2 DEF HandleEvent, Told, Kind, Success
  <2> QED
    BY <1>7, <2>1, <2>3 DEF HandleEvent
<1>8. CASE Settles
  BY <1>8 DEF Settles
<1>9. CASE WaitForAccounts
  <2>1. slow' \in BOOLEAN
    BY <1>9, Zenon DEF WaitForAccounts
  <2> QED
    BY <1>9, <2>1 DEF WaitForAccounts, waitRest
<1>10. CASE WaitForSettled
  <2>1. slow' \in BOOLEAN
    BY <1>10, Zenon DEF WaitForSettled
  <2> QED
    BY <1>10, <2>1 DEF WaitForSettled, waitRest
<1>11. CASE LoopChecks
  <2>1. Unsettled \in BOOLEAN
    BY DEF Unsettled
  <2>2. reason' \in BOOLEAN
    BY <1>11, <2>1 DEF LoopChecks
  <2>3. at' \in Place
    BY <1>11 DEF LoopChecks
  <2> QED
    BY <1>11, <2>2, <2>3 DEF LoopChecks, loopRest
<1>12. CASE LoopEnds
  BY <1>12 DEF LoopEnds, loopRest
<1>13. CASE LoopWaits
  <2>1. changed' \in BOOLEAN
    BY <1>13, Zenon DEF LoopWaits
  <2> QED
    BY <1>13, <2>1 DEF LoopWaits, loopRest
<1>14. CASE Expose
  BY <1>14 DEF Expose, loopRest
<1>15. ASSUME NEW w \in Slot, NewServer(w)
      PROVE  TypeOK'
  <2>1. watcher' \in [Slot -> WatcherPlace] /\ current' \in Slot \cup {NoSlot}
    BY <1>15 DEF NewServer
  <2>2. signedIn' \in BOOLEAN /\ at' \in Place
    BY <1>15 DEF NewServer
  <2>3. UNCHANGED <<bridge, signIn, changed, ctxDone, volume, history>>
    BY <1>15 DEF NewServer
  <2> QED
    BY <2>1, <2>2, <2>3
<1>16. CASE Listen
  BY <1>16 DEF Listen
<1>17. CASE Shutdown
  BY <1>17 DEF Shutdown, loopRest
<1>18. CASE ServeReturns
  BY <1>18 DEF ServeReturns, loopRest
<1>19. CASE Forget
  BY <1>19 DEF Forget
<1>20. CASE LoopCheckFails
  BY <1>20 DEF LoopCheckFails, loopRest
<1>21. CASE ExposeFails
  <2>1. reason' \in BOOLEAN /\ at' \in Place
    BY <1>21 DEF ExposeFails
  <2>2. UNCHANGED <<loopRest, changed, signedIn, volume>>
    BY <1>21 DEF ExposeFails
  <2> QED
    BY <2>1, <2>2 DEF loopRest
<1>22. CASE NewServerFails
  BY <1>22 DEF NewServerFails, loopRest
<1>23. CASE ListenFails
  BY <1>23 DEF ListenFails, loopRest
<1>24. ASSUME NEW w \in Slot, WatcherCheckFails(w)
      PROVE  TypeOK'
  BY <1>24 DEF WatcherCheckFails, watchRest, WatcherGoes
<1>25. CASE GivesUp
  BY <1>25 DEF GivesUp
<1>26. CASE StreamBreaks
  BY <1>26 DEF StreamBreaks
<1>27. ASSUME NEW w \in Slot, WatcherLooks(w)
      PROVE  TypeOK'
  <2>1. watcher' \in [Slot -> WatcherPlace]
    BY <1>27 DEF WatcherLooks, WatcherGoes
  <2>2. signedIn' \in BOOLEAN
    BY <1>27, Zenon DEF MarkSignedIn, WatcherLooks
  <2> QED
    BY <1>27, <2>1, <2>2 DEF WatcherLooks, watchRest
<1>28. ASSUME NEW w \in Slot, WatcherResets(w)
      PROVE  TypeOK'
  BY <1>28 DEF WatcherResets, watchRest, WatcherGoes
<1>29. ASSUME NEW w \in Slot, WatcherDozes(w)
      PROVE  TypeOK'
  <2>1. watcher' \in [Slot -> WatcherPlace]
    BY <1>29 DEF WatcherDozes, WatcherGoes
  <2>2. changed' \in BOOLEAN
    BY <1>29, Zenon DEF WatcherDozes
  <2> QED
    BY <1>29, <2>1, <2>2 DEF WatcherDozes, watchRest
<1>30. ASSUME NEW w \in Slot, WatcherChecks(w)
      PROVE  TypeOK'
  <2>1. watcher' \in [Slot -> WatcherPlace]
    BY <1>30 DEF WatcherChecks, WatcherGoes
  <2>2. signedIn' \in BOOLEAN
    BY <1>30, Zenon DEF MarkSignedIn, WatcherChecks
  <2> QED
    BY <1>30, <2>1, <2>2 DEF WatcherChecks, watchRest
<1>31. ASSUME NEW w \in Slot, WatcherWaits(w)
      PROVE  TypeOK'
  <2>1. watcher' \in [Slot -> WatcherPlace]
    BY <1>31 DEF WatcherWaits, WatcherGoes
  <2>2. changed' \in BOOLEAN
    BY <1>31, Zenon DEF WatcherWaits
  <2> QED
    BY <1>31, <2>1, <2>2 DEF WatcherWaits, watchRest
<1>32. CASE Stop
  BY <1>32 DEF Stop
<1>33. CASE Restart
  <2>1. account' \in [Account -> AccountState]
    BY <1>33 DEF Restart
  <2>2. watcher' \in [Slot -> WatcherPlace]
    BY <1>33 DEF Restart
  <2>3. events' \in Seq(Kind)
    BY <1>33 DEF Restart
  <2>4. runs' \in Nat /\ changes' \in Nat
    BY <1>33 DEF Restart
  <2>5. token' \in {"none", "live", "left"} /\ signing' \in Account \cup {Nobody}
    BY <1>33 DEF Restart
  <2>6. session' \in SessionState /\ current' \in Slot \cup {NoSlot} /\ at' \in Place
    BY <1>33 DEF Restart
  <2>7. /\ listed' \in BOOLEAN /\ changed' \in BOOLEAN /\ signedIn' \in BOOLEAN
        /\ ctxDone' \in BOOLEAN /\ expose' \in BOOLEAN /\ reason' \in BOOLEAN
        /\ served' \in BOOLEAN /\ slow' \in BOOLEAN /\ disturbed' \in BOOLEAN
    BY <1>33 DEF Restart
  <2> QED
    BY <2>1, <2>2, <2>3, <2>4, <2>5, <2>6, <2>7
<1>34. CASE ServeFails
  BY <1>34 DEF ServeFails
<1>35. CASE UNCHANGED vars
  BY <1>35 DEF vars
<1> QED
  BY <1>1, <1>2, <1>3, <1>4, <1>5, <1>6, <1>7, <1>8, <1>9, <1>10,
     <1>11, <1>12, <1>13, <1>14, <1>15, <1>16, <1>17, <1>18, <1>19, <1>20,
     <1>21, <1>22, <1>23, <1>24, <1>25, <1>26, <1>27, <1>28, <1>29, <1>30,
     <1>31, <1>32, <1>33, <1>34, <1>35
  DEF Next, Bridge, Loop, Failures, Watcher

-----------------------------------------------------------------------------
(* The token *)

\* Every step preserves the relation between token and page.
LEMMA StepToken == TypeOK /\ TokenIsOfThePage /\ [Next]_vars => TokenIsOfThePage'
<1> SUFFICES ASSUME TypeOK, TokenIsOfThePage, [Next]_vars PROVE TokenIsOfThePage'
  OBVIOUS
<1> USE DEF TokenIsOfThePage, Paged, Started, Goto, bridge, signIn, shared, volume, history
<1>1. CASE ReadVault
  BY <1>1 DEF ReadVault
<1>2. ASSUME NEW a \in Account, Opens(a)
      PROVE  TokenIsOfThePage'
  BY <1>2 DEF Opens, Emit, BecomesConnected
<1>3. ASSUME NEW a \in Account, SignsOut(a)
      PROVE  TokenIsOfThePage'
  BY <1>3 DEF SignsOut, Emit
<1>4. ASSUME NEW a \in Account, Connects(a)
      PROVE  TokenIsOfThePage'
  BY <1>4 DEF Connects, Emit, BecomesConnected
<1>5. ASSUME NEW a \in Account, Answers(a)
      PROVE  TokenIsOfThePage'
  BY <1>5 DEF Answers, Emit
<1>6. ASSUME NEW a \in Account, Starts(a)
      PROVE  TokenIsOfThePage'
  BY <1>6 DEF Starts
<1>7. CASE HandleEvent
  BY <1>7 DEF HandleEvent, Told
<1>8. CASE Settles
  BY <1>8 DEF Settles
<1>9. CASE WaitForAccounts
  BY <1>9 DEF WaitForAccounts, waitRest
<1>10. CASE WaitForSettled
  BY <1>10 DEF WaitForSettled, waitRest
<1>11. CASE LoopChecks
  BY <1>11 DEF LoopChecks, loopRest
<1>12. CASE LoopEnds
  BY <1>12 DEF LoopEnds, loopRest
<1>13. CASE LoopWaits
  BY <1>13 DEF LoopWaits, loopRest
<1>14. CASE Expose
  BY <1>14 DEF Expose, loopRest
<1>15. ASSUME NEW w \in Slot, NewServer(w)
      PROVE  TokenIsOfThePage'
  BY <1>15 DEF NewServer
<1>16. CASE Listen
  BY <1>16 DEF Listen
<1>17. CASE Shutdown
  BY <1>17 DEF Shutdown, loopRest
<1>18. CASE ServeReturns
  BY <1>18 DEF ServeReturns, loopRest
<1>19. CASE Forget
  BY <1>19 DEF Forget
<1>20. CASE LoopCheckFails
  BY <1>20 DEF LoopCheckFails, loopRest
<1>21. CASE ExposeFails
  BY <1>21 DEF ExposeFails, loopRest
<1>22. CASE NewServerFails
  BY <1>22 DEF NewServerFails, loopRest
<1>23. CASE ListenFails
  BY <1>23 DEF ListenFails, loopRest
<1>24. ASSUME NEW w \in Slot, WatcherCheckFails(w)
      PROVE  TokenIsOfThePage'
  BY <1>24 DEF WatcherCheckFails, watchRest, WatcherGoes
<1>25. CASE GivesUp
  BY <1>25 DEF GivesUp
<1>26. CASE StreamBreaks
  BY <1>26 DEF StreamBreaks
<1>27. ASSUME NEW w \in Slot, WatcherLooks(w)
      PROVE  TokenIsOfThePage'
  BY <1>27 DEF WatcherLooks, watchRest, WatcherGoes, MarkSignedIn
<1>28. ASSUME NEW w \in Slot, WatcherResets(w)
      PROVE  TokenIsOfThePage'
  BY <1>28 DEF WatcherResets, watchRest, WatcherGoes
<1>29. ASSUME NEW w \in Slot, WatcherDozes(w)
      PROVE  TokenIsOfThePage'
  BY <1>29 DEF WatcherDozes, watchRest, WatcherGoes
<1>30. ASSUME NEW w \in Slot, WatcherChecks(w)
      PROVE  TokenIsOfThePage'
  BY <1>30 DEF WatcherChecks, watchRest, WatcherGoes, MarkSignedIn
<1>31. ASSUME NEW w \in Slot, WatcherWaits(w)
      PROVE  TokenIsOfThePage'
  BY <1>31 DEF WatcherWaits, watchRest, WatcherGoes
<1>32. CASE Stop
  BY <1>32 DEF Stop
<1>33. CASE Restart
  BY <1>33 DEF Restart
<1>34. CASE ServeFails
  BY <1>34 DEF ServeFails
<1>35. CASE UNCHANGED vars
  BY <1>35 DEF vars
<1> QED
  BY <1>1, <1>2, <1>3, <1>4, <1>5, <1>6, <1>7, <1>8, <1>9, <1>10,
     <1>11, <1>12, <1>13, <1>14, <1>15, <1>16, <1>17, <1>18, <1>19, <1>20,
     <1>21, <1>22, <1>23, <1>24, <1>25, <1>26, <1>27, <1>28, <1>29, <1>30,
     <1>31, <1>32, <1>33, <1>34, <1>35
  DEF Next, Bridge, Loop, Failures, Watcher

-----------------------------------------------------------------------------
(* The page *)

\* Every step preserves what is known of the page.
LEMMA StepPage == TypeOK /\ PageInv /\ [Next]_vars => PageInv'
<1> SUFFICES ASSUME TypeOK, PageInv, [Next]_vars PROVE PageInv'
  OBVIOUS
<1> USE DEF TypeOK, PageInv, NothingToTell, SomeConnected, SignInNeeded, PageEndsForAReason,
        Paged, Goto, bridge, signIn, shared, volume, history, AtRest, Success, Kind
<1>1. CASE ReadVault
  BY <1>1 DEF ReadVault
<1>2. ASSUME NEW a \in Account, Opens(a)
      PROVE  PageInv'
  <2>1. CASE BecomesConnected(a)
    BY <1>2, <2>1 DEF Opens, BecomesConnected
  <2>2. CASE ~BecomesConnected(a)
    <3>1. /\ UNCHANGED reason
          /\ \A b \in Account : account'[b] = "connected" => account[b] = "connected"
      BY <1>2, <2>2 DEF Opens
    <3> QED
      BY <1>2, <3>1 DEF Opens, Emit
  <2> QED
    BY <2>1, <2>2
<1>3. ASSUME NEW a \in Account, SignsOut(a)
      PROVE  PageInv'
  BY <1>3 DEF SignsOut, Emit
<1>4. ASSUME NEW a \in Account, Connects(a)
      PROVE  PageInv'
  BY <1>4 DEF Connects, Emit, BecomesConnected
<1>5. ASSUME NEW a \in Account, Answers(a)
      PROVE  PageInv'
  BY <1>5 DEF Answers, Emit
<1>6. ASSUME NEW a \in Account, Starts(a)
      PROVE  PageInv'
  BY <1>6 DEF Starts
<1>7. CASE HandleEvent
  BY <1>7 DEF HandleEvent, Told
<1>8. CASE Settles
  BY <1>8 DEF Settles
<1>9. CASE WaitForAccounts
  BY <1>9 DEF WaitForAccounts, waitRest
<1>10. CASE WaitForSettled
  BY <1>10 DEF WaitForSettled, waitRest
<1>11. CASE LoopChecks
  <2>1. CASE SignInNeeded
    <3>1. at' = "setup" /\ reason' = Unsettled
      BY <1>11, <2>1, Zenon DEF LoopChecks
    <3>2. ASSUME ~Unsettled PROVE NothingToTell'
      BY <1>11, <2>1, <3>2 DEF LoopChecks, loopRest, Unsettled, SessionState
    <3>3. reason' \/ NothingToTell'
      BY <3>1, <3>2, Zenon
    <3>4. (current # NoSlot => at \in Paged)' /\ PageEndsForAReason' /\ (at = "server" => current = NoSlot)'
      BY <1>11, <3>1 DEF LoopChecks, loopRest
    <3> QED
      BY <3>1, <3>3, <3>4
  <2>2. CASE ~SignInNeeded
    BY <1>11, <2>2 DEF LoopChecks, loopRest
  <2> QED
    BY <2>1, <2>2
<1>12. CASE LoopEnds
  BY <1>12 DEF LoopEnds, loopRest
<1>13. CASE LoopWaits
  BY <1>13 DEF LoopWaits, loopRest
<1>14. CASE Expose
  BY <1>14 DEF Expose, loopRest
<1>15. ASSUME NEW w \in Slot, NewServer(w)
      PROVE  PageInv'
  BY <1>15 DEF NewServer
<1>16. CASE Listen
  BY <1>16 DEF Listen
<1>17. CASE Shutdown
  BY <1>17 DEF Shutdown, loopRest
<1>18. CASE ServeReturns
  BY <1>18 DEF ServeReturns, loopRest
<1>19. CASE Forget
  BY <1>19 DEF Forget
<1>20. CASE LoopCheckFails
  BY <1>20 DEF LoopCheckFails, loopRest
<1>21. CASE ExposeFails
  BY <1>21 DEF ExposeFails, loopRest
<1>22. CASE NewServerFails
  BY <1>22 DEF NewServerFails, loopRest
<1>23. CASE ListenFails
  BY <1>23 DEF ListenFails, loopRest
<1>24. ASSUME NEW w \in Slot, WatcherCheckFails(w)
      PROVE  PageInv'
  BY <1>24 DEF WatcherCheckFails, watchRest, WatcherGoes
<1>25. CASE GivesUp
  BY <1>25 DEF GivesUp
<1>26. CASE StreamBreaks
  BY <1>26 DEF StreamBreaks
<1>27. ASSUME NEW w \in Slot, WatcherLooks(w)
      PROVE  PageInv'
  BY <1>27 DEF WatcherLooks, watchRest, WatcherGoes, MarkSignedIn
<1>28. ASSUME NEW w \in Slot, WatcherResets(w)
      PROVE  PageInv'
  BY <1>28 DEF WatcherResets, watchRest, WatcherGoes
<1>29. ASSUME NEW w \in Slot, WatcherDozes(w)
      PROVE  PageInv'
  BY <1>29 DEF WatcherDozes, watchRest, WatcherGoes
<1>30. ASSUME NEW w \in Slot, WatcherChecks(w)
      PROVE  PageInv'
  BY <1>30 DEF WatcherChecks, watchRest, WatcherGoes, MarkSignedIn
<1>31. ASSUME NEW w \in Slot, WatcherWaits(w)
      PROVE  PageInv'
  BY <1>31 DEF WatcherWaits, watchRest, WatcherGoes
<1>32. CASE Stop
  BY <1>32 DEF Stop
<1>33. CASE Restart
  BY <1>33 DEF Restart
<1>34. CASE ServeFails
  BY <1>34 DEF ServeFails
<1>35. CASE UNCHANGED vars
  BY <1>35 DEF vars
<1> QED
  BY <1>1, <1>2, <1>3, <1>4, <1>5, <1>6, <1>7, <1>8, <1>9, <1>10,
     <1>11, <1>12, <1>13, <1>14, <1>15, <1>16, <1>17, <1>18, <1>19, <1>20,
     <1>21, <1>22, <1>23, <1>24, <1>25, <1>26, <1>27, <1>28, <1>29, <1>30,
     <1>31, <1>32, <1>33, <1>34, <1>35
  DEF Next, Bridge, Loop, Failures, Watcher

-----------------------------------------------------------------------------
(* The start-up waits *)

\* Every step preserves what the start-up waits have established.
LEMMA StepVault == TypeOK /\ VaultInv /\ [Next]_vars => VaultInv'
<1> SUFFICES ASSUME TypeOK, VaultInv, [Next]_vars PROVE VaultInv'
  OBVIOUS
<1> USE DEF TypeOK, VaultInv, AllAbsent, Started, Paged, Goto, bridge, signIn, shared, volume, history
<1>1. CASE ReadVault
  BY <1>1 DEF ReadVault
<1>2. ASSUME NEW a \in Account, Opens(a)
      PROVE  VaultInv'
  BY <1>2 DEF Opens, Emit, BecomesConnected
<1>3. ASSUME NEW a \in Account, SignsOut(a)
      PROVE  VaultInv'
  BY <1>3 DEF SignsOut, Emit
<1>4. ASSUME NEW a \in Account, Connects(a)
      PROVE  VaultInv'
  BY <1>4 DEF Connects, Emit, BecomesConnected
<1>5. ASSUME NEW a \in Account, Answers(a)
      PROVE  VaultInv'
  BY <1>5 DEF Answers, Emit
<1>6. ASSUME NEW a \in Account, Starts(a)
      PROVE  VaultInv'
  BY <1>6 DEF Starts
<1>7. CASE HandleEvent
  BY <1>7 DEF HandleEvent, Told
<1>8. CASE Settles
  BY <1>8 DEF Settles
<1>9. CASE WaitForAccounts
  BY <1>9 DEF WaitForAccounts, Reported, waitRest
<1>10. CASE WaitForSettled
  BY <1>10 DEF WaitForSettled, EveryAccountLocked, Reported, waitRest, AccountState
<1>11. CASE LoopChecks
  BY <1>11 DEF LoopChecks, loopRest
<1>12. CASE LoopEnds
  BY <1>12 DEF LoopEnds, loopRest
<1>13. CASE LoopWaits
  BY <1>13 DEF LoopWaits, loopRest
<1>14. CASE Expose
  BY <1>14 DEF Expose, loopRest
<1>15. ASSUME NEW w \in Slot, NewServer(w)
      PROVE  VaultInv'
  BY <1>15 DEF NewServer
<1>16. CASE Listen
  BY <1>16 DEF Listen
<1>17. CASE Shutdown
  BY <1>17 DEF Shutdown, loopRest
<1>18. CASE ServeReturns
  BY <1>18 DEF ServeReturns, loopRest
<1>19. CASE Forget
  BY <1>19 DEF Forget
<1>20. CASE LoopCheckFails
  BY <1>20 DEF LoopCheckFails, loopRest
<1>21. CASE ExposeFails
  BY <1>21 DEF ExposeFails, loopRest
<1>22. CASE NewServerFails
  BY <1>22 DEF NewServerFails, loopRest
<1>23. CASE ListenFails
  BY <1>23 DEF ListenFails, loopRest
<1>24. ASSUME NEW w \in Slot, WatcherCheckFails(w)
      PROVE  VaultInv'
  BY <1>24 DEF WatcherCheckFails, watchRest, WatcherGoes
<1>25. CASE GivesUp
  BY <1>25 DEF GivesUp
<1>26. CASE StreamBreaks
  BY <1>26 DEF StreamBreaks
<1>27. ASSUME NEW w \in Slot, WatcherLooks(w)
      PROVE  VaultInv'
  BY <1>27 DEF WatcherLooks, watchRest, WatcherGoes, MarkSignedIn
<1>28. ASSUME NEW w \in Slot, WatcherResets(w)
      PROVE  VaultInv'
  BY <1>28 DEF WatcherResets, watchRest, WatcherGoes
<1>29. ASSUME NEW w \in Slot, WatcherDozes(w)
      PROVE  VaultInv'
  BY <1>29 DEF WatcherDozes, watchRest, WatcherGoes
<1>30. ASSUME NEW w \in Slot, WatcherChecks(w)
      PROVE  VaultInv'
  BY <1>30 DEF WatcherChecks, watchRest, WatcherGoes, MarkSignedIn
<1>31. ASSUME NEW w \in Slot, WatcherWaits(w)
      PROVE  VaultInv'
  BY <1>31 DEF WatcherWaits, watchRest, WatcherGoes
<1>32. CASE Stop
  BY <1>32 DEF Stop
<1>33. CASE Restart
  BY <1>33 DEF Restart
<1>34. CASE ServeFails
  BY <1>34 DEF ServeFails
<1>35. CASE UNCHANGED vars
  BY <1>35 DEF vars
<1> QED
  BY <1>1, <1>2, <1>3, <1>4, <1>5, <1>6, <1>7, <1>8, <1>9, <1>10,
     <1>11, <1>12, <1>13, <1>14, <1>15, <1>16, <1>17, <1>18, <1>19, <1>20,
     <1>21, <1>22, <1>23, <1>24, <1>25, <1>26, <1>27, <1>28, <1>29, <1>30,
     <1>31, <1>32, <1>33, <1>34, <1>35
  DEF Next, Bridge, Loop, Failures, Watcher

-----------------------------------------------------------------------------
(* Init, and the theorems *)

\* The program starts in a state of the right types.
LEMMA InitTypes == Init => TypeOK
<1> SUFFICES ASSUME Init PROVE TypeOK
  OBVIOUS
<1> USE DEF Init
<1>1. account \in [Account -> AccountState]
  BY DEF AccountState
<1>2. watcher \in [Slot -> WatcherPlace] /\ current \in Slot \cup {NoSlot}
  BY DEF WatcherPlace
<1>3. events \in Seq(Kind) /\ signing \in Account \cup {Nobody}
  OBVIOUS
<1>4. session \in SessionState /\ at \in Place /\ token \in {"none", "live", "left"}
  BY DEF SessionState, AtRest, Place, Started, Paged
<1>5. /\ listed \in BOOLEAN /\ changed \in BOOLEAN /\ signedIn \in BOOLEAN
      /\ ctxDone \in BOOLEAN /\ expose \in BOOLEAN /\ reason \in BOOLEAN
      /\ served \in BOOLEAN /\ slow \in BOOLEAN /\ disturbed \in BOOLEAN
  OBVIOUS
<1>6. runs \in Nat /\ changes \in Nat
  OBVIOUS
<1> QED
  BY <1>1, <1>2, <1>3, <1>4, <1>5, <1>6, Zenon DEF TypeOK

\* Every variable keeps its type, for any accounts and any number of watchers:
\* runSignIn, streamEvents and the watchers never leave the states they are
\* written for (signin.go:64-314).
THEOREM TypeInvariant == Spec => []TypeOK
  BY InitTypes, StepTypes, PTL DEF Spec

\* The token in the volume is that of the page, whatever fails while the page
\* is prepared, and after any number of starts (signin.go:158-169, 269-273).
THEOREM TokenFollowsThePage == Spec => []TokenIsOfThePage
<1>1. Init => TokenIsOfThePage
  BY DEF Init, TokenIsOfThePage, Paged
<1> QED
  BY <1>1, StepToken, TypeInvariant, PTL DEF Spec

\* A page that began with nothing left of an earlier sign-in ends only for an
\* account that was connected since it was called for: no watcher, however many
\* outlive their pages, ends the page of another (signin.go:276-314).
THEOREM EndsForAReason == Spec => []PageEndsForAReason
<1>1. Init => PageInv
  BY DEF Init, PageInv, PageEndsForAReason, Paged
<1>2. PageInv => PageEndsForAReason
  BY DEF PageInv
<1> QED
  BY <1>1, <1>2, StepPage, TypeInvariant, PTL DEF Spec

\* What the start-up waits establish holds for as long as the process runs.
LEMMA WaitsEstablish == Spec => []VaultInv
<1>1. Init => VaultInv
  BY DEF Init, VaultInv, AllAbsent, Started
<1> QED
  BY <1>1, StepVault, TypeInvariant, PTL DEF Spec

\* Only a look at the accounts brings the page up.
LEMMA OnlyLoopChecks ==
  ASSUME [Next]_vars, at = "check", at' = "setup"
  PROVE  LoopChecks /\ ~ctxDone /\ SignInNeeded
<1> USE DEF Goto
<1>1. CASE ReadVault
  BY <1>1 DEF ReadVault
<1>2. ASSUME NEW a \in Account, Opens(a)
      PROVE  LoopChecks /\ ~ctxDone /\ SignInNeeded
  BY <1>2 DEF Opens, Emit, BecomesConnected
<1>3. ASSUME NEW a \in Account, SignsOut(a)
      PROVE  LoopChecks /\ ~ctxDone /\ SignInNeeded
  BY <1>3 DEF SignsOut, Emit
<1>4. ASSUME NEW a \in Account, Connects(a)
      PROVE  LoopChecks /\ ~ctxDone /\ SignInNeeded
  BY <1>4 DEF Connects, Emit, BecomesConnected
<1>5. ASSUME NEW a \in Account, Answers(a)
      PROVE  LoopChecks /\ ~ctxDone /\ SignInNeeded
  BY <1>5 DEF Answers, Emit
<1>6. ASSUME NEW a \in Account, Starts(a)
      PROVE  LoopChecks /\ ~ctxDone /\ SignInNeeded
  BY <1>6 DEF Starts
<1>7. CASE HandleEvent
  BY <1>7 DEF HandleEvent, Told
<1>8. CASE Settles
  BY <1>8 DEF Settles
<1>9. CASE WaitForAccounts
  BY <1>9 DEF WaitForAccounts, waitRest
<1>10. CASE WaitForSettled
  BY <1>10 DEF WaitForSettled, waitRest
<1>11. CASE LoopChecks
  BY <1>11 DEF LoopChecks, loopRest
<1>12. CASE LoopEnds
  BY <1>12 DEF LoopEnds, loopRest
<1>13. CASE LoopWaits
  BY <1>13 DEF LoopWaits, loopRest
<1>14. CASE Expose
  BY <1>14 DEF Expose, loopRest
<1>15. ASSUME NEW w \in Slot, NewServer(w)
      PROVE  LoopChecks /\ ~ctxDone /\ SignInNeeded
  BY <1>15 DEF NewServer
<1>16. CASE Listen
  BY <1>16 DEF Listen
<1>17. CASE Shutdown
  BY <1>17 DEF Shutdown, loopRest
<1>18. CASE ServeReturns
  BY <1>18 DEF ServeReturns, loopRest
<1>19. CASE Forget
  BY <1>19 DEF Forget
<1>20. CASE LoopCheckFails
  BY <1>20 DEF LoopCheckFails, loopRest
<1>21. CASE ExposeFails
  BY <1>21 DEF ExposeFails, loopRest
<1>22. CASE NewServerFails
  BY <1>22 DEF NewServerFails, loopRest
<1>23. CASE ListenFails
  BY <1>23 DEF ListenFails, loopRest
<1>24. ASSUME NEW w \in Slot, WatcherCheckFails(w)
      PROVE  LoopChecks /\ ~ctxDone /\ SignInNeeded
  BY <1>24 DEF WatcherCheckFails, watchRest, WatcherGoes
<1>25. CASE GivesUp
  BY <1>25 DEF GivesUp
<1>26. CASE StreamBreaks
  BY <1>26 DEF StreamBreaks
<1>27. ASSUME NEW w \in Slot, WatcherLooks(w)
      PROVE  LoopChecks /\ ~ctxDone /\ SignInNeeded
  BY <1>27 DEF WatcherLooks, watchRest, WatcherGoes, MarkSignedIn
<1>28. ASSUME NEW w \in Slot, WatcherResets(w)
      PROVE  LoopChecks /\ ~ctxDone /\ SignInNeeded
  BY <1>28 DEF WatcherResets, watchRest, WatcherGoes
<1>29. ASSUME NEW w \in Slot, WatcherDozes(w)
      PROVE  LoopChecks /\ ~ctxDone /\ SignInNeeded
  BY <1>29 DEF WatcherDozes, watchRest, WatcherGoes
<1>30. ASSUME NEW w \in Slot, WatcherChecks(w)
      PROVE  LoopChecks /\ ~ctxDone /\ SignInNeeded
  BY <1>30 DEF WatcherChecks, watchRest, WatcherGoes, MarkSignedIn
<1>31. ASSUME NEW w \in Slot, WatcherWaits(w)
      PROVE  LoopChecks /\ ~ctxDone /\ SignInNeeded
  BY <1>31 DEF WatcherWaits, watchRest, WatcherGoes
<1>32. CASE Stop
  BY <1>32 DEF Stop
<1>33. CASE Restart
  BY <1>33 DEF Restart
<1>34. CASE ServeFails
  BY <1>34 DEF ServeFails
<1>35. CASE UNCHANGED vars
  BY <1>35 DEF vars
<1> QED
  BY <1>1, <1>2, <1>3, <1>4, <1>5, <1>6, <1>7, <1>8, <1>9, <1>10,
     <1>11, <1>12, <1>13, <1>14, <1>15, <1>16, <1>17, <1>18, <1>19, <1>20,
     <1>21, <1>22, <1>23, <1>24, <1>25, <1>26, <1>27, <1>28, <1>29, <1>30,
     <1>31, <1>32, <1>33, <1>34, <1>35
  DEF Next, Bridge, Loop, Failures, Watcher

\* With a vault that opens in time no restart brings the page up for an account
\* that is still unlocking, unless another is signed out already
\* (signin.go:81-108, accounts.go:83-176).
THEOREM OpensNoPageEarly == Spec => NoPageWhileOpening
<1> DEFINE Early == at = "check" /\ at' = "setup" /\ ~slow =>
                      /\ Reported \/ AllAbsent
                      /\ (\E a \in Account : account[a] = "opening")
                           => \E a \in Account : account[a] = "signed_out"
<1>1. VaultInv /\ [Next]_vars => [Early]_vars
  <2> SUFFICES ASSUME VaultInv, [Next]_vars, at = "check", at' = "setup", ~slow
               PROVE  Early
    OBVIOUS
  <2>1. ~ctxDone /\ SignInNeeded
    BY OnlyLoopChecks
  <2> QED
    BY <2>1 DEF VaultInv, SignInNeeded, SomeConnected, Reported, AllAbsent, Started
<1> QED
  BY <1>1, WaitsEstablish, PTL DEF Spec, NoPageWhileOpening

-----------------------------------------------------------------------------
(* The page is the one of SignInPage *)

\* What the session waits for is not disturbed by what the loop, the watchers and
\* the process do beside it.
LEMMA BesideTheSession ==
  ASSUME CourseInv, UNCHANGED <<signing, events, session, disturbed>>
  PROVE  CourseInv'
  BY DEF CourseInv

\* A report that ends no sign-in, or one that there was to end, is added.
LEMMA EmitCourse ==
  ASSUME TypeOK, CourseInv, NEW kind \in Kind, Emit(kind), UNCHANGED signIn,
         \/ kind \notin Ending /\ UNCHANGED signing
         \/ signing # Nobody /\ signing' = Nobody
  PROVE  CourseInv'
<1> SUFFICES ASSUME ~disturbed
             PROVE  CourseInv'
  BY DEF CourseInv, signIn
<1>1. /\ Len(events') = Len(events) + 1
      /\ events'[Len(events) + 1] = kind
      /\ \A i \in DOMAIN events : events'[i] = events[i]
      /\ DOMAIN events = 1..Len(events) /\ DOMAIN events' = 1..(Len(events) + 1)
      /\ Len(events) \in Nat
  BY DEF Emit, TypeOK
<1>2. CASE kind \notin Ending /\ UNCHANGED signing
  BY <1>1, <1>2 DEF CourseInv, signIn
<1>3. CASE signing # Nobody /\ signing' = Nobody
  <2>1. session = "waiting" /\ \A i \in DOMAIN events : events[i] \notin Ending
    BY <1>3 DEF CourseInv
  <2> QED
    BY <1>1, <1>3, <2>1 DEF CourseInv, signIn
<1> QED
  BY <1>2, <1>3

\* Every step keeps what the bridge owes an undisturbed sign-in.
LEMMA StepCourse == TypeOK /\ CourseInv /\ [Next]_vars => CourseInv'
<1> SUFFICES ASSUME TypeOK, CourseInv, [Next]_vars
             PROVE  CourseInv'
  OBVIOUS
<1> USE DEF bridge, signIn, shared, volume, history, Goto
<1>1. CASE ReadVault
  BY <1>1, BesideTheSession DEF ReadVault
<1>2. ASSUME NEW a \in Account, Opens(a) \/ SignsOut(a) \/ Connects(a)
      PROVE  CourseInv'
  <2>1. Emit("user") /\ UNCHANGED signIn /\ UNCHANGED signing
    BY <1>2 DEF Opens, SignsOut, Connects
  <2>2. "user" \in Kind /\ "user" \notin Ending
    BY DEF Kind, Ending, Success
  <2> QED
    BY <2>1, <2>2, EmitCourse
<1>3. ASSUME NEW a \in Account, Answers(a)
      PROVE  CourseInv'
  <2>1. PICK kind \in Kind : Emit(kind)
    BY <1>3, Zenon DEF Answers, Kind, Success
  <2>2. signing # Nobody /\ signing' = Nobody /\ UNCHANGED signIn
    BY <1>3, SignInAssumption DEF Answers
  <2> QED
    BY <2>1, <2>2, EmitCourse
<1>4. ASSUME NEW a \in Account, Starts(a)
      PROVE  CourseInv'
  <2>1. ~disturbed' => \A i \in DOMAIN events : events[i] \notin Ending
    BY <1>4 DEF CourseInv, Starts, AtRest, Quiet
  <2> QED
    BY <1>4, <2>1 DEF CourseInv, Starts
<1>5. CASE HandleEvent
  <2>1. /\ events \in Seq(Kind) /\ events # <<>> /\ events' = Tail(events)
        /\ UNCHANGED <<signing, disturbed>>
    BY <1>5 DEF HandleEvent, TypeOK
  <2>2. /\ 1 \in DOMAIN events /\ Head(events) = events[1] /\ events[1] \in Kind
        /\ \A i \in DOMAIN events' :
             i + 1 \in DOMAIN events /\ events'[i] = events[i + 1] /\ i + 1 # 1
    BY <2>1
  <2>3. CASE Head(events) \in Ending /\ ~disturbed
    <3>1. signing = Nobody
      BY <2>2, <2>3 DEF CourseInv
    <3>2. \A i \in DOMAIN events' : events'[i] \notin Ending
      BY <2>2, <2>3 DEF CourseInv
    <3> QED
      BY <2>1, <3>1, <3>2 DEF CourseInv
  <2>4. CASE Head(events) \notin Ending
    <3>1. Head(events) = "user"
      BY <2>2, <2>4 DEF Kind, Ending
    <3>2. session' = session
      BY <1>5, <3>1 DEF HandleEvent, Told
    <3>3. ASSUME NEW i \in DOMAIN events', NEW j \in DOMAIN events', i + 1 = j + 1
          PROVE  i = j
      BY <3>3, <2>1
    <3> QED
      BY <2>1, <2>2, <3>2, <3>3 DEF CourseInv
  <2>5. CASE disturbed
    BY <2>1, <2>5 DEF CourseInv
  <2> QED
    BY <2>3, <2>4, <2>5
<1>6. CASE Settles
  BY <1>6 DEF CourseInv, Settles
<1>7. CASE GivesUp
  BY <1>7 DEF CourseInv, GivesUp
<1>8. CASE StreamBreaks
  BY <1>8 DEF CourseInv, StreamBreaks
<1>9. ASSUME NEW w \in Slot, WatcherResets(w)
      PROVE  CourseInv'
  BY <1>9 DEF CourseInv, WatcherResets, watchRest
<1>10. ASSUME NEW w \in Slot, \/ WatcherCheckFails(w) \/ WatcherLooks(w)
                              \/ WatcherDozes(w) \/ WatcherChecks(w)
                              \/ WatcherWaits(w) \/ NewServer(w)
       PROVE  CourseInv'
  BY <1>10, BesideTheSession DEF WatcherCheckFails, WatcherLooks, WatcherDozes,
     WatcherChecks, WatcherWaits, NewServer, watchRest
<1>11. CASE WaitForAccounts \/ WaitForSettled
  BY <1>11, BesideTheSession DEF WaitForAccounts, WaitForSettled, waitRest
<1>12. CASE \/ LoopChecks \/ LoopEnds \/ LoopWaits \/ LoopCheckFails
            \/ Expose \/ ExposeFails \/ NewServerFails \/ Listen \/ ListenFails
            \/ ServeFails \/ Shutdown \/ ServeReturns \/ Forget
  BY <1>12, BesideTheSession DEF LoopChecks, LoopEnds, LoopWaits, LoopCheckFails,
     Expose, ExposeFails, NewServerFails, Listen, ListenFails, ServeFails,
     Shutdown, ServeReturns, Forget, loopRest
<1>13. CASE Stop \/ UNCHANGED vars
  BY <1>13, BesideTheSession DEF Stop, vars
<1>14. CASE Restart
  BY <1>14 DEF CourseInv, Restart
<1> QED
  BY <1>1, <1>2, <1>3, <1>4, <1>5, <1>6, <1>7, <1>8, <1>9, <1>10, <1>11, <1>12,
     <1>13, <1>14
  DEF Next, Bridge, Loop, Failures, Watcher

pageState == <<state, disturbed, page, told, resetDue>>

PageStep == P!PageNext(SomeConnected) \/ UNCHANGED pageState

\* A watcher that goes from one place to another without a reset owes the session
\* what it owed.
LEMMA SameResets ==
  ASSUME TypeOK, NEW w \in Slot, NEW place, watcher[w] # "reset", place # "reset",
         watcher' = [watcher EXCEPT ![w] = place]
  PROVE  resetDue' = resetDue
BY DEF TypeOK, resetDue

\* What leaves the session, the place of runSignIn, the watchers and what the server
\* was told alone changes nothing of the page.
LEMMA BesideThePage ==
  ASSUME UNCHANGED <<session, disturbed, at, signedIn, watcher>>
  PROVE  UNCHANGED pageState
BY DEF pageState, state, page, told, resetDue

\* The bridge, the stream and the session's own goroutine: a step of the session.
LEMMA SessionServes ==
  ASSUME TypeOK, CourseInv,
         \/ \E a \in Account : \/ Opens(a) \/ SignsOut(a) \/ Connects(a)
                               \/ Answers(a) \/ Starts(a)
         \/ ReadVault \/ HandleEvent \/ Settles \/ GivesUp \/ StreamBreaks
         \/ Stop \/ UNCHANGED vars
  PROVE  PageStep
<1> USE DEF bridge, signIn, shared, volume, history
<1>1. UNCHANGED <<at, signedIn, watcher>>
  BY DEF Opens, SignsOut, Connects, Answers, Starts, ReadVault, HandleEvent,
     Settles, GivesUp, StreamBreaks, Stop, vars
<1>2. UNCHANGED <<page, told, resetDue>>
  BY <1>1 DEF page, told, resetDue
<1>3. ASSUME \/ P!Begin \/ P!Settle \/ P!GiveUp \/ P!CallFails
             \/ \E news \in P!News : P!Report(news)
      PROVE  PageStep
  BY <1>2, <1>3 DEF PageStep, P!PageNext, P!PageRuns, P!Session, P!pageVars
<1>4. ASSUME NEW a \in Account, Starts(a)
      PROVE  P!Begin
  BY <1>4 DEF Starts, state, P!Begin, P!Ended, AtRest
<1>5. CASE HandleEvent
  <2>1. /\ 1 \in DOMAIN events /\ Head(events) = events[1] /\ events[1] \in Kind
        /\ UNCHANGED disturbed
    BY <1>5 DEF HandleEvent, TypeOK
  <2>2. CASE Head(events) = "user"
    <3>1. UNCHANGED session
      BY <1>5, <2>2 DEF HandleEvent, Told
    <3> QED
      BY <1>1, <2>1, <3>1, BesideThePage DEF PageStep
  <2>3. CASE Head(events) \in Ending
    <3>1. disturbed \/ session = "waiting"
      BY <2>1, <2>3 DEF CourseInv
    <3>2. session' \in {"setting_mode", "succeeded", "failed"}
      BY <1>5, <2>3 DEF HandleEvent, Told, Ending, Success
    <3>3. session' \in P!News
      BY <3>2 DEF P!News, P!State, P!Ended, P!Secret
    <3>4. P!Report(session')
      BY <2>1, <3>1, <3>2 DEF state, P!Report
    <3> QED
      BY <1>3, <3>3, <3>4
  <2> QED
    BY <2>1, <2>2, <2>3 DEF Kind, Ending
<1>6. ASSUME Settles
      PROVE  P!Settle
  BY <1>6 DEF Settles, state, P!Settle
<1>7. ASSUME GivesUp
      PROVE  P!GiveUp \/ P!CallFails
  BY <1>7 DEF GivesUp, AtRest, state, P!GiveUp, P!CallFails
<1>8. ASSUME \/ \E a \in Account : \/ Opens(a) \/ SignsOut(a) \/ Connects(a)
                                  \/ Answers(a)
             \/ ReadVault \/ StreamBreaks \/ Stop \/ UNCHANGED vars
      PROVE  PageStep
  <2>1. UNCHANGED signIn
    BY <1>8 DEF Opens, SignsOut, Connects, Answers, ReadVault, StreamBreaks, Stop,
       vars
  <2> QED
    BY <1>1, <2>1, BesideThePage DEF PageStep
<1> QED
  BY <1>3, <1>4, <1>5, <1>6, <1>7, <1>8

\* runSignIn and serveSetup: the page is called for, comes up, closes, goes.
LEMMA LoopServes ==
  ASSUME TypeOK, PageInv, Loop \/ LoopCheckFails \/ ExposeFails \/ NewServerFails
                          \/ ListenFails \/ ServeFails
  PROVE  PageStep
<1> USE DEF PageStep, P!PageNext, P!PageRuns, P!flow, Goto, signIn, shared
<1>1. UNCHANGED <<state, disturbed>>
  BY DEF Loop, WaitForAccounts, WaitForSettled, LoopChecks, LoopEnds, LoopWaits,
     Expose, NewServer, Listen, Shutdown, ServeReturns, Forget, LoopCheckFails,
     ExposeFails, NewServerFails, ListenFails, ServeFails, loopRest, waitRest, state
<1>2. UNCHANGED resetDue
  <2>1. ASSUME NEW w \in Slot, NewServer(w)
        PROVE  UNCHANGED resetDue
    BY <2>1, SameResets DEF NewServer
  <2>2. ASSUME ~ \E w \in Slot : NewServer(w)
        PROVE  UNCHANGED resetDue
    BY <2>2 DEF resetDue, Loop, WaitForAccounts, WaitForSettled, LoopChecks,
       LoopEnds, LoopWaits, Expose, Listen, Shutdown, ServeReturns, Forget,
       LoopCheckFails, ExposeFails, NewServerFails, ListenFails, ServeFails,
       loopRest, waitRest
  <2> QED
    BY <2>1, <2>2
<1>3. CASE LoopChecks /\ at' = "setup"
  <2>1. page = "down" /\ page' = "called" /\ told = FALSE /\ told' = FALSE
    BY <1>3 DEF LoopChecks, page, told
  <2>2. ~SomeConnected
    BY <1>3 DEF LoopChecks, SignInNeeded
  <2> QED
    BY <1>1, <1>2, <2>1, <2>2 DEF P!Called
<1>4. CASE \/ WaitForAccounts \/ WaitForSettled \/ LoopWaits \/ LoopCheckFails
           \/ LoopEnds \/ Forget \/ (LoopChecks /\ at' # "setup")
  <2>1. page = "down" /\ page' = "down" /\ told = FALSE /\ told' = FALSE
    BY <1>4 DEF WaitForAccounts, WaitForSettled, LoopWaits, LoopCheckFails,
       LoopEnds, Forget, LoopChecks, page, told
  <2> QED
    BY <1>1, <1>2, <2>1 DEF pageState
<1>5. CASE Expose \/ \E w \in Slot : NewServer(w)
  <2>1. page = "called" /\ page' = "called" /\ told = FALSE /\ told' = FALSE
    BY <1>5 DEF Expose, NewServer, page, told
  <2> QED
    BY <1>1, <1>2, <2>1 DEF pageState
<1>6. CASE ExposeFails \/ NewServerFails \/ ListenFails \/ ServeFails
  <2>1. page \in {"called", "up"} /\ page' = "down" /\ told' = FALSE
    BY <1>6 DEF ExposeFails, NewServerFails, ListenFails, ServeFails, page, told
  <2> QED
    BY <1>1, <1>2, <2>1 DEF P!Fails, P!Gone
<1>7. CASE Listen
  <2>1. page = "called" /\ page' = "up" /\ UNCHANGED told
    BY <1>7 DEF Listen, page, told
  <2> QED
    BY <1>1, <1>2, <2>1 DEF P!ComesUp
<1>8. CASE Shutdown
  <2>1. page = "up" /\ page' = "closing" /\ UNCHANGED told
    BY <1>8 DEF Shutdown, page, told
  <2> QED
    BY <1>1, <1>2, <2>1 DEF P!ServeCancelled
<1>9. CASE ServeReturns
  <2>1. page = "closing" /\ page' = "down" /\ told' = FALSE
    BY <1>9 DEF ServeReturns, page, told
  <2> QED
    BY <1>1, <1>2, <2>1 DEF P!Shutdown, P!Gone
<1> HIDE DEF PageStep
<1> QED
  BY <1>3, <1>4, <1>5, <1>6, <1>7, <1>8, <1>9 DEF Loop

\* The watchers, those of pages that are gone among them.
LEMMA WatcherServes ==
  ASSUME TypeOK, PageInv, NEW w \in Slot, Watcher(w) \/ WatcherCheckFails(w)
  PROVE  PageStep
<1> USE DEF PageStep, P!PageNext, P!PageRuns, P!flow, signIn, shared, watchRest, WatcherGoes
<1>1. UNCHANGED at
  BY DEF Watcher, WatcherLooks, WatcherResets, WatcherDozes, WatcherChecks,
     WatcherWaits, WatcherCheckFails
<1>2. UNCHANGED page
  BY <1>1 DEF page
<1>3. current = w => at \in {"listen", "serving", "shutdown", "forget"}
  BY SignInAssumption DEF PageInv, Paged
<1>4. CASE WatcherLooks(w) /\ session = "succeeded"
  <2>1. state = "succeeded" /\ UNCHANGED <<state, disturbed>>
    BY <1>4 DEF WatcherLooks, state
  <2>2. resetDue' = TRUE
    BY <1>4 DEF WatcherLooks, resetDue, TypeOK
  <2>3. CASE current = w /\ at # "forget"
    <3>1. page # "down" /\ told' = TRUE
      BY <1>1, <1>3, <1>4, <2>3 DEF WatcherLooks, MarkSignedIn, page, told
    <3> QED
      BY <1>2, <2>1, <2>2, <3>1 DEF P!MarkSignedIn
  <2>4. CASE ~(current = w /\ at # "forget")
    <3>1. UNCHANGED told
      BY <1>1, <1>3, <1>4, <2>4 DEF WatcherLooks, MarkSignedIn, told
    <3> QED
      BY <1>2, <2>1, <2>2, <3>1 DEF P!SeesLate
  <2> QED
    BY <2>3, <2>4
<1>5. CASE WatcherResets(w)
  <2>1. resetDue
    BY <1>5 DEF WatcherResets, resetDue
  <2>2. resetDue' \in BOOLEAN
    BY DEF resetDue
  <2>3. P!Clear
    BY <1>5 DEF WatcherResets, state, P!Clear
  <2>4. UNCHANGED told
    BY <1>1, <1>5 DEF WatcherResets, told
  <2> QED
    BY <1>2, <2>1, <2>2, <2>3, <2>4 DEF P!Resets
<1>6. CASE WatcherChecks(w) /\ ~(SignInNeeded \/ Cancelled(w))
  <2>1. UNCHANGED <<state, disturbed>> /\ SomeConnected
    BY <1>6 DEF WatcherChecks, state, SignInNeeded
  <2>2. UNCHANGED resetDue
    BY <1>6, SameResets DEF WatcherChecks
  <2>3. current = w /\ signedIn' = TRUE
    BY <1>6 DEF WatcherChecks, MarkSignedIn, Cancelled
  <2>4. CASE at = "forget"
    <3>1. UNCHANGED told
      BY <1>1, <2>4 DEF told
    <3> QED
      BY <1>2, <2>1, <2>2, <3>1 DEF pageState
  <2>5. CASE at # "forget"
    <3>1. page # "down" /\ told' = TRUE
      BY <1>1, <1>3, <2>3, <2>5 DEF page, told
    <3> QED
      BY <1>2, <2>1, <2>2, <3>1 DEF P!MarkSignedIn
  <2> QED
    BY <2>4, <2>5
<1>7. CASE \/ WatcherLooks(w) /\ session # "succeeded"
           \/ WatcherChecks(w) /\ (SignInNeeded \/ Cancelled(w))
           \/ WatcherCheckFails(w) \/ WatcherDozes(w) \/ WatcherWaits(w)
  <2>0. UNCHANGED <<session, disturbed, signedIn>>
    BY <1>7 DEF WatcherLooks, WatcherChecks, WatcherCheckFails, WatcherDozes,
       WatcherWaits
  <2>1. UNCHANGED <<state, disturbed, told>>
    BY <1>1, <2>0 DEF state, told
  <2>2. PICK place \in {"doze", "check", "wait", "look", "none"} :
          watcher' = [watcher EXCEPT ![w] = place]
    BY <1>7 DEF WatcherLooks, WatcherChecks, WatcherCheckFails, WatcherDozes,
       WatcherWaits
  <2>3. watcher[w] # "reset"
    BY <1>7 DEF WatcherLooks, WatcherChecks, WatcherCheckFails, WatcherDozes,
       WatcherWaits
  <2>4. UNCHANGED resetDue
    BY <2>2, <2>3, SameResets
  <2> QED
    BY <1>2, <2>1, <2>4 DEF pageState
<1> QED
  BY <1>4, <1>5, <1>6, <1>7 DEF Watcher

\* A start of the container.
LEMMA RestartServes ==
  ASSUME Restart
  PROVE  PageStep
<1>1. /\ state' = "idle" /\ disturbed' = FALSE
      /\ page' = "down" /\ told' = FALSE /\ resetDue' = FALSE
  BY DEF Restart, state, page, told, resetDue
<1> QED
  BY <1>1 DEF PageStep, P!PageNext, P!Crash

\* ServesThePage: whatever the stream loses, whichever accounts come and go and
\* however many watchers outlive their pages, the page and the session behind it
\* are the ones SignInPage describes, on which SetupPage builds
\* (signin.go:71-130, 208-213, 276-314, 333-349).
THEOREM ImplementsPage == Spec => ServesThePage
<1>1. Init => P!PageInit
  BY DEF Init, P!PageInit, P!FlowInit, state, page, told, resetDue
<1>2. Init => CourseInv /\ PageInv
  BY DEF Init, CourseInv, PageInv, PageEndsForAReason, Paged
<1>3. TypeOK /\ CourseInv /\ PageInv /\ [Next]_vars =>
        [P!PageNext(SomeConnected)]_<<P!flow, P!pageVars>>
  <2> SUFFICES ASSUME TypeOK, CourseInv, PageInv, [Next]_vars
               PROVE  PageStep
    BY DEF PageStep, pageState, P!flow, P!pageVars
  <2> QED
    BY SessionServes, LoopServes, WatcherServes, RestartServes
    DEF Next, Bridge, Loop, Failures
<1> QED
  BY <1>1, <1>2, <1>3, StepCourse, StepPage, TypeInvariant, PTL
  DEF Spec, ServesThePage
==============================================================================
