---------------------------- MODULE SessionProofs ----------------------------
(***************************************************************************)
(* What the Session keeps for every set of handlers and usernames and for  *)
(* any number of sign-ins and aborts.                                      *)
(***************************************************************************)
EXTENDS Session, TLAPS

-----------------------------------------------------------------------------
(* Records.  With these lemmas the steps below need no record type's        *)
(* definition.                                                              *)

\* What the session shows is a Status.
LEMMA StatusTypes ==
  /\ \A state \in State, name \in Name : Shown(state, name) \in Status
  /\ \A s \in Status, state \in State : [s EXCEPT !.state = state] \in Status
  BY DEF Status, Shown

\* The calls are Calls.
LEMMA CallTypes ==
  /\ Ready \in Call
  /\ \A rpc \in Rpc, name \in Name, hv \in BOOLEAN, n \in Nat, s \in BOOLEAN :
       Calling(rpc, name, hv, n, s) \in Call
  /\ \A call \in Call : [call EXCEPT !.at = "called"] \in Call
  BY DEF Call, Ready, Calling, Rpc, Name

\* A sign-in at the bridge stays one when its phase changes.
LEMMA AuthTypes ==
  /\ NoAuth \in Auth
  /\ \A a \in Auth, p \in Phase : [a EXCEPT !.phase = p] \in Auth
  /\ \A a \in Auth, p \in Phase :
       a.wrong < 2 => [a EXCEPT !.phase = p, !.wrong = @ + 1] \in Auth
  /\ \A name \in Name, n \in Nat, s \in BOOLEAN :
       [phase |-> "password", user |-> name, number |-> n, split |-> s,
        wrong |-> 0] \in Auth
<1>1. NoAuth \in Auth
  BY DEF Auth, NoAuth, Phase, Name
<1>2. ASSUME NEW a \in Auth, NEW p \in Phase
      PROVE  [a EXCEPT !.phase = p] \in Auth
  BY DEF Auth
<1>3. ASSUME NEW a \in Auth, NEW p \in Phase, a.wrong < 2
      PROVE  [a EXCEPT !.phase = p, !.wrong = @ + 1] \in Auth
  <2>1. a.wrong + 1 \in 0..2
    BY <1>3 DEF Auth
  <2> QED
    BY <2>1 DEF Auth
<1>4. ASSUME NEW name \in Name, NEW n \in Nat, NEW s \in BOOLEAN
      PROVE  [phase |-> "password", user |-> name, number |-> n,
              split |-> s, wrong |-> 0] \in Auth
  BY DEF Auth, Phase
<1> QED
  BY <1>1, <1>2, <1>3, <1>4

\* A report of the bridge is an event.
LEMMA EmitTypes ==
  ASSUME events \in Seq(Event), NEW kind \in Kind, NEW a \in Auth,
         NEW w \in BOOLEAN, Emit(kind, a, w)
  PROVE  events' \in Seq(Event)
<1>1. [kind |-> kind, number |-> a.number, user |-> a.user,
       split |-> a.split, wasSignedOut |-> w] \in Event
  BY DEF Event, Auth
<1> QED
  BY <1>1 DEF Emit

\* Taking the head of the stream leaves a stream of events.
LEMMA TakeTypes ==
  ASSUME events \in Seq(Event), NEW kind, Take(kind)
  PROVE  /\ events' \in Seq(Event)
         /\ Head(events) \in Event
         /\ Head(events).kind = kind
  BY DEF Take

\* What settleMode writes is a Status.
LEMMA SettledTypes ==
  ASSUME username \in Name, NEW g \in Settle, NEW ok \in BOOLEAN
  PROVE  Settled(g, ok) \in Status
  BY DEF Settled, Status, State, Ended, Settle

-----------------------------------------------------------------------------
(* Types *)

\* The strings the steps use are states.
LEMMA States ==
  /\ {"idle", "awaiting_human_verification", "succeeded", "failed",
      "awaiting_totp", "awaiting_mailbox_password", "awaiting_credentials",
      "setting_mode"} = State
  /\ NoUser \in Name
  /\ User \subseteq Name
  BY DEF State, Ended, Secret, Name

\* Init satisfies the type invariant.
LEMMA InitTypes == Init => TypeOK
<1> SUFFICES ASSUME Init PROVE TypeOK
  OBVIOUS
<1>1. status \in Status
  BY StatusTypes, States DEF Init
<1>2. caller \in [Client -> Call] /\ auth \in Auth
  BY CallTypes, AuthTypes DEF Init
<1>3. events \in Seq(Event) /\ 0 \in Nat
  BY DEF Init
<1> QED
  BY <1>1, <1>2, <1>3, States DEF Init, TypeOK

\* Every step preserves the type invariant.
LEMMA StepTypes == TypeOK /\ [Next]_vars => TypeOK'
<1> SUFFICES ASSUME TypeOK, [Next]_vars PROVE TypeOK'
  OBVIOUS
<1> USE DEF TypeOK, session, bridge, history
<1>1. ASSUME NEW c \in Client, NEW u \in User, NEW split \in BOOLEAN,
             Start(c, u, split)
      PROVE  TypeOK'
  <2>1. status' \in Status
    BY <1>1, StatusTypes, States DEF Start
  <2>2. attempt + 1 \in Nat
    OBVIOUS
  <2>3. caller' \in [Client -> Call]
    <3>1. Calling("Login", u, humanVerified, attempt + 1, split) \in Call
      BY <2>2, CallTypes, States, Zenon DEF Rpc
    <3> QED
      BY <1>1, <3>1 DEF Start
  <2> QED
    BY <1>1, <2>1, <2>2, <2>3, States, Zenon DEF Start
<1>2. ASSUME NEW c \in Client, NEW state, NEW rpc \in Rpc,
             Submit(c, state, rpc)
      PROVE  TypeOK'
  <2>1. status' \in Status
    BY <1>2, StatusTypes, States DEF Submit
  <2>2. caller' \in [Client -> Call]
    <3>1. Calling(rpc, username, FALSE, attempt, FALSE) \in Call
      BY <1>2, CallTypes
    <3> QED
      BY <1>2, <3>1 DEF Submit
  <2> QED
    BY <1>2, <2>1, <2>2 DEF Submit
<1>3. ASSUME NEW c \in Client, SubmitTOTP(c) \/ SubmitMailboxPassword(c)
      PROVE  TypeOK'
  BY <1>2, <1>3 DEF SubmitTOTP, SubmitMailboxPassword, Rpc
<1>4. ASSUME NEW c \in Client, Abort(c)
      PROVE  TypeOK'
  <2>1. status' \in Status
    BY <1>4, StatusTypes, States DEF Abort
  <2>2. caller' \in [Client -> Call]
    <3>1. Calling("LoginAbort", username, FALSE, attempt, FALSE) \in Call
      BY CallTypes DEF Rpc
    <3> QED
      BY <1>4, <3>1 DEF Abort
  <2>3. aborts + 1 \in Nat
    OBVIOUS
  <2> QED
    BY <1>4, <2>1, <2>2, <2>3, Zenon DEF Abort
<1>5. ASSUME NEW c \in Client, Receive(c)
      PROVE  TypeOK'
  <2>1. caller[c] \in Call
    OBVIOUS
  <2>2. caller' \in [Client -> Call]
    BY <1>5, <2>1, CallTypes DEF Receive
  <2>3. ASSUME NEW phase, NEW next \in Phase, TakeSecret(phase, next)
        PROVE  auth' \in Auth /\ events' \in Seq(Event)
    BY <2>3, AuthTypes, EmitTypes DEF TakeSecret, Kind
  <2>4. auth' \in Auth /\ events' \in Seq(Event)
    <3>1. CASE caller[c].rpc = "Login"
      <4>1. auth' = [phase |-> "password", user |-> caller[c].user,
                     number |-> caller[c].number, split |-> caller[c].split,
                     wrong |-> 0]
            /\ events' = events
        BY <1>5, <3>1 DEF Receive
      <4>2. /\ caller[c].user \in Name
            /\ caller[c].number \in Nat
            /\ caller[c].split \in BOOLEAN
        BY <2>1 DEF Call
      <4> QED
        BY <4>1, <4>2, AuthTypes
    <3>2. CASE caller[c].rpc = "Login2FA"
      BY <1>5, <2>3, <3>2 DEF Receive, Phase
    <3>3. CASE caller[c].rpc = "Login2Passwords"
      BY <1>5, <2>3, <3>3 DEF Receive, Phase
    <3>4. CASE caller[c].rpc = "LoginAbort"
      BY <1>5, <3>4, AuthTypes DEF Receive
    <3> QED
      BY <1>5, <3>1, <3>2, <3>3, <3>4 DEF Receive
  <2> QED
    BY <1>5, <2>2, <2>4 DEF Receive
<1>6. ASSUME NEW c \in Client, Returns(c)
      PROVE  TypeOK'
  BY <1>6, CallTypes DEF Returns
<1>7. ASSUME NEW c \in Client, ReturnsError(c)
      PROVE  TypeOK'
  <2>1. status' \in Status
    BY <1>7, StatusTypes, States DEF ReturnsError, Fail
  <2>2. caller' \in [Client -> Call]
    BY <1>7, CallTypes DEF ReturnsError
  <2> QED
    BY <1>7, <2>1, <2>2 DEF ReturnsError
<1>8. ASSUME Bridge
      PROVE  TypeOK'
  <2>1. CASE BridgeAsks
    <3>1. auth' \in Auth
      BY <2>1, AuthTypes DEF BridgeAsks, Phase
    <3>2. events' \in Seq(Event)
      BY <2>1, EmitTypes DEF BridgeAsks, Kind
    <3> QED
      BY <2>1, <3>1, <3>2 DEF BridgeAsks
  <2>2. CASE BridgeEnds
    <3>1. events' \in Seq(Event)
      BY <2>2, EmitTypes DEF BridgeEnds, Kind
    <3> QED
      BY <2>2, <3>1, AuthTypes DEF BridgeEnds
  <2>3. CASE BridgeRejectsMailbox
    <3>1. auth' \in Auth
      BY <2>3, AuthTypes DEF BridgeRejectsMailbox, Phase
    <3>2. events' \in Seq(Event)
      BY <2>3, EmitTypes DEF BridgeRejectsMailbox, Kind
    <3> QED
      BY <2>3, <3>1, <3>2 DEF BridgeRejectsMailbox
  <2> QED
    BY <1>8, <2>1, <2>2, <2>3 DEF Bridge
<1>9. ASSUME HandleError PROVE TypeOK'
  <2>1. status' \in Status
    BY <1>9, StatusTypes, States DEF HandleError, Fail
  <2> QED
    BY <1>9, <2>1, TakeTypes DEF HandleError, Take
<1>10. ASSUME NEW kind, NEW state \in State, Await(kind, state)
       PROVE  TypeOK'
  <2>1. status' \in Status
    BY <1>10, StatusTypes DEF Await
  <2> QED
    BY <1>10, <2>1, TakeTypes DEF Await, Take
<1>11. ASSUME HandleHvRequested PROVE TypeOK'
  <2>1. status' \in Status
    BY <1>11, StatusTypes, States DEF HandleHvRequested
  <2> QED
    BY <1>11, <2>1, TakeTypes DEF HandleHvRequested, Take
<1>12. ASSUME HandleFinished PROVE TypeOK'
  <2>1. status' \in Status
    BY <1>12, StatusTypes, States DEF HandleFinished
  <2>2. Head(events) \in Event /\ events' \in Seq(Event)
    BY <1>12, TakeTypes DEF HandleFinished
  <2>3. settling' \subseteq Settle /\ finished' \in Nat
    <3> DEFINE e == Head(events)
               g == [number |-> e.number, user |-> e.user,
                     newAccount |-> ~e.wasSignedOut, split |-> splitAddresses,
                     meant |-> e.split]
    <3>1. /\ e.number \in Nat /\ e.user \in Name
          /\ e.split \in BOOLEAN /\ e.wasSignedOut \in BOOLEAN
      BY <2>2 DEF Event
    <3>2. g \in Settle
      BY <3>1, Zenon DEF Settle
    <3> QED
      BY <1>12, <3>1, <3>2 DEF HandleFinished
  <2> QED
    BY <1>12, <2>1, <2>2, <2>3 DEF HandleFinished, Take
<1>13. ASSUME HandleAlreadyLoggedIn PROVE TypeOK'
  <2>1. status' \in Status
    BY <1>13, StatusTypes, States DEF HandleAlreadyLoggedIn
  <2> QED
    BY <1>13, <2>1, TakeTypes DEF HandleAlreadyLoggedIn, Take
<1>14. ASSUME NEW g \in settling, NEW ok \in BOOLEAN, SettleMode(g, ok)
       PROVE  TypeOK'
  <2>1. status' \in Status
    BY <1>14, SettledTypes DEF SettleMode
  <2> QED
    BY <1>14, <2>1 DEF SettleMode
<1>15. ASSUME WatcherSees \/ Reset PROVE TypeOK'
  <2>1. status' \in Status
    BY <1>15, StatusTypes, States DEF WatcherSees, Reset
  <2> QED
    BY <1>15, <2>1, States DEF WatcherSees, Reset
<1>16. ASSUME UNCHANGED vars PROVE TypeOK'
  BY <1>16 DEF vars
<1>17. ASSUME Handle PROVE TypeOK'
  BY <1>9, <1>10, <1>11, <1>12, <1>13, <1>17, States
     DEF Handle, HandleTfaRequested, HandleTwoPasswordRequested
<1> QED
  BY <1>1, <1>3, <1>4, <1>5, <1>6, <1>7, <1>8, <1>14, <1>15, <1>16, <1>17
     DEF Next, Handler, Rpcs, Settler

\* Types, for every instance.
THEOREM TypeInvariant == Spec => []TypeOK
  BY InitTypes, StepTypes, PTL DEF Spec

-----------------------------------------------------------------------------
(* Success, requests and the wait for a mode *)

\* The three invariants with the one fact that makes them inductive.
Honest ==
  /\ SettingModeIsServed
  /\ NoInventedSuccess
  /\ OneAnswerPerRequest
  /\ AnswersFollowRequests

LEMMA InitHonest == Init => Honest
  BY DEF Init, Shown, Honest, SettingModeIsServed, NoInventedSuccess,
         OneAnswerPerRequest, AnswersFollowRequests, Secret

\* What a status shows.
LEMMA ShownState == \A state, name : Shown(state, name).state = state
  BY DEF Shown

LEMMA StepHonest == TypeOK /\ Honest /\ [Next]_vars => Honest'
<1> SUFFICES ASSUME TypeOK, Honest, [Next]_vars PROVE Honest'
  OBVIOUS
<1> USE DEF Honest, SettingModeIsServed, NoInventedSuccess,
            OneAnswerPerRequest, AnswersFollowRequests, Secret, session,
            bridge, history
\* A step that shows a state which promises nothing.
<1>1. ASSUME status'.state \in State \ (Secret \cup {"setting_mode", "succeeded"}),
             asks' = asks, lastAnswered' \in {lastAnswered, asks}
      PROVE  Honest'
  BY <1>1 DEF TypeOK
\* A step that shows what was shown before.
<1>2. ASSUME UNCHANGED <<status, settling, finished, confirmed, asks,
                         lastAnswered>>
      PROVE  Honest'
  BY <1>2
<1>3. ASSUME NEW c \in Client, Handler(c)
      PROVE  Honest'
  <2>1. ASSUME NEW u \in User, NEW split \in BOOLEAN, Start(c, u, split)
        PROVE  Honest'
    BY <1>1, <2>1, ShownState, States DEF Start
  <2>2. ASSUME NEW state, NEW rpc, Submit(c, state, rpc)
        PROVE  Honest'
    <3>1. status'.state = "awaiting_credentials"
      BY <2>2 DEF Submit, TypeOK, Status
    <3> QED
      BY <1>1, <2>2, <3>1, States DEF Submit
  <2>3. CASE Abort(c)
    BY <1>1, <2>3, ShownState, States DEF Abort
  <2> QED
    BY <1>3, <2>1, <2>2, <2>3 DEF Handler, SubmitTOTP, SubmitMailboxPassword
<1>4. ASSUME NEW c \in Client, Rpcs(c)
      PROVE  Honest'
  <2>1. CASE Receive(c) \/ Returns(c)
    BY <1>2, <2>1 DEF Receive, Returns
  <2>2. CASE ReturnsError(c)
    <3>1. CASE caller[c].rpc = "LoginAbort"
      BY <1>2, <2>2, <3>1 DEF ReturnsError
    <3>2. CASE caller[c].rpc # "LoginAbort"
      BY <1>1, <2>2, <3>2, ShownState, States DEF ReturnsError, Fail
    <3> QED
      BY <3>1, <3>2
  <2> QED
    BY <1>4, <2>1, <2>2 DEF Rpcs
<1>5. ASSUME Bridge
      PROVE  Honest'
  BY <1>2, <1>5 DEF Bridge, BridgeAsks, BridgeEnds, BridgeRejectsMailbox
<1>6. ASSUME Handle
      PROVE  Honest'
  <2>1. CASE HandleError
    BY <1>1, <2>1, ShownState, States DEF HandleError, Fail, Take
  <2>2. ASSUME NEW kind, NEW state \in Secret, Await(kind, state)
        PROVE  Honest'
    <3>1. lastAnswered' < asks' /\ lastAnswered' <= asks'
      BY <2>2 DEF Await, Take, TypeOK
    <3>2. status'.state \in Secret
      BY <2>2, ShownState DEF Await
    <3> QED
      BY <3>1, <3>2
  <2>3. CASE HandleHvRequested
    BY <1>1, <2>3, ShownState, States DEF HandleHvRequested, Take
  <2>4. CASE HandleFinished
    <3>1. \E g \in settling' : g.number = finished'
      <4> DEFINE e == Head(events)
                 g == [number |-> e.number, user |-> e.user,
                       newAccount |-> ~e.wasSignedOut,
                       split |-> splitAddresses, meant |-> e.split]
      <4>1. g \in settling' /\ finished' = e.number
        BY <2>4 DEF HandleFinished
      <4>2. g.number = e.number
        OBVIOUS
      <4> QED
        BY <4>1, <4>2
    <3>2. status'.state = "setting_mode" /\ confirmed'
      BY <2>4, ShownState DEF HandleFinished
    <3>3. UNCHANGED <<asks, lastAnswered>>
      BY <2>4 DEF HandleFinished, Take
    <3> QED
      BY <3>1, <3>2, <3>3
  <2>5. CASE HandleAlreadyLoggedIn
    BY <2>5, ShownState DEF HandleAlreadyLoggedIn, Take
  <2> QED
    BY <1>6, <2>1, <2>2, <2>3, <2>4, <2>5
       DEF Handle, HandleTfaRequested, HandleTwoPasswordRequested
<1>7. ASSUME NEW g \in settling, NEW ok \in BOOLEAN, SettleMode(g, ok)
      PROVE  Honest'
  <2>1. CASE status.state = "setting_mode"
    BY <1>7, <2>1 DEF SettleMode, Settled
  <2>2. CASE status.state # "setting_mode"
    BY <1>7, <2>2 DEF SettleMode
  <2> QED
    BY <2>1, <2>2
<1>8. CASE WatcherSees
  BY <1>2, <1>8 DEF WatcherSees
<1>9. CASE Reset
  BY <1>1, <1>9, ShownState, States DEF Reset
<1>10. CASE UNCHANGED vars
  BY <1>2, <1>10 DEF vars
<1> QED
  BY <1>3, <1>4, <1>5, <1>6, <1>7, <1>8, <1>9, <1>10 DEF Next, Settler

\* "setting_mode", which refuses every Start, always has the goroutine that
\* will end it; a success is shown only when the bridge reported one since the
\* last Start; a request for a secret is answered at most once.
THEOREM HonestStatus ==
  Spec => [](SettingModeIsServed /\ NoInventedSuccess /\ OneAnswerPerRequest)
<1>1. Honest => SettingModeIsServed /\ NoInventedSuccess /\ OneAnswerPerRequest
  BY DEF Honest
<1> QED
  BY <1>1, TypeInvariant, InitHonest, StepHonest, PTL DEF Spec

\* The goroutine that ends setting_mode runs while it is shown, however late the
\* result of another one comes (login.go:365-443).
THEOREM SettingModeStaysServed == Spec => []SettingModeIsServed
  BY HonestStatus, PTL

\* A request for a code or a password is answered once, by whichever handler comes
\* first, for any number of them (login.go:215-269).
THEOREM AnsweredOnce == Spec => []OneAnswerPerRequest
  BY HonestStatus, PTL

-----------------------------------------------------------------------------
(* One sign-in at a time *)

LEMMA InitAlone == Init => AloneInv
  BY DEF Init, AloneInv, Alone, CallIsAlone, WorkIsAlone, EventIsAlone,
         RequestIsHeld, WaitingIsForSomething, SettlerIsAlone, Working, Shown,
         NoAuth, Ready

\* Nothing is on its way unless the session waits for the bridge.
LEMMA NothingOnItsWay ==
  ASSUME Alone, status.state # "awaiting_credentials"
  PROVE  /\ events = <<>>
         /\ ~Working
         /\ \A c \in Client : caller[c].at # "calling"
  BY DEF Alone, CallIsAlone, WorkIsAlone, EventIsAlone

\* A disturbance is forgotten only where a sign-in begins with nothing of an
\* earlier one on its way.
Afresh == \E c \in Client, u \in User, split \in BOOLEAN :
            Quiet /\ Start(c, u, split)

LEMMA DisturbedStays == [Next]_vars /\ ~disturbed' => ~disturbed \/ Afresh
<1> SUFFICES ASSUME [Next]_vars, ~disturbed', disturbed PROVE Afresh
  OBVIOUS
<1>1. ASSUME NEW c \in Client, Handler(c) PROVE Afresh
  BY <1>1 DEF Handler, Start, Afresh, Submit, SubmitTOTP,
     SubmitMailboxPassword, Abort
<1> QED
  BY <1>1 DEF Next, vars, history, Rpcs, Receive, Returns, ReturnsError,
     Bridge, BridgeAsks, BridgeEnds, BridgeRejectsMailbox, Handle,
     HandleError, HandleTfaRequested, HandleTwoPasswordRequested, Await,
     HandleHvRequested, HandleFinished, HandleAlreadyLoggedIn, Take,
     Settler, SettleMode, WatcherSees, Reset

\* Whatever went before, a sign-in that begins so is alone.
LEMMA AfreshAlone ==
  ASSUME TypeOK, NEW c \in Client, NEW u \in User, NEW split \in BOOLEAN,
         Quiet, Start(c, u, split)
  PROVE  Alone'
<1> USE DEF TypeOK, bridge
<1> DEFINE call == Calling("Login", u, humanVerified, attempt + 1, split)
<1>1. /\ events = <<>>
      /\ ~Working
      /\ \A d \in Client : caller[d].at # "calling"
      /\ settling = {}
  BY DEF Quiet, InFlight, CallPending
<1>2. /\ call.at = "calling"
      /\ call.rpc = "Login"
      /\ call.number = attempt + 1
      /\ call.split = split
  BY DEF Calling
<1>3. /\ status'.state = "awaiting_credentials"
      /\ splitAddresses' = split
      /\ attempt' = attempt + 1
      /\ caller' = [caller EXCEPT ![c] = call]
      /\ UNCHANGED <<auth, events, settling>>
  BY ShownState DEF Start
<1>4. CallIsAlone'
  BY <1>1, <1>2, <1>3 DEF CallIsAlone, Working
<1>5. WaitingIsForSomething'
  BY <1>2, <1>3 DEF WaitingIsForSomething, InFlight, CallPending
<1> QED
  BY <1>1, <1>3, <1>4, <1>5
     DEF Alone, WorkIsAlone, Working, EventIsAlone, RequestIsHeld,
         SettlerIsAlone

\* A step of a handler.
LEMMA HandlerAlone ==
  ASSUME TypeOK, Alone, NEW c \in Client, Handler(c), ~disturbed'
  PROVE  Alone'
<1> USE DEF TypeOK, bridge
<1>1. ASSUME NEW u \in User, NEW split \in BOOLEAN, Start(c, u, split)
      PROVE  Alone'
  <2>1. status.state \in Ended
    BY <1>1 DEF Start, MayStart
  <2>2. /\ events = <<>>
        /\ ~Working
        /\ \A d \in Client : caller[d].at # "calling"
    BY <2>1, NothingOnItsWay DEF Ended
  <2>3. settling = {}
    BY <2>1 DEF Alone, SettlerIsAlone, Ended
  <2> QED
    BY <1>1, <2>2, <2>3, AfreshAlone DEF Quiet, InFlight, CallPending
<1>2. ASSUME NEW state \in Secret, NEW rpc, Submit(c, state, rpc),
             \/ state = "awaiting_totp" /\ rpc = "Login2FA"
             \/ state = "awaiting_mailbox_password" /\ rpc = "Login2Passwords"
      PROVE  Alone'
  <2> DEFINE call == Calling(rpc, username, FALSE, attempt, FALSE)
  <2>1. status.state = state /\ state # "awaiting_credentials"
    BY <1>2 DEF Submit, Secret
  <2>2. /\ events = <<>>
        /\ ~Working
        /\ \A d \in Client : caller[d].at # "calling"
    BY <2>1, NothingOnItsWay
  <2>3. call.at = "calling" /\ call.rpc = rpc
    BY DEF Calling
  <2>4. /\ status'.state = "awaiting_credentials"
        /\ caller' = [caller EXCEPT ![c] = call]
        /\ UNCHANGED <<auth, events, settling, attempt, splitAddresses>>
    BY <1>2 DEF Submit, Status
  <2>5. settling = {}
    BY <1>2, <2>1 DEF Alone, SettlerIsAlone, Secret
  <2>6. \/ rpc = "Login2FA" /\ Holds({"await_code"})
        \/ rpc = "Login2Passwords" /\ Holds({"await_mailbox"})
    BY <1>2, <2>1 DEF Alone, RequestIsHeld
  <2>7. CallIsAlone'
    BY <2>2, <2>3, <2>4, <2>6 DEF CallIsAlone, Working, Holds
  <2>8. WaitingIsForSomething'
    BY <2>3, <2>4 DEF WaitingIsForSomething, InFlight, CallPending
  <2> QED
    BY <2>2, <2>4, <2>5, <2>7, <2>8
       DEF Alone, WorkIsAlone, Working, EventIsAlone, RequestIsHeld,
           SettlerIsAlone
<1>3. ~Abort(c)
  BY DEF Abort
<1> QED
  BY <1>1, <1>2, <1>3
     DEF Handler, SubmitTOTP, SubmitMailboxPassword, Secret

\* The bridge receives a call.
LEMMA ReceiveAlone ==
  ASSUME TypeOK, Alone, NEW c \in Client, Receive(c)
  PROVE  Alone'
<1> USE DEF TypeOK, session, history
<1>1. /\ caller[c].at = "calling"
      /\ status.state = "awaiting_credentials"
      /\ events = <<>>
      /\ \A d \in Client : caller[d].at = "calling" => c = d
  BY DEF Receive, Alone, CallIsAlone
<1>2. /\ \A d \in Client : caller'[d].at # "calling"
      /\ UNCHANGED <<status, attempt, splitAddresses, settling>>
  BY <1>1 DEF Receive, Call
<1>3. settling = {}
  BY <1>1 DEF Alone, SettlerIsAlone
<1>4. /\ events' = <<>>
      /\ Holds({"password", "code", "mailbox"})'
  <2>1. CASE /\ caller[c].rpc = "Login"
             /\ caller[c].number = attempt
             /\ caller[c].split = splitAddresses
    BY <1>1, <1>2, <2>1 DEF Receive, Holds
  <2>2. CASE caller[c].rpc = "Login2FA" /\ Holds({"await_code"})
    <3>1. auth' = [auth EXCEPT !.phase = "code"] /\ events' = events
      BY <2>2 DEF Receive, TakeSecret, Holds
    <3> QED
      BY <1>1, <1>2, <2>2, <3>1 DEF Holds, Auth
  <2>3. CASE caller[c].rpc = "Login2Passwords" /\ Holds({"await_mailbox"})
    <3>1. auth' = [auth EXCEPT !.phase = "mailbox"] /\ events' = events
      BY <2>3 DEF Receive, TakeSecret, Holds
    <3> QED
      BY <1>1, <1>2, <2>3, <3>1 DEF Holds, Auth
  <2> QED
    BY <1>1, <2>1, <2>2, <2>3 DEF Alone, CallIsAlone
<1> QED
  BY <1>1, <1>2, <1>3, <1>4
     DEF Alone, CallIsAlone, WorkIsAlone, Working, Holds, EventIsAlone,
         RequestIsHeld, WaitingIsForSomething, InFlight, SettlerIsAlone, Phase

\* The bridge reports: its work becomes the one event on its way.
LEMMA BridgeAlone ==
  ASSUME TypeOK, Alone, Bridge
  PROVE  Alone'
<1> USE DEF TypeOK, session, history
<1>1. /\ Working
      /\ UNCHANGED <<status, splitAddresses, attempt, caller, settling>>
  BY DEF Bridge, BridgeAsks, BridgeEnds, BridgeRejectsMailbox, Working
<1>2. /\ status.state = "awaiting_credentials"
      /\ events = <<>>
      /\ Holds(Phase)
      /\ \A c \in Client : caller[c].at # "calling"
      /\ settling = {}
  BY <1>1 DEF Alone, WorkIsAlone, CallIsAlone, SettlerIsAlone
<1>3. PICK kind \in Kind, w \in BOOLEAN : Emit(kind, auth, w)
  <2>1. CASE BridgeAsks
    BY <2>1, Zenon DEF BridgeAsks, Kind
  <2>2. CASE BridgeEnds
    BY <2>2, Zenon DEF BridgeEnds, Kind
  <2>3. CASE BridgeRejectsMailbox
    BY <2>3, Zenon DEF BridgeRejectsMailbox, Kind
  <2> QED
    BY <2>1, <2>2, <2>3 DEF Bridge
<1>4. /\ events' # <<>>
      /\ Len(events') = 1
      /\ events'[1] = [kind |-> kind, number |-> auth.number,
                       user |-> auth.user, split |-> auth.split,
                       wasSignedOut |-> w]
  BY <1>2, <1>3 DEF Emit
<1>5. ~Working'
  <2>1. auth'.phase \in {"none", "await_code", "await_mailbox"}
    <3>1. CASE BridgeAsks
      BY <3>1 DEF BridgeAsks, Auth
    <3>2. CASE BridgeEnds
      BY <3>2 DEF BridgeEnds, NoAuth
    <3>3. CASE BridgeRejectsMailbox
      BY <3>3 DEF BridgeRejectsMailbox, Auth
    <3> QED
      BY <3>1, <3>2, <3>3 DEF Bridge
  <2> QED
    BY <2>1 DEF Working
<1>6. /\ kind = "tfa" => Holds({"await_code"})'
      /\ kind = "two_password" => Holds({"await_mailbox"})'
  <2>1. CASE BridgeAsks
    <3>1. \/ kind = "tfa" /\ auth' = [auth EXCEPT !.phase = "await_code"]
          \/ /\ kind = "two_password"
             /\ auth' = [auth EXCEPT !.phase = "await_mailbox"]
      <4>1. \/ /\ auth' = [auth EXCEPT !.phase = "await_code"]
               /\ Emit("tfa", auth, FALSE)
            \/ /\ auth' = [auth EXCEPT !.phase = "await_mailbox"]
               /\ Emit("two_password", auth, FALSE)
        BY <2>1 DEF BridgeAsks
      <4>2. ASSUME NEW k, Emit(k, auth, FALSE) PROVE k = kind
        <5>1. events'[1] = [kind |-> k, number |-> auth.number,
                            user |-> auth.user, split |-> auth.split,
                            wasSignedOut |-> FALSE]
          BY <1>2, <4>2 DEF Emit
        <5>2. events'[1].kind = k
          BY <5>1
        <5>3. events'[1].kind = kind
          BY <1>4
        <5> QED
          BY <5>2, <5>3
      <4> QED
        BY <4>1, <4>2
    <3> QED
      BY <1>1, <1>2, <3>1 DEF Holds, Auth
  <2>2. CASE BridgeEnds \/ BridgeRejectsMailbox
    <3>1. \E k \in {"error", "hv", "already", "finished"}, v \in BOOLEAN :
            Emit(k, auth, v)
      BY <2>2 DEF BridgeEnds, BridgeRejectsMailbox
    <3>2. PICK k \in {"error", "hv", "already", "finished"}, v \in BOOLEAN :
            Emit(k, auth, v)
      BY <3>1
    <3>3. events'[1] = [kind |-> k, number |-> auth.number,
                        user |-> auth.user, split |-> auth.split,
                        wasSignedOut |-> v]
      BY <1>2, <3>2 DEF Emit
    <3>4. events'[1].kind = k
      BY <3>3
    <3>5. events'[1].kind = kind
      BY <1>4
    <3> QED
      BY <3>4, <3>5
  <2> QED
    BY <2>1, <2>2 DEF Bridge
<1>7. EventIsAlone'
  <2>1. /\ events'[1].number = attempt
        /\ events'[1].split = splitAddresses
        /\ events'[1].kind = kind
    BY <1>2, <1>4 DEF Holds
  <2> QED
    BY <1>1, <1>2, <1>4, <1>6, <2>1 DEF EventIsAlone
<1> QED
  BY <1>1, <1>2, <1>4, <1>5, <1>7
     DEF Alone, CallIsAlone, WorkIsAlone, RequestIsHeld,
         WaitingIsForSomething, InFlight, SettlerIsAlone

\* The session handles the one event on its way.
LEMMA HandleAlone ==
  ASSUME TypeOK, Alone, Handle
  PROVE  Alone'
<1> USE DEF TypeOK
<1>1. PICK kind \in Kind : Take(kind)
  BY DEF Handle, HandleError, HandleTfaRequested, HandleTwoPasswordRequested,
         Await, HandleHvRequested, HandleFinished, HandleAlreadyLoggedIn, Kind
<1>2. /\ status.state = "awaiting_credentials"
      /\ Len(events) = 1
      /\ events[1].number = attempt
      /\ events[1].split = splitAddresses
      /\ Head(events) = events[1]
      /\ events' = <<>>
  BY <1>1 DEF Take, Alone, EventIsAlone
<1>3. /\ ~Working
      /\ \A c \in Client : caller[c].at # "calling"
      /\ settling = {}
      /\ UNCHANGED <<auth, caller, attempt, splitAddresses>>
  BY <1>1, <1>2 DEF Take, Alone, WorkIsAlone, CallIsAlone, SettlerIsAlone
<1>4. /\ status'.state # "awaiting_credentials"
      /\ RequestIsHeld'
  <2>1. CASE HandleError \/ HandleHvRequested \/ HandleFinished
             \/ HandleAlreadyLoggedIn
    BY <2>1, ShownState DEF HandleError, Fail, HandleHvRequested,
       HandleFinished, HandleAlreadyLoggedIn, RequestIsHeld
  <2>2. CASE HandleTfaRequested
    <3>1. Holds({"await_code"})
      BY <1>2, <2>2 DEF HandleTfaRequested, Await, Take, Alone, EventIsAlone
    <3> QED
      BY <1>3, <2>2, <3>1, ShownState DEF HandleTfaRequested, Await,
         RequestIsHeld, Holds
  <2>3. CASE HandleTwoPasswordRequested
    <3>1. Holds({"await_mailbox"})
      BY <1>2, <2>3 DEF HandleTwoPasswordRequested, Await, Take, Alone,
         EventIsAlone
    <3> QED
      BY <1>3, <2>3, <3>1, ShownState DEF HandleTwoPasswordRequested, Await,
         RequestIsHeld, Holds
  <2> QED
    BY <2>1, <2>2, <2>3 DEF Handle
<1>5. SettlerIsAlone'
  <2>1. CASE HandleFinished
    <3> DEFINE g == [number |-> events[1].number, user |-> events[1].user,
                     newAccount |-> ~events[1].wasSignedOut,
                     split |-> splitAddresses, meant |-> events[1].split]
    <3>1. settling' = {g} /\ status'.state = "setting_mode"
      BY <1>2, <1>3, <2>1, ShownState DEF HandleFinished
    <3>2. /\ g.split = splitAddresses
          /\ g.meant = splitAddresses
          /\ g.number = attempt
      BY <1>2
    <3> QED
      BY <1>3, <3>1, <3>2 DEF SettlerIsAlone
  <2>2. CASE ~HandleFinished
    <3>1. settling' = settling
      BY <2>2 DEF Handle, HandleError, HandleTfaRequested,
         HandleTwoPasswordRequested, Await, HandleHvRequested,
         HandleAlreadyLoggedIn
    <3> QED
      BY <1>3, <3>1 DEF SettlerIsAlone
  <2> QED
    BY <2>1, <2>2
<1> QED
  BY <1>2, <1>3, <1>4, <1>5
     DEF Alone, CallIsAlone, WorkIsAlone, Working, EventIsAlone,
         WaitingIsForSomething

\* A settleMode goroutine ends.
LEMMA SettlerAlone ==
  ASSUME TypeOK, Alone, NEW g \in settling, NEW ok, SettleMode(g, ok)
  PROVE  Alone'
<1>1. settling = {g} /\ status.state = "setting_mode"
  BY DEF Alone, SettlerIsAlone
<1>2. /\ settling' = {}
      /\ status'.state = "succeeded"
      /\ UNCHANGED <<auth, events, caller, attempt, splitAddresses>>
  BY <1>1 DEF SettleMode, Settled, bridge, history
<1>3. /\ events = <<>>
      /\ ~Working
      /\ \A c \in Client : caller[c].at # "calling"
  BY <1>1, NothingOnItsWay
<1> QED
  BY <1>2, <1>3
     DEF Alone, CallIsAlone, WorkIsAlone, Working, EventIsAlone,
         RequestIsHeld, WaitingIsForSomething, SettlerIsAlone

\* A watcher resets a session that shows a success still, or nothing again.
LEMMA ResetAlone ==
  ASSUME TypeOK, Alone, Reset, ~disturbed'
  PROVE  Alone'
<1>1. status.state \in {"idle", "succeeded"}
  BY DEF Reset, TypeOK
<1>2. /\ settling = {}
      /\ events = <<>>
      /\ ~Working
      /\ \A c \in Client : caller[c].at # "calling"
  BY <1>1, NothingOnItsWay DEF Alone, SettlerIsAlone
<1>3. /\ status'.state = "idle"
      /\ UNCHANGED <<auth, events, caller, settling>>
  BY ShownState DEF Reset, bridge
<1> QED
  BY <1>2, <1>3
     DEF Alone, CallIsAlone, WorkIsAlone, Working, EventIsAlone,
         RequestIsHeld, WaitingIsForSomething, SettlerIsAlone

\* A step that nothing disturbs leaves a sign-in alone.
LEMMA KeepsAlone ==
  ASSUME TypeOK, Alone, [Next]_vars, ~disturbed'
  PROVE  Alone'
<1>1. ASSUME UNCHANGED <<status, splitAddresses, attempt, auth, events,
                         settling>>,
             \A c \in Client : /\ caller'[c].at = "calling" <=>
                                    caller[c].at = "calling"
                               /\ caller'[c].at = "calling" =>
                                    caller'[c] = caller[c]
      PROVE  Alone'
  BY <1>1
     DEF Alone, CallIsAlone, WorkIsAlone, Working, EventIsAlone, Holds,
         RequestIsHeld, WaitingIsForSomething, InFlight, CallPending,
         SettlerIsAlone
<1>2. ASSUME NEW c \in Client, Rpcs(c)
      PROVE  Alone'
  <2>1. CASE Receive(c)
    BY <2>1, ReceiveAlone
  <2>2. CASE Returns(c)
    BY <1>1, <2>2 DEF Returns, Ready, TypeOK, session, bridge, history
  <2>3. ~ReturnsError(c)
    BY DEF ReturnsError
  <2> QED
    BY <1>2, <2>1, <2>2, <2>3 DEF Rpcs
<1>3. CASE WatcherSees \/ UNCHANGED vars
  BY <1>1, <1>3 DEF WatcherSees, vars, session, bridge, history
<1> QED
  BY <1>2, <1>3, HandlerAlone, BridgeAlone, HandleAlone, SettlerAlone,
     ResetAlone
     DEF Next, Settler

LEMMA StepAlone == TypeOK /\ AloneInv /\ [Next]_vars => AloneInv'
<1> SUFFICES ASSUME TypeOK, AloneInv, [Next]_vars, ~disturbed'
             PROVE  Alone'
  BY DEF AloneInv
<1>1. CASE ~disturbed
  BY <1>1, KeepsAlone DEF AloneInv
<1>2. CASE Afresh
  BY <1>2, AfreshAlone DEF Afresh
<1> QED
  BY <1>1, <1>2, DisturbedStays

\* While nobody aborts, no call fails and no Reset comes late, the sign-in
\* last started is the only one anything is on its way for.
THEOREM OneSignInAtATime == Spec => []SignInIsAlone
<1>1. TypeOK /\ AloneInv => SignInIsAlone
  <2> SUFFICES ASSUME TypeOK, Alone, ~disturbed
               PROVE  SignInIsAlone
    BY DEF AloneInv, SignInIsAlone
  <2>1. InFlight <=> status.state = "awaiting_credentials"
    BY DEF Alone, WaitingIsForSomething, InFlight, CallPending, CallIsAlone,
           WorkIsAlone, EventIsAlone
  <2>2. Len(events) + (IF Working THEN 1 ELSE 0)
          + (IF CallPending THEN 1 ELSE 0) <= 1
    <3>1. CASE CallPending
      <4>1. events = <<>> /\ ~Working
        BY <3>1 DEF CallPending, Alone, CallIsAlone
      <4>2. Len(events) = 0
        BY <4>1
      <4> QED
        BY <3>1, <4>1, <4>2
    <3>2. CASE ~CallPending /\ events = <<>>
      BY <3>2
    <3>3. CASE ~CallPending /\ events # <<>>
      <4>1. Len(events) = 1 /\ ~Working
        BY <3>3 DEF Alone, EventIsAlone, WorkIsAlone
      <4> QED
        BY <3>3, <4>1
    <3> QED
      BY <3>1, <3>2, <3>3
  <2>3. \A c, d \in Client :
          caller[c].at = "calling" /\ caller[d].at = "calling" => c = d
    BY DEF Alone, CallIsAlone
  <2>4. \A i \in DOMAIN events : events[i].number = attempt
    BY DEF Alone, EventIsAlone, TypeOK
  <2> QED
    BY <2>1, <2>2, <2>3, <2>4 DEF SignInIsAlone
<1> QED
  BY <1>1, TypeInvariant, InitAlone, StepAlone, PTL DEF Spec

\* Under the same condition an account gets the answer given with its own
\* sign-in, and the page the result of the sign-in it shows.
THEOREM OwnResultAlways == Spec => []OwnResult
<1>1. AloneInv => OwnResult
  BY DEF AloneInv, Alone, SettlerIsAlone, OwnResult
<1> QED
  BY <1>1, TypeInvariant, InitAlone, StepAlone, PTL DEF Spec

-----------------------------------------------------------------------------
(* The course of a sign-in *)

LEMMA InitFlow == Init => Flow!FlowInit
  BY ShownState DEF Init, Flow!FlowInit

LEMMA StepFlow == TypeOK /\ AloneInv /\ [Next]_vars => [Flow!FlowNext]_(Flow!flow)
<1> SUFFICES ASSUME TypeOK, AloneInv, [Next]_vars
             PROVE  Flow!FlowNext \/ UNCHANGED <<status.state, disturbed>>
  BY DEF Flow!flow
<1>1. ASSUME NEW c \in Client, Handler(c)
      PROVE  Flow!FlowNext
  <2>1. ASSUME NEW u \in User, NEW split \in BOOLEAN, Start(c, u, split)
        PROVE  Flow!Begin
    BY <2>1, ShownState
       DEF Start, MayStart, Ended, Flow!Begin, Flow!Ended
  <2>2. ASSUME NEW state \in Secret, NEW rpc, Submit(c, state, rpc)
        PROVE  Flow!Answer
    BY <2>2 DEF Submit, Secret, TypeOK, Status, Flow!Answer, Flow!Secret
  <2>3. CASE Abort(c)
    BY <2>3, ShownState DEF Abort, Flow!GiveUp, Flow!FlowNext
  <2> QED
    BY <1>1, <2>1, <2>2, <2>3
       DEF Handler, SubmitTOTP, SubmitMailboxPassword, Secret, Flow!FlowNext
<1>2. ASSUME NEW c \in Client, ReturnsError(c)
      PROVE  Flow!CallFails
  BY <1>2, ShownState DEF ReturnsError, Fail, Flow!CallFails
<1>3. CASE Handle
  <2>1. \E kind \in Kind : Take(kind)
    BY <1>3 DEF Handle, HandleError, HandleTfaRequested,
       HandleTwoPasswordRequested, Await, HandleHvRequested, HandleFinished,
       HandleAlreadyLoggedIn, Kind
  <2>2. events # <<>> /\ UNCHANGED disturbed
    BY <2>1 DEF Take
  <2>3. status.state = "awaiting_credentials" \/ disturbed
    BY <2>2 DEF AloneInv, Alone, EventIsAlone
  <2>4. status'.state \in {"failed", "awaiting_totp", "setting_mode",
                           "awaiting_mailbox_password", "succeeded",
                           "awaiting_human_verification"}
    BY <1>3, ShownState DEF Handle, HandleError, Fail, HandleTfaRequested,
       HandleTwoPasswordRequested, Await, HandleHvRequested, HandleFinished,
       HandleAlreadyLoggedIn
  <2>5. status'.state \in Flow!News
    BY <2>4 DEF Flow!News, Flow!State, Flow!Ended, Flow!Secret
  <2> QED
    BY <2>2, <2>3, <2>5 DEF Flow!Report, Flow!FlowNext
<1>4. ASSUME NEW g \in settling, NEW ok \in BOOLEAN, SettleMode(g, ok)
      PROVE  Flow!Settle \/ UNCHANGED <<status.state, disturbed>>
  BY <1>4 DEF SettleMode, Settled, history, Flow!Settle
<1>5. CASE Reset
  BY <1>5, ShownState DEF Reset, Flow!Clear, Flow!FlowNext
<1>6. CASE Bridge \/ WatcherSees \/ UNCHANGED vars
  BY <1>6 DEF Bridge, BridgeAsks, BridgeEnds, BridgeRejectsMailbox,
     WatcherSees, vars, session, history
<1>7. ASSUME NEW c \in Client, Receive(c) \/ Returns(c)
      PROVE  UNCHANGED <<status.state, disturbed>>
  BY <1>7 DEF Receive, Returns, session, history
<1> QED
  BY <1>1, <1>2, <1>3, <1>4, <1>5, <1>6, <1>7
     DEF Next, Rpcs, Settler, Flow!FlowNext

\* The session implements SignInFlow: readers of the status may rely on the
\* course of a sign-in and need to know nothing of the handlers, the stream and
\* the goroutines behind it.
THEOREM ImplementsFlow == Spec => TakesItsCourse
<1> QED
  BY TypeInvariant, InitFlow, InitAlone, StepAlone, StepFlow, PTL
     DEF Spec, TakesItsCourse, Flow!FlowSpec

-----------------------------------------------------------------------------
(* What is left of two promises that are not kept *)

\* Undisturbed, settleMode shows the result of the sign-in that finished last:
\* only an Abort, a failed call or a late Reset lets it overwrite a later one's
\* (login.go:424-429).
THEOREM UndisturbedResult == Spec => UndisturbedResultIsItsOwn
<1> DEFINE Own == ~disturbed => \A g \in settling \ settling' :
                                  status' # status => g.number = finished
<1>1. AloneInv /\ SettingModeIsServed => [Own]_vars
  <2> SUFFICES ASSUME AloneInv, SettingModeIsServed, ~disturbed,
                      NEW g \in settling
               PROVE  g.number = finished
    OBVIOUS
  <2>1. status.state = "setting_mode" /\ \A h \in settling : h = g
    BY DEF AloneInv, Alone, SettlerIsAlone
  <2> QED
    BY <2>1 DEF SettingModeIsServed
<1> QED
  BY <1>1, TypeInvariant, InitAlone, StepAlone, HonestStatus, PTL
     DEF Spec, UndisturbedResultIsItsOwn

\* No state in which nothing is left to be claimed keeps the claim.
LEMMA StepClaim == TypeOK /\ ClaimInv /\ [Next]_vars => ClaimInv'
<1> SUFFICES ASSUME TypeOK, ClaimInv, [Next]_vars PROVE ClaimInv'
  OBVIOUS
<1> USE DEF ClaimInv
<1>1. ASSUME NEW c \in Client, Handler(c)
      PROVE  ClaimInv'
  <2>1. ASSUME NEW u \in User, NEW split \in BOOLEAN, Start(c, u, split)
        PROVE  status'.state = "awaiting_credentials"
    BY <2>1, ShownState DEF Start
  <2>2. ASSUME SubmitTOTP(c) \/ SubmitMailboxPassword(c)
        PROVE  status'.state = "awaiting_credentials"
    BY <2>2 DEF SubmitTOTP, SubmitMailboxPassword, Submit, TypeOK, Status
  <2>3. ASSUME Abort(c)
        PROVE  ~humanVerified'
    BY <2>3 DEF Abort
  <2> QED
    BY <1>1, <2>1, <2>2, <2>3 DEF Handler
<1>2. ASSUME NEW c \in Client, Rpcs(c)
      PROVE  ClaimInv'
  <2>1. ReturnsError(c) => \/ status'.state = "failed"
                           \/ UNCHANGED status
    BY ShownState DEF ReturnsError, Fail
  <2> QED
    BY <1>2, <2>1 DEF Rpcs, Receive, Returns, ReturnsError, session
<1>3. CASE Bridge
  BY <1>3 DEF Bridge, BridgeAsks, BridgeEnds, BridgeRejectsMailbox, session
<1>4. CASE Handle
  <2>1. HandleFinished \/ HandleAlreadyLoggedIn => ~humanVerified'
    BY DEF HandleFinished, HandleAlreadyLoggedIn
  <2>2. HandleError => status'.state = "failed"
    BY ShownState DEF HandleError, Fail
  <2>3. /\ HandleTfaRequested => status'.state = "awaiting_totp"
        /\ HandleTwoPasswordRequested =>
             status'.state = "awaiting_mailbox_password"
    BY ShownState DEF HandleTfaRequested, HandleTwoPasswordRequested, Await
  <2>4. HandleHvRequested => status'.state = "awaiting_human_verification"
    BY ShownState DEF HandleHvRequested
  <2> QED
    BY <1>4, <2>1, <2>2, <2>3, <2>4 DEF Handle
<1>5. ASSUME NEW g \in settling, NEW ok \in BOOLEAN, SettleMode(g, ok)
      PROVE  ClaimInv'
  BY <1>5 DEF SettleMode
<1>6. CASE WatcherSees \/ UNCHANGED vars
  BY <1>6 DEF WatcherSees, vars, session
<1>7. CASE Reset
  BY <1>7 DEF Reset
<1> QED
  BY <1>1, <1>2, <1>3, <1>4, <1>5, <1>6, <1>7 DEF Next, Settler

\* Only a Start claims anything.
LEMMA StartClaims ==
  ASSUME TypeOK, ClaimInv, [Next]_vars, NEW c \in Client,
         caller'[c].hv, ~caller[c].hv
  PROVE  status.state \in {"awaiting_human_verification", "failed"}
<1>1. ASSUME NEW d \in Client, NEW u \in User, NEW split \in BOOLEAN,
             Start(d, u, split)
      PROVE  status.state \in {"awaiting_human_verification", "failed"}
  <2>1. humanVerified
    <3>1. c = d
      BY <1>1 DEF Start, TypeOK
    <3>2. caller'[c] = Calling("Login", u, humanVerified, attempt + 1, split)
      BY <1>1, <3>1 DEF Start, TypeOK
    <3> QED
      BY <3>2 DEF Calling
  <2> QED
    BY <1>1, <2>1 DEF ClaimInv, Start, MayStart, Ended
<1>2. ASSUME NEW d \in Client,
             \/ SubmitTOTP(d) \/ SubmitMailboxPassword(d) \/ Abort(d)
             \/ Rpcs(d)
      PROVE  FALSE
  BY <1>2 DEF SubmitTOTP, SubmitMailboxPassword, Submit, Abort, Calling, Rpcs,
     Receive, Returns, ReturnsError, Ready, TypeOK, Call
<1>3. ASSUME UNCHANGED caller
      PROVE  FALSE
  BY <1>3
<1> QED
  BY <1>1, <1>2, <1>3
     DEF Next, Handler, vars, Bridge, BridgeAsks, BridgeEnds,
         BridgeRejectsMailbox, Handle, HandleError, HandleTfaRequested,
         HandleTwoPasswordRequested, Await, HandleHvRequested, HandleFinished,
         HandleAlreadyLoggedIn, Take, Settler, SettleMode, WatcherSees, Reset

\* A claim is made only where a challenge was asked for or after a failure: no
\* success, Abort or Reset leaves it to a sign-in that follows
\* (login.go:196-204, 270, 291, 346-360).
THEOREM ClaimEnds == Spec => ClaimEndsWithTheSignIn
<1> DEFINE Claims == \A c \in Client :
                       caller'[c].hv /\ ~caller[c].hv =>
                         status.state \in {"awaiting_human_verification", "failed"}
<1>1. Init => ClaimInv
  BY DEF Init, ClaimInv
<1>2. TypeOK /\ ClaimInv /\ [Next]_vars => [Claims]_vars
  BY StartClaims
<1> QED
  BY <1>1, <1>2, StepClaim, TypeInvariant, PTL DEF Spec, ClaimEndsWithTheSignIn
=============================================================================
