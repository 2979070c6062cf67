-------------------------- MODULE SetupPageProofs --------------------------
(***************************************************************************)
(* What the sign-in page keeps for any number of tabs, names and pages.    *)
(***************************************************************************)
EXTENDS SetupPage, TLAPS

-----------------------------------------------------------------------------
(* Lemmas *)

\* There is a step for every state of the session.
LEMMA ViewIsStep ==
  ASSUME FlowTypeOK
  PROVE  View(state) \in Step
BY DEF FlowTypeOK, View, Step, Form, State, Ended, Secret

\* The session's steps keep its type.
LEMMA FlowStep ==
  ASSUME FlowTypeOK,
         \/ FlowNext \/ UNCHANGED flow
         \/ state' = "idle" /\ disturbed' = FALSE
  PROVE  FlowTypeOK'
BY DEF FlowTypeOK, FlowNext, Begin, Answer, Report, Settle, GiveUp, CallFails,
   Clear, flow, State, Ended, Secret, News

\* The page's steps keep its type, and the session's.
LEMMA PageStepTypes ==
  ASSUME FlowTypeOK, PageTypeOK, NEW connected \in BOOLEAN, PageNext(connected)
  PROVE  FlowTypeOK' /\ PageTypeOK'
<1> USE DEF PageTypeOK, Page
<1>1. CASE Session
  BY <1>1, FlowStep DEF Session, FlowNext, pageVars
<1>2. CASE Resets
  BY <1>2, FlowStep DEF Resets, FlowNext
<1>3. CASE Crash
  BY <1>3, FlowStep DEF Crash
<1>4. CASE MarkSignedIn(connected) \/ SeesLate
  BY <1>4 DEF MarkSignedIn, SeesLate, FlowTypeOK, flow
<1>5. CASE \/ Called(connected) \/ ComesUp \/ Fails \/ ServeSelects
           \/ ServeCancelled \/ Shutdown
  BY <1>5 DEF Called, ComesUp, Fails, Gone, ServeSelects, ServeCancelled, Shutdown,
     FlowTypeOK, flow
<1> QED
  BY <1>1, <1>2, <1>3, <1>4, <1>5 DEF PageNext, PageRuns

\* What a handler of handleStatus answers.
LEMMA StatusType ==
  ASSUME TypeOK, NEW kind \in Answered
  PROVE  Status(kind) \in [at: {"off", "due"} \cup Answered, step: Step,
                           number: Nat]
BY ViewIsStep DEF TypeOK, Status

-----------------------------------------------------------------------------
(* Types *)

PollRecord == [at: {"off", "due"} \cup Answered, step: Step, number: Nat]
PostRecord == [at: {"none", "sent", "inside", "calling", "answered"},
               step: Step, cookie: Nat, token: Nat, asked: Nat, via: Nat]

LEMMA RecordTypes ==
  /\ NoPoll \in PollRecord
  /\ Due \in PollRecord
  /\ NoPost \in PostRecord
  /\ NoPolls \in [Chain -> PollRecord]
BY DEF NoPoll, Due, NoPost, NoPolls, PollRecord, PostRecord, Step, Form, Answered

\* What serves the page concerns no tab; a page that comes up has a later number.
LEMMA ServeCounts ==
  ASSUME number \in Nat, Serve
  PROVE  UNCHANGED tabs /\ number' \in Nat /\ number <= number'
<1>1. CASE PageStarts
  BY <1>1 DEF PageStarts
<1>2. CASE PageSteps \/ ServeReturns
  <2>1. UNCHANGED <<number, tabs>>
    BY <1>2 DEF PageSteps, ServeReturns
  <2> QED
    BY <2>1
<1> QED
  BY <1>1, <1>2 DEF Serve

LEMMA StepType == TypeOK /\ [Next]_vars => TypeOK'
<1> SUFFICES ASSUME TypeOK, [Next]_vars PROVE TypeOK'
  OBVIOUS
<1> USE SetupPageAssumption, RecordTypes DEF TypeOK, PollRecord, PostRecord, server,
    browser, history, pageVars, PageTypeOK
<1>1. CASE Serve
  <2>1. FlowTypeOK' /\ PageTypeOK'
    <3>1. \E connected \in BOOLEAN : PageNext(connected)
      BY <1>1, Zenon DEF Serve, PageStarts, PageSteps, ServeReturns, ServeEnds,
         PageNext, PageRuns
    <3> HIDE DEF PageTypeOK
    <3> QED
      BY <3>1, PageStepTypes
  <2>2. UNCHANGED tabs /\ number' \in Nat
    BY <1>1, ServeCounts
  <2> QED
    BY <2>1, <2>2 DEF tabs
<1>5. CASE Stops
  <2>1. FlowTypeOK' /\ PageTypeOK'
    BY <1>5, PageStepTypes DEF Stops, PageNext
  <2>2. post' \in [Tab -> PostRecord]
    BY <1>5 DEF Stops
  <2> QED
    BY <1>5, <2>1, <2>2 DEF Stops
<1>6. CASE Others
  <2>1. FlowTypeOK'
    BY <1>6, FlowStep DEF Others, FlowNext
  <2> QED
    BY <1>6, <2>1 DEF Others
<1>7. ASSUME NEW n \in Name, OtherTab(n) \/ StrayAnswer(n)
      PROVE  TypeOK'
  <2>1. UNCHANGED otherRest
    BY <1>7 DEF OtherTab, StrayAnswer
  <2>2. PICK k \in Nat : jar' = [jar EXCEPT ![n] = k]
    <3>1. number > 1 => number - 1 \in Nat
      OBVIOUS
    <3> QED
      BY <1>7, <3>1 DEF OtherTab, StrayAnswer
  <2>3. jar' \in [Name -> Nat]
    BY <2>2
  <2> QED
    BY <2>1, <2>3 DEF otherRest, FlowTypeOK, flow
<1>8. ASSUME NEW t \in Tab, Load(t)
      PROVE  TypeOK'
  <2>1. /\ shown' \in [Tab -> Step \cup {"closed", "rejected", "token"}]
        /\ poll' \in [Tab -> [Chain -> PollRecord]]
        /\ post' \in [Tab -> PostRecord]
    BY <1>8 DEF Load, Step, Form
  <2>2. name' \in [Tab -> Name] /\ jar' \in [Name -> Nat]
    BY <1>8 DEF Load
  <2> QED
    BY <1>8, <2>1, <2>2 DEF Load, FlowTypeOK, flow
<1>9. ASSUME NEW t \in Tab, LoadRejected(t)
      PROVE  TypeOK'
  BY <1>9 DEF LoadRejected, FlowTypeOK, flow
<1>10. ASSUME NEW t \in Tab, EnterToken(t)
       PROVE  TypeOK'
  <2>1. PICK n \in 0..number : Enters(t, n) /\ (UNCHANGED poll \/ Accepted(t))
    BY <1>10 DEF EnterToken
  <2>2. token' \in [Tab -> Nat] /\ crossed' \in [Tab -> BOOLEAN]
    BY <2>1 DEF Enters
  <2>3. poll' \in [Tab -> [Chain -> PollRecord]]
    <3>1. CASE Accepted(t)
      BY <3>1, StatusType DEF Accepted, Answered
    <3> QED
      BY <2>1, <3>1
  <2> QED
    BY <2>1, <2>2, <2>3 DEF Enters, tabRest, FlowTypeOK, flow
<1>11. ASSUME NEW t \in Tab, NEW c \in Chain, Poll(t, c)
       PROVE  TypeOK'
  <2>1. Status("poll") \in PollRecord
    BY StatusType DEF Answered
  <2>2. [at |-> "refused", step |-> "credentials", number |-> number] \in PollRecord
    BY DEF Answered, Step, Form
  <2>3. poll' \in [Tab -> [Chain -> PollRecord]]
    BY <1>11, <2>1, <2>2 DEF Poll
  <2> QED
    BY <1>11, <2>3 DEF Poll, pollRest, tabRest, FlowTypeOK, flow
<1>12. ASSUME NEW t \in Tab, NEW c \in Chain, StatusArrives(t, c)
       PROVE  TypeOK'
  <2>1. poll[t][c] \in PollRecord
    OBVIOUS
  <2>2. poll' \in [Tab -> [Chain -> PollRecord]]
    BY <1>12 DEF StatusArrives, Renders
  <2>3. /\ shown' \in [Tab -> Step \cup {"closed", "rejected", "token"}]
        /\ from' \in [Tab -> Nat] /\ over' \in [Tab -> BOOLEAN]
    BY <1>12, <2>1 DEF StatusArrives, Renders, LastPoll
  <2>4. jar' \in [Name -> Nat]
    BY <1>12, <2>1 DEF StatusArrives
  <2> QED
    BY <1>12, <2>2, <2>3, <2>4 DEF StatusArrives, pollRest, tabRest, FlowTypeOK, flow
<1>13. ASSUME NEW t \in Tab, NEW c \in Chain, RefusalArrives(t, c) \/ StatusLost(t, c)
       PROVE  TypeOK'
  <2>1. PICK r \in {NoPoll, Due} : poll' = [poll EXCEPT ![t][c] = r]
    BY <1>13 DEF RefusalArrives, StatusLost
  <2>2. poll' \in [Tab -> [Chain -> PollRecord]]
    BY <2>1
  <2>3. over' \in [Tab -> BOOLEAN]
    BY <1>13 DEF RefusalArrives, StatusLost
  <2> QED
    BY <1>13, <2>2, <2>3 DEF RefusalArrives, StatusLost, pollRest, tabRest, FlowTypeOK, flow
<1>14. ASSUME NEW t \in Tab, Submit(t)
       PROVE  TypeOK'
  BY <1>14 DEF Submit, postRest, FlowTypeOK, flow, Step
<1>15. ASSUME NEW t \in Tab, LetIn(t)
       PROVE  TypeOK'
  <2>1. post' \in [Tab -> PostRecord]
    BY <1>15 DEF LetIn
  <2> QED
    BY <1>15, <2>1 DEF LetIn, postRest, FlowTypeOK, flow
<1>16. ASSUME NEW t \in Tab, TurnedAway(t) \/ NotTaken(t) \/ PostLost(t)
       PROVE  TypeOK'
  <2>1. UNCHANGED <<flow, postRest, shown, from>>
    BY <1>16 DEF TurnedAway, NotTaken, PostLost
  <2>2. post' \in [Tab -> PostRecord]
    BY <1>16 DEF TurnedAway, NotTaken, PostLost, PostEnds
  <2> QED
    BY <2>1, <2>2 DEF postRest, FlowTypeOK, flow
<1>17. ASSUME NEW t \in Tab, Taken(t)
       PROVE  TypeOK'
  <2>1. FlowTypeOK'
    BY <1>17, FlowStep DEF Taken, FlowNext
  <2>2. post' \in [Tab -> PostRecord]
    BY <1>17 DEF Taken, Step, Form
  <2> QED
    BY <1>17, <2>1, <2>2 DEF Taken, postRest
<1>18. ASSUME NEW t \in Tab, CallReturns(t)
       PROVE  TypeOK'
  BY <1>18, ViewIsStep DEF CallReturns, postRest, FlowTypeOK, flow
<1>19. ASSUME NEW t \in Tab, CallReturnsError(t)
       PROVE  TypeOK'
  <2>1. FlowTypeOK'
    BY <1>19, FlowStep DEF CallReturnsError, FlowNext
  <2> QED
    BY <1>19, <2>1 DEF CallReturnsError, PostEnds, postRest
<1>20. ASSUME NEW t \in Tab, AnswerArrives(t)
       PROVE  TypeOK'
  BY <1>20 DEF AnswerArrives, PostEnds, postRest, FlowTypeOK, flow
<1>21. CASE UNCHANGED vars
  BY <1>21 DEF vars, FlowTypeOK, flow
<1> QED
  BY <1>1, <1>5, <1>6, <1>7, <1>8, <1>9, <1>10, <1>11, <1>12,
     <1>13, <1>14, <1>15, <1>16, <1>17, <1>18, <1>19, <1>20, <1>21
  DEF Next, Polls, Writes

LEMMA InitType == Init => TypeOK
<1> SUFFICES ASSUME Init PROVE TypeOK
  OBVIOUS
<1>1. FlowTypeOK /\ PageTypeOK
  BY DEF Init, PageInit, FlowInit, FlowTypeOK, State, Ended, Secret, PageTypeOK,
     Page
<1>2. poll \in [Tab -> [Chain -> PollRecord]] /\ post \in [Tab -> PostRecord]
  BY RecordTypes DEF Init
<1> QED
  BY <1>1, <1>2 DEF Init, TypeOK, PollRecord, PostRecord

\* TypeOK holds in every reachable state.
THEOREM TypeInvariant == Spec => []TypeOK
<1>1. Init => TypeOK
  BY InitType
<1>2. TypeOK /\ [Next]_vars => TypeOK'
  BY StepType
<1> QED
  BY <1>1, <1>2, PTL DEF Spec

-----------------------------------------------------------------------------
(* What a tab holds is of the page its token names *)

\* What TokenInv says of one tab.
TokenOf(t) ==
  /\ token[t] <= number
  /\ exposed => InTheApp(t) /\ (OfItsToken(t) \/ crossed[t])
  /\ ~exposed => \A c \in Chain : poll[t][c].at # "refused"

\* The steps of the server, and of tabs that are not followed, do not concern a
\* tab; a page that starts only has a later number.
LEMMA ServerToken ==
  ASSUME TypeOK, TokenInv, number' \in Nat, number <= number',
         UNCHANGED <<exposed, shown, token, poll, post, from, crossed>>
  PROVE  TokenInv'
BY DEF TokenInv, InTheApp, OfItsToken, TypeOK

\* A step of one tab concerns no other.
LEMMA OtherTabsToken ==
  ASSUME TypeOK, TokenInv, NEW t \in Tab, Polls(t) \/ Writes(t), TokenOf(t)'
  PROVE  TokenInv'
<1>1. exposed' = exposed /\ number' = number
  BY DEF Polls, Writes, Load, LoadRejected, EnterToken, Enters, Poll, StatusArrives,
     RefusalArrives, StatusLost, Submit, LetIn, TurnedAway, Taken, NotTaken,
     CallReturns, CallReturnsError, AnswerArrives, PostLost, pollRest, tabRest,
     postRest, server
<1>2. ASSUME NEW u \in Tab, u # t
      PROVE  /\ shown'[u] = shown[u] /\ token'[u] = token[u]
             /\ poll'[u] = poll[u] /\ post'[u] = post[u] /\ from'[u] = from[u]
             /\ crossed'[u] = crossed[u]
  <2>1. CASE Polls(t)
    <3>1. CASE Load(t) \/ LoadRejected(t)
      BY <1>2, <3>1 DEF TypeOK, Load, LoadRejected, history
    <3>2. CASE EnterToken(t)
      BY <1>2, <3>2 DEF TypeOK, EnterToken, Enters, Accepted, tabRest
    <3>3. ASSUME NEW c \in Chain, \/ Poll(t, c) \/ StatusArrives(t, c)
                                  \/ RefusalArrives(t, c) \/ StatusLost(t, c)
          PROVE  /\ shown'[u] = shown[u] /\ token'[u] = token[u]
                 /\ poll'[u] = poll[u] /\ post'[u] = post[u] /\ from'[u] = from[u]
                 /\ crossed'[u] = crossed[u]
      <4>1. UNCHANGED <<token, post, crossed>>
        BY <3>3 DEF Poll, StatusArrives, RefusalArrives, StatusLost, pollRest, tabRest
      <4>2. poll'[u] = poll[u]
        BY <1>2, <3>3 DEF TypeOK, Poll, StatusArrives, Renders, RefusalArrives,
           StatusLost
      <4>3. shown'[u] = shown[u] /\ from'[u] = from[u]
        BY <1>2, <3>3 DEF TypeOK, Poll, StatusArrives, Renders, RefusalArrives,
           StatusLost
      <4> QED
        BY <4>1, <4>2, <4>3
    <3> QED
      BY <2>1, <3>1, <3>2, <3>3 DEF Polls
  <2>2. CASE Writes(t)
    BY <1>2, <2>2 DEF TypeOK, Writes, Submit, LetIn, TurnedAway, Taken, NotTaken,
       CallReturns, CallReturnsError, AnswerArrives, PostLost, PostEnds, postRest
  <2> QED
    BY <2>1, <2>2
<1>3. ASSUME NEW u \in Tab
      PROVE  TokenOf(u)'
  <2>1. CASE u = t
    BY <2>1
  <2>2. CASE u # t
    BY <1>1, <1>2, <2>2 DEF TokenInv, TokenOf, InTheApp, OfItsToken
  <2> QED
    BY <2>1, <2>2
<1> QED
  BY <1>3 DEF TokenInv, TokenOf

\* A click on the token button keeps it: before the app is shown only answers to
\* the token step are on their way, and unless one of them is to another token, all
\* of them are to the new one.
LEMMA EnterKeepsToken ==
  ASSUME TypeOK, NEW t \in Tab, TokenOf(t), EnterToken(t)
  PROVE  TokenOf(t)'
<1>1. PICK n \in 0..number :
        Enters(t, n) /\ (UNCHANGED poll \/ (checkToken(n) /\ Accepted(t)))
  BY DEF EnterToken
<1>2. /\ shown[t] = "token" /\ token'[t] = n /\ n <= number
      /\ UNCHANGED <<exposed, number, shown, post, from>>
  BY <1>1 DEF Enters, tabRest, server, TypeOK
<1>3. shown[t] \notin Step
  BY <1>2 DEF Step, Form
<1>4. ASSUME NEW c \in Chain
      PROVE  \/ poll'[t][c] = poll[t][c]
             \/ poll'[t][c] = Status("ask") /\ checkToken(n)
  <2>1. CASE UNCHANGED poll
    BY <2>1
  <2>2. CASE checkToken(n) /\ Accepted(t)
    BY <2>2 DEF Accepted, TypeOK
  <2> QED
    BY <1>1, <2>1, <2>2
<1>5. CASE exposed
  <2>1. \A c \in Chain : poll[t][c].at \notin {"due", "poll", "refused"}
    BY <1>3, <1>5 DEF TokenOf, InTheApp
  <2>2. post[t].at = "none"
    BY <1>3, <1>5 DEF TokenOf, InTheApp
  <2>3. \A c \in Chain : poll'[t][c].at \notin {"due", "poll", "refused"}
    BY <1>4, <2>1 DEF Status
  <2>4. ~crossed'[t] =>
          \A c \in Chain : poll[t][c].at = "ask" => poll[t][c].number = n
    BY <1>1 DEF Enters, TypeOK
  <2>5. ~crossed'[t] =>
          \A c \in Chain : poll'[t][c].at = "ask" => poll'[t][c].number = n
    BY <1>4, <1>5, <2>4 DEF Status, checkToken
  <2> QED
    BY <1>2, <1>3, <1>5, <2>2, <2>3, <2>5 DEF TokenOf, InTheApp, OfItsToken
<1>6. CASE ~exposed
  BY <1>2, <1>4, <1>6 DEF TokenOf, Status
<1> QED
  BY <1>5, <1>6

\* A poll keeps it: a 401 is of a later page than the tab's token.
LEMMA PollKeepsToken ==
  ASSUME TypeOK, NEW t \in Tab, NEW c \in Chain, TokenOf(t), Poll(t, c)
  PROVE  TokenOf(t)'
<1>1. /\ UNCHANGED <<exposed, number, shown, token, post, from, crossed>>
      /\ poll[t][c].at = "due"
  BY DEF Poll, pollRest, tabRest, server
<1>2. \A d \in Chain : d # c => poll'[t][d] = poll[t][d]
  BY DEF Poll, TypeOK
<1>3. exposed => shown[t] \in Step
  BY <1>1 DEF TokenOf, InTheApp
<1>4. /\ poll'[t][c].at \in {"poll", "refused"}
      /\ poll'[t][c].at = "poll" => checkToken(token[t])
      /\ poll'[t][c].at = "refused" => ~checkToken(token[t])
      /\ poll'[t][c].number = number
  BY DEF Poll, Status, TypeOK
<1>5. exposed => InTheApp(t)'
  BY <1>1, <1>3 DEF InTheApp
<1>6. exposed /\ poll'[t][c].at = "poll" => poll'[t][c].number = token[t]
  BY <1>4 DEF checkToken
<1>7. exposed /\ poll'[t][c].at = "refused" => token[t] < poll'[t][c].number
  <2>1. token[t] \in Nat /\ number \in Nat /\ token[t] <= number
    BY DEF TypeOK, TokenOf
  <2> QED
    BY <1>4, <2>1 DEF checkToken
<1>8. exposed /\ OfItsToken(t) => OfItsToken(t)'
  BY <1>1, <1>2, <1>4, <1>6, <1>7 DEF OfItsToken
<1>9. ~exposed => \A d \in Chain : poll'[t][d].at # "refused"
  BY <1>2, <1>4 DEF checkToken, TokenOf
<1> QED
  BY <1>1, <1>5, <1>8, <1>9 DEF TokenOf

\* What arrives keeps it: a status is shown of the page that gave it.
LEMMA ArrivalKeepsToken ==
  ASSUME TypeOK, NEW t \in Tab, NEW c \in Chain, TokenOf(t),
         StatusArrives(t, c) \/ RefusalArrives(t, c) \/ StatusLost(t, c)
  PROVE  TokenOf(t)'
<1>1. UNCHANGED <<exposed, number, token, post, crossed>>
  BY DEF StatusArrives, RefusalArrives, StatusLost, pollRest, tabRest, server
<1>2. \A d \in Chain : d # c => poll'[t][d] = poll[t][d]
  BY DEF StatusArrives, Renders, RefusalArrives, StatusLost, TypeOK
<1>3. poll'[t][c].at \in {"off", "due"}
  BY DEF StatusArrives, Renders, RefusalArrives, StatusLost, TypeOK, NoPoll, Due
<1>4. CASE StatusArrives(t, c)
  <2>1. /\ shown'[t] = poll[t][c].step /\ from'[t] = poll[t][c].number
        /\ poll[t][c].at \in {"ask", "poll"}
    BY <1>4 DEF StatusArrives, Renders, TypeOK
  <2>2. shown'[t] \in Step
    BY <2>1 DEF TypeOK
  <2> QED
    BY <1>1, <1>2, <1>3, <2>1, <2>2 DEF TokenOf, InTheApp, OfItsToken
<1>5. CASE RefusalArrives(t, c) \/ StatusLost(t, c)
  <2>1. UNCHANGED <<shown, from>>
    BY <1>5 DEF RefusalArrives, StatusLost
  <2>2. poll'[t][c].at = "due" => poll[t][c].at \in {"poll", "refused"}
    BY <1>5 DEF RefusalArrives, StatusLost, TypeOK, NoPoll, Due, Answered
  <2> QED
    BY <1>1, <1>2, <1>3, <2>1, <2>2 DEF TokenOf, InTheApp, OfItsToken
<1> QED
  BY <1>4, <1>5

\* The polls keep TokenInv.
LEMMA PollsToken ==
  ASSUME TypeOK, TokenInv, NEW t \in Tab, Polls(t)
  PROVE  TokenInv'
<1>0. TokenOf(t)
  BY DEF TokenInv, TokenOf
<1>1. ASSUME Load(t)
      PROVE  TokenOf(t)'
  <2>1. /\ post'[t] = NoPost /\ token'[t] = 0
        /\ exposed => poll'[t] = NoPolls /\ shown'[t] = "token"
        /\ \A c \in Chain : poll'[t][c] \in {NoPoll, Due}
        /\ UNCHANGED <<exposed, number>>
    BY <1>1 DEF Load, TypeOK, NoPolls, server
  <2>2. exposed => \A c \in Chain : poll'[t][c].at = "off"
    BY <2>1 DEF NoPolls, NoPoll
  <2>3. \A c \in Chain : poll'[t][c].at # "refused"
    BY <2>1 DEF NoPoll, Due
  <2> QED
    BY <2>1, <2>2, <2>3 DEF TypeOK, TokenOf, InTheApp, OfItsToken, NoPost, Step, Form
<1>2. ASSUME LoadRejected(t)
      PROVE  TokenOf(t)'
  BY <1>0, <1>2 DEF LoadRejected, history, server, TypeOK, TokenOf, InTheApp,
     OfItsToken, Step, Form
<1>3. ASSUME EnterToken(t)
      PROVE  TokenOf(t)'
  BY <1>0, <1>3, EnterKeepsToken
<1>4. ASSUME NEW c \in Chain, \/ Poll(t, c) \/ StatusArrives(t, c)
                              \/ RefusalArrives(t, c) \/ StatusLost(t, c)
      PROVE  TokenOf(t)'
  BY <1>0, <1>4, PollKeepsToken, ArrivalKeepsToken
<1>5. TokenOf(t)'
  BY <1>1, <1>2, <1>3, <1>4 DEF Polls
<1> QED
  BY <1>5, OtherTabsToken

\* The writes keep it: what is sent was asked under the tab's token, and the page
\* that lets it in is the one of that token.
LEMMA WritesToken ==
  ASSUME TypeOK, TokenInv, NEW t \in Tab, Writes(t)
  PROVE  TokenInv'
<1>0. TokenOf(t)
  BY DEF TokenInv, TokenOf
<1> USE <1>0 DEF TokenOf, InTheApp, OfItsToken, TypeOK, postRest, server
<1>1. CASE Submit(t)
  <2>1. TokenOf(t)'
    BY <1>1 DEF Submit, Step
  <2> QED
    BY <2>1, OtherTabsToken
<1>2. CASE LetIn(t)
  <2>1. /\ post'[t].at = "inside" /\ post'[t].asked = post[t].asked
        /\ post'[t].via = number
    BY <1>2 DEF LetIn
  <2>2. exposed => post[t].token = number
    BY <1>2 DEF LetIn, guard, checkToken
  <2>3. TokenOf(t)'
    BY <1>2, <2>1, <2>2 DEF LetIn
  <2> QED
    BY <2>3, OtherTabsToken
<1>3. CASE TurnedAway(t) \/ NotTaken(t) \/ PostLost(t) \/ CallReturnsError(t)
  <2>1. post'[t] = NoPost
    BY <1>3 DEF TurnedAway, NotTaken, PostLost, CallReturnsError, PostEnds
  <2>2. UNCHANGED <<exposed, number, shown, token, poll, from, crossed>>
    BY <1>3 DEF TurnedAway, NotTaken, PostLost, CallReturnsError
  <2>3. TokenOf(t)'
    BY <2>1, <2>2 DEF NoPost
  <2> QED
    BY <2>3, OtherTabsToken
<1>4. CASE Taken(t)
  <2>1. /\ post'[t].at = "calling" /\ post'[t].asked = post[t].asked
        /\ post'[t].via = post[t].via /\ post[t].at = "inside"
    BY <1>4 DEF Taken
  <2>2. TokenOf(t)'
    BY <1>4, <2>1 DEF Taken
  <2> QED
    BY <2>2, OtherTabsToken
<1>5. CASE CallReturns(t)
  <2>1. /\ post'[t].at = "answered" /\ post'[t].via = post[t].via
        /\ post[t].at = "calling"
    BY <1>5 DEF CallReturns
  <2>2. TokenOf(t)'
    BY <1>5, <2>1 DEF CallReturns
  <2> QED
    BY <2>2, OtherTabsToken
<1>6. CASE AnswerArrives(t)
  <2>1. post'[t] = NoPost
    BY <1>6 DEF AnswerArrives, PostEnds
  <2>2. TokenOf(t)'
    BY <1>6, <2>1 DEF AnswerArrives, NoPost
  <2> QED
    BY <2>2, OtherTabsToken
<1> QED
  BY <1>1, <1>2, <1>3, <1>4, <1>5, <1>6 DEF Writes

LEMMA StepToken == TypeOK /\ TokenInv /\ [Next]_vars => TokenInv'
<1> SUFFICES ASSUME TypeOK, TokenInv, [Next]_vars PROVE TokenInv'
  OBVIOUS
<1>1. CASE Serve
  <2>1. UNCHANGED tabs /\ number' \in Nat /\ number <= number'
    BY <1>1, ServeCounts DEF TypeOK
  <2> QED
    BY <2>1, ServerToken DEF tabs, browser, history
<1>2. CASE Stops
  <2>1. \A t \in Tab : post'[t] \in {NoPost, post[t]}
    BY <1>2 DEF Stops, TypeOK
  <2>2. UNCHANGED <<exposed, number, shown, token, poll, from, crossed>>
    BY <1>2 DEF Stops, history
  <2> QED
    BY <2>1, <2>2 DEF TokenInv, InTheApp, OfItsToken, NoPost
<1>3. CASE \/ Others
           \/ \E n \in Name : OtherTab(n) \/ StrayAnswer(n)
           \/ UNCHANGED vars
  <2>1. UNCHANGED <<exposed, number, shown, token, poll, post, from, crossed>>
    BY <1>3 DEF Others, OtherTab, StrayAnswer, otherRest, server, browser, history,
       vars
  <2> QED
    BY <2>1, ServerToken DEF TypeOK
<1>4. ASSUME NEW t \in Tab, Polls(t) \/ Writes(t)
      PROVE  TokenInv'
  BY <1>4, PollsToken, WritesToken
<1> QED
  BY <1>1, <1>2, <1>3, <1>4 DEF Next

\* TokenInv, of which the two properties below are read off.
LEMMA TokenInvariant == Spec => [](TypeOK /\ TokenInv)
<1>1. Init => TypeOK /\ TokenInv
  <2>1. Init => TokenInv
    BY DEF Init, TokenInv, InTheApp, OfItsToken, NoPolls, NoPoll, NoPost, Step, Form
  <2> QED
    BY <2>1, InitType
<1>2. TypeOK /\ TokenInv /\ [Next]_vars => (TypeOK /\ TokenInv)'
  BY StepType, StepToken
<1> QED
  BY <1>1, <1>2, PTL DEF Spec

\* AnswersItsOwnPage holds in every reachable state.
THEOREM OwnPageAlways == Spec => []AnswersItsOwnPage
<1>1. TokenInv => AnswersItsOwnPage
  BY DEF TokenInv, InTheApp, OfItsToken, AnswersItsOwnPage
<1> QED
  BY <1>1, TokenInvariant, PTL

\* ShutOutByAnotherPage holds in every reachable state.
THEOREM ShutOutStays == Spec => []ShutOutByAnotherPage
<1>1. TypeOK /\ TokenInv => ShutOutByAnotherPage
  BY DEF TypeOK, TokenInv, InTheApp, OfItsToken, ShutOutByAnotherPage
<1> QED
  BY <1>1, TokenInvariant, PTL

-----------------------------------------------------------------------------
(* What is assumed of the page and the session *)

\* Every step of this module is one of SignInPage, or none.
LEMMA StepIsOfThePage ==
  ASSUME [Next]_vars
  PROVE  (\E connected \in BOOLEAN : PageNext(connected)) \/ UNCHANGED <<flow, pageVars>>
<1>1. CASE Serve
  BY <1>1, Zenon DEF Serve, PageStarts, PageSteps, ServeReturns, ServeEnds, PageNext,
     PageRuns
<1>2. CASE Stops
  BY <1>2 DEF Stops, PageNext
<1>3. CASE Others
  <2>1. Session
    BY <1>3, SetupPageAssumption DEF Others, Session, server
  <2> QED
    BY <2>1 DEF PageNext, PageRuns
<1>4. ASSUME NEW t \in Tab, Taken(t)
      PROVE  Session
  BY <1>4 DEF Taken, Session, postRest, server
<1>5. ASSUME NEW t \in Tab, CallReturnsError(t)
      PROVE  Session
  BY <1>5 DEF CallReturnsError, Session, postRest, server
<1>6. ASSUME NEW t \in Tab, Polls(t)
      PROVE  UNCHANGED <<flow, pageVars>>
  BY <1>6 DEF Polls, Load, LoadRejected, EnterToken, Enters, Poll, StatusArrives,
     RefusalArrives, StatusLost, pollRest, tabRest, server
<1>7. ASSUME NEW t \in Tab, \/ Submit(t) \/ LetIn(t) \/ TurnedAway(t) \/ NotTaken(t)
                           \/ CallReturns(t) \/ AnswerArrives(t) \/ PostLost(t)
      PROVE  UNCHANGED <<flow, pageVars>>
  BY <1>7 DEF Submit, LetIn, TurnedAway, NotTaken, CallReturns, AnswerArrives,
     PostLost, postRest, server
<1>8. ASSUME NEW n \in Name, OtherTab(n) \/ StrayAnswer(n)
      PROVE  UNCHANGED <<flow, pageVars>>
  BY <1>8 DEF OtherTab, StrayAnswer, otherRest, server
<1>9. CASE UNCHANGED vars
  BY <1>9 DEF vars, server
<1>10. Session => \E connected \in BOOLEAN : PageNext(connected)
  BY DEF PageNext, PageRuns
<1> QED
  BY <1>1, <1>2, <1>3, <1>4, <1>5, <1>6, <1>7, <1>8, <1>9, <1>10
  DEF Next, Writes

\* Nothing is invented: the server and the session behind the tabs do only what
\* SignInPage allows, which is what SignIn and Session implement (signin.go:111-130,
\* 200-211, 276-314).
THEOREM KeepsToThePage ==
  Spec => /\ PageInit
          /\ [][\E connected \in BOOLEAN : PageNext(connected)]_<<flow, pageVars>>
<1>1. Init => PageInit
  BY DEF Init
<1>2. [Next]_vars => [\E connected \in BOOLEAN : PageNext(connected)]_<<flow, pageVars>>
  BY StepIsOfThePage
<1> QED
  BY <1>1, <1>2, PTL DEF Spec

\* And nothing is left out: as long as the process runs and the bounds are not
\* reached, whatever SignInPage allows may happen under any tab, whatever the tab
\* shows, waits for or has sent.
THEOREM MeetsEveryStep ==
  ASSUME Reports = News, number < MaxPages, NEW connected \in BOOLEAN,
         PageRuns(connected), UNCHANGED tabs,
         number' = IF ComesUp THEN number + 1 ELSE number
  PROVE  Next
<1>1. CASE ComesUp
  BY <1>1 DEF PageStarts, Serve, Next
<1>2. CASE ~ComesUp
  <2>1. number' = number
    BY <1>2
  <2>2. CASE Called(connected)
    <3>1. connected = FALSE
      BY <2>2 DEF Called
    <3>2. Called(FALSE)
      BY <2>2, <3>1
    <3> QED
      BY <2>1, <3>2 DEF PageSteps, Serve, Next
  <2>3. CASE Fails \/ MarkSignedIn(connected) \/ SeesLate \/ Resets
    BY <2>1, <2>3 DEF PageSteps, Serve, Next
  <2>4. CASE ServeSelects \/ Shutdown
    BY <2>1, <2>4 DEF ServeReturns, ServeEnds, Serve, Next
  <2>5. CASE Session
    BY <2>1, <2>5 DEF Session, Others, server, tabs, Next
  <2> QED
    BY <1>2, <2>2, <2>3, <2>4, <2>5 DEF PageRuns
<1> QED
  BY <1>1, <1>2

=============================================================================
