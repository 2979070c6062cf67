-------------------------- MODULE ProtonLoginProofs --------------------------
(***************************************************************************)
(* What a sign-in from the terminal keeps for any number of pages, of keys *)
(* and of changes to the accounts.                                         *)
(***************************************************************************)
EXTENDS ProtonLogin, TLAPS

-----------------------------------------------------------------------------
(* The files of the page *)

\* The steps of the page keep a pair a pair, and what was shown.
LEMMA CertStep ==
  ASSUME CertTypeOK, FilesHold,
         \/ PageCalled \/ LoadCertificate \/ CreateCertificate
         \/ OpenCert \/ WriteCert \/ OpenKey \/ WriteKey
         \/ PageStops \/ UNCHANGED certState
  PROVE  (CertTypeOK /\ FilesHold)'
<1> USE CertificateAssumption DEF CertTypeOK, FilesHold, Pair, File, Writing, Serves
<1>1. CASE PageCalled \/ LoadCertificate
  BY <1>1 DEF PageCalled, LoadCertificate
<1>2. CASE CreateCertificate
  BY <1>2 DEF CreateCertificate
<1>3. CASE OpenCert
  BY <1>3 DEF OpenCert
<1>4. CASE WriteCert
  BY <1>4 DEF WriteCert
<1>5. CASE OpenKey
  BY <1>5 DEF OpenKey
<1>6. CASE WriteKey
  BY <1>6 DEF WriteKey
<1>7. CASE PageStops
  BY <1>7 DEF PageStops
<1>8. CASE UNCHANGED certState
  BY <1>8 DEF certState
<1> QED
  BY <1>1, <1>2, <1>3, <1>4, <1>5, <1>6, <1>7, <1>8

\* Every step of the system is one of the page's or leaves the files alone.
LEMMA StepIsCert ==
  ASSUME [Next]_vars
  PROVE  \/ PageCalled \/ LoadCertificate \/ CreateCertificate
         \/ OpenCert \/ WriteCert \/ OpenKey \/ WriteKey
         \/ PageStops \/ UNCHANGED certState
<1>1. CASE Page
  BY <1>1 DEF Page, PageStarts, PageReads, PageWrites, PageEnds, WatcherReads,
     WatcherLooks, WatcherSeesLate, WatcherResets
<1>2. CASE Bridge
  BY <1>2 DEF Bridge, BridgeSignsIn, BridgeReports, ModeSettles, Reconnects,
     AccountGone
<1>3. CASE Others \/ Crash \/ Run \/ Split \/ Prompt \/ GivesUp \/ Deadline
  BY <1>3 DEF Others, Crash, Run, Split, Prompt, GivesUp, Deadline
<1>4. CASE Works
  BY <1>4 DEF Works, First, Write, Poll, PollLate, Resolve, WriteTaken,
     WriteRefused, WriteAnswered, WriteFails, WriteUnreachable, PollAnswered,
     PollRefused, PollUnreachable, StatusAnswered, StatusRefused
<1>5. CASE UNCHANGED vars
  BY <1>5 DEF vars
<1> QED
  BY <1>1, <1>2, <1>3, <1>4, <1>5 DEF Next

\* The certificate's types and files hold.
THEOREM FilesStay == Spec => [](CertTypeOK /\ FilesHold)
<1>1. Init => CertTypeOK /\ FilesHold
  BY DEF Init, CertInit, CertTypeOK, FilesHold, Writing, File, Pair
<1>2. CertTypeOK /\ FilesHold /\ [Next]_vars => (CertTypeOK /\ FilesHold)'
  BY StepIsCert, CertStep
<1> QED
  BY <1>1, <1>2, PTL DEF Spec

\* The fingerprint shown once is the one shown ever after, wherever a start is
\* interrupted.
THEOREM FingerprintStays == Spec => []FingerprintKept
<1>1. FilesHold => FingerprintKept
  BY DEF FilesHold, FingerprintKept
<1> QED
  BY <1>1, FilesStay, PTL
-----------------------------------------------------------------------------
(* Types *)

\* Every step of the system is one of the session's, or leaves it alone; where
\* the container stops the session starts again.
LEMMA StepIsFlow ==
  ASSUME [Next]_vars
  PROVE  \/ Begin \/ Answer \/ Settle \/ CallFails \/ Clear \/ GiveUp
         \/ UNCHANGED flow
         \/ \E news \in News : Report(news)
         \/ state' = "idle" /\ disturbed' = FALSE
<1>1. CASE Page
  BY <1>1 DEF Page, PageStarts, PageReads, PageWrites, PageEnds, WatcherReads,
     WatcherLooks, WatcherSeesLate, WatcherResets
<1>2. CASE Bridge
  BY <1>2 DEF Bridge, BridgeSignsIn, BridgeReports, ModeSettles, Reconnects,
     AccountGone
<1>3. CASE Others \/ Crash \/ Run \/ Split \/ Prompt \/ GivesUp \/ Deadline
  BY <1>3 DEF Others, Crash, Run, Split, Prompt, GivesUp, Deadline
<1>4. CASE Works
  BY <1>4 DEF Works, First, Write, Poll, PollLate, Resolve, WriteTaken,
     WriteRefused, WriteAnswered, WriteFails, WriteUnreachable, PollAnswered,
     PollRefused, PollUnreachable, StatusAnswered, StatusRefused
<1>5. CASE UNCHANGED vars
  BY <1>5 DEF vars
<1> QED
  BY <1>1, <1>2, <1>3, <1>4, <1>5 DEF Next

\* The steps of the session lead from states to states.
LEMMA FlowTypes == FlowTypeOK /\ [Next]_vars => FlowTypeOK'
<1> SUFFICES ASSUME FlowTypeOK, [Next]_vars PROVE FlowTypeOK'
  OBVIOUS
<1> USE DEF FlowTypeOK, State, Ended, Secret
<1>1. CASE Begin \/ Answer \/ Settle \/ CallFails \/ Clear \/ GiveUp
  BY <1>1 DEF Begin, Answer, Settle, CallFails, Clear, GiveUp
<1>2. CASE \E news \in News : Report(news)
  BY <1>2 DEF Report, News
<1>3. CASE UNCHANGED flow
  BY <1>3 DEF flow
<1>4. CASE state' = "idle" /\ disturbed' = FALSE
  BY <1>4
<1> QED
  BY <1>1, <1>2, <1>3, <1>4, StepIsFlow

\* What is left of TypeOK: the page's tokens, the command and the history.
RestTypeOK ==
  /\ exposed \in BOOLEAN
  /\ number \in Nat
  /\ watcher \in {"reads", "looks", "over"}
  /\ resetDue \in BOOLEAN
  /\ connected \in BOOLEAN
  /\ done \in BOOLEAN
  /\ pc \in Pc
  /\ handled \in BOOLEAN
  /\ seen \in State
  /\ csrf \in Nat
  /\ token \in Nat
  /\ pinned \in Pair \cup {Nothing}
  /\ late \in BOOLEAN
  /\ why \in Reason
  /\ mine \in {"none", "taken", "done"}
  /\ astray \in BOOLEAN
  /\ changes \in Nat

\* The type invariant in its three parts.
LEMMA TypeParts == TypeOK <=> FlowTypeOK /\ CertTypeOK /\ RestTypeOK
  BY DEF TypeOK, RestTypeOK

\* drive leaves the command in one of its places, for one of its reasons.
LEMMA DriveTypes ==
  ASSUME NEW status, Drive(status), late \in BOOLEAN, why \in Reason
  PROVE  pc' \in Pc /\ late' \in BOOLEAN /\ why' \in Reason
  BY DEF Drive, Pc, Busy, Over, Reason

\* The steps of the page, the bridge and the others keep the types.
LEMMA AroundTypes == RestTypeOK /\ (Page \/ Bridge \/ Others \/ Crash) => RestTypeOK'
<1> SUFFICES ASSUME RestTypeOK, Page \/ Bridge \/ Others \/ Crash
             PROVE  RestTypeOK'
  OBVIOUS
<1> USE DEF RestTypeOK, page_, bridge, command
<1>1. CASE PageStarts
  BY <1>1 DEF PageStarts
<1>2. CASE PageReads \/ PageWrites
  BY <1>2 DEF PageReads, PageWrites, ComesUp
<1>3. CASE PageEnds
  BY <1>3 DEF PageEnds
<1>4. CASE WatcherReads
  BY <1>4 DEF WatcherReads
<1>5. CASE WatcherLooks \/ WatcherSeesLate \/ WatcherResets
  BY <1>5 DEF WatcherLooks, WatcherSeesLate, WatcherResets
<1>6. CASE BridgeSignsIn
  <2>1. mine' \in {"none", "taken", "done"}
    BY <1>6 DEF BridgeSignsIn
  <2> QED
    BY <1>6, <2>1 DEF BridgeSignsIn
<1>7. ASSUME NEW news \in News, BridgeReports(news) PROVE RestTypeOK'
  BY <1>7 DEF BridgeReports
<1>10. CASE ModeSettles
  BY <1>10 DEF ModeSettles
<1>11. CASE Reconnects
  BY <1>11 DEF Reconnects
<1>12. CASE AccountGone
  <2>1. changes' \in Nat
    BY <1>12 DEF AccountGone
  <2>2. connected' \in BOOLEAN
    BY <1>12 DEF AccountGone
  <2>3. astray' \in BOOLEAN
    BY <1>12 DEF AccountGone
  <2> QED
    BY <1>12, <2>1, <2>2, <2>3 DEF AccountGone
<1>8. CASE Others
  BY <1>8 DEF Others
<1>9. CASE Crash
  BY <1>9 DEF Crash, State, Ended, Pc, Reason
<1> QED
  BY <1>1, <1>2, <1>3, <1>4, <1>5, <1>6, <1>7, <1>8, <1>9, <1>10, <1>11, <1>12
     DEF Page, Bridge

\* The command ends well typed.
LEMMA EndsTypes ==
  ASSUME RestTypeOK, NEW reason \in Reason, Ends(reason), UNCHANGED others,
         mine' \in {"none", "taken", "done"}, astray' \in BOOLEAN
  PROVE  RestTypeOK'
  BY DEF Ends, RestTypeOK, Pc, Over, State, Ended, others, page_, bridge

\* The answer to a question about the status is well typed.
LEMMA StatusTypes ==
  ASSUME RestTypeOK, state \in State, StatusAnswered,
         pc' \in Pc, late' \in BOOLEAN, why' \in Reason
  PROVE  RestTypeOK'
  BY DEF StatusAnswered, RestTypeOK, others, page_, bridge

\* The steps of the command keep the types.
LEMMA CommandTypes ==
  FlowTypeOK /\ RestTypeOK /\ (Run \/ Split \/ Prompt \/ GivesUp \/ Works \/ Deadline)
    => RestTypeOK'
<1> SUFFICES ASSUME FlowTypeOK, RestTypeOK,
                    Run \/ Split \/ Prompt \/ GivesUp \/ Works \/ Deadline
             PROVE  RestTypeOK'
  OBVIOUS
<1>0. state \in State /\ pc \in Pc /\ late \in BOOLEAN /\ why \in Reason
        /\ mine \in {"none", "taken", "done"} /\ astray \in BOOLEAN
  BY DEF FlowTypeOK, RestTypeOK
<1>a. {"refused", "unreachable", "given_up", "late", "silent"} \subseteq Reason
  BY DEF Reason
<1>1. CASE Run
  <2>1. TokenFile \in Nat
    BY DEF TokenFile, RestTypeOK
  <2>2. /\ pc' \in Pc /\ why' \in Reason
        /\ token' \in Nat /\ pinned' \in Pair \cup {Nothing}
    BY <1>1, <2>1 DEF Run, Pc, Busy, Over, Reason
  <2>3. seen' \in State
    BY <1>1 DEF Run, State, Ended
  <2> QED
    BY <1>1, <2>2, <2>3 DEF Run, RestTypeOK, others, page_, bridge
<1>2. CASE First
  <2>1. CASE StatusAnswered /\ pc' \in {"already", "split"} /\ UNCHANGED <<late, why>>
    BY <2>1, <1>0, StatusTypes DEF Pc, Over
  <2> QED
    BY <1>2, <2>1, <1>0, <1>a, EndsTypes DEF First, StatusRefused
<1>3. CASE Split
  <2>1. pc' \in Pc /\ late' \in BOOLEAN /\ why' \in Reason
    BY <1>0, <1>3, DriveTypes DEF Split
  <2> QED
    BY <1>3, <2>1 DEF Split, RestTypeOK, others, page_, bridge
<1>4. CASE Prompt
  BY <1>4 DEF Prompt, RestTypeOK, Pc, Busy, others, page_, bridge
<1>5. CASE GivesUp
  BY <1>5, <1>0, <1>a, EndsTypes DEF GivesUp
<1>6. CASE WriteTaken
  BY <1>6 DEF WriteTaken, RestTypeOK, others, page_, bridge
<1>7. CASE WriteRefused
  BY <1>7, <1>0, <1>a, EndsTypes DEF WriteRefused
<1>8. CASE WriteAnswered
  <2>1. pc' \in Pc /\ late' \in BOOLEAN /\ why' \in Reason
    BY <1>0, <1>8, DriveTypes DEF WriteAnswered
  <2> QED
    BY <1>8, <1>0, <2>1 DEF WriteAnswered, RestTypeOK, others, page_, bridge
<1>9. CASE WriteFails
  BY <1>9, <1>0, <1>a, EndsTypes DEF WriteFails
<1>10. CASE WriteUnreachable \/ PollUnreachable
  BY <1>10 DEF WriteUnreachable, PollUnreachable, RestTypeOK, Pc, Busy, others, page_,
     bridge
<1>11. CASE PollAnswered
  <2>1. pc' \in Pc /\ late' \in BOOLEAN /\ why' \in Reason
    BY <1>0, <1>11, DriveTypes DEF PollAnswered
  <2> QED
    BY <1>11, <1>0, <2>1, StatusTypes DEF PollAnswered
<1>12. CASE PollRefused
  BY <1>12, <1>0, <1>a, EndsTypes DEF PollRefused, StatusRefused
<1>13. CASE PollLate
  BY <1>13, <1>0, <1>a, EndsTypes DEF PollLate
<1>14. CASE Resolve
  <2>1. CASE pc' = "signed_in" /\ UNCHANGED <<handled, seen, csrf, token, pinned, late, why>>
    BY <1>14, <2>1 DEF Resolve, RestTypeOK, Pc, Over, others, page_, bridge
  <2> QED
    BY <1>14, <2>1, <1>0, <1>a, EndsTypes DEF Resolve
<1>15. CASE Deadline
  BY <1>15 DEF Deadline, RestTypeOK, others, page_, bridge
<1> QED
  BY <1>1, <1>2, <1>3, <1>4, <1>5, <1>6, <1>7, <1>8, <1>9, <1>10, <1>11, <1>12,
     <1>13, <1>14, <1>15 DEF Works, Write, Poll

\* Whatever is left of the variables keeps its type.
LEMMA RestTypes == FlowTypeOK /\ RestTypeOK /\ [Next]_vars => RestTypeOK'
<1>1. RestTypeOK /\ UNCHANGED vars => RestTypeOK'
  BY DEF vars, page_, bridge, command, RestTypeOK
<1> QED
  BY <1>1, AroundTypes, CommandTypes DEF Next

\* Every variable keeps its type.
THEOREM TypeInvariant == Spec => []TypeOK
<1>1. Init => TypeOK
  <2>1. Init => FlowTypeOK
    BY DEF Init, FlowInit, FlowTypeOK, State, Ended
  <2>2. Init => CertTypeOK
    BY DEF Init, CertInit, CertTypeOK, File, Pair
  <2>3. Init => RestTypeOK
    <3>1. Init => seen \in State /\ pc \in Pc /\ why \in Reason
      BY DEF Init, State, Ended, Pc, Reason
    <3>2. Init => number \in Nat /\ csrf \in Nat /\ token \in Nat /\ changes \in Nat
      BY DEF Init
    <3>3. Init => /\ watcher \in {"reads", "looks", "over"}
                  /\ mine \in {"none", "taken", "done"}
      BY DEF Init
    <3>4. Init => /\ exposed \in BOOLEAN /\ resetDue \in BOOLEAN
                  /\ connected \in BOOLEAN /\ done \in BOOLEAN
                  /\ handled \in BOOLEAN /\ late \in BOOLEAN /\ astray \in BOOLEAN
      BY Zenon DEF Init
    <3>5. Init => pinned \in Pair \cup {Nothing}
      BY DEF Init
    <3> QED
      BY <3>1, <3>2, <3>3, <3>4, <3>5 DEF RestTypeOK
  <2> QED
    BY <2>1, <2>2, <2>3, TypeParts
<1>2. TypeOK /\ CertTypeOK' /\ [Next]_vars => TypeOK'
  BY TypeParts, FlowTypes, RestTypes DEF TypeOK, RestTypeOK
<1>3. CertTypeOK /\ FilesHold => CertTypeOK
  OBVIOUS
<1> QED
  BY <1>1, <1>2, <1>3, FilesStay, PTL DEF Spec

-----------------------------------------------------------------------------
(* The pin, and "signed in" *)

\* What the page, the bridge and the others leave alone of the command.
LEMMA AroundCommand ==
  ASSUME Page \/ Bridge \/ Others
  PROVE  UNCHANGED command
  BY DEF Page, PageStarts, PageReads, PageWrites, PageEnds, WatcherReads,
     WatcherLooks, WatcherSeesLate, WatcherResets, Bridge, BridgeSignsIn, BridgeReports,
     ModeSettles, Reconnects, AccountGone, Others

\* What was shown stays shown.
LEMMA ShownStays ==
  ASSUME [Next]_vars
  PROVE  shown \subseteq shown'
  BY StepIsCert DEF PageCalled, LoadCertificate, CreateCertificate, OpenCert, WriteCert,
     OpenKey, WriteKey, PageStops, Serves, certState

\* Once the page has answered, the pinned fingerprint is one that was shown.
LEMMA StepPin == FilesHold /\ PinInv /\ [Next]_vars => PinInv'
<1> SUFFICES ASSUME FilesHold, PinInv, [Next]_vars, pc' \in Driving
             PROVE  pinned' \in shown'
  BY DEF PinInv
<1>0. shown \subseteq shown'
  BY ShownStays
<1>1. CASE pc \in Driving /\ UNCHANGED pinned
  BY <1>0, <1>1 DEF PinInv
<1>2. CASE Page \/ Bridge \/ Others
  BY <1>1, <1>2, AroundCommand DEF command
<1>3. CASE Crash \/ Run
  BY <1>3 DEF Crash, Run, Driving
<1>4. CASE First
  BY <1>0, <1>4 DEF First, StatusAnswered, StatusRefused, Reached, Ends, FilesHold, Driving
<1>5. CASE Split \/ Prompt \/ GivesUp \/ Deadline
  BY <1>1, <1>5 DEF Split, Prompt, GivesUp, Deadline, Ends, Driving
<1>6. CASE Write
  BY <1>1, <1>6 DEF Write, WriteTaken, WriteRefused, WriteAnswered, WriteFails,
     WriteUnreachable, Ends, Driving
<1>7. CASE Poll \/ PollLate \/ Resolve
  BY <1>1, <1>7 DEF Poll, PollAnswered, PollRefused, PollUnreachable, PollLate, Resolve,
     StatusAnswered, StatusRefused, Ends, Driving
<1>8. CASE UNCHANGED vars
  BY <1>1, <1>8 DEF vars, command
<1> QED
  BY <1>2, <1>3, <1>4, <1>5, <1>6, <1>7, <1>8 DEF Next, Works

\* The page that is up presents what the client pinned when it first answered.
THEOREM PinStays == Spec => []PinHolds
<1>1. Init => PinInv
  BY DEF Init, PinInv, Driving
<1>2. FilesHold /\ PinInv => PinHolds
  BY DEF FilesHold, PinInv, PinHolds
<1>3. CertTypeOK /\ FilesHold => FilesHold
  OBVIOUS
<1> QED
  BY <1>1, <1>2, <1>3, StepPin, FilesStay, PTL DEF Spec

\* Before the first answer there is nothing to remember.
LEMMA StepStart == StartInv /\ [Next]_vars => StartInv'
<1> SUFFICES ASSUME StartInv, [Next]_vars PROVE StartInv'
  OBVIOUS
<1> USE DEF StartInv, Busy, Over
<1>1. CASE Page \/ Others \/ Reconnects \/ AccountGone \/ ModeSettles
             \/ \E news \in News : BridgeReports(news)
  BY <1>1 DEF Page, PageStarts, PageReads, PageWrites, PageEnds, WatcherReads,
     WatcherLooks, WatcherSeesLate, WatcherResets, Others, Reconnects, AccountGone,
     ModeSettles, BridgeReports, command
<1>2. CASE BridgeSignsIn
  BY <1>2 DEF BridgeSignsIn, command
<1>3. CASE Crash \/ Run
  BY <1>3 DEF Crash, Run
<1>4. CASE First
  BY <1>4 DEF First, StatusAnswered, StatusRefused, Ends
<1>5. CASE Split
  BY <1>5 DEF Split, Drive
<1>6. CASE Prompt \/ GivesUp \/ Deadline
  BY <1>6 DEF Prompt, GivesUp, Deadline, Ends
<1>7. CASE WriteTaken \/ WriteRefused \/ WriteFails \/ WriteUnreachable
  BY <1>7 DEF WriteTaken, WriteRefused, WriteFails, WriteUnreachable, Ends
<1>8. CASE WriteAnswered
  BY <1>8 DEF WriteAnswered, Drive
<1>9. CASE PollAnswered
  BY <1>9 DEF PollAnswered, StatusAnswered, Drive
<1>10. CASE PollRefused \/ PollUnreachable \/ PollLate \/ Resolve
  BY <1>10 DEF PollRefused, PollUnreachable, PollLate, Resolve, StatusRefused, Ends
<1>11. CASE UNCHANGED vars
  BY <1>11 DEF vars, command
<1> QED
  BY <1>1, <1>2, <1>3, <1>4, <1>5, <1>6, <1>7, <1>8, <1>9, <1>10, <1>11
     DEF Next, Bridge, Works, Write, Poll

\* It holds from the start.
LEMMA StartStays == Spec => []StartInv
<1>1. Init => StartInv
  BY DEF Init, StartInv
<1> QED
  BY <1>1, StepStart, PTL DEF Spec

\* What the bridge has done, reported or not, stays as long as no account goes.
LEMMA StepDone == TypeOK /\ StartInv /\ DoneIsConnected /\ [Next]_vars => DoneIsConnected'
<1> SUFFICES ASSUME TypeOK, StartInv, DoneIsConnected, [Next]_vars
             PROVE  DoneIsConnected'
  OBVIOUS
<1> USE DEF DoneIsConnected
<1>1. CASE Page
  BY <1>1 DEF Page, PageStarts, PageReads, PageWrites, PageEnds, WatcherReads,
     WatcherLooks, WatcherSeesLate, WatcherResets, flow, bridge, command, Clear
<1>2. CASE BridgeSignsIn \/ Reconnects
  BY <1>2 DEF BridgeSignsIn, Reconnects
<1>3. ASSUME NEW news \in News, BridgeReports(news) PROVE DoneIsConnected'
  BY <1>3 DEF BridgeReports, Report, command
<1>4. CASE ModeSettles \/ Others
  BY <1>4 DEF ModeSettles, Settle, Others, Begin, Answer, GiveUp, CallFails, bridge,
     command
<1>5. CASE AccountGone
  <2>1. changes' # 0
    BY <1>5 DEF AccountGone, TypeOK
  <2> QED
    BY <2>1
<1>6. CASE Crash
  BY <1>6 DEF Crash
<1>7. CASE Run \/ Prompt \/ GivesUp \/ Deadline
  BY <1>7 DEF Run, Prompt, GivesUp, Deadline, Ends, others, bridge, flow
<1>8. CASE First
  BY <1>8 DEF First, StatusAnswered, StatusRefused, Ends, others, bridge, flow
<1>9. CASE Split
  BY <1>9 DEF Split, Drive, StartInv, others, bridge, flow
<1>10. CASE WriteTaken \/ WriteRefused \/ WriteFails \/ WriteUnreachable
  BY <1>10 DEF WriteTaken, WriteRefused, WriteFails, WriteUnreachable, Begin, Answer,
     CallFails, Ends, others, bridge, flow
<1>11. CASE WriteAnswered
  BY <1>11 DEF WriteAnswered, Drive, others, bridge, flow
<1>12. CASE PollAnswered
  BY <1>12 DEF PollAnswered, StatusAnswered, Drive, others, bridge, flow
<1>13. CASE PollRefused \/ PollUnreachable \/ PollLate \/ Resolve
  BY <1>13 DEF PollRefused, PollUnreachable, PollLate, Resolve, StatusRefused, Ends,
     others, bridge, flow
<1>14. CASE UNCHANGED vars
  BY <1>14 DEF vars, flow, bridge, command
<1> QED
  BY <1>1, <1>2, <1>3, <1>4, <1>5, <1>6, <1>7, <1>8, <1>9, <1>10, <1>11, <1>12,
     <1>13, <1>14 DEF Next, Bridge, Works, Write, Poll

\* "Signed in" is said of an account that is, as long as none went away.
THEOREM SignedInStays == Spec => []SignedInIsTrue
<1>1. Init => DoneIsConnected
  BY DEF Init, FlowInit, DoneIsConnected
<1>2. DoneIsConnected => SignedInIsTrue
  BY DEF DoneIsConnected, SignedInIsTrue
<1> QED
  BY <1>1, <1>2, StepDone, TypeInvariant, StartStays, PTL DEF Spec

-----------------------------------------------------------------------------
(* A person who signs in alone *)

\* A report of the bridge reaches no question that is still open.
LEMMA ReportKeeps ==
  ASSUME NEW news \in News, Alone, SnapshotHolds, OwnIsDone, BridgeReports(news)
  PROVE  SnapshotHolds' /\ OwnIsDone'
  BY DEF Alone, SnapshotHolds, OwnIsDone, BridgeReports, Report, command, News, Ended,
     Secret

\* The page goes, or comes up again, only once an account is connected.
LEMMA PageKeeps ==
  ASSUME Kept, Page, Alone'
  PROVE  Kept'
<1> USE DEF Kept, command, bridge
<1>1. UNCHANGED <<command, bridge, mine>>
  BY DEF Page, PageStarts, PageReads, PageWrites, PageEnds, WatcherReads,
     WatcherLooks, WatcherSeesLate, WatcherResets
<1>2. SnapshotHolds' /\ OwnIsDone'
  <2>1. CASE UNCHANGED state
    BY <1>1, <2>1 DEF SnapshotHolds, OwnIsDone
  <2>2. CASE state = "succeeded" /\ state' = "idle"
    BY <1>1, <2>2 DEF SnapshotHolds, OwnIsDone, Ended, Secret
  <2> QED
    BY <2>1, <2>2 DEF Page, PageStarts, PageReads, PageWrites, PageEnds, WatcherReads,
       WatcherLooks, WatcherSeesLate, WatcherResets, Clear, flow, Alone
<1>3. pc' \in Driving => SamePage'
  <2>1. CASE PageStarts
    BY <1>1, <2>1 DEF PageStarts, SamePage, PageCalled
  <2>5. CASE PageReads
    BY <1>1, <2>5 DEF PageReads, SamePage, LoadCertificate, CreateCertificate
  <2>2. CASE PageWrites
    BY <1>1, <2>2 DEF PageWrites, SamePage, OpenCert, WriteCert, OpenKey, WriteKey
  <2>3. CASE PageEnds
    <3>1. astray' <=> astray \/ watcher # "over" \/ ~connected
      BY <2>3 DEF PageEnds
    <3>2. connected'
      BY <3>1, <1>1 DEF Alone
    <3> QED
      BY <3>2, <2>3 DEF PageEnds, PageStops, SamePage
  <2>4. CASE WatcherReads \/ WatcherLooks \/ WatcherSeesLate \/ WatcherResets
    BY <1>1, <2>4 DEF WatcherReads, WatcherLooks, WatcherSeesLate, WatcherResets,
       SamePage, TokenFits,
       certState
  <2> QED
    BY <2>1, <2>2, <2>3, <2>4, <2>5 DEF Page
<1> QED
  BY <1>1, <1>2, <1>3

\* The bridge brings the sign-in on, and the accounts.
LEMMA BridgeKeeps ==
  ASSUME Kept, Bridge, Alone, Alone'
  PROVE  Kept'
<1> USE DEF Kept, command, page_, certState
<1>1. UNCHANGED <<command, certState, page_>>
  BY DEF Bridge, BridgeSignsIn, BridgeReports, ModeSettles, Reconnects, AccountGone
<1>2. connected => connected'
  BY DEF Bridge, BridgeSignsIn, BridgeReports, ModeSettles, Reconnects, AccountGone,
     Alone, bridge
<1>3. pc' \in Driving => SamePage'
  BY <1>1, <1>2 DEF SamePage, TokenFits
<1>4. SnapshotHolds' /\ OwnIsDone'
  <2>1. CASE BridgeSignsIn
    BY <2>1 DEF BridgeSignsIn, SnapshotHolds, OwnIsDone, flow, Alone
  <2>2. CASE \E news \in News : BridgeReports(news)
    BY <2>2, ReportKeeps
  <2>3. CASE ModeSettles
    BY <2>3 DEF ModeSettles, Settle, SnapshotHolds, OwnIsDone, bridge, Ended, Secret
  <2>4. CASE Reconnects
    BY <2>4 DEF Reconnects, SnapshotHolds, OwnIsDone, flow
  <2> QED
    BY <2>1, <2>2, <2>3, <2>4 DEF Bridge, AccountGone, Alone
<1>5. pc' = "failed" /\ mine' = "done" => why' \in {"late", "silent", "given_up"}
  BY <1>1 DEF Bridge, BridgeSignsIn, BridgeReports, ModeSettles, Reconnects,
     AccountGone, Over
<1> QED
  BY <1>1, <1>3, <1>4, <1>5

\* The command ended: what counts is the reason.
LEMMA EndsKeeps ==
  ASSUME NEW reason, Ends(reason), StartInv, Kept, mine' = mine,
         reason = "refused" => csrf = 0,
         reason \notin {"late", "silent", "given_up"} => mine # "done"
  PROVE  Kept'
  BY DEF Ends, Kept, SnapshotHolds, OwnIsDone, Driving, Over

\* What drive does keeps the question and the state together: after "succeeded"
\* the command is over, and it fails only where the session did.
LEMMA DriveKeeps ==
  ASSUME FlowTypeOK, Kept, pc \in Driving, Drive(state), seen' = state, why = "none",
         UNCHANGED <<flow, certState, others, token, mine>>,
         csrf' = csrf \/ (csrf' = number /\ page = "up")
  PROVE  Kept'
<1> USE DEF Kept, flow, others, page_, certState, bridge
<1>1. pc' \in Driving => SamePage'
  BY DEF SamePage, TokenFits
<1>2. pc' \in Over \cup {"poll", "prompt"}
  BY DEF Drive, Over
<1>3. SnapshotHolds'
  BY <1>2 DEF SnapshotHolds, Drive, FlowTypeOK, State, Waiting, Over
<1>4. OwnIsDone'
  <2>1. pc \notin Over
    BY DEF Driving, Over
  <2> QED
    BY <1>2, <2>1 DEF OwnIsDone
<1>5. pc' = "failed" => mine' # "done" /\ why' = "hopeless"
  BY DEF Drive, OwnIsDone, Driving, Over
<1>6. why' \in {"none", "hopeless"}
  BY DEF Drive
<1> QED
  BY <1>1, <1>3, <1>4, <1>5, <1>6

\* The first question, and the one about split mode: there is no sign-in of the
\* command's own yet, so nothing to be wrong about.
LEMMA FirstKeeps ==
  ASSUME seen \in State, StartInv, Kept, First \/ Split
  PROVE  Kept'
<1> USE DEF StartInv
<1>1. CASE StatusAnswered /\ pc = "first" /\ pc' \in {"already", "split"}
             /\ UNCHANGED why
  BY <1>1 DEF StatusAnswered, Kept, SamePage, TokenFits, Reached, SnapshotHolds,
     OwnIsDone, Driving, Over, flow, certState, others, page_
<1>2. CASE First
  <2>1. mine = "none" /\ csrf = 0
    BY <1>2 DEF First
  <2> QED
    BY <1>1, <1>2, <2>1, EndsKeeps DEF First, StatusRefused
<1>3. CASE Split
  <2>1. mine = "none" /\ mine' = "none" /\ why' \in {"none", "hopeless"}
          /\ pc = "split"
    BY <1>3 DEF Split, Drive
  <2>2. pc' \in {"poll", "prompt", "signed_in", "failed"}
    BY <1>3 DEF Split, Drive
  <2>3. SnapshotHolds'
    BY <1>3, <2>1, <2>2 DEF Split, Drive, Kept, SnapshotHolds, State, Waiting, flow
  <2>4. SamePage'
    BY <1>3, <2>1 DEF Split, Kept, SamePage, TokenFits, Driving, certState, others,
       page_, bridge
  <2> QED
    BY <2>1, <2>3, <2>4 DEF Kept, OwnIsDone
<1> QED
  BY <1>2, <1>3

\* What the person answers still fits.
LEMMA AnswerFits ==
  ASSUME Kept, pc = "write", ~handled, Reached
  PROVE  Allowed /\ Fits
  BY DEF Kept, Driving, SamePage, SnapshotHolds, Reached, Allowed, Fits

\* The write, whose answer may have to be asked for.
LEMMA WriteKeeps ==
  ASSUME FlowTypeOK, StartInv, Kept, Write, Alone'
  PROVE  Kept'
<1>1. pc = "write" /\ pc \in Driving /\ why = "none"
  BY DEF Write, WriteTaken, WriteRefused, WriteAnswered, WriteFails, WriteUnreachable,
     Driving, StartInv
<1>2. CASE WriteTaken
  <2>1. SamePage'
    BY <1>1, <1>2 DEF WriteTaken, Kept, SamePage, TokenFits, certState, others, page_,
       bridge
  <2>2. SnapshotHolds'
    BY <1>1, <1>2 DEF WriteTaken, SnapshotHolds
  <2>3. OwnIsDone'
    <3>1. CASE Begin /\ mine' = "taken"
      BY <3>1 DEF OwnIsDone
    <3>2. CASE Answer /\ mine' = mine
      BY <1>1, <3>2 DEF Answer, Kept, OwnIsDone, Over, Secret
    <3> QED
      BY <1>2, <3>1, <3>2 DEF WriteTaken
  <2> QED
    BY <1>1, <1>2, <2>1, <2>2, <2>3 DEF WriteTaken, Kept
<1>3. CASE WriteRefused
  BY <1>3, AnswerFits DEF WriteRefused
<1>4. CASE WriteAnswered
  BY <1>1, <1>4, DriveKeeps DEF WriteAnswered
<1>5. CASE WriteFails
  BY <1>5 DEF WriteFails, Alone
<1>6. CASE WriteUnreachable
  BY <1>1, <1>6 DEF WriteUnreachable, Kept, SamePage, TokenFits, SnapshotHolds,
     OwnIsDone, Driving, Over, flow, certState, others, page_, bridge
<1> QED
  BY <1>2, <1>3, <1>4, <1>5, <1>6 DEF Write

\* The wait for the bridge: a page that is gone is asked about, never taken for
\* an answer.
LEMMA WaitKeeps ==
  ASSUME FlowTypeOK, StartInv, Kept, Poll \/ PollLate \/ Deadline \/ Resolve
  PROVE  Kept'
<1>1. pc \in {"poll", "resolve"} /\ pc \in Driving /\ why = "none" /\ SamePage
        /\ OwnIsDone /\ pc \notin Over
  BY DEF Poll, PollAnswered, PollRefused, PollUnreachable, PollLate, Deadline, Resolve,
     Driving, StartInv, Kept, Over
<1>2. CASE PollAnswered
  <2>1. /\ StatusAnswered /\ seen' = state /\ csrf' = number /\ page = "up"
        /\ UNCHANGED <<flow, certState, others, token, mine>>
    BY <1>2 DEF PollAnswered, StatusAnswered, Reached
  <2>2. CASE Drive(state)
    BY <1>1, <2>1, <2>2, DriveKeeps
  <2>3. CASE UNCHANGED <<pc, why>> /\ pc = "poll"
    BY <1>1, <2>1, <2>3 DEF Kept, SamePage, TokenFits, SnapshotHolds, OwnIsDone, flow,
       certState, others, page_, bridge
  <2> QED
    BY <1>2, <2>2, <2>3 DEF PollAnswered
<1>3. CASE PollRefused
  BY <1>1, <1>3 DEF PollRefused, StatusRefused, SamePage, Reached
<1>4. CASE PollLate
  BY <1>4, EndsKeeps DEF PollLate
<1>5. CASE PollUnreachable \/ Deadline
  BY <1>1, <1>5 DEF PollUnreachable, Deadline, Kept, SamePage, TokenFits, SnapshotHolds,
     OwnIsDone, Driving, Over, flow, certState, others, page_, bridge
<1>6. CASE Resolve
  <2>1. CASE connected /\ pc' = "signed_in" /\ why' = why
    BY <1>1, <1>6, <2>1 DEF Resolve, Kept, SnapshotHolds, OwnIsDone, Driving, Over
  <2>2. CASE ~connected /\ Ends("unreachable")
    BY <1>1, <1>6, <2>2, EndsKeeps DEF Resolve, OwnIsDone
  <2>3. CASE Ends("silent")
    BY <1>6, <2>3, EndsKeeps DEF Resolve
  <2> QED
    BY <1>6, <2>1, <2>2, <2>3 DEF Resolve
<1> QED
  BY <1>2, <1>3, <1>4, <1>5, <1>6 DEF Poll

\* The person who answers, or leaves.
LEMMA PersonKeeps ==
  ASSUME StartInv, Kept, Prompt \/ GivesUp
  PROVE  Kept'
<1>1. CASE Prompt
  BY <1>1 DEF Prompt, StartInv, Kept, SamePage, TokenFits, SnapshotHolds, OwnIsDone,
     Driving, Over, flow, certState, others, page_, bridge
<1>2. CASE GivesUp
  BY <1>2, EndsKeeps DEF GivesUp
<1> QED
  BY <1>1, <1>2

\* Whatever went before, a sign-in that begins with nothing left of an earlier
\* one fits the page it was sent to.
LEMMA BeginsAnew ==
  ASSUME StartInv, WriteTaken, ~Alone, Alone'
  PROVE  Kept'
<1>1. Begin /\ mine' = "taken"
  BY DEF WriteTaken, Answer, Alone
<1>2. SamePage'
  BY DEF WriteTaken, Allowed, Reached, SamePage, TokenFits, certState, others, page_
<1>3. pc' = "write" /\ handled' /\ why' = "none"
  BY DEF WriteTaken, StartInv
<1> QED
  BY <1>1, <1>2, <1>3 DEF Kept, SnapshotHolds, OwnIsDone

\* The invariant of a person who signs in alone.
LEMMA StepAlone == TypeOK /\ StartInv /\ AloneHolds /\ [Next]_vars => AloneHolds'
<1> SUFFICES ASSUME TypeOK, StartInv, AloneHolds, [Next]_vars, Alone' PROVE Kept'
  BY DEF AloneHolds
<1>1. FlowTypeOK /\ seen \in State /\ csrf \in Nat
  BY DEF TypeOK
<1>2. CASE Run \/ Crash
  BY <1>2 DEF Run, Crash, Kept, SnapshotHolds, OwnIsDone, Driving
<1>3. Alone \/ Run \/ Crash \/ WriteTaken
  BY DEF Alone, Next, Page, PageStarts, PageReads, PageWrites, PageEnds, WatcherReads,
     WatcherLooks, WatcherSeesLate, WatcherResets, Bridge, BridgeSignsIn, BridgeReports, Report,
     ModeSettles, Settle, Reconnects, AccountGone, Others, Begin, Answer, Clear, Works,
     First, Write, WriteRefused, WriteAnswered, WriteFails,
     WriteUnreachable, Poll, PollAnswered, PollRefused, PollUnreachable, PollLate,
     Resolve, Split, Prompt, GivesUp, Deadline, StatusAnswered, StatusRefused, Ends,
     flow, vars
<1>4. CASE Alone /\ Kept
  <2>1. CASE Others
    BY <2>1 DEF Others, Alone
  <2>2. CASE UNCHANGED vars
    BY <1>4, <2>2 DEF Kept, SamePage, TokenFits, SnapshotHolds, OwnIsDone, vars, flow,
       certState, page_, bridge, command
  <2>3. CASE Page
    BY <1>4, <2>3, PageKeeps
  <2>4. CASE Bridge
    BY <1>4, <2>4, BridgeKeeps
  <2>5. CASE First \/ Split
    BY <1>1, <1>4, <2>5, FirstKeeps
  <2>6. CASE Prompt \/ GivesUp
    BY <1>4, <2>6, PersonKeeps
  <2>7. CASE Write
    BY <1>1, <1>4, <2>7, WriteKeeps
  <2>8. CASE Poll \/ PollLate \/ Deadline \/ Resolve
    BY <1>1, <1>4, <2>8, WaitKeeps
  <2> QED
    BY <1>2, <2>1, <2>2, <2>3, <2>4, <2>5, <2>6, <2>7, <2>8 DEF Next, Works
<1>5. CASE WriteTaken /\ ~Alone
  BY <1>5, BeginsAnew
<1> QED
  BY <1>2, <1>3, <1>4, <1>5 DEF AloneHolds

\* It holds from the start.
LEMMA AloneStays == Spec => []AloneHolds
<1>1. Init => AloneHolds
  BY DEF Init, AloneHolds, Kept, SnapshotHolds, OwnIsDone, Driving
<1> QED
  BY <1>1, StepAlone, TypeInvariant, StartStays, PTL DEF Spec

\* Whatever a person who signs in alone sends fits the session and the page.
THEOREM NotRefusedStays == Spec => []AloneNotRefused
<1>1. AloneHolds => AloneNotRefused
  BY DEF AloneHolds, Alone, Kept, AloneNotRefused
<1> QED
  BY <1>1, AloneStays, PTL

\* Their success is not told as a failure, though the page that would confirm it
\* is gone.
THEOREM SuccessStays == Spec => []SuccessIsTold
<1>1. AloneHolds => SuccessIsTold
  BY DEF AloneHolds, Alone, Kept, SuccessIsTold
<1> QED
  BY <1>1, AloneStays, PTL

-----------------------------------------------------------------------------
(* The page is the one that SignInPage describes *)

\* The command does nothing to the page but ask and send.
LEMMA CommandLeavesThePage ==
  ASSUME Run \/ Split \/ Prompt \/ GivesUp \/ Deadline \/ Works
  PROVE  /\ UNCHANGED <<page, watcher, resetDue>>
         /\ UNCHANGED flow \/ Begin \/ Answer \/ CallFails
  BY DEF Run, Split, Prompt, GivesUp, Deadline, Works, First, Write, Poll, PollLate,
     Resolve, WriteTaken, WriteRefused, WriteAnswered, WriteFails, WriteUnreachable,
     PollAnswered, PollRefused, PollUnreachable, StatusAnswered, StatusRefused,
     certState, others, page_

\* The watcher followed here goes with its page.
LEMMA StepWatcher == WatcherInv /\ [Next]_vars => WatcherInv'
<1> SUFFICES ASSUME WatcherInv, [Next]_vars PROVE WatcherInv'
  OBVIOUS
<1> USE DEF WatcherInv
<1>1. CASE PageStarts \/ PageReads \/ PageWrites
  BY <1>1 DEF PageStarts, PageReads, PageWrites, PageCalled, LoadCertificate,
     CreateCertificate, OpenCert, WriteCert, OpenKey, WriteKey, ComesUp, page_
<1>2. CASE PageEnds \/ Crash
  BY <1>2 DEF PageEnds, Crash
<1>3. CASE WatcherReads \/ WatcherLooks
  BY <1>3 DEF WatcherReads, WatcherLooks, certState
<1>4. CASE UNCHANGED <<page, watcher>>
  BY <1>4
<1>5. Bridge \/ Others \/ WatcherSeesLate \/ WatcherResets => UNCHANGED <<page, watcher>>
  BY DEF Bridge, BridgeSignsIn, BridgeReports, ModeSettles, Reconnects, AccountGone,
     Others, WatcherSeesLate, WatcherResets, certState, page_
<1>6. Run \/ Split \/ Prompt \/ GivesUp \/ Deadline \/ Works => UNCHANGED <<page, watcher>>
  BY CommandLeavesThePage
<1>7. UNCHANGED vars => UNCHANGED <<page, watcher>>
  BY DEF vars, certState, page_
<1> QED
  BY <1>1, <1>2, <1>3, <1>4, <1>5, <1>6, <1>7 DEF Next, Page

\* What the session does on its own or for whoever calls it.
LEMMA SessionStep ==
  ASSUME UNCHANGED <<page, watcher, resetDue>>,
         \/ UNCHANGED flow \/ Begin \/ Answer \/ Settle \/ GiveUp \/ CallFails
         \/ \E news \in News : Report(news)
  PROVE  P!Session \/ UNCHANGED <<P!flow, P!pageVars>>
<1>1. UNCHANGED <<stage, told, resetDue>>
  BY DEF stage, told
<1>2. (\E news \in News : Report(news)) => \E news \in P!News : P!Report(news)
  BY DEF News, Report, State, Ended, Secret, P!News, P!Report, P!State, P!Ended, P!Secret
<1> QED
  BY <1>1, <1>2 DEF Begin, Answer, Settle, GiveUp, CallFails, Ended, Secret, flow,
     P!Begin, P!Answer, P!Settle, P!GiveUp, P!CallFails, P!Ended, P!Secret, P!flow,
     P!Session, P!pageVars

\* Every step is one of SignInPage's or none; what is written to the volume while
\* a page is called for is none.
LEMMA StepIsOfThePage ==
  ASSUME TypeOK, WatcherInv, [Next]_vars
  PROVE  P!PageNext(connected) \/ UNCHANGED <<P!flow, P!pageVars>>
<1> USE DEF P!PageNext, P!PageRuns, P!flow, P!pageVars
<1>0. page \in {"down", "called", "up"} \cup Writing
  BY DEF TypeOK, CertTypeOK
<1>1. CASE PageStarts
  <2>1. P!Called(connected)
    BY <1>1 DEF PageStarts, PageCalled, page_, flow, stage, told, P!Called, P!flow
  <2> QED
    BY <2>1
<1>2. CASE PageReads \/ PageWrites
  <2>1. watcher = "over" /\ stage = "called" /\ ~told
    BY <1>2 DEF PageReads, PageWrites, LoadCertificate, CreateCertificate, OpenCert,
       WriteCert, OpenKey, WriteKey, WatcherInv, stage, told
  <2>2. CASE page' = "up"
    <3>1. P!ComesUp
      BY <1>2, <2>1, <2>2 DEF PageReads, PageWrites, ComesUp, flow, stage, told,
         P!ComesUp, P!flow
    <3> QED
      BY <3>1
  <2>3. CASE page' # "up"
    <3>1. page' \in Writing /\ UNCHANGED <<flow, resetDue>>
      BY <1>2, <2>3 DEF PageReads, PageWrites, LoadCertificate, CreateCertificate,
         OpenCert, WriteCert, OpenKey, WriteKey, Serves, Writing
    <3> QED
      BY <2>1, <3>1 DEF Writing, flow, stage, told
  <2> QED
    BY <2>2, <2>3
<1>3. CASE PageEnds
  <2>1. P!Fails
    BY <1>0, <1>3 DEF PageEnds, PageStops, Writing, flow, stage, told, P!Fails, P!Gone,
       P!flow
  <2> QED
    BY <2>1
<1>4. CASE WatcherReads
  <2>1. page = "up" /\ stage = "up" /\ stage' = "up" /\ UNCHANGED flow /\ ~told
    BY <1>4 DEF WatcherReads, WatcherInv, certState, stage, told
  <2>2. CASE state = "succeeded" /\ watcher' = "over" /\ resetDue' = TRUE
    <3>1. P!MarkSignedIn(connected)
      BY <1>4, <2>1, <2>2 DEF WatcherReads, certState, flow, stage, told,
         P!MarkSignedIn, P!flow
    <3> QED
      BY <3>1
  <2>3. CASE watcher' = "looks" /\ UNCHANGED resetDue
    BY <1>4, <2>1, <2>3 DEF WatcherReads, flow, told
  <2> QED
    BY <1>4, <2>2, <2>3 DEF WatcherReads
<1>5. CASE WatcherLooks
  <2>1. /\ page = "up" /\ stage = "up" /\ stage' = "up" /\ ~told
        /\ UNCHANGED <<flow, resetDue>>
    BY <1>5 DEF WatcherLooks, WatcherInv, certState, stage, told
  <2>2. CASE connected
    <3>1. P!MarkSignedIn(connected)
      BY <1>5, <2>1, <2>2 DEF WatcherLooks, certState, flow, stage, told,
         P!MarkSignedIn, P!flow
    <3> QED
      BY <3>1
  <2>3. CASE ~connected
    BY <1>5, <2>1, <2>3 DEF WatcherLooks, flow, told
  <2> QED
    BY <2>2, <2>3
<1>6. CASE WatcherSeesLate
  <2>1. P!SeesLate
    BY <1>6 DEF WatcherSeesLate, certState, flow, stage, told, P!SeesLate, P!flow
  <2> QED
    BY <2>1
<1>7. CASE WatcherResets
  <2>1. P!Resets
    BY <1>7 DEF WatcherResets, Clear, certState, stage, told, P!Resets, P!Clear
  <2> QED
    BY <2>1
<1>8. CASE Crash
  <2>1. P!Crash
    BY <1>8 DEF Crash, PageStops, stage, told, P!Crash
  <2> QED
    BY <2>1
<1>9. CASE Bridge \/ Others
  BY <1>9, SessionStep DEF Bridge, BridgeSignsIn, BridgeReports, ModeSettles, Reconnects,
     AccountGone, Others, certState, page_
<1>10. CASE Run \/ Split \/ Prompt \/ GivesUp \/ Deadline \/ Works
  BY <1>10, CommandLeavesThePage, SessionStep
<1>11. CASE UNCHANGED vars
  BY <1>11, SessionStep DEF vars, certState, page_
<1> QED
  BY <1>1, <1>2, <1>3, <1>4, <1>5, <1>6, <1>7, <1>8, <1>9, <1>10, <1>11 DEF Next, Page

\* A command in the terminal works on the page that SignIn runs: the page of its
\* model, with the files behind it, is an implementation of SignInPage.
THEOREM ImplementsPage == Spec => KeepsToThePage
<1>1. Init => WatcherInv /\ P!PageInit
  BY DEF Init, WatcherInv, FlowInit, CertInit, stage, told, P!PageInit, P!FlowInit
<1>2. TypeOK /\ WatcherInv /\ [Next]_vars =>
        [P!PageNext(connected)]_<<P!flow, P!pageVars>>
  BY StepIsOfThePage
<1> QED
  BY <1>1, <1>2, StepWatcher, TypeInvariant, PTL DEF Spec, KeepsToThePage

=============================================================================
