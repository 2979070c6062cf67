---------------------------- MODULE ControlProofs ----------------------------
(***************************************************************************)
(* What the commands report, for any number of accounts and of commands    *)
(* that run at the same time.                                              *)
(***************************************************************************)
EXTENDS Control, TLAPS

-----------------------------------------------------------------------------
(* Types *)

\* Every step preserves the type invariant.
LEMMA StepTypes == TypeOK /\ [Next]_vars => TypeOK'
<1> SUFFICES ASSUME TypeOK, [Next]_vars PROVE TypeOK'
  OBVIOUS
<1> USE DEF TypeOK, Mode, AccountState, SwitchPlace, WipePlace, bridge, switch
<1>1. CASE ReadsVault
  BY <1>1 DEF ReadsVault
<1>2. ASSUME NEW a \in Account, Changes(a)
      PROVE  TypeOK'
  BY <1>2 DEF Changes
<1>3. ASSUME NEW a \in Account, Removes(a)
      PROVE  TypeOK'
  BY <1>3 DEF Removes, About
<1>4. ASSUME NEW p \in Switch, Switches(p)
      PROVE  TypeOK'
  BY <1>4 DEF Switches
<1>5. ASSUME NEW r \in Wipe, EndsReset(r)
      PROVE  TypeOK'
  BY <1>5 DEF EndsReset
<1>6. ASSUME NEW p \in Switch, Reads(p)
      PROVE  TypeOK'
  <2>1. disturbed' \subseteq Switch
    BY <1>6 DEF Reads, StartsDisturbed
  <2>2. at' \in [Switch -> SwitchPlace]
    BY <1>6 DEF Reads, Goes
  <2>3. UNCHANGED <<read, state, mode, job, resetting, user, want, step>>
    BY <1>6 DEF Reads
  <2> QED
    BY <2>1, <2>2, <2>3
<1>7. ASSUME NEW p \in Switch, Calls(p)
      PROVE  TypeOK'
  <2>1. disturbed' \subseteq Switch
    BY <1>7 DEF Calls, Queues, Rivals, About
  <2>2. at' \in [Switch -> SwitchPlace]
    BY <1>7 DEF Calls, Goes
  <2>3. job' \in [Switch -> {"none", "queued", "over"}]
    BY <1>7 DEF Calls, Queues
  <2>4. UNCHANGED <<read, state, mode, resetting, user, want, step>>
    BY <1>7 DEF Calls
  <2> QED
    BY <2>1, <2>2, <2>3, <2>4
<1>8. ASSUME NEW p \in Switch, Polls(p)
      PROVE  TypeOK'
  BY <1>8 DEF Polls, Goes
<1>9. ASSUME NEW p \in Switch, GivesUp(p)
      PROVE  TypeOK'
  BY <1>9 DEF GivesUp, Goes
<1>10. ASSUME NEW p \in Switch, NEW name \in Account \cup {NoAccount},
             NEW m \in Mode, Lists(p, name, m)
      PROVE  TypeOK'
  <2>1. PICK place \in SwitchPlace : Goes(p, place)
    BY <1>10 DEF Lists
  <2>2. at' \in [Switch -> SwitchPlace]
    BY <2>1 DEF Goes
  <2>3. user' \in [Switch -> Account \cup {NoAccount}]
    BY <1>10 DEF Lists
  <2>4. want' \in [Switch -> Mode]
    BY <1>10 DEF Lists
  <2> QED
    BY <1>10, <2>2, <2>3, <2>4 DEF Lists
<1>11. ASSUME NEW p \in Switch, Answers(p)
      PROVE  TypeOK'
  BY <1>11 DEF Answers, Goes
<1>12. ASSUME NEW p \in Switch, NEW a \in Account, NEW m \in Mode,
             SignsIn(p, a, m)
      PROVE  TypeOK'
  BY <1>12 DEF SignsIn, Goes
<1>13. ASSUME NEW r \in Wipe, Triggers(r)
      PROVE  TypeOK'
  BY <1>13 DEF Triggers, Steps
<1>14. ASSUME NEW r \in Wipe, WipePolls(r)
      PROVE  TypeOK'
  BY <1>14 DEF WipePolls, Steps
<1>15. ASSUME NEW r \in Wipe, WipeGivesUp(r)
      PROVE  TypeOK'
  BY <1>15 DEF WipeGivesUp, Steps
<1>16. ASSUME NEW r \in Wipe, WipeLists(r)
      PROVE  TypeOK'
  BY <1>16 DEF WipeLists, Steps
<1>17. ASSUME NEW r \in Wipe, WipeAnswers(r)
      PROVE  TypeOK'
  BY <1>17 DEF WipeAnswers, Steps
<1>18. CASE UNCHANGED vars
  BY <1>18 DEF vars
<1> QED
  BY <1>1, <1>2, <1>3, <1>4, <1>5, <1>6, <1>7, <1>8, <1>9, <1>10,
     <1>11, <1>12, <1>13, <1>14, <1>15, <1>16, <1>17, <1>18
  DEF Next, Bridge, SetSplitMode, Begins, Reset

-----------------------------------------------------------------------------
(* Switches *)

\* Every step preserves what is known of the switches.
LEMMA StepMode == TypeOK /\ ModeInv /\ [Next]_vars => ModeInv'
<1> SUFFICES ASSUME TypeOK, ModeInv, [Next]_vars PROVE ModeInv'
  OBVIOUS
<1> USE ControlAssumption DEF TypeOK, ModeInv, ReportedModeHolds, Rivals, About, bridge, switch
<1>1. CASE ReadsVault
  BY <1>1 DEF ReadsVault
<1>2. ASSUME NEW a \in Account, Changes(a)
      PROVE  ModeInv'
  BY <1>2 DEF Changes
<1>3. ASSUME NEW a \in Account, Removes(a)
      PROVE  ModeInv'
  BY <1>3 DEF Removes, About
<1>4. ASSUME NEW p \in Switch, Switches(p)
      PROVE  ModeInv'
  BY <1>4 DEF Switches
<1>5. ASSUME NEW r \in Wipe, EndsReset(r)
      PROVE  ModeInv'
  BY <1>5 DEF EndsReset
<1>6. ASSUME NEW p \in Switch, Reads(p)
      PROVE  ModeInv'
  BY <1>6 DEF Reads, Goes, StartsDisturbed
<1>7. ASSUME NEW p \in Switch, Calls(p)
      PROVE  ModeInv'
  BY <1>7 DEF Calls, Goes, Queues
<1>8. ASSUME NEW p \in Switch, Polls(p)
      PROVE  ModeInv'
  BY <1>8 DEF Polls, Goes
<1>9. ASSUME NEW p \in Switch, GivesUp(p)
      PROVE  ModeInv'
  BY <1>9 DEF GivesUp, Goes
<1>10. ASSUME NEW p \in Switch, NEW name \in Account \cup {NoAccount},
             NEW m \in Mode, Lists(p, name, m)
      PROVE  ModeInv'
  <2>1. /\ at[p] = "idle" /\ job[p] = "none"
        /\ UNCHANGED <<state, mode, job, disturbed>>
        /\ \A q \in Switch \ {p} : at'[q] = at[q] /\ user'[q] = user[q] /\ want'[q] = want[q]
    BY <1>10 DEF Lists, Goes
  <2>2. at'[p] \in {"already", "asks", "refused"}
    BY <1>10 DEF Lists, Goes
  <2>3. at'[p] = "asks" => user'[p] \in Account
    BY <1>10 DEF Lists, Goes
  <2>4. ASSUME NEW q \in Switch, at'[q] \in {"call", "poll", "reported"}, q \notin disturbed'
        PROVE  \A x \in Rivals(q)' : job'[x] # "queued"
    BY <2>1, <2>2, <2>4
  <2>5. ReportedModeHolds'
    BY <2>1, <2>2
  <2>6. \A q \in Switch :
          /\ at'[q] \in {"idle", "asks", "read", "call"} => job'[q] = "none"
          /\ at'[q] \in {"asks", "read", "call", "poll", "reported"} => user'[q] \in Account
          /\ job'[q] # "none" => user'[q] \in Account
    BY <2>1, <2>2, <2>3
  <2> QED
    BY <2>4, <2>5, <2>6
<1>11. ASSUME NEW p \in Switch, Answers(p)
      PROVE  ModeInv'
  BY <1>11 DEF Answers, Goes
<1>12. ASSUME NEW p \in Switch, NEW a \in Account, NEW m \in Mode,
             SignsIn(p, a, m)
      PROVE  ModeInv'
  BY <1>12 DEF SignsIn, Goes
<1>13. ASSUME NEW r \in Wipe, Triggers(r)
      PROVE  ModeInv'
  BY <1>13 DEF Triggers, Steps
<1>14. ASSUME NEW r \in Wipe, WipePolls(r)
      PROVE  ModeInv'
  BY <1>14 DEF WipePolls, Steps
<1>15. ASSUME NEW r \in Wipe, WipeGivesUp(r)
      PROVE  ModeInv'
  BY <1>15 DEF WipeGivesUp, Steps
<1>16. ASSUME NEW r \in Wipe, WipeLists(r)
      PROVE  ModeInv'
  BY <1>16 DEF WipeLists, Steps
<1>17. ASSUME NEW r \in Wipe, WipeAnswers(r)
      PROVE  ModeInv'
  BY <1>17 DEF WipeAnswers, Steps
<1>18. CASE UNCHANGED vars
  BY <1>18 DEF vars
<1> QED
  BY <1>1, <1>2, <1>3, <1>4, <1>5, <1>6, <1>7, <1>8, <1>9, <1>10,
     <1>11, <1>12, <1>13, <1>14, <1>15, <1>16, <1>17, <1>18
  DEF Next, Bridge, SetSplitMode, Begins, Reset

-----------------------------------------------------------------------------
(* Resets *)

\* Every step preserves what is known of the resets.
LEMMA StepReset == TypeOK /\ ResetInv /\ [Next]_vars => ResetInv'
<1> SUFFICES ASSUME TypeOK, ResetInv, [Next]_vars PROVE ResetInv'
  OBVIOUS
<1> USE DEF TypeOK, ResetInv, bridge, switch
<1>1. CASE ReadsVault
  BY <1>1 DEF ReadsVault
<1>2. ASSUME NEW a \in Account, Changes(a)
      PROVE  ResetInv'
  BY <1>2 DEF Changes
<1>3. ASSUME NEW a \in Account, Removes(a)
      PROVE  ResetInv'
  BY <1>3 DEF Removes, About
<1>4. ASSUME NEW p \in Switch, Switches(p)
      PROVE  ResetInv'
  BY <1>4 DEF Switches
<1>5. ASSUME NEW r \in Wipe, EndsReset(r)
      PROVE  ResetInv'
  BY <1>5 DEF EndsReset
<1>6. ASSUME NEW p \in Switch, Reads(p)
      PROVE  ResetInv'
  BY <1>6 DEF Reads, Goes, StartsDisturbed
<1>7. ASSUME NEW p \in Switch, Calls(p)
      PROVE  ResetInv'
  BY <1>7 DEF Calls, Goes, Queues
<1>8. ASSUME NEW p \in Switch, Polls(p)
      PROVE  ResetInv'
  BY <1>8 DEF Polls, Goes
<1>9. ASSUME NEW p \in Switch, GivesUp(p)
      PROVE  ResetInv'
  BY <1>9 DEF GivesUp, Goes
<1>10. ASSUME NEW p \in Switch, NEW name \in Account \cup {NoAccount},
             NEW m \in Mode, Lists(p, name, m)
      PROVE  ResetInv'
  BY <1>10 DEF Lists, Goes, Picks
<1>11. ASSUME NEW p \in Switch, Answers(p)
      PROVE  ResetInv'
  BY <1>11 DEF Answers, Goes
<1>12. ASSUME NEW p \in Switch, NEW a \in Account, NEW m \in Mode,
             SignsIn(p, a, m)
      PROVE  ResetInv'
  BY <1>12 DEF SignsIn, Goes
<1>13. ASSUME NEW r \in Wipe, Triggers(r)
      PROVE  ResetInv'
  BY <1>13 DEF Triggers, Steps
<1>14. ASSUME NEW r \in Wipe, WipePolls(r)
      PROVE  ResetInv'
  BY <1>14 DEF WipePolls, Steps
<1>15. ASSUME NEW r \in Wipe, WipeGivesUp(r)
      PROVE  ResetInv'
  BY <1>15 DEF WipeGivesUp, Steps
<1>16. ASSUME NEW r \in Wipe, WipeLists(r)
      PROVE  ResetInv'
  BY <1>16 DEF WipeLists, Steps, Listed
<1>17. ASSUME NEW r \in Wipe, WipeAnswers(r)
      PROVE  ResetInv'
  BY <1>17 DEF WipeAnswers, Steps
<1>18. CASE UNCHANGED vars
  BY <1>18 DEF vars
<1> QED
  BY <1>1, <1>2, <1>3, <1>4, <1>5, <1>6, <1>7, <1>8, <1>9, <1>10,
     <1>11, <1>12, <1>13, <1>14, <1>15, <1>16, <1>17, <1>18
  DEF Next, Bridge, SetSplitMode, Begins, Reset

-----------------------------------------------------------------------------
(* The theorems *)

\* The program starts in a state of the right types.
LEMMA InitTypes == Init => TypeOK
<1> SUFFICES ASSUME Init PROVE TypeOK
  OBVIOUS
<1> USE DEF Init
<1>1. state \in [Account -> AccountState] /\ mode \in [Account -> Mode]
  BY DEF AccountState
<1>2. /\ job \in [Switch -> {"none", "queued", "over"}]
      /\ at \in [Switch -> SwitchPlace]
      /\ user \in [Switch -> Account \cup {NoAccount}]
      /\ want \in [Switch -> Mode]
  BY DEF SwitchPlace, Mode
<1>3. step \in [Wipe -> WipePlace]
  BY DEF WipePlace
<1> QED
  BY <1>1, <1>2, <1>3 DEF TypeOK

\* Every variable keeps its type, whatever runs at the same time
\* (mode.go:48-91, control.go:289-322).
THEOREM TypeInvariant == Spec => []TypeOK
  BY InitTypes, StepTypes, PTL DEF Spec

\* A mode reported as set is the account's, and stays it, unless the bridge is
\* asked for the other one by somebody else (mode.go:24-91).
THEOREM ReportHolds == Spec => []ReportedModeHolds
<1>1. Init => ModeInv
  BY DEF Init, ModeInv, ReportedModeHolds
<1>2. ModeInv => ReportedModeHolds
  BY DEF ModeInv
<1> QED
  BY <1>1, <1>2, StepMode, TypeInvariant, PTL DEF Spec

\* A reset begins after the vault was read.
LEMMA ResetsAfterRead == Spec => []ResetInv
<1>1. Init => ResetInv
  BY DEF Init, ResetInv
<1> QED
  BY <1>1, StepReset, TypeInvariant, PTL DEF Spec

\* A command ends with success only where it looks at the list.
LEMMA OnlyByALook ==
  ASSUME TypeOK, [Next]_vars, NEW r \in Wipe, step'[r] # step[r],
         step'[r] \in {"done", "nothing"}
  PROVE  WipePolls(r) \/ WipeLists(r)
<1> DEFINE Looks == WipePolls(r) \/ WipeLists(r)
<1> USE DEF TypeOK, bridge, switch
<1>1. CASE ReadsVault
  BY <1>1 DEF ReadsVault
<1>2. ASSUME NEW a \in Account, Changes(a)
      PROVE  Looks
  BY <1>2 DEF Changes
<1>3. ASSUME NEW a \in Account, Removes(a)
      PROVE  Looks
  BY <1>3 DEF Removes, About
<1>4. ASSUME NEW p \in Switch, Switches(p)
      PROVE  Looks
  BY <1>4 DEF Switches
<1>5. ASSUME NEW w \in Wipe, EndsReset(w)
      PROVE  Looks
  BY <1>5 DEF EndsReset
<1>6. ASSUME NEW p \in Switch, Reads(p)
      PROVE  Looks
  BY <1>6 DEF Reads, Goes, StartsDisturbed
<1>7. ASSUME NEW p \in Switch, Calls(p)
      PROVE  Looks
  BY <1>7 DEF Calls, Goes, Queues
<1>8. ASSUME NEW p \in Switch, Polls(p)
      PROVE  Looks
  BY <1>8 DEF Polls, Goes
<1>9. ASSUME NEW p \in Switch, GivesUp(p)
      PROVE  Looks
  BY <1>9 DEF GivesUp, Goes
<1>10. ASSUME NEW p \in Switch, NEW name \in Account \cup {NoAccount},
             NEW m \in Mode, Lists(p, name, m)
      PROVE  Looks
  BY <1>10 DEF Lists, Goes, Picks
<1>11. ASSUME NEW p \in Switch, Answers(p)
      PROVE  Looks
  BY <1>11 DEF Answers, Goes
<1>12. ASSUME NEW p \in Switch, NEW a \in Account, NEW m \in Mode,
             SignsIn(p, a, m)
      PROVE  Looks
  BY <1>12 DEF SignsIn, Goes
<1>13. ASSUME NEW w \in Wipe, Triggers(w)
      PROVE  Looks
  BY <1>13 DEF Triggers, Steps
<1>14. ASSUME NEW w \in Wipe, WipePolls(w)
      PROVE  Looks
  BY <1>14 DEF WipePolls, Steps
<1>15. ASSUME NEW w \in Wipe, WipeGivesUp(w)
      PROVE  Looks
  BY <1>15 DEF WipeGivesUp, Steps
<1>16. ASSUME NEW w \in Wipe, WipeLists(w)
      PROVE  Looks
  BY <1>16 DEF WipeLists, Steps
<1>17. ASSUME NEW w \in Wipe, WipeAnswers(w)
      PROVE  Looks
  BY <1>17 DEF WipeAnswers, Steps
<1>18. CASE UNCHANGED vars
  BY <1>18 DEF vars
<1> QED
  BY <1>1, <1>2, <1>3, <1>4, <1>5, <1>6, <1>7, <1>8, <1>9, <1>10,
     <1>11, <1>12, <1>13, <1>14, <1>15, <1>16, <1>17, <1>18
  DEF Next, Bridge, SetSplitMode, Begins, Reset

\* A reset that is reported as done has left no account, although the bridge
\* resets in the background (control.go:272-322).
THEOREM DoneIsEmpty == Spec => DoneMeansEmpty
<1> DEFINE Empty == \A r \in Wipe :
                      step[r] # "done" /\ step'[r] = "done" => InVault = {}
<1>1. (TypeOK /\ ResetInv) /\ [Next]_vars => [Empty]_vars
  <2> SUFFICES ASSUME TypeOK, ResetInv, [Next]_vars,
                      NEW r \in Wipe, step[r] # "done", step'[r] = "done"
               PROVE  InVault = {}
    OBVIOUS
  <2>1. WipePolls(r)
    BY OnlyByALook DEF WipeLists, Steps, TypeOK
  <2> QED
    BY <2>1 DEF WipePolls, ResetInv, Listed
<1> QED
  BY <1>1, ResetsAfterRead, TypeInvariant, PTL DEF Spec, DoneMeansEmpty
\* And what proton-reset takes for an empty vault before it has reset anything is
\* one, once the vault has been read: the list of the first moments is all that
\* stands between its success and the promise (control.go:274-278,
\* proton-reset/main.go:93-96).
THEOREM SuccessOnceRead == Spec => ReadSuccessMeansEmpty
<1> DEFINE Empty == read => \A r \in Wipe :
                      step[r] # step'[r] /\ step'[r] \in {"done", "nothing"} =>
                        InVault = {}
<1>1. TypeOK /\ [Next]_vars => [Empty]_vars
  <2> SUFFICES ASSUME TypeOK, [Next]_vars, read, NEW r \in Wipe,
                      step[r] # step'[r], step'[r] \in {"done", "nothing"}
               PROVE  InVault = {}
    OBVIOUS
  <2>1. CASE WipePolls(r)
    BY <2>1 DEF WipePolls, Listed
  <2>2. CASE WipeLists(r)
    BY <2>2 DEF WipeLists, Steps, Listed, TypeOK
  <2> QED
    BY <2>1, <2>2, OnlyByALook
<1> QED
  BY <1>1, TypeInvariant, PTL DEF Spec, ReadSuccessMeansEmpty
==============================================================================
