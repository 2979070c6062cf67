------------------------------- MODULE Control -------------------------------
(***************************************************************************)
(* internal/control/mode.go, the Reset of internal/control/control.go, and *)
(* the commands that use them: proton-mode, proton-reset and the           *)
(* settleMode of a sign-in.  Each is a process of its own, or a goroutine, *)
(* and any of them may run at the same time.                               *)
(*                                                                         *)
(* The bridge answers a request to switch or to reset before it does       *)
(* anything, and says nowhere whether it worked.  So a Switch (one run of  *)
(* proton-mode, or one settleMode that has to switch) and a Wipe (one run  *)
(* of proton-reset) ask, and then read until they see what they asked for  *)
(* or their time is up.  Time may be up at any moment.  A read that fails  *)
(* during that wait changes nothing and is not a step.                     *)
(***************************************************************************)

CONSTANTS
  Account,     \* accounts that can be in the vault
  NoAccount,   \* no account
  Switch,      \* runs of proton-mode, and settleMode goroutines that switch
  Wipe         \* runs of proton-reset

ASSUME ControlAssumption == NoAccount \notin Account

VARIABLES
  \* the bridge
  read,        \* the vault has been read
  state,       \* the state of each account
  mode,        \* its address mode
  job,         \* the switch each Switch has asked for
  resetting,   \* the Wipes whose reset the bridge is working on
  \* the processes
  at,          \* where each Switch is
  user,        \* the account it is about
  want,        \* the mode it asks for
  step,        \* where each Wipe is
  \* History, read by no guard of the code:
  disturbed    \* Switches whose account something else has touched

bridge == <<read, state, mode, job, resetting>>
switch == <<at, user, want>>
vars == <<bridge, switch, step, disturbed>>

-----------------------------------------------------------------------------

Mode == {"combined", "split"}

\* "locked" is every state but connected: locked and signed out.
AccountState == {"absent", "locked", "connected"}

SwitchPlace == {"idle", "asks", "read", "call", "poll",
                "already", "refused", "reported", "gave_up"}
WipePlace == {"idle", "asks", "trigger", "poll",
              "nothing", "refused", "done", "unknown"}

TypeOK ==
  /\ read \in BOOLEAN
  /\ state \in [Account -> AccountState]
  /\ mode \in [Account -> Mode]
  /\ job \in [Switch -> {"none", "queued", "over"}]
  /\ resetting \subseteq Wipe
  /\ at \in [Switch -> SwitchPlace]
  /\ user \in [Switch -> Account \cup {NoAccount}]
  /\ want \in [Switch -> Mode]
  /\ step \in [Wipe -> WipePlace]
  /\ disturbed \subseteq Switch

\* The bridge has just been started over a vault.  A mode of no account is
\* that of a new one.
Init ==
  /\ read = FALSE
  /\ state \in [Account -> {"absent", "locked"}]
  /\ mode \in [Account -> Mode]
  /\ \A a \in Account : state[a] = "absent" => mode[a] = "combined"
  /\ job = [p \in Switch |-> "none"]
  /\ resetting = {}
  /\ at = [p \in Switch |-> "idle"]
  /\ user = [p \in Switch |-> NoAccount]
  /\ want = [p \in Switch |-> "combined"]
  /\ step = [r \in Wipe |-> "idle"]
  /\ disturbed = {}

InVault == {a \in Account : state[a] # "absent"}

\* What GetUserList names, and GetUser knows.
Listed == IF read THEN InVault ELSE {}

\* The Switches that have spoken of account a, or will.
About(a) == {p \in Switch : user[p] = a}

-----------------------------------------------------------------------------
(* The bridge *)

ReadsVault ==
  /\ ~read
  /\ read' = TRUE
  /\ UNCHANGED <<state, mode, job, resetting, switch, step, disturbed>>

\* An account connects, by itself or because somebody signs in again, or stops
\* being connected.
Changes(a) ==
  /\ a \in Listed
  /\ state' = [state EXCEPT ![a] = IF @ = "locked" THEN "connected"
                                   ELSE "locked"]
  /\ UNCHANGED <<read, mode, job, resetting, switch, step, disturbed>>

\* A switch is carried out in the background, on an account that is connected,
\* and one that fails is only logged.
Switches(p) ==
  /\ job[p] = "queued"
  /\ job' = [job EXCEPT ![p] = "over"]
  /\ \/ /\ state[user[p]] = "connected"
        /\ mode' = [mode EXCEPT ![user[p]] = want[p]]
     \/ UNCHANGED mode
  /\ UNCHANGED <<read, state, resetting, switch, step, disturbed>>

\* A reset takes one account after another.
Removes(a) ==
  /\ resetting # {}
  /\ a \in Listed
  /\ state' = [state EXCEPT ![a] = "absent"]
  /\ mode' = [mode EXCEPT ![a] = "combined"]
  /\ disturbed' = disturbed \cup About(a)
  /\ UNCHANGED <<read, job, resetting, switch, step>>

\* It ends, whether or not it took them all.
EndsReset(r) ==
  /\ r \in resetting
  /\ resetting' = resetting \ {r}
  /\ UNCHANGED <<read, state, mode, job, switch, step, disturbed>>

-----------------------------------------------------------------------------
(* SetSplitMode *)

Goes(p, place) == at' = [at EXCEPT ![p] = place]

\* Other switches of the same account, to another mode.
Rivals(p) == {q \in About(user[p]) \ {p} : want[q] # want[p]}

\* Rivals that are on their way at the bridge disturb p from the start.
StartsDisturbed(p) ==
  disturbed' = IF \E q \in Rivals(p) : job[q] = "queued"
               THEN disturbed \cup {p} ELSE disturbed

\* GetUser, before anything is asked for.
Reads(p) ==
  /\ at[p] = "read"
  /\ \/ /\ user[p] \in Listed
        /\ state[user[p]] = "connected"
        /\ IF mode[user[p]] = want[p] THEN Goes(p, "reported")
                                      ELSE Goes(p, "call")
        /\ StartsDisturbed(p)
     \/ Goes(p, "refused") /\ UNCHANGED disturbed
  /\ UNCHANGED <<bridge, user, want, step>>

\* The bridge has p's request, which disturbs those who want the other mode.
Queues(p) ==
  /\ job' = [job EXCEPT ![p] = "queued"]
  /\ disturbed' = disturbed \cup Rivals(p)

\* (mutant) trusts the answer
CallsAndReports(p) ==
  /\ at[p] = "call"
  /\ \/ Queues(p) /\ Goes(p, "reported")
     \/ Goes(p, "refused") /\ UNCHANGED <<job, disturbed>>
  /\ UNCHANGED <<read, state, mode, resetting, user, want, step>>

\* SetUserSplitMode.  A call that fails may have reached the bridge.
Calls(p) ==
  /\ at[p] = "call"
  /\ \/ Queues(p) /\ (Goes(p, "poll") \/ Goes(p, "refused"))
     \/ Goes(p, "refused") /\ UNCHANGED <<job, disturbed>>
  /\ UNCHANGED <<read, state, mode, resetting, user, want, step>>

\* GetUser, once the bridge has been asked.
Polls(p) ==
  /\ at[p] = "poll"
  /\ user[p] \in Listed
  /\ mode[user[p]] = want[p]
  /\ Goes(p, "reported")
  /\ UNCHANGED <<bridge, user, want, step, disturbed>>

\* (mutant) ends with the verdict of the other command
GivesUpAsReset(p) ==
  /\ at[p] = "poll"
  /\ Goes(p, "unknown")
  /\ UNCHANGED <<bridge, user, want, step, disturbed>>

\* ErrModeNotApplied: the bridge has not shown the new mode in time.
GivesUp(p) ==
  /\ at[p] = "poll"
  /\ Goes(p, "gave_up")
  /\ UNCHANGED <<bridge, user, want, step, disturbed>>

-----------------------------------------------------------------------------
(* proton-mode, and settleMode *)

\* pickAccount: by name, or the only account there is.
Picks(name, a) ==
  /\ a \in Listed
  /\ a = name \/ (name = NoAccount /\ Listed = {a})

\* The list of accounts is read, an account is picked, and its mode looked at.
Lists(p, name, m) ==
  /\ at[p] = "idle"
  /\ \/ \E a \in Account :
          /\ Picks(name, a)
          /\ user' = [user EXCEPT ![p] = a]
          /\ want' = [want EXCEPT ![p] = m]
          /\ Goes(p, IF mode[a] = m THEN "already" ELSE "asks")
     \/ Goes(p, "refused") /\ UNCHANGED <<user, want>>
  /\ UNCHANGED <<bridge, step, disturbed>>

\* The question is answered, with yes or with no, or there is nobody to ask.
Answers(p) ==
  /\ at[p] = "asks"
  /\ Goes(p, "read") \/ Goes(p, "refused")
  /\ UNCHANGED <<bridge, user, want, step, disturbed>>

\* Somebody signs in with an account the bridge did not have, and the answer
\* about split mode is applied to it.
SignsIn(p, a, m) ==
  /\ read /\ state[a] = "absent"
  /\ at[p] = "idle"
  /\ state' = [state EXCEPT ![a] = "connected"]
  /\ user' = [user EXCEPT ![p] = a]
  /\ want' = [want EXCEPT ![p] = m]
  /\ Goes(p, "read")
  /\ UNCHANGED <<read, mode, job, resetting, step, disturbed>>

-----------------------------------------------------------------------------
(* proton-reset *)

Steps(r, place) == step' = [step EXCEPT ![r] = place]

WipeLists(r) ==
  /\ step[r] = "idle"
  /\ Steps(r, IF Listed = {} THEN "nothing" ELSE "asks") \/ Steps(r, "refused")
  /\ UNCHANGED <<bridge, switch, disturbed>>

WipeAnswers(r) ==
  /\ step[r] = "asks"
  /\ Steps(r, "trigger") \/ Steps(r, "refused")
  /\ UNCHANGED <<bridge, switch, disturbed>>

\* TriggerReset.  A call that fails may have reached the bridge.
Triggers(r) ==
  /\ step[r] = "trigger"
  /\ \/ /\ resetting' = resetting \cup {r}
        /\ Steps(r, "poll") \/ Steps(r, "refused")
     \/ Steps(r, "refused") /\ UNCHANGED resetting
  /\ UNCHANGED <<read, state, mode, job, switch, disturbed>>

\* (mutant) takes a list that cannot be read for an empty one
WipePollsAnyAnswer(r) ==
  /\ step[r] = "poll"
  /\ Steps(r, "done")
  /\ UNCHANGED <<bridge, switch, disturbed>>

\* GetUserList names nobody.
WipePolls(r) ==
  /\ step[r] = "poll"
  /\ Listed = {}
  /\ Steps(r, "done")
  /\ UNCHANGED <<bridge, switch, disturbed>>

\* Some account is still there, or it could not be read whether one is.
WipeGivesUp(r) ==
  /\ step[r] = "poll"
  /\ Steps(r, "unknown")
  /\ UNCHANGED <<bridge, switch, disturbed>>

-----------------------------------------------------------------------------

Bridge ==
  \/ ReadsVault
  \/ \E a \in Account : Changes(a) \/ Removes(a)
  \/ \E p \in Switch : Switches(p)
  \/ \E r \in Wipe : EndsReset(r)

SetSplitMode(p) == Reads(p) \/ Calls(p) \/ Polls(p) \/ GivesUp(p)

Begins(p) ==
  \/ \E name \in Account \cup {NoAccount}, m \in Mode : Lists(p, name, m)
  \/ Answers(p)
  \/ \E a \in Account, m \in Mode : SignsIn(p, a, m)

Reset(r) == Triggers(r) \/ WipePolls(r) \/ WipeGivesUp(r)

Next ==
  \/ Bridge
  \/ \E p \in Switch : SetSplitMode(p) \/ Begins(p)
  \/ \E r \in Wipe : Reset(r) \/ WipeLists(r) \/ WipeAnswers(r)

Spec == Init /\ [][Next]_vars

-----------------------------------------------------------------------------
(* Safety *)

\* A mode reported as set is the account's mode, and stays it, unless the
\* bridge was or is asked for the other one by somebody else, or the account
\* was removed meanwhile (mode.go:24-91).
ReportedModeHolds ==
  \A p \in Switch : at[p] = "reported" /\ p \notin disturbed =>
    mode[user[p]] = want[p]

\* proton-reset says that no account is signed in and the vault is empty only
\* when that is so, although the reset runs in the background
\* (control.go:272-322, proton-reset/main.go:141-154).
DoneMeansEmpty ==
  [][\A r \in Wipe : step[r] # "done" /\ step'[r] = "done" => InVault = {}]_vars

-----------------------------------------------------------------------------
(* The inductive invariants behind the safety properties *)

\* A switch that is disturbed by nobody has no rival on its way at the bridge,
\* and nobody is on the way who has not got past SetUserSplitMode.
ModeInv ==
  /\ \A p \in Switch :
       /\ at[p] \in {"idle", "asks", "read", "call"} => job[p] = "none"
       /\ at[p] \in {"asks", "read", "call", "poll", "reported"} =>
            user[p] \in Account
       /\ job[p] # "none" => user[p] \in Account
       /\ at[p] \in {"call", "poll", "reported"} /\ p \notin disturbed =>
            \A q \in Rivals(p) : job[q] # "queued"
  /\ ReportedModeHolds

\* A reset begins with an account on the list, and so after the vault was read.
ResetInv == \A r \in Wipe : step[r] \in {"asks", "trigger", "poll"} => read

-----------------------------------------------------------------------------
(* What a comment says, and the code does not keep *)

\* control.go:274-278: "A reset that reported success and left an account
\* behind would be the worst possible outcome for this particular command:
\* somebody runs it precisely because they want the container to have
\* forgotten".  Over a vault that has not been read it reports that there is
\* nothing to reset.
SuccessMeansEmpty ==
  [][\A r \in Wipe : step[r] # step'[r] /\ step'[r] \in {"done", "nothing"} =>
       InVault = {}]_vars

\* What is left of it: once the vault has been read, success means what it says.
ReadSuccessMeansEmpty ==
  [][read => \A r \in Wipe :
       step[r] # step'[r] /\ step'[r] \in {"done", "nothing"} =>
         InVault = {}]_vars

=============================================================================
