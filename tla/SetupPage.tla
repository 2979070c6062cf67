----------------------------- MODULE SetupPage -----------------------------
(***************************************************************************)
(* internal/setup: the server behind the sign-in page, and the page itself *)
(* in the browser's tabs.                                                  *)
(*                                                                         *)
(* A tab is a copy of the session's status that is a second old: it asks   *)
(* for the status again and again, shows the step that fits, and sends     *)
(* what the person enters there.  Answers arrive late, in another order,   *)
(* or not at all; and the page behind the tab ends and another one, with   *)
(* other tokens, takes its port.                                           *)
(*                                                                         *)
(* The session and the page's coming and going are those SignInPage        *)
(* describes, which Session and SignIn implement.                          *)
(***************************************************************************)
EXTENDS SignInPage, Naturals

CONSTANTS
  Tab,        \* the browser's tabs
  Name,       \* what a browser may call the server: its Host header
  Known,      \* Server.allowedHosts
  Reports,    \* bound: what the bridge reports on a sign-in
  MaxPages,   \* bound: how often the page comes up
  MaxChains   \* bound: requests of a tab for the status that are under way

ASSUME SetupPageAssumption ==
  /\ Known \subseteq Name
  /\ Reports \subseteq News
  /\ MaxPages \in Nat
  /\ MaxChains \in Nat \ {0}

VARIABLES
  \* the server
  exposed,    \* BRIDGE_SETUP_EXPOSE: the page wants its access token
  number,     \* of the page: its access token and its CSRF token
  \* the browser
  jar,        \* the CSRF cookie under each name; 0 is none
  name,       \* of each tab: the name it was loaded under
  shown,      \* the step a tab shows
  token,      \* the script's token: of that page, or 0 for one of none
  poll,       \* of each tab, where each of its chains of polls is
  post,       \* the write that is under way, up to its answer
  \* History:
  from,       \* the page of the status that a tab shows
  over,       \* a chain of polls ended as it should: success or refusal
  crossed     \* the token was replaced while the answer to another was on its way

server  == <<exposed, number, pageVars>>
browser == <<jar, name, shown, token, poll, post>>
history == <<from, over, crossed>>
vars    == <<flow, server, browser, history>>

Form  == {"credentials", "awaiting_totp", "awaiting_mailbox_password"}
Step  == Form \cup {"human_verification", "mode", "done"}

\* (mutant) no default
ViewVerbatim(s) == IF s = "succeeded" THEN "done" ELSE s

\* render: the step of a status.
View(s) ==
  CASE s = "awaiting_totp"                 -> "awaiting_totp"
    [] s = "awaiting_mailbox_password"     -> "awaiting_mailbox_password"
    [] s = "awaiting_human_verification"   -> "human_verification"
    [] s = "setting_mode"                  -> "mode"
    [] s = "succeeded"                     -> "done"
    [] OTHER                               -> "credentials"

\* Each answer to the token step begins a chain of polls.  A poll is due, or
\* answered and on its way back: to the token step ("ask"), to the chain ("poll"),
\* or as a 401 ("refused").
Chain == 1..MaxChains
Answered == {"ask", "poll", "refused"}
NoPoll == [at |-> "off", step |-> "credentials", number |-> 0]
Due    == [at |-> "due", step |-> "credentials", number |-> 0]
NoPolls == [c \in Chain |-> NoPoll]

\* A write is on its way; let in by a page (via), with its body still to be read;
\* taken, with a call to the bridge under way; or answered.  A write that is
\* refused is over: the refusal is told, if it arrives, and changes nothing.
NoPost == [at |-> "none", step |-> "credentials", cookie |-> 0, token |-> 0,
           asked |-> 0, via |-> 0]

TypeOK ==
  /\ FlowTypeOK
  /\ PageTypeOK
  /\ exposed \in BOOLEAN
  /\ number \in Nat
  /\ jar \in [Name -> Nat]
  /\ name \in [Tab -> Name]
  /\ shown \in [Tab -> Step \cup {"closed", "rejected", "token"}]
  /\ token \in [Tab -> Nat]
  /\ poll \in [Tab -> [Chain -> [at: {"off", "due"} \cup Answered, step: Step,
                                 number: Nat]]]
  /\ post \in [Tab -> [at: {"none", "sent", "inside", "calling",
                            "answered"},
                       step: Step, cookie: Nat, token: Nat, asked: Nat,
                       via: Nat]]
  /\ from \in [Tab -> Nat]
  /\ over \in [Tab -> BOOLEAN]
  /\ crossed \in [Tab -> BOOLEAN]

Init ==
  /\ PageInit
  /\ exposed \in BOOLEAN
  /\ number = 0
  /\ jar = [n \in Name |-> 0]
  /\ name \in [Tab -> Name]
  /\ shown = [t \in Tab |-> "closed"]
  /\ token = [t \in Tab |-> 0]
  /\ poll = [t \in Tab |-> NoPolls]
  /\ post = [t \in Tab |-> NoPost]
  /\ from = [t \in Tab |-> 0]
  /\ over = [t \in Tab |-> FALSE]
  /\ crossed = [t \in Tab |-> FALSE]

-----------------------------------------------------------------------------
(* Serve *)

tabs == <<exposed, browser, history>>

\* A page that comes up has other tokens.
PageStarts ==
  /\ ComesUp
  /\ number' = number + 1
  /\ UNCHANGED tabs

AtWork(t) == post[t].at \in {"inside", "calling"} /\ post[t].via = number

\* (mutant) http.Shutdown without a deadline
ShutdownPatient ==
  /\ Shutdown
  /\ \A t \in Tab : ~AtWork(t)

\* http.Shutdown returns once no handler is at work, and after ten seconds in
\* any case.
ServeEnds == Shutdown

ServeReturns == (ServeSelects \/ ServeEnds) /\ UNCHANGED <<number, tabs>>

\* What else happens to the page, of which others follow whether an account is
\* connected.  That the process is told to stop is left to Stops.
PageSteps ==
  /\ \/ number < MaxPages /\ Called(FALSE)
     \/ \E connected \in BOOLEAN : MarkSignedIn(connected)
     \/ Fails \/ SeesLate \/ Resets
  /\ UNCHANGED <<number, tabs>>

\* The container stops; its handlers stop with it.
Stops ==
  /\ Crash
  /\ post' = [t \in Tab |-> IF post[t].at \in {"inside", "calling"}
                            THEN NoPost ELSE post[t]]
  /\ UNCHANGED <<exposed, number, jar, name, shown, token, poll, history>>

\* The bridge reports, the mode is set, proton-login signs in or aborts, a call
\* fails for which no tab waits any more.
Others ==
  /\ \/ \E news \in Reports : Report(news)
     \/ Settle \/ Begin \/ Answer \/ GiveUp \/ CallFails
  /\ UNCHANGED <<server, browser, history>>

otherRest == <<flow, server, name, shown, token, poll, post, history>>

\* The browser's other tabs share the cookie.  One of them is answered by the page.
OtherTab(n) ==
  /\ n \in Known
  /\ page = "up"
  /\ jar' = [jar EXCEPT ![n] = number]
  /\ UNCHANGED otherRest

\* One of them hears late from the page before.
StrayAnswer(n) ==
  /\ n \in Known
  /\ number > 1
  /\ jar' = [jar EXCEPT ![n] = number - 1]
  /\ UNCHANGED otherRest

-----------------------------------------------------------------------------
(* The request checks *)

checkHost(t) == name[t] \in Known

\* A tab sends the origin it was loaded from.
checkOrigin(t) == name[t] \in Known

\* (mutant) any token will do
checkTokenAny(n) == exposed => n # 0

checkToken(n) == exposed => n = number

\* Cookie and header come from one jar; the value has to be this server's.
checkCSRF(c) == c # 0 /\ c = number

guard(t) ==
  /\ checkHost(t)
  /\ checkOrigin(t)
  /\ checkToken(post[t].token)
  /\ checkCSRF(post[t].cookie)

-----------------------------------------------------------------------------
(* The page, and its polls *)

\* handlePage, for somebody who opens or reloads the tab.  What the script before
\* waited for is lost; a handler at work for it is one of the Others from now on.
\* Bound: a tab that shows a status of this page is not loaded again.
Load(t) ==
  /\ page = "up"
  /\ from[t] < number
  /\ \E n \in Known :
       /\ name' = [name EXCEPT ![t] = n]
       /\ jar' = [jar EXCEPT ![n] = number]
  /\ shown' = [shown EXCEPT ![t] = IF exposed THEN "token" ELSE "credentials"]
  /\ poll' = [poll EXCEPT ![t] =
       IF exposed THEN NoPolls ELSE [NoPolls EXCEPT ![1] = Due]]
  /\ token' = [token EXCEPT ![t] = 0]
  /\ post' = [post EXCEPT ![t] = NoPost]
  /\ from' = [from EXCEPT ![t] = number]
  /\ over' = [over EXCEPT ![t] = FALSE]
  /\ crossed' = [crossed EXCEPT ![t] = FALSE]
  /\ UNCHANGED <<flow, server>>

\* A 400 for a name that is not the server's: there is no script.
LoadRejected(t) ==
  /\ page = "up"
  /\ shown[t] = "closed"
  /\ name[t] \notin Known
  /\ shown' = [shown EXCEPT ![t] = "rejected"]
  /\ UNCHANGED <<flow, server, jar, name, token, poll, post, history>>

tabRest == <<flow, server, name, post>>

Status(kind) == [at |-> kind, step |-> View(state), number |-> number]

\* The page accepts the token; the answer is on its way.
Accepted(t) ==
  \E c \in Chain :
    /\ poll[t][c].at = "off"
    /\ poll' = [poll EXCEPT ![t][c] = Status("ask")]

\* The script has one token, which answers that are on their way do not name.
Enters(t, n) ==
  /\ shown[t] = "token"
  /\ token' = [token EXCEPT ![t] = n]
  /\ crossed' = [crossed EXCEPT ![t] =
       \E c \in Chain : poll[t][c].at = "ask" /\ poll[t][c].number # n]
  /\ UNCHANGED <<tabRest, jar, shown, from, over>>

\* (mutant) the step is taken whatever the answer
EnterTokenAny(t) ==
  \E n \in 0..number :
    /\ Enters(t, n)
    /\ UNCHANGED poll \/ (page = "up" /\ Accepted(t))

\* The person enters a token they find in the log, or (0) nothing or anything else,
\* as often as they like until an answer takes the step away; the field is empty
\* after each click.  A 401 is told and changes nothing, nor does a request that
\* reaches no page.
EnterToken(t) ==
  \E n \in 0..number :
    /\ Enters(t, n)
    /\ UNCHANGED poll \/ (page = "up" /\ checkToken(n) /\ Accepted(t))

pollRest == <<tabRest, token, crossed>>

\* handleStatus: what it answers is the status of this moment.  While no page is
\* up, the poll fails and is tried again.
Poll(t, c) ==
  /\ page = "up"
  /\ poll[t][c].at = "due"
  /\ poll' = [poll EXCEPT ![t][c] =
       IF checkToken(token[t]) THEN Status("poll")
       ELSE [at |-> "refused", step |-> "credentials", number |-> number]]
  /\ UNCHANGED <<pollRest, jar, shown, from, over>>

\* A poll that shows the success is the last one of its chain.
LastPoll(p) == p.at = "poll" /\ p.step = "done"

\* An answer is rendered, and the next poll is due.
Renders(t, c) ==
  LET p == poll[t][c]
  IN  /\ p.at \in {"ask", "poll"}
      /\ shown' = [shown EXCEPT ![t] = p.step]
      /\ from' = [from EXCEPT ![t] = p.number]
      /\ poll' = [poll EXCEPT ![t][c] = IF LastPoll(p) THEN NoPoll ELSE Due]
      /\ over' = [over EXCEPT ![t] = LastPoll(p)]

\* (mutant) the cookie is handed out with the page only
StatusArrivesPlain(t, c) ==
  /\ Renders(t, c)
  /\ UNCHANGED <<pollRest, jar>>

\* The answer brings the cookie (setCSRFCookie) and is rendered.
StatusArrives(t, c) ==
  /\ Renders(t, c)
  /\ jar' = [jar EXCEPT ![name[t]] = poll[t][c].number]
  /\ UNCHANGED pollRest

\* A 401 is told, and ends the chain.
RefusalArrives(t, c) ==
  /\ poll[t][c].at = "refused"
  /\ poll' = [poll EXCEPT ![t][c] = NoPoll]
  /\ over' = [over EXCEPT ![t] = TRUE]
  /\ UNCHANGED <<pollRest, jar, shown, from>>

\* (mutant) no catch
StatusLostEnds(t, c) ==
  /\ poll[t][c].at \in Answered
  /\ poll' = [poll EXCEPT ![t][c] = NoPoll]
  /\ UNCHANGED <<pollRest, jar, shown, from, over>>

\* A connection that breaks: the chain tries again, the token step does not.
StatusLost(t, c) ==
  /\ poll[t][c].at \in Answered
  /\ poll' = [poll EXCEPT ![t][c] = IF @.at = "ask" THEN NoPoll ELSE Due]
  /\ UNCHANGED <<pollRest, jar, shown, from, over>>

-----------------------------------------------------------------------------
(* The writes *)

postRest == <<server, jar, name, token, poll, over, crossed>>

PostEnds(t) == post' = [post EXCEPT ![t] = NoPost]

\* The person fills in the step that is shown.
Submit(t) ==
  /\ shown[t] \in Form
  /\ post[t].at = "none"
  /\ post' = [post EXCEPT ![t] =
       [at |-> "sent", step |-> shown[t], cookie |-> jar[name[t]],
        token |-> token[t], asked |-> from[t], via |-> 0]]
  /\ UNCHANGED <<flow, postRest, shown, from>>

\* It reaches the page that is up by now.
LetIn(t) ==
  /\ page = "up"
  /\ post[t].at = "sent"
  /\ guard(t)
  /\ post' = [post EXCEPT ![t] =
       [at |-> "inside", step |-> @.step, cookie |-> 0, token |-> 0,
        asked |-> @.asked, via |-> number]]
  /\ UNCHANGED <<flow, postRest, shown, from>>

TurnedAway(t) ==
  /\ page = "up"
  /\ post[t].at = "sent"
  /\ ~guard(t)
  /\ PostEnds(t)
  /\ UNCHANGED <<flow, postRest, shown, from>>

\* handleLogin and handleSecret, once they have the body: the session starts, or
\* takes what it asks for.
Taken(t) ==
  /\ post[t].at = "inside"
  /\ \/ post[t].step = "credentials" /\ Begin
     \/ post[t].step = state /\ Answer
  /\ post' = [post EXCEPT ![t] =
       [at |-> "calling", step |-> "credentials", cookie |-> 0, token |-> 0,
        asked |-> @.asked, via |-> @.via]]
  /\ UNCHANGED <<postRest, shown, from>>

\* No body, nothing in it, or a step the session does not expect.
NotTaken(t) ==
  /\ post[t].at = "inside"
  /\ PostEnds(t)
  /\ UNCHANGED <<flow, postRest, shown, from>>

\* The call to the bridge returns, and the status of that moment is the answer.
CallReturns(t) ==
  /\ post[t].at = "calling"
  /\ post' = [post EXCEPT ![t] =
       [at |-> "answered", step |-> View(state), cookie |-> 0, token |-> 0,
        asked |-> 0, via |-> @.via]]
  /\ UNCHANGED <<flow, postRest, shown, from>>

CallReturnsError(t) ==
  /\ post[t].at = "calling"
  /\ CallFails
  /\ PostEnds(t)
  /\ UNCHANGED <<postRest, shown, from>>

\* The answer to a write is rendered whenever it comes.
AnswerArrives(t) ==
  /\ post[t].at = "answered"
  /\ shown' = [shown EXCEPT ![t] = post[t].step]
  /\ from' = [from EXCEPT ![t] = post[t].via]
  /\ PostEnds(t)
  /\ UNCHANGED <<flow, postRest>>

\* The connection breaks, and the script is told nothing.
PostLost(t) ==
  /\ post[t].at \in {"sent", "answered"}
  /\ PostEnds(t)
  /\ UNCHANGED <<flow, postRest, shown, from>>

-----------------------------------------------------------------------------

Serve == PageStarts \/ PageSteps \/ ServeReturns

Polls(t) ==
  \/ Load(t) \/ LoadRejected(t) \/ EnterToken(t)
  \/ \E c \in Chain : \/ Poll(t, c)
                     \/ StatusArrives(t, c) \/ RefusalArrives(t, c)
                     \/ StatusLost(t, c)

Writes(t) ==
  \/ Submit(t) \/ LetIn(t) \/ TurnedAway(t) \/ Taken(t) \/ NotTaken(t)
  \/ CallReturns(t) \/ CallReturnsError(t) \/ AnswerArrives(t) \/ PostLost(t)

Next ==
  \/ Serve
  \/ Stops
  \/ Others
  \/ \E n \in Name : OtherTab(n) \/ StrayAnswer(n)
  \/ \E t \in Tab : Polls(t) \/ Writes(t)

Spec == Init /\ [][Next]_vars

\* Serve is scheduled, and Shutdown has its deadline.  A tab polls, and its
\* connection does not break on every answer.  Nothing is assumed of the writes:
\* a handler may wait for the bridge for ever.
Fairness ==
  /\ WF_vars(PageStarts \/ ServeReturns)
  /\ \A t \in Tab, c \in Chain :
       /\ WF_vars(Poll(t, c))
       /\ SF_vars(StatusArrives(t, c) \/ RefusalArrives(t, c))

LiveSpec == Spec /\ Fairness

-----------------------------------------------------------------------------
(* Safety *)

\* On an exposed page, whatever is let in was entered under a status of the page
\* that lets it in.  A tab that was left open over a restart, or over a sign-in
\* and a sign-out, still asks for the code of a sign-in that is long gone; what
\* somebody enters there goes to no later one (security.go:56-66).  Only a tab in
\* which the token of a later page was entered while an answer of an earlier one was
\* on its way may ask in the name of the one and send to the other (page.go:203).
AnswersItsOwnPage ==
  \A t \in Tab : exposed /\ post[t].at \in {"inside", "calling"} =>
    post[t].asked = post[t].via \/ crossed[t]

\* A tab that an exposed page let in is not shut out by it: a 401 in a chain of
\* polls comes from a later page (page.go:176-185, 204-218), unless somebody clicked
\* again before the page had answered and so took the accepted token away from the
\* script (page.go:201-203).
ShutOutByAnotherPage ==
  \A t \in Tab, c \in Chain :
    poll[t][c].at = "refused" => from[t] < poll[t][c].number \/ crossed[t]

-----------------------------------------------------------------------------
(* The inductive invariant behind the safety properties *)

\* The app is shown before anything is polled or sent.
InTheApp(t) ==
  /\ (\E c \in Chain : poll[t][c].at \in {"due", "poll", "refused"}) => shown[t] \in Step
  /\ post[t].at # "none" => shown[t] \in Step

\* On an exposed page the token a tab holds names the page of all that the tab
\* shows, waits for and has sent.
OfItsToken(t) ==
  /\ shown[t] \in Step => from[t] = token[t]
  /\ \A c \in Chain :
       /\ poll[t][c].at \in {"ask", "poll"} => poll[t][c].number = token[t]
       /\ poll[t][c].at = "refused" => token[t] < poll[t][c].number
  /\ post[t].at = "sent" => post[t].token = token[t]
  /\ post[t].at \in {"sent", "inside", "calling"} => post[t].asked = token[t]
  /\ post[t].at \in {"inside", "calling", "answered"} => post[t].via = token[t]

TokenInv ==
  \A t \in Tab :
    /\ token[t] <= number
    /\ exposed => InTheApp(t) /\ (OfItsToken(t) \/ crossed[t])
    /\ ~exposed => \A c \in Chain : poll[t][c].at # "refused"

-----------------------------------------------------------------------------
(* Liveness *)

\* Session and page have come to rest, and every answer of an earlier page to a tab
\* that is not followed has arrived.
AtRest == <>[][/\ UNCHANGED <<flow, page, number>>
               /\ \A n \in Name : ~StrayAnswer(n)]_vars

Follows(t) == page = "up" /\ shown[t] \in Step /\ ~over[t]

\* A tab that has seen neither the success nor a refusal comes to show where the
\* session is, whatever it missed, got late or got out of order, also from
\* another page than the one it was loaded from (page.go:176-185).
ComesToShow ==
  AtRest => \A t \in Tab : <>[](Follows(t) => shown[t] = View(state))

\* And what is entered there is not turned away: the tab has the tokens of the
\* page, though page and cookie may have changed under it (server.go:282-296).
ComesToBeHeard ==
  AtRest => \A t \in Tab : <>[](Follows(t) =>
    checkToken(token[t]) /\ checkCSRF(jar[name[t]]))

\* Once the server was told of an account the page goes, even if the bridge
\* leaves a handler waiting for ever (server.go:199-208).
PageGoes == signedIn ~> page = "down"

-----------------------------------------------------------------------------
(* What the page says, and the code does not keep *)

\* page.go:99: "Open this link, complete it, then sign in again."  The step that
\* says so hides the form in which one signs in, and every poll shows that step
\* again for as long as nobody signs in.
SignInAgain ==
  \A t \in Tab : shown[t] = "human_verification" ~>
    shown[t] = "credentials" \/ state # "awaiting_human_verification" \/ page # "up"

=============================================================================
