-------------------------- MODULE LoginSteps_proofs ---------------------------
(***************************************************************************)
(* Proofs about the login steps: types, that a dead step stays dead        *)
(* (StepsStayDead), that a password goes to Telegram only where one was    *)
(* asked for (PasswordAsked), that the wizard a page shows is not taken    *)
(* away by the answers of earlier pages (WizardKept), and that a wizard    *)
(* shows its password form only after a password was asked for under one   *)
(* of its steps (PasswordFormOwn): the very step the form will name, if    *)
(* the wizard was given no second one (PasswordsShown).                    *)
(*                                                                         *)
(* PasswordAsked rests on: a step's flag is set only by an answer of       *)
(* Telegram's that asked under it.  WizardKept rests on: a page has at     *)
(* most one request of renderAdmin that is not stale, and none while it    *)
(* shows a wizard.  The password form rests on GivenInv: a request goes    *)
(* under a step its wizard was given, an answer that asks for a password   *)
(* concerns a step that waits for it or is dead, and a step that an answer *)
(* brings is known to no wizard yet: a second one is counted as such.      *)
(***************************************************************************)
EXTENDS LoginSteps, FiniteSetTheorems, TLAPS

Request == {Idle} \cup Running

-----------------------------------------------------------------------------
(* Types, variable by variable.                                            *)

AccountType == telegram \in [authorized : BOOLEAN, code : 0 .. MaxCodes, pending : BOOLEAN]

RequestType == req \in [Requests -> Request]

PageType ==
    /\ tab \in [Tabs -> Pages]
    /\ token \in [Wizards -> Tokens \cup {NoToken}]
    /\ given \in [Wizards -> SUBSET Tokens]

\* A request under way has all its fields.
LEMMA RunningShape ==
    ASSUME NEW q \in Request, q.pc # "idle"
    PROVE  /\ q \in Running
           /\ q.op \in Operations /\ q.tab \in Tabs /\ q.wiz \in Wizards \cup {NoWizard}
           /\ q.token \in Tokens \cup {NoToken} /\ q.code \in 0 .. MaxCodes
           /\ q.pc \in InBroker \cup {"answered"} /\ q.reply \in Replies
  BY DEF Request, Idle, Running

\* A request goes on, with an answer or not.
LEMMA Moved ==
    ASSUME NEW q \in Running, NEW pc \in InBroker \cup {"answered"}, NEW reply \in Replies,
           NEW code \in 0 .. MaxCodes
    PROVE  /\ [q EXCEPT !.pc = pc] \in Request
           /\ [q EXCEPT !.pc = pc, !.reply = reply, !.code = code] \in Request
           /\ Failed(q, reply) \in Request
  BY DEF Request, Running, Failed

\* A deleted entry is one.
LEMMA DroppedType ==
    ASSUME NEW s \in Steps
    PROVE  Dropped(s) \in Steps /\ Dropped(s).phase = "dropped" /\ Dropped(s).needs = s.needs
  BY DEF Dropped, Steps

LEMMA DropType ==
    ASSUME step \in [Tokens -> Steps], NEW t, Drop(t)
    PROVE  step' \in [Tokens -> Steps]
  BY DroppedType DEF Drop

\* An entry whose flag is set.
LEMMA FlaggedType ==
    ASSUME NEW s \in Steps, NEW e \in Nat
    PROVE  /\ [s EXCEPT !.needs = TRUE, !.expires = e] \in Steps
           /\ [s EXCEPT !.needs = TRUE, !.expires = e].phase = s.phase
           /\ [s EXCEPT !.needs = TRUE, !.expires = e].expires = e
  BY DEF Steps

LEMMA UpdateType ==
    ASSUME step \in [Tokens -> Steps], now \in Nat, NEW t, UpdateNeeds(t)
    PROVE  step' \in [Tokens -> Steps]
<1>1. now + TTL \in Nat
  BY TimeAssumption
<1>2. CASE Live(t)
  <2>1. step' = [step EXCEPT ![t] = [step[t] EXCEPT !.needs = TRUE, !.expires = now + TTL]]
    BY <1>2 DEF UpdateNeeds
  <2> QED
    BY <1>1, <2>1, FlaggedType
<1>3. CASE ~Live(t)
  BY <1>3, DroppedType DEF UpdateNeeds
<1> QED
  BY <1>2, <1>3

LEMMA CreateType ==
    ASSUME step \in [Tokens -> Steps], now \in Nat, NEW t, NEW c \in 0 .. MaxCodes, Create(t, c)
    PROVE  step' \in [Tokens -> Steps]
<1>1. now + TTL \in Nat
  BY TimeAssumption
<1>2. [phase |-> "kept", needs |-> FALSE, code |-> c, expires |-> now + TTL] \in Steps
  BY <1>1 DEF Steps
<1> QED
  BY <1>2 DEF Create

-----------------------------------------------------------------------------
(* Requests.                                                               *)

\* A request inside the broker names its step, and Telegram has asked for a password
\* under it (A: under these) if one is going to Telegram, or if it says so; what a form
\* sends, or is answered, belongs to a wizard.
OfWizard == {"sendCode"} \cup UnderStep

RequestOK(q, A) ==
    /\ q \in Request
    /\ q.pc # "idle" /\ (q.op \in OfWizard \/ q.reply \in {"sent", "password"}) =>
          q.wiz \in Wizards
    /\ q.pc # "idle" /\ q.reply = "sent" => q.op = "sendCode"
    /\ q.pc = "answered" /\ q.reply = "sent" => q.token \in Tokens
    /\ q.pc \in {"found", "admitted", "called"} /\ q.op \in UnderStep => q.token \in Tokens
    /\ q.pc \in {"admitted", "called"} /\ q.op = "checkPassword" => q.token \in A
    /\ q.pc = "called" /\ q.op \in UnderStep /\ q.reply = "password" => q.token \in A

RequestsOK ==
    /\ req \in [Requests -> Request]
    /\ \A r \in Requests : RequestOK(req[r], asked)

\* One request is replaced.
LEMMA Replaced ==
    ASSUME RequestsOK, asked \subseteq asked', NEW r \in Requests, NEW q,
           RequestOK(q, asked'), req' = [req EXCEPT ![r] = q]
    PROVE  RequestsOK'
<1>1. \A u \in Requests : RequestOK(req[u], asked')
  BY DEF RequestsOK, RequestOK
<1>2. q \in Request
  BY DEF RequestOK
<1> QED
  BY <1>1, <1>2 DEF RequestsOK

\* A request moves on in the broker, with what it must know there.
LEMMA GoesOn ==
    ASSUME RequestsOK, asked' = asked, NEW r \in Requests, req[r].pc # "idle",
           NEW pc \in {"found", "admitted"}, req' = [req EXCEPT ![r].pc = pc],
           req[r].op \in UnderStep => req[r].token \in Tokens,
           pc = "admitted" /\ req[r].op = "checkPassword" => req[r].token \in asked
    PROVE  RequestsOK'
<1> DEFINE q == [req[r] EXCEPT !.pc = pc]
<1>1. req[r] \in Running
  BY RunningShape DEF RequestsOK
<1>2. 0 \in 0 .. MaxCodes /\ pc \in InBroker \cup {"answered"}
  BY TimeAssumption DEF InBroker
<1>3. q \in Request
  BY <1>1, <1>2, Moved DEF Replies
<1>4. /\ q.pc = pc /\ q.op = req[r].op /\ q.token = req[r].token
      /\ q.wiz = req[r].wiz /\ q.reply = req[r].reply
  BY <1>1 DEF Running
<1>5. req' = [req EXCEPT ![r] = q] /\ RequestOK(req[r], asked)
  BY DEF RequestsOK
<1> HIDE DEF q
<1>6. RequestOK(q, asked')
  BY <1>3, <1>4, <1>5 DEF RequestOK
<1> QED
  BY <1>5, <1>6, Replaced

\* Telegram has acted on a call.
LEMMA IsCalled ==
    ASSUME RequestsOK, asked \subseteq asked', NEW r \in Requests, req[r].pc = "admitted",
           NEW reply \in Replies, NEW code \in 0 .. MaxCodes, Called(r, reply, code),
           reply = "password" => req[r].token \in asked',
           reply = "sent" => req[r].op = "sendCode",
           reply = "password" => req[r].op \in OfWizard
    PROVE  RequestsOK'
<1> DEFINE q == [req[r] EXCEPT !.pc = "called", !.reply = reply, !.code = code]
<1>1. req[r] \in Running
  BY RunningShape DEF RequestsOK
<1>2. q \in Request
  BY <1>1, Moved DEF InBroker
<1>3. /\ q.pc = "called" /\ q.op = req[r].op /\ q.token = req[r].token
      /\ q.wiz = req[r].wiz /\ q.reply = reply
  BY <1>1 DEF Running
<1>4. req' = [req EXCEPT ![r] = q]
  BY DEF Called, RequestsOK
<1>5. RequestOK(req[r], asked)
  BY DEF RequestsOK
<1> HIDE DEF q
<1>6. RequestOK(q, asked')
  BY <1>2, <1>3, <1>5 DEF RequestOK, OfWizard
<1> QED
  BY <1>4, <1>6, Replaced

\* A failed request claims nothing.
LEMMA FailedOK ==
    ASSUME NEW q \in Running, NEW A, RequestOK(q, A),
           NEW reply \in {"network", "unavailable", "error"}
    PROVE  RequestOK(Failed(q, reply), A) /\ Failed(q, reply).pc \in {"idle", "answered"}
<1>1. Failed(q, reply) \in Request
  <2>1. 0 \in 0 .. MaxCodes
    BY TimeAssumption
  <2> QED
    BY <2>1, Moved DEF Replies
<1>2. Failed(q, reply).pc \in {"idle", "answered"}
  BY DEF Failed, Idle, Running
<1>3. CASE q.op = "status"
  <2>1. /\ Failed(q, reply).op = "status" /\ Failed(q, reply).reply = reply
    BY <1>3 DEF Failed, Running
  <2> QED
    BY <1>1, <1>2, <2>1 DEF RequestOK, OfWizard, UnderStep
<1>4. CASE q.op # "status"
  BY <1>1, <1>4 DEF RequestOK, Failed, Idle
<1> QED
  BY <1>2, <1>3, <1>4

LEMMA IsAnswered ==
    ASSUME RequestsOK, asked' = asked, NEW r \in Requests, req[r].pc # "idle",
           NEW reply \in Replies,
           \/ Reply(r, reply) /\ reply = req[r].reply /\ req[r].op # "sendCode"
           \/ Fail(r, reply) /\ reply \in {"network", "unavailable", "error"}
    PROVE  RequestsOK'
<1>1. req[r] \in Running /\ RequestOK(req[r], asked)
  BY RunningShape DEF RequestsOK
<1>2. 0 \in 0 .. MaxCodes
  BY TimeAssumption
<1>3. CASE Reply(r, reply) /\ reply = req[r].reply /\ req[r].op # "sendCode"
  <2> DEFINE q == [req[r] EXCEPT !.pc = "answered", !.reply = reply, !.code = 0]
  <2>1. q \in Request
    BY <1>1, <1>2, Moved
  <2>2. q.pc = "answered" /\ q.op = req[r].op /\ q.wiz = req[r].wiz /\ q.reply = req[r].reply
    BY <1>1, <1>3 DEF Running
  <2>3. req' = [req EXCEPT ![r] = q]
    BY <1>3 DEF Reply, RequestsOK
  <2> HIDE DEF q
  <2>4. RequestOK(q, asked')
    BY <1>1, <1>3, <2>1, <2>2 DEF RequestOK
  <2> QED
    BY <2>3, <2>4, Replaced
<1>4. CASE Fail(r, reply) /\ reply \in {"network", "unavailable", "error"}
  <2>1. RequestOK(Failed(req[r], reply), asked')
    BY <1>1, <1>4, FailedOK
  <2> QED
    BY <1>4, <2>1, Replaced DEF Fail
<1> QED
  BY <1>3, <1>4

LEMMA IsRefused ==
    ASSUME RequestsOK, asked' = asked, NEW r \in Requests, req[r].pc # "idle", Refuse(r)
    PROVE  RequestsOK'
  BY IsAnswered DEF Refuse, Replies

-----------------------------------------------------------------------------
(* The broker's steps.                                                     *)

\* Flags are set where Telegram has asked.
NeedsAsked == \A t \in Tokens : step[t].needs => t \in asked

\* The form a page shows has the button of some wizard.
ButtonsOK == \A T \in Tabs : tab[T].view \in Forms => tab[T].button[1] \in Wizards

StepInv == TypeOK /\ RequestsOK /\ NeedsAsked /\ ButtonsOK

LEMMA Known ==
    ASSUME StepInv
    PROVE  /\ RequestsOK /\ step \in [Tokens -> Steps] /\ now \in Nat /\ asked \subseteq Tokens
           /\ AccountType /\ NeedsAsked
           /\ \A r \in Requests : req[r] \in Request /\ RequestOK(req[r], asked)
  BY TimeAssumption DEF StepInv, TypeOK, AccountType, RequestsOK

\* A step of the broker that leaves the steps alone, or drops one.
LEMMA Drops ==
    ASSUME StepInv, asked \subseteq asked',
           step' = step \/ \E t : Drop(t)
    PROVE  step' \in [Tokens -> Steps] /\ NeedsAsked'
<1>1. step \in [Tokens -> Steps] /\ NeedsAsked
  BY Known
<1>2. CASE step' = step
  BY <1>1, <1>2 DEF NeedsAsked
<1>3. ASSUME NEW t, Drop(t)
      PROVE  step' \in [Tokens -> Steps] /\ NeedsAsked'
  <2>1. step' \in [Tokens -> Steps]
    BY <1>1, <1>3, DropType
  <2>2. \A u \in Tokens : step'[u].needs = step[u].needs
    BY <1>1, <1>3, DroppedType DEF Drop
  <2> QED
    BY <1>1, <2>1, <2>2 DEF NeedsAsked
<1> QED
  BY <1>2, <1>3

LEMMA Together ==
    ASSUME StepInv, now' = now, setup' = setup, ready' \in BOOLEAN, AccountType',
           step' \in [Tokens -> Steps], RequestsOK', NeedsAsked', asked' \subseteq Tokens,
           UNCHANGED page
    PROVE  StepInv'
<1>1. req' \in [Requests -> {Idle} \cup Running]
  BY DEF RequestsOK, Request
<1> QED
  BY <1>1 DEF StepInv, TypeOK, AccountType, ButtonsOK, page

\* What happens to a request on its way to Telegram.
LEMMA OnItsWay ==
    ASSUME StepInv, NEW r \in Requests,
           NotServed(r) \/ Forward(r) \/ GetStep(r) \/ CheckNeeds(r)
    PROVE  StepInv'
<1>1. /\ RequestsOK /\ step \in [Tokens -> Steps] /\ AccountType /\ NeedsAsked
      /\ asked \subseteq Tokens /\ RequestOK(req[r], asked)
  BY Known
<1>2. /\ now' = now /\ setup' = setup /\ ready' = ready /\ telegram' = telegram
      /\ asked' = asked /\ UNCHANGED page /\ ready \in BOOLEAN
  BY DEF NotServed, Forward, GetStep, CheckNeeds, broker, StepInv, TypeOK
<1>3. req[r].pc # "idle"
  BY DEF NotServed, Forward, GetStep, CheckNeeds
<1>4. AccountType'
  BY <1>1, <1>2 DEF AccountType
<1>5. step' = step \/ \E t : Drop(t)
  BY DEF NotServed, Forward, GetStep, CheckNeeds, broker
<1>6. step' \in [Tokens -> Steps] /\ NeedsAsked'
  BY <1>2, <1>5, Drops
<1>7. CASE NotServed(r)
  <2>1. Fail(r, "unavailable") \/ Refuse(r)
    BY <1>7 DEF NotServed
  <2>2. RequestsOK'
    BY <1>1, <1>2, <1>3, <2>1, IsAnswered, IsRefused DEF Replies
  <2> QED
    BY <1>1, <1>2, <1>4, <1>6, <2>2, Together
<1>8. CASE Forward(r)
  <2>1. req' = [req EXCEPT ![r].pc = "admitted"] /\ req[r].op \notin UnderStep
    BY <1>8 DEF Forward
  <2>2. RequestsOK'
    BY <1>1, <1>2, <1>3, <2>1, GoesOn DEF UnderStep
  <2> QED
    BY <1>1, <1>2, <1>4, <1>6, <2>2, Together
<1>9. CASE GetStep(r)
  <2>1. CASE ~Live(req[r].token)
    <3>1. RequestsOK'
      BY <1>1, <1>2, <1>3, <1>9, <2>1, IsRefused DEF GetStep
    <3> QED
      BY <1>1, <1>2, <1>4, <1>6, <3>1, Together
  <2>2. CASE Live(req[r].token)
    <3> DEFINE pc == IF req[r].op = "signIn" THEN "admitted" ELSE "found"
    <3>1. /\ req' = [req EXCEPT ![r].pc = pc] /\ req[r].token \in Tokens
      BY <1>9, <2>2 DEF GetStep, Live
    <3>2. pc \in {"found", "admitted"} /\ (pc = "admitted" => req[r].op # "checkPassword")
      OBVIOUS
    <3> HIDE DEF pc
    <3>3. RequestsOK'
      BY <1>1, <1>2, <1>3, <3>1, <3>2, GoesOn
    <3> QED
      BY <1>1, <1>2, <1>4, <1>6, <3>3, Together
  <2> QED
    BY <2>1, <2>2
<1>10. CASE CheckNeeds(r)
  <2>1. CASE ~step[req[r].token].needs
    <3>1. RequestsOK'
      BY <1>1, <1>2, <1>3, <1>10, <2>1, IsRefused DEF CheckNeeds
    <3> QED
      BY <1>1, <1>2, <1>4, <1>6, <3>1, Together
  <2>2. CASE step[req[r].token].needs
    <3>1. req' = [req EXCEPT ![r].pc = "admitted"] /\ req[r].pc = "found"
      BY <1>10, <2>2 DEF CheckNeeds
    <3>2. req[r].op \in UnderStep => req[r].token \in Tokens
      BY <1>1, <3>1 DEF RequestOK
    <3>3. req[r].op = "checkPassword" => req[r].token \in asked
      BY <1>1, <2>2, <3>2 DEF NeedsAsked, UnderStep
    <3>4. RequestsOK'
      BY <1>1, <1>2, <1>3, <3>1, <3>2, <3>3, GoesOn
    <3> QED
      BY <1>1, <1>2, <1>4, <1>6, <3>4, Together
  <2> QED
    BY <2>1, <2>2
<1> QED
  BY <1>7, <1>8, <1>9, <1>10

\* Telegram acts: it asks under the step of the request it answers so.
LEMMA TelegramKeeps ==
    ASSUME StepInv, NEW r \in Requests, TelegramActs(r)
    PROVE  StepInv'
<1>1. /\ RequestsOK /\ step \in [Tokens -> Steps] /\ NeedsAsked
      /\ asked \subseteq Tokens /\ RequestOK(req[r], asked)
      /\ telegram \in [authorized : BOOLEAN, code : 0 .. MaxCodes, pending : BOOLEAN]
  BY Known DEF AccountType
<1>2. /\ now' = now /\ setup' = setup /\ ready' = ready /\ step' = step
      /\ UNCHANGED page /\ ready \in BOOLEAN
  BY DEF TelegramActs, TelegramStatus, TelegramSendsCode, TelegramSignsIn,
     TelegramChecksPassword, TelegramLogsOut, broker, StepInv, TypeOK
<1>3. req[r].pc = "admitted"
  BY DEF TelegramActs, TelegramStatus, TelegramSendsCode, TelegramSignsIn,
     TelegramChecksPassword, TelegramLogsOut, InCall
<1>4. 0 \in 0 .. MaxCodes
  BY TimeAssumption
<1>5. asked \subseteq asked' /\ asked' \subseteq Tokens
  <2>1. asked' = asked \/ (req[r].op = "signIn" /\ asked' = asked \cup {req[r].token})
    BY DEF TelegramActs, TelegramStatus, TelegramSendsCode, TelegramSignsIn,
       TelegramChecksPassword, TelegramLogsOut, InCall
  <2>2. req[r].op = "signIn" => req[r].token \in Tokens
    BY <1>1, <1>3 DEF RequestOK, UnderStep
  <2> QED
    BY <1>1, <2>1, <2>2
<1>6. step' \in [Tokens -> Steps] /\ NeedsAsked'
  BY <1>2, <1>5, Drops
<1>7. AccountType'
  <2>1. CASE TelegramSendsCode(r)
    <3>1. telegram' = [telegram EXCEPT !.code = telegram.code + 1] /\ telegram.code < MaxCodes
      BY <2>1 DEF TelegramSendsCode
    <3>2. telegram.code + 1 \in 0 .. MaxCodes
      BY <1>1, <3>1, TimeAssumption
    <3> QED
      BY <1>1, <3>1, <3>2 DEF AccountType
  <2>2. CASE ~TelegramSendsCode(r)
    BY <2>2, <1>1 DEF TelegramActs, TelegramStatus, TelegramSignsIn, TelegramChecksPassword,
       TelegramLogsOut, AccountType
  <2> QED
    BY <2>1, <2>2
<1>8. \E reply \in Replies, code \in 0 .. MaxCodes :
          /\ Called(r, reply, code)
          /\ reply = "password" => req[r].token \in asked'
          /\ reply = "sent" => req[r].op = "sendCode"
          /\ reply = "password" => req[r].op \in OfWizard
  <2>1. CASE TelegramStatus(r)
    BY <2>1, <1>4 DEF TelegramStatus, Replies, OfWizard
  <2>2. CASE TelegramSendsCode(r)
    <3>1. telegram.code + 1 \in 0 .. MaxCodes
      BY <1>1, <2>2, TimeAssumption DEF TelegramSendsCode
    <3>2. Called(r, "sent", telegram.code + 1) /\ req[r].op = "sendCode"
      BY <2>2 DEF TelegramSendsCode, InCall
    <3> QED
      BY <3>1, <3>2 DEF Replies
  <2>3. CASE TelegramSignsIn(r)
    BY <2>3, <1>4 DEF TelegramSignsIn, InCall, Replies, OfWizard, UnderStep
  <2>4. CASE TelegramChecksPassword(r)
    BY <2>4, <1>4 DEF TelegramChecksPassword, Replies
  <2>5. CASE TelegramLogsOut(r)
    BY <2>5, <1>4 DEF TelegramLogsOut, Replies
  <2> QED
    BY <2>1, <2>2, <2>3, <2>4, <2>5 DEF TelegramActs
<1>9. RequestsOK'
  BY <1>1, <1>3, <1>5, <1>8, IsCalled
<1> QED
  BY <1>2, <1>5, <1>6, <1>7, <1>9, Together

LEMMA CodeSentKeeps ==
    ASSUME StepInv, NEW r \in Requests, CodeSent(r)
    PROVE  StepInv'
<1>1. /\ RequestsOK /\ step \in [Tokens -> Steps] /\ AccountType /\ NeedsAsked /\ now \in Nat
      /\ asked \subseteq Tokens /\ req[r] \in Request /\ RequestOK(req[r], asked)
  BY Known
<1>2. PICK t \in Tokens :
         /\ Create(t, req[r].code)
         /\ req' = [req EXCEPT ![r].pc = "answered", ![r].token = t, ![r].code = 0]
  BY DEF CodeSent
<1>3. /\ now' = now /\ setup' = setup /\ ready' = ready /\ telegram' = telegram
      /\ asked' = asked /\ UNCHANGED page /\ ready \in BOOLEAN /\ req[r].pc = "called"
  BY DEF CodeSent, StepInv, TypeOK
<1>4. req[r] \in Running /\ req[r].code \in 0 .. MaxCodes
  BY <1>1, <1>3, RunningShape
<1>5. step' \in [Tokens -> Steps]
  BY <1>1, <1>2, <1>4, CreateType
<1>6. NeedsAsked'
  BY <1>1, <1>2, <1>3 DEF NeedsAsked, Create
<1>7. RequestsOK'
  <2> DEFINE q == [req[r] EXCEPT !.pc = "answered", !.token = t, !.code = 0]
  <2>1. 0 \in 0 .. MaxCodes
    BY TimeAssumption
  <2>2. /\ q \in Request /\ q.pc = "answered"
        /\ q.op = req[r].op /\ q.wiz = req[r].wiz /\ q.reply = req[r].reply /\ q.token = t
    BY <1>4, <2>1 DEF Request, Running
  <2>3. req' = [req EXCEPT ![r] = q]
    BY <1>1, <1>2 DEF RequestsOK
  <2> HIDE DEF q
  <2>4. RequestOK(q, asked')
    BY <1>1, <1>3, <2>2 DEF RequestOK
  <2> QED
    BY <1>1, <1>3, <2>3, <2>4, Replaced
<1>8. AccountType'
  BY <1>1, <1>3 DEF AccountType
<1> QED
  BY <1>1, <1>3, <1>5, <1>6, <1>7, <1>8, Together

LEMMA StepAnsweredKeeps ==
    ASSUME StepInv, NEW r \in Requests, StepAnswered(r)
    PROVE  StepInv'
<1>1. /\ RequestsOK /\ step \in [Tokens -> Steps] /\ AccountType /\ NeedsAsked /\ now \in Nat
      /\ asked \subseteq Tokens /\ req[r] \in Request /\ RequestOK(req[r], asked)
  BY Known
<1>2. /\ now' = now /\ setup' = setup /\ ready' = ready /\ telegram' = telegram
      /\ asked' = asked /\ UNCHANGED page /\ ready \in BOOLEAN
      /\ req[r].pc = "called" /\ req[r].op \in UnderStep /\ Reply(r, req[r].reply)
  BY DEF StepAnswered, StepInv, TypeOK
<1>3. req[r].reply \in Replies
  BY <1>1, <1>2, RunningShape
<1>4. RequestsOK'
  BY <1>1, <1>2, <1>3, IsAnswered DEF UnderStep
<1>5. AccountType'
  BY <1>1, <1>2 DEF AccountType
<1>6. CASE req[r].reply # "password"
  <2>1. Drop(req[r].token)
    BY <1>6 DEF StepAnswered
  <2>2. step' \in [Tokens -> Steps] /\ NeedsAsked'
    BY <1>2, <2>1, Drops
  <2> QED
    BY <1>1, <1>2, <1>4, <1>5, <2>2, Together
<1>7. CASE req[r].reply = "password"
  <2>1. UpdateNeeds(req[r].token) /\ req[r].token \in asked
    BY <1>1, <1>2, <1>7 DEF StepAnswered, RequestOK
  <2>2. step' \in [Tokens -> Steps]
    BY <1>1, <2>1, UpdateType
  <2>3. \A u \in Tokens : u # req[r].token => step'[u] = step[u]
    BY <1>1, <2>1 DEF UpdateNeeds
  <2>4. NeedsAsked'
    BY <1>1, <1>2, <2>1, <2>3 DEF NeedsAsked
  <2> QED
    BY <1>1, <1>2, <1>4, <1>5, <2>2, <2>4, Together
<1> QED
  BY <1>6, <1>7

\* The answer is passed on, or the call fails.
LEMMA PassedKeeps ==
    ASSUME StepInv, NEW r \in Requests, Passed(r) \/ CallFails(r)
    PROVE  StepInv'
<1>1. /\ RequestsOK /\ step \in [Tokens -> Steps] /\ AccountType /\ NeedsAsked
      /\ asked \subseteq Tokens /\ req[r] \in Request
  BY Known
<1>2. /\ now' = now /\ setup' = setup /\ ready' = ready /\ telegram' = telegram
      /\ asked' = asked /\ step' = step /\ UNCHANGED page /\ ready \in BOOLEAN
  BY DEF Passed, CallFails, broker, StepInv, TypeOK
<1>3. req[r].pc # "idle"
  BY DEF Passed, CallFails, InBroker
<1>4. req[r].reply \in Replies /\ "network" \in Replies
  BY <1>1, <1>3, RunningShape DEF Replies
<1>5. \/ Reply(r, req[r].reply) /\ req[r].op # "sendCode"
      \/ Refuse(r)
      \/ Fail(r, "network")
  BY DEF Passed, CallFails
<1>6. RequestsOK'
  BY <1>1, <1>2, <1>3, <1>4, <1>5, IsAnswered, IsRefused
<1>7. AccountType'
  BY <1>1, <1>2 DEF AccountType
<1>8. step' \in [Tokens -> Steps] /\ NeedsAsked'
  BY <1>1, <1>2 DEF NeedsAsked
<1> QED
  BY <1>1, <1>2, <1>6, <1>7, <1>8, Together

LEMMA RestartKeeps ==
    ASSUME StepInv, Restart
    PROVE  StepInv'
<1>1. /\ RequestsOK /\ step \in [Tokens -> Steps] /\ AccountType /\ NeedsAsked
      /\ asked \subseteq Tokens
  BY Known
<1>2. /\ now' = now /\ setup' = setup /\ ready' = FALSE /\ telegram' = telegram
      /\ asked' = asked /\ UNCHANGED page
      /\ step' = [t \in Tokens |-> IF step[t].phase = "kept" THEN Dropped(step[t]) ELSE step[t]]
      /\ req' = [r \in Requests |-> IF req[r].pc \in InBroker
                                    THEN Failed(req[r], "error") ELSE req[r]]
  BY DEF Restart
<1>3. step' \in [Tokens -> Steps] /\ \A t \in Tokens : step'[t].needs = step[t].needs
  BY <1>1, <1>2, DroppedType
<1>4. NeedsAsked'
  BY <1>1, <1>2, <1>3 DEF NeedsAsked
<1>5. \A r \in Requests : RequestOK(req'[r], asked')
  <2> SUFFICES ASSUME NEW r \in Requests
               PROVE  RequestOK(req'[r], asked')
    OBVIOUS
  <2>1. CASE req[r].pc \in InBroker
    <3>1. req[r] \in Running
      BY <1>1, <2>1, RunningShape DEF RequestsOK, InBroker
    <3>2. RequestOK(Failed(req[r], "error"), asked')
      BY <1>1, <1>2, <3>1, FailedOK DEF RequestsOK
    <3> QED
      BY <1>2, <2>1, <3>2
  <2>2. CASE req[r].pc \notin InBroker
    BY <1>1, <1>2, <2>2 DEF RequestsOK
  <2> QED
    BY <2>1, <2>2
<1>6. RequestsOK'
  <2>1. \A r \in Requests : req'[r] \in Request
    BY <1>5 DEF RequestOK
  <2> QED
    BY <1>2, <1>5, <2>1 DEF RequestsOK
<1>7. AccountType'
  BY <1>1, <1>2 DEF AccountType
<1> QED
  BY <1>1, <1>2, <1>3, <1>4, <1>6, <1>7, Together

LEMMA ConnectKeeps ==
    ASSUME StepInv, Connect
    PROVE  StepInv'
<1>1. /\ ready' = TRUE
      /\ UNCHANGED <<now, setup, telegram, step, req, page, asked>>
  BY DEF Connect
<1>2. RequestsOK' /\ NeedsAsked' /\ AccountType' /\ step' \in [Tokens -> Steps]
      /\ asked' \subseteq Tokens
  BY <1>1, Known DEF RequestsOK, NeedsAsked, AccountType
<1> QED
  BY <1>1, <1>2, Together

LEMMA TickKeeps ==
    ASSUME StepInv, Tick
    PROVE  StepInv'
<1>1. /\ now < MaxClock /\ now' = now + 1
      /\ UNCHANGED <<setup, ready, step, telegram, req, tab, token, given, asked>>
  BY DEF Tick, broker, page
<1>2. now' \in 0 .. MaxClock
  BY <1>1, TimeAssumption DEF StepInv, TypeOK
<1>3. TypeOK'
  BY <1>1, <1>2 DEF StepInv, TypeOK
<1>4. RequestsOK' /\ NeedsAsked' /\ ButtonsOK'
  BY <1>1 DEF StepInv, RequestsOK, NeedsAsked, ButtonsOK
<1> QED
  BY <1>3, <1>4 DEF StepInv

-----------------------------------------------------------------------------
(* The page's steps.                                                       *)

\* What the pages are and promise.
TabsOK == tab \in [Tabs -> Pages] /\ ButtonsOK

LEMMA ShowViewOK ==
    ASSUME TabsOK, NEW T \in Tabs, NEW v \in Views \ Forms, ShowView(T, v)
    PROVE  TabsOK'
<1>1. Plain(v) \in Pages /\ Plain(v).view = v
  BY DEF Plain, Pages, Forms
<1> QED
  BY <1>1 DEF ShowView, TabsOK, ButtonsOK

LEMMA ShowFormOK ==
    ASSUME TabsOK, NEW T \in Tabs, NEW w \in Wizards, NEW form \in Forms, ShowForm(T, w, form)
    PROVE  TabsOK'
<1> DEFINE p == tab[T]
           b == <<w, form>>
<1>1. b \in (Wizards \cup {NoWizard}) \X Forms /\ b[1] = w /\ form \in Views
  BY DEF Views
<1>2. p \in Pages /\ (p.view \in Forms => p.button[1] \in Wizards)
  BY DEF TabsOK, ButtonsOK
<1> HIDE DEF p, b
<1>3. /\ [p EXCEPT !.view = form, !.button = b] \in Pages
      /\ [p EXCEPT !.view = form, !.button = b].button = b
      /\ [p EXCEPT !.button = b] \in Pages
      /\ [p EXCEPT !.button = b].button = b
  BY <1>1, <1>2 DEF Pages
<1> DEFINE q == IF p.wiz = w THEN [p EXCEPT !.view = form, !.button = b]
                ELSE IF p.view \in Forms THEN [p EXCEPT !.button = b]
                ELSE p
<1>4. tab' = [tab EXCEPT ![T] = q]
  BY DEF ShowForm, p, b
<1>5. q \in Pages /\ (q.view \in Forms => q.button[1] \in Wizards)
  BY <1>1, <1>2, <1>3
<1> HIDE DEF q
<1> QED
  BY <1>4, <1>5 DEF TabsOK, ButtonsOK

\* A request that is sent claims nothing either.
LEMMA SentOK ==
    ASSUME NEW op \in Operations, NEW T \in Tabs, NEW w \in Wizards \cup {NoWizard},
           NEW t \in Tokens \cup {NoToken}, NEW A, op \in OfWizard => w \in Wizards
    PROVE  RequestOK([pc |-> "sent", op |-> op, tab |-> T, wiz |-> w, token |-> t,
                      stale |-> FALSE, code |-> 0, reply |-> "none"], A)
<1>1. 0 \in 0 .. MaxCodes
  BY TimeAssumption
<1> QED
  BY <1>1 DEF RequestOK, Request, Running, InBroker, Replies

LEMMA IdleOK == ASSUME NEW A PROVE RequestOK(Idle, A)
  BY DEF RequestOK, Request, Idle

\* Making requests stale changes nothing else.
LEMMA OthersOK ==
    ASSUME RequestsOK, NEW T \in Tabs
    PROVE  /\ Others(T) \in [Requests -> Request]
           /\ \A r \in Requests : RequestOK(Others(T)[r], asked)
<1> SUFFICES ASSUME NEW r \in Requests
             PROVE  Others(T)[r] \in Request /\ RequestOK(Others(T)[r], asked)
  BY DEF Others
<1>1. CASE req[r].pc # "idle" /\ req[r].op = "status" /\ req[r].tab = T
  <2>1. Others(T)[r] = [req[r] EXCEPT !.stale = TRUE]
    BY <1>1 DEF Others
  <2>2. req[r] \in Running /\ RequestOK(req[r], asked)
    BY <1>1, RunningShape DEF RequestsOK
  <2>3. [req[r] EXCEPT !.stale = TRUE] \in Running
    BY <2>2 DEF Running
  <2>4. /\ [req[r] EXCEPT !.stale = TRUE].pc = req[r].pc
        /\ [req[r] EXCEPT !.stale = TRUE].op = req[r].op
        /\ [req[r] EXCEPT !.stale = TRUE].token = req[r].token
        /\ [req[r] EXCEPT !.stale = TRUE].reply = req[r].reply
        /\ [req[r] EXCEPT !.stale = TRUE].wiz = req[r].wiz
    BY <2>2 DEF Running
  <2> QED
    BY <2>1, <2>2, <2>3, <2>4 DEF RequestOK, Request
<1>2. CASE ~(req[r].pc # "idle" /\ req[r].op = "status" /\ req[r].tab = T)
  BY <1>2 DEF Others, RequestsOK
<1> QED
  BY <1>1, <1>2

LEMMA RenderOK ==
    ASSUME RequestsOK, asked' = asked, TabsOK,
           NEW T \in Tabs, NEW r \in Requests, RenderAdmin(T, r)
    PROVE  RequestsOK' /\ TabsOK'
<1> DEFINE q == [pc |-> "sent", op |-> "status", tab |-> T, wiz |-> NoWizard,
                 token |-> NoToken, stale |-> FALSE, code |-> 0, reply |-> "none"]
<1>1. RequestOK(q, asked)
  BY SentOK DEF Operations, OfWizard, UnderStep
<1>2. req' = [Others(T) EXCEPT ![r] = q] /\ ShowView(T, "loading")
  BY DEF RenderAdmin
<1> HIDE DEF q
<1>3. RequestsOK'
  BY <1>1, <1>2, OthersOK DEF RequestsOK, RequestOK
<1>4. TabsOK'
  BY <1>2, ShowViewOK DEF Views, Forms
<1> QED
  BY <1>3, <1>4

\* A step of the page leaves the broker alone.
LEMMA PageTogether ==
    ASSUME StepInv, UNCHANGED <<now, setup, broker, telegram, asked>>, RequestsOK',
           TabsOK', token' \in [Wizards -> Tokens \cup {NoToken}],
           given' \in [Wizards -> SUBSET Tokens]
    PROVE  StepInv'
<1>1. req' \in [Requests -> {Idle} \cup Running]
  BY DEF RequestsOK, Request
<1>2. TypeOK'
  BY <1>1 DEF StepInv, TypeOK, TabsOK, broker
<1>3. NeedsAsked'
  BY DEF StepInv, NeedsAsked, broker
<1> QED
  BY <1>2, <1>3 DEF StepInv, TabsOK

LEMMA PageKnown ==
    ASSUME StepInv
    PROVE  /\ RequestsOK /\ TabsOK
           /\ token \in [Wizards -> Tokens \cup {NoToken}] /\ given \in [Wizards -> SUBSET Tokens]
           /\ \A r \in Requests : req[r] \in Request /\ RequestOK(req[r], asked)
  BY DEF StepInv, TypeOK, RequestsOK, TabsOK

LEMMA OpenAdminKeeps ==
    ASSUME StepInv, NEW T \in Tabs, NEW r \in Requests, OpenAdmin(T, r)
    PROVE  StepInv'
  BY PageKnown, RenderOK, PageTogether DEF OpenAdmin

LEMMA LeaveKeeps ==
    ASSUME StepInv, NEW T \in Tabs, Leave(T)
    PROVE  StepInv'
<1>1. RequestsOK /\ TabsOK
  BY PageKnown
<1>2. req' = Others(T) /\ asked' = asked /\ ShowView(T, "other")
  BY DEF Leave
<1>3. RequestsOK'
  BY <1>1, <1>2, OthersOK DEF RequestsOK
<1>4. TabsOK'
  BY <1>1, <1>2, ShowViewOK DEF Views, Forms
<1> QED
  BY <1>3, <1>4, PageKnown, PageTogether DEF Leave

\* A request of the page is sent.
LEMMA SendKeeps ==
    ASSUME StepInv, NEW r \in Requests, NEW op \in Operations, NEW T \in Tabs,
           NEW w \in Wizards \cup {NoWizard}, NEW t \in Tokens \cup {NoToken},
           op \in OfWizard => w \in Wizards,
           Send(r, op, T, w, t), UNCHANGED <<now, setup, broker, telegram, page, asked>>
    PROVE  StepInv'
<1> DEFINE q == [pc |-> "sent", op |-> op, tab |-> T, wiz |-> w, token |-> t,
                 stale |-> FALSE, code |-> 0, reply |-> "none"]
<1>1. req' = [req EXCEPT ![r] = q] /\ RequestOK(q, asked')
  BY SentOK DEF Send
<1> HIDE DEF q
<1>2. RequestsOK'
  BY <1>1, PageKnown, Replaced
<1> QED
  BY <1>2, PageKnown, PageTogether DEF page, TabsOK, ButtonsOK

LEMMA ClickGoKeeps ==
    ASSUME StepInv, NEW T \in Tabs, NEW r \in Requests, ClickGo(T, r)
    PROVE  StepInv'
<1> DEFINE w == tab[T].button[1]
           form == tab[T].button[2]
           op == CASE form = "phone" -> "sendCode"
                   [] form = "code" -> "signIn"
                   [] form = "password" -> "checkPassword"
           t == IF form = "phone" THEN NoToken ELSE token[w]
<1>1. tab[T].button \in (Wizards \cup {NoWizard}) \X Forms
  BY PageKnown DEF TabsOK, Pages
<1>2. w \in Wizards /\ form \in Forms
  BY <1>1, PageKnown DEF ClickGo, TabsOK, ButtonsOK
<1>3. op \in Operations
  BY <1>2 DEF Forms, Operations, UnderStep
<1>4. t \in Tokens \cup {NoToken}
  BY <1>2, PageKnown
<1>5. /\ Send(r, op, T, w, t)
      /\ UNCHANGED <<now, setup, broker, telegram, page, asked>>
  BY DEF ClickGo
<1> HIDE DEF w, form, op, t
<1> QED
  BY <1>2, <1>3, <1>4, <1>5, SendKeeps

LEMMA ClickLogoutKeeps ==
    ASSUME StepInv, NEW T \in Tabs, NEW r \in Requests, ClickLogout(T, r)
    PROVE  StepInv'
<1>1. "logout" \in Operations \ OfWizard
  BY DEF Operations, OfWizard, UnderStep
<1> QED
  BY <1>1, SendKeeps DEF ClickLogout

LEMMA EndedOK ==
    ASSUME RequestsOK, asked' = asked, NEW r \in Requests, Ended(r)
    PROVE  RequestsOK'
  BY IdleOK, Replaced DEF Ended

LEMMA GotStatusKeeps ==
    ASSUME StepInv, NEW r \in Requests, GotStatus(r)
    PROVE  StepInv'
<1>1. /\ RequestsOK /\ TabsOK /\ token \in [Wizards -> Tokens \cup {NoToken}]
      /\ given \in [Wizards -> SUBSET Tokens] /\ req[r] \in Request
  BY PageKnown
<1>2. /\ UNCHANGED <<now, setup, broker, telegram, asked>> /\ Ended(r)
      /\ req[r].pc = "answered"
  BY DEF GotStatus
<1>3. RequestsOK'
  BY <1>1, <1>2, EndedOK
<1>4. req[r].tab \in Tabs
  BY <1>1, <1>2, RunningShape
<1>5. CASE \E v \in {"notice", "account"} :
              ShowView(req[r].tab, v) /\ UNCHANGED <<token, given>>
  <2>1. PICK v \in Views \ Forms : ShowView(req[r].tab, v) /\ UNCHANGED <<token, given>>
    BY <1>5 DEF Views, Forms
  <2>2. TabsOK'
    BY <1>1, <1>4, <2>1, ShowViewOK
  <2> QED
    BY <1>1, <1>2, <1>3, <2>1, <2>2, PageTogether
<1>6. CASE UNCHANGED page
  <2>1. TabsOK'
    BY <1>1, <1>6 DEF page, TabsOK, ButtonsOK
  <2> QED
    BY <1>1, <1>2, <1>3, <1>6, <2>1, PageTogether DEF page
<1>7. ASSUME NEW w \in Wizards,
             tab' = [tab EXCEPT ![req[r].tab] =
                       [view |-> "phone", wiz |-> w, button |-> <<w, "phone">>]],
             token' = [token EXCEPT ![w] = NoToken],
             given' = [given EXCEPT ![w] = {}]
      PROVE  StepInv'
  <2> DEFINE p == [view |-> "phone", wiz |-> w, button |-> <<w, "phone">>]
  <2>1. p \in Pages /\ p.button[1] = w
    BY DEF Pages, Views, Forms
  <2>2. tab' = [tab EXCEPT ![req[r].tab] = p]
    BY <1>7
  <2> HIDE DEF p
  <2>3. TabsOK'
    BY <1>1, <1>4, <1>7, <2>1, <2>2 DEF TabsOK, ButtonsOK
  <2>4. /\ token' \in [Wizards -> Tokens \cup {NoToken}] /\ given' \in [Wizards -> SUBSET Tokens]
    BY <1>1, <1>7
  <2> QED
    BY <1>2, <1>3, <2>3, <2>4, PageTogether
<1> QED
  BY <1>5, <1>6, <1>7 DEF GotStatus

LEMMA GotCodeKeeps ==
    ASSUME StepInv, NEW r \in Requests, GotCode(r)
    PROVE  StepInv'
<1>1. /\ RequestsOK /\ TabsOK /\ token \in [Wizards -> Tokens \cup {NoToken}]
      /\ given \in [Wizards -> SUBSET Tokens] /\ req[r] \in Request /\ RequestOK(req[r], asked)
  BY PageKnown
<1>2. /\ UNCHANGED <<now, setup, broker, telegram, asked>> /\ Ended(r)
      /\ req[r].pc = "answered" /\ req[r].reply = "sent"
      /\ ShowForm(req[r].tab, req[r].wiz, "code")
      /\ token' = [token EXCEPT ![req[r].wiz] = req[r].token]
      /\ given' = [given EXCEPT ![req[r].wiz] = @ \cup {req[r].token}]
  BY DEF GotCode
<1>3. RequestsOK'
  BY <1>1, <1>2, EndedOK
<1>4. /\ req[r].tab \in Tabs /\ req[r].token \in Tokens \cup {NoToken}
      /\ req[r].wiz \in Wizards /\ "code" \in Forms
  BY <1>1, <1>2, RunningShape DEF RequestOK, Forms
<1>5. TabsOK'
  BY <1>1, <1>2, <1>4, ShowFormOK
<1>6. token' \in [Wizards -> Tokens \cup {NoToken}]
  BY <1>1, <1>2, <1>4
<1>7. given' \in [Wizards -> SUBSET Tokens]
  <2>1. req[r].token \in Tokens
    BY <1>1, <1>2 DEF RequestOK
  <2> QED
    BY <1>1, <1>2, <1>4, <2>1
<1> QED
  BY <1>2, <1>3, <1>5, <1>6, <1>7, PageTogether

LEMMA GotPasswordNeededKeeps ==
    ASSUME StepInv, NEW r \in Requests, GotPasswordNeeded(r)
    PROVE  StepInv'
<1>1. /\ RequestsOK /\ TabsOK /\ req[r] \in Request /\ RequestOK(req[r], asked)
      /\ token \in [Wizards -> Tokens \cup {NoToken}] /\ given \in [Wizards -> SUBSET Tokens]
  BY PageKnown
<1>2. /\ UNCHANGED <<now, setup, broker, telegram, asked, token, given>> /\ Ended(r)
      /\ req[r].pc = "answered" /\ req[r].reply = "password"
      /\ ShowForm(req[r].tab, req[r].wiz, "password")
  BY DEF GotPasswordNeeded
<1>3. RequestsOK'
  BY <1>1, <1>2, EndedOK
<1>4. req[r].tab \in Tabs /\ req[r].wiz \in Wizards /\ "password" \in Forms
  BY <1>1, <1>2, RunningShape DEF RequestOK, Forms
<1>5. TabsOK'
  BY <1>1, <1>2, <1>4, ShowFormOK
<1> QED
  BY <1>1, <1>2, <1>3, <1>5, PageTogether

LEMMA GotDoneKeeps ==
    ASSUME StepInv, NEW r \in Requests, GotDone(r)
    PROVE  StepInv'
<1>1. req[r].tab \in Tabs
  BY PageKnown, RunningShape DEF GotDone
<1> QED
  BY <1>1, PageKnown, RenderOK, PageTogether DEF GotDone

-----------------------------------------------------------------------------
(* Types, and the password that was asked for.                             *)

LEMMA InitHolds == Init => StepInv
<1> SUFFICES ASSUME Init
             PROVE  StepInv
  OBVIOUS
<1>1. 0 \in 0 .. MaxCodes /\ now \in 0 .. MaxClock
  BY TimeAssumption DEF Init
<1>2. /\ \A T \in Tabs : tab[T] = [view |-> "other", wiz |-> NoWizard, button |-> <<NoWizard, "phone">>]
      /\ tab \in [Tabs -> Pages]
  <2>1. [view |-> "other", wiz |-> NoWizard, button |-> <<NoWizard, "phone">>] \in Pages
    BY DEF Pages, Views, Forms
  <2> QED
    BY <2>1 DEF Init
<1>3. /\ setup \in [broker : {"none", "denied", "ok"}, twoFactor : BOOLEAN]
      /\ ready \in BOOLEAN /\ asked \subseteq Tokens
      /\ token \in [Wizards -> Tokens \cup {NoToken}] /\ given \in [Wizards -> SUBSET Tokens]
  BY DEF Init
<1>4. telegram \in [authorized : BOOLEAN, code : 0 .. MaxCodes, pending : BOOLEAN]
  BY <1>1 DEF Init
<1>5. step \in [Tokens -> Steps] /\ NeedsAsked
  BY <1>1 DEF Init, Steps, NeedsAsked
<1>6. RequestsOK
  BY IdleOK DEF Init, RequestsOK, Request
<1>7. req \in [Requests -> {Idle} \cup Running]
  BY DEF Init
<1>8. ButtonsOK
  BY <1>2 DEF ButtonsOK, Forms
<1> QED
  BY <1>1, <1>2, <1>3, <1>4, <1>5, <1>6, <1>7, <1>8 DEF StepInv, TypeOK

\* One step per action.
LEMMA NextKeeps == StepInv /\ [Next]_vars => StepInv'
<1> SUFFICES ASSUME StepInv, [Next]_vars
             PROVE  StepInv'
  OBVIOUS
<1>1. ASSUME NEW r \in Requests, InTheBroker(r)
      PROVE  StepInv'
  <2>1. CASE NotServed(r) \/ Forward(r) \/ GetStep(r) \/ CheckNeeds(r)
    BY <2>1, OnItsWay
  <2>2. CASE TelegramActs(r)
    BY <2>2, TelegramKeeps
  <2>3. CASE CodeSent(r)
    BY <2>3, CodeSentKeeps
  <2>4. CASE StepAnswered(r)
    BY <2>4, StepAnsweredKeeps
  <2>5. CASE Passed(r) \/ CallFails(r)
    BY <2>5, PassedKeeps
  <2> QED
    BY <1>1, <2>1, <2>2, <2>3, <2>4, <2>5 DEF InTheBroker
<1>2. ASSUME NEW r \in Requests, InThePage(r)
      PROVE  StepInv'
  <2>1. ASSUME NEW T \in Tabs, OpenAdmin(T, r) \/ ClickGo(T, r) \/ ClickLogout(T, r)
        PROVE  StepInv'
    BY <2>1, OpenAdminKeeps, ClickGoKeeps, ClickLogoutKeeps
  <2>2. CASE GotStatus(r)
    BY <2>2, GotStatusKeeps
  <2>3. CASE GotCode(r)
    BY <2>3, GotCodeKeeps
  <2>4. CASE GotPasswordNeeded(r)
    BY <2>4, GotPasswordNeededKeeps
  <2>5. CASE GotDone(r)
    BY <2>5, GotDoneKeeps
  <2> QED
    BY <1>2, <2>1, <2>2, <2>3, <2>4, <2>5 DEF InThePage
<1>3. ASSUME NEW T \in Tabs, Leave(T)
      PROVE  StepInv'
  BY <1>3, LeaveKeeps
<1>4. CASE Connect
  BY <1>4, ConnectKeeps
<1>5. CASE Restart
  BY <1>5, RestartKeeps
<1>6. CASE Tick
  BY <1>6, TickKeeps
<1>7. CASE UNCHANGED vars
  BY <1>7 DEF vars, StepInv, TypeOK, RequestsOK, NeedsAsked, ButtonsOK
<1> QED
  BY <1>1, <1>2, <1>3, <1>4, <1>5, <1>6, <1>7 DEF Next

LEMMA Invariance == Spec => []StepInv
  BY InitHolds, NextKeeps, PTL DEF Spec

\* Types of the login steps, from the page to Telegram.
THEOREM TypeCorrect == Spec => []TypeOK
<1>1. StepInv => TypeOK
  BY DEF StepInv
<1> QED
  BY <1>1, Invariance, PTL

\* A password goes to Telegram only under a step for which Telegram has asked for one,
\* with any number of pages, requests and restarts (auth.go 92-103).
THEOREM AskedFirst == Spec => []PasswordAsked
<1>1. StepInv => PasswordAsked
  BY DEF StepInv, RequestsOK, RequestOK, PasswordAsked
<1> QED
  BY <1>1, Invariance, PTL

-----------------------------------------------------------------------------
(* Dead steps.                                                             *)

\* What can happen to the step store.
StoreStep ==
    \/ step' = step
    \/ \E u : Drop(u) \/ UpdateNeeds(u) \/ \E c : Create(u, c)
    \/ step' = [u \in Tokens |-> IF step[u].phase = "kept" THEN Dropped(step[u]) ELSE step[u]]

LEMMA StoreSteps ==
    ASSUME [Next]_vars
    PROVE  StoreStep /\ (now' = now \/ now' = now + 1)
<1>1. ASSUME NEW r \in Requests, InTheBroker(r)
      PROVE  StoreStep /\ now' = now
  <2>1. CASE NotServed(r) \/ Forward(r) \/ GetStep(r) \/ CheckNeeds(r)
    BY <2>1 DEF NotServed, Forward, GetStep, CheckNeeds, StoreStep, broker
  <2>2. CASE TelegramActs(r)
    BY <2>2 DEF TelegramActs, TelegramStatus, TelegramSendsCode, TelegramSignsIn,
       TelegramChecksPassword, TelegramLogsOut, StoreStep, broker
  <2>3. CASE CodeSent(r) \/ StepAnswered(r) \/ Passed(r) \/ CallFails(r)
    BY <2>3 DEF CodeSent, StepAnswered, Passed, CallFails, StoreStep, broker
  <2> QED
    BY <1>1, <2>1, <2>2, <2>3 DEF InTheBroker
<1>2. ASSUME NEW r \in Requests, InThePage(r)
      PROVE  step' = step /\ now' = now
  BY <1>2 DEF InThePage, OpenAdmin, ClickGo, ClickLogout, GotStatus, GotCode,
     GotPasswordNeeded, GotDone, broker
<1>3. ASSUME NEW T \in Tabs, Leave(T)
      PROVE  step' = step /\ now' = now
  BY <1>3 DEF Leave, broker
<1>4. CASE Connect \/ Restart \/ Tick
  BY <1>4 DEF Connect, Restart, Tick, StoreStep, broker
<1>5. CASE UNCHANGED vars
  BY <1>5 DEF vars, StoreStep
<1> QED
  BY <1>1, <1>2, <1>3, <1>4, <1>5 DEF Next, StoreStep

\* No step of the store brings an entry back.
LEMMA DeadStays ==
    ASSUME StepInv, [Next]_vars, NEW t \in Tokens, Dead(t)
    PROVE  Dead(t)'
<1>1. /\ step \in [Tokens -> Steps] /\ now \in Nat
      /\ step[t] \in Steps /\ step[t].expires \in Nat
  BY Known DEF Steps
<1>2. now' \in Nat /\ now <= now'
  BY <1>1, StoreSteps
<1>3. ~Live(t) /\ step[t].phase # "fresh"
  BY DEF Dead, Live
<1>4. ASSUME NEW s \in Steps, step'[t] = s, s = step[t] \/ s = Dropped(step[t])
      PROVE  Dead(t)'
  <2>1. CASE s = step[t]
    BY <1>1, <1>2, <1>4, <2>1 DEF Dead, Expired
  <2>2. CASE s = Dropped(step[t])
    BY <1>1, <1>4, <2>2, DroppedType DEF Dead
  <2> QED
    BY <1>4, <2>1, <2>2
<1>5. step'[t] = step[t] \/ step'[t] = Dropped(step[t])
  <2>1. ASSUME NEW u, Drop(u)
        PROVE  step'[t] = step[t] \/ step'[t] = Dropped(step[t])
    BY <1>1, <2>1 DEF Drop
  <2>2. ASSUME NEW u, UpdateNeeds(u)
        PROVE  step'[t] = step[t] \/ step'[t] = Dropped(step[t])
    BY <1>1, <1>3, <2>2 DEF UpdateNeeds
  <2>3. ASSUME NEW u, NEW c, Create(u, c)
        PROVE  step'[t] = step[t]
    BY <1>1, <1>3, <2>3 DEF Create
  <2> QED
    BY <1>1, <2>1, <2>2, <2>3, StoreSteps DEF StoreStep
<1>6. Dropped(step[t]) \in Steps
  BY <1>1, DroppedType
<1> QED
  BY <1>1, <1>4, <1>5, <1>6

\* A step that was finished, lost or has expired stays so, whatever is still under way
\* for it (steps.go 48-80, auth.go 67-109).
THEOREM DeadForGood == Spec => StepsStayDead
<1>1. StepInv /\ [Next]_vars => [\A t \in Tokens : Dead(t) => Dead(t)']_vars
  BY DeadStays
<1> QED
  BY <1>1, Invariance, PTL DEF Spec, StepsStayDead

-----------------------------------------------------------------------------
(* Wizards.                                                                *)

\* A request of renderAdmin whose answer page T still wants.
Fresh(r, T) ==
    /\ req[r].pc # "idle" /\ req[r].op = "status" /\ req[r].tab = T
    /\ Wanted(r)

WizardInv ==
    \A T \in Tabs :
        /\ tab[T].wiz # NoWizard => tab[T].view \in Forms /\ \A r \in Requests : ~Fresh(r, T)
        /\ \A r, u \in Requests : Fresh(r, T) /\ Fresh(u, T) => r = u

\* What a step in the broker leaves of a request, as far as pages are concerned.
LEMMA BrokerLeaves ==
    ASSUME StepInv, NEW r \in Requests, InTheBroker(r)
    PROVE  /\ UNCHANGED page
           /\ \A u \in Requests, T \in Tabs : Fresh(u, T)' => Fresh(u, T)
<1>1. req \in [Requests -> Request] /\ req[r] \in Request
  BY Known DEF RequestsOK
<1>2. UNCHANGED page
  BY DEF InTheBroker, NotServed, Forward, GetStep, CheckNeeds, TelegramActs, TelegramStatus,
     TelegramSendsCode, TelegramSignsIn, TelegramChecksPassword, TelegramLogsOut, CodeSent,
     StepAnswered, Passed, CallFails
<1>3. req[r].pc # "idle"
  BY DEF InTheBroker, NotServed, Forward, GetStep, CheckNeeds, TelegramActs, TelegramStatus,
     TelegramSendsCode, TelegramSignsIn, TelegramChecksPassword, TelegramLogsOut, InCall,
     CodeSent, StepAnswered, Passed, CallFails, InBroker
<1>4. req[r] \in Running
  BY <1>1, <1>3, RunningShape
<1>5. PICK q : req' = [req EXCEPT ![r] = q]
               /\ (q = Idle \/ (q.op = req[r].op /\ q.tab = req[r].tab /\ q.stale = req[r].stale))
  <2>1. ASSUME NEW reply, Fail(r, reply)
        PROVE  \E q : req' = [req EXCEPT ![r] = q]
               /\ (q = Idle \/ (q.op = req[r].op /\ q.tab = req[r].tab /\ q.stale = req[r].stale))
    <3>1. req' = [req EXCEPT ![r] = Failed(req[r], reply)]
      BY <2>1 DEF Fail
    <3>2. \/ Failed(req[r], reply) = Idle
          \/ /\ Failed(req[r], reply).op = req[r].op /\ Failed(req[r], reply).tab = req[r].tab
             /\ Failed(req[r], reply).stale = req[r].stale
      BY <1>4 DEF Failed, Running
    <3> QED
      BY <3>1, <3>2
  <2>2. ASSUME NEW pc, req' = [req EXCEPT ![r].pc = pc]
        PROVE  \E q : req' = [req EXCEPT ![r] = q]
               /\ (q = Idle \/ (q.op = req[r].op /\ q.tab = req[r].tab /\ q.stale = req[r].stale))
    <3>1. req' = [req EXCEPT ![r] = [req[r] EXCEPT !.pc = pc]]
      BY <2>2
    <3>2. /\ [req[r] EXCEPT !.pc = pc].op = req[r].op
          /\ [req[r] EXCEPT !.pc = pc].tab = req[r].tab
          /\ [req[r] EXCEPT !.pc = pc].stale = req[r].stale
      BY <1>4 DEF Running
    <3> QED
      BY <3>1, <3>2
  <2>3. ASSUME NEW pc, NEW reply, NEW code,
               req' = [req EXCEPT ![r].pc = pc, ![r].reply = reply, ![r].code = code]
        PROVE  \E q : req' = [req EXCEPT ![r] = q]
               /\ (q = Idle \/ (q.op = req[r].op /\ q.tab = req[r].tab /\ q.stale = req[r].stale))
    <3> DEFINE q == [req[r] EXCEPT !.pc = pc, !.reply = reply, !.code = code]
    <3>1. req' = [req EXCEPT ![r] = q]
      BY <1>1, <2>3
    <3>2. q.op = req[r].op /\ q.tab = req[r].tab /\ q.stale = req[r].stale
      BY <1>4 DEF Running
    <3> QED
      BY <3>1, <3>2
  <2>4. ASSUME NEW t, req' = [req EXCEPT ![r].pc = "answered", ![r].token = t, ![r].code = 0]
        PROVE  \E q : req' = [req EXCEPT ![r] = q]
               /\ (q = Idle \/ (q.op = req[r].op /\ q.tab = req[r].tab /\ q.stale = req[r].stale))
    <3> DEFINE q == [req[r] EXCEPT !.pc = "answered", !.token = t, !.code = 0]
    <3>1. req' = [req EXCEPT ![r] = q]
      BY <1>1, <2>4
    <3>2. q.op = req[r].op /\ q.tab = req[r].tab /\ q.stale = req[r].stale
      BY <1>4 DEF Running
    <3> QED
      BY <3>1, <3>2
  <2>5. \/ \E reply : Fail(r, reply)
        \/ \E pc : req' = [req EXCEPT ![r].pc = pc]
        \/ \E reply, code : Called(r, reply, code) \/ Reply(r, reply)
        \/ \E t : req' = [req EXCEPT ![r].pc = "answered", ![r].token = t, ![r].code = 0]
    BY DEF InTheBroker, NotServed, Forward, GetStep, CheckNeeds, TelegramActs, TelegramStatus,
       TelegramSendsCode, TelegramSignsIn, TelegramChecksPassword, TelegramLogsOut,
       CodeSent, StepAnswered, Passed, CallFails, Refuse
  <2> QED
    BY <2>1, <2>2, <2>3, <2>4, <2>5 DEF Called, Reply
<1>6. ASSUME NEW u \in Requests, NEW T \in Tabs, Fresh(u, T)'
      PROVE  Fresh(u, T)
  <2>1. CASE u = r
    BY <1>1, <1>3, <1>5, <1>6, <2>1 DEF Fresh, Wanted, Idle
  <2>2. CASE u # r
    BY <1>1, <1>5, <1>6, <2>2 DEF Fresh, Wanted
  <2> QED
    BY <2>1, <2>2
<1> QED
  BY <1>2, <1>6

\* What a step may do to the wizard of a page.
Kept(T) ==
    tab[T].wiz # NoWizard => tab'[T].wiz \in {tab[T].wiz, NoWizard} /\ tab'[T].view # "account"

\* No page changes, and no request becomes wanted.
LEMMA NothingNew ==
    ASSUME WizardInv, tab' = tab,
           \A r \in Requests, T \in Tabs : Fresh(r, T)' => Fresh(r, T)
    PROVE  WizardInv' /\ \A T \in Tabs : Kept(T)
  BY DEF WizardInv, Kept, Forms

\* One page shows something without a wizard, and no request becomes wanted.
LEMMA PlainShown ==
    ASSUME WizardInv, tab \in [Tabs -> Pages], NEW T \in Tabs, NEW v, ShowView(T, v),
           v = "account" => tab[T].wiz = NoWizard,
           \A r \in Requests, U \in Tabs : Fresh(r, U)' => Fresh(r, U)
    PROVE  WizardInv' /\ \A U \in Tabs : Kept(U)
<1>1. tab'[T].wiz = NoWizard /\ tab'[T].view = v
  BY DEF ShowView, Plain
<1>2. \A U \in Tabs : U # T => tab'[U] = tab[U]
  BY DEF ShowView
<1>3. WizardInv'
  BY <1>1, <1>2 DEF WizardInv
<1>4. \A U \in Tabs : Kept(U)
  BY <1>1, <1>2 DEF WizardInv, Kept, Forms
<1> QED
  BY <1>3, <1>4

\* A form is shown where its wizard is.
LEMMA FormShown ==
    ASSUME WizardInv, tab \in [Tabs -> Pages], NEW T \in Tabs, NEW w, NEW form \in Forms,
           ShowForm(T, w, form),
           \A r \in Requests, U \in Tabs : Fresh(r, U)' => Fresh(r, U)
    PROVE  WizardInv' /\ \A U \in Tabs : Kept(U)
<1> DEFINE p == tab[T]
           b == <<w, form>>
<1>1. p \in Pages
  OBVIOUS
<1>2. tab' = [tab EXCEPT ![T] =
                IF p.wiz = w THEN [p EXCEPT !.view = form, !.button = b]
                ELSE IF p.view \in Forms THEN [p EXCEPT !.button = b]
                ELSE p]
  BY DEF ShowForm
<1> HIDE DEF p, b
<1>3. /\ [p EXCEPT !.view = form, !.button = b].wiz = p.wiz
      /\ [p EXCEPT !.view = form, !.button = b].view = form
      /\ [p EXCEPT !.button = b].wiz = p.wiz
      /\ [p EXCEPT !.button = b].view = p.view
  BY <1>1 DEF Pages
<1>4. tab'[T].wiz = p.wiz /\ (tab'[T].view = p.view \/ tab'[T].view \in Forms)
  BY <1>2, <1>3
<1>5. tab'[T].wiz = tab[T].wiz /\ (tab'[T].view = tab[T].view \/ tab'[T].view \in Forms)
  BY <1>4 DEF p
<1>6. \A U \in Tabs : U # T => tab'[U] = tab[U]
  BY <1>2
<1>7. WizardInv'
  BY <1>5, <1>6 DEF WizardInv
<1>8. \A U \in Tabs : Kept(U)
  BY <1>5, <1>6 DEF WizardInv, Kept, Forms
<1> QED
  BY <1>7, <1>8

\* The requests that stay wanted when a page is left.
LEMMA OthersStale ==
    ASSUME RequestsOK, NEW T \in Tabs, NEW r \in Requests
    PROVE  /\ Others(T)[r] = req[r]
              \/ (req[r] \in Running /\ Others(T)[r] = [req[r] EXCEPT !.stale = TRUE])
           /\ req[r].pc # "idle" /\ req[r].op = "status" /\ req[r].tab = T =>
                Others(T)[r].stale
<1>1. CASE req[r].pc # "idle" /\ req[r].op = "status" /\ req[r].tab = T
  <2>1. req[r] \in Running
    BY <1>1, RunningShape DEF RequestsOK
  <2>2. Others(T)[r] = [req[r] EXCEPT !.stale = TRUE]
    BY <1>1 DEF Others
  <2>3. [req[r] EXCEPT !.stale = TRUE].stale
    BY <2>1 DEF Running
  <2> QED
    BY <2>1, <2>2, <2>3
<1>2. CASE ~(req[r].pc # "idle" /\ req[r].op = "status" /\ req[r].tab = T)
  BY <1>2 DEF Others
<1> QED
  BY <1>1, <1>2

\* renderAdmin: the new request is the only one its page wants.
LEMMA RenderKeeps ==
    ASSUME RequestsOK, WizardInv, tab \in [Tabs -> Pages],
           NEW T \in Tabs, NEW r \in Requests, RenderAdmin(T, r)
    PROVE  WizardInv' /\ \A U \in Tabs : Kept(U)
<1> DEFINE q == [pc |-> "sent", op |-> "status", tab |-> T, wiz |-> NoWizard,
                 token |-> NoToken, stale |-> FALSE, code |-> 0, reply |-> "none"]
<1>1. req' = [Others(T) EXCEPT ![r] = q] /\ q.tab = T /\ ShowView(T, "loading")
  BY DEF RenderAdmin
<1> HIDE DEF q
<1>2. req'[r] = q /\ \A u \in Requests : u # r => req'[u] = Others(T)[u]
  BY <1>1 DEF Others
<1>3. tab'[T].wiz = NoWizard /\ tab'[T].view = "loading" /\ \A U \in Tabs : U # T => tab'[U] = tab[U]
  BY <1>1 DEF ShowView, Plain
<1>4. ASSUME NEW u \in Requests, u # r, NEW U \in Tabs, Fresh(u, U)'
      PROVE  Fresh(u, U) /\ U # T
  <2>1. CASE Others(T)[u] = req[u]
    <3>1. req'[u] = req[u]
      BY <1>2, <1>4, <2>1
    <3>2. Fresh(u, U)
      BY <1>4, <3>1 DEF Fresh, Wanted
    <3>3. ASSUME U = T
          PROVE  FALSE
      <4>1. Others(T)[u].stale
        BY <3>2, <3>3, OthersStale DEF Fresh
      <4> QED
        BY <2>1, <3>2, <4>1 DEF Fresh, Wanted
    <3> QED
      BY <3>2, <3>3
  <2>2. CASE req[u] \in Running /\ Others(T)[u] = [req[u] EXCEPT !.stale = TRUE]
    <3>1. Others(T)[u].stale
      BY <2>2 DEF Running
    <3> QED
      BY <1>2, <1>4, <3>1 DEF Fresh, Wanted
  <2> QED
    BY <2>1, <2>2, OthersStale
<1>5. \A U \in Tabs : Fresh(r, U)' => U = T
  BY <1>1, <1>2 DEF Fresh
<1>6. WizardInv'
  <2> SUFFICES ASSUME NEW U \in Tabs
               PROVE  /\ tab'[U].wiz # NoWizard =>
                            tab'[U].view \in Forms /\ \A v \in Requests : ~Fresh(v, U)'
                      /\ \A v, u \in Requests : Fresh(v, U)' /\ Fresh(u, U)' => v = u
    BY DEF WizardInv
  <2>1. CASE U = T
    BY <1>3, <1>4, <2>1
  <2>2. CASE U # T
    BY <1>3, <1>4, <1>5, <2>2 DEF WizardInv
  <2> QED
    BY <2>1, <2>2
<1>7. \A U \in Tabs : Kept(U)
  BY <1>3 DEF WizardInv, Kept, Forms
<1> QED
  BY <1>6, <1>7

\* The request ends, or was not one of renderAdmin's.
LEMMA EndsOne ==
    ASSUME RequestsOK, NEW r \in Requests, Ended(r)
    PROVE  \A u \in Requests, T \in Tabs : Fresh(u, T)' => Fresh(u, T)
  BY DEF Ended, Fresh, Wanted, Idle, RequestsOK

LEMMA SendsOther ==
    ASSUME RequestsOK, NEW r \in Requests, NEW op, NEW T, NEW w, NEW t, op # "status",
           Send(r, op, T, w, t)
    PROVE  \A u \in Requests, U \in Tabs : Fresh(u, U)' => Fresh(u, U)
<1> DEFINE q == [pc |-> "sent", op |-> op, tab |-> T, wiz |-> w, token |-> t,
                 stale |-> FALSE, code |-> 0, reply |-> "none"]
<1>1. req' = [req EXCEPT ![r] = q] /\ q.op = op
  BY DEF Send
<1> HIDE DEF q
<1> QED
  BY <1>1 DEF Fresh, Wanted, RequestsOK

\* The answer of renderAdmin's request.
LEMMA GotStatusKept ==
    ASSUME StepInv, WizardInv, NEW r \in Requests, GotStatus(r)
    PROVE  WizardInv' /\ \A U \in Tabs : Kept(U)
<1>1. RequestsOK /\ tab \in [Tabs -> Pages] /\ req[r] \in Request
  BY PageKnown DEF TabsOK
<1>2. req[r].pc = "answered" /\ req[r].op = "status" /\ Ended(r)
  BY DEF GotStatus
<1>3. PICK T \in Tabs : T = req[r].tab
  BY <1>1, <1>2, RunningShape
<1>4. \A u \in Requests, U \in Tabs : Fresh(u, U)' => Fresh(u, U)
  BY <1>1, <1>2, EndsOne
<1>5. Wanted(r) => Fresh(r, T)
  BY <1>2, <1>3 DEF Fresh
<1>6. Wanted(r) => tab[T].wiz = NoWizard
  BY <1>3, <1>5 DEF WizardInv
<1>7. CASE ShowView(T, "notice")
  BY <1>1, <1>3, <1>4, <1>7, PlainShown
<1>8. CASE ShowView(T, "account") /\ Wanted(r)
  BY <1>1, <1>3, <1>4, <1>6, <1>8, PlainShown
<1>9. CASE tab' = tab
  BY <1>4, <1>9, NothingNew
<1>10. ASSUME Wanted(r), NEW w \in Wizards,
              tab' = [tab EXCEPT ![T] = [view |-> "phone", wiz |-> w, button |-> <<w, "phone">>]]
       PROVE  WizardInv' /\ \A U \in Tabs : Kept(U)
  <2>1. tab'[T].wiz = w /\ tab'[T].view = "phone" /\ \A U \in Tabs : U # T => tab'[U] = tab[U]
    BY <1>1, <1>3, <1>10
  <2>2. \A u \in Requests : ~Fresh(u, T)'
    <3>1. ~Fresh(r, T)'
      BY <1>1, <1>2 DEF Ended, Fresh, Idle, RequestsOK
    <3>2. \A u \in Requests : Fresh(u, T) => u = r
      BY <1>3, <1>5, <1>10 DEF WizardInv
    <3> QED
      BY <1>3, <1>4, <3>1, <3>2
  <2>3. WizardInv'
    BY <1>3, <1>4, <2>1, <2>2 DEF WizardInv, Forms
  <2>4. \A U \in Tabs : Kept(U)
    BY <1>3, <1>6, <1>10, <2>1 DEF WizardInv, Kept, Forms
  <2> QED
    BY <2>3, <2>4
<1> QED
  BY <1>7, <1>8, <1>9, <1>3, <1>10 DEF GotStatus, page

\* One step per action.
LEMMA WizardStep ==
    ASSUME StepInv, WizardInv, [Next]_vars
    PROVE  WizardInv' /\ \A U \in Tabs : Kept(U)
<1>1. RequestsOK /\ tab \in [Tabs -> Pages]
  BY PageKnown DEF TabsOK
<1>2. ASSUME NEW r \in Requests, InTheBroker(r)
      PROVE  WizardInv' /\ \A U \in Tabs : Kept(U)
  BY <1>2, BrokerLeaves, NothingNew DEF page
<1>3. ASSUME NEW r \in Requests, InThePage(r)
      PROVE  WizardInv' /\ \A U \in Tabs : Kept(U)
  <2>1. ASSUME NEW T \in Tabs, OpenAdmin(T, r)
        PROVE  WizardInv' /\ \A U \in Tabs : Kept(U)
    BY <1>1, <2>1, RenderKeeps DEF OpenAdmin
  <2>2. ASSUME NEW T \in Tabs, ClickGo(T, r)
        PROVE  WizardInv' /\ \A U \in Tabs : Kept(U)
    <3>1. \E op, w, t : op # "status" /\ Send(r, op, T, w, t)
      <4>1. \A form \in Forms :
               (CASE form = "phone" -> "sendCode" [] form = "code" -> "signIn"
                  [] form = "password" -> "checkPassword") # "status"
        BY DEF Forms
      <4> QED
        BY <2>2, <4>1 DEF ClickGo
    <3>2. tab' = tab
      BY <2>2 DEF ClickGo, page
    <3> QED
      BY <1>1, <3>1, <3>2, SendsOther, NothingNew
  <2>3. ASSUME NEW T \in Tabs, ClickLogout(T, r)
        PROVE  WizardInv' /\ \A U \in Tabs : Kept(U)
    BY <1>1, <2>3, SendsOther, NothingNew DEF ClickLogout, page
  <2>4. CASE GotStatus(r)
    BY <2>4, GotStatusKept
  <2>5. CASE GotCode(r) \/ GotPasswordNeeded(r)
    <3>1. Ended(r) /\ \E form \in Forms : ShowForm(req[r].tab, req[r].wiz, form)
      BY <2>5 DEF GotCode, GotPasswordNeeded, Forms
    <3>2. req[r].tab \in Tabs
      BY <2>5, PageKnown, RunningShape DEF GotCode, GotPasswordNeeded
    <3> QED
      BY <1>1, <3>1, <3>2, EndsOne, FormShown
  <2>6. CASE GotDone(r)
    <3>1. req[r].tab \in Tabs /\ RenderAdmin(req[r].tab, r)
      BY <2>6, PageKnown, RunningShape DEF GotDone
    <3> QED
      BY <1>1, <3>1, RenderKeeps
  <2> QED
    BY <1>3, <2>1, <2>2, <2>3, <2>4, <2>5, <2>6 DEF InThePage
<1>4. ASSUME NEW T \in Tabs, Leave(T)
      PROVE  WizardInv' /\ \A U \in Tabs : Kept(U)
  <2>1. req' = Others(T) /\ ShowView(T, "other")
    BY <1>4 DEF Leave
  <2>2. ASSUME NEW u \in Requests, NEW U \in Tabs, Fresh(u, U)'
        PROVE  Fresh(u, U)
    <3>1. CASE Others(T)[u] = req[u]
      BY <2>1, <2>2, <3>1 DEF Fresh, Wanted
    <3>2. CASE req[u] \in Running /\ Others(T)[u] = [req[u] EXCEPT !.stale = TRUE]
      <4>1. Others(T)[u].stale
        BY <3>2 DEF Running
      <4> QED
        BY <2>1, <2>2, <4>1 DEF Fresh, Wanted
    <3> QED
      BY <1>1, <3>1, <3>2, OthersStale
  <2> QED
    BY <1>1, <2>1, <2>2, PlainShown
<1>5. CASE Connect \/ Tick \/ UNCHANGED vars
  <2>1. tab' = tab /\ req' = req
    BY <1>5 DEF Connect, Tick, vars, page
  <2> QED
    BY <2>1, NothingNew DEF Fresh, Wanted
<1>6. CASE Restart
  <2>1. tab' = tab
    BY <1>6 DEF Restart, page
  <2>2. ASSUME NEW u \in Requests, NEW U \in Tabs, Fresh(u, U)'
        PROVE  Fresh(u, U)
    <3>1. req'[u] = IF req[u].pc \in InBroker THEN Failed(req[u], "error") ELSE req[u]
      BY <1>6 DEF Restart
    <3>2. CASE req[u].pc \in InBroker
      <4>1. req[u] \in Running /\ req[u].pc # "idle"
        BY <1>1, <3>2, RunningShape DEF RequestsOK, InBroker
      <4>2. \/ Failed(req[u], "error") = Idle
            \/ /\ Failed(req[u], "error").op = req[u].op
               /\ Failed(req[u], "error").tab = req[u].tab
               /\ Failed(req[u], "error").stale = req[u].stale
        BY <4>1 DEF Failed, Running
      <4> QED
        BY <2>2, <3>1, <3>2, <4>1, <4>2 DEF Fresh, Wanted, Idle
    <3>3. CASE req[u].pc \notin InBroker
      BY <2>2, <3>1, <3>3 DEF Fresh, Wanted
    <3> QED
      BY <3>2, <3>3
  <2> QED
    BY <2>1, <2>2, NothingNew
<1> QED
  BY <1>2, <1>3, <1>4, <1>5, <1>6 DEF Next

\* The wizard of a page is replaced only when the admin page is rendered anew, however
\* late the answers for earlier pages come (app.js 213-228).
THEOREM WizardsKept == Spec => WizardKept
<1>1. Init => WizardInv
  BY DEF Init, WizardInv, Fresh, Idle
<1>2. StepInv /\ WizardInv /\ [Next]_vars => WizardInv'
  BY WizardStep
<1>3. StepInv /\ WizardInv /\ [Next]_vars =>
        [\A T \in Tabs : tab[T].wiz # NoWizard =>
            /\ tab'[T].wiz \in {tab[T].wiz, NoWizard}
            /\ tab'[T].view # "account"]_vars
  BY WizardStep DEF Kept
<1> QED
  BY <1>1, <1>2, <1>3, Invariance, PTL DEF Spec, WizardKept

-----------------------------------------------------------------------------
(* Password forms.                                                         *)

\* Steps that were created, and those of them that wait for the password or are dead.
Used == {t \in Tokens : step[t].phase # "fresh"}
Settled == {t \in Used : step[t].needs \/ Dead(t)}

\* What a request promises where the steps U are used, S settled, A asked under, and G the
\* steps the wizards were given: it goes under a step of its own wizard; it says that a
\* password is needed only under a settled step that was asked under; and the step it
\* brings is new to every wizard.
Claims(q, U, S, A, G) ==
    /\ q.pc # "idle" /\ q.op \in UnderStep /\ q.token \in Tokens => q.token \in G[q.wiz]
    /\ q.pc # "idle" /\ q.reply = "password" => q.op \in UnderStep /\ q.token \in Tokens \cap A
    /\ q.pc = "answered" /\ q.reply = "password" => q.token \in S
    /\ q.pc = "answered" /\ q.reply = "sent" =>
          q.token \in U /\ \A w \in Wizards : q.token \notin G[w]

ClaimsOK == \A r \in Requests : Claims(req[r], Used, Settled, asked, given)

\* No two requests bring the same step.
Coming(r) == req[r].pc = "answered" /\ req[r].reply = "sent"
Distinct ==
    \A r, u \in Requests : Coming(r) /\ Coming(u) /\ req[r].token = req[u].token => r = u

\* A wizard was given steps that exist, and names one of them if there is any.
WizardsOK ==
    \A w \in Wizards :
        /\ IsFiniteSet(given[w]) /\ given[w] \subseteq Used
        /\ token[w] \in given[w] \/ (given[w] = {} /\ token[w] = NoToken)

\* The wizard may ask the user for a password.
PasswordDue(w) ==
    /\ given[w] \cap asked # {}
    /\ token[w] \in Settled \/ Cardinality(given[w]) > 1

FormsOK ==
    \A T \in Tabs : tab[T].view = "password" =>
        tab[T].wiz \in Wizards /\ PasswordDue(tab[T].wiz)

GivenInv == WizardsOK /\ ClaimsOK /\ Distinct /\ FormsOK

LEMMA TwoTokens ==
    ASSUME NEW S, IsFiniteSet(S), NEW x \in S, NEW y \in S, x # y
    PROVE  Cardinality(S) > 1
<1>1. IsFiniteSet({x}) /\ Cardinality({x}) = 1
  BY FS_Singleton
<1>2. {x} \in SUBSET S /\ {x} # S
  OBVIOUS
<1>3. Cardinality({x}) <= Cardinality(S) /\ Cardinality({x}) # Cardinality(S)
  BY <1>2, FS_Subset
<1>4. Cardinality(S) \in Nat
  BY FS_CardinalityType
<1> QED
  BY <1>1, <1>3, <1>4

\* What was asked for, used or settled stays so.
LEMMA AskedGrows ==
    ASSUME [Next]_vars
    PROVE  asked \subseteq asked'
<1>1. ASSUME NEW r \in Requests, InTheBroker(r)
      PROVE  asked \subseteq asked'
  BY <1>1 DEF InTheBroker, NotServed, Forward, GetStep, CheckNeeds, TelegramActs,
     TelegramStatus, TelegramSendsCode, TelegramSignsIn, TelegramChecksPassword,
     TelegramLogsOut, CodeSent, StepAnswered, Passed, CallFails
<1>2. ASSUME NEW r \in Requests, InThePage(r)
      PROVE  asked \subseteq asked'
  BY <1>2 DEF InThePage, OpenAdmin, ClickGo, ClickLogout, GotStatus, GotCode,
     GotPasswordNeeded, GotDone
<1>3. ASSUME NEW T \in Tabs, Leave(T)
      PROVE  asked \subseteq asked'
  BY <1>3 DEF Leave
<1> QED
  BY <1>1, <1>2, <1>3 DEF Next, Connect, Restart, Tick, vars

LEMMA SetsGrow ==
    ASSUME StepInv, [Next]_vars
    PROVE  Used \subseteq Used' /\ Settled \subseteq Settled'
<1>1. step \in [Tokens -> Steps] /\ now \in Nat
  BY Known
<1> SUFFICES ASSUME NEW t \in Tokens, step[t].phase # "fresh"
             PROVE  /\ step'[t].phase # "fresh"
                    /\ step[t].needs => step'[t].needs
  BY DeadStays DEF Used, Settled
<1>2. step[t] \in Steps
  BY <1>1
<1>3. CASE step'[t] = step[t]
  BY <1>3
<1>4. CASE step'[t] = Dropped(step[t])
  BY <1>2, <1>4, DroppedType
<1>5. ASSUME NEW u, UpdateNeeds(u)
      PROVE  /\ step'[t].phase # "fresh"
             /\ step[t].needs => step'[t].needs
  <2>1. CASE u = t /\ Live(t)
    <3>1. step'[t] = [step[t] EXCEPT !.needs = TRUE, !.expires = now + TTL]
      BY <1>1, <1>5, <2>1 DEF UpdateNeeds
    <3>2. [step[t] EXCEPT !.needs = TRUE, !.expires = now + TTL].needs
          /\ [step[t] EXCEPT !.needs = TRUE, !.expires = now + TTL].phase = step[t].phase
      BY <1>2 DEF Steps
    <3> QED
      BY <3>1, <3>2
  <2>2. CASE ~(u = t /\ Live(t))
    <3>1. step'[t] = step[t] \/ step'[t] = Dropped(step[t])
      BY <1>1, <1>5, <2>2 DEF UpdateNeeds
    <3> QED
      BY <1>3, <1>4, <3>1
  <2> QED
    BY <2>1, <2>2
<1>6. ASSUME NEW u, Drop(u)
      PROVE  step'[t] = step[t] \/ step'[t] = Dropped(step[t])
  BY <1>1, <1>6 DEF Drop
<1>7. ASSUME NEW u, NEW c, Create(u, c)
      PROVE  step'[t] = step[t]
  BY <1>1, <1>7 DEF Create
<1> QED
  BY <1>1, <1>3, <1>4, <1>5, <1>6, <1>7, StoreSteps DEF StoreStep

\* How a request p goes on, as q, without anything new to promise (A: asked under, then).
Follows(p, q, A) ==
    \/ q.pc = "idle"
    \/ q.op \notin UnderStep /\ q.reply \notin {"sent", "password"}
    \/ /\ p.pc # "idle" /\ q.op = p.op /\ q.token = p.token /\ q.wiz = p.wiz
       /\ q.reply = "password" => p.reply = "password" \/ (q.op \in UnderStep /\ q.token \in Tokens \cap A)
       /\ q.pc = "answered" /\ q.reply \in {"sent", "password"} =>
             p.pc = "answered" /\ p.reply = q.reply

LEMMA ClaimsFollow ==
    ASSUME NEW p, NEW q, NEW U, NEW V, NEW S, NEW R, NEW A, NEW B, NEW G,
           U \subseteq V, S \subseteq R, A \subseteq B,
           Claims(p, U, S, A, G), Follows(p, q, B)
    PROVE  Claims(q, V, R, B, G)
<1>1. CASE q.pc = "idle" \/ (q.op \notin UnderStep /\ q.reply \notin {"sent", "password"})
  BY <1>1 DEF Claims
<1>2. CASE /\ p.pc # "idle" /\ q.op = p.op /\ q.token = p.token /\ q.wiz = p.wiz
           /\ q.reply = "password" =>
                 p.reply = "password" \/ (q.op \in UnderStep /\ q.token \in Tokens \cap B)
           /\ q.pc = "answered" /\ q.reply \in {"sent", "password"} =>
                 p.pc = "answered" /\ p.reply = q.reply
  BY <1>2 DEF Claims
<1> QED
  BY <1>1, <1>2 DEF Follows

LEMMA SelfFollows == ASSUME NEW p, NEW A PROVE Follows(p, p, A)
  BY DEF Follows

LEMMA FailedFollows ==
    ASSUME NEW p \in Running, NEW A, NEW reply \in {"network", "unavailable", "error"}
    PROVE  Follows(p, Failed(p, reply), A)
<1>1. CASE p.op = "status"
  <2>1. Failed(p, reply).op = "status" /\ Failed(p, reply).reply = reply
    BY <1>1 DEF Failed, Running
  <2> QED
    BY <2>1 DEF Follows, UnderStep
<1>2. CASE p.op # "status"
  BY <1>2 DEF Failed, Idle, Follows
<1> QED
  BY <1>1, <1>2

\* A request that goes on in the broker, without an answer or with one that is no token
\* and asks for nothing.
LEMMA MovedFollows ==
    ASSUME NEW p \in Running, NEW A, NEW pc \in InBroker, NEW reply, NEW code,
           reply = "password" => p.op \in UnderStep /\ p.token \in Tokens \cap A
    PROVE  /\ Follows(p, [p EXCEPT !.pc = pc], A)
           /\ Follows(p, [p EXCEPT !.pc = pc, !.reply = reply, !.code = code], A)
           /\ p.reply \notin {"sent", "password"} =>
                 Follows(p, [p EXCEPT !.pc = "answered", !.reply = p.reply, !.code = code], A)
<1>1. pc # "answered" /\ p.pc # "idle"
  BY DEF InBroker, Running
<1>2. /\ [p EXCEPT !.pc = pc].pc = pc /\ [p EXCEPT !.pc = pc].reply = p.reply
      /\ [p EXCEPT !.pc = pc].op = p.op /\ [p EXCEPT !.pc = pc].token = p.token
      /\ [p EXCEPT !.pc = pc].wiz = p.wiz
  BY DEF Running
<1>3. ASSUME NEW c, NEW a
      PROVE  /\ [p EXCEPT !.pc = c, !.reply = a, !.code = code].pc = c
             /\ [p EXCEPT !.pc = c, !.reply = a, !.code = code].reply = a
             /\ [p EXCEPT !.pc = c, !.reply = a, !.code = code].op = p.op
             /\ [p EXCEPT !.pc = c, !.reply = a, !.code = code].token = p.token
             /\ [p EXCEPT !.pc = c, !.reply = a, !.code = code].wiz = p.wiz
  BY DEF Running
<1>4. Follows(p, [p EXCEPT !.pc = pc], A)
  BY <1>1, <1>2 DEF Follows
<1>5. Follows(p, [p EXCEPT !.pc = pc, !.reply = reply, !.code = code], A)
  BY <1>1, <1>3 DEF Follows
<1>6. p.reply \notin {"sent", "password"} =>
         Follows(p, [p EXCEPT !.pc = "answered", !.reply = p.reply, !.code = code], A)
  BY <1>1, <1>3 DEF Follows
<1> QED
  BY <1>4, <1>5, <1>6

\* The broker's steps but the two that make a promise.
LEMMA BrokerFollows ==
    ASSUME StepInv, ClaimsOK, NEW r \in Requests, InTheBroker(r), ~CodeSent(r),
           StepAnswered(r) => req[r].reply # "password"
    PROVE  \A u \in Requests : Follows(req[u], req'[u], asked')
<1>1. /\ req \in [Requests -> Request] /\ RequestOK(req[r], asked)
      /\ Claims(req[r], Used, Settled, asked, given)
  BY Known DEF RequestsOK, ClaimsOK
<1>2. req[r].pc # "idle"
  BY DEF InTheBroker, NotServed, Forward, GetStep, CheckNeeds, TelegramActs, TelegramStatus,
     TelegramSendsCode, TelegramSignsIn, TelegramChecksPassword, TelegramLogsOut, InCall,
     CodeSent, StepAnswered, Passed, CallFails, InBroker
<1>3. req[r] \in Running
  BY <1>1, <1>2, RunningShape
<1>4. SUFFICES ASSUME NEW q, req' = [req EXCEPT ![r] = q]
               PROVE  Follows(req[r], q, asked')
  <2>1. \E q : req' = [req EXCEPT ![r] = q]
    <3>1. CASE NotServed(r) \/ Forward(r) \/ GetStep(r) \/ CheckNeeds(r)
      BY <1>1, <3>1 DEF NotServed, Forward, GetStep, CheckNeeds, Refuse, Fail
    <3>2. CASE TelegramActs(r)
      BY <1>1, <3>2 DEF TelegramActs, TelegramStatus, TelegramSendsCode, TelegramSignsIn,
         TelegramChecksPassword, TelegramLogsOut, Called
    <3>3. CASE StepAnswered(r)
      BY <1>1, <3>3 DEF StepAnswered, Reply
    <3>4. CASE Passed(r) \/ CallFails(r)
      BY <1>1, <3>4 DEF Passed, CallFails, Refuse, Fail, Reply
    <3> QED
      BY <3>1, <3>2, <3>3, <3>4 DEF InTheBroker
  <2> QED
    BY <1>1, <2>1, SelfFollows
<1>5. q = req'[r]
  BY <1>1, <1>4
<1>6. ASSUME NEW reply \in {"network", "unavailable", "error"}, Fail(r, reply)
      PROVE  Follows(req[r], q, asked')
  BY <1>1, <1>3, <1>5, <1>6, FailedFollows DEF Fail
<1>7. ASSUME NEW pc \in InBroker, req' = [req EXCEPT ![r].pc = pc]
      PROVE  Follows(req[r], q, asked')
  BY <1>1, <1>3, <1>5, <1>7, MovedFollows
<1>8. ASSUME NEW reply, NEW code, Called(r, reply, code),
             reply = "password" => req[r].op \in UnderStep /\ req[r].token \in Tokens \cap asked'
      PROVE  Follows(req[r], q, asked')
  <2>1. q = [req[r] EXCEPT !.pc = "called", !.reply = reply, !.code = code]
    BY <1>1, <1>5, <1>8 DEF Called
  <2>2. "called" \in InBroker
    BY DEF InBroker
  <2> QED
    BY <1>3, <1>8, <2>1, <2>2, MovedFollows
<1>9. ASSUME Reply(r, req[r].reply), req[r].reply \notin {"sent", "password"}
      PROVE  Follows(req[r], q, asked')
  <2>1. q = [req[r] EXCEPT !.pc = "answered", !.reply = req[r].reply, !.code = 0]
    BY <1>1, <1>5, <1>9 DEF Reply
  <2>2. "called" \in InBroker
    BY DEF InBroker
  <2> QED
    BY <1>3, <1>9, <2>1, <2>2, MovedFollows
<1>10. CASE NotServed(r) \/ Forward(r) \/ GetStep(r) \/ CheckNeeds(r) \/ CallFails(r)
  BY <1>6, <1>7, <1>10 DEF NotServed, Forward, GetStep, CheckNeeds, CallFails, Refuse, InBroker
<1>11. CASE TelegramActs(r)
  <2>1. CASE TelegramSignsIn(r)
    <3>1. req[r].op \in UnderStep /\ req[r].token \in Tokens
      BY <1>1, <2>1 DEF TelegramSignsIn, InCall, RequestOK, UnderStep
    <3>2. \/ Called(r, "password", 0) /\ req[r].token \in asked'
          \/ Called(r, "done", 0)
      BY <2>1 DEF TelegramSignsIn
    <3> QED
      BY <1>8, <3>1, <3>2
  <2>2. CASE ~TelegramSignsIn(r)
    <3>1. \E reply \in Replies \ {"password"} : \E code : Called(r, reply, code)
      BY <1>11, <2>2 DEF TelegramActs, TelegramStatus, TelegramSendsCode, TelegramChecksPassword,
         TelegramLogsOut, Replies
    <3> QED
      BY <1>8, <3>1
  <2> QED
    BY <2>1, <2>2
<1>12. CASE StepAnswered(r)
  <2>1. req[r].reply # "sent" /\ Reply(r, req[r].reply)
    BY <1>1, <1>2, <1>12 DEF StepAnswered, RequestOK, UnderStep
  <2> QED
    BY <1>9, <1>12, <2>1
<1>13. CASE Passed(r)
  <2>1. CASE Refuse(r)
    BY <1>6, <2>1 DEF Refuse
  <2>2. CASE Reply(r, req[r].reply)
    <3>1. req[r].reply \notin {"sent", "password"}
      BY <1>1, <1>2, <1>13 DEF Passed, RequestOK, Claims, UnderStep
    <3> QED
      BY <1>9, <2>2, <3>1
  <2> QED
    BY <1>13, <2>1, <2>2 DEF Passed
<1> QED
  BY <1>10, <1>11, <1>12, <1>13 DEF InTheBroker

\* A step after which every wizard has what it had, and no page shows a password form that
\* did not.
NoNewForm ==
    \A T \in Tabs : tab'[T].view = "password" =>
        tab[T].view = "password" /\ tab'[T].wiz = tab[T].wiz

LEMMA WithoutGiving ==
    ASSUME StepInv, GivenInv, [Next]_vars, token' = token, given' = given,
           ClaimsOK', Distinct', NoNewForm
    PROVE  GivenInv'
<1>1. Used \subseteq Used' /\ Settled \subseteq Settled' /\ asked \subseteq asked'
  BY SetsGrow, AskedGrows
<1>2. WizardsOK'
  BY <1>1 DEF GivenInv, WizardsOK
<1>3. \A w \in Wizards : PasswordDue(w) => PasswordDue(w)'
  BY <1>1 DEF PasswordDue
<1>4. FormsOK'
  BY <1>3 DEF GivenInv, FormsOK, NoNewForm, PasswordDue
<1> QED
  BY <1>2, <1>4 DEF GivenInv

LEMMA FollowersKeep ==
    ASSUME StepInv, GivenInv, [Next]_vars,
           \A u \in Requests : Follows(req[u], req'[u], asked')
    PROVE  /\ \A u \in Requests : Claims(req'[u], Used', Settled', asked', given)
           /\ Distinct'
<1>1. Used \subseteq Used' /\ Settled \subseteq Settled' /\ asked \subseteq asked'
  BY SetsGrow, AskedGrows
<1>2. \A u \in Requests : Claims(req'[u], Used', Settled', asked', given)
  BY <1>1, ClaimsFollow DEF GivenInv, ClaimsOK
<1>3. ASSUME NEW u \in Requests, Coming(u)'
      PROVE  Coming(u) /\ req'[u].token = req[u].token
  <2>1. RequestOK(req'[u], asked')
    BY NextKeeps DEF StepInv, RequestsOK
  <2>2. req'[u].pc = "answered" /\ req'[u].reply = "sent"
    BY <1>3 DEF Coming
  <2> QED
    BY <2>2 DEF Follows, Coming
<1>4. Distinct'
  BY <1>3 DEF GivenInv, Distinct
<1> QED
  BY <1>2, <1>4

\* Nothing new is promised, given or shown.
LEMMA AllFollow ==
    ASSUME StepInv, GivenInv, [Next]_vars, token' = token, given' = given,
           \A u \in Requests : Follows(req[u], req'[u], asked'), NoNewForm
    PROVE  GivenInv'
<1>1. ClaimsOK' /\ Distinct'
  BY FollowersKeep DEF ClaimsOK
<1> QED
  BY <1>1, WithoutGiving

\* SendCode: the token of the new step is known to no wizard and comes with no other answer.
LEMMA CodeSentGives ==
    ASSUME StepInv, GivenInv, NEW r \in Requests, CodeSent(r)
    PROVE  GivenInv'
<1>1. /\ req \in [Requests -> Request] /\ step \in [Tokens -> Steps]
      /\ \A u \in Requests : Claims(req[u], Used, Settled, asked, given)
  BY Known DEF RequestsOK, GivenInv, ClaimsOK
<1>2. [Next]_vars
  BY DEF Next, InTheBroker
<1>3. PICK t \in Tokens :
         /\ Create(t, req[r].code)
         /\ req' = [req EXCEPT ![r].pc = "answered", ![r].token = t, ![r].code = 0]
  BY DEF CodeSent
<1>4. /\ asked' = asked /\ token' = token /\ given' = given /\ tab' = tab
      /\ req[r].pc = "called" /\ req[r].op = "sendCode"
  BY DEF CodeSent, page
<1>5. Used \subseteq Used' /\ Settled \subseteq Settled'
  BY <1>2, SetsGrow
<1>6. t \notin Used /\ t \in Used'
  BY <1>1, <1>3 DEF Create, Used
<1> DEFINE q == [req[r] EXCEPT !.pc = "answered", !.token = t, !.code = 0]
<1>7. req[r] \in Running
  BY <1>1, <1>4, RunningShape
<1>8. /\ q.pc = "answered" /\ q.op = "sendCode" /\ q.reply = req[r].reply /\ q.token = t
      /\ req' = [req EXCEPT ![r] = q]
  BY <1>1, <1>3, <1>4, <1>7 DEF Running
<1> HIDE DEF q
<1>9. req'[r] = q /\ \A u \in Requests : u # r => req'[u] = req[u]
  BY <1>1, <1>8
<1>10. \A u \in Requests : u # r => Claims(req'[u], Used', Settled', asked', given')
  BY <1>1, <1>4, <1>5, <1>9, SelfFollows, ClaimsFollow
<1>11. Claims(q, Used', Settled', asked', given')
  <2>1. req[r].reply # "password"
    BY <1>1, <1>4 DEF Claims, UnderStep
  <2>2. \A w \in Wizards : t \notin given[w]
    BY <1>6 DEF GivenInv, WizardsOK
  <2> QED
    BY <1>4, <1>6, <1>8, <2>1, <2>2 DEF Claims, UnderStep
<1>12. ClaimsOK'
  BY <1>9, <1>10, <1>11 DEF ClaimsOK
<1>13. Distinct'
  <2>1. \A u \in Requests : Coming(u) => req[u].token \in Used
    BY <1>1 DEF Coming, Claims
  <2>2. \A u \in Requests : u # r /\ Coming(u)' => Coming(u) /\ req'[u].token = req[u].token
    BY <1>9 DEF Coming
  <2> QED
    BY <1>6, <1>8, <1>9, <2>1, <2>2 DEF Distinct, GivenInv
<1>14. NoNewForm
  BY <1>4 DEF NoNewForm
<1> QED
  BY <1>2, <1>4, <1>12, <1>13, <1>14, WithoutGiving

\* SignIn has set the flag of its step, or the step is gone.
LEMMA PasswordAnswered ==
    ASSUME StepInv, GivenInv, NEW r \in Requests, StepAnswered(r), req[r].reply = "password"
    PROVE  GivenInv'
<1>1. /\ req \in [Requests -> Request] /\ step \in [Tokens -> Steps] /\ now \in Nat
      /\ \A u \in Requests : Claims(req[u], Used, Settled, asked, given)
  BY Known DEF RequestsOK, GivenInv, ClaimsOK
<1>2. [Next]_vars
  BY DEF Next, InTheBroker
<1>3. /\ asked' = asked /\ token' = token /\ given' = given /\ tab' = tab /\ now' = now
      /\ req[r].pc = "called" /\ req[r].op \in UnderStep
      /\ UpdateNeeds(req[r].token) /\ Reply(r, req[r].reply)
  BY DEF StepAnswered, page
<1>4. Used \subseteq Used' /\ Settled \subseteq Settled'
  BY <1>2, SetsGrow
<1> DEFINE t == req[r].token
<1>5. t \in Tokens \cap asked /\ t \in given[req[r].wiz]
  BY <1>1, <1>3 DEF Claims
<1>6. t \in Settled'
  <2>1. CASE Live(t)
    <3>1. step'[t] = [step[t] EXCEPT !.needs = TRUE, !.expires = now + TTL]
      BY <1>1, <1>3, <1>5, <2>1 DEF UpdateNeeds
    <3>2. step[t] \in Steps
      BY <1>1, <1>5
    <3>3. /\ [step[t] EXCEPT !.needs = TRUE, !.expires = now + TTL].needs
          /\ [step[t] EXCEPT !.needs = TRUE, !.expires = now + TTL].phase = step[t].phase
      BY <3>2 DEF Steps
    <3> QED
      BY <1>5, <2>1, <3>1, <3>3 DEF Live, Used, Settled
  <2>2. CASE ~Live(t)
    <3>1. step'[t] = Dropped(step[t]) /\ step[t] \in Steps
      BY <1>1, <1>3, <1>5, <2>2 DEF UpdateNeeds
    <3> QED
      BY <1>5, <3>1, DroppedType DEF Used, Settled, Dead
  <2> QED
    BY <2>1, <2>2
<1> DEFINE q == [req[r] EXCEPT !.pc = "answered", !.reply = req[r].reply, !.code = 0]
<1>7. req[r] \in Running
  BY <1>1, <1>3, RunningShape
<1>8. /\ q.pc = "answered" /\ q.op = req[r].op /\ q.reply = "password" /\ q.token = t
      /\ q.wiz = req[r].wiz /\ req' = [req EXCEPT ![r] = q]
  BY <1>1, <1>3, <1>7 DEF Running, Reply
<1> HIDE DEF q
<1>9. req'[r] = q /\ \A u \in Requests : u # r => req'[u] = req[u]
  BY <1>1, <1>8
<1>10. Claims(q, Used', Settled', asked', given')
  BY <1>3, <1>5, <1>6, <1>8 DEF Claims
<1>11. ClaimsOK'
  BY <1>1, <1>3, <1>4, <1>9, <1>10, SelfFollows, ClaimsFollow DEF ClaimsOK
<1>12. Distinct'
  BY <1>8, <1>9 DEF Distinct, GivenInv, Coming
<1>13. NoNewForm
  BY <1>3 DEF NoNewForm
<1> QED
  BY <1>2, <1>3, <1>11, <1>12, <1>13, WithoutGiving

-----------------------------------------------------------------------------
(* Password forms: the page's steps.                                       *)

\* Requests made stale, and one sent that promises nothing.
LEMMA OthersFollow ==
    ASSUME RequestsOK, NEW T \in Tabs, NEW u \in Requests, NEW A
    PROVE  Follows(req[u], Others(T)[u], A)
<1>1. CASE Others(T)[u] = req[u]
  BY <1>1, SelfFollows
<1>2. CASE req[u] \in Running /\ Others(T)[u] = [req[u] EXCEPT !.stale = TRUE]
  <2>1. /\ [req[u] EXCEPT !.stale = TRUE].pc = req[u].pc
        /\ [req[u] EXCEPT !.stale = TRUE].op = req[u].op
        /\ [req[u] EXCEPT !.stale = TRUE].token = req[u].token
        /\ [req[u] EXCEPT !.stale = TRUE].wiz = req[u].wiz
        /\ [req[u] EXCEPT !.stale = TRUE].reply = req[u].reply
    BY <1>2 DEF Running
  <2>2. req[u].pc # "idle"
    BY <1>2 DEF Running, InBroker
  <2> QED
    BY <1>2, <2>1, <2>2 DEF Follows
<1> QED
  BY <1>1, <1>2, OthersStale

LEMMA RenderFollows ==
    ASSUME RequestsOK, NEW T \in Tabs, NEW r \in Requests, RenderAdmin(T, r)
    PROVE  (\A u \in Requests : Follows(req[u], req'[u], asked')) /\ tab' = [tab EXCEPT ![T] = Plain("loading")]
<1> DEFINE q == [pc |-> "sent", op |-> "status", tab |-> T, wiz |-> NoWizard,
                 token |-> NoToken, stale |-> FALSE, code |-> 0, reply |-> "none"]
<1>1. req' = [Others(T) EXCEPT ![r] = q] /\ q.op = "status" /\ q.reply = "none"
  BY DEF RenderAdmin
<1> HIDE DEF q
<1>2. req'[r] = q /\ \A u \in Requests : u # r => req'[u] = Others(T)[u]
  BY <1>1 DEF Others
<1>3. Follows(req[r], q, asked')
  BY <1>1 DEF Follows, UnderStep
<1> QED
  BY <1>2, <1>3, OthersFollow DEF RenderAdmin, ShowView

LEMMA EndedFollows ==
    ASSUME RequestsOK, NEW r \in Requests, Ended(r)
    PROVE  \A u \in Requests : Follows(req[u], req'[u], asked')
  BY SelfFollows DEF Ended, Idle, Follows, RequestsOK

\* A page that comes to show something without a form.
LEMMA PlainNoForm ==
    ASSUME tab \in [Tabs -> Pages], NEW T \in Tabs, NEW v, v # "password",
           tab' = [tab EXCEPT ![T] = Plain(v)]
    PROVE  NoNewForm
  BY DEF Plain, NoNewForm

\* Where phoneStep, codeStep or pwdStep shows its form.
LEMMA ShownWhere ==
    ASSUME tab \in [Tabs -> Pages], NEW T, NEW w, NEW form, ShowForm(T, w, form),
           NEW U \in Tabs
    PROVE  /\ tab'[U].wiz = tab[U].wiz
           /\ tab'[U].view = tab[U].view \/ (tab[U].wiz = w /\ tab'[U].view = form)
<1> DEFINE p == tab[U]
           b == <<w, form>>
<1>1. p \in Pages
  OBVIOUS
<1>2. tab'[U] = p \/ tab'[U] = IF p.wiz = w THEN [p EXCEPT !.view = form, !.button = b]
                               ELSE IF p.view \in Forms THEN [p EXCEPT !.button = b]
                               ELSE p
  BY DEF ShowForm
<1> HIDE DEF p, b
<1>3. /\ [p EXCEPT !.view = form, !.button = b].wiz = p.wiz
      /\ [p EXCEPT !.view = form, !.button = b].view = form
      /\ [p EXCEPT !.button = b].wiz = p.wiz
      /\ [p EXCEPT !.button = b].view = p.view
  BY <1>1 DEF Pages
<1>4. tab'[U].wiz = p.wiz /\ (tab'[U].view = p.view \/ (p.wiz = w /\ tab'[U].view = form))
  BY <1>2, <1>3
<1> QED
  BY <1>4 DEF p

\* "go": the request names the step its wizard names, if any.
LEMMA ClickGoGives ==
    ASSUME StepInv, GivenInv, NEW T \in Tabs, NEW r \in Requests, ClickGo(T, r)
    PROVE  GivenInv'
<1>1. /\ req \in [Requests -> Request] /\ TabsOK
      /\ \A u \in Requests : Claims(req[u], Used, Settled, asked, given)
  BY PageKnown DEF RequestsOK, GivenInv, ClaimsOK
<1>2. [Next]_vars
  BY DEF Next, InThePage
<1>3. Used \subseteq Used' /\ Settled \subseteq Settled'
  BY <1>2, SetsGrow
<1>4. asked' = asked /\ token' = token /\ given' = given /\ tab' = tab
  BY DEF ClickGo, page
<1> DEFINE w == tab[T].button[1]
           form == tab[T].button[2]
           op == CASE form = "phone" -> "sendCode"
                   [] form = "code" -> "signIn"
                   [] form = "password" -> "checkPassword"
           t == IF form = "phone" THEN NoToken ELSE token[w]
<1>5. w \in Wizards
  BY <1>1 DEF ClickGo, TabsOK, ButtonsOK
<1>6. t \in Tokens => t \in given[w]
  BY <1>5, NoneAssumption DEF GivenInv, WizardsOK
<1>7. Send(r, op, T, w, t)
  BY DEF ClickGo
<1> HIDE DEF w, form, op, t
<1> DEFINE q == [pc |-> "sent", op |-> op, tab |-> T, wiz |-> w, token |-> t,
                 stale |-> FALSE, code |-> 0, reply |-> "none"]
<1>8. /\ q.pc = "sent" /\ q.wiz = w /\ q.token = t /\ q.reply = "none"
      /\ req' = [req EXCEPT ![r] = q]
  BY <1>7 DEF Send
<1> HIDE DEF q
<1>9. req'[r] = q /\ \A u \in Requests : u # r => req'[u] = req[u]
  BY <1>1, <1>8
<1>10. Claims(q, Used', Settled', asked', given')
  BY <1>4, <1>6, <1>8 DEF Claims
<1>11. ClaimsOK'
  BY <1>1, <1>3, <1>4, <1>9, <1>10, SelfFollows, ClaimsFollow DEF ClaimsOK
<1>12. Distinct'
  BY <1>8, <1>9 DEF Distinct, GivenInv, Coming
<1>13. NoNewForm
  BY <1>4 DEF NoNewForm
<1> QED
  BY <1>2, <1>4, <1>11, <1>12, <1>13, WithoutGiving

\* codeStep: the wizard names the step it was given now; another one it may have shown a
\* password form for is still among those it was given.
LEMMA GotCodeGives ==
    ASSUME StepInv, GivenInv, NEW r \in Requests, GotCode(r)
    PROVE  GivenInv'
<1>1. /\ RequestsOK /\ TabsOK /\ RequestOK(req[r], asked) /\ req[r] \in Request
      /\ token \in [Wizards -> Tokens \cup {NoToken}] /\ given \in [Wizards -> SUBSET Tokens]
      /\ \A u \in Requests : Claims(req[u], Used, Settled, asked, given)
  BY PageKnown DEF GivenInv, ClaimsOK
<1>2. [Next]_vars
  BY DEF Next, InThePage
<1> DEFINE w == req[r].wiz
           t == req[r].token
<1>3. /\ asked' = asked /\ Ended(r) /\ ShowForm(req[r].tab, w, "code") /\ Coming(r)
      /\ token' = [token EXCEPT ![w] = t] /\ given' = [given EXCEPT ![w] = @ \cup {t}]
  BY DEF GotCode, Coming
<1>4. w \in Wizards /\ t \in Used /\ \A v \in Wizards : t \notin given[v]
  BY <1>1, <1>3 DEF Coming, RequestOK, Claims
<1>5. Used \subseteq Used' /\ Settled \subseteq Settled'
  BY <1>2, SetsGrow
<1> HIDE DEF w, t
<1>6. /\ given'[w] = given[w] \cup {t} /\ token'[w] = t
      /\ \A v \in Wizards : v # w => given'[v] = given[v] /\ token'[v] = token[v]
  BY <1>1, <1>3, <1>4
<1>7. IsFiniteSet(given'[w])
  BY <1>4, <1>6, FS_AddElement DEF GivenInv, WizardsOK
<1>8. WizardsOK'
  BY <1>4, <1>5, <1>6, <1>7 DEF GivenInv, WizardsOK
<1>9. req'[r] = Idle /\ \A u \in Requests : u # r => req'[u] = req[u]
  BY <1>1, <1>3 DEF Ended, RequestsOK
<1>10. \A u \in Requests : u # r /\ Coming(u) => req[u].token # t
  BY <1>3 DEF GivenInv, Distinct, t
<1>11. ASSUME NEW u \in Requests
       PROVE  Claims(req'[u], Used', Settled', asked', given')
  <2>1. CASE u = r
    BY <1>9, <2>1 DEF Claims, Idle
  <2>2. CASE u # r
    <3>1. Claims(req[u], Used, Settled, asked, given) /\ RequestOK(req[u], asked)
      BY <1>1 DEF RequestsOK
    <3>2. req[u].pc # "idle" /\ req[u].op \in UnderStep => req[u].wiz \in Wizards
      BY <3>1 DEF RequestOK, OfWizard
    <3> QED
      BY <1>3, <1>5, <1>6, <1>9, <1>10, <2>2, <3>1, <3>2 DEF Claims, Coming
  <2> QED
    BY <2>1, <2>2
<1>12. ClaimsOK'
  BY <1>11 DEF ClaimsOK
<1>13. Distinct'
  BY <1>9 DEF GivenInv, Distinct, Coming, Idle
<1>14. ASSUME NEW v \in Wizards, PasswordDue(v)
       PROVE  PasswordDue(v)'
  <2>1. CASE v # w
    BY <1>3, <1>5, <1>6, <1>14, <2>1 DEF PasswordDue
  <2>2. CASE v = w
    <3>1. PICK x \in given[w] : x \in asked
      BY <1>14, <2>2 DEF PasswordDue
    <3>2. x \in given'[w] /\ t \in given'[w] /\ x # t
      BY <1>4, <1>6, <3>1
    <3>3. Cardinality(given'[w]) > 1
      BY <1>7, <3>2, TwoTokens
    <3> QED
      BY <1>3, <2>2, <3>1, <3>2, <3>3 DEF PasswordDue
  <2> QED
    BY <2>1, <2>2
<1>15. \A T \in Tabs : /\ tab'[T].wiz = tab[T].wiz
                       /\ tab'[T].view = tab[T].view \/ tab'[T].view = "code"
  BY <1>1, <1>3, ShownWhere DEF TabsOK
<1>16. FormsOK'
  BY <1>14, <1>15 DEF GivenInv, FormsOK
<1> QED
  BY <1>8, <1>12, <1>13, <1>16 DEF GivenInv

\* pwdStep: Telegram has asked under the step of the request, which is settled; the wizard
\* names that one, or it was given two.
LEMMA GotPasswordGives ==
    ASSUME StepInv, GivenInv, NEW r \in Requests, GotPasswordNeeded(r)
    PROVE  GivenInv'
<1>1. /\ RequestsOK /\ TabsOK /\ RequestOK(req[r], asked) /\ req[r] \in Request
      /\ \A u \in Requests : Claims(req[u], Used, Settled, asked, given)
  BY PageKnown DEF GivenInv, ClaimsOK
<1>2. [Next]_vars
  BY DEF Next, InThePage
<1> DEFINE w == req[r].wiz
           t == req[r].token
<1>3. /\ asked' = asked /\ token' = token /\ given' = given /\ Ended(r)
      /\ ShowForm(req[r].tab, w, "password")
      /\ req[r].pc = "answered" /\ req[r].reply = "password"
  BY DEF GotPasswordNeeded
<1>4. w \in Wizards /\ t \in given[w] /\ t \in asked /\ t \in Settled
  BY <1>1, <1>3 DEF RequestOK, Claims
<1>5. ClaimsOK' /\ Distinct'
  BY <1>1, <1>2, <1>3, EndedFollows, FollowersKeep DEF ClaimsOK
<1>6. Used \subseteq Used' /\ Settled \subseteq Settled'
  BY <1>2, SetsGrow
<1> HIDE DEF w, t
<1>7. WizardsOK'
  BY <1>3, <1>6 DEF GivenInv, WizardsOK
<1>8. PasswordDue(w)
  <2>1. IsFiniteSet(given[w]) /\ token[w] \in given[w]
    BY <1>4 DEF GivenInv, WizardsOK
  <2>2. token[w] # t => Cardinality(given[w]) > 1
    BY <1>4, <2>1, TwoTokens
  <2> QED
    BY <1>4, <2>2 DEF PasswordDue
<1>9. \A v \in Wizards : PasswordDue(v) => PasswordDue(v)'
  BY <1>3, <1>6 DEF PasswordDue
<1>10. \A T \in Tabs : /\ tab'[T].wiz = tab[T].wiz
                       /\ tab'[T].view = tab[T].view \/ tab[T].wiz = w
  BY <1>1, <1>3, ShownWhere DEF TabsOK
<1>11. FormsOK'
  BY <1>4, <1>8, <1>9, <1>10 DEF GivenInv, FormsOK
<1> QED
  BY <1>5, <1>7, <1>11 DEF GivenInv

\* renderAdmin: the new wizard takes the place of one that no page and no request refers to.
LEMMA GotStatusGives ==
    ASSUME StepInv, GivenInv, NEW r \in Requests, GotStatus(r)
    PROVE  GivenInv'
<1>1. /\ RequestsOK /\ TabsOK /\ req[r] \in Request
      /\ token \in [Wizards -> Tokens \cup {NoToken}] /\ given \in [Wizards -> SUBSET Tokens]
  BY PageKnown
<1>2. [Next]_vars
  BY DEF Next, InThePage
<1>3. asked' = asked /\ Ended(r) /\ req[r].pc = "answered"
  BY DEF GotStatus
<1>4. PICK T \in Tabs : T = req[r].tab
  BY <1>1, <1>3, RunningShape
<1>5. \A u \in Requests : Follows(req[u], req'[u], asked')
  BY <1>1, <1>3, EndedFollows
<1>6. ASSUME NEW v \in {"notice", "account"}, ShowView(T, v), token' = token, given' = given
      PROVE  GivenInv'
  <2>1. NoNewForm
    BY <1>1, <1>6, PlainNoForm DEF TabsOK, ShowView
  <2> QED
    BY <1>2, <1>5, <1>6, <2>1, AllFollow
<1>7. CASE UNCHANGED page
  BY <1>2, <1>5, <1>7, AllFollow DEF page, NoNewForm
<1>8. ASSUME NEW w \in Wizards, Unused(w),
             tab' = [tab EXCEPT ![T] = [view |-> "phone", wiz |-> w, button |-> <<w, "phone">>]],
             token' = [token EXCEPT ![w] = NoToken], given' = [given EXCEPT ![w] = {}]
      PROVE  GivenInv'
  <2>1. Used \subseteq Used' /\ Settled \subseteq Settled'
    BY <1>2, SetsGrow
  <2>2. /\ given'[w] = {} /\ token'[w] = NoToken
        /\ \A v \in Wizards : v # w => given'[v] = given[v] /\ token'[v] = token[v]
    BY <1>1, <1>8
  <2>3. WizardsOK'
    BY <2>1, <2>2, FS_EmptySet DEF GivenInv, WizardsOK
  <2>4. Distinct' /\ \A u \in Requests : Claims(req'[u], Used', Settled', asked', given)
    BY <1>2, <1>5, FollowersKeep
  <2>5. ASSUME NEW u \in Requests
        PROVE  Claims(req'[u], Used', Settled', asked', given')
    <3>1. CASE u = r
      BY <1>1, <1>3, <3>1 DEF Ended, Claims, Idle, RequestsOK
    <3>2. CASE u # r
      <4>1. req'[u] = req[u]
        BY <1>1, <1>3, <3>2 DEF Ended, RequestsOK
      <4>2. req[u].pc # "idle" /\ req[u].op \in UnderStep => req[u].wiz \in Wizards /\ req[u].wiz # w
        BY <1>1, <1>8 DEF RequestsOK, RequestOK, OfWizard, Unused
      <4> QED
        BY <2>2, <2>4, <4>1, <4>2 DEF Claims
    <3> QED
      BY <3>1, <3>2
  <2>6. \A v \in Wizards : v # w /\ PasswordDue(v) => PasswordDue(v)'
    BY <1>3, <2>1, <2>2 DEF PasswordDue
  <2>7. \A U \in Tabs : tab'[U].view = "password" => tab'[U] = tab[U] /\ tab[U].wiz # w
    BY <1>1, <1>8 DEF TabsOK, Unused
  <2>8. FormsOK'
    BY <2>6, <2>7 DEF GivenInv, FormsOK
  <2>9. ClaimsOK'
    BY <2>5 DEF ClaimsOK
  <2> QED
    BY <2>3, <2>4, <2>8, <2>9 DEF GivenInv
<1> QED
  BY <1>4, <1>6, <1>7, <1>8 DEF GotStatus, page

LEMMA InitGives == Init => GivenInv
<1> SUFFICES ASSUME Init
             PROVE  GivenInv
  OBVIOUS
<1>1. \A r \in Requests : req[r].pc = "idle"
  BY DEF Init, Idle
<1>2. ClaimsOK /\ Distinct
  BY <1>1 DEF ClaimsOK, Claims, Distinct, Coming
<1>3. WizardsOK
  BY FS_EmptySet DEF Init, WizardsOK
<1>4. \A T \in Tabs : tab[T].view = "other"
  BY DEF Init
<1> QED
  BY <1>2, <1>3, <1>4 DEF GivenInv, FormsOK

\* One step per action.
LEMMA NextGives == StepInv /\ GivenInv /\ [Next]_vars => GivenInv'
<1> SUFFICES ASSUME StepInv, GivenInv, [Next]_vars
             PROVE  GivenInv'
  OBVIOUS
<1>1. RequestsOK /\ tab \in [Tabs -> Pages]
  BY PageKnown DEF TabsOK
<1>2. ASSUME NEW r \in Requests, InTheBroker(r)
      PROVE  GivenInv'
  <2>1. UNCHANGED page
    BY <1>2, BrokerLeaves
  <2>2. CASE ~CodeSent(r) /\ (StepAnswered(r) => req[r].reply # "password")
    <3>1. \A u \in Requests : Follows(req[u], req'[u], asked')
      BY <1>2, <2>2, BrokerFollows DEF GivenInv
    <3> QED
      BY <2>1, <3>1, AllFollow DEF page, NoNewForm
  <2> QED
    BY <2>2, CodeSentGives, PasswordAnswered
<1>3. ASSUME NEW r \in Requests, InThePage(r)
      PROVE  GivenInv'
  <2>1. ASSUME NEW T \in Tabs, RenderAdmin(T, r), token' = token, given' = given
        PROVE  GivenInv'
    <3>1. NoNewForm /\ \A u \in Requests : Follows(req[u], req'[u], asked')
      BY <1>1, <2>1, RenderFollows, PlainNoForm
    <3> QED
      BY <2>1, <3>1, AllFollow
  <2>2. ASSUME NEW T \in Tabs, ClickLogout(T, r)
        PROVE  GivenInv'
    <3> DEFINE q == [pc |-> "sent", op |-> "logout", tab |-> T, wiz |-> NoWizard,
                     token |-> NoToken, stale |-> FALSE, code |-> 0, reply |-> "none"]
    <3>1. req' = [req EXCEPT ![r] = q] /\ q.op = "logout" /\ q.reply = "none"
      BY <2>2 DEF ClickLogout, Send
    <3> HIDE DEF q
    <3>2. Follows(req[r], q, asked')
      BY <3>1 DEF Follows, UnderStep
    <3>3. \A u \in Requests : Follows(req[u], req'[u], asked')
      BY <1>1, <3>1, <3>2, SelfFollows DEF RequestsOK
    <3> QED
      BY <2>2, <3>3, AllFollow DEF ClickLogout, page, NoNewForm
  <2>3. CASE GotDone(r)
    BY <1>1, <2>1, <2>3, RunningShape DEF GotDone, RequestsOK
  <2> QED
    BY <1>3, <2>1, <2>2, <2>3, ClickGoGives, GotStatusGives, GotCodeGives, GotPasswordGives
    DEF InThePage, OpenAdmin
<1>4. ASSUME NEW T \in Tabs, Leave(T)
      PROVE  GivenInv'
  <2>1. \A u \in Requests : Follows(req[u], req'[u], asked')
    BY <1>1, <1>4, OthersFollow DEF Leave
  <2>2. NoNewForm
    BY <1>1, <1>4, PlainNoForm DEF Leave, ShowView
  <2> QED
    BY <1>4, <2>1, <2>2, AllFollow DEF Leave
<1>5. CASE Connect \/ Tick \/ UNCHANGED vars
  <2>1. req' = req /\ tab' = tab /\ token' = token /\ given' = given
    BY <1>5 DEF Connect, Tick, vars, page
  <2> QED
    BY <2>1, SelfFollows, AllFollow DEF NoNewForm
<1>6. CASE Restart
  <2>1. ASSUME NEW u \in Requests
        PROVE  Follows(req[u], req'[u], asked')
    <3>1. req'[u] = IF req[u].pc \in InBroker THEN Failed(req[u], "error") ELSE req[u]
      BY <1>6, <2>1 DEF Restart
    <3>2. req[u].pc \in InBroker => req[u] \in Running
      BY <1>1, <2>1, RunningShape DEF RequestsOK, InBroker
    <3> QED
      BY <3>1, <3>2, SelfFollows, FailedFollows
  <2> QED
    BY <1>6, <2>1, AllFollow DEF Restart, page, NoNewForm
<1> QED
  BY <1>2, <1>3, <1>4, <1>5, <1>6 DEF Next

\* Whichever codes were asked for, typed twice or answered late, a page asks its user for
\* a password only in a wizard under one of whose steps Telegram has asked for one.
THEOREM FormsOwn == Spec => []PasswordFormOwn
<1>1. GivenInv => PasswordFormOwn
  BY DEF GivenInv, FormsOK, PasswordDue, PasswordFormOwn
<1> QED
  BY <1>1, InitGives, NextGives, Invariance, PTL DEF Spec

\* The password goes on under the same step (auth.go 65-66) as long as the wizard was
\* given one code: the step its password form will name is waiting for the password, or
\* is dead.  A second code breaks this: the form then names the newer step, which is
\* alive, waits for no password and refuses it (auth.go 92-103, app.js 271).
OneCode(w) == Cardinality(given[w]) <= 1

SameStep ==
    \A T \in Tabs : tab[T].view = "password" /\ OneCode(tab[T].wiz) =>
        LET t == token[tab[T].wiz] IN t \in asked /\ (step[t].needs \/ Dead(t))

THEOREM PasswordsShown == Spec => []SameStep
<1>1. GivenInv => SameStep
  <2> SUFFICES ASSUME GivenInv, NEW T \in Tabs, tab[T].view = "password",
                      OneCode(tab[T].wiz)
               PROVE  LET t == token[tab[T].wiz] IN t \in asked /\ (step[t].needs \/ Dead(t))
    BY DEF SameStep
  <2> DEFINE w == tab[T].wiz
  <2>1. w \in Wizards /\ PasswordDue(w)
    BY DEF GivenInv, FormsOK
  <2>2. IsFiniteSet(given[w]) /\ given[w] \subseteq Used
    BY <2>1 DEF GivenInv, WizardsOK
  <2>3. PICK x \in given[w] : x \in asked
    BY <2>1 DEF PasswordDue
  <2>4. token[w] \in given[w]
    BY <2>1, <2>3 DEF GivenInv, WizardsOK
  <2>5. Cardinality(given[w]) \in Nat /\ ~(Cardinality(given[w]) > 1)
    BY <2>2, FS_CardinalityType DEF OneCode
  <2>6. token[w] = x
    BY <2>2, <2>3, <2>4, <2>5, TwoTokens
  <2>7. token[w] \in Settled
    BY <2>1, <2>5 DEF PasswordDue
  <2> QED
    BY <2>3, <2>6, <2>7 DEF Settled
<1> QED
  BY <1>1, InitGives, NextGives, Invariance, PTL DEF Spec
=============================================================================
