----------------------------- MODULE LoginSteps ------------------------------
(***************************************************************************)
(* Logging the broker in to Telegram from the web page.  The wizard of the *)
(* admin page (src/internal/httpserver/web/app.js) sends its requests      *)
(* through the backend (httpserver/admin.go, brokerclient/client.go) to    *)
(* the broker (broker/server.go, auth.go), which keeps a login step per    *)
(* code sent (broker/steps.go) and asks Telegram.                          *)
(*                                                                         *)
(* Telegram is external: it accepts the newest code, may ask for a         *)
(* password, and its answer may be lost after it has acted.  The gate's    *)
(* slots (Passthrough) and the page's own session (Login) are left out.    *)
(***************************************************************************)
EXTENDS Naturals, FiniteSets

CONSTANTS
    Tabs,           \* pages open in a browser
    Wizards,        \* calls of adminWizard whose variables are still alive
    Requests,       \* requests under way at a time
    Tokens,         \* step tokens: a bound on the codes sent successfully
    NoToken,        \* the empty stepToken of a new wizard
    NoWizard,       \* the page shows no wizard
    TTL,            \* argument of newStepStore
    MaxClock,       \* bound on the clock
    MaxCodes        \* bound on the codes Telegram sends

ASSUME NoneAssumption == NoToken \notin Tokens /\ NoWizard \notin Wizards
ASSUME TimeAssumption == TTL \in Nat /\ MaxClock \in Nat /\ MaxCodes \in Nat

VARIABLES
    now,        \* the clock of the step store
    setup,      \* how the installation is configured, which never changes
    ready,      \* is the broker connected?
    telegram,   \* what Telegram thinks of the account
    step,       \* the step store's items
    req,        \* requests
    tab,        \* what each page shows
    token,      \* stepToken of each wizard
    given,      \* tokens each wizard was given (history)
    asked       \* steps under which Telegram asked for a password (history)

page == <<tab, token, given>>
broker == <<ready, step>>
vars == <<now, setup, ready, telegram, step, req, tab, token, given, asked>>

-----------------------------------------------------------------------------
(* Shapes.                                                                 *)

Forms == {"phone", "code", "password"}
Views == {"other", "loading", "notice", "account"} \cup Forms

\* wiz is the wizard the page shows, button the one whose handler the button
\* "go" of the page has, and the form that handler belongs to.
Pages == [view : Views, wiz : Wizards \cup {NoWizard},
          button : (Wizards \cup {NoWizard}) \X Forms]

UnderStep == {"signIn", "checkPassword"}
Operations == {"status", "sendCode", "logout"} \cup UnderStep

\* What comes back to the page: the request failed, 503, 502, or success.
Replies == {"none", "network", "unavailable", "error",
            "sent", "password", "done", "in", "out"}

InBroker == {"sent", "found", "admitted", "called"}

\* wiz is the wizard that waits for the answer; stale: gen # nav.
Idle == [pc |-> "idle"]
Running == [pc : InBroker \cup {"answered"}, op : Operations, tab : Tabs,
            wiz : Wizards \cup {NoWizard}, token : Tokens \cup {NoToken},
            stale : BOOLEAN, code : 0 .. MaxCodes, reply : Replies]

\* A step is kept while the map has it; the record outlives its entry, since
\* handlers hold pointers to it.
Steps == [phase : {"fresh", "kept", "dropped"}, needs : BOOLEAN,
          code : 0 .. MaxCodes, expires : Nat]

Init ==
    /\ now = 0
    /\ setup \in [broker : {"none", "denied", "ok"}, twoFactor : BOOLEAN]
    /\ ready = FALSE
    /\ telegram = [authorized |-> FALSE, code |-> 0, pending |-> FALSE]
    /\ step = [t \in Tokens |-> [phase |-> "fresh", needs |-> FALSE, code |-> 0, expires |-> 0]]
    /\ req = [r \in Requests |-> Idle]
    /\ tab = [T \in Tabs |-> [view |-> "other", wiz |-> NoWizard, button |-> <<NoWizard, "phone">>]]
    /\ token = [w \in Wizards |-> NoToken]
    /\ given = [w \in Wizards |-> {}]
    /\ asked = {}

-----------------------------------------------------------------------------
(* The step store.                                                         *)

Expired(t) == now > step[t].expires
Live(t) == t \in Tokens /\ step[t].phase = "kept" /\ ~Expired(t)

\* What is left of an entry that was deleted.
Dropped(s) == [s EXCEPT !.phase = "dropped", !.expires = 0]

Drop(t) == step' = [step EXCEPT ![t] = Dropped(@)]

\* create, under a random token nobody has had before.
Create(t, code) ==
    /\ step[t].phase = "fresh"
    /\ step' = [step EXCEPT ![t] =
                  [phase |-> "kept", needs |-> FALSE, code |-> code, expires |-> now + TTL]]

\* Mutation: a step that is no longer there, or has expired, is put back.
UpdateNeeds_PutsBack(t) ==
    step' = [step EXCEPT ![t].phase = "kept", ![t].needs = TRUE, ![t].expires = now + TTL]

\* update, called by SignIn to set NeedsPassword.
UpdateNeeds(t) ==
    step' = [step EXCEPT ![t] = IF Live(t) THEN [@ EXCEPT !.needs = TRUE, !.expires = now + TTL]
                                ELSE Dropped(@)]

-----------------------------------------------------------------------------
(* Requests on their way to Telegram.                                      *)

\* The page's request: the backend's handler of the operation decodes it and hands it
\* on to the broker's.
Send(r, op, T, w, t) ==
    req' = [req EXCEPT ![r] = [pc |-> "sent", op |-> op, tab |-> T, wiz |-> w, token |-> t,
                               stale |-> FALSE, code |-> 0, reply |-> "none"]]

Reply(r, reply) ==
    req' = [req EXCEPT ![r].pc = "answered", ![r].reply = reply, ![r].code = 0]

\* An answer of failure: the wizard only shows its text, so that no more than the
\* end of the request is left of it; what renderAdmin does with it comes later.
Failed(q, reply) ==
    IF q.op = "status" THEN [q EXCEPT !.pc = "answered", !.reply = reply] ELSE Idle

Fail(r, reply) == req' = [req EXCEPT ![r] = Failed(@, reply)]

\* Any error of the broker, whatever its status, is a 502 of the backend.
Refuse(r) == Fail(r, "error")

\* The backend has no broker, or the two have different secrets.
NotServed(r) ==
    /\ req[r].pc = "sent"
    /\ setup.broker # "ok"
    /\ IF setup.broker = "none" THEN Fail(r, "unavailable") ELSE Refuse(r)
    /\ UNCHANGED <<now, setup, broker, telegram, page, asked>>

\* handleStatus, handleSendCode and handleLogout go on to Telegram.
Forward(r) ==
    /\ req[r].pc = "sent"
    /\ setup.broker = "ok"
    /\ req[r].op \notin UnderStep
    /\ req' = [req EXCEPT ![r].pc = "admitted"]
    /\ UNCHANGED <<now, setup, broker, telegram, page, asked>>

\* SignIn and CheckPassword get their step, which is dropped if it has expired.
GetStep(r) ==
    LET t == req[r].token IN
    /\ req[r].pc = "sent"
    /\ setup.broker = "ok"
    /\ req[r].op \in UnderStep
    /\ IF Live(t)
       THEN /\ req' = [req EXCEPT ![r].pc = IF req[r].op = "signIn" THEN "admitted" ELSE "found"]
            /\ UNCHANGED step
       ELSE Refuse(r) /\ Drop(t)
    /\ UNCHANGED <<now, setup, ready, telegram, page, asked>>

\* Mutation: CheckPassword does not look whether a password is needed.
CheckNeeds_Never(r) ==
    /\ req[r].pc = "found"
    /\ req' = [req EXCEPT ![r].pc = "admitted"]
    /\ UNCHANGED <<now, setup, broker, telegram, page, asked>>

\* CheckPassword reads NeedsPassword through its pointer, without the lock.
CheckNeeds(r) ==
    /\ req[r].pc = "found"
    /\ IF step[req[r].token].needs
       THEN req' = [req EXCEPT ![r].pc = "admitted"]
       ELSE Refuse(r)
    /\ UNCHANGED <<now, setup, broker, telegram, page, asked>>

-----------------------------------------------------------------------------
(* Telegram acts on a call; code holds the new code's number.              *)

Called(r, reply, code) ==
    req' = [req EXCEPT ![r].pc = "called", ![r].reply = reply, ![r].code = code]

InCall(r, op) == req[r].pc = "admitted" /\ req[r].op = op /\ ready

TelegramStatus(r) ==
    /\ InCall(r, "status")
    /\ Called(r, IF telegram.authorized THEN "in" ELSE "out", 0)
    /\ UNCHANGED <<now, setup, broker, telegram, page, asked>>

TelegramSendsCode(r) ==
    /\ InCall(r, "sendCode")
    /\ telegram.code < MaxCodes
    /\ telegram' = [telegram EXCEPT !.code = @ + 1]
    /\ Called(r, "sent", telegram.code + 1)
    /\ UNCHANGED <<now, setup, broker, page, asked>>

\* The user typed the right code, and it is the newest.
TelegramSignsIn(r) ==
    /\ InCall(r, "signIn")
    /\ step[req[r].token].code = telegram.code
    /\ IF setup.twoFactor
       THEN /\ telegram' = [telegram EXCEPT !.pending = TRUE]
            /\ asked' = asked \cup {req[r].token}
            /\ Called(r, "password", 0)
       ELSE /\ telegram' = [telegram EXCEPT !.authorized = TRUE]
            /\ Called(r, "done", 0)
            /\ UNCHANGED asked
    /\ UNCHANGED <<now, setup, broker, page>>

TelegramChecksPassword(r) ==
    /\ InCall(r, "checkPassword")
    /\ telegram.pending
    /\ telegram' = [telegram EXCEPT !.authorized = TRUE, !.pending = FALSE]
    /\ Called(r, "done", 0)
    /\ UNCHANGED <<now, setup, broker, page, asked>>

TelegramLogsOut(r) ==
    /\ InCall(r, "logout")
    /\ telegram.authorized
    /\ telegram' = [telegram EXCEPT !.authorized = FALSE]
    /\ Called(r, "done", 0)
    /\ UNCHANGED <<now, setup, broker, page, asked>>

TelegramActs(r) ==
    \/ TelegramStatus(r)
    \/ TelegramSendsCode(r)
    \/ TelegramSignsIn(r)
    \/ TelegramChecksPassword(r)
    \/ TelegramLogsOut(r)

-----------------------------------------------------------------------------
(* The broker has Telegram's answer.                                       *)

\* Mutation: the step token is not in the answer.
CodeSent_NoToken(r) ==
    /\ req[r].pc = "called" /\ req[r].op = "sendCode"
    /\ \E t \in Tokens : Create(t, req[r].code)
    /\ req' = [req EXCEPT ![r].pc = "answered", ![r].code = 0]
    /\ UNCHANGED <<now, setup, ready, telegram, page, asked>>

\* SendCode stores the step; the page will get its token.
CodeSent(r) ==
    /\ req[r].pc = "called" /\ req[r].op = "sendCode"
    /\ \E t \in Tokens :
          /\ Create(t, req[r].code)
          /\ req' = [req EXCEPT ![r].pc = "answered", ![r].token = t, ![r].code = 0]
    /\ UNCHANGED <<now, setup, ready, telegram, page, asked>>

\* SignIn and CheckPassword are through with their step, or SignIn keeps it for
\* the password: what update returns is ignored.
StepAnswered(r) ==
    /\ req[r].pc = "called" /\ req[r].op \in UnderStep
    /\ IF req[r].reply = "password" THEN UpdateNeeds(req[r].token) ELSE Drop(req[r].token)
    /\ Reply(r, req[r].reply)
    /\ UNCHANGED <<now, setup, ready, telegram, page, asked>>

\* Status passes the answer on; so does Logout, unless the session file cannot be
\* removed.
Passed(r) ==
    /\ req[r].pc = "called" /\ req[r].op \in {"status", "logout"}
    /\ \/ Reply(r, req[r].reply)
       \/ req[r].op = "logout" /\ Refuse(r)
    /\ UNCHANGED <<now, setup, broker, telegram, page, asked>>

\* Telegram or the broker refuses the call, or a connection breaks, of the page or
\* behind the backend: the calls behind it are cancelled, whether Telegram has acted
\* or not, or only the answer is lost.
CallFails(r) ==
    /\ req[r].pc \in InBroker \cup {"answered"}
    /\ req[r].reply # "network"
    /\ \/ Fail(r, "network")
       \/ setup.broker # "none" /\ req[r].pc \in InBroker /\ Refuse(r)
    /\ UNCHANGED <<now, setup, broker, telegram, page, asked>>

Connect ==
    /\ ~ready
    /\ ready' = TRUE
    /\ UNCHANGED <<now, setup, telegram, step, req, page, asked>>

\* The broker stops and starts again: the steps were in its memory only.
Restart ==
    /\ setup.broker = "ok"
    /\ ready
    /\ ready' = FALSE
    /\ step' = [t \in Tokens |-> IF step[t].phase = "kept" THEN Dropped(step[t]) ELSE step[t]]
    /\ req' = [r \in Requests |-> IF req[r].pc \in InBroker
                                  THEN Failed(req[r], "error") ELSE req[r]]
    /\ UNCHANGED <<now, setup, telegram, page, asked>>

Tick ==
    /\ now < MaxClock
    /\ now' = now + 1
    /\ UNCHANGED <<setup, broker, telegram, req, page, asked>>

-----------------------------------------------------------------------------
(* The page.  Leaving or rendering it anew increments nav, which makes the *)
(* requests of renderAdmin stale; nothing else compares it.                *)

Others(T) == [r \in Requests |-> IF req[r].pc # "idle" /\ req[r].op = "status" /\ req[r].tab = T
                                 THEN [req[r] EXCEPT !.stale = TRUE] ELSE req[r]]

\* A page without a form.
Plain(view) == [view |-> view, wiz |-> NoWizard, button |-> <<NoWizard, "phone">>]
ShowView(T, view) == tab' = [tab EXCEPT ![T] = Plain(view)]

\* renderAdmin up to its request.
RenderAdmin(T, r) ==
    /\ ShowView(T, "loading")
    /\ req' = [Others(T) EXCEPT ![r] =
                 [pc |-> "sent", op |-> "status", tab |-> T, wiz |-> NoWizard,
                  token |-> NoToken, stale |-> FALSE, code |-> 0, reply |-> "none"]]

\* The user comes to the admin page, or goes to another one.
OpenAdmin(T, r) ==
    /\ tab[T].view = "other"
    /\ req[r].pc = "idle"
    /\ RenderAdmin(T, r)
    /\ UNCHANGED <<now, setup, broker, telegram, token, given, asked>>

Leave(T) ==
    /\ tab[T].view # "other"
    /\ ShowView(T, "other")
    /\ req' = Others(T)
    /\ UNCHANGED <<now, setup, broker, telegram, token, given, asked>>

\* The user presses "go": its handler finds no input unless the form is its own.
ClickGo(T, r) ==
    LET w    == tab[T].button[1]
        form == tab[T].button[2]
    IN
    /\ tab[T].view \in Forms
    /\ form = tab[T].view
    /\ req[r].pc = "idle"
    /\ Send(r, CASE form = "phone" -> "sendCode"
                 [] form = "code" -> "signIn"
                 [] form = "password" -> "checkPassword",
            T, w, IF form = "phone" THEN NoToken ELSE token[w])
    /\ UNCHANGED <<now, setup, broker, telegram, page, asked>>

ClickLogout(T, r) ==
    /\ tab[T].view = "account"
    /\ req[r].pc = "idle"
    /\ Send(r, "logout", T, NoWizard, NoToken)
    /\ UNCHANGED <<now, setup, broker, telegram, page, asked>>

\* A wizard whose variables nobody can reach any more makes room for another.
Unused(w) ==
    /\ \A T \in Tabs : tab[T].wiz # w /\ tab[T].button[1] # w
    /\ \A r \in Requests : req[r].pc # "idle" => req[r].wiz # w

\* Mutation: the element "aw" is looked up in the page instead of kept.
ShowForm_Anyone(T, w, form) ==
    tab' = [tab EXCEPT ![T] = IF @.wiz # NoWizard
                              THEN [@ EXCEPT !.view = form, !.button = <<w, form>>] ELSE @]

\* phoneStep, codeStep or pwdStep of wizard w: what it writes is seen if the page
\* shows w, but the button it takes is the one of the page now shown.
ShowForm(T, w, form) ==
    tab' = [tab EXCEPT ![T] =
              IF @.wiz = w THEN [@ EXCEPT !.view = form, !.button = <<w, form>>]
              ELSE IF @.view \in Forms THEN [@ EXCEPT !.button = <<w, form>>]
              ELSE @]

Ended(r) == req' = [req EXCEPT ![r] = Idle]

\* Mutation: renderAdmin does not look whether it is still wanted.
Wanted_Always(r) == TRUE

Wanted(r) == ~req[r].stale

\* renderAdmin with the answer; without one, or with a 503, it writes to the page
\* whichever that is.  A 502 has no logged_in, which counts as logged out.
GotStatus(r) ==
    LET T == req[r].tab IN
    /\ req[r].pc = "answered" /\ req[r].op = "status"
    /\ \/ /\ req[r].reply \in {"network", "unavailable"}
          /\ ShowView(T, "notice")
          /\ UNCHANGED <<token, given>>
       \/ /\ req[r].reply \in {"in", "out", "error"}
          /\ ~Wanted(r)
          /\ UNCHANGED page
       \/ /\ req[r].reply = "in"
          /\ Wanted(r)
          /\ ShowView(T, "account")
          /\ UNCHANGED <<token, given>>
       \/ /\ req[r].reply \in {"out", "error"}
          /\ Wanted(r)
          /\ \E w \in Wizards :
                /\ Unused(w)
                /\ tab' = [tab EXCEPT ![T] =
                             [view |-> "phone", wiz |-> w, button |-> <<w, "phone">>]]
                /\ token' = [token EXCEPT ![w] = NoToken]
                /\ given' = [given EXCEPT ![w] = {}]
    /\ Ended(r)
    /\ UNCHANGED <<now, setup, broker, telegram, asked>>

GotCode(r) ==
    LET w == req[r].wiz IN
    /\ req[r].pc = "answered" /\ req[r].reply = "sent"
    /\ token' = [token EXCEPT ![w] = req[r].token]
    /\ given' = [given EXCEPT ![w] = @ \cup {req[r].token}]
    /\ ShowForm(req[r].tab, w, "code")
    /\ Ended(r)
    /\ UNCHANGED <<now, setup, broker, telegram, asked>>

GotPasswordNeeded(r) ==
    /\ req[r].pc = "answered" /\ req[r].reply = "password"
    /\ ShowForm(req[r].tab, req[r].wiz, "password")
    /\ Ended(r)
    /\ UNCHANGED <<now, setup, broker, telegram, token, given, asked>>

\* Logged in or out: the admin page is rendered anew, wherever the user is.
GotDone(r) ==
    /\ req[r].pc = "answered" /\ req[r].reply = "done"
    /\ RenderAdmin(req[r].tab, r)
    /\ UNCHANGED <<now, setup, broker, telegram, token, given, asked>>

-----------------------------------------------------------------------------

InTheBroker(r) ==
    \/ NotServed(r) \/ Forward(r) \/ GetStep(r) \/ CheckNeeds(r)
    \/ TelegramActs(r)
    \/ CodeSent(r) \/ StepAnswered(r) \/ Passed(r) \/ CallFails(r)

InThePage(r) ==
    \/ \E T \in Tabs : OpenAdmin(T, r) \/ ClickGo(T, r) \/ ClickLogout(T, r)
    \/ GotStatus(r) \/ GotCode(r) \/ GotPasswordNeeded(r) \/ GotDone(r)

Next ==
    \/ \E r \in Requests : InTheBroker(r) \/ InThePage(r)
    \/ \E T \in Tabs : Leave(T)
    \/ Connect
    \/ Restart
    \/ Tick

Spec == Init /\ [][Next]_vars

-----------------------------------------------------------------------------
(* Properties.                                                             *)

TypeOK ==
    /\ now \in 0 .. MaxClock
    /\ setup \in [broker : {"none", "denied", "ok"}, twoFactor : BOOLEAN]
    /\ ready \in BOOLEAN
    /\ telegram \in [authorized : BOOLEAN, code : 0 .. MaxCodes, pending : BOOLEAN]
    /\ step \in [Tokens -> Steps]
    /\ req \in [Requests -> {Idle} \cup Running]
    /\ tab \in [Tabs -> Pages]
    /\ token \in [Wizards -> Tokens \cup {NoToken}]
    /\ given \in [Wizards -> SUBSET Tokens]
    /\ asked \subseteq Tokens

Dead(t) == step[t].phase = "dropped" \/ (step[t].phase = "kept" /\ Expired(t))

\* A step that was finished, lost or has expired is never usable again, whichever
\* answers are still under way for it (steps.go 48-80, auth.go 67-109).
StepsStayDead == [][\A t \in Tokens : Dead(t) => Dead(t)']_vars

\* A password goes to Telegram only under a step for which Telegram has asked for
\* one, over double clicks, restarts and answers out of order (auth.go 92-103).
PasswordAsked ==
    \A r \in Requests :
        req[r].pc \in {"admitted", "called"} /\ req[r].op = "checkPassword" =>
            req[r].token \in asked

\* A page asks its user for the password only in a wizard under one of whose own steps
\* Telegram has asked for one, whatever wizard of an earlier page is answered meanwhile
\* (app.js 243-310).  Which of its steps the form will name is another matter: after a
\* second code it may be one that refuses the password (see the proofs, PasswordsShown).
PasswordFormOwn ==
    \A T \in Tabs : tab[T].view = "password" => given[tab[T].wiz] \cap asked # {}

\* The wizard a page shows is not replaced by another one, and its page not by the
\* account page, unless the admin page was rendered anew in between: late answers
\* of earlier pages do not take its state away (app.js 213-228).
WizardKept ==
    [][\A T \in Tabs : tab[T].wiz # NoWizard =>
          /\ tab'[T].wiz \in {tab[T].wiz, NoWizard}
          /\ tab'[T].view # "account"]_vars
=============================================================================
