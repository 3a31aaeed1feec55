------------------------------ MODULE Playback -------------------------------
(***************************************************************************)
(* Playing a recording, from the page that is opened to the bytes that are *)
(* served: the page's chain of calls (src/internal/httpserver/web/app.js), *)
(* the handlers behind it (httpserver/play.go, catalog.go), the signed URL *)
(* (auth/playurl.go), and the cached file as long as it lasts.             *)
(*                                                                         *)
(* The preparer is PrepContract, which MediaPrep implements.  Of the cache *)
(* there is what a viewer can tell: a file put in may cost others theirs,  *)
(* once they are out of their window (MediaCache has the rest).            *)
(***************************************************************************)
EXTENDS Integers

CONSTANTS
    Tokens,         \* recordings
    Tabs,           \* pages
    Chains,         \* calls of renderPlay that have not come to their end
    Setups,         \* how recordings are played, and is there a preparer?
    TTL,            \* argument of NewPlayURLSigner
    Window,         \* ttl of the cache
    MaxClock        \* bound on the clock

ASSUME TimeAssumption == TTL \in Nat /\ Window \in Nat /\ MaxClock \in Nat
ASSUME SetupsAssumption ==
    Setups \subseteq [mode : [Tokens -> {"passthrough", "cold"}], preparer : BOOLEAN]

VARIABLES
    now,        \* the clock
    setup,      \* one of Setups: nothing is synchronized meanwhile
    attempts,   \* tokens being prepared
    status,     \* cache_state of each row
    published,  \* tokens whose file has been stored at some time
    file,       \* the cached files
    tab,        \* what each page shows
    chain       \* what each chain of calls waits for

prep == <<attempts, status, published>>
vars == <<now, setup, attempts, status, published, file, tab, chain>>

Prep == INSTANCE PrepContract

-----------------------------------------------------------------------------
(* Shapes.                                                                 *)

\* stored is the last access the cache knows of, since nothing looks files up; a
\* file that is not indexed is not known to this process.
Files == [here : BOOLEAN, indexed : BOOLEAN, stored : Int]

\* The page shows a recording's player, or a message where it would be; url is
\* what its video plays, about the recording its notice is about.
Signed == [token : Tokens, exp : Int]
Away == [view |-> "away"]
Loading == [view : {"loading", "message"}, token : Tokens]
Players == [view : {"player"}, token : Tokens, url : Signed, notice : {"ready"}]
Waiting == [view : {"player"}, token : Tokens, notice : {"none", "wait", "failed", "error"},
            about : Tokens]

\* "media", "url" and "status" wait for the server, "prepare" is inside it, "timer"
\* for the next poll; the others have an answer.  stale: gen # nav.
Idle == [pc |-> "idle"]
Stages == {"media", "url", "prepare", "accepted", "signed", "urlError",
           "timer", "status", "polled"}
Running == [pc : Stages, tab : Tabs, token : Tokens, stale : BOOLEAN, exp : Int,
            state : {"none", "preparing", "ready", "failed"}]

Init ==
    /\ now = 0
    /\ setup \in Setups
    /\ Prep!Init
    /\ file = [t \in Tokens |-> [here |-> FALSE, indexed |-> FALSE, stored |-> 0]]
    /\ tab = [T \in Tabs |-> Away]
    /\ chain = [k \in Chains |-> Idle]

-----------------------------------------------------------------------------
(* Preparation and the cache.                                              *)

\* Mutation: the window ends a moment early.
Evictable_Early(t) == file[t].indexed /\ now - file[t].stored >= Window

Evictable(t) == file[t].indexed /\ now - file[t].stored > Window

\* Store: the file is moved in, and some of those that may go make room.
Stored(t, gone) ==
    file' = [u \in Tokens |->
               IF u = t THEN [here |-> TRUE, indexed |-> TRUE, stored |-> now]
               ELSE IF u \in gone THEN [file[u] EXCEPT !.here = FALSE, !.indexed = FALSE]
               ELSE file[u]]

Publish(t) ==
    /\ Prep!Publish(t)
    /\ \E gone \in SUBSET {u \in Tokens : Evictable(u)} : Stored(t, gone)

\* An attempt that finds the row ready does nothing, unless it fails to read it.
Prepares(t) ==
    /\ \/ status[t] # "ready" /\ Prep!Announce(t)
       \/ Prep!Deliver(t)
       \/ Prep!Fail(t)
       \/ Prep!End(t)
    /\ UNCHANGED file

\* A recording of no interest here is stored, and takes the place of this one.
MakesRoom(t) ==
    /\ Evictable(t)
    /\ file' = [file EXCEPT ![t].here = FALSE, ![t].indexed = FALSE]
    /\ UNCHANGED prep

Preparation(t) ==
    /\ Publish(t) \/ Prepares(t) \/ MakesRoom(t)
    /\ UNCHANGED <<now, setup, tab, chain>>

\* The process starts anew, without its cache's index; whoever waits for it fails.
Restart ==
    /\ Prep!Interrupt
    /\ file' = [t \in Tokens |-> [file[t] EXCEPT !.indexed = FALSE]]
    /\ chain' = [k \in Chains |-> IF chain[k].pc = "prepare"
                                  THEN [chain[k] EXCEPT !.pc = "urlError"] ELSE chain[k]]
    /\ UNCHANGED <<now, setup, tab>>

-----------------------------------------------------------------------------
(* The handlers.                                                           *)

Goto(k, pc) == chain' = [chain EXCEPT ![k] = [@ EXCEPT !.pc = pc, !.state = "none"]]

\* isPlayable.
Playable(t) == setup.mode[t] = "passthrough" \/ status[t] = "ready"

\* handlePlayURL reads the row and either signs a URL or goes on to prepare.
PlayURL(k) ==
    /\ chain[k].pc = "url"
    /\ IF Playable(chain[k].token)
       THEN chain' = [chain EXCEPT ![k].pc = "signed", ![k].exp = now + TTL]
       ELSE Goto(k, "prepare")
    /\ UNCHANGED <<now, setup, prep, file, tab>>

\* Prepare starts an attempt unless there is one; the answer is 202 anyway.
Accept(k) ==
    LET t == chain[k].token IN
    /\ chain[k].pc = "prepare"
    /\ IF setup.preparer /\ t \notin attempts THEN Prep!Begin(t) ELSE UNCHANGED prep
    /\ Goto(k, "accepted")
    /\ UNCHANGED <<now, setup, file, tab>>

\* handlePlayStatus.
PlayStatus(k) ==
    /\ chain[k].pc = "status"
    /\ chain' = [chain EXCEPT ![k].pc = "polled", ![k].state = status[chain[k].token]]
    /\ UNCHANGED <<now, setup, prep, file, tab>>

\* handlePlay, which changes nothing: its answer now to a URL this server has signed.
Play(url) ==
    IF now > url.exp THEN "forbidden"
    ELSE IF setup.mode[url.token] = "passthrough" THEN "ok"
    ELSE IF status[url.token] # "ready" THEN "conflict"
    ELSE IF file[url.token].here THEN "ok"
    ELSE "gone"

-----------------------------------------------------------------------------
(* The page.                                                               *)

\* nav is incremented: what is under way for the page is stale.
Navigate(T, shown) ==
    /\ tab' = [tab EXCEPT ![T] = shown]
    /\ UNCHANGED <<now, setup, prep, file>>

Stale(T) == [k \in Chains |-> IF chain[k].pc # "idle" /\ chain[k].tab = T
                              THEN [chain[k] EXCEPT !.stale = TRUE] ELSE chain[k]]

\* renderPlay up to its request, as route calls it.
Open(T, t, k) ==
    /\ tab[T].view # "away" => tab[T].token # t
    /\ chain[k].pc = "idle"
    /\ Navigate(T, [view |-> "loading", token |-> t])
    /\ chain' = [Stale(T) EXCEPT ![k] =
                   [pc |-> "media", tab |-> T, token |-> t, stale |-> FALSE, exp |-> 0,
                    state |-> "none"]]

Leave(T) ==
    /\ tab[T].view # "away"
    /\ Navigate(T, Away)
    /\ chain' = Stale(T)

Show(k, shown) == tab' = [tab EXCEPT ![chain[k].tab] = shown]

Notice(k, t, notice) ==
    Show(k, [view |-> "player", token |-> t, notice |-> notice, about |-> chain[k].token])

\* The elements a chain writes to are those of its own page, if they are still shown.
Told(k, notice) ==
    IF ~chain[k].stale /\ tab[chain[k].tab].view = "player"
    THEN Notice(k, chain[k].token, notice) ELSE UNCHANGED tab

Ends(k) == chain' = [chain EXCEPT ![k] = Idle]

Wanted(k) == ~chain[k].stale

\* The details arrive; an HTTP error is taken for details as well.
GotMedia(k) ==
    /\ chain[k].pc = "media"
    /\ IF Wanted(k)
       THEN Goto(k, "url") /\ Notice(k, chain[k].token, "none")
       ELSE Ends(k) /\ UNCHANGED tab
    /\ UNCHANGED <<now, setup, prep, file>>

\* The details do not arrive: the message replaces whatever the page now shows.
NoMedia(k) ==
    /\ chain[k].pc = "media"
    /\ Ends(k)
    /\ Show(k, IF tab[chain[k].tab].view = "away" THEN Away
               ELSE [view |-> "message", token |-> tab[chain[k].tab].token])
    /\ UNCHANGED <<now, setup, prep, file>>

\* Mutation: the page says ready, and the video has nothing to play.
GotURL_NoSource(k) ==
    /\ chain[k].pc = "signed"
    /\ Wanted(k)
    /\ Show(k, [view |-> "player", token |-> chain[k].token, notice |-> "ready"])
    /\ Ends(k)
    /\ UNCHANGED <<now, setup, prep, file>>

GotURL(k) ==
    LET t == chain[k].token IN
    /\ chain[k].pc = "signed"
    /\ IF Wanted(k) /\ tab[chain[k].tab].view = "player"
       THEN Show(k, [view |-> "player", token |-> t, notice |-> "ready",
                     url |-> [token |-> t, exp |-> chain[k].exp]])
       ELSE UNCHANGED tab
    /\ Ends(k)
    /\ UNCHANGED <<now, setup, prep, file>>

GotAccepted(k) ==
    /\ chain[k].pc = "accepted"
    /\ IF Wanted(k) THEN Goto(k, "timer") ELSE Ends(k)
    /\ Told(k, "wait")
    /\ UNCHANGED <<now, setup, prep, file>>

\* Any other answer, or none.
NoURL(k) ==
    /\ chain[k].pc \in {"url", "prepare", "accepted", "signed", "urlError"}
    /\ Ends(k)
    /\ Told(k, "error")
    /\ UNCHANGED <<now, setup, prep, file>>

Timer(k) ==
    /\ chain[k].pc = "timer"
    /\ IF Wanted(k) THEN Goto(k, "status") ELSE Ends(k)
    /\ UNCHANGED <<now, setup, prep, file, tab>>

\* Mutation: pollStatus does not compare the generation.
PollWanted_Always(k) == TRUE

PollWanted(k) == Wanted(k)

\* Mutation: only ready ends the polling.
GotStatus_ReadyOnly(k) ==
    /\ chain[k].pc = "polled"
    /\ Goto(k, IF chain[k].state = "ready" THEN "url" ELSE "timer")
    /\ UNCHANGED <<now, setup, prep, file, tab>>

\* pollStatus with an answer.  A failure is written to the element "pn" of whatever
\* is shown; if there is none, that is an exception, and the poll is repeated.
GotStatus(k) ==
    LET shown == tab[chain[k].tab] IN
    /\ chain[k].pc = "polled"
    /\ \/ ~PollWanted(k) /\ Ends(k) /\ UNCHANGED tab
       \/ /\ PollWanted(k) /\ chain[k].state = "ready"
          /\ Goto(k, "url")
          /\ UNCHANGED tab
       \/ /\ PollWanted(k) /\ chain[k].state = "failed"
          /\ shown.view = "player"
          /\ Notice(k, shown.token, "failed")
          /\ Ends(k)
       \/ /\ PollWanted(k)
          /\ \/ chain[k].state \in {"none", "preparing"}
             \/ chain[k].state = "failed" /\ shown.view # "player"
          /\ Goto(k, "timer")
          /\ UNCHANGED tab
    /\ UNCHANGED <<now, setup, prep, file>>

\* An error of the server, or none: the poll is repeated.
NoStatus(k) ==
    /\ chain[k].pc \in {"status", "polled"}
    /\ Goto(k, "timer")
    /\ UNCHANGED <<now, setup, prep, file, tab>>

\* The session has ended: the login view takes the page.
SignedOut(k) ==
    LET T == chain[k].tab IN
    /\ chain[k].pc \in {"media", "url", "status"}
    /\ Navigate(T, Away)
    /\ chain' = [Stale(T) EXCEPT ![k] = Idle]

Tick ==
    /\ now < MaxClock
    /\ now' = now + 1
    /\ UNCHANGED <<setup, prep, file, tab, chain>>

-----------------------------------------------------------------------------

Answered(k) ==
    \/ GotMedia(k) \/ GotURL(k) \/ GotAccepted(k) \/ GotStatus(k)
    \/ PlayURL(k) \/ Accept(k) \/ Timer(k)

Fails(k) == NoMedia(k) \/ NoURL(k) \/ NoStatus(k) \/ SignedOut(k)

Next ==
    \/ \E t \in Tokens : Preparation(t)
    \/ Restart
    \/ \E k \in Chains : Answered(k) \/ PlayStatus(k) \/ Fails(k)
    \/ \E T \in Tabs :
          \/ \E t \in Tokens, k \in Chains : Open(T, t, k)
          \/ Leave(T)
    \/ Tick

(***************************************************************************)
(* Timers fire and the server answers or the call fails; a poll repeated   *)
(* for ever gets through at last.  Nothing makes an attempt end.           *)
(***************************************************************************)
Fairness ==
    \A k \in Chains :
        /\ WF_vars(Answered(k) \/ Fails(k))
        /\ SF_vars(PlayStatus(k))
        /\ SF_vars(GotStatus(k))

Spec == Init /\ [][Next]_vars /\ Fairness

-----------------------------------------------------------------------------
(* Properties.                                                             *)

TypeOK ==
    /\ now \in 0 .. MaxClock
    /\ setup \in Setups
    /\ attempts \subseteq Tokens
    /\ status \in [Tokens -> {"none", "preparing", "ready", "failed"}]
    /\ published \subseteq Tokens
    /\ file \in [Tokens -> Files]
    /\ tab \in [Tabs -> {Away} \cup Loading \cup Players \cup Waiting]
    /\ chain \in [Chains -> {Idle} \cup Running]

\* What a page plays, and the failure it reports, is of the recording it shows,
\* however late the answers for an earlier page come (app.js 147-209).
PageIsOwn ==
    \A T \in Tabs : tab[T].view = "player" =>
        IF tab[T].notice = "ready" THEN tab[T].url.token = tab[T].token
        ELSE tab[T].about = tab[T].token

\* A URL is handed out only for what can be played: a valid one is refused only for
\* a recording that was ready and has failed since, and its file is gone only when it
\* was stored longer ago than the window (play.go 41-116, cache.go 112-139).  So a
\* prompt play works; of a long one this says nothing: see WatchedStays.
PromptPlayWorks ==
    \A T \in Tabs : tab[T].view = "player" /\ tab[T].notice = "ready" =>
        LET result == Play(tab[T].url) IN
        /\ result = "conflict" => tab[T].url.token \in published
        /\ result = "gone" => now - file[tab[T].url.token].stored > Window

Polling(k) == chain[k].pc \in {"timer", "status", "polled"}

\* Nobody will ever say how it ended.
Orphaned(t) == t \notin attempts /\ status[t] \in {"none", "preparing"}

\* The message of an earlier page has replaced the player that polls.
Wiped(k) == ~chain[k].stale /\ tab[chain[k].tab].view = "message"

\* When preparations come to an end, so does the polling of every page, except for
\* a recording whose attempt has left no trace and for a page that was replaced by
\* the message of an earlier one (app.js 153-154, 198-209).
PollingEnds ==
    <>[](attempts = {}) =>
        \A k \in Chains : []<>(~Polling(k) \/ Orphaned(chain[k].token) \/ Wiped(k))
=============================================================================
