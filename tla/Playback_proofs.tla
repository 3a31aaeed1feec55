--------------------------- MODULE Playback_proofs ---------------------------
(***************************************************************************)
(* Proofs about playing a recording: the safety properties of Playback,    *)
(* for any number of pages, recordings and calls under way, any lifetime   *)
(* of a URL and any window of the cache.                                   *)
(*                                                                         *)
(* PageIsOwn rests on what a call that is not stale knows of its page: it  *)
(* still shows the call's recording.  PromptPlayWorks rests on where a URL *)
(* comes from: a recording that is played as it is, or one that has been   *)
(* published; and the file of such a one is there or was left for longer   *)
(* than the window.                                                        *)
(***************************************************************************)
EXTENDS Playback, TLAPS

Chain == {Idle} \cup Running
Page == {Away} \cup Loading \cup Players \cup Waiting

\* A URL for this recording may be handed out.
Given(t) == setup.mode[t] = "passthrough" \/ t \in published

\* A call's page still shows its recording.
Own(k) ==
    chain[k].pc # "idle" /\ ~chain[k].stale =>
        /\ tab[chain[k].tab].view # "away"
        /\ tab[chain[k].tab].token = chain[k].token

OwnOK == \A k \in Chains : Own(k)

SignedOK == \A k \in Chains : chain[k].pc = "signed" => Given(chain[k].token)

GoodPage(T) ==
    tab[T].view = "player" =>
        IF tab[T].notice = "ready" THEN tab[T].url.token = tab[T].token /\ Given(tab[T].token)
        ELSE tab[T].about = tab[T].token

PagesOK == \A T \in Tabs : GoodPage(T)

ReadyOK == \A t \in Tokens : status[t] = "ready" => t \in published

FilesOK == \A t \in published : file[t].here \/ now - file[t].stored > Window

PlayInv ==
    /\ TypeOK
    /\ OwnOK
    /\ SignedOK
    /\ PagesOK
    /\ ReadyOK
    /\ FilesOK

-----------------------------------------------------------------------------
(* Shapes.                                                                 *)

LEMMA Known ==
    ASSUME TypeOK
    PROVE  /\ now \in Nat
           /\ setup.mode \in [Tokens -> {"passthrough", "cold"}]
           /\ attempts \subseteq Tokens
           /\ status \in [Tokens -> {"none", "preparing", "ready", "failed"}]
           /\ published \subseteq Tokens
           /\ file \in [Tokens -> Files]
           /\ tab \in [Tabs -> Page]
           /\ chain \in [Chains -> Chain]
  BY SetupsAssumption, TimeAssumption DEF TypeOK, Page, Chain

LEMMA ChainShape ==
    ASSUME NEW q \in Chain
    PROVE  /\ q.pc \in Stages \cup {"idle"}
           /\ q.pc = "idle" => q = Idle
           /\ q.pc # "idle" => /\ q \in Running
                               /\ q.tab \in Tabs /\ q.token \in Tokens /\ q.stale \in BOOLEAN
                               /\ q.exp \in Int
                               /\ q.state \in {"none", "preparing", "ready", "failed"}
  BY DEF Chain, Idle, Running, Stages

LEMMA PageShape ==
    ASSUME NEW p \in Page
    PROVE  /\ p.view \in {"away", "loading", "message", "player"}
           /\ p.view = "away" => p = Away
           /\ p.view # "away" => p.token \in Tokens
           /\ p.view = "player" /\ p.notice = "ready" =>
                 p.url.token \in Tokens /\ p.url.exp \in Int
  BY DEF Page, Away, Loading, Players, Waiting, Signed

-----------------------------------------------------------------------------
(* What a step has to show.                                                *)

\* A call stays what it was, ends, or goes on for the same page and recording.
Follows(k) ==
    \/ chain'[k] = chain[k]
    \/ chain'[k].pc = "idle"
    \/ /\ chain[k].pc # "idle"
       /\ chain'[k].tab = chain[k].tab
       /\ chain'[k].token = chain[k].token
       /\ chain[k].stale => chain'[k].stale
       /\ chain'[k].pc = "signed" /\ chain[k].pc # "signed" => Given(chain[k].token)

\* A page stays what it was, or shows something else of the recording it showed.
Keeps(T) ==
    \/ tab'[T] = tab[T]
    \/ /\ tab[T].view # "away" => tab'[T].view # "away" /\ tab'[T].token = tab[T].token
       /\ tab'[T].view = "player" =>
            IF tab'[T].notice = "ready"
            THEN tab'[T].url.token = tab'[T].token /\ Given(tab'[T].token)
            ELSE tab'[T].about = tab'[T].token

ShapesOK == chain \in [Chains -> Chain] /\ tab \in [Tabs -> Page]

\* Calls and pages, when nothing is published.
LEMMA CallStep ==
    ASSUME PlayInv, ShapesOK', setup' = setup, published \subseteq published',
           \A k \in Chains : Follows(k), \A T \in Tabs : Keeps(T)
    PROVE  OwnOK' /\ SignedOK' /\ PagesOK'
<1>1. ShapesOK
  BY Known DEF PlayInv, ShapesOK
<1>2. \A t : Given(t) => Given(t)'
  BY DEF Given
<1>3. OwnOK'
  <2> SUFFICES ASSUME NEW k \in Chains, chain'[k].pc # "idle", ~chain'[k].stale
               PROVE  /\ tab'[chain'[k].tab].view # "away"
                      /\ tab'[chain'[k].tab].token = chain'[k].token
    BY DEF OwnOK, Own
  <2>1. /\ chain[k].pc # "idle" /\ ~chain[k].stale
        /\ chain'[k].tab = chain[k].tab /\ chain'[k].token = chain[k].token
    BY DEF Follows
  <2>2. chain[k].tab \in Tabs
    BY <1>1, <2>1, ChainShape DEF ShapesOK
  <2>3. tab[chain[k].tab].view # "away" /\ tab[chain[k].tab].token = chain[k].token
    BY <2>1 DEF PlayInv, OwnOK, Own
  <2> QED
    BY <2>1, <2>2, <2>3 DEF Keeps
<1>4. SignedOK'
  BY <1>2 DEF SignedOK, Follows, PlayInv
<1>5. PagesOK'
  BY <1>2 DEF PagesOK, GoodPage, Keeps, PlayInv
<1> QED
  BY <1>3, <1>4, <1>5

\* What is left of PlayInv when neither the preparation nor the files change.
LEMMA RestKept ==
    ASSUME PlayInv, now' = now, setup' = setup, file' = file, UNCHANGED prep, ShapesOK'
    PROVE  TypeOK' /\ ReadyOK' /\ FilesOK'
  BY DEF PlayInv, TypeOK, ReadyOK, FilesOK, prep, ShapesOK, Page, Chain

\* One call ends or goes on.
Moves(k) ==
    /\ chain[k].pc # "idle"
    /\ \E n \in Chain :
          /\ chain' = [chain EXCEPT ![k] = n]
          /\ n.pc # "idle" => /\ n.tab = chain[k].tab
                              /\ n.token = chain[k].token
                              /\ n.stale = chain[k].stale
          /\ n.pc = "signed" => Given(chain[k].token)

LEMMA EndsMoves ==
    ASSUME ShapesOK, NEW k \in Chains, chain[k].pc # "idle", Ends(k)
    PROVE  Moves(k)
<1>1. Idle \in Chain /\ Idle.pc = "idle" /\ "idle" # "signed"
  BY DEF Chain, Idle
<1>2. chain' = [chain EXCEPT ![k] = Idle]
  BY DEF Ends
<1> QED
  BY <1>1, <1>2 DEF Moves

LEMMA GotoMoves ==
    ASSUME ShapesOK, NEW k \in Chains, chain[k].pc # "idle",
           NEW pc \in Stages \ {"signed"}, Goto(k, pc)
    PROVE  Moves(k)
<1>1. PICK n : n = [chain[k] EXCEPT !.pc = pc, !.state = "none"]
                /\ chain' = [chain EXCEPT ![k] = n]
  BY DEF Goto
<1>2. chain[k] \in Chain
  BY DEF ShapesOK
<1>3. n \in Chain /\ n.pc = pc /\ n.tab = chain[k].tab /\ n.token = chain[k].token
      /\ n.stale = chain[k].stale
  BY <1>1, <1>2, ChainShape DEF Chain, Running
<1> QED
  BY <1>1, <1>3 DEF Moves

LEMMA OneCall ==
    ASSUME PlayInv, NEW k \in Chains, Moves(k), setup' = setup, published \subseteq published',
           tab' \in [Tabs -> Page], \A T \in Tabs : Keeps(T)
    PROVE  ShapesOK' /\ OwnOK' /\ SignedOK' /\ PagesOK'
<1>1. ShapesOK
  BY Known DEF PlayInv, ShapesOK
<1>2. PICK n \in Chain :
         /\ chain' = [chain EXCEPT ![k] = n]
         /\ n.pc # "idle" => /\ n.tab = chain[k].tab
                             /\ n.token = chain[k].token
                             /\ n.stale = chain[k].stale
         /\ n.pc = "signed" => Given(chain[k].token)
  BY DEF Moves
<1>3. ShapesOK'
  BY <1>1, <1>2 DEF ShapesOK
<1>4. \A j \in Chains : Follows(j)
  <2> SUFFICES ASSUME NEW j \in Chains PROVE Follows(j)
    OBVIOUS
  <2>1. CASE j = k
    BY <1>1, <1>2, <2>1 DEF Follows, ShapesOK, Moves
  <2>2. CASE j # k
    BY <1>1, <1>2, <2>2 DEF Follows, ShapesOK
  <2> QED
    BY <2>1, <2>2
<1> QED
  BY <1>3, <1>4, CallStep

\* Nothing but the calls and one page.
LEMMA OneCallKeeps ==
    ASSUME PlayInv, NEW k \in Chains, Moves(k), UNCHANGED <<now, setup, prep, file>>,
           tab' \in [Tabs -> Page], \A T \in Tabs : Keeps(T)
    PROVE  PlayInv'
<1>1. published' = published
  BY DEF prep
<1> QED
  BY <1>1, OneCall, RestKept DEF PlayInv

LEMMA SamePages ==
    ASSUME PlayInv, UNCHANGED tab
    PROVE  tab' \in [Tabs -> Page] /\ \A T \in Tabs : Keeps(T)
  BY Known DEF PlayInv, Keeps

\* A page of the call that is shown.
LEMMA ShownPage ==
    ASSUME PlayInv, NEW k \in Chains, chain[k].pc # "idle", NEW p \in Page, Show(k, p),
           tab[chain[k].tab].view # "away" =>
              p.view # "away" /\ p.token = tab[chain[k].tab].token,
           p.view = "player" =>
              IF p.notice = "ready" THEN p.url.token = p.token /\ Given(p.token)
              ELSE p.about = p.token
    PROVE  tab' \in [Tabs -> Page] /\ \A T \in Tabs : Keeps(T)
<1>1. tab \in [Tabs -> Page] /\ chain[k].tab \in Tabs
  BY Known, ChainShape DEF PlayInv
<1> QED
  BY <1>1 DEF Show, Keeps

\* A notice of the call's own recording on its page.
LEMMA NoticeKeeps ==
    ASSUME PlayInv, NEW k \in Chains, chain[k].pc # "idle", ~chain[k].stale,
           NEW notice \in {"none", "wait", "failed", "error"},
           Notice(k, chain[k].token, notice)
    PROVE  tab' \in [Tabs -> Page] /\ \A T \in Tabs : Keeps(T)
<1> DEFINE p == [view |-> "player", token |-> chain[k].token, notice |-> notice,
                 about |-> chain[k].token]
<1>1. Show(k, p)
  BY DEF Notice
<1>2. chain[k].token \in Tokens
  BY Known, ChainShape DEF PlayInv
<1>3. p \in Page
  BY <1>2 DEF Page, Waiting
<1>4. p.token = tab[chain[k].tab].token
  BY DEF PlayInv, OwnOK, Own
<1>5. p.view = "player" /\ p.notice # "ready" /\ p.about = p.token
  OBVIOUS
<1> HIDE DEF p
<1> QED
  BY <1>1, <1>3, <1>4, <1>5, ShownPage

LEMMA ToldKeeps ==
    ASSUME PlayInv, NEW k \in Chains, chain[k].pc # "idle",
           NEW notice \in {"none", "wait", "failed", "error"}, Told(k, notice)
    PROVE  tab' \in [Tabs -> Page] /\ \A T \in Tabs : Keeps(T)
  BY NoticeKeeps, SamePages DEF Told

-----------------------------------------------------------------------------
(* One lemma per operation.                                                *)

LEMMA PlayURLKeeps ==
    ASSUME PlayInv, NEW k \in Chains, PlayURL(k)
    PROVE  PlayInv'
<1>1. ShapesOK
  BY Known DEF PlayInv, ShapesOK
<1>2. chain[k] \in Running /\ chain[k].token \in Tokens
  BY <1>1, ChainShape DEF PlayURL, ShapesOK
<1>3. UNCHANGED <<now, setup, prep, file>> /\ UNCHANGED tab
  BY DEF PlayURL
<1>4. CASE Playable(chain[k].token)
  <2>1. Given(chain[k].token)
    BY <1>2, <1>4 DEF Playable, Given, PlayInv, ReadyOK
  <2>2. PICK n : n = [chain[k] EXCEPT !.pc = "signed", !.exp = now + TTL]
                 /\ chain' = [chain EXCEPT ![k] = n]
    BY <1>4 DEF PlayURL
  <2>3. now + TTL \in Int
    BY Known, TimeAssumption DEF PlayInv
  <2>4. n \in Chain /\ n.tab = chain[k].tab /\ n.token = chain[k].token
        /\ n.stale = chain[k].stale
    BY <1>2, <2>2, <2>3 DEF Chain, Running, Stages
  <2>5. Moves(k)
    BY <2>1, <2>2, <2>4 DEF Moves, PlayURL
  <2> QED
    BY <1>3, <2>5, OneCallKeeps, SamePages
<1>5. CASE ~Playable(chain[k].token)
  <2>1. Moves(k)
    BY <1>1, <1>5, GotoMoves DEF PlayURL, Stages
  <2> QED
    BY <1>3, <2>1, OneCallKeeps, SamePages
<1> QED
  BY <1>4, <1>5

LEMMA PlayStatusKeeps ==
    ASSUME PlayInv, NEW k \in Chains, PlayStatus(k)
    PROVE  PlayInv'
<1>1. ShapesOK
  BY Known DEF PlayInv, ShapesOK
<1>2. chain[k] \in Running /\ chain[k].token \in Tokens
  BY <1>1, ChainShape DEF PlayStatus, ShapesOK
<1>3. status[chain[k].token] \in {"none", "preparing", "ready", "failed"}
  BY <1>2, Known DEF PlayInv
<1>4. PICK n : n = [chain[k] EXCEPT !.pc = "polled", !.state = status[chain[k].token]]
               /\ chain' = [chain EXCEPT ![k] = n]
  BY DEF PlayStatus
<1>5. n \in Chain /\ n.pc = "polled" /\ n.tab = chain[k].tab /\ n.token = chain[k].token
      /\ n.stale = chain[k].stale
  BY <1>2, <1>3, <1>4 DEF Chain, Running, Stages
<1>6. Moves(k)
  BY <1>4, <1>5 DEF Moves, PlayStatus
<1> QED
  BY <1>6, OneCallKeeps, SamePages DEF PlayStatus

\* Calls that end or go on, and show something of their own recording or nothing.
LEMMA GotMediaKeeps ==
    ASSUME PlayInv, NEW k \in Chains, GotMedia(k)
    PROVE  PlayInv'
<1>1. ShapesOK /\ chain[k].pc # "idle"
  BY Known DEF PlayInv, ShapesOK, GotMedia
<1>2. Moves(k)
  BY <1>1, GotoMoves, EndsMoves DEF GotMedia, Stages
<1>3. tab' \in [Tabs -> Page] /\ \A T \in Tabs : Keeps(T)
  BY <1>1, NoticeKeeps, SamePages DEF GotMedia, Wanted
<1> QED
  BY <1>2, <1>3, OneCallKeeps DEF GotMedia

LEMMA NoMediaKeeps ==
    ASSUME PlayInv, NEW k \in Chains, NoMedia(k)
    PROVE  PlayInv'
<1>1. ShapesOK /\ chain[k].pc # "idle"
  BY Known DEF PlayInv, ShapesOK, NoMedia
<1>2. Moves(k)
  BY <1>1, EndsMoves DEF NoMedia
<1>3. tab[chain[k].tab] \in Page
  BY <1>1, ChainShape DEF ShapesOK
<1>4. tab' \in [Tabs -> Page] /\ \A T \in Tabs : Keeps(T)
  <2>1. CASE tab[chain[k].tab].view = "away"
    <3>1. Show(k, Away)
      BY <2>1 DEF NoMedia
    <3>2. Away \in Page /\ Away.view = "away"
      BY DEF Page, Away
    <3> QED
      BY <1>1, <2>1, <3>1, <3>2, ShownPage
  <2>2. CASE tab[chain[k].tab].view # "away"
    <3> DEFINE p == [view |-> "message", token |-> tab[chain[k].tab].token]
    <3>1. Show(k, p)
      BY <2>2 DEF NoMedia
    <3>2. tab[chain[k].tab].token \in Tokens
      BY <1>3, <2>2, PageShape
    <3>3. p \in Page /\ p.view = "message" /\ p.token = tab[chain[k].tab].token
      BY <3>2 DEF Page, Loading
    <3> HIDE DEF p
    <3> QED
      BY <1>1, <3>1, <3>3, ShownPage
  <2> QED
    BY <2>1, <2>2
<1> QED
  BY <1>2, <1>4, OneCallKeeps DEF NoMedia

LEMMA GotURLKeeps ==
    ASSUME PlayInv, NEW k \in Chains, GotURL(k)
    PROVE  PlayInv'
<1>1. ShapesOK /\ chain[k].pc = "signed" /\ chain[k].pc # "idle"
  BY Known DEF PlayInv, ShapesOK, GotURL
<1>2. Moves(k)
  BY <1>1, EndsMoves DEF GotURL
<1>3. tab' \in [Tabs -> Page] /\ \A T \in Tabs : Keeps(T)
  <2> DEFINE p == [view |-> "player", token |-> chain[k].token, notice |-> "ready",
                   url |-> [token |-> chain[k].token, exp |-> chain[k].exp]]
  <2>1. UNCHANGED tab \/ (Show(k, p) /\ ~chain[k].stale)
    BY DEF GotURL, Wanted
  <2>2. chain[k].token \in Tokens /\ chain[k].exp \in Int
    BY <1>1, ChainShape DEF ShapesOK
  <2>3. p \in Page
    BY <2>2 DEF Page, Players, Signed
  <2>4. p.view = "player" /\ p.notice = "ready" /\ p.token = chain[k].token
        /\ p.url.token = p.token
    OBVIOUS
  <2>5. Given(chain[k].token)
    BY <1>1 DEF PlayInv, SignedOK
  <2>6. ~chain[k].stale => chain[k].token = tab[chain[k].tab].token
    BY <1>1 DEF PlayInv, OwnOK, Own
  <2> HIDE DEF p
  <2>7. CASE Show(k, p) /\ ~chain[k].stale
    BY <1>1, <2>3, <2>4, <2>5, <2>6, <2>7, ShownPage
  <2> QED
    BY <2>1, <2>7, SamePages
<1> QED
  BY <1>2, <1>3, OneCallKeeps DEF GotURL

LEMMA GotAcceptedKeeps ==
    ASSUME PlayInv, NEW k \in Chains, GotAccepted(k)
    PROVE  PlayInv'
<1>1. ShapesOK /\ chain[k].pc # "idle"
  BY Known DEF PlayInv, ShapesOK, GotAccepted
<1>2. Moves(k)
  BY <1>1, GotoMoves, EndsMoves DEF GotAccepted, Stages
<1>3. tab' \in [Tabs -> Page] /\ \A T \in Tabs : Keeps(T)
  BY <1>1, ToldKeeps DEF GotAccepted
<1> QED
  BY <1>2, <1>3, OneCallKeeps DEF GotAccepted

LEMMA NoURLKeeps ==
    ASSUME PlayInv, NEW k \in Chains, NoURL(k)
    PROVE  PlayInv'
<1>1. ShapesOK /\ chain[k].pc # "idle"
  BY Known DEF PlayInv, ShapesOK, NoURL
<1>2. Moves(k)
  BY <1>1, EndsMoves DEF NoURL
<1>3. tab' \in [Tabs -> Page] /\ \A T \in Tabs : Keeps(T)
  BY <1>1, ToldKeeps DEF NoURL
<1> QED
  BY <1>2, <1>3, OneCallKeeps DEF NoURL

LEMMA TimerKeeps ==
    ASSUME PlayInv, NEW k \in Chains, Timer(k) \/ NoStatus(k)
    PROVE  PlayInv'
<1>1. ShapesOK /\ chain[k].pc # "idle"
  BY Known DEF PlayInv, ShapesOK, Timer, NoStatus
<1>2. Moves(k)
  BY <1>1, GotoMoves, EndsMoves DEF Timer, NoStatus, Stages
<1> QED
  BY <1>2, SamePages, OneCallKeeps DEF Timer, NoStatus

LEMMA GotStatusKeeps ==
    ASSUME PlayInv, NEW k \in Chains, GotStatus(k)
    PROVE  PlayInv'
<1>1. ShapesOK /\ chain[k].pc # "idle"
  BY Known DEF PlayInv, ShapesOK, GotStatus
<1>2. Moves(k)
  BY <1>1, GotoMoves, EndsMoves DEF GotStatus, Stages
<1>3. tab' \in [Tabs -> Page] /\ \A T \in Tabs : Keeps(T)
  <2>1. CASE UNCHANGED tab
    BY <2>1, SamePages
  <2>2. CASE PollWanted(k) /\ Notice(k, tab[chain[k].tab].token, "failed")
    <3>1. ~chain[k].stale
      BY <2>2 DEF PollWanted, Wanted
    <3>2. tab[chain[k].tab].token = chain[k].token
      BY <1>1, <3>1 DEF PlayInv, OwnOK, Own
    <3> QED
      BY <1>1, <2>2, <3>1, <3>2, NoticeKeeps
  <2> QED
    BY <2>1, <2>2 DEF GotStatus
<1> QED
  BY <1>2, <1>3, OneCallKeeps DEF GotStatus

-----------------------------------------------------------------------------
(* Navigation.                                                             *)

\* The calls of page T become stale, and k may be another call.
LEMMA StaleCalls ==
    ASSUME ShapesOK, NEW T \in Tabs, NEW j \in Chains
    PROVE  /\ Stale(T)[j] \in Chain
           /\ Stale(T)[j].pc = chain[j].pc
           /\ chain[j].pc # "idle" =>
                 /\ Stale(T)[j].tab = chain[j].tab
                 /\ Stale(T)[j].token = chain[j].token
                 /\ chain[j].stale => Stale(T)[j].stale
                 /\ chain[j].tab = T => Stale(T)[j].stale
<1>1. chain[j] \in Chain
  BY DEF ShapesOK
<1>2. CASE chain[j].pc # "idle" /\ chain[j].tab = T
  <2>1. Stale(T)[j] = [chain[j] EXCEPT !.stale = TRUE]
    BY <1>2 DEF Stale
  <2> QED
    BY <1>1, <1>2, <2>1, ChainShape DEF Chain, Running
<1>3. CASE ~(chain[j].pc # "idle" /\ chain[j].tab = T)
  <2>1. Stale(T)[j] = chain[j]
    BY <1>3 DEF Stale
  <2> QED
    BY <1>1, <1>3, <2>1
<1> QED
  BY <1>2, <1>3

\* T shows something else, one call may end or be made for it, and the others are stale.
LEMMA Navigates ==
    ASSUME PlayInv, NEW T \in Tabs, NEW p \in Page, p.view # "player",
           Navigate(T, p), chain' \in [Chains -> Chain],
           \A j \in Chains :
              \/ chain'[j] = Stale(T)[j]
              \/ chain'[j].pc = "idle"
              \/ /\ chain'[j].pc = "media" /\ chain'[j].tab = T
                 /\ p.view # "away" /\ p.token = chain'[j].token
    PROVE  PlayInv'
<1>1. ShapesOK
  BY Known DEF PlayInv, ShapesOK
<1>2. ShapesOK' /\ tab'[T] = p /\ \A U \in Tabs : U # T => tab'[U] = tab[U]
  BY <1>1 DEF ShapesOK, Navigate
<1>3. published' = published /\ setup' = setup /\ UNCHANGED <<now, setup, prep, file>>
  BY DEF Navigate, prep
<1>4. OwnOK'
  <2> SUFFICES ASSUME NEW j \in Chains, chain'[j].pc # "idle", ~chain'[j].stale
               PROVE  /\ tab'[chain'[j].tab].view # "away"
                      /\ tab'[chain'[j].tab].token = chain'[j].token
    BY DEF OwnOK, Own
  <2>1. CASE chain'[j] = Stale(T)[j]
    <3>1. /\ chain[j].pc # "idle" /\ ~chain[j].stale /\ chain[j].tab # T
          /\ chain'[j].tab = chain[j].tab /\ chain'[j].token = chain[j].token
      BY <1>1, <2>1, StaleCalls
    <3>2. chain[j].tab \in Tabs
      BY <1>1, <3>1, ChainShape DEF ShapesOK
    <3> QED
      BY <1>2, <3>1, <3>2 DEF PlayInv, OwnOK, Own
  <2>2. CASE chain'[j].tab = T /\ p.view # "away" /\ p.token = chain'[j].token
    BY <1>2, <2>2
  <2> QED
    BY <2>1, <2>2
<1>5. SignedOK'
  <2> SUFFICES ASSUME NEW j \in Chains, chain'[j].pc = "signed"
               PROVE  Given(chain'[j].token)
    BY <1>3 DEF SignedOK, Given
  <2>1. chain'[j] = Stale(T)[j]
    OBVIOUS
  <2>2. chain[j].pc = "signed" /\ chain'[j].token = chain[j].token
    BY <1>1, <2>1, StaleCalls
  <2> QED
    BY <2>2 DEF PlayInv, SignedOK
<1>6. PagesOK'
  BY <1>2, <1>3 DEF PlayInv, PagesOK, GoodPage, Given
<1> QED
  BY <1>2, <1>3, <1>4, <1>5, <1>6, RestKept DEF PlayInv

LEMMA OpenKeeps ==
    ASSUME PlayInv, NEW T \in Tabs, NEW t \in Tokens, NEW k \in Chains, Open(T, t, k)
    PROVE  PlayInv'
<1> DEFINE p == [view |-> "loading", token |-> t]
           q == [pc |-> "media", tab |-> T, token |-> t, stale |-> FALSE, exp |-> 0,
                 state |-> "none"]
<1>1. ShapesOK
  BY Known DEF PlayInv, ShapesOK
<1>2. Navigate(T, p) /\ chain' = [Stale(T) EXCEPT ![k] = q]
  BY DEF Open
<1>3. p \in Page /\ p.view = "loading" /\ p.token = t
  BY DEF Page, Loading
<1>4. q \in Chain /\ q.pc = "media" /\ q.tab = T /\ q.token = t
  BY DEF Chain, Running, Stages
<1> HIDE DEF p, q
<1>5. chain'[k] = q /\ \A j \in Chains : j # k => chain'[j] = Stale(T)[j]
  BY <1>2 DEF Stale
<1>6. \A j \in Chains : Stale(T)[j] \in Chain
  BY <1>1, StaleCalls
<1>7. chain' \in [Chains -> Chain]
  BY <1>2, <1>4, <1>6 DEF Stale
<1> QED
  BY <1>2, <1>3, <1>4, <1>5, <1>7, Navigates

LEMMA LeavesKeep ==
    ASSUME PlayInv
    PROVE  /\ \A T \in Tabs : Leave(T) => PlayInv'
           /\ \A k \in Chains : SignedOut(k) => PlayInv'
<1>1. ShapesOK
  BY Known DEF PlayInv, ShapesOK
<1>2. Away \in Page /\ Away.view = "away" /\ Idle \in Chain /\ Idle.pc = "idle"
  BY DEF Page, Away, Chain, Idle
<1>3. \A T \in Tabs, j \in Chains : Stale(T)[j] \in Chain
  BY <1>1, StaleCalls
<1>4. ASSUME NEW T \in Tabs, Leave(T)
      PROVE  PlayInv'
  <2>1. Navigate(T, Away) /\ chain' = Stale(T)
    BY <1>4 DEF Leave
  <2>2. chain' \in [Chains -> Chain]
    BY <1>3, <2>1 DEF Stale
  <2> QED
    BY <1>2, <2>1, <2>2, Navigates
<1>5. ASSUME NEW k \in Chains, SignedOut(k)
      PROVE  PlayInv'
  <2>1. PICK T \in Tabs : T = chain[k].tab
    BY <1>1, <1>5, ChainShape DEF SignedOut, ShapesOK
  <2>2. Navigate(T, Away) /\ chain' = [Stale(T) EXCEPT ![k] = Idle]
    BY <1>5, <2>1 DEF SignedOut
  <2>3. chain'[k] = Idle /\ \A j \in Chains : j # k => chain'[j] = Stale(T)[j]
    BY <2>2 DEF Stale
  <2>4. chain' \in [Chains -> Chain]
    BY <1>2, <1>3, <2>2 DEF Stale
  <2> QED
    BY <1>2, <2>2, <2>3, <2>4, Navigates
<1> QED
  BY <1>4, <1>5

-----------------------------------------------------------------------------
(* Preparation, the cache, and the clock.                                  *)

PrepShape ==
    /\ attempts \subseteq Tokens
    /\ status \in [Tokens -> {"none", "preparing", "ready", "failed"}]
    /\ published \subseteq Tokens
    /\ ReadyOK

\* What the contract keeps.
LEMMA ContractKeeps ==
    ASSUME PrepShape, NEW t \in Tokens,
           Prep!Begin(t) \/ Prep!Announce(t) \/ Prep!Publish(t) \/ Prep!Deliver(t)
             \/ Prep!Fail(t) \/ Prep!End(t) \/ Prep!Interrupt
    PROVE  /\ PrepShape'
           /\ published \subseteq published'
           /\ ~Prep!Publish(t) => published' = published
  BY DEF PrepShape, ReadyOK, Prep!Begin, Prep!Announce, Prep!Publish, Prep!Deliver,
     Prep!Fail, Prep!End, Prep!Interrupt

\* A recording is put into the cache, where those whose window is over make room.
LEMMA PublishFiles ==
    ASSUME PlayInv, NEW t \in Tokens, Publish(t), now' = now
    PROVE  file' \in [Tokens -> Files] /\ FilesOK'
<1>1. file \in [Tokens -> Files] /\ now \in Nat /\ published \subseteq Tokens
  BY Known DEF PlayInv
<1>2. PICK gone \in SUBSET {u \in Tokens : Evictable(u)} : Stored(t, gone)
  BY DEF Publish
<1>3. file' \in [Tokens -> Files]
  <2>1. [here |-> TRUE, indexed |-> TRUE, stored |-> now] \in Files
    BY <1>1 DEF Files
  <2>2. \A u \in Tokens : [file[u] EXCEPT !.here = FALSE, !.indexed = FALSE] \in Files
    BY <1>1 DEF Files
  <2> QED
    BY <1>1, <1>2, <2>1, <2>2 DEF Stored
<1>4. published' = published \cup {t}
  BY DEF Publish, Prep!Publish
<1>5. FilesOK'
  <2> SUFFICES ASSUME NEW u \in published'
               PROVE  file'[u].here \/ now' - file'[u].stored > Window
    BY DEF FilesOK
  <2>1. u \in Tokens
    BY <1>1, <1>4
  <2>2. CASE u = t
    BY <1>2, <2>1, <2>2 DEF Stored
  <2>3. CASE u # t /\ u \in gone
    BY <1>1, <1>2, <2>1, <2>3 DEF Stored, Evictable, Files
  <2>4. CASE u # t /\ u \notin gone
    BY <1>2, <1>4, <2>1, <2>4 DEF Stored, FilesOK, PlayInv
  <2> QED
    BY <2>2, <2>3, <2>4
<1> QED
  BY <1>3, <1>5

\* Neither calls nor pages change.
LEMMA PrepStep ==
    ASSUME PlayInv, PrepShape', published \subseteq published',
           file' \in [Tokens -> Files], FilesOK', UNCHANGED <<now, setup, tab, chain>>
    PROVE  PlayInv'
<1>1. ShapesOK /\ ShapesOK'
  BY Known DEF PlayInv, ShapesOK
<1>2. OwnOK' /\ SignedOK' /\ PagesOK'
  BY <1>1, CallStep DEF Follows, Keeps
<1> QED
  BY <1>2 DEF PlayInv, TypeOK, PrepShape

LEMMA PreparationKeeps ==
    ASSUME PlayInv, NEW t \in Tokens, Preparation(t)
    PROVE  PlayInv'
<1>1. PrepShape /\ file \in [Tokens -> Files] /\ FilesOK
  BY Known DEF PlayInv, PrepShape
<1>2. UNCHANGED <<now, setup, tab, chain>>
  BY DEF Preparation
<1>3. CASE Publish(t)
  BY <1>1, <1>2, <1>3, ContractKeeps, PublishFiles, PrepStep DEF Publish
<1>4. CASE Prepares(t)
  <2>1. PrepShape' /\ published \subseteq published'
    BY <1>1, <1>4, ContractKeeps DEF Prepares
  <2>2. published' = published /\ file' = file
    BY <1>4 DEF Prepares, Prep!Announce, Prep!Deliver, Prep!Fail, Prep!End
  <2>3. FilesOK'
    BY <1>1, <1>2, <2>2 DEF FilesOK
  <2> QED
    BY <1>1, <1>2, <2>1, <2>2, <2>3, PrepStep
<1>5. CASE MakesRoom(t)
  <2>1. UNCHANGED prep /\ PrepShape' /\ published' = published
    BY <1>1, <1>5 DEF MakesRoom, prep, PrepShape, ReadyOK
  <2>2. file' \in [Tokens -> Files]
    BY <1>1, <1>5 DEF MakesRoom, Files
  <2>3. FilesOK'
    <3> SUFFICES ASSUME NEW u \in published
                 PROVE  file'[u].here \/ now' - file'[u].stored > Window
      BY <2>1 DEF FilesOK
    <3>1. u \in Tokens
      BY <1>1 DEF PrepShape
    <3>2. CASE u = t
      BY <1>1, <1>2, <1>5, <3>1, <3>2 DEF MakesRoom, Evictable, Files
    <3>3. CASE u # t
      BY <1>1, <1>2, <1>5, <3>1, <3>3 DEF MakesRoom, FilesOK
    <3> QED
      BY <3>2, <3>3
  <2> QED
    BY <1>2, <2>1, <2>2, <2>3, PrepStep
<1> QED
  BY <1>3, <1>4, <1>5 DEF Preparation

LEMMA AcceptKeeps ==
    ASSUME PlayInv, NEW k \in Chains, Accept(k)
    PROVE  PlayInv'
<1>1. ShapesOK /\ PrepShape /\ chain[k].pc # "idle"
  BY Known DEF PlayInv, ShapesOK, PrepShape, Accept
<1>2. PICK t \in Tokens : t = chain[k].token
  BY <1>1, ChainShape DEF ShapesOK
<1>3. Prep!Begin(t) \/ UNCHANGED prep
  BY <1>2 DEF Accept
<1>4. PrepShape' /\ published' = published
  <2>1. CASE Prep!Begin(t)
    BY <1>1, <2>1, ContractKeeps DEF Prep!Begin
  <2>2. CASE UNCHANGED prep
    BY <1>1, <2>2 DEF prep, PrepShape, ReadyOK
  <2> QED
    BY <1>3, <2>1, <2>2
<1>5. Moves(k)
  BY <1>1, GotoMoves DEF Accept, Stages
<1>6. UNCHANGED <<now, setup, file, tab>>
  BY DEF Accept
<1>7. ShapesOK' /\ OwnOK' /\ SignedOK' /\ PagesOK'
  BY <1>4, <1>5, <1>6, SamePages, OneCall
<1>8. TypeOK'
  BY <1>4, <1>6, <1>7 DEF PlayInv, TypeOK, PrepShape, ShapesOK, Page, Chain
<1>9. ReadyOK' /\ FilesOK'
  BY <1>4, <1>6 DEF PlayInv, FilesOK, PrepShape
<1> QED
  BY <1>7, <1>8, <1>9 DEF PlayInv

LEMMA RestartKeeps ==
    ASSUME PlayInv, Restart
    PROVE  PlayInv'
<1>1. ShapesOK /\ PrepShape /\ file \in [Tokens -> Files]
  BY Known DEF PlayInv, ShapesOK, PrepShape
<1>2. PrepShape' /\ published' = published /\ UNCHANGED <<now, setup, tab>>
  BY <1>1 DEF Restart, Prep!Interrupt, PrepShape, ReadyOK
<1>3. \A u \in Tokens : /\ file'[u] = [file[u] EXCEPT !.indexed = FALSE]
                        /\ file'[u] \in Files
                        /\ file'[u].here = file[u].here
                        /\ file'[u].stored = file[u].stored
  BY <1>1 DEF Restart, Files
<1>4. file' \in [Tokens -> Files]
  BY <1>3 DEF Restart
<1>5. FilesOK'
  BY <1>1, <1>2, <1>3 DEF FilesOK, PlayInv, PrepShape
<1>6. \A k \in Chains : chain'[k] \in Chain /\ Follows(k)
  <2> SUFFICES ASSUME NEW k \in Chains
               PROVE  chain'[k] \in Chain /\ Follows(k)
    OBVIOUS
  <2>1. CASE chain[k].pc = "prepare"
    <3>1. chain'[k] = [chain[k] EXCEPT !.pc = "urlError"]
      BY <2>1 DEF Restart
    <3>2. chain[k] \in Running
      BY <1>1, <2>1, ChainShape DEF ShapesOK
    <3>3. /\ chain'[k] \in Chain /\ chain'[k].pc = "urlError"
          /\ chain'[k].tab = chain[k].tab /\ chain'[k].token = chain[k].token
          /\ chain'[k].stale = chain[k].stale
      BY <3>1, <3>2 DEF Chain, Running, Stages
    <3> QED
      BY <2>1, <3>3 DEF Follows
  <2>2. CASE chain[k].pc # "prepare"
    BY <1>1, <2>2 DEF Restart, ShapesOK, Follows
  <2> QED
    BY <2>1, <2>2
<1>7. ShapesOK'
  BY <1>1, <1>2, <1>6 DEF ShapesOK, Restart
<1>8. OwnOK' /\ SignedOK' /\ PagesOK'
  BY <1>2, <1>6, <1>7, CallStep DEF Keeps
<1>9. TypeOK'
  BY <1>2, <1>4, <1>7 DEF PlayInv, TypeOK, PrepShape, ShapesOK, Page, Chain
<1> QED
  BY <1>2, <1>5, <1>8, <1>9 DEF PlayInv, PrepShape

LEMMA TickKeeps ==
    ASSUME PlayInv, Tick
    PROVE  PlayInv'
<1>1. file \in [Tokens -> Files] /\ now \in Nat /\ published \subseteq Tokens
  BY Known DEF PlayInv
<1>2. TypeOK'
  BY <1>1, TimeAssumption DEF PlayInv, TypeOK, Tick, prep
<1>3. FilesOK'
  BY <1>1, TimeAssumption DEF PlayInv, FilesOK, Tick, prep, Files
<1>4. OwnOK' /\ SignedOK' /\ PagesOK' /\ ReadyOK'
  BY DEF PlayInv, Tick, prep, OwnOK, Own, SignedOK, PagesOK, GoodPage, Given, ReadyOK
<1> QED
  BY <1>2, <1>3, <1>4 DEF PlayInv

LEMMA NextKeeps ==
    ASSUME PlayInv, Next
    PROVE  PlayInv'
<1>1. CASE \E t \in Tokens : Preparation(t)
  BY <1>1, PreparationKeeps
<1>2. CASE Restart
  BY <1>2, RestartKeeps
<1>3. CASE \E k \in Chains : Answered(k)
  BY <1>3, GotMediaKeeps, GotURLKeeps, GotAcceptedKeeps, GotStatusKeeps, PlayURLKeeps,
     AcceptKeeps, TimerKeeps DEF Answered
<1>4. CASE \E k \in Chains : PlayStatus(k) \/ Fails(k)
  BY <1>4, PlayStatusKeeps, NoMediaKeeps, NoURLKeeps, TimerKeeps, LeavesKeep DEF Fails
<1>5. CASE \E T \in Tabs : Leave(T) \/ \E t \in Tokens, k \in Chains : Open(T, t, k)
  BY <1>5, OpenKeeps, LeavesKeep
<1>6. CASE Tick
  BY <1>6, TickKeeps
<1> QED
  BY <1>1, <1>2, <1>3, <1>4, <1>5, <1>6 DEF Next

LEMMA Invariance == Init /\ [][Next]_vars => []PlayInv
<1>1. Init => PlayInv
  <2> SUFFICES ASSUME Init PROVE PlayInv
    OBVIOUS
  <2>1. TypeOK
    BY TimeAssumption DEF Init, TypeOK, Prep!Init, Files
  <2>2. OwnOK /\ SignedOK /\ PagesOK /\ ReadyOK /\ FilesOK
    BY DEF Init, OwnOK, Own, SignedOK, PagesOK, GoodPage, ReadyOK, FilesOK, Prep!Init, Idle,
       Away
  <2> QED
    BY <2>1, <2>2 DEF PlayInv
<1>2. PlayInv /\ UNCHANGED vars => PlayInv'
  BY DEF PlayInv, vars, prep, TypeOK, OwnOK, Own, SignedOK, PagesOK, GoodPage, Given, ReadyOK,
     FilesOK
<1>3. PlayInv /\ [Next]_vars => PlayInv'
  BY <1>2, NextKeeps
<1> QED
  BY <1>1, <1>3, PTL

-----------------------------------------------------------------------------
(* The theorems.                                                           *)

\* Every variable keeps its type (play.go 25-116, app.js 147-209).
THEOREM TypeCorrect == Spec => []TypeOK
<1>1. PlayInv => TypeOK
  BY DEF PlayInv
<1> QED
  BY <1>1, Invariance, PTL DEF Spec

\* What a page plays, and the failure it reports, is of the recording it shows,
\* however late the answers for an earlier page come (app.js 147-209).
THEOREM OwnPage == Spec => []PageIsOwn
<1>1. PlayInv => PageIsOwn
  BY DEF PlayInv, PagesOK, GoodPage, PageIsOwn
<1> QED
  BY <1>1, Invariance, PTL DEF Spec

\* A valid URL is refused only for a recording that was ready and has failed since, and
\* gone only when its file was left for longer than the window (play.go 41-116).
THEOREM PromptPlay == Spec => []PromptPlayWorks
<1>1. PlayInv => PromptPlayWorks
  <2> SUFFICES ASSUME PlayInv, NEW T \in Tabs,
                      tab[T].view = "player", tab[T].notice = "ready"
               PROVE  /\ Play(tab[T].url) = "conflict" => tab[T].url.token \in published
                      /\ Play(tab[T].url) = "gone" =>
                            now - file[tab[T].url.token].stored > Window
    BY DEF PromptPlayWorks
  <2> DEFINE t == tab[T].url.token
  <2>1. t \in Tokens
    BY Known, PageShape DEF PlayInv
  <2>2. Given(t)
    BY DEF PlayInv, PagesOK, GoodPage
  <2>3. Play(tab[T].url) \in {"conflict", "gone"} => t \in published
    BY <2>2 DEF Play, Given
  <2>4. Play(tab[T].url) = "gone" => ~file[t].here
    BY DEF Play
  <2> QED
    BY <2>3, <2>4 DEF PlayInv, FilesOK
<1> QED
  BY <1>1, Invariance, PTL DEF Spec
=============================================================================
