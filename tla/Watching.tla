------------------------------ MODULE Watching -------------------------------
(***************************************************************************)
(* Playback with a memory of what was watched.  A viewing is made of many  *)
(* range requests for one signed URL, with pauses between them             *)
(* (src/internal/httpserver/play.go); the cached file is served from the   *)
(* path in its row, and the cache does not learn of it.                    *)
(***************************************************************************)
EXTENDS Playback

VARIABLE
    watched     \* history: when each recording's file was last served

Never == -1

WatchInit == Init /\ watched = [t \in Tokens |-> Never]

\* A range request of the page's video that handlePlay answers with the cached file.
Watch(T) ==
    /\ tab[T].view = "player"
    /\ tab[T].notice = "ready"
    /\ LET url == tab[T].url IN
       /\ setup.mode[url.token] = "cold"
       /\ Play(url) = "ok"
       /\ watched' = [watched EXCEPT ![url.token] = now]
    /\ UNCHANGED vars

WatchNext ==
    \/ Next /\ UNCHANGED watched
    \/ \E T \in Tabs : Watch(T)

WatchSpec == WatchInit /\ [][WatchNext]_<<vars, watched>>

-----------------------------------------------------------------------------

\* What the design says of eviction ("a file accessed within the last N minutes is
\* not evicted", design.md 278) and the cache of its window ("protected: it may be
\* being watched", cache.go 129): a file served within the window is still there.
WatchedStays ==
    \A t \in Tokens :
        watched[t] # Never /\ now - watched[t] <= Window => file[t].here
=============================================================================
