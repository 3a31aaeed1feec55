------------------------------- MODULE Syncer --------------------------------
(***************************************************************************)
(* The synchronisation of the catalog with the channels                    *)
(* (src/internal/syncer/syncer.go, src/cmd/sync/main.go), with the part of *)
(* the broker that exports a channel (src/internal/broker/export.go) and   *)
(* the rows it writes (src/internal/catalog/store.go).                     *)
(*                                                                         *)
(* A run reads the largest message id it finds in the catalog, asks for    *)
(* the newer messages and upserts them one by one, oldest first.  Runs are *)
(* processes started by cron: they may overlap, be told to stop or be      *)
(* killed, while messages are posted and the application changes the cache *)
(* columns of rows.  Any call to the database or the broker may fail.      *)
(*                                                                         *)
(* What a message is called decides only its metadata and is left out.     *)
(***************************************************************************)
EXTENDS Integers

CONSTANTS
    Channels,       \* Telegram channels
    Posts,          \* channels that get messages with files
    MaxMessage,     \* bound on message ids
    Runs,           \* processes that may run at the same time
    Label,          \* where a channel comes in the order of the labels
    Healthy         \* channels whose calls succeed now and again

ASSUME MaxMessageAssumption == MaxMessage \in Nat
ASSUME PostsAssumption      == Posts \subseteq Channels
ASSUME LabelAssumption      == Label \in [Channels -> Nat]
ASSUME HealthyAssumption    == Healthy \subseteq Channels

VARIABLES
    enabled,    \* channels configured for synchronisation
    posted,     \* messages with a file, by channel
    rows,       \* the rows of telegram_media, by channel and message
    run,        \* what each process is doing
    dropped     \* history: messages whose upsert failed

vars == <<enabled, posted, rows, run, dropped>>

Messages == 1 .. MaxMessage
Keys == Channels \X Messages

\* token: the run whose random token the row has.  cache: whether the cache
\* columns are still as inserted.
Row == [token : Runs, cache : {"none", "managed"}]

\* ctxDone: the process has been told to stop.
Idle == [pc |-> "idle"]
Choosing  == [pc : {"choose"}, todo : SUBSET Channels, ctxDone : BOOLEAN]
Exporting == [pc : {"export"}, todo : SUBSET Channels, ctxDone : BOOLEAN,
              chan : Channels, since : {0} \cup Messages]
Storing   == [pc : {"store"}, todo : SUBSET Channels, ctxDone : BOOLEAN,
              chan : Channels, batch : SUBSET Messages]

TypeOK ==
    /\ enabled \in SUBSET Channels
    /\ posted \in [Channels -> SUBSET Messages]
    /\ rows \in UNION {[D -> Row] : D \in SUBSET Keys}
    /\ run \in [Runs -> {Idle} \cup Choosing \cup Exporting \cup Storing]
    /\ dropped \in SUBSET Keys

-----------------------------------------------------------------------------

Init ==
    /\ enabled = {}
    /\ posted = [c \in Channels |-> {}]
    /\ rows = [k \in {} |-> Idle]
    /\ run = [r \in Runs |-> Idle]
    /\ dropped = {}

-----------------------------------------------------------------------------
(* What happens around the runs.                                           *)

\* Ids grow; those of messages without a file are left out.
Post(c, m) ==
    /\ c \in Posts
    /\ \A n \in posted[c] : n < m
    /\ posted' = [posted EXCEPT ![c] = @ \cup {m}]
    /\ UNCHANGED <<enabled, rows, run, dropped>>

AddChannel(c) ==
    /\ c \notin enabled
    /\ enabled' = enabled \cup {c}
    /\ UNCHANGED <<posted, rows, run, dropped>>

\* The application prepares the recording for playback.
UpdateCache(k) ==
    /\ k \in DOMAIN rows
    /\ rows' = [rows EXCEPT ![k].cache = "managed"]
    /\ UNCHANGED <<enabled, posted, run, dropped>>

-----------------------------------------------------------------------------
(* The catalog.                                                            *)

Catalogued(c) == {m \in Messages : <<c, m>> \in DOMAIN rows}

\* MaxMessageID: one of these, 0 for an empty channel.
IsMax(m, S) == m \in S \cup {0} /\ \A n \in S : n <= m

\* Mutations: cache_state is inserted as null instead of its default; on a
\* conflict the row is replaced.
Upserted_Null(k, r) ==
    [j \in DOMAIN rows \cup {k} |->
        IF j \in DOMAIN rows THEN rows[j] ELSE [token |-> r, cache |-> "null"]]
Upserted_Replaces(k, r) ==
    [j \in DOMAIN rows \cup {k} |->
        IF j = k THEN [token |-> r, cache |-> "none"] ELSE rows[j]]

\* UpsertMedia: on a conflict token and cache columns stay.
Upserted(k, r) ==
    [j \in DOMAIN rows \cup {k} |->
        IF j \in DOMAIN rows THEN rows[j] ELSE [token |-> r, cache |-> "none"]]

-----------------------------------------------------------------------------
(* SyncAll.                                                                *)

StartRun(r) ==
    /\ run[r] = Idle
    /\ run' = [run EXCEPT ![r] = [pc |-> "choose", todo |-> enabled, ctxDone |-> FALSE]]
    /\ UNCHANGED <<enabled, posted, rows, dropped>>

\* On to the next channel.
Choose(r) ==
    run' = [run EXCEPT ![r] =
              [pc |-> "choose", todo |-> run[r].todo, ctxDone |-> run[r].ctxDone]]

EndRun(r) ==
    /\ run[r].pc = "choose"
    /\ run[r].todo = {} \/ run[r].ctxDone
    /\ run' = [run EXCEPT ![r] = Idle]
    /\ UNCHANGED <<enabled, posted, rows, dropped>>

\* Mutation: the first channel in error ends the whole run.
ChannelFails_EndsRun(r) == run' = [run EXCEPT ![r] = Idle]

\* An error of one channel is kept for the end and the run goes on.
ChannelFails(r) == Choose(r)

-----------------------------------------------------------------------------
(* SyncChannel.                                                            *)

\* Channels come in the order of their labels.
IsFirst(c, todo) == c \in todo /\ \A d \in todo : Label[c] <= Label[d]

ReadMax(r, c) ==
    /\ run[r].pc = "choose"
    /\ ~run[r].ctxDone
    /\ IsFirst(c, run[r].todo)
    /\ \E m \in {0} \cup Messages :
          /\ IsMax(m, Catalogued(c))
          /\ run' = [run EXCEPT ![r] =
                       [pc |-> "export", todo |-> run[r].todo \ {c}, ctxDone |-> FALSE,
                        chan |-> c, since |-> m]]
    /\ UNCHANGED <<enabled, posted, rows, dropped>>

ReadMaxFails(r, c) ==
    /\ run[r].pc = "choose"
    /\ ~run[r].ctxDone
    /\ IsFirst(c, run[r].todo)
    /\ run' = [run EXCEPT ![r] = [pc |-> "choose", todo |-> run[r].todo \ {c},
                                  ctxDone |-> FALSE]]
    /\ UNCHANGED <<enabled, posted, rows, dropped>>

\* ExportHistory: the messages newer than the offset.
ExportHistory(r, c) ==
    /\ run[r].pc = "export"
    /\ run[r].chan = c
    /\ ~run[r].ctxDone
    /\ run' = [run EXCEPT ![r] =
                 [pc |-> "store", todo |-> run[r].todo, ctxDone |-> FALSE, chan |-> c,
                  batch |-> {m \in posted[c] : m > run[r].since}]]
    /\ UNCHANGED <<enabled, posted, rows, dropped>>

ExportFails(r) ==
    /\ run[r].pc = "export"
    /\ ChannelFails(r)
    /\ UNCHANGED <<enabled, posted, rows, dropped>>

\* Mutation: newest first, as the broker's iteration meets them.
IsNext_Newest(m, batch) == m \in batch /\ \A n \in batch : n <= m

\* The export is turned round: oldest first.
IsNext(m, batch) == m \in batch /\ \A n \in batch : m <= n

Advance(r, m) == run' = [run EXCEPT ![r].batch = @ \ {m}]

UpsertMedia(r, c) ==
    /\ run[r].pc = "store"
    /\ run[r].chan = c
    /\ ~run[r].ctxDone
    /\ \E m \in run[r].batch :
          /\ IsNext(m, run[r].batch)
          /\ rows' = Upserted(<<c, m>>, r)
          /\ Advance(r, m)
    /\ UNCHANGED <<enabled, posted, dropped>>

\* Counted, logged and passed over, like a message no token could be made for.
\* The statement may have been carried out although its answer was lost.  One
\* that fails because the run is told to stop is the last of its run anyway.
UpsertFails(r) ==
    /\ run[r].pc = "store"
    /\ ~run[r].ctxDone
    /\ \E m \in run[r].batch :
          /\ IsNext(m, run[r].batch)
          /\ dropped' = dropped \cup {<<run[r].chan, m>>}
          /\ rows' \in {rows, Upserted(<<run[r].chan, m>>, r)}
          /\ Advance(r, m)
    /\ UNCHANGED <<enabled, posted>>

EndChannel(r) ==
    /\ run[r].pc = "store"
    /\ run[r].batch = {} \/ run[r].ctxDone
    /\ Choose(r)
    /\ UNCHANGED <<enabled, posted, rows, dropped>>

-----------------------------------------------------------------------------
(* A run is told to stop, or killed.                                       *)

Cancel(r) ==
    /\ run[r] # Idle
    /\ ~run[r].ctxDone
    /\ run' = [run EXCEPT ![r].ctxDone = TRUE]
    /\ UNCHANGED <<enabled, posted, rows, dropped>>

Kill(r) ==
    /\ run[r] # Idle
    /\ run' = [run EXCEPT ![r] = Idle]
    /\ UNCHANGED <<enabled, posted, rows, dropped>>

-----------------------------------------------------------------------------

\* What a run does without the broker.
OwnStep(r) ==
    \/ EndRun(r)
    \/ \E c \in Channels : ReadMax(r, c) \/ ReadMaxFails(r, c) \/ UpsertMedia(r, c)
    \/ UpsertFails(r)
    \/ EndChannel(r)

RunStep(r) ==
    \/ OwnStep(r)
    \/ \E c \in Channels : ExportHistory(r, c)
    \/ ExportFails(r)

Next ==
    \/ \E c \in Channels, m \in Messages : Post(c, m)
    \/ \E c \in Channels : AddChannel(c)
    \/ \E k \in Keys : UpdateCache(k)
    \/ \E r \in Runs : StartRun(r) \/ RunStep(r) \/ Cancel(r) \/ Kill(r)

Spec == Init /\ [][Next]_vars

(***************************************************************************)
(* Cron starts the runs again and again (README.md 69), the database       *)
(* answers, one way or another, and runs are cut off finitely often.  A    *)
(* call that is made again and again for a healthy channel does not fail   *)
(* for ever.  Nothing makes the export of another channel return:          *)
(* the client has no timeout (client.go 28) and the context no deadline.   *)
(* (The step by which a run ends looks like its being killed.)             *)
(***************************************************************************)
Fairness ==
    /\ \A r \in Runs :
          /\ WF_vars(StartRun(r))
          /\ WF_vars(OwnStep(r))
          /\ \A c \in Healthy :
                /\ SF_vars(ReadMax(r, c))
                /\ SF_vars(ExportHistory(r, c))
                /\ SF_vars(UpsertMedia(r, c))
    /\ <>[][\A r \in Runs : Cancel(r) \/ Kill(r) => RunStep(r)]_vars

FairSpec == Spec /\ Fairness

-----------------------------------------------------------------------------
(* Properties.                                                             *)

\* The offset of the next run hides nothing: below a catalogued message every
\* posted one is catalogued too, unless its own upsert failed -- however runs
\* overlap, stop half-way or are killed (syncer.go 112-150, export.go 55-58).
OffsetSafe ==
    \A c \in Channels : \A p \in posted[c], q \in Catalogued(c) :
        p < q => p \in Catalogued(c) \/ <<c, p>> \in dropped

\* A run never removes a row that is there, nor changes its token or its cache
\* columns, although an overlapping run may have inserted the row, and playback
\* prepared it, after this one read its offset (store.go 91-122).
SyncKeepsRows ==
    [][\A r \in Runs : RunStep(r) =>
          \A k \in DOMAIN rows : k \in DOMAIN rows' /\ rows'[k] = rows[k]]_vars

\* A message that is out of reach of any later run: dropped, with a newer one
\* of its channel catalogued.
Lost(c, m) == <<c, m>> \in dropped /\ \E q \in Catalogued(c) : m < q

\* There is a process that does not wait for one export for ever.  A process that
\* does never comes to the channels after it.
Unblocked == \E r \in Runs : []<>(run[r].pc # "export")

\* As long as some process is not held up by an export that never returns, a message
\* of a healthy channel is catalogued or lost in the end, however often the exports
\* of other channels fail (syncer.go 93-105).
EventuallySettled ==
    Unblocked =>
        \A c \in Healthy, m \in Messages :
            m \in posted[c] /\ c \in enabled ~> m \in Catalogued(c) \/ Lost(c, m)

\* README.md 69: for a periodic synchronisation it is enough to have cron call
\* run.  Every message of a healthy channel is catalogued in the end, as long as
\* some process is not held up for ever.
PeriodicRunsSuffice ==
    Unblocked =>
        \A c \in Healthy, m \in Messages :
            m \in posted[c] /\ c \in enabled ~> m \in Catalogued(c)
=============================================================================
