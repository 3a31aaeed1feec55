---------------------------- MODULE Syncer_proofs ----------------------------
(***************************************************************************)
(* Proofs about the synchronisation: types, that no offset hides a posted  *)
(* message (OffsetSafe), that a run leaves the rows that are there alone   *)
(* (SyncKeepsRows), and that a message which was passed over stays out of  *)
(* the catalog for good (MissedForGood).                                   *)
(*                                                                         *)
(* OffsetSafe is not inductive.  What carries it: the catalog holds posted *)
(* messages only; the offset a run exports from is 0 or catalogued; and    *)
(* whatever lies below a message still to be stored is either settled or   *)
(* stored before it.                                                       *)
(***************************************************************************)
EXTENDS Syncer, TLAPS

Settled(c, m) == m \in Catalogued(c) \/ <<c, m>> \in dropped

PostedOnly == \A c \in Channels : Catalogued(c) \subseteq posted[c]

SinceKnown ==
    \A r \in Runs : run[r].pc = "export" =>
        run[r].since \in {0} \cup Catalogued(run[r].chan)

BatchReaches ==
    \A r \in Runs : run[r].pc = "store" =>
        /\ run[r].batch \subseteq posted[run[r].chan]
        /\ \A m \in run[r].batch, p \in posted[run[r].chan] :
              p < m => Settled(run[r].chan, p) \/ p \in run[r].batch

OffsetInv == TypeOK /\ PostedOnly /\ OffsetSafe /\ SinceKnown /\ BatchReaches

-----------------------------------------------------------------------------
(* The shape of the steps.                                                 *)

\* The rows are a function from some keys to rows.
LEMMA RowsShape ==
    ASSUME NEW f
    PROVE  f \in UNION {[D -> Row] : D \in SUBSET Keys}
             <=> f \in [DOMAIN f -> Row] /\ DOMAIN f \subseteq Keys
  OBVIOUS

\* What a run is doing, by its phase.
LEMMA PhaseShape ==
    ASSUME TypeOK, NEW r \in Runs
    PROVE  /\ run[r].pc = "idle" => run[r] = Idle
           /\ run[r].pc = "choose" => run[r] \in Choosing
           /\ run[r].pc = "export" => run[r] \in Exporting
           /\ run[r].pc = "store" => run[r] \in Storing
           /\ run[r].pc \in {"idle", "choose", "export", "store"}
  BY DEF TypeOK, Idle, Choosing, Exporting, Storing

\* An upsert leaves the rows well typed, keeps those there are and adds its own.
LEMMA UpsertShape ==
    ASSUME TypeOK, NEW k \in Keys, NEW r \in Runs
    PROVE  /\ Upserted(k, r) \in UNION {[D -> Row] : D \in SUBSET Keys}
           /\ DOMAIN Upserted(k, r) = DOMAIN rows \cup {k}
           /\ \A j \in DOMAIN rows : Upserted(k, r)[j] = rows[j]
<1>1. rows \in [DOMAIN rows -> Row] /\ DOMAIN rows \subseteq Keys
  BY RowsShape DEF TypeOK
<1>2. [token |-> r, cache |-> "none"] \in Row
  BY DEF Row
<1>3. Upserted(k, r) \in [DOMAIN rows \cup {k} -> Row]
  BY <1>1, <1>2 DEF Upserted
<1>4. DOMAIN Upserted(k, r) = DOMAIN rows \cup {k}
  BY DEF Upserted
<1>5. \A j \in DOMAIN rows : Upserted(k, r)[j] = rows[j]
  BY DEF Upserted
<1> QED
  BY <1>1, <1>3, <1>4, <1>5, RowsShape

\* An upsert goes to a key and advances its run past it.
LEMMA UpsertStep ==
    ASSUME TypeOK, NEW r \in Runs, NEW c, run[r].pc = "store", run[r].chan = c,
           NEW m \in run[r].batch, Advance(r, m)
    PROVE  /\ <<c, m>> \in Keys
           /\ run[r] \in Storing
           /\ run' = [run EXCEPT ![r] =
                        [pc |-> "store", todo |-> run[r].todo, ctxDone |-> run[r].ctxDone,
                         chan |-> c, batch |-> run[r].batch \ {m}]]
           /\ run'[r] \in Storing
<1>1. run[r] \in Storing
  BY PhaseShape
<1>2. c \in Channels /\ m \in Messages
  BY <1>1 DEF Storing
<1>3. [run[r] EXCEPT !.batch = @ \ {m}] =
        [pc |-> "store", todo |-> run[r].todo, ctxDone |-> run[r].ctxDone,
         chan |-> c, batch |-> run[r].batch \ {m}]
  BY <1>1 DEF Storing
<1>4. run' = [run EXCEPT ![r] = [run[r] EXCEPT !.batch = @ \ {m}]]
  BY DEF Advance
<1>5. run'[r] = [run[r] EXCEPT !.batch = @ \ {m}]
  BY <1>4 DEF TypeOK
<1>6. [run[r] EXCEPT !.batch = @ \ {m}] \in Storing
  BY <1>1 DEF Storing
<1> QED
  BY <1>1, <1>2, <1>3, <1>4, <1>5, <1>6 DEF Keys

\* A run in the middle of a channel goes on to the next one with what it has.
LEMMA ChooseStep ==
    ASSUME TypeOK, NEW r \in Runs, run[r].pc # "idle", Choose(r)
    PROVE  run'[r] \in Choosing
<1>1. run[r].todo \in SUBSET Channels /\ run[r].ctxDone \in BOOLEAN
  BY PhaseShape DEF Choosing, Exporting, Storing
<1>2. run'[r] = [pc |-> "choose", todo |-> run[r].todo, ctxDone |-> run[r].ctxDone]
  BY DEF Choose, TypeOK
<1> QED
  BY <1>1, <1>2 DEF Choosing

-----------------------------------------------------------------------------
(* Type correctness.                                                       *)

LEMMA InitType == Init => TypeOK
<1> SUFFICES ASSUME Init PROVE TypeOK
  OBVIOUS
<1>1. rows \in [{} -> Row] /\ DOMAIN rows = {}
  BY DEF Init
<1>2. rows \in UNION {[D -> Row] : D \in SUBSET Keys}
  BY <1>1, RowsShape
<1> QED
  BY <1>2 DEF Init, TypeOK

\* What the steps of a run do to the types.
LEMMA RunStepType ==
    ASSUME TypeOK, NEW r \in Runs, RunStep(r)
    PROVE  TypeOK'
<1> DEFINE Runnings == {Idle} \cup Choosing \cup Exporting \cup Storing
<1>0. \A v : v \in Runnings /\ run' = [run EXCEPT ![r] = v] => run' \in [Runs -> Runnings]
  BY DEF TypeOK
<1>1. CASE EndRun(r)
  BY <1>0, <1>1 DEF EndRun, TypeOK
<1>2. ASSUME NEW c \in Channels, ReadMax(r, c) PROVE TypeOK'
  <2>1. run[r] \in Choosing
    BY <1>2, PhaseShape DEF ReadMax
  <2>2. PICK m \in {0} \cup Messages :
           run' = [run EXCEPT ![r] =
                     [pc |-> "export", todo |-> run[r].todo \ {c}, ctxDone |-> FALSE,
                      chan |-> c, since |-> m]]
    BY <1>2 DEF ReadMax
  <2>3. [pc |-> "export", todo |-> run[r].todo \ {c}, ctxDone |-> FALSE,
         chan |-> c, since |-> m] \in Exporting
    BY <2>1 DEF Choosing, Exporting
  <2> QED
    BY <1>0, <1>2, <2>2, <2>3 DEF ReadMax, TypeOK
<1>3. ASSUME NEW c \in Channels, ReadMaxFails(r, c) PROVE TypeOK'
  <2>1. run[r] \in Choosing
    BY <1>3, PhaseShape DEF ReadMaxFails
  <2>2. [pc |-> "choose", todo |-> run[r].todo \ {c}, ctxDone |-> FALSE] \in Choosing
    BY <2>1 DEF Choosing
  <2> QED
    BY <1>0, <1>3, <2>2 DEF ReadMaxFails, TypeOK
<1>4. ASSUME NEW c \in Channels, ExportHistory(r, c) PROVE TypeOK'
  <2>1. run[r] \in Exporting
    BY <1>4, PhaseShape DEF ExportHistory
  <2>2. {m \in posted[c] : m > run[r].since} \subseteq Messages
    BY DEF TypeOK
  <2>3. [pc |-> "store", todo |-> run[r].todo, ctxDone |-> FALSE, chan |-> c,
         batch |-> {m \in posted[c] : m > run[r].since}] \in Storing
    BY <2>1, <2>2 DEF Exporting, Storing
  <2> QED
    BY <1>0, <1>4, <2>3 DEF ExportHistory, TypeOK
<1>5. ASSUME NEW c \in Channels, UpsertMedia(r, c) PROVE TypeOK'
  <2>1. PICK m \in run[r].batch : rows' = Upserted(<<c, m>>, r) /\ Advance(r, m)
    BY <1>5 DEF UpsertMedia
  <2>2. <<c, m>> \in Keys /\ run'[r] \in Storing
    BY <1>5, <2>1, UpsertStep DEF UpsertMedia
  <2>3. Upserted(<<c, m>>, r) \in UNION {[D -> Row] : D \in SUBSET Keys}
    BY <2>2, UpsertShape
  <2>4. run' = [run EXCEPT ![r] = run'[r]]
    BY <2>1 DEF Advance, TypeOK
  <2> QED
    BY <1>0, <1>5, <2>1, <2>2, <2>3, <2>4 DEF UpsertMedia, TypeOK
<1>6. CASE ExportFails(r)
  <2>1. run'[r] \in Choosing
    BY <1>6, ChooseStep DEF ExportFails, ChannelFails
  <2>2. run' = [run EXCEPT ![r] = run'[r]]
    BY <1>6 DEF ExportFails, ChannelFails, Choose, TypeOK
  <2> QED
    BY <1>0, <1>6, <2>1, <2>2 DEF ExportFails, TypeOK
<1>7. CASE UpsertFails(r)
  <2>1. PICK m \in run[r].batch :
           /\ dropped' = dropped \cup {<<run[r].chan, m>>}
           /\ rows' \in {rows, Upserted(<<run[r].chan, m>>, r)}
           /\ Advance(r, m)
    BY <1>7 DEF UpsertFails
  <2>2. <<run[r].chan, m>> \in Keys /\ run'[r] \in Storing
    BY <1>7, <2>1, UpsertStep DEF UpsertFails
  <2>3. /\ rows \in UNION {[D -> Row] : D \in SUBSET Keys}
        /\ Upserted(<<run[r].chan, m>>, r) \in UNION {[D -> Row] : D \in SUBSET Keys}
    BY <2>2, UpsertShape DEF TypeOK
  <2>4. run' = [run EXCEPT ![r] = run'[r]]
    BY <2>1 DEF Advance, TypeOK
  <2>5. dropped' \in SUBSET Keys
    BY <2>1, <2>2 DEF TypeOK
  <2> QED
    BY <1>0, <1>7, <2>1, <2>2, <2>3, <2>4, <2>5 DEF UpsertFails, TypeOK
<1>8. CASE EndChannel(r)
  <2>1. run'[r] \in Choosing
    BY <1>8, ChooseStep DEF EndChannel
  <2>2. run' = [run EXCEPT ![r] = run'[r]]
    BY <1>8 DEF EndChannel, Choose, TypeOK
  <2> QED
    BY <1>0, <1>8, <2>1, <2>2 DEF EndChannel, TypeOK
<1> QED
  BY <1>1, <1>2, <1>3, <1>4, <1>5, <1>6, <1>7, <1>8 DEF RunStep, OwnStep

LEMMA ChannelType ==
    ASSUME TypeOK, NEW c \in Channels,
           AddChannel(c) \/ \E m \in Messages : Post(c, m)
    PROVE  TypeOK'
BY DEF TypeOK, Post, AddChannel

\* A row stays a row when its cache columns change.
LEMMA UpdateType ==
    ASSUME TypeOK, NEW k \in Keys, UpdateCache(k)
    PROVE  TypeOK' /\ DOMAIN rows' = DOMAIN rows
<1>1. rows \in [DOMAIN rows -> Row] /\ DOMAIN rows \subseteq Keys /\ k \in DOMAIN rows
  BY RowsShape DEF TypeOK, UpdateCache
<1>2. [rows[k] EXCEPT !.cache = "managed"] \in Row
  BY <1>1 DEF Row
<1>3. rows' = [rows EXCEPT ![k] = [rows[k] EXCEPT !.cache = "managed"]]
  BY DEF UpdateCache
<1>4. rows' \in [DOMAIN rows -> Row] /\ DOMAIN rows' = DOMAIN rows
  BY <1>1, <1>2, <1>3
<1>5. rows' \in UNION {[D -> Row] : D \in SUBSET Keys}
  BY <1>1, <1>4, RowsShape
<1> QED
  BY <1>4, <1>5 DEF TypeOK, UpdateCache

LEMMA RunType ==
    ASSUME TypeOK, NEW r \in Runs, StartRun(r) \/ Cancel(r) \/ Kill(r)
    PROVE  TypeOK'
<1> DEFINE Runnings == {Idle} \cup Choosing \cup Exporting \cup Storing
<1>0. \A v : v \in Runnings /\ run' = [run EXCEPT ![r] = v] => run' \in [Runs -> Runnings]
  BY DEF TypeOK
<1>1. CASE StartRun(r)
  <2>1. [pc |-> "choose", todo |-> enabled, ctxDone |-> FALSE] \in Choosing
    BY DEF Choosing, TypeOK
  <2> QED
    BY <1>0, <1>1, <2>1 DEF StartRun, TypeOK
<1>2. CASE Cancel(r)
  <2>1. run[r] \in Choosing \cup Exporting \cup Storing
    BY <1>2 DEF Cancel, TypeOK
  <2>2. [run[r] EXCEPT !.ctxDone = TRUE] \in Choosing \cup Exporting \cup Storing
    BY <2>1 DEF Choosing, Exporting, Storing
  <2> QED
    BY <1>0, <1>2, <2>2 DEF Cancel, TypeOK
<1>3. CASE Kill(r)
  BY <1>0, <1>3 DEF Kill, TypeOK
<1> QED
  BY <1>1, <1>2, <1>3

LEMMA StepType == TypeOK /\ [Next]_vars => TypeOK'
<1> SUFFICES ASSUME TypeOK, [Next]_vars PROVE TypeOK'
  OBVIOUS
<1>1. CASE UNCHANGED vars
  BY <1>1 DEF TypeOK, vars
<1>2. CASE Next
  BY <1>2, ChannelType, UpdateType, RunType, RunStepType DEF Next
<1> QED
  BY <1>1, <1>2

\* Every variable has its type: no row has a cache state the application does
\* not know, whoever inserted it (store.go 97-122).
THEOREM TypeCorrect == Spec => []TypeOK
<1>1. Init => TypeOK
  BY InitType
<1>2. TypeOK /\ [Next]_vars => TypeOK'
  BY StepType
<1> QED
  BY <1>1, <1>2, PTL DEF Spec

-----------------------------------------------------------------------------
(* Offsets.                                                                *)

LEMMA InitOffsets == Init => OffsetInv
<1> SUFFICES ASSUME Init PROVE OffsetInv
  OBVIOUS
<1>1. TypeOK
  BY InitType
<1>2. \A c \in Channels : Catalogued(c) = {}
  BY DEF Init, Catalogued
<1>3. \A r \in Runs : run[r].pc = "idle"
  BY DEF Init, Idle
<1> QED
  BY <1>1, <1>2, <1>3 DEF OffsetInv, PostedOnly, OffsetSafe, SinceKnown, BatchReaches

\* What is catalogued or settled stays so while the rows and the failures grow.
LEMMA SettledStays ==
    ASSUME DOMAIN rows \subseteq DOMAIN rows', dropped \subseteq dropped', NEW c
    PROVE  /\ Catalogued(c) \subseteq Catalogued(c)'
           /\ \A m : Settled(c, m) => Settled(c, m)'
BY DEF Catalogued, Settled

\* OffsetSafe says that what lies below a catalogued message is settled.
LEMMA BelowCatalogued ==
    OffsetSafe <=> \A c \in Channels : \A p \in posted[c], q \in Catalogued(c) :
                      p < q => Settled(c, p)
BY DEF OffsetSafe, Settled

\* A step that changes neither the messages nor which of them are catalogued, and
\* begins no export, keeps the invariant.
LEMMA Frame ==
    ASSUME OffsetInv, TypeOK', posted' = posted, DOMAIN rows' = DOMAIN rows,
           dropped' = dropped,
           \A r \in Runs : run'[r].pc = "export" =>
              /\ run[r].pc = "export"
              /\ run'[r].chan = run[r].chan
              /\ run'[r].since = run[r].since,
           \A r \in Runs : run'[r].pc = "store" =>
              /\ run[r].pc = "store"
              /\ run'[r].chan = run[r].chan
              /\ run'[r].batch = run[r].batch
    PROVE  OffsetInv'
<1>1. \A c : Catalogued(c)' = Catalogued(c)
  BY DEF Catalogued
<1>2. \A c, m : Settled(c, m)' = Settled(c, m)
  BY <1>1 DEF Settled
<1>3. PostedOnly'
  BY <1>1 DEF OffsetInv, PostedOnly
<1>4. OffsetSafe'
  BY <1>1 DEF OffsetInv, OffsetSafe
<1>5. SinceKnown'
  BY <1>1 DEF OffsetInv, SinceKnown
<1>6. BatchReaches'
  BY <1>2 DEF OffsetInv, BatchReaches
<1> QED
  BY <1>3, <1>4, <1>5, <1>6 DEF OffsetInv

\* A new message is above all others: nothing catalogued or exported hides it.
LEMMA PostOffsets ==
    ASSUME OffsetInv, TypeOK', NEW c \in Channels, NEW n \in Messages, Post(c, n)
    PROVE  OffsetInv'
<1>0. /\ TypeOK /\ run' = run /\ rows' = rows /\ dropped' = dropped
      /\ \A p \in posted[c] : p < n
      /\ posted'[c] = posted[c] \cup {n}
      /\ \A d \in Channels : d # c => posted'[d] = posted[d]
  BY DEF OffsetInv, Post, TypeOK
<1>1. \A d : Catalogued(d)' = Catalogued(d)
  BY <1>0 DEF Catalogued
<1>2. \A d, m : Settled(d, m)' = Settled(d, m)
  BY <1>0, <1>1 DEF Settled
<1>3. PostedOnly'
  BY <1>0, <1>1 DEF OffsetInv, PostedOnly
<1>4. \A d \in Channels : posted[d] \subseteq Messages
  BY <1>0 DEF TypeOK
<1>5. ASSUME NEW S, S \subseteq posted[c], NEW m \in S PROVE ~(n < m)
  <2>1. m < n /\ m \in Int /\ n \in Int
    BY <1>0, <1>4, <1>5 DEF Messages
  <2> QED
    BY <2>1
<1>6. OffsetSafe'
  <2> SUFFICES ASSUME NEW d \in Channels, NEW p \in posted'[d], NEW q \in Catalogued(d), p < q
               PROVE  p \in Catalogued(d) \/ <<d, p>> \in dropped
    BY <1>0, <1>1 DEF OffsetSafe
  <2>1. p \in posted[d]
    BY <1>0, <1>5 DEF OffsetInv, PostedOnly
  <2> QED
    BY <2>1 DEF OffsetInv, OffsetSafe
<1>7. SinceKnown'
  BY <1>0, <1>1 DEF OffsetInv, SinceKnown
<1>8. BatchReaches'
  <2> SUFFICES ASSUME NEW r \in Runs, run[r].pc = "store"
               PROVE  /\ run[r].batch \subseteq posted'[run[r].chan]
                      /\ \A m \in run[r].batch, p \in posted'[run[r].chan] :
                            p < m => Settled(run[r].chan, p) \/ p \in run[r].batch
    BY <1>0, <1>2 DEF BatchReaches
  <2>1. run[r].chan \in Channels
    BY <1>0, PhaseShape DEF Storing
  <2>2. run[r].batch \subseteq posted[run[r].chan]
    BY DEF OffsetInv, BatchReaches
  <2>3. ASSUME NEW m \in run[r].batch, NEW p \in posted'[run[r].chan], p < m
        PROVE  Settled(run[r].chan, p) \/ p \in run[r].batch
    <3>1. p \in posted[run[r].chan]
      BY <1>0, <1>5, <2>1, <2>2, <2>3
    <3> QED
      BY <2>3, <3>1 DEF OffsetInv, BatchReaches
  <2> QED
    BY <1>0, <2>1, <2>2, <2>3
<1> QED
  BY <1>3, <1>6, <1>7, <1>8 DEF OffsetInv

LEMMA ReadMaxOffsets ==
    ASSUME OffsetInv, TypeOK', NEW r \in Runs, NEW c \in Channels, ReadMax(r, c)
    PROVE  OffsetInv'
<1>0. TypeOK /\ rows' = rows /\ posted' = posted /\ dropped' = dropped
  BY DEF OffsetInv, ReadMax
<1>1. \A d : Catalogued(d)' = Catalogued(d)
  BY <1>0 DEF Catalogued
<1>2. \A d, m : Settled(d, m)' = Settled(d, m)
  BY <1>0, <1>1 DEF Settled
<1>3. PICK m \in {0} \cup Messages :
         /\ IsMax(m, Catalogued(c))
         /\ run' = [run EXCEPT ![r] =
                      [pc |-> "export", todo |-> run[r].todo \ {c}, ctxDone |-> FALSE,
                       chan |-> c, since |-> m]]
  BY DEF ReadMax
<1>4. /\ run'[r].pc = "export" /\ run'[r].chan = c /\ run'[r].since = m
      /\ \A q \in Runs : q # r => run'[q] = run[q]
  BY <1>0, <1>3 DEF TypeOK
<1>5. m \in {0} \cup Catalogued(c)
  BY <1>3 DEF IsMax
<1>6. SinceKnown'
  BY <1>1, <1>4, <1>5 DEF OffsetInv, SinceKnown
<1>7. BatchReaches'
  BY <1>0, <1>2, <1>4 DEF OffsetInv, BatchReaches
<1>8. PostedOnly' /\ OffsetSafe'
  BY <1>0, <1>1 DEF OffsetInv, PostedOnly, OffsetSafe
<1> QED
  BY <1>6, <1>7, <1>8 DEF OffsetInv

\* What lies below an exported message is exported too, or is the offset or lies
\* below it.
LEMMA ExportOffsets ==
    ASSUME OffsetInv, TypeOK', NEW r \in Runs, NEW c \in Channels, ExportHistory(r, c)
    PROVE  OffsetInv'
<1> DEFINE B == {m \in posted[c] : m > run[r].since}
<1>0. TypeOK /\ rows' = rows /\ posted' = posted /\ dropped' = dropped
  BY DEF OffsetInv, ExportHistory
<1>1. \A d : Catalogued(d)' = Catalogued(d)
  BY <1>0 DEF Catalogued
<1>2. \A d, m : Settled(d, m)' = Settled(d, m)
  BY <1>0, <1>1 DEF Settled
<1>3. run[r].pc = "export" /\ run[r].chan = c
  BY DEF ExportHistory
<1>4. /\ run'[r].pc = "store" /\ run'[r].chan = c /\ run'[r].batch = B
      /\ \A q \in Runs : q # r => run'[q] = run[q]
  BY <1>0 DEF ExportHistory, TypeOK
<1>5. ASSUME NEW m \in B, NEW p \in posted[c], p < m PROVE Settled(c, p) \/ p \in B
  <2>1. run[r].since \in {0} \cup Catalogued(c)
    BY <1>3 DEF OffsetInv, SinceKnown
  <2>2. p \in 1 .. MaxMessage
    BY <1>0 DEF TypeOK, Messages
  <2>3. run[r].since \in Int
    BY <2>1 DEF Catalogued, Messages
  <2>4. CASE p > run[r].since
    BY <2>4
  <2>5. CASE p = run[r].since
    BY <2>1, <2>2, <2>5 DEF Settled
  <2>6. CASE p < run[r].since
    <3>1. run[r].since \in Catalogued(c)
      BY <2>1, <2>2, <2>6
    <3> QED
      BY <2>6, <3>1, BelowCatalogued DEF OffsetInv
  <2> QED
    BY <2>2, <2>3, <2>4, <2>5, <2>6
<1> HIDE DEF B
<1>6. B \subseteq posted[c]
  BY DEF B
<1>7. BatchReaches'
  BY <1>0, <1>2, <1>4, <1>5, <1>6 DEF OffsetInv, BatchReaches
<1>8. SinceKnown'
  BY <1>1, <1>4 DEF OffsetInv, SinceKnown
<1>9. PostedOnly' /\ OffsetSafe'
  BY <1>0, <1>1 DEF OffsetInv, PostedOnly, OffsetSafe
<1> QED
  BY <1>7, <1>8, <1>9 DEF OffsetInv

\* Whatever becomes of the oldest message of a batch, it is settled after that,
\* and if it is catalogued all below it already was settled.
LEMMA StoreOffsets ==
    ASSUME OffsetInv, TypeOK', NEW r \in Runs, NEW c \in Channels,
           run[r].pc = "store", run[r].chan = c,
           NEW m \in run[r].batch, IsNext(m, run[r].batch), Advance(r, m),
           rows' \in {rows, Upserted(<<c, m>>, r)},
           dropped \subseteq dropped', posted' = posted, Settled(c, m)'
    PROVE  OffsetInv'
<1>0. TypeOK
  BY DEF OffsetInv
<1>1. <<c, m>> \in Keys
  BY <1>0, UpsertStep
<1>2. DOMAIN rows \subseteq DOMAIN rows' /\ DOMAIN rows' \subseteq DOMAIN rows \cup {<<c, m>>}
  BY <1>0, <1>1, UpsertShape
<1>3. \A d : /\ Catalogued(d) \subseteq Catalogued(d)'
             /\ \A n : Settled(d, n) => Settled(d, n)'
  BY <1>2, SettledStays
<1>4. \A d : \A n \in Catalogued(d)' : n \in Catalogued(d) \/ (d = c /\ n = m)
  BY <1>2 DEF Catalogued
<1>5. /\ run'[r].pc = "store" /\ run'[r].chan = c /\ run'[r].batch = run[r].batch \ {m}
      /\ \A q \in Runs : q # r => run'[q] = run[q]
  BY <1>0, UpsertStep DEF TypeOK
<1>6. run[r].batch \subseteq posted[c]
  BY DEF OffsetInv, BatchReaches
<1>7. ASSUME NEW p \in posted[c], p < m PROVE Settled(c, p)
  <2>1. p \in Int /\ m \in Int
    BY <1>0, <1>6 DEF TypeOK, Messages
  <2>2. p \notin run[r].batch
    BY <1>7, <2>1 DEF IsNext
  <2> QED
    BY <1>7, <2>2 DEF OffsetInv, BatchReaches
<1>8. PostedOnly'
  BY <1>4, <1>6 DEF OffsetInv, PostedOnly
<1>9. OffsetSafe'
  <2> SUFFICES ASSUME NEW d \in Channels, NEW p \in posted[d], NEW q \in Catalogued(d)', p < q
               PROVE  Settled(d, p)'
    BY DEF OffsetSafe, Settled
  <2>1. CASE q \in Catalogued(d)
    BY <1>3, <2>1, BelowCatalogued DEF OffsetInv
  <2>2. CASE d = c /\ q = m
    BY <1>3, <1>7, <2>2
  <2> QED
    BY <1>4, <2>1, <2>2
<1>10. SinceKnown'
  BY <1>3, <1>5 DEF OffsetInv, SinceKnown
<1>11. BatchReaches'
  <2> SUFFICES ASSUME NEW q \in Runs, NEW d, run'[q].pc = "store", run'[q].chan = d
               PROVE  /\ run'[q].batch \subseteq posted[d]
                      /\ \A n \in run'[q].batch, p \in posted[d] :
                            p < n => Settled(d, p)' \/ p \in run'[q].batch
    BY DEF BatchReaches, Settled, Catalogued
  <2>1. CASE q = r
    <3>1. ASSUME NEW n \in run[r].batch, NEW p \in posted[c], p < n
          PROVE  Settled(c, p)' \/ p \in run[r].batch \ {m}
      BY <1>3, <3>1 DEF OffsetInv, BatchReaches
    <3> QED
      BY <1>5, <1>6, <2>1, <3>1
  <2>2. CASE q # r
    BY <1>3, <1>5, <2>2 DEF OffsetInv, BatchReaches
  <2> QED
    BY <2>1, <2>2
<1> QED
  BY <1>8, <1>9, <1>10, <1>11 DEF OffsetInv

\* Steps after which the run exports nothing new.
LEMMA QuietOffsets ==
    ASSUME OffsetInv, TypeOK', NEW r \in Runs,
           \/ StartRun(r) \/ EndRun(r) \/ Kill(r) \/ Cancel(r)
           \/ ExportFails(r) \/ EndChannel(r)
           \/ \E c \in Channels : ReadMaxFails(r, c)
    PROVE  OffsetInv'
<1>0. TypeOK
  BY DEF OffsetInv
<1>1. posted' = posted /\ rows' = rows /\ dropped' = dropped
  BY DEF StartRun, EndRun, Kill, Cancel, ExportFails, EndChannel, ReadMaxFails
<1>2. \A q \in Runs : q # r => run'[q] = run[q]
  BY <1>0 DEF StartRun, EndRun, Kill, Cancel, ExportFails, EndChannel, ReadMaxFails,
     ChannelFails, Choose, TypeOK
<1>3. CASE Cancel(r)
  <2>1. run'[r] = [run[r] EXCEPT !.ctxDone = TRUE]
    BY <1>0, <1>3 DEF Cancel, TypeOK
  <2>2. run[r] \in Choosing \cup Exporting \cup Storing
    BY <1>0, <1>3 DEF Cancel, TypeOK
  <2>3. /\ run'[r].pc = run[r].pc
        /\ run[r].pc = "export" => run'[r].chan = run[r].chan /\ run'[r].since = run[r].since
        /\ run[r].pc = "store" => run'[r].chan = run[r].chan /\ run'[r].batch = run[r].batch
    BY <2>1, <2>2 DEF Choosing, Exporting, Storing
  <2> QED
    BY <1>1, <1>2, <2>3, Frame
<1>4. CASE ~Cancel(r)
  <2>1. run'[r].pc \in {"idle", "choose"}
    BY <1>0, <1>4 DEF StartRun, EndRun, Kill, ExportFails, EndChannel, ReadMaxFails,
       ChannelFails, Choose, TypeOK, Idle
  <2> QED
    BY <1>1, <1>2, <2>1, Frame
<1> QED
  BY <1>3, <1>4

LEMMA StepOffsets == OffsetInv /\ [Next]_vars => OffsetInv'
<1> SUFFICES ASSUME OffsetInv, [Next]_vars PROVE OffsetInv'
  OBVIOUS
<1>0. TypeOK /\ TypeOK'
  BY StepType DEF OffsetInv
<1>1. CASE UNCHANGED vars
  BY <1>0, <1>1, Frame DEF vars
<1>2. ASSUME NEW c \in Channels, NEW m \in Messages, Post(c, m) PROVE OffsetInv'
  BY <1>0, <1>2, PostOffsets
<1>3. ASSUME NEW c \in Channels, AddChannel(c) PROVE OffsetInv'
  BY <1>0, <1>3, Frame DEF AddChannel
<1>4. ASSUME NEW k \in Keys, UpdateCache(k) PROVE OffsetInv'
  BY <1>0, <1>4, UpdateType, Frame DEF UpdateCache
<1>5. ASSUME NEW r \in Runs, RunStep(r) PROVE OffsetInv'
  <2>1. ASSUME NEW c \in Channels, UpsertMedia(r, c) PROVE OffsetInv'
    <3>1. PICK m \in run[r].batch :
             IsNext(m, run[r].batch) /\ rows' = Upserted(<<c, m>>, r) /\ Advance(r, m)
      BY <2>1 DEF UpsertMedia
    <3>2. <<c, m>> \in Keys
      BY <1>0, <2>1, <3>1, UpsertStep DEF UpsertMedia
    <3>3. m \in Catalogued(c)'
      BY <1>0, <3>1, <3>2, UpsertShape DEF Catalogued, Keys
    <3>4. Settled(c, m)'
      BY <3>3 DEF Settled
    <3> QED
      BY <1>0, <2>1, <3>1, <3>4, StoreOffsets DEF UpsertMedia
  <2>2. CASE UpsertFails(r)
    <3>1. PICK c \in Channels : c = run[r].chan
      BY <1>0, <2>2, PhaseShape DEF UpsertFails, Storing
    <3>2. PICK m \in run[r].batch :
             /\ IsNext(m, run[r].batch)
             /\ dropped' = dropped \cup {<<c, m>>}
             /\ rows' \in {rows, Upserted(<<c, m>>, r)}
             /\ Advance(r, m)
      BY <2>2, <3>1 DEF UpsertFails
    <3>3. Settled(c, m)'
      BY <3>2 DEF Settled
    <3> QED
      BY <1>0, <2>2, <3>1, <3>2, <3>3, StoreOffsets DEF UpsertFails
  <2> QED
    BY <1>0, <1>5, <2>1, <2>2, ReadMaxOffsets, ExportOffsets, QuietOffsets DEF RunStep, OwnStep
<1>6. ASSUME NEW r \in Runs, StartRun(r) \/ Cancel(r) \/ Kill(r) PROVE OffsetInv'
  BY <1>0, <1>6, QuietOffsets
<1> QED
  BY <1>1, <1>2, <1>3, <1>4, <1>5, <1>6 DEF Next

\* No offset a run starts from hides a message that has not failed: below a
\* catalogued message all posted ones are catalogued or dropped, for any number
\* of overlapping, stopped and killed runs (syncer.go 112-150).
THEOREM OffsetsSafe == Spec => []OffsetSafe
<1>1. Init => OffsetInv
  BY InitOffsets
<1>2. OffsetInv /\ [Next]_vars => OffsetInv'
  BY StepOffsets
<1>3. OffsetInv => OffsetSafe
  BY DEF OffsetInv
<1> QED
  BY <1>1, <1>2, <1>3, PTL DEF Spec

-----------------------------------------------------------------------------
(* Rows.                                                                   *)

LEMMA StepRows ==
    ASSUME TypeOK, NEW r \in Runs, RunStep(r), NEW k \in DOMAIN rows
    PROVE  k \in DOMAIN rows' /\ rows'[k] = rows[k]
<1>1. ASSUME NEW c, NEW m \in run[r].batch, run[r].pc = "store", run[r].chan = c,
             Advance(r, m), rows' = Upserted(<<c, m>>, r)
      PROVE  k \in DOMAIN rows' /\ rows'[k] = rows[k]
  <2>1. <<c, m>> \in Keys
    BY <1>1, UpsertStep
  <2>2. k \in DOMAIN Upserted(<<c, m>>, r) /\ Upserted(<<c, m>>, r)[k] = rows[k]
    BY <2>1, UpsertShape
  <2> QED
    BY <1>1, <2>2
<1>2. ASSUME NEW c \in Channels, UpsertMedia(r, c)
      PROVE  k \in DOMAIN rows' /\ rows'[k] = rows[k]
  BY <1>1, <1>2 DEF UpsertMedia
<1>3. CASE UpsertFails(r)
  BY <1>1, <1>3 DEF UpsertFails
<1>4. CASE rows' = rows
  BY <1>4
<1> QED
  BY <1>2, <1>3, <1>4 DEF RunStep, OwnStep, EndRun, ReadMax, ReadMaxFails, ExportHistory,
     ExportFails, EndChannel

\* A run takes away no row and changes neither the token nor the cache columns of
\* one, whoever inserted it in the meantime (store.go 91-122).
THEOREM RowsKept == Spec => SyncKeepsRows
<1>1. Init => TypeOK
  BY InitType
<1>2. TypeOK /\ [Next]_vars => TypeOK'
  BY StepType
<1>3. TypeOK /\ [Next]_vars =>
        [\A r \in Runs : RunStep(r) =>
           \A k \in DOMAIN rows : k \in DOMAIN rows' /\ rows'[k] = rows[k]]_vars
  BY StepRows
<1> QED
  BY <1>1, <1>2, <1>3, PTL DEF Spec, SyncKeepsRows

-----------------------------------------------------------------------------
(* Messages out of reach.                                                  *)

\* Run r can still store message m of channel c.
Ahead(r, c, m) ==
    /\ run[r].pc \in {"export", "store"} /\ run[r].chan = c
    /\ run[r].pc = "export" => run[r].since < m
    /\ run[r].pc = "store" => m \in run[r].batch

OutOfReach(c, m) ==
    /\ m \notin Catalogued(c)
    /\ \E q \in Catalogued(c) : m < q
    /\ \A r \in Runs : ~Ahead(r, c, m)

\* One step of a run.
LEMMA RunReaches ==
    ASSUME TypeOK, TypeOK', NEW r \in Runs, RunStep(r) \/ StartRun(r) \/ Cancel(r) \/ Kill(r),
           NEW c \in Channels, NEW m \in Messages, OutOfReach(c, m)
    PROVE  OutOfReach(c, m)'
<1>1. /\ \A u \in Runs : u # r => run'[u] = run[u]
      /\ m \notin Catalogued(c) /\ ~Ahead(r, c, m) /\ m \in Int
  <2>1. RunStep(r) => \A u \in Runs : u # r => run'[u] = run[u]
    <3>1. (\E d \in Channels : UpsertMedia(r, d)) \/ UpsertFails(r)
             => \A u \in Runs : u # r => run'[u] = run[u]
      BY DEF TypeOK, UpsertMedia, UpsertFails, Advance
    <3> QED
      BY <3>1 DEF TypeOK, RunStep, OwnStep, EndRun, ReadMax, ReadMaxFails, ExportHistory,
         ExportFails, ChannelFails, Choose, EndChannel
  <2>2. StartRun(r) \/ Cancel(r) \/ Kill(r) => \A u \in Runs : u # r => run'[u] = run[u]
    BY DEF TypeOK, StartRun, Cancel, Kill
  <2>3. m \notin Catalogued(c) /\ ~Ahead(r, c, m)
    BY DEF OutOfReach
  <2>4. m \in Int
    BY DEF Messages
  <2> QED
    BY <2>1, <2>2, <2>3, <2>4
<1>2. PICK q \in Catalogued(c) : m < q
  BY DEF OutOfReach
<1>3. ASSUME Catalogued(c) \subseteq Catalogued(c)', m \notin Catalogued(c)', ~Ahead(r, c, m)'
      PROVE  OutOfReach(c, m)'
  <2>1. \A u \in Runs : ~Ahead(u, c, m)'
    BY <1>1, <1>3 DEF OutOfReach, Ahead
  <2> QED
    BY <1>2, <1>3, <2>1 DEF OutOfReach
<1>4. rows' = rows => Catalogued(c)' = Catalogued(c)
  BY DEF Catalogued
<1>5. ASSUME rows' = rows, run'[r].pc \in {"idle", "choose"}
      PROVE  OutOfReach(c, m)'
  BY <1>1, <1>3, <1>4, <1>5 DEF Ahead
<1>6. CASE StartRun(r) \/ Kill(r) \/ EndRun(r) \/ ExportFails(r) \/ EndChannel(r)
           \/ \E d \in Channels : ReadMaxFails(r, d)
  BY <1>5, <1>6 DEF TypeOK, StartRun, Kill, EndRun, ExportFails, EndChannel, ReadMaxFails,
     ChannelFails, Choose, Idle
<1>7. CASE Cancel(r)
  <2>1. run'[r] = [run[r] EXCEPT !.ctxDone = TRUE] /\ rows' = rows
    BY <1>7 DEF Cancel, TypeOK
  <2>2. run[r] \in Choosing \cup Exporting \cup Storing
    BY <1>7 DEF Cancel, TypeOK
  <2>3. /\ run'[r].pc = run[r].pc
        /\ run[r].pc = "export" => run'[r].chan = run[r].chan /\ run'[r].since = run[r].since
        /\ run[r].pc = "store" => run'[r].chan = run[r].chan /\ run'[r].batch = run[r].batch
    BY <2>1, <2>2 DEF Choosing, Exporting, Storing
  <2> QED
    BY <1>1, <1>3, <1>4, <2>1, <2>3 DEF Ahead
<1>8. ASSUME NEW d \in Channels, ReadMax(r, d)
      PROVE  OutOfReach(c, m)'
  <2>1. PICK n \in {0} \cup Messages :
           /\ IsMax(n, Catalogued(d))
           /\ run' = [run EXCEPT ![r] =
                        [pc |-> "export", todo |-> run[r].todo \ {d}, ctxDone |-> FALSE,
                         chan |-> d, since |-> n]]
    BY <1>8 DEF ReadMax
  <2>2. run'[r].pc = "export" /\ run'[r].chan = d /\ run'[r].since = n
    BY <2>1 DEF TypeOK
  <2>3. d = c => ~(n < m)
    BY <1>1, <1>2, <2>1 DEF IsMax, Catalogued, Messages
  <2> QED
    BY <1>1, <1>3, <1>4, <1>8, <2>2, <2>3 DEF ReadMax, Ahead
<1>9. ASSUME NEW d \in Channels, ExportHistory(r, d)
      PROVE  OutOfReach(c, m)'
  <2>1. /\ run'[r].pc = "store" /\ run'[r].chan = d
        /\ run'[r].batch = {n \in posted[d] : n > run[r].since}
        /\ run[r].pc = "export" /\ run[r].chan = d /\ rows' = rows
    BY <1>9 DEF ExportHistory, TypeOK
  <2>2. run[r].since \in Int
    BY <2>1, PhaseShape DEF Exporting, Messages
  <2>3. d = c => m \notin run'[r].batch
    BY <1>1, <2>1, <2>2 DEF Ahead
  <2> QED
    BY <1>1, <1>3, <1>4, <2>1, <2>3 DEF Ahead
<1>10. ASSUME NEW d \in Channels, NEW n \in run[r].batch, run[r].pc = "store", run[r].chan = d,
              rows' \in {rows, Upserted(<<d, n>>, r)}, Advance(r, n)
       PROVE  OutOfReach(c, m)'
  <2>1. <<d, n>> \in Keys
    BY <1>10, UpsertStep
  <2>2. /\ run'[r].pc = "store" /\ run'[r].chan = d /\ run'[r].batch = run[r].batch \ {n}
    BY <1>10, UpsertStep DEF TypeOK
  <2>3. DOMAIN rows \subseteq DOMAIN rows' /\ DOMAIN rows' \subseteq DOMAIN rows \cup {<<d, n>>}
    BY <1>10, <2>1, UpsertShape
  <2>4. d = c => m # n
    BY <1>1, <1>10 DEF Ahead
  <2>5. Catalogued(c) \subseteq Catalogued(c)' /\ m \notin Catalogued(c)'
    BY <1>1, <2>3, <2>4 DEF Catalogued
  <2> QED
    BY <1>1, <1>3, <1>10, <2>2, <2>5 DEF Ahead
<1>11. CASE UpsertFails(r)
  <2>1. run[r].pc = "store" /\ run[r].chan \in Channels
    BY <1>11, PhaseShape DEF UpsertFails, Storing
  <2> QED
    BY <1>10, <1>11, <2>1 DEF UpsertFails
<1>12. ASSUME NEW d \in Channels, UpsertMedia(r, d)
       PROVE  OutOfReach(c, m)'
  BY <1>10, <1>12 DEF UpsertMedia
<1> QED
  BY <1>6, <1>7, <1>8, <1>9, <1>11, <1>12 DEF RunStep, OwnStep

LEMMA StepReaches ==
    ASSUME TypeOK, [Next]_vars, NEW c \in Channels, NEW m \in Messages, OutOfReach(c, m)
    PROVE  OutOfReach(c, m)'
<1>1. TypeOK'
  BY StepType
<1>2. CASE UNCHANGED <<rows, run>>
  BY <1>2 DEF OutOfReach, Catalogued, Ahead
<1>3. ASSUME NEW k \in Keys, UpdateCache(k)
      PROVE  OutOfReach(c, m)'
  <2>1. DOMAIN rows' = DOMAIN rows /\ run' = run
    BY <1>3, UpdateType DEF UpdateCache
  <2> QED
    BY <2>1 DEF OutOfReach, Catalogued, Ahead
<1> QED
  BY <1>1, <1>2, <1>3, RunReaches DEF Next, Post, AddChannel, vars

\* A message that is passed over is never made up for: once a newer one of its channel is
\* catalogued and no run under way has it before it, no later run stores it, however many
\* there are (syncer.go 112-138, store.go 81-87).
THEOREM MissedForGood ==
    ASSUME NEW c \in Channels, NEW m \in Messages
    PROVE  Spec => [](OutOfReach(c, m) => [](m \notin Catalogued(c)))
<1>1. TypeOK /\ OutOfReach(c, m) /\ [Next]_vars => OutOfReach(c, m)'
  BY StepReaches
<1>2. OutOfReach(c, m) => m \notin Catalogued(c)
  BY DEF OutOfReach
<1> QED
  BY <1>1, <1>2, TypeCorrect, PTL DEF Spec
=============================================================================
