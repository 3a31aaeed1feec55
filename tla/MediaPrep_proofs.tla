-------------------------- MODULE MediaPrep_proofs ---------------------------
(***************************************************************************)
(* What is proved of the preparer by itself, for any tokens, modes,        *)
(* workers, requests and concurrency: its types, the single flight, and    *)
(* the bound on transcodes.                                                *)
(***************************************************************************)
EXTENDS MediaPrep, FiniteSetTheorems, TLAPS

-----------------------------------------------------------------------------
(* Single flight.  SingleFlight alone is not inductive: that a request may *)
(* start a worker rests on the in-flight table holding exactly the tokens  *)
(* of the active workers.                                                  *)

Shape ==
    /\ row \in [Tokens -> Row]
    /\ inflight \in SUBSET Tokens
    /\ worker \in [Workers -> {Idle} \cup Run]
    /\ slots \in Int
    /\ part \in [Tokens -> Content]
    /\ out \in [Tokens -> Content]
    /\ final \in [Tokens -> Content]
    /\ req \in [Handlers -> Tokens \cup {Nobody}]
    /\ ctxDone \in BOOLEAN
    /\ stranded \in SUBSET Tokens

TableExact == inflight = {worker[w].token : w \in Active}

FlightInv == Shape /\ TableExact /\ SingleFlight

-----------------------------------------------------------------------------
(* Steps of a worker.                                                      *)

Moves(w) ==
    /\ worker[w].pc # "idle"
    /\ \E p \in Steps : Goto(w, p)
    /\ UNCHANGED <<inflight, req, ctxDone>>

LEMMA ActiveRun ==
    ASSUME Shape, NEW w \in Workers, worker[w].pc # "idle"
    PROVE  worker[w] \in Run /\ worker[w].token \in Tokens /\ w \in Active
BY DEF Shape, Idle, Run, Active

LEMMA StepMoves ==
    ASSUME NEW w \in Workers, WorkerStep(w) \/ DownloadEnds(w) \/ AcquireSlot(w)
    PROVE  Release(w) \/ Moves(w)
<1> USE DEF Moves, Steps
<1>1. CASE ReadRow(w)
  BY <1>1 DEF ReadRow
<1>2. CASE MarkPreparing(w)
  BY <1>2 DEF MarkPreparing, UpdateCache
<1>3. CASE CreatePart(w)
  BY <1>3 DEF CreatePart
<1>4. CASE StartRemux(w) \/ AcquireSlot(w)
  BY <1>4 DEF StartRemux, AcquireSlot, StartEncoding
<1>5. CASE AbandonWait(w) \/ EncodeSucceeds(w) \/ EncodeFails(w)
  BY <1>5 DEF AbandonWait, EncodeSucceeds, EncodeFails
<1>6. CASE StoreSucceeds(w) \/ StoreFails(w)
  BY <1>6 DEF StoreSucceeds, StoreFails
<1>7. CASE PublishReady(w)
  BY <1>7 DEF PublishReady, UpdateCache
<1>8. CASE RecordFailure(w) \/ DownloadEnds(w)
  BY <1>8 DEF RecordFailure, DownloadEnds
<1>9. QED
  BY <1>1, <1>2, <1>3, <1>4, <1>5, <1>6, <1>7, <1>8 DEF WorkerStep

LEMMA GotoFacts ==
    ASSUME Shape, NEW w \in Workers, worker[w].pc # "idle", NEW p \in Steps, Goto(w, p)
    PROVE  /\ worker' \in [Workers -> {Idle} \cup Run]
           /\ worker'[w] = [pc |-> p, token |-> worker[w].token]
           /\ \A v \in Workers : v # w => worker'[v] = worker[v]
           /\ Active' = Active
           /\ \A v \in Active : worker'[v].token = worker[v].token
<1>1. worker[w] \in Run
  BY ActiveRun
<1>2. /\ worker'[w] = [worker[w] EXCEPT !.pc = p]
      /\ \A v \in Workers : v # w => worker'[v] = worker[v]
  BY DEF Goto, Shape
<1>3. worker'[w] = [pc |-> p, token |-> worker[w].token]
  BY <1>1, <1>2 DEF Run
<1>4. worker'[w] \in Run
  BY <1>1, <1>3 DEF Run
<1>5. worker' \in [Workers -> {Idle} \cup Run]
  BY <1>2, <1>4 DEF Goto, Shape
<1>6. p # "idle"
  BY DEF Steps
<1>7. Active' = Active
  BY <1>2, <1>3, <1>6 DEF Active
<1>8. \A v \in Active : worker'[v].token = worker[v].token
  BY <1>2, <1>3 DEF Active
<1>9. QED
  BY <1>2, <1>3, <1>5, <1>7, <1>8

-----------------------------------------------------------------------------
(* Shape is kept.                                                          *)

\* The row of t is written, with state s, and nothing else changes in the table.
RowWritten(t, s) ==
    /\ row' \in [Tokens -> Row]
    /\ row'[t].state = s
    /\ \A u \in Tokens : row'[u].mode = row[u].mode
    /\ \A u \in Tokens : u # t => row'[u] = row[u]
    /\ stranded' = stranded \ {t}

LEMMA WriteShape ==
    ASSUME Shape, NEW t \in Tokens, NEW r \in Row, r.mode = row[t].mode,
           row' = [row EXCEPT ![t] = r], stranded' = stranded \ {t}
    PROVE  RowWritten(t, r.state)
<1>1. row' \in [Tokens -> Row] /\ row'[t] = r
  BY DEF Shape
<1>2. \A u \in Tokens : u # t => row'[u] = row[u]
  BY DEF Shape
<1>3. QED
  BY <1>1, <1>2 DEF RowWritten

\* The three writes of the preparer.
LEMMA Written ==
    ASSUME Shape, NEW t \in Tokens
    PROVE  /\ Applied(t, "preparing", FALSE, FALSE) => RowWritten(t, "preparing")
           /\ Applied(t, "ready", TRUE, FALSE) => RowWritten(t, "ready")
           /\ Applied(t, "failed", FALSE, TRUE) => RowWritten(t, "failed")
<1>1. row[t] \in Row
  BY DEF Shape
<1>2. ASSUME Applied(t, "preparing", FALSE, FALSE) PROVE RowWritten(t, "preparing")
  <2> DEFINE r == [row[t] EXCEPT !.state = "preparing", !.path = FALSE, !.err = FALSE]
  <2>1. r \in Row /\ r.mode = row[t].mode /\ r.state = "preparing"
    BY <1>1 DEF Row, CacheStates
  <2>2. row' = [row EXCEPT ![t] = r] /\ stranded' = stranded \ {t}
    BY <1>2 DEF Applied
  <2> HIDE DEF r
  <2>3. QED
    BY <2>1, <2>2, WriteShape
<1>3. ASSUME Applied(t, "ready", TRUE, FALSE) PROVE RowWritten(t, "ready")
  <2> DEFINE r == [row[t] EXCEPT !.state = "ready", !.path = TRUE, !.err = FALSE]
  <2>1. r \in Row /\ r.mode = row[t].mode /\ r.state = "ready"
    BY <1>1 DEF Row, CacheStates
  <2>2. row' = [row EXCEPT ![t] = r] /\ stranded' = stranded \ {t}
    BY <1>3 DEF Applied
  <2> HIDE DEF r
  <2>3. QED
    BY <2>1, <2>2, WriteShape
<1>4. ASSUME Applied(t, "failed", FALSE, TRUE) PROVE RowWritten(t, "failed")
  <2> DEFINE r == [row[t] EXCEPT !.state = "failed", !.path = FALSE, !.err = TRUE]
  <2>1. r \in Row /\ r.mode = row[t].mode /\ r.state = "failed"
    BY <1>1 DEF Row, CacheStates
  <2>2. row' = [row EXCEPT ![t] = r] /\ stranded' = stranded \ {t}
    BY <1>4 DEF Applied
  <2> HIDE DEF r
  <2>3. QED
    BY <2>1, <2>2, WriteShape
<1>5. QED
  BY <1>2, <1>3, <1>4

LEMMA WorkerShape ==
    ASSUME Shape, NEW w \in Workers, WorkerStep(w) \/ DownloadEnds(w) \/ AcquireSlot(w)
    PROVE  Shape' /\ \A u \in Tokens : row'[u].mode = row[u].mode
<1> DEFINE t == worker[w].token
<1>1. worker[w].pc # "idle"
  BY StepMoves DEF Moves, Release
<1>2. t \in Tokens
  BY <1>1, ActiveRun
<1>3. worker' \in [Workers -> {Idle} \cup Run]
  <2>1. CASE Release(w)
    BY <2>1 DEF Release, Shape
  <2>2. CASE Moves(w)
    BY <1>1, <2>2, GotoFacts DEF Moves
  <2>3. QED
    BY <2>1, <2>2, StepMoves
<1>4. inflight' \in SUBSET Tokens /\ UNCHANGED <<req, ctxDone>>
  <2>1. CASE Release(w)
    BY <2>1 DEF Release, Shape
  <2>2. CASE Moves(w)
    BY <2>2 DEF Moves, Shape
  <2>3. QED
    BY <2>1, <2>2, StepMoves
<1>5. /\ row' \in [Tokens -> Row] /\ stranded' \in SUBSET Tokens
      /\ \A u \in Tokens : row'[u].mode = row[u].mode
  <2>1. ASSUME NEW s, RowWritten(t, s)
        PROVE  /\ row' \in [Tokens -> Row] /\ stranded' \in SUBSET Tokens
               /\ \A u \in Tokens : row'[u].mode = row[u].mode
    BY <2>1 DEF RowWritten, Shape
  <2>2. CASE \/ Applied(t, "preparing", FALSE, FALSE)
             \/ Applied(t, "ready", TRUE, FALSE)
             \/ Applied(t, "failed", FALSE, TRUE)
    BY <1>2, <2>1, <2>2, Written
  <2>3. CASE UNCHANGED row /\ stranded' = stranded \cup {t}
    BY <1>2, <2>3 DEF Shape
  <2>4. CASE UNCHANGED <<row, stranded>>
    BY <2>4 DEF Shape
  <2>5. QED
    BY <2>2, <2>3, <2>4
       DEF WorkerStep, ReadRow, MarkPreparing, CreatePart, DownloadEnds, StartRemux,
           AcquireSlot, AbandonWait, EncodeSucceeds, EncodeFails, StoreSucceeds, StoreFails,
           PublishReady, RecordFailure, Release, UpdateCache, NotApplied
<1>6. slots' \in Int
  <2>1. slots' \in {slots, slots + 1, slots - 1}
    BY DEF WorkerStep, ReadRow, MarkPreparing, CreatePart, DownloadEnds, StartRemux,
           AcquireSlot, AbandonWait, EncodeSucceeds, EncodeFails, StoreSucceeds, StoreFails,
           PublishReady, RecordFailure, Release, ReturnSlot
  <2>2. QED
    BY <2>1 DEF Shape
<1>7. part' \in [Tokens -> Content]
  BY DEF Shape, WorkerStep, ReadRow, MarkPreparing, CreatePart, DownloadEnds, StartRemux,
         AcquireSlot, AbandonWait, EncodeSucceeds, EncodeFails, StoreSucceeds, StoreFails,
         PublishReady, RecordFailure, Release, DropTemp, Content
<1>8. out' \in [Tokens -> Content]
  BY <1>2 DEF Shape, WorkerStep, ReadRow, MarkPreparing, CreatePart, DownloadEnds, StartRemux,
         AcquireSlot, AbandonWait, EncodeSucceeds, EncodeFails, StoreSucceeds, StoreFails,
         PublishReady, RecordFailure, Release, DropTemp, StartEncoding, Content
<1>9. final' \in [Tokens -> Content]
  BY <1>2 DEF Shape, WorkerStep, ReadRow, MarkPreparing, CreatePart, DownloadEnds, StartRemux,
         AcquireSlot, AbandonWait, EncodeSucceeds, EncodeFails, StoreSucceeds, StoreFails,
         PublishReady, RecordFailure, Release
<1>10. QED
  BY <1>3, <1>4, <1>5, <1>6, <1>7, <1>8, <1>9 DEF Shape

-----------------------------------------------------------------------------
(* The in-flight table and the workers.                                    *)

LEMMA FlightInit == Init => FlightInv
<1> SUFFICES ASSUME Init PROVE FlightInv
  OBVIOUS
<1>1. Shape
  <2>1. PICK m \in InitModes :
            row = [t \in Tokens |->
                     [mode |-> m[t], state |-> "none", path |-> FALSE, err |-> FALSE]]
    BY DEF Init
  <2>2. row \in [Tokens -> Row]
    BY <2>1, ModesAssumption DEF Row, CacheStates
  <2>3. inflight \in SUBSET Tokens /\ stranded \in SUBSET Tokens /\ slots \in Int
    BY DEF Init
  <2>4. worker \in [Workers -> {Idle} \cup Run] /\ ctxDone \in BOOLEAN
    BY DEF Init
  <2>5. /\ part \in [Tokens -> Content] /\ out \in [Tokens -> Content]
        /\ final \in [Tokens -> Content]
    BY DEF Init, Content
  <2>6. req \in [Handlers -> Tokens \cup {Nobody}]
    BY DEF Init
  <2>7. QED
    BY <2>2, <2>3, <2>4, <2>5, <2>6 DEF Shape
<1>2. Active = {}
  BY DEF Init, Active, Idle
<1>3. QED
  BY <1>1, <1>2 DEF FlightInv, TableExact, SingleFlight, Init

\* While nobody joins or leaves, and workers keep their tokens.
LEMMA FlightStill ==
    ASSUME FlightInv, Shape', inflight' = inflight, Active' = Active,
           \A v \in Active : worker'[v].token = worker[v].token
    PROVE  FlightInv'
<1>1. TableExact'
  BY DEF FlightInv, TableExact
<1>2. SingleFlight'
  BY DEF FlightInv, SingleFlight
<1>3. QED
  BY <1>1, <1>2 DEF FlightInv

LEMMA NewWorkerFacts ==
    ASSUME Shape, IdleWorkers # {}
    PROVE  NewWorker \in Workers /\ worker[NewWorker] = Idle /\ NewWorker \notin Active
<1>1. NewWorker \in IdleWorkers
  BY DEF NewWorker
<1>2. QED
  BY <1>1 DEF IdleWorkers, Active, Idle

LEMMA FlightStarts ==
    ASSUME FlightInv, NEW h \in Handlers, PrepareStarts(h)
    PROVE  FlightInv'
<1> DEFINE t == req[h]
           n == NewWorker
<1>1. t \in Tokens /\ t \notin inflight
  BY DEF PrepareStarts, Admits, FlightInv, Shape
<1>2. n \in Workers /\ worker[n] = Idle /\ n \notin Active
  BY NewWorkerFacts DEF PrepareStarts, FlightInv
<1>3. [pc |-> "read", token |-> t] \in Run
  BY <1>1 DEF Run, Steps
<1>4. /\ worker'[n] = [pc |-> "read", token |-> t]
      /\ \A v \in Workers : v # n => worker'[v] = worker[v]
      /\ worker' \in [Workers -> {Idle} \cup Run]
  BY <1>2, <1>3 DEF PrepareStarts, FlightInv, Shape
<1>5. Shape'
  BY <1>1, <1>4 DEF PrepareStarts, FlightInv, Shape
<1>6. Active' = Active \cup {n}
  BY <1>2, <1>4 DEF Active
<1>7. \A v \in Active : v # n /\ worker'[v] = worker[v]
  BY <1>2, <1>4 DEF Active
<1>8. TableExact'
  <2>1. inflight' = inflight \cup {t}
    BY DEF PrepareStarts
  <2>2. QED
    BY <1>4, <1>6, <1>7, <2>1 DEF FlightInv, TableExact
<1>9. SingleFlight'
  <2>1. \A v \in Active : worker[v].token # t
    BY <1>1 DEF FlightInv, TableExact
  <2>2. QED
    BY <1>4, <1>6, <1>7, <2>1 DEF FlightInv, SingleFlight
<1>10. QED
  BY <1>5, <1>8, <1>9 DEF FlightInv

LEMMA FlightRelease ==
    ASSUME FlightInv, NEW w \in Workers, Release(w)
    PROVE  /\ FlightInv'
           /\ Active' = Active \ {w}
           /\ \A v \in Active' : worker'[v] = worker[v]
<1> DEFINE t == worker[w].token
<1>1. w \in Active
  BY ActiveRun DEF FlightInv, Release
<1>2. /\ worker'[w] = Idle
      /\ \A v \in Workers : v # w => worker'[v] = worker[v]
  BY DEF Release, FlightInv, Shape
<1>3. Active' = Active \ {w}
  BY <1>2 DEF Active, Idle
<1>4. \A v \in Active' : worker'[v] = worker[v]
  BY <1>2, <1>3 DEF Active
<1>5. Shape'
  BY WorkerShape DEF FlightInv, WorkerStep
<1>6. \A v \in Active' : worker[v].token # t
  BY <1>1, <1>3 DEF FlightInv, SingleFlight
<1>7. TableExact'
  BY <1>1, <1>3, <1>4, <1>6 DEF FlightInv, TableExact, Release
<1>8. SingleFlight'
  BY <1>3, <1>4 DEF FlightInv, SingleFlight
<1>9. QED
  BY <1>3, <1>4, <1>5, <1>7, <1>8 DEF FlightInv

LEMMA FlightRestart ==
    ASSUME FlightInv, Restart
    PROVE  FlightInv' /\ Active' = {}
<1>1. Active' = {}
  BY DEF Restart, Active, Idle
<1>2. Shape'
  <2>1. /\ row' \in [Tokens -> Row] /\ final' \in [Tokens -> Content]
        /\ stranded' \in SUBSET Tokens
    BY DEF Restart, FlightInv, Shape
  <2>2. inflight' \in SUBSET Tokens /\ ctxDone' \in BOOLEAN
    BY DEF Restart
  <2>3. slots' \in Int
    BY DEF Restart
  <2>4. worker' \in [Workers -> {Idle} \cup Run]
    BY DEF Restart
  <2>5. part' \in [Tokens -> Content] /\ out' \in [Tokens -> Content]
    BY DEF Restart, Content
  <2>6. req' \in [Handlers -> Tokens \cup {Nobody}]
    BY DEF Restart
  <2>7. QED
    BY <2>1, <2>2, <2>3, <2>4, <2>5, <2>6 DEF Shape
<1>3. QED
  BY <1>1, <1>2 DEF FlightInv, TableExact, SingleFlight, Restart

LEMMA FlightNext == FlightInv /\ [Next]_vars => FlightInv'
<1> SUFFICES ASSUME FlightInv, [Next]_vars PROVE FlightInv'
  OBVIOUS
<1>1. ASSUME NEW h \in Handlers, NEW t \in Tokens, HandlePlayURL(h, t) PROVE FlightInv'
  <2>1. Shape'
    BY <1>1 DEF HandlePlayURL, FlightInv, Shape
  <2>2. QED
    BY <1>1, <2>1, FlightStill DEF HandlePlayURL, Active
<1>2. ASSUME NEW h \in Handlers, PrepareStarts(h) PROVE FlightInv'
  BY <1>2, FlightStarts
<1>3. ASSUME NEW h \in Handlers, PrepareJoins(h) PROVE FlightInv'
  <2>1. Shape'
    BY <1>3 DEF PrepareJoins, FlightInv, Shape
  <2>2. QED
    BY <1>3, <2>1, FlightStill DEF PrepareJoins, Active
<1>4. ASSUME NEW w \in Workers, WorkerStep(w) \/ DownloadEnds(w) \/ AcquireSlot(w)
      PROVE  FlightInv'
  <2>1. CASE Release(w)
    BY <2>1, FlightRelease
  <2>2. CASE Moves(w)
    <3>1. Shape'
      BY <1>4, WorkerShape DEF FlightInv
    <3>2. Active' = Active /\ \A v \in Active : worker'[v].token = worker[v].token
      BY <2>2, GotoFacts DEF Moves, FlightInv
    <3>3. QED
      BY <2>2, <3>1, <3>2, FlightStill DEF Moves
  <2>3. QED
    BY <1>4, <2>1, <2>2, StepMoves
<1>5. CASE Shutdown
  <2>1. Shape'
    BY <1>5 DEF Shutdown, FlightInv, Shape
  <2>2. QED
    BY <1>5, <2>1, FlightStill DEF Shutdown, Active
<1>6. CASE Restart
  BY <1>6, FlightRestart
<1>7. CASE UNCHANGED vars
  <2>1. Shape'
    BY <1>7 DEF vars, FlightInv, Shape
  <2>2. QED
    BY <1>7, <2>1, FlightStill DEF vars, Active
<1>8. QED
  BY <1>1, <1>2, <1>3, <1>4, <1>5, <1>6, <1>7 DEF Next

\* No two workers ever prepare the same token.
THEOREM OneWorkerPerToken == Spec => []SingleFlight
<1>1. FlightInv => SingleFlight
  BY DEF FlightInv
<1>2. QED
  BY FlightInit, FlightNext, <1>1, PTL DEF Spec

-----------------------------------------------------------------------------
(* The semaphore.                                                          *)

SlotInv == FlightInv /\ TranscodeBound

LEMMA SlotsPositive == Slots \in Nat /\ Slots >= 1
BY ConcurrencyAssumption DEF Slots

LEMMA EncodingFinite == IsFiniteSet(Encoding) /\ Cardinality(Encoding) \in Nat
<1>1. IsFiniteSet(Encoding)
  BY WorkersAssumption, FS_Subset DEF Encoding
<1>2. QED
  BY <1>1, FS_CardinalityType

\* Who encodes after a step of w: the same as before, w itself apart.
LEMMA EncodingStep ==
    ASSUME FlightInv, NEW w \in Workers, Moves(w),
           \A u \in Tokens : row'[u].mode = row[u].mode
    PROVE  /\ w \in Encoding' <=> worker'[w].pc = "encode" /\ UsesSlot(worker[w].token)
           /\ \A v \in Workers : v # w => (v \in Encoding' <=> v \in Encoding)
<1>1. worker[w].token \in Tokens
  BY ActiveRun DEF Moves, FlightInv
<1>2. /\ worker'[w].token = worker[w].token
      /\ \A v \in Workers : v # w => worker'[v] = worker[v]
  <2>1. PICK p \in Steps : Goto(w, p)
    BY DEF Moves
  <2>2. Shape /\ worker[w].pc # "idle"
    BY DEF Moves, FlightInv
  <2>3. /\ worker'[w] = [pc |-> p, token |-> worker[w].token]
        /\ \A v \in Workers : v # w => worker'[v] = worker[v]
    BY <2>1, <2>2, GotoFacts
  <2>4. QED
    BY <2>3
<1>3. \A v \in Workers : worker[v].pc = "encode" => worker[v].token \in Tokens
  BY ActiveRun DEF FlightInv
<1>4. QED
  BY <1>1, <1>2, <1>3 DEF Encoding, UsesSlot

LEMMA SlotWorker ==
    ASSUME SlotInv, NEW w \in Workers, WorkerStep(w) \/ DownloadEnds(w) \/ AcquireSlot(w)
    PROVE  TranscodeBound'
<1> DEFINE t == worker[w].token
<1> USE DEF SlotInv, TranscodeBound
<1>1. \A u \in Tokens : row'[u].mode = row[u].mode
  BY WorkerShape DEF FlightInv
<1>2. /\ IsFiniteSet(Encoding) /\ Cardinality(Encoding) \in Nat
      /\ slots \in Int /\ Slots \in Nat
  BY EncodingFinite, SlotsPositive DEF FlightInv, Shape
<1>3. ASSUME Moves(w)
      PROVE  /\ w \in Encoding' <=> worker'[w].pc = "encode" /\ UsesSlot(t)
             /\ w \in Encoding <=> worker[w].pc = "encode" /\ UsesSlot(t)
             /\ \A v \in Workers : v # w => (v \in Encoding' <=> v \in Encoding)
             /\ Encoding \in SUBSET Workers /\ Encoding' \in SUBSET Workers
  BY <1>1, <1>3, EncodingStep DEF Encoding
<1>4. ASSUME Moves(w), slots' = slots,
             worker[w].pc = "encode" /\ UsesSlot(t) <=> worker'[w].pc = "encode" /\ UsesSlot(t)
      PROVE  TranscodeBound'
  <2>1. Encoding' = Encoding
    BY <1>3, <1>4
  <2>2. QED
    BY <1>4, <2>1
<1>5. ASSUME NEW p \in Steps, Moves(w), Goto(w, p) PROVE worker'[w].pc = p
  <2>1. Shape /\ worker[w].pc # "idle"
    BY <1>5 DEF Moves, FlightInv
  <2>2. worker'[w] = [pc |-> p, token |-> worker[w].token]
    BY <1>5, <2>1, GotoFacts
  <2>3. QED
    BY <2>2
<1>6. CASE AcquireSlot(w)
  <2>1. Moves(w) /\ worker'[w].pc = "encode" /\ worker[w].pc # "encode"
    BY <1>5, <1>6 DEF AcquireSlot, StartEncoding, Moves, Steps
  <2>2. UsesSlot(t) /\ slots < Slots /\ slots' = slots + 1
    BY <1>6 DEF AcquireSlot, SlotFree
  <2>3. Encoding' = Encoding \cup {w} /\ w \notin Encoding
    BY <1>3, <2>1, <2>2
  <2>4. Cardinality(Encoding') = Cardinality(Encoding) + 1
    BY <1>2, <2>3, FS_AddElement
  <2>5. QED
    BY <1>2, <2>2, <2>4
<1>7. ASSUME worker[w].pc = "encode", ReturnSlot(t), Moves(w), worker'[w].pc # "encode"
      PROVE  TranscodeBound'
  <2>1. CASE UsesSlot(t)
    <3>1. Encoding' = Encoding \ {w} /\ w \in Encoding
      BY <1>3, <1>7, <2>1
    <3>2. Cardinality(Encoding') = Cardinality(Encoding) - 1
      BY <1>2, <3>1, FS_RemoveElement
    <3>3. slots' = slots - 1
      BY <1>7, <2>1 DEF ReturnSlot
    <3>4. QED
      BY <1>2, <3>2, <3>3
  <2>2. CASE ~UsesSlot(t)
    BY <1>4, <1>7, <2>2 DEF ReturnSlot
  <2>3. QED
    BY <2>1, <2>2
<1>8. CASE EncodeSucceeds(w) \/ EncodeFails(w)
  <2>1. Moves(w) /\ worker'[w].pc # "encode"
    BY <1>5, <1>8 DEF EncodeSucceeds, EncodeFails, Moves, Steps
  <2>2. QED
    BY <1>7, <1>8, <2>1 DEF EncodeSucceeds, EncodeFails
<1>9. CASE StartRemux(w)
  <2>1. Moves(w) /\ ~UsesSlot(t) /\ slots' = slots
    BY <1>9 DEF StartRemux, StartEncoding, Moves, Steps
  <2>2. QED
    BY <1>4, <2>1
<1>10. CASE Release(w)
  <2>1. FlightInv
    OBVIOUS
  <2>2. /\ w \notin Encoding
        /\ worker'[w] = Idle
        /\ \A v \in Workers : v # w => worker'[v] = worker[v]
    BY <1>10, <2>1 DEF Release, Encoding, FlightInv, Shape
  <2>3. Encoding' = Encoding
    BY <1>10, <2>2 DEF Release, Encoding, UsesSlot, Idle
  <2>4. QED
    BY <1>10, <2>3 DEF Release
<1>11. CASE \/ ReadRow(w) \/ MarkPreparing(w) \/ CreatePart(w) \/ AbandonWait(w)
            \/ StoreSucceeds(w) \/ StoreFails(w) \/ PublishReady(w) \/ RecordFailure(w)
            \/ DownloadEnds(w)
  <2>1. worker[w].pc # "encode" /\ slots' = slots
    BY <1>11
       DEF ReadRow, MarkPreparing, CreatePart, AbandonWait, StoreSucceeds, StoreFails,
           PublishReady, RecordFailure, DownloadEnds
  <2>2. \E p \in Steps \ {"encode"} : Goto(w, p)
    BY <1>11
       DEF ReadRow, MarkPreparing, CreatePart, AbandonWait, StoreSucceeds, StoreFails,
           PublishReady, RecordFailure, DownloadEnds, UpdateCache, Steps
  <2>3. Moves(w)
    BY <1>11, <2>1, StepMoves
       DEF WorkerStep, Release, ReadRow, MarkPreparing, CreatePart, AbandonWait,
           StoreSucceeds, StoreFails, PublishReady, RecordFailure, DownloadEnds
  <2>4. worker'[w].pc # "encode"
    BY <1>5, <2>2, <2>3
  <2>5. QED
    BY <1>4, <2>1, <2>3, <2>4
<1>12. QED
  BY <1>6, <1>8, <1>9, <1>10, <1>11 DEF WorkerStep

LEMMA SlotInit == Init => SlotInv
<1> SUFFICES ASSUME Init PROVE SlotInv
  OBVIOUS
<1>1. Encoding = {}
  BY DEF Init, Encoding, Idle
<1>2. Cardinality(Encoding) = 0
  BY <1>1, FS_EmptySet
<1>3. slots = 0
  BY DEF Init
<1>4. QED
  BY <1>2, <1>3, FlightInit, SlotsPositive DEF SlotInv, TranscodeBound

LEMMA SlotNext == SlotInv /\ [Next]_vars => SlotInv'
<1> SUFFICES ASSUME SlotInv, [Next]_vars PROVE SlotInv'
  OBVIOUS
<1>0. FlightInv /\ FlightInv'
  BY FlightNext DEF SlotInv
<1>1. ASSUME UNCHANGED <<row, worker, slots>> PROVE TranscodeBound'
  BY <1>1 DEF SlotInv, TranscodeBound, Encoding, UsesSlot
<1>2. ASSUME NEW h \in Handlers, PrepareStarts(h) PROVE TranscodeBound'
  <2>1. NewWorker \in Workers /\ worker[NewWorker] = Idle
    BY <1>0, <1>2, NewWorkerFacts DEF PrepareStarts, FlightInv
  <2>2. /\ worker'[NewWorker].pc = "read"
        /\ \A v \in Workers : v # NewWorker => worker'[v] = worker[v]
    BY <1>0, <1>2, <2>1 DEF PrepareStarts, FlightInv, Shape
  <2>3. Encoding' = Encoding
    BY <1>2, <2>1, <2>2 DEF PrepareStarts, Encoding, UsesSlot, Idle
  <2>4. QED
    BY <1>2, <2>3 DEF PrepareStarts, SlotInv, TranscodeBound
<1>3. ASSUME NEW w \in Workers, WorkerStep(w) \/ DownloadEnds(w) \/ AcquireSlot(w)
      PROVE  TranscodeBound'
  BY <1>3, SlotWorker
<1>4. ASSUME Restart PROVE TranscodeBound'
  <2>1. Encoding' = {} /\ slots' = 0
    BY <1>4 DEF Restart, Encoding, Idle
  <2>2. Cardinality(Encoding') = 0
    BY <2>1, FS_EmptySet
  <2>3. QED
    BY <2>1, <2>2, SlotsPositive DEF TranscodeBound
<1>5. ASSUME \/ \E h \in Handlers, t \in Tokens : HandlePlayURL(h, t)
             \/ \E h \in Handlers : PrepareJoins(h)
             \/ Shutdown
             \/ UNCHANGED vars
      PROVE  TranscodeBound'
  <2>1. UNCHANGED <<row, worker, slots>>
    BY <1>5 DEF HandlePlayURL, PrepareJoins, Shutdown, vars
  <2>2. QED
    BY <1>1, <2>1
<1>6. TranscodeBound'
  BY <1>2, <1>3, <1>4, <1>5 DEF Next
<1>7. QED
  BY <1>0, <1>6 DEF SlotInv

\* Never more transcodes than asked for, and no entry of the semaphore is lost.
THEOREM TranscodesBounded == Spec => []TranscodeBound
<1>1. SlotInv => TranscodeBound
  BY DEF SlotInv
<1>2. QED
  BY SlotInit, SlotNext, <1>1, PTL DEF Spec

\* The state of the preparer always has its type.
THEOREM TypeCorrect == Spec => []TypeOK
<1>1. SlotInv => TypeOK
  <2> SUFFICES ASSUME SlotInv PROVE TypeOK
    OBVIOUS
  <2>1. slots \in 0 .. Slots
    BY EncodingFinite, SlotsPositive DEF SlotInv, TranscodeBound
  <2>2. QED
    BY <2>1 DEF SlotInv, FlightInv, Shape, TypeOK
<1>2. QED
  BY SlotInit, SlotNext, <1>1, PTL DEF Spec
=============================================================================
