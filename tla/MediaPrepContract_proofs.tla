---------------------- MODULE MediaPrepContract_proofs ----------------------
(***************************************************************************)
(* That the preparation of recordings keeps the contract of PrepContract,  *)
(* that a row is not left "preparing" by a worker that ended, that no      *)
(* half-written file gets its final name, and that temporary files are     *)
(* gone with their worker: for any tokens, modes, workers, requests and    *)
(* concurrency.                                                            *)
(*                                                                         *)
(* Then what a ready row is worth.  From the contract: a finished file.    *)
(* That it stays ready, and that its file is whole, does not hold; two     *)
(* theorems name the one kind of step that each of these hinges on.        *)
(***************************************************************************)
EXTENDS MediaPrep_proofs

-----------------------------------------------------------------------------
(* What each step of a worker relies on.  A worker that has announced      *)
(* itself finds the row as it left it, and its files as far as it brought  *)
(* them: nobody else works on its token.  Only tokens that need preparing  *)
(* are ever asked for, so that a worker that finds its row playable found  *)
(* it ready.                                                               *)

Finished == {"short", "whole"}

Announced == {"create", "download", "normalize", "encode", "store", "publish"}

RowRelied(p, t) ==
    /\ row[t].mode # "passthrough"
    /\ p \in Announced => row[t].state = "preparing"
    /\ p = "release" => row[t].state # "preparing" \/ t \in stranded

FilesRelied(p, t) ==
    /\ p \in {"normalize", "encode"} => part[t] \in Finished
    /\ p = "store" => out[t] \in Finished
    /\ p = "publish" => final[t] # "absent"

Relied(p, t) == RowRelied(p, t) /\ FilesRelied(p, t)

WorkersRely == \A w \in Active : Relied(worker[w].pc, worker[w].token)

RequestsRely == \A h \in Handlers : req[h] # Nobody => row[req[h]].mode # "passthrough"

ContractInv ==
    /\ FlightInv
    /\ WorkersRely
    /\ RequestsRely
    /\ PreparingOwned
    /\ NoHalfFile

\* A step of a worker leaves the other tokens alone.
LEMMA OthersKept ==
    ASSUME Shape, NEW w \in Workers, WorkerStep(w) \/ DownloadEnds(w) \/ AcquireSlot(w),
           NEW u \in Tokens, u # worker[w].token
    PROVE  /\ row'[u] = row[u]
           /\ u \in stranded' <=> u \in stranded
           /\ part'[u] = part[u] /\ out'[u] = out[u] /\ final'[u] = final[u]
<1>1. row'[u] = row[u] /\ (u \in stranded' <=> u \in stranded)
  BY DEF Shape, WorkerStep, ReadRow, MarkPreparing, CreatePart, DownloadEnds, StartRemux,
         AcquireSlot, AbandonWait, EncodeSucceeds, EncodeFails, StoreSucceeds, StoreFails,
         PublishReady, RecordFailure, Release, UpdateCache, Applied, NotApplied
<1>2. part'[u] = part[u] /\ out'[u] = out[u]
  BY DEF Shape, WorkerStep, ReadRow, MarkPreparing, CreatePart, DownloadEnds, StartRemux,
         AcquireSlot, AbandonWait, EncodeSucceeds, EncodeFails, StoreSucceeds, StoreFails,
         PublishReady, RecordFailure, Release, DropTemp, StartEncoding
<1>3. final'[u] = final[u]
  BY DEF Shape, WorkerStep, ReadRow, MarkPreparing, CreatePart, DownloadEnds, StartRemux,
         AcquireSlot, AbandonWait, EncodeSucceeds, EncodeFails, StoreSucceeds, StoreFails,
         PublishReady, RecordFailure, Release
<1>4. QED
  BY <1>1, <1>2, <1>3

-----------------------------------------------------------------------------
(* Each step brings about what the next one relies on.                     *)

LEMMA RowStep ==
    ASSUME Shape, NEW w \in Workers, WorkerStep(w) \/ DownloadEnds(w) \/ AcquireSlot(w),
           Moves(w), RowRelied(worker[w].pc, worker[w].token)
    PROVE  RowRelied(worker[w].pc, worker[w].token)'
<1> DEFINE t == worker[w].token
           r == row[t]
<1>1. t \in Tokens /\ worker[w].pc # "idle"
  BY ActiveRun DEF Moves
<1>2. ASSUME NEW p \in Steps, Goto(w, p)
      PROVE  worker'[w].pc = p /\ worker'[w].token = t
  <2>1. worker'[w] = [pc |-> p, token |-> t]
    BY <1>1, <1>2, GotoFacts
  <2>2. QED
    BY <2>1
<1>3. worker'[w].token = t
  BY <1>2 DEF Moves
<1>4. row'[t].mode # "passthrough"
  BY <1>1, WorkerShape DEF RowRelied
<1>5. ASSUME UNCHANGED <<row, stranded>>, NEW p \in Steps, Goto(w, p),
             p \in Announced => worker[w].pc \in Announced,
             p = "release" => r.state # "preparing" \/ t \in stranded
      PROVE  RowRelied(worker[w].pc, t)'
  <2>1. worker'[w].pc = p
    BY <1>2, <1>5
  <2>2. QED
    BY <1>3, <1>5, <2>1 DEF RowRelied
<1>6. CASE ReadRow(w)
  BY <1>5, <1>6 DEF ReadRow, RowRelied, IsPlayable, Announced, Steps
<1>7. CASE MarkPreparing(w)
  <2>1. CASE Applied(t, "preparing", FALSE, FALSE) /\ Goto(w, "create")
    <3>1. row'[t].state = "preparing"
      BY <1>1, <2>1, Written DEF RowWritten
    <3>2. worker'[w].pc = "create"
      BY <1>2, <2>1 DEF Steps
    <3>3. QED
      BY <1>3, <1>4, <3>1, <3>2 DEF RowRelied
  <2>2. CASE Goto(w, "fail")
    <3>1. worker'[w].pc = "fail"
      BY <1>2, <2>2 DEF Steps
    <3>2. QED
      BY <1>3, <1>4, <3>1 DEF RowRelied, Announced
  <2>3. QED
    BY <1>7, <2>1, <2>2 DEF MarkPreparing, UpdateCache
<1>8. CASE PublishReady(w)
  <2>1. CASE Applied(t, "ready", TRUE, FALSE) /\ Goto(w, "release")
    <3>1. row'[t].state = "ready"
      BY <1>1, <2>1, Written DEF RowWritten
    <3>2. worker'[w].pc = "release"
      BY <1>2, <2>1 DEF Steps
    <3>3. QED
      BY <1>3, <1>4, <3>1, <3>2 DEF RowRelied, Announced
  <2>2. CASE Goto(w, "fail")
    <3>1. worker'[w].pc = "fail"
      BY <1>2, <2>2 DEF Steps
    <3>2. QED
      BY <1>3, <1>4, <3>1 DEF RowRelied, Announced
  <2>3. QED
    BY <1>8, <2>1, <2>2 DEF PublishReady, UpdateCache
<1>9. CASE RecordFailure(w)
  <2>1. worker'[w].pc = "release"
    BY <1>2, <1>9 DEF RecordFailure, Steps
  <2>2. CASE Applied(t, "failed", FALSE, TRUE)
    <3>1. row'[t].state = "failed"
      BY <1>1, <2>2, Written DEF RowWritten
    <3>2. QED
      BY <1>3, <1>4, <2>1, <3>1 DEF RowRelied, Announced
  <2>3. CASE stranded' = stranded \cup {t}
    BY <1>3, <1>4, <2>1, <2>3 DEF RowRelied, Announced
  <2>4. QED
    BY <1>9, <2>2, <2>3 DEF RecordFailure
<1>10. CASE \/ CreatePart(w) \/ DownloadEnds(w) \/ StartRemux(w) \/ AcquireSlot(w)
            \/ AbandonWait(w) \/ EncodeSucceeds(w) \/ EncodeFails(w)
            \/ StoreSucceeds(w) \/ StoreFails(w)
  <2>1. /\ UNCHANGED <<row, stranded>>
        /\ worker[w].pc \in Announced
        /\ \E p \in Steps \ {"release"} : Goto(w, p)
    BY <1>10
       DEF CreatePart, DownloadEnds, StartRemux, AcquireSlot, AbandonWait, StartEncoding,
           EncodeSucceeds, EncodeFails, StoreSucceeds, StoreFails, Announced, Steps
  <2>2. QED
    BY <1>5, <2>1
<1>11. ~Release(w)
  <2>1. PICK p \in Steps : Goto(w, p)
    BY DEF Moves
  <2>2. worker'[w].pc # "idle"
    BY <1>2, <2>1 DEF Steps
  <2>3. QED
    BY <2>2 DEF Release, Shape, Idle
<1>12. QED
  BY <1>6, <1>7, <1>8, <1>9, <1>10, <1>11 DEF WorkerStep

LEMMA FilesStep ==
    ASSUME Shape, NEW w \in Workers, WorkerStep(w) \/ DownloadEnds(w) \/ AcquireSlot(w),
           Moves(w), FilesRelied(worker[w].pc, worker[w].token), NoHalfFile
    PROVE  FilesRelied(worker[w].pc, worker[w].token)' /\ NoHalfFile'
<1> DEFINE t == worker[w].token
<1>1. t \in Tokens /\ worker[w].pc # "idle"
  BY ActiveRun DEF Moves
<1>2. ASSUME NEW p \in Steps, Goto(w, p)
      PROVE  worker'[w].pc = p /\ worker'[w].token = t
  <2>1. worker'[w] = [pc |-> p, token |-> t]
    BY <1>1, <1>2, GotoFacts
  <2>2. QED
    BY <2>1
<1>3. \A u \in Tokens : u # t => final'[u] = final[u]
  BY OthersKept
<1>4. ASSUME final'[t] # "partial" PROVE NoHalfFile'
  BY <1>3, <1>4 DEF NoHalfFile
<1>5. ASSUME final' = final,
             NEW p \in Steps \ {"normalize", "encode", "store", "publish"}, Goto(w, p)
      PROVE  FilesRelied(worker[w].pc, t)' /\ NoHalfFile'
  <2>1. worker'[w].pc = p
    BY <1>2, <1>5
  <2>2. QED
    BY <1>1, <1>4, <1>5, <2>1 DEF FilesRelied, NoHalfFile
<1>6. CASE DownloadEnds(w) /\ ~Goto(w, "fail")
  <2>1. worker'[w].pc = "normalize" /\ worker'[w].token = t
    BY <1>2, <1>6 DEF DownloadEnds, Steps
  <2>2. part'[t] \in Finished /\ final' = final
    BY <1>1, <1>6 DEF DownloadEnds, Finished, Shape
  <2>3. QED
    BY <1>1, <1>4, <2>1, <2>2 DEF FilesRelied, NoHalfFile
<1>7. CASE StartRemux(w) \/ AcquireSlot(w)
  <2>1. worker'[w].pc = "encode" /\ worker'[w].token = t
    BY <1>2, <1>7 DEF StartRemux, AcquireSlot, StartEncoding, Steps
  <2>2. part[t] \in Finished /\ UNCHANGED <<part, final>>
    BY <1>7 DEF StartRemux, AcquireSlot, FilesRelied
  <2>3. QED
    BY <1>1, <1>4, <2>1, <2>2 DEF FilesRelied, NoHalfFile
<1>8. CASE EncodeSucceeds(w)
  <2>1. worker'[w].pc = "store" /\ worker'[w].token = t
    BY <1>2, <1>8 DEF EncodeSucceeds, Steps
  <2>2. out'[t] \in Finished /\ final' = final
    BY <1>1, <1>8 DEF EncodeSucceeds, FilesRelied, Shape
  <2>3. QED
    BY <1>1, <1>4, <2>1, <2>2 DEF FilesRelied, NoHalfFile
<1>9. CASE StoreSucceeds(w)
  <2>1. worker'[w].pc = "publish" /\ worker'[w].token = t
    BY <1>2, <1>9 DEF StoreSucceeds, Steps
  <2>2. final'[t] \in Finished
    BY <1>1, <1>9 DEF StoreSucceeds, FilesRelied, Shape
  <2>3. QED
    BY <1>4, <2>1, <2>2 DEF FilesRelied, Finished
<1>10. CASE \/ ReadRow(w) \/ MarkPreparing(w) \/ CreatePart(w)
            \/ DownloadEnds(w) /\ Goto(w, "fail")
            \/ AbandonWait(w) \/ EncodeFails(w) \/ StoreFails(w)
            \/ PublishReady(w) \/ RecordFailure(w)
  <2>1. /\ final' = final
        /\ \E p \in Steps \ {"normalize", "encode", "store", "publish"} : Goto(w, p)
    BY <1>10
       DEF ReadRow, MarkPreparing, CreatePart, DownloadEnds, AbandonWait, EncodeFails,
           StoreFails, PublishReady, RecordFailure, UpdateCache, Steps
  <2>2. QED
    BY <1>5, <2>1
<1>11. ~Release(w)
  <2>1. PICK p \in Steps : Goto(w, p)
    BY DEF Moves
  <2>2. worker'[w].pc # "idle"
    BY <1>2, <2>1 DEF Steps
  <2>3. QED
    BY <2>2 DEF Release, Shape, Idle
<1>12. QED
  BY <1>6, <1>7, <1>8, <1>9, <1>10, <1>11 DEF WorkerStep

-----------------------------------------------------------------------------
(* The invariant is kept.                                                  *)

LEMMA ContractInit == Init => ContractInv
<1> SUFFICES ASSUME Init PROVE ContractInv
  OBVIOUS
<1>1. FlightInv /\ Active = {}
  BY FlightInit DEF Init, Active, Idle
<1>2. WorkersRely /\ RequestsRely
  BY <1>1 DEF WorkersRely, RequestsRely, Init
<1>3. \A t \in Tokens : row[t].state = "none"
  BY DEF Init
<1>4. PreparingOwned /\ NoHalfFile
  BY <1>3 DEF PreparingOwned, NoHalfFile, Init
<1>5. QED
  BY <1>1, <1>2, <1>4 DEF ContractInv

LEMMA ContractMoves ==
    ASSUME ContractInv, NEW w \in Workers, Moves(w),
           WorkerStep(w) \/ DownloadEnds(w) \/ AcquireSlot(w)
    PROVE  WorkersRely' /\ PreparingOwned' /\ NoHalfFile'
<1> DEFINE t == worker[w].token
<1>1. Shape /\ SingleFlight /\ WorkersRely /\ NoHalfFile
  BY DEF ContractInv, FlightInv
<1>2. w \in Active /\ t \in Tokens
  BY <1>1, ActiveRun DEF Moves
<1>3. /\ \A v \in Workers : v # w => worker'[v] = worker[v]
      /\ worker'[w].token = t
      /\ Active' = Active
  <2>1. PICK p \in Steps : Goto(w, p)
    BY DEF Moves
  <2>2. /\ worker'[w] = [pc |-> p, token |-> t]
        /\ \A v \in Workers : v # w => worker'[v] = worker[v]
        /\ Active' = Active
    BY <1>1, <2>1, GotoFacts DEF Moves
  <2>3. QED
    BY <2>2
<1>4. Relied(worker[w].pc, t)' /\ NoHalfFile'
  <2>1. RowRelied(worker[w].pc, t) /\ FilesRelied(worker[w].pc, t)
    BY <1>1, <1>2 DEF WorkersRely, Relied
  <2>2. RowRelied(worker[w].pc, t)'
    BY <1>1, <2>1, RowStep
  <2>3. FilesRelied(worker[w].pc, t)' /\ NoHalfFile'
    BY <1>1, <2>1, FilesStep
  <2>4. QED
    BY <2>2, <2>3 DEF Relied
<1>5. ASSUME NEW v \in Active, v # w PROVE Relied(worker[v].pc, worker[v].token)'
  <2>1. v \in Workers /\ worker'[v] = worker[v] /\ worker[v].pc # "idle"
    BY <1>3, <1>5 DEF Active
  <2>2. worker[v].token \in Tokens /\ worker[v].token # t
    BY <1>1, <1>2, <1>5, <2>1, ActiveRun DEF SingleFlight
  <2>3. Relied(worker[v].pc, worker[v].token)
    BY <1>1, <1>5 DEF WorkersRely
  <2>4. /\ row'[worker[v].token] = row[worker[v].token]
        /\ worker[v].token \in stranded' <=> worker[v].token \in stranded
        /\ part'[worker[v].token] = part[worker[v].token]
        /\ out'[worker[v].token] = out[worker[v].token]
        /\ final'[worker[v].token] = final[worker[v].token]
    BY <1>1, <2>2, OthersKept
  <2>5. QED
    BY <2>1, <2>3, <2>4 DEF Relied, RowRelied, FilesRelied
<1>6. WorkersRely'
  BY <1>3, <1>4, <1>5 DEF WorkersRely
<1>7. PreparingOwned'
  <2> SUFFICES ASSUME NEW u \in Tokens, row'[u].state = "preparing"
               PROVE  Busy(u)' \/ u \in stranded'
    BY DEF PreparingOwned
  <2>1. CASE u = t
    BY <1>2, <1>3, <2>1 DEF Busy
  <2>2. CASE u # t
    <3>1. row'[u] = row[u] /\ (u \in stranded' <=> u \in stranded)
      BY <1>1, <2>2, OthersKept
    <3>2. Busy(u) \/ u \in stranded
      BY <3>1 DEF ContractInv, PreparingOwned
    <3>3. Busy(u) => Busy(u)'
      BY <1>3 DEF Busy, Active
    <3>4. QED
      BY <3>1, <3>2, <3>3
  <2>3. QED
    BY <2>1, <2>2
<1>8. QED
  BY <1>4, <1>6, <1>7

LEMMA ContractRelease ==
    ASSUME ContractInv, NEW w \in Workers, Release(w)
    PROVE  WorkersRely' /\ PreparingOwned' /\ NoHalfFile'
<1> DEFINE t == worker[w].token
<1>1. /\ FlightInv
      /\ UNCHANGED <<row, part, out, final, stranded>>
      /\ worker[w].pc = "release"
  BY DEF ContractInv, Release
<1>2. Active' = Active \ {w} /\ (\A v \in Active' : worker'[v] = worker[v])
  BY <1>1, FlightRelease
<1>3. WorkersRely'
  BY <1>1, <1>2 DEF ContractInv, WorkersRely, Relied, RowRelied, FilesRelied
<1>4. NoHalfFile'
  BY <1>1 DEF ContractInv, NoHalfFile
<1>5. PreparingOwned'
  <2> SUFFICES ASSUME NEW u \in Tokens, row'[u].state = "preparing"
               PROVE  Busy(u)' \/ u \in stranded'
    BY DEF PreparingOwned
  <2>1. Busy(u) \/ u \in stranded
    BY <1>1 DEF ContractInv, PreparingOwned
  <2>2. w \in Active
    BY <1>1 DEF Active
  <2>3. row[t].state # "preparing" \/ t \in stranded
    BY <1>1, <2>2 DEF ContractInv, WorkersRely, Relied, RowRelied
  <2>4. CASE u = t
    BY <1>1, <2>3, <2>4
  <2>5. CASE u # t
    BY <1>1, <1>2, <2>1, <2>5 DEF Busy
  <2>6. QED
    BY <2>4, <2>5
<1>6. QED
  BY <1>3, <1>4, <1>5

LEMMA ContractNext == ContractInv /\ [Next]_vars => ContractInv'
<1> SUFFICES ASSUME ContractInv, [Next]_vars PROVE ContractInv'
  OBVIOUS
<1>0. FlightInv /\ FlightInv' /\ Shape
  BY FlightNext DEF ContractInv, FlightInv
<1>1. ASSUME UNCHANGED <<row, worker, part, out, final, stranded>>
      PROVE  WorkersRely' /\ PreparingOwned' /\ NoHalfFile'
  <2>1. Active' = Active
    BY <1>1 DEF Active
  <2>2. WorkersRely'
    BY <1>1, <2>1 DEF ContractInv, WorkersRely, Relied, RowRelied, FilesRelied
  <2>3. PreparingOwned' /\ NoHalfFile'
    BY <1>1, <2>1 DEF ContractInv, PreparingOwned, NoHalfFile, Busy
  <2>4. QED
    BY <2>2, <2>3
<1>2. ASSUME NEW h \in Handlers, NEW t \in Tokens, HandlePlayURL(h, t) PROVE ContractInv'
  <2>1. RequestsRely'
    BY <1>0, <1>2, NobodyAssumption
       DEF HandlePlayURL, IsPlayable, ContractInv, RequestsRely, Shape
  <2>2. QED
    BY <1>0, <1>1, <1>2, <2>1 DEF HandlePlayURL, ContractInv
<1>3. ASSUME NEW h \in Handlers, PrepareStarts(h) PROVE ContractInv'
  <2>1. NewWorker \in Workers /\ NewWorker \notin Active
    BY <1>0, <1>3, NewWorkerFacts DEF PrepareStarts
  <2>2. /\ worker'[NewWorker] = [pc |-> "read", token |-> req[h]]
        /\ \A v \in Workers : v # NewWorker => worker'[v] = worker[v]
        /\ UNCHANGED <<row, part, out, final, stranded>>
    BY <1>0, <1>3, <2>1 DEF PrepareStarts, Shape
  <2>3. Active' = Active \cup {NewWorker}
    BY <2>1, <2>2 DEF Active
  <2>4. Relied("read", req[h])
    BY <1>3 DEF PrepareStarts, ContractInv, RequestsRely, Relied, RowRelied, FilesRelied,
                Announced
  <2>5. WorkersRely'
    <3> SUFFICES ASSUME NEW v \in Active' PROVE Relied(worker[v].pc, worker[v].token)'
      BY DEF WorkersRely
    <3>1. CASE v = NewWorker
      BY <2>2, <2>4, <3>1 DEF Relied, RowRelied, FilesRelied
    <3>2. CASE v # NewWorker
      <4>1. v \in Active /\ worker'[v] = worker[v]
        BY <2>2, <2>3, <3>2 DEF Active
      <4>2. Relied(worker[v].pc, worker[v].token)
        BY <4>1 DEF ContractInv, WorkersRely
      <4>3. QED
        BY <2>2, <4>1, <4>2 DEF Relied, RowRelied, FilesRelied
    <3>3. QED
      BY <3>1, <3>2
  <2>6. RequestsRely'
    BY <1>0, <1>3, <2>2 DEF PrepareStarts, ContractInv, RequestsRely, Shape
  <2>7. PreparingOwned' /\ NoHalfFile'
    <3>1. \A v \in Active : v \in Active' /\ worker'[v] = worker[v]
      BY <2>1, <2>2, <2>3 DEF Active
    <3>2. \A u \in Tokens : Busy(u) => Busy(u)'
      BY <3>1 DEF Busy
    <3>3. QED
      BY <2>2, <3>2 DEF ContractInv, PreparingOwned, NoHalfFile
  <2>8. QED
    BY <1>0, <2>5, <2>6, <2>7 DEF ContractInv
<1>4. ASSUME NEW h \in Handlers, PrepareJoins(h) PROVE ContractInv'
  <2>1. RequestsRely'
    BY <1>0, <1>4 DEF PrepareJoins, ContractInv, RequestsRely, Shape
  <2>2. QED
    BY <1>0, <1>1, <1>4, <2>1 DEF PrepareJoins, ContractInv
<1>5. ASSUME NEW w \in Workers, WorkerStep(w) \/ DownloadEnds(w) \/ AcquireSlot(w)
      PROVE  ContractInv'
  <2>1. req' = req
    BY <1>5, StepMoves DEF Moves, Release
  <2>2. \A u \in Tokens : row'[u].mode = row[u].mode
    BY <1>0, <1>5, WorkerShape
  <2>3. RequestsRely'
    BY <1>0, <2>1, <2>2 DEF ContractInv, RequestsRely, Shape
  <2>4. WorkersRely' /\ PreparingOwned' /\ NoHalfFile'
    BY <1>5, StepMoves, ContractMoves, ContractRelease
  <2>5. QED
    BY <1>0, <2>3, <2>4 DEF ContractInv
<1>6. ASSUME Restart PROVE ContractInv'
  <2>1. Active' = {}
    BY <1>0, <1>6, FlightRestart
  <2>2. WorkersRely' /\ RequestsRely'
    BY <1>6, <2>1 DEF Restart, WorkersRely, RequestsRely
  <2>3. PreparingOwned' /\ NoHalfFile'
    BY <1>6 DEF Restart, ContractInv, PreparingOwned, NoHalfFile
  <2>4. QED
    BY <1>0, <2>2, <2>3 DEF ContractInv
<1>7. CASE Shutdown \/ UNCHANGED vars
  <2>1. UNCHANGED <<row, worker, part, out, final, req, stranded>>
    BY <1>7 DEF Shutdown, vars
  <2>2. RequestsRely'
    BY <2>1 DEF ContractInv, RequestsRely
  <2>3. QED
    BY <1>0, <1>1, <2>1, <2>2 DEF ContractInv
<1>8. QED
  BY <1>2, <1>3, <1>4, <1>5, <1>6, <1>7 DEF Next

\* A row says "preparing" only while a worker is on its token, unless a worker
\* was killed or its last write was refused.
THEOREM PreparingIsOwned == Spec => []PreparingOwned
<1>1. ContractInv => PreparingOwned
  BY DEF ContractInv
<1>2. QED
  BY ContractInit, ContractNext, <1>1, PTL DEF Spec

\* No file that was still being written gets its final name.
THEOREM FilesWhole == Spec => []NoHalfFile
<1>1. ContractInv => NoHalfFile
  BY DEF ContractInv
<1>2. QED
  BY ContractInit, ContractNext, <1>1, PTL DEF Spec

-----------------------------------------------------------------------------
(* Temporary files.  What a worker leaves behind when it goes depends on   *)
(* the way it took, so that the invariant follows the files of a token     *)
(* through every step its worker can be at.                                *)

Left(t) == out[t] = "absent" /\ part[t] \in {"absent", "partial"}

TempRelied(p, t) ==
    /\ p \notin {"encode", "store"} => out[t] = "absent"
    /\ p \notin {"normalize", "encode", "store", "publish"} => Left(t)

WorkersTidy == \A w \in Active : TempRelied(worker[w].pc, worker[w].token)

TempInv == FlightInv /\ WorkersTidy /\ TempReleased

LEMMA TempStep ==
    ASSUME Shape, NEW w \in Workers, WorkerStep(w) \/ DownloadEnds(w) \/ AcquireSlot(w),
           Moves(w), TempRelied(worker[w].pc, worker[w].token)
    PROVE  TempRelied(worker[w].pc, worker[w].token)'
<1> DEFINE t == worker[w].token
<1>1. t \in Tokens /\ worker[w].pc # "idle"
  BY ActiveRun DEF Moves
<1>2. ASSUME NEW p \in Steps, Goto(w, p)
      PROVE  worker'[w].pc = p /\ worker'[w].token = t
  <2>1. worker'[w] = [pc |-> p, token |-> t]
    BY <1>1, <1>2, GotoFacts
  <2>2. QED
    BY <2>1
\* Steps that leave the files alone, and those that clear them.
<1>3. ASSUME UNCHANGED <<part, out>>, Left(t), NEW p \in Steps, Goto(w, p)
      PROVE  TempRelied(worker[w].pc, t)'
  BY <1>1, <1>2, <1>3 DEF TempRelied, Left
<1>4. ASSUME DropTemp(t), Goto(w, "fail") PROVE TempRelied(worker[w].pc, t)'
  <2>1. out'[t] = "absent" /\ part'[t] = "absent"
    BY <1>1, <1>4 DEF DropTemp, Shape
  <2>2. worker'[w].token = t
    BY <1>2, <1>4 DEF Steps
  <2>3. QED
    BY <2>1, <2>2 DEF TempRelied, Left
<1>5. CASE ReadRow(w) \/ MarkPreparing(w) \/ RecordFailure(w)
  <2>1. UNCHANGED <<part, out>> /\ Left(t)
    BY <1>5 DEF ReadRow, MarkPreparing, RecordFailure, TempRelied
  <2>2. PICK p \in Steps : Goto(w, p)
    BY DEF Moves
  <2>3. QED
    BY <1>3, <2>1, <2>2
<1>6. CASE CreatePart(w)
  <2>1. Left(t)
    BY <1>6 DEF CreatePart, TempRelied
  <2>2. CASE Goto(w, "fail") /\ UNCHANGED part
    BY <1>3, <1>6, <2>1, <2>2 DEF CreatePart, Steps
  <2>3. CASE Goto(w, "download") /\ part' = [part EXCEPT ![t] = "partial"]
    <3>1. out'[t] = "absent" /\ part'[t] = "partial"
      BY <1>1, <1>6, <2>1, <2>3 DEF CreatePart, Left, Shape
    <3>2. worker'[w].token = t
      BY <1>2, <2>3 DEF Steps
    <3>3. QED
      BY <3>1, <3>2 DEF TempRelied, Left
  <2>4. QED
    BY <1>6, <2>2, <2>3 DEF CreatePart
<1>7. CASE DownloadEnds(w)
  <2>1. Left(t) /\ out' = out
    BY <1>7 DEF DownloadEnds, TempRelied
  <2>2. CASE Goto(w, "fail") /\ UNCHANGED part
    BY <1>3, <2>1, <2>2 DEF Steps
  <2>3. CASE Goto(w, "normalize")
    <3>1. worker'[w].pc = "normalize" /\ worker'[w].token = t
      BY <1>2, <2>3 DEF Steps
    <3>2. QED
      BY <2>1, <3>1 DEF TempRelied, Left
  <2>4. QED
    BY <1>7, <2>2, <2>3 DEF DownloadEnds
<1>8. CASE StartRemux(w) \/ AcquireSlot(w)
  <2>1. worker'[w].pc = "encode"
    BY <1>2, <1>8 DEF StartRemux, AcquireSlot, StartEncoding, Steps
  <2>2. QED
    BY <2>1 DEF TempRelied
<1>9. CASE EncodeSucceeds(w)
  <2>1. worker'[w].pc = "store"
    BY <1>2, <1>9 DEF EncodeSucceeds, Steps
  <2>2. QED
    BY <2>1 DEF TempRelied
<1>10. CASE StoreSucceeds(w)
  <2>1. worker'[w].pc = "publish" /\ worker'[w].token = t
    BY <1>2, <1>10 DEF StoreSucceeds, Steps
  <2>2. out'[t] = "absent"
    BY <1>1, <1>10 DEF StoreSucceeds, Shape
  <2>3. QED
    BY <2>1, <2>2 DEF TempRelied
<1>11. CASE PublishReady(w)
  <2>1. out'[t] = "absent" /\ part'[t] = "absent"
    BY <1>1, <1>11 DEF PublishReady, TempRelied, Shape
  <2>2. PICK p \in Steps : Goto(w, p)
    BY DEF Moves
  <2>3. worker'[w].token = t
    BY <1>2, <2>2
  <2>4. QED
    BY <2>1, <2>3 DEF TempRelied, Left
<1>12. CASE AbandonWait(w) \/ EncodeFails(w) \/ StoreFails(w)
  BY <1>4, <1>12 DEF AbandonWait, EncodeFails, StoreFails
<1>13. ~Release(w)
  <2>1. PICK p \in Steps : Goto(w, p)
    BY DEF Moves
  <2>2. worker'[w].pc # "idle"
    BY <1>2, <2>1 DEF Steps
  <2>3. QED
    BY <2>2 DEF Release, Shape, Idle
<1>14. QED
  BY <1>5, <1>6, <1>7, <1>8, <1>9, <1>10, <1>11, <1>12, <1>13 DEF WorkerStep

LEMMA TempMoves ==
    ASSUME TempInv, NEW w \in Workers, Moves(w),
           WorkerStep(w) \/ DownloadEnds(w) \/ AcquireSlot(w)
    PROVE  WorkersTidy' /\ TempReleased'
<1> DEFINE t == worker[w].token
<1>1. Shape /\ SingleFlight /\ w \in Active /\ t \in Tokens
  BY ActiveRun DEF TempInv, FlightInv, Moves
<1>2. /\ \A v \in Workers : v # w => worker'[v] = worker[v]
      /\ worker'[w].token = t
      /\ Active' = Active
  <2>1. PICK p \in Steps : Goto(w, p)
    BY DEF Moves
  <2>2. /\ worker'[w] = [pc |-> p, token |-> t]
        /\ \A v \in Workers : v # w => worker'[v] = worker[v]
        /\ Active' = Active
    BY <1>1, <2>1, GotoFacts DEF Moves
  <2>3. QED
    BY <2>2
<1>3. TempRelied(worker[w].pc, t)'
  BY <1>1, TempStep DEF TempInv, WorkersTidy
<1>4. ASSUME NEW v \in Active, v # w PROVE TempRelied(worker[v].pc, worker[v].token)'
  <2>1. v \in Workers /\ worker'[v] = worker[v] /\ worker[v].pc # "idle"
    BY <1>2, <1>4 DEF Active
  <2>2. worker[v].token \in Tokens /\ worker[v].token # t
    BY <1>1, <1>4, <2>1, ActiveRun DEF SingleFlight
  <2>3. /\ part'[worker[v].token] = part[worker[v].token]
        /\ out'[worker[v].token] = out[worker[v].token]
    BY <1>1, <2>2, OthersKept
  <2>4. QED
    BY <1>4, <2>1, <2>3 DEF TempInv, WorkersTidy, TempRelied, Left
<1>5. WorkersTidy'
  BY <1>2, <1>3, <1>4 DEF WorkersTidy
<1>6. TempReleased'
  <2> SUFFICES ASSUME NEW u \in Tokens, ~Busy(u)'
               PROVE  out'[u] = "absent" /\ part'[u] \in {"absent", "partial"}
    BY DEF TempReleased
  <2>1. ~Busy(u) /\ u # t
    BY <1>1, <1>2 DEF Busy, Active
  <2>2. QED
    BY <1>1, <2>1, OthersKept DEF TempInv, TempReleased
<1>7. QED
  BY <1>5, <1>6

LEMMA TempNext == TempInv /\ [Next]_vars => TempInv'
<1> SUFFICES ASSUME TempInv, [Next]_vars PROVE TempInv'
  OBVIOUS
<1>0. FlightInv /\ FlightInv' /\ Shape
  BY FlightNext DEF TempInv, FlightInv
<1>1. ASSUME UNCHANGED <<worker, part, out>> PROVE TempInv'
  <2>1. Active' = Active
    BY <1>1 DEF Active
  <2>2. QED
    BY <1>0, <1>1, <2>1 DEF TempInv, WorkersTidy, TempRelied, Left, TempReleased, Busy
<1>2. ASSUME NEW h \in Handlers, PrepareStarts(h) PROVE TempInv'
  <2>1. NewWorker \in Workers /\ NewWorker \notin Active
    BY <1>0, <1>2, NewWorkerFacts DEF PrepareStarts
  <2>2. /\ worker'[NewWorker] = [pc |-> "read", token |-> req[h]]
        /\ \A v \in Workers : v # NewWorker => worker'[v] = worker[v]
        /\ UNCHANGED <<part, out>>
        /\ req[h] \in Tokens /\ req[h] \notin inflight
    BY <1>0, <1>2, <2>1 DEF PrepareStarts, Admits, Shape
  <2>3. Active' = Active \cup {NewWorker}
    BY <2>1, <2>2 DEF Active
  <2>4. ~Busy(req[h])
    BY <1>0, <2>2 DEF Busy, FlightInv, TableExact
  <2>5. Left(req[h])
    BY <2>2, <2>4 DEF TempInv, TempReleased, Left
  <2>6. WorkersTidy'
    <3> SUFFICES ASSUME NEW v \in Active'
                 PROVE  TempRelied(worker[v].pc, worker[v].token)'
      BY DEF WorkersTidy
    <3>1. CASE v = NewWorker
      BY <2>2, <2>5, <3>1 DEF TempRelied, Left
    <3>2. CASE v # NewWorker
      <4>1. v \in Active /\ worker'[v] = worker[v]
        BY <2>2, <2>3, <3>2 DEF Active
      <4>2. QED
        BY <2>2, <4>1 DEF TempInv, WorkersTidy, TempRelied, Left
    <3>3. QED
      BY <3>1, <3>2
  <2>7. TempReleased'
    <3>1. \A v \in Active : v \in Active' /\ worker'[v] = worker[v]
      BY <2>1, <2>2, <2>3 DEF Active
    <3>2. \A u \in Tokens : Busy(u) => Busy(u)'
      BY <3>1 DEF Busy
    <3>3. QED
      BY <2>2, <3>2 DEF TempInv, TempReleased
  <2>8. QED
    BY <1>0, <2>6, <2>7 DEF TempInv
<1>3. ASSUME NEW w \in Workers, Release(w) PROVE TempInv'
  <2>1. UNCHANGED <<part, out>> /\ worker[w].pc = "release" /\ w \in Active
    BY <1>0, <1>3, ActiveRun DEF Release
  <2>2. Active' = Active \ {w} /\ \A v \in Active' : worker'[v] = worker[v]
    BY <1>0, <1>3, FlightRelease
  <2>3. WorkersTidy'
    BY <2>1, <2>2 DEF TempInv, WorkersTidy, TempRelied, Left
  <2>4. Left(worker[w].token)
    BY <2>1 DEF TempInv, WorkersTidy, TempRelied
  <2>5. TempReleased'
    <3> SUFFICES ASSUME NEW u \in Tokens, ~Busy(u)'
                 PROVE  out[u] = "absent" /\ part[u] \in {"absent", "partial"}
      BY <2>1 DEF TempReleased
    <3>1. CASE u = worker[w].token
      BY <2>4, <3>1 DEF Left
    <3>2. CASE u # worker[w].token
      BY <2>2, <3>2 DEF Busy, TempInv, TempReleased
    <3>3. QED
      BY <3>1, <3>2
  <2>6. QED
    BY <1>0, <2>3, <2>5 DEF TempInv
<1>4. ASSUME NEW w \in Workers, WorkerStep(w) \/ DownloadEnds(w) \/ AcquireSlot(w), Moves(w)
      PROVE  TempInv'
  BY <1>0, <1>4, TempMoves DEF TempInv
<1>5. ASSUME Restart PROVE TempInv'
  <2>1. Active' = {}
    BY <1>0, <1>5, FlightRestart
  <2>2. QED
    BY <1>0, <1>5, <2>1 DEF Restart, TempInv, WorkersTidy, TempReleased
<1>6. QED
  BY <1>1, <1>2, <1>3, <1>4, <1>5, StepMoves
     DEF Next, HandlePlayURL, PrepareJoins, Shutdown, vars

\* Without a worker on its token, no temporary file is left but the one of a
\* download that failed: for any tokens, workers and ways a worker can end.
THEOREM TempsReleased == Spec => []TempReleased
<1>1. Init => TempInv
  <2> SUFFICES ASSUME Init PROVE WorkersTidy /\ TempReleased
    BY FlightInit DEF TempInv
  <2>1. Active = {}
    BY DEF Init, Active, Idle
  <2>2. QED
    BY <2>1 DEF Init, WorkersTidy, TempReleased
<1>2. TempInv => TempReleased
  BY DEF TempInv
<1>3. QED
  BY TempNext, <1>1, <1>2, PTL DEF Spec

-----------------------------------------------------------------------------
(* The contract.  The attempts are the in-flight table.                    *)

Status == [t \in Tokens |-> row[t].state]
Published == {t \in Tokens : final[t] # "absent"}

LEMMA ContractStarts == Init => Contract!Init
<1> SUFFICES ASSUME Init PROVE Contract!Init
  OBVIOUS
<1>1. Active = {}
  BY DEF Init, Active, Idle
<1>2. Status = [t \in Tokens |-> "none"]
  BY DEF Init, Status
<1>3. Published = {}
  BY DEF Init, Published
<1>4. QED
  BY <1>1, <1>2, <1>3 DEF Contract!Init, Status, Published

LEMMA ContractSteps ==
    ContractInv /\ ContractInv' /\ [Next]_vars => [Contract!Next]_(Contract!vars)
<1> SUFFICES ASSUME ContractInv, ContractInv', [Next]_vars
             PROVE  [Contract!Next]_(Contract!vars)
  OBVIOUS
<1>0. FlightInv /\ Shape /\ WorkersRely
  BY DEF ContractInv, FlightInv
<1>1. /\ inflight = {worker[w].token : w \in Active}
      /\ inflight' = {worker[w].token : w \in Active}'
  BY DEF ContractInv, FlightInv, TableExact
<1>2. ASSUME UNCHANGED <<inflight, row, final>> PROVE [Contract!Next]_(Contract!vars)
  BY <1>1, <1>2 DEF Contract!vars
<1>3. ASSUME NEW h \in Handlers, PrepareStarts(h) PROVE [Contract!Next]_(Contract!vars)
  <2>1. PICK t \in Tokens : t = req[h]
    BY <1>0, <1>3 DEF PrepareStarts, Shape
  <2>2. t \notin inflight /\ inflight' = inflight \cup {t} /\ UNCHANGED <<row, final>>
    BY <1>3, <2>1 DEF PrepareStarts, Admits
  <2>3. Contract!Begin(t)
    BY <1>1, <2>2 DEF Contract!Begin
  <2>4. QED
    BY <2>3 DEF Contract!Next
<1>4. ASSUME NEW w \in Workers, WorkerStep(w) \/ DownloadEnds(w) \/ AcquireSlot(w)
      PROVE  [Contract!Next]_(Contract!vars)
  <2>0. PICK t \in Tokens : t = worker[w].token
    BY <1>0, <1>4, StepMoves, ActiveRun DEF Moves, Release
  <2>1. w \in Active /\ t \in inflight
    BY <1>0, <1>1, <1>4, <2>0, StepMoves, ActiveRun DEF Moves, Release
  <2>2. Relied(worker[w].pc, t)
    BY <1>0, <2>0, <2>1 DEF WorkersRely
  <2>3. CASE Release(w)
    <3>1. Contract!End(t)
      BY <1>1, <2>0, <2>1, <2>3 DEF Release, Contract!End
    <3>2. QED
      BY <3>1 DEF Contract!Next
  <2>4. CASE StoreSucceeds(w)
    <3>1. final' = [final EXCEPT ![t] = out[t]] /\ out[t] # "absent"
      BY <2>0, <2>2, <2>4 DEF StoreSucceeds, Relied, FilesRelied, Finished
    <3>2. Published' = Published \cup {t}
      BY <1>0, <3>1 DEF Published, Shape
    <3>3. row[t].state = "preparing"
      BY <2>0, <2>2, <2>4 DEF StoreSucceeds, Relied, RowRelied, Announced
    <3>4. UNCHANGED <<inflight, row>>
      BY <2>4 DEF StoreSucceeds
    <3>5. Contract!Publish(t)
      BY <1>1, <2>1, <3>2, <3>3, <3>4 DEF Contract!Publish, Published
    <3>6. QED
      BY <3>5 DEF Contract!Next
  <2>5. ASSUME NEW s, row'[t].state = s, \A u \in Tokens : u # t => row'[u] = row[u]
        PROVE  Status' = [Status EXCEPT ![t] = s]
    BY <2>5 DEF Status
  <2>6. CASE MarkPreparing(w)
    <3>1. UNCHANGED <<inflight, final>>
      BY <2>6 DEF MarkPreparing
    <3>2. CASE Applied(t, "preparing", FALSE, FALSE)
      <4>1. Status' = [Status EXCEPT ![t] = "preparing"]
        BY <1>0, <2>5, <3>2, Written DEF RowWritten
      <4>2. Contract!Announce(t)
        BY <1>1, <2>1, <3>1, <4>1 DEF Contract!Announce, Status
      <4>3. QED
        BY <4>2 DEF Contract!Next
    <3>3. CASE NotApplied
      BY <1>2, <3>1, <3>3 DEF NotApplied
    <3>4. QED
      BY <2>0, <2>6, <3>2, <3>3 DEF MarkPreparing, UpdateCache
  <2>7. CASE PublishReady(w)
    <3>1. UNCHANGED <<inflight, final>>
      BY <2>7 DEF PublishReady
    <3>2. CASE Applied(t, "ready", TRUE, FALSE)
      <4>1. Status' = [Status EXCEPT ![t] = "ready"]
        BY <1>0, <2>5, <3>2, Written DEF RowWritten
      <4>2. row[t].state = "preparing" /\ t \in Published
        BY <2>0, <2>1, <2>2, <2>7
           DEF PublishReady, Relied, RowRelied, FilesRelied, Announced, Published
      <4>3. Contract!Deliver(t)
        BY <1>1, <2>1, <3>1, <4>1, <4>2 DEF Contract!Deliver, Status, Published
      <4>4. QED
        BY <4>3 DEF Contract!Next
    <3>3. CASE NotApplied
      BY <1>2, <3>1, <3>3 DEF NotApplied
    <3>4. QED
      BY <2>0, <2>7, <3>2, <3>3 DEF PublishReady, UpdateCache
  <2>8. CASE RecordFailure(w)
    <3>1. UNCHANGED <<inflight, final>>
      BY <2>8 DEF RecordFailure
    <3>2. CASE Applied(t, "failed", FALSE, TRUE)
      <4>1. Status' = [Status EXCEPT ![t] = "failed"]
        BY <1>0, <2>5, <3>2, Written DEF RowWritten
      <4>2. Contract!Fail(t)
        BY <1>1, <2>1, <3>1, <4>1 DEF Contract!Fail, Status
      <4>3. QED
        BY <4>2 DEF Contract!Next
    <3>3. CASE UNCHANGED row
      BY <1>2, <3>1, <3>3
    <3>4. QED
      BY <2>0, <2>8, <3>2, <3>3 DEF RecordFailure
  <2>9. CASE UNCHANGED <<inflight, row, final>>
    BY <1>2, <2>9
  <2>10. QED
    BY <1>4, <2>3, <2>4, <2>6, <2>7, <2>8, <2>9
       DEF WorkerStep, ReadRow, CreatePart, DownloadEnds, StartRemux, AcquireSlot,
           AbandonWait, EncodeSucceeds, EncodeFails, StoreFails
<1>5. CASE Restart
  <2>1. inflight' = {} /\ UNCHANGED <<row, final>>
    BY <1>5 DEF Restart
  <2>2. Contract!Interrupt
    BY <1>1, <2>1 DEF Contract!Interrupt
  <2>3. QED
    BY <2>2 DEF Contract!Next
<1>6. CASE \/ \E h \in Handlers, t \in Tokens : HandlePlayURL(h, t)
           \/ \E h \in Handlers : PrepareJoins(h)
           \/ Shutdown
           \/ UNCHANGED vars
  BY <1>2, <1>6 DEF HandlePlayURL, PrepareJoins, Shutdown, vars
<1>7. QED
  BY <1>3, <1>4, <1>5, <1>6 DEF Next

\* The preparer, with its rows, requests and files, implements PrepContract.
THEOREM KeepsContract == Spec => ContractKept
<1>1. QED
  BY ContractInit, ContractNext, ContractStarts, ContractSteps, PTL
     DEF Spec, ContractKept, Contract!Spec

-----------------------------------------------------------------------------
(* What the contract is good for: a row that is ready has a finished file. *)

ReadyPublished == \A t \in Tokens : row[t].state = "ready" => final[t] # "absent"

\* Whatever keeps the contract does not make a token ready before its file is published.
LEMMA ContractDelivers ==
    ReadyPublished /\ [Contract!Next]_(Contract!vars) => ReadyPublished'
<1> SUFFICES ASSUME ReadyPublished, [Contract!Next]_(Contract!vars),
                    NEW u \in Tokens, Status'[u] = "ready"
             PROVE  u \in Published'
  BY DEF ReadyPublished, Status, Published
<1>1. u \in Published \/ Status[u] # "ready"
  BY DEF ReadyPublished, Status, Published
<1>2. CASE Status' = Status
  BY <1>1, <1>2 DEF Contract!Next, Contract!vars, Contract!Begin, Contract!Announce, Contract!Publish,
     Contract!Deliver, Contract!Fail, Contract!End, Contract!Interrupt, Status, Published
<1>3. ASSUME NEW t \in Tokens, NEW s, Status' = [Status EXCEPT ![t] = s],
             Published' = Published, s = "ready" => t \in Published
      PROVE  u \in Published'
  BY <1>1, <1>3 DEF Status
<1>4. CASE Status' # Status
  <2>1. PICK t \in Tokens : Contract!Announce(t) \/ Contract!Deliver(t) \/ Contract!Fail(t)
    BY <1>4 DEF Contract!Next, Contract!vars, Contract!Begin, Contract!Publish, Contract!End,
       Contract!Interrupt, Status
  <2>2. CASE Contract!Announce(t)
    <3>1. Status' = [Status EXCEPT ![t] = "preparing"] /\ Published' = Published
      BY <2>2 DEF Contract!Announce, Status, Published
    <3>2. QED
      BY <1>3, <3>1
  <2>3. CASE Contract!Deliver(t)
    <3>1. Status' = [Status EXCEPT ![t] = "ready"] /\ Published' = Published /\ t \in Published
      BY <2>3 DEF Contract!Deliver, Status, Published
    <3>2. QED
      BY <1>3, <3>1
  <2>4. CASE Contract!Fail(t)
    <3>1. Status' = [Status EXCEPT ![t] = "failed"] /\ Published' = Published
      BY <2>4 DEF Contract!Fail, Status, Published
    <3>2. QED
      BY <1>3, <3>1
  <2>5. QED
    BY <2>1, <2>2, <2>3, <2>4
<1>5. QED
  BY <1>2, <1>4

\* A row that is ready has a file under its final name, and one that was finished: the
\* refinement carries the first over from the contract.
THEOREM OfferedFinished ==
    Spec => [](\A t \in Tokens : row[t].state = "ready" => final[t] \in Finished)
<1>1. Contract!Init => ReadyPublished
  BY DEF Contract!Init, ReadyPublished
<1>2. ContractKept => []ReadyPublished
  BY <1>1, ContractDelivers, PTL DEF ContractKept, Contract!Spec
<1>3. ContractInv /\ ReadyPublished =>
        \A t \in Tokens : row[t].state = "ready" => final[t] \in Finished
  BY DEF ContractInv, FlightInv, Shape, NoHalfFile, ReadyPublished, Finished, Content
<1>4. QED
  BY <1>2, <1>3, KeepsContract, ContractInit, ContractNext, PTL DEF Spec

-----------------------------------------------------------------------------
(* What makes a ready row fail, or one be offered that is not whole: the   *)
(* two things the code's comments rule out and the code does not.          *)

\* Every request calls Prepare before the row it found not playable becomes playable.
Timely == \A h \in Handlers : PrepareStarts(h) => ~IsPlayable(row[req[h]])

\* Whose token is ready has nothing left to do on it.
ReadyLeft ==
    /\ \A t \in Tokens : row[t].state = "ready" => row[t].path
    /\ \A w \in Active : worker[w].pc # "release" => row[worker[w].token].state # "ready"

ReadyInv == ContractInv /\ ReadyLeft

\* A step of a worker, where no write is in doubt.
LEMMA ReadyWorker ==
    ASSUME InDoubt = FALSE, ReadyInv, NEW w \in Workers, Moves(w),
           WorkerStep(w) \/ DownloadEnds(w) \/ AcquireSlot(w)
    PROVE  LET t == worker[w].token IN
           /\ row[t].state = "ready" => row'[t] = row[t]
           /\ row'[t].state = "ready" => row'[t].path
           /\ worker'[w].pc # "release" => row'[t].state # "ready"
<1> DEFINE t == worker[w].token
<1>1. Shape /\ w \in Active /\ t \in Tokens /\ worker[w].pc # "idle"
  BY ActiveRun DEF ReadyInv, ContractInv, FlightInv, Moves
<1>2. RowRelied(worker[w].pc, t) /\ (row[t].state = "ready" => row[t].path)
      /\ (worker[w].pc # "release" => row[t].state # "ready")
  BY <1>1 DEF ReadyInv, ContractInv, ReadyLeft, WorkersRely, Relied
<1>3. ASSUME NEW p \in Steps, Goto(w, p) PROVE worker'[w].pc = p
  <2>1. worker'[w] = [pc |-> p, token |-> t]
    BY <1>1, <1>3, GotoFacts
  <2>2. QED
    BY <2>1
<1>4. worker[w].pc # "release"
  <2>1. PICK p \in Steps : Goto(w, p)
    BY DEF Moves
  <2>2. worker'[w].pc # "idle"
    BY <1>3, <2>1 DEF Steps
  <2>3. ~Release(w)
    BY <1>1, <2>2 DEF Release, Shape, Idle
  <2>4. QED
    BY <2>3 DEF WorkerStep, ReadRow, MarkPreparing, CreatePart, DownloadEnds, StartRemux,
       AcquireSlot, AbandonWait, EncodeSucceeds, EncodeFails, StoreSucceeds, StoreFails,
       PublishReady, RecordFailure
<1>5. row[t].state # "ready"
  BY <1>2, <1>4
<1>6. CASE PublishReady(w) /\ Applied(t, "ready", TRUE, FALSE)
  <2>1. Goto(w, "release")
    <3>1. row'[t].state = "ready"
      BY <1>1, <1>6, Written DEF RowWritten
    <3>2. ~NotApplied
      BY <1>5, <3>1 DEF NotApplied
    <3>3. QED
      BY <1>6, <3>2 DEF PublishReady, UpdateCache
  <2>2. worker'[w].pc = "release"
    BY <1>3, <2>1 DEF Steps
  <2>3. row'[t].path
    <3>1. row[t] \in Row
      BY <1>1 DEF Shape
    <3>2. row'[t] = [row[t] EXCEPT !.state = "ready", !.path = TRUE, !.err = FALSE]
      BY <1>1, <1>6 DEF Applied, Shape
    <3>3. QED
      BY <3>1, <3>2 DEF Row
  <2>4. QED
    BY <1>5, <2>2, <2>3
<1>7. CASE ~(PublishReady(w) /\ Applied(t, "ready", TRUE, FALSE))
  <2>1. row' = row \/ Applied(t, "preparing", FALSE, FALSE) \/ Applied(t, "failed", FALSE, TRUE)
    BY <1>7 DEF WorkerStep, ReadRow, MarkPreparing, CreatePart, DownloadEnds, StartRemux,
       AcquireSlot, AbandonWait, EncodeSucceeds, EncodeFails, StoreSucceeds, StoreFails,
       PublishReady, RecordFailure, Release, UpdateCache, NotApplied
  <2>2. row'[t].state # "ready"
    BY <1>1, <1>5, <2>1, Written DEF RowWritten
  <2>3. QED
    BY <1>5, <2>2
<1>8. QED
  BY <1>6, <1>7

LEMMA ReadyNext ==
    ASSUME InDoubt = FALSE, ReadyInv, [Next]_vars, Timely
    PROVE  ReadyInv' /\ \A t \in Tokens : row[t].state = "ready" => row'[t] = row[t]
<1>0. ContractInv' /\ FlightInv /\ Shape
  BY ContractNext DEF ReadyInv, ContractInv, FlightInv
<1>1. ASSUME UNCHANGED <<row, worker>>
      PROVE  ReadyLeft' /\ row' = row
  BY <1>1 DEF ReadyInv, ReadyLeft, Active
<1>2. ASSUME NEW h \in Handlers, PrepareStarts(h)
      PROVE  ReadyLeft' /\ row' = row
  <2>1. NewWorker \in Workers /\ NewWorker \notin Active
    BY <1>0, <1>2, NewWorkerFacts DEF PrepareStarts
  <2>2. /\ worker'[NewWorker] = [pc |-> "read", token |-> req[h]]
        /\ \A v \in Workers : v # NewWorker => worker'[v] = worker[v]
        /\ row' = row /\ req[h] \in Tokens
    BY <1>0, <1>2, <2>1 DEF PrepareStarts, Shape
  <2>3. row[req[h]].state # "ready"
    BY <1>2, <2>2 DEF Timely, IsPlayable, ReadyInv, ReadyLeft
  <2>4. QED
    BY <2>1, <2>2, <2>3 DEF ReadyInv, ReadyLeft, Active
<1>3. ASSUME NEW w \in Workers, Release(w)
      PROVE  ReadyLeft' /\ row' = row
  <2>1. row' = row
    BY <1>3 DEF Release
  <2>2. Active' \subseteq Active /\ \A v \in Active' : worker'[v] = worker[v]
    BY <1>0, <1>3, FlightRelease
  <2>3. QED
    BY <2>1, <2>2 DEF ReadyInv, ReadyLeft
<1>4. ASSUME NEW w \in Workers, Moves(w), WorkerStep(w) \/ DownloadEnds(w) \/ AcquireSlot(w)
      PROVE  ReadyLeft' /\ \A t \in Tokens : row[t].state = "ready" => row'[t] = row[t]
  <2>1. w \in Active /\ worker[w].token \in Tokens
    BY <1>0, <1>4, ActiveRun DEF Moves
  <2>2. /\ \A v \in Workers : v # w => worker'[v] = worker[v]
        /\ worker'[w].token = worker[w].token
        /\ Active' = Active
    <3>1. PICK p \in Steps : Goto(w, p)
      BY <1>4 DEF Moves
    <3>2. /\ worker'[w] = [pc |-> p, token |-> worker[w].token]
          /\ \A v \in Workers : v # w => worker'[v] = worker[v]
          /\ Active' = Active
      BY <1>0, <1>4, <3>1, GotoFacts DEF Moves
    <3>3. QED
      BY <3>2
  <2>3. /\ row[worker[w].token].state = "ready" => row'[worker[w].token] = row[worker[w].token]
        /\ row'[worker[w].token].state = "ready" => row'[worker[w].token].path
        /\ worker'[w].pc # "release" => row'[worker[w].token].state # "ready"
    BY <1>4, ReadyWorker
  <2>4. \A u \in Tokens : u # worker[w].token => row'[u] = row[u]
    BY <1>0, <1>4, OthersKept
  <2>5. \A v \in Active : v # w => worker'[v] = worker[v] /\ worker[v].token # worker[w].token
                                   /\ worker[v].token \in Tokens
    BY <1>0, <2>1, <2>2, ActiveRun DEF FlightInv, SingleFlight, Active
  <2>6. QED
    BY <2>1, <2>2, <2>3, <2>4, <2>5 DEF ReadyInv, ReadyLeft
<1>5. ASSUME Restart
      PROVE  ReadyLeft' /\ row' = row
  <2>1. Active' = {} /\ row' = row
    BY <1>0, <1>5, FlightRestart DEF Restart
  <2>2. QED
    BY <2>1 DEF ReadyInv, ReadyLeft
<1>6. ReadyLeft' /\ \A t \in Tokens : row[t].state = "ready" => row'[t] = row[t]
  BY <1>1, <1>2, <1>3, <1>4, <1>5, StepMoves
     DEF Next, HandlePlayURL, PrepareJoins, Shutdown, vars
<1>7. QED
  BY <1>0, <1>6 DEF ReadyInv

\* A ready row fails only through a request that calls Prepare late, on the row it read
\* before, or a write that is applied and reported as failed: without the two, ready is
\* final (play.go 30-49, preparer.go 66-95).
THEOREM ReadyWithoutLateCalls ==
    InDoubt = FALSE => (Spec /\ [][Timely]_vars => ReadyIsFinal)
<1> SUFFICES ASSUME InDoubt = FALSE PROVE Spec /\ [][Timely]_vars => ReadyIsFinal
  OBVIOUS
<1>1. Init => ReadyInv
  <2> SUFFICES ASSUME Init PROVE ReadyLeft
    BY ContractInit DEF ReadyInv
  <2>1. Active = {} /\ \A t \in Tokens : row[t].state = "none"
    BY DEF Init, Active, Idle
  <2>2. QED
    BY <2>1 DEF ReadyLeft
<1>2. ReadyInv /\ [Next]_vars /\ [Timely]_vars => ReadyInv'
  <2> SUFFICES ASSUME ReadyInv, [Next]_vars, [Timely]_vars PROVE ReadyInv'
    OBVIOUS
  <2>1. CASE UNCHANGED vars
    BY ContractNext, <2>1 DEF vars, ReadyInv, ReadyLeft, Active
  <2>2. CASE Timely
    BY <2>2, ReadyNext
  <2>3. QED
    BY <2>1, <2>2
<1>3. ReadyInv /\ [Next]_vars /\ [Timely]_vars =>
        [\A t \in Tokens : row[t].state = "ready" => row'[t].state # "failed"]_vars
  BY ReadyNext
<1>4. QED
  BY <1>1, <1>2, <1>3, PTL DEF Spec, ReadyIsFinal

\* No download ends short of its file.
NoneShort == \A t \in Tokens : part'[t] # "short"

WholeInv == \A t \in Tokens : part[t] # "short" /\ out[t] # "short" /\ final[t] # "short"

\* A recording that is offered cut off was cut off in the download, and nowhere else: if
\* every download that ends well is of the whole file, then so is every ready row
\* (client.go 74-78, broker/server.go 198).
THEOREM WholeWithWholeDownloads ==
    Spec /\ [][NoneShort]_vars =>
        [](\A t \in Tokens : row[t].state = "ready" => final[t] = "whole")
<1>1. Init => WholeInv
  BY DEF Init, WholeInv
<1>2. ContractInv /\ WholeInv /\ [Next]_vars /\ [NoneShort]_vars => WholeInv'
  <2> SUFFICES ASSUME Shape, WholeInv, [Next]_vars, [NoneShort]_vars PROVE WholeInv'
    BY DEF ContractInv, FlightInv
  <2>1. CASE UNCHANGED vars
    BY <2>1 DEF vars, WholeInv
  <2>2. CASE NoneShort /\ UNCHANGED <<out, final>>
    BY <2>2 DEF NoneShort, WholeInv
  <2>3. ASSUME NEW w \in Workers, WorkerStep(w) \/ DownloadEnds(w) \/ AcquireSlot(w), NoneShort
        PROVE  WholeInv'
    <3>1. \A t \in Tokens : out'[t] = out[t] \/ out'[t] \in {"absent", "partial", part[t]}
      BY <2>3 DEF Shape, WorkerStep, ReadRow, MarkPreparing, CreatePart, DownloadEnds, StartRemux,
         AcquireSlot, AbandonWait, EncodeSucceeds, EncodeFails, StoreSucceeds, StoreFails,
         PublishReady, RecordFailure, Release, DropTemp, StartEncoding
    <3>2. \A t \in Tokens : final'[t] \in {final[t], out[t]}
      BY <2>3 DEF Shape, WorkerStep, ReadRow, MarkPreparing, CreatePart, DownloadEnds, StartRemux,
         AcquireSlot, AbandonWait, EncodeSucceeds, EncodeFails, StoreSucceeds, StoreFails,
         PublishReady, RecordFailure, Release
    <3>3. QED
      BY <2>3, <3>1, <3>2 DEF NoneShort, WholeInv
  <2>4. CASE Restart /\ NoneShort
    BY <2>4 DEF Restart, WholeInv, NoneShort
  <2>5. QED
    BY <2>1, <2>2, <2>3, <2>4 DEF Next, HandlePlayURL, PrepareStarts, PrepareJoins, Shutdown
<1>3. WholeInv /\ (\A t \in Tokens : row[t].state = "ready" => final[t] \in Finished) =>
        \A t \in Tokens : row[t].state = "ready" => final[t] = "whole"
  BY DEF WholeInv, Finished
<1>4. QED
  BY <1>1, <1>2, <1>3, OfferedFinished, ContractInit, ContractNext, PTL DEF Spec
=============================================================================
