----------------------------- MODULE MediaPrep ------------------------------
(***************************************************************************)
(* Preparation of recordings that cannot be played as they are             *)
(* (src/internal/mediaprep/preparer.go) with the two sides it works        *)
(* between: the play-url handler that triggers it                          *)
(* (src/internal/httpserver/play.go) and the cache columns of the catalog  *)
(* (src/internal/catalog/store.go).                                        *)
(*                                                                         *)
(* A request reads the row, and only afterwards calls Prepare.  Prepare    *)
(* admits one background worker per token.  The worker downloads to a      *)
(* temporary file, normalises it to another one, hands that one to the     *)
(* cache and records the outcome in the row.  Any call to the database may *)
(* fail, and one that writes may have been applied although it failed; the *)
(* process may be told to shut down, and may stop at any moment.           *)
(*                                                                         *)
(* The cache is seen here through the outcomes of a call of Store; which   *)
(* files it evicts later is the subject of MediaCache.  File contents are  *)
(* told apart by how complete they are.                                    *)
(***************************************************************************)
EXTENDS Integers, FiniteSets

CONSTANTS
    Tokens,                 \* stream tokens: one row each
    Workers,                \* identities for the background goroutines
    Handlers,               \* identities for play-url requests being served
    TranscodeConcurrency,   \* argument of New
    InitModes,              \* play_mode columns to start from
    Nobody,                 \* a request that is not being served
    InDoubt                 \* can a write be applied and still report failure?

Modes == {"passthrough", "remux", "transcode", "unknown"}

\* New: at least one transcode at a time.
Slots == IF TranscodeConcurrency < 1 THEN 1 ELSE TranscodeConcurrency

ASSUME ConcurrencyAssumption == TranscodeConcurrency \in Int
ASSUME ModesAssumption       == InitModes \subseteq [Tokens -> Modes]
ASSUME NobodyAssumption      == Nobody \notin Tokens
ASSUME WorkersAssumption     == IsFiniteSet(Workers)
ASSUME InDoubtAssumption     == InDoubt \in BOOLEAN

VARIABLES
    row,        \* play_mode and the cache columns of each token
    inflight,   \* Preparer.inflight
    worker,     \* what each background goroutine is doing
    slots,      \* entries in the channel Preparer.transcodeSem
    part,       \* temporary file <token>.part
    out,        \* temporary file <token>.out.mp4
    final,      \* what the cache last took in under the token's final name
    req,        \* the token a request found not playable, before Prepare
    ctxDone,    \* the application's context has been cancelled
    stranded    \* history: a worker went without its outcome being recorded

vars == <<row, inflight, worker, slots, part, out, final, req, ctxDone, stranded>>

-----------------------------------------------------------------------------
(* Types.                                                                  *)

CacheStates == {"none", "preparing", "ready", "failed"}

\* path and err: whether cache_path and last_error are set.
Row == [mode : Modes, state : CacheStates, path : BOOLEAN, err : BOOLEAN]

\* "partial" is still being written; "short" is finished, from a source that
\* was cut off.
Content == {"absent", "partial", "short", "whole"}

Steps == {"read", "mark", "create", "download", "normalize", "encode",
          "store", "publish", "fail", "release"}

Idle == [pc |-> "idle"]
Run == [pc : Steps, token : Tokens]

TypeOK ==
    /\ row \in [Tokens -> Row]
    /\ inflight \in SUBSET Tokens
    /\ worker \in [Workers -> {Idle} \cup Run]
    /\ slots \in 0 .. Slots
    /\ part \in [Tokens -> Content]
    /\ out \in [Tokens -> Content]
    /\ final \in [Tokens -> Content]
    /\ req \in [Handlers -> Tokens \cup {Nobody}]
    /\ ctxDone \in BOOLEAN
    /\ stranded \in SUBSET Tokens

Active == {w \in Workers : worker[w].pc # "idle"}
Busy(t) == \E w \in Active : worker[w].token = t

-----------------------------------------------------------------------------

Init ==
    /\ \E m \in InitModes :
          row = [t \in Tokens |->
                   [mode |-> m[t], state |-> "none", path |-> FALSE, err |-> FALSE]]
    /\ inflight = {}
    /\ worker = [w \in Workers |-> Idle]
    /\ slots = 0
    /\ part = [t \in Tokens |-> "absent"]
    /\ out = [t \in Tokens |-> "absent"]
    /\ final = [t \in Tokens |-> "absent"]
    /\ req = [h \in Handlers |-> Nobody]
    /\ ctxDone = FALSE
    /\ stranded = {}

-----------------------------------------------------------------------------
(* The play-url handler.  For a playable row it answers with a signed URL  *)
(* and changes nothing; otherwise it goes on to call Prepare, whatever has *)
(* happened to the row since.                                              *)

IsPlayable(r) == r.mode = "passthrough" \/ (r.state = "ready" /\ r.path)

HandlePlayURL(h, t) ==
    /\ req[h] = Nobody
    /\ ~IsPlayable(row[t])
    /\ req' = [req EXCEPT ![h] = t]
    /\ UNCHANGED <<row, inflight, worker, slots, part, out, final, ctxDone, stranded>>

\* Mutation: the look at the in-flight table is lost.
Admits_Any(t) == TRUE

Admits(t) == t \notin inflight

\* Goroutines have no names: a new one takes any free identity.
IdleWorkers == {w \in Workers : worker[w] = Idle}
NewWorker == CHOOSE w \in IdleWorkers : TRUE

PrepareStarts(h) ==
    /\ req[h] # Nobody
    /\ Admits(req[h])
    /\ IdleWorkers # {}
    /\ inflight' = inflight \cup {req[h]}
    /\ worker' = [worker EXCEPT ![NewWorker] = [pc |-> "read", token |-> req[h]]]
    /\ req' = [req EXCEPT ![h] = Nobody]
    /\ UNCHANGED <<row, slots, part, out, final, ctxDone, stranded>>

PrepareJoins(h) ==
    /\ req[h] # Nobody
    /\ ~Admits(req[h])
    /\ req' = [req EXCEPT ![h] = Nobody]
    /\ UNCHANGED <<row, inflight, worker, slots, part, out, final, ctxDone, stranded>>

-----------------------------------------------------------------------------
(* The database as the worker sees it.  All of its calls use the context   *)
(* of the application.                                                     *)

Goto(w, pc) == worker' = [worker EXCEPT ![w].pc = pc]

\* UpdateCache is applied.
Applied(t, s, p, e) ==
    /\ ~ctxDone
    /\ row' = [row EXCEPT ![t] = [@ EXCEPT !.state = s, !.path = p, !.err = e]]
    /\ stranded' = stranded \ {t}

NotApplied == UNCHANGED <<row, stranded>>

\* UpdateCache, and where the worker goes: on to ok, or to fail.
UpdateCache(w, s, p, e, ok) ==
    \/ Applied(worker[w].token, s, p, e) /\ Goto(w, ok)
    \/ InDoubt /\ Applied(worker[w].token, s, p, e) /\ Goto(w, "fail")
    \/ NotApplied /\ Goto(w, "fail")

-----------------------------------------------------------------------------
(* run, up to the download.                                                *)

ReadRow(w) ==
    /\ worker[w].pc = "read"
    /\ LET r == row[worker[w].token]
       IN  \/ Goto(w, "fail")      \* MediaByToken fails
           \/ /\ ~ctxDone
              /\ \/ r.mode = "unknown" /\ Goto(w, "fail")
                 \/ r.mode # "unknown" /\ IsPlayable(r) /\ Goto(w, "release")
                 \/ r.mode # "unknown" /\ ~IsPlayable(r) /\ Goto(w, "mark")
    /\ UNCHANGED <<row, inflight, slots, part, out, final, req, ctxDone, stranded>>

MarkPreparing(w) ==
    /\ worker[w].pc = "mark"
    /\ UpdateCache(w, "preparing", FALSE, FALSE, "create")
    /\ UNCHANGED <<inflight, slots, part, out, final, req, ctxDone>>

\* os.Create truncates a file an earlier attempt left.
CreatePart(w) ==
    /\ worker[w].pc = "create"
    /\ \/ /\ part' = [part EXCEPT ![worker[w].token] = "partial"]
          /\ Goto(w, "download")
       \/ /\ UNCHANGED part
          /\ Goto(w, "fail")
    /\ UNCHANGED <<row, inflight, slots, out, final, req, ctxDone, stranded>>

\* The broker answers 200 before it reads from Telegram, so a download it gives
\* up on ends like a complete one.  A download that does fail returns before
\* the removal of its file has been deferred.
DownloadEnds(w) ==
    /\ worker[w].pc = "download"
    /\ \/ /\ ~ctxDone
          /\ \E c \in {"whole", "short"} : part' = [part EXCEPT ![worker[w].token] = c]
          /\ Goto(w, "normalize")
       \/ /\ UNCHANGED part
          /\ Goto(w, "fail")
    /\ UNCHANGED <<row, inflight, slots, out, final, req, ctxDone, stranded>>

-----------------------------------------------------------------------------
(* run, normalisation.  Only a transcode takes an entry of the semaphore.  *)

UsesSlot(t) == row[t].mode = "transcode"

\* Mutation: the removal of the downloaded file is forgotten.
DropTemp_OutOnly(t) == out' = [out EXCEPT ![t] = "absent"] /\ UNCHANGED part

\* Both temporary files are gone once run has returned with an error.
DropTemp(t) ==
    /\ part' = [part EXCEPT ![t] = "absent"]
    /\ out' = [out EXCEPT ![t] = "absent"]

StartEncoding(w) ==
    /\ out' = [out EXCEPT ![worker[w].token] = "partial"]
    /\ Goto(w, "encode")

StartRemux(w) ==
    /\ worker[w].pc = "normalize"
    /\ ~UsesSlot(worker[w].token)
    /\ StartEncoding(w)
    /\ UNCHANGED <<row, inflight, slots, part, final, req, ctxDone, stranded>>

\* Mutations: the channel is one entry too long; it is one entry too short.
SlotFree_OneMore == slots <= Slots
SlotFree_OneLess == slots + 1 < Slots

SlotFree == slots < Slots

AcquireSlot(w) ==
    /\ worker[w].pc = "normalize"
    /\ UsesSlot(worker[w].token)
    /\ SlotFree
    /\ slots' = slots + 1
    /\ StartEncoding(w)
    /\ UNCHANGED <<row, inflight, part, final, req, ctxDone, stranded>>

AbandonWait(w) ==
    /\ worker[w].pc = "normalize"
    /\ UsesSlot(worker[w].token)
    /\ ctxDone
    /\ DropTemp(worker[w].token)
    /\ Goto(w, "fail")
    /\ UNCHANGED <<row, inflight, slots, final, req, ctxDone, stranded>>

\* Mutation: a remux returns an entry it never took.
ReturnSlot_Always(t) == slots' = slots - 1

ReturnSlot(t) == slots' = IF UsesSlot(t) THEN slots - 1 ELSE slots

\* Mutation: the row is published before the file is stored.
EncodeSucceeds_Publishes(w) ==
    /\ worker[w].pc = "encode"
    /\ out' = [out EXCEPT ![worker[w].token] = part[worker[w].token]]
    /\ ReturnSlot(worker[w].token)
    /\ Goto(w, "publish")
    /\ UNCHANGED <<row, inflight, part, final, req, ctxDone, stranded>>

EncodeSucceeds(w) ==
    /\ worker[w].pc = "encode"
    /\ out' = [out EXCEPT ![worker[w].token] = part[worker[w].token]]
    /\ ReturnSlot(worker[w].token)
    /\ Goto(w, "store")
    /\ UNCHANGED <<row, inflight, part, final, req, ctxDone, stranded>>

\* Mutation: the error of ffmpeg is ignored.
EncodeFails_Ignored(w) ==
    /\ worker[w].pc = "encode"
    /\ ReturnSlot(worker[w].token)
    /\ Goto(w, "store")
    /\ UNCHANGED <<row, inflight, part, out, final, req, ctxDone, stranded>>

EncodeFails(w) ==
    /\ worker[w].pc = "encode"
    /\ DropTemp(worker[w].token)
    /\ ReturnSlot(worker[w].token)
    /\ Goto(w, "fail")
    /\ UNCHANGED <<row, inflight, final, req, ctxDone, stranded>>

-----------------------------------------------------------------------------
(* run, handing the file over and publishing it.                           *)

StoreSucceeds(w) ==
    /\ worker[w].pc = "store"
    /\ final' = [final EXCEPT ![worker[w].token] = out[worker[w].token]]
    /\ out' = [out EXCEPT ![worker[w].token] = "absent"]
    /\ Goto(w, "publish")
    /\ UNCHANGED <<row, inflight, slots, part, req, ctxDone, stranded>>

StoreFails(w) ==
    /\ worker[w].pc = "store"
    /\ DropTemp(worker[w].token)
    /\ Goto(w, "fail")
    /\ UNCHANGED <<row, inflight, slots, final, req, ctxDone, stranded>>

PublishReady(w) ==
    /\ worker[w].pc = "publish"
    /\ UpdateCache(w, "ready", TRUE, FALSE, "release")
    /\ part' = [part EXCEPT ![worker[w].token] = "absent"]
    /\ UNCHANGED <<inflight, slots, out, final, req, ctxDone>>

-----------------------------------------------------------------------------
(* The end of the goroutine: the error is recorded, if the database takes  *)
(* it, and the token leaves the in-flight table.                           *)

\* Mutation: the error is logged and not written to the row.
RecordFailure_Logged(w) ==
    /\ worker[w].pc = "fail"
    /\ Goto(w, "release")
    /\ UNCHANGED <<row, inflight, slots, part, out, final, req, ctxDone, stranded>>

RecordFailure(w) ==
    /\ worker[w].pc = "fail"
    /\ \/ Applied(worker[w].token, "failed", FALSE, TRUE)
       \/ UNCHANGED row /\ stranded' = stranded \cup {worker[w].token}
    /\ Goto(w, "release")
    /\ UNCHANGED <<inflight, slots, part, out, final, req, ctxDone>>

Release(w) ==
    /\ worker[w].pc = "release"
    /\ inflight' = inflight \ {worker[w].token}
    /\ worker' = [worker EXCEPT ![w] = Idle]
    /\ UNCHANGED <<row, slots, part, out, final, req, ctxDone, stranded>>

-----------------------------------------------------------------------------
(* Shutdown cancels the context; goroutines go on until the process ends.  *)
(* A new process starts with empty tables and an emptied temporary area.   *)

Shutdown ==
    /\ ~ctxDone
    /\ ctxDone' = TRUE
    /\ UNCHANGED <<row, inflight, worker, slots, part, out, final, req, stranded>>

Restart ==
    /\ inflight' = {}
    /\ worker' = [w \in Workers |-> Idle]
    /\ slots' = 0
    /\ part' = [t \in Tokens |-> "absent"]
    /\ out' = [t \in Tokens |-> "absent"]
    /\ req' = [h \in Handlers |-> Nobody]
    /\ ctxDone' = FALSE
    /\ stranded' = stranded \cup {t \in Tokens : Busy(t)}
    /\ UNCHANGED <<row, final>>

-----------------------------------------------------------------------------

\* What the worker does on its own, given time.
WorkerStep(w) ==
    \/ ReadRow(w)
    \/ MarkPreparing(w)
    \/ CreatePart(w)
    \/ StartRemux(w)
    \/ AbandonWait(w)
    \/ EncodeSucceeds(w)
    \/ EncodeFails(w)
    \/ StoreSucceeds(w)
    \/ StoreFails(w)
    \/ PublishReady(w)
    \/ RecordFailure(w)
    \/ Release(w)

Next ==
    \/ \E h \in Handlers, t \in Tokens : HandlePlayURL(h, t)
    \/ \E h \in Handlers : PrepareStarts(h) \/ PrepareJoins(h)
    \/ \E w \in Workers : WorkerStep(w) \/ DownloadEnds(w) \/ AcquireSlot(w)
    \/ Shutdown
    \/ Restart

Spec == Init /\ [][Next]_vars

(***************************************************************************)
(* A worker keeps running; database calls return and ffmpeg is killed      *)
(* after its timeout (ffmpeg.go 38).  Waiters on a full channel are served *)
(* in order, hence strong fairness for the slot.  The download has no      *)
(* timeout (http.DefaultClient), so nothing is assumed of its end.         *)
(***************************************************************************)
Fairness == \A w \in Workers : WF_vars(WorkerStep(w)) /\ SF_vars(AcquireSlot(w))

FairSpec == Spec /\ Fairness

-----------------------------------------------------------------------------
(* Properties.                                                             *)

\* Two workers never prepare the same token, across returns, failures,
\* restarts and requests that read the row at any earlier time
\* (preparer.go 66-88).
SingleFlight ==
    \A v, w \in Active : worker[v].token = worker[w].token => v = w

Encoding == {w \in Workers : worker[w].pc = "encode" /\ UsesSlot(worker[w].token)}

\* No more transcodes run than New was asked for, and the channel holds one
\* entry for each: an entry is returned on every way out (preparer.go 154-166).
TranscodeBound == Cardinality(Encoding) = slots /\ slots <= Slots

\* A file still being written is never found under its final name, nor is one
\* left behind by an interrupted attempt (preparer.go 122-133, cache.go 98).
NoHalfFile == \A t \in Tokens : final[t] # "partial"

\* A row says "preparing" only while a worker is on its token, unless a worker
\* was killed or its last write was refused: the status a viewer polls.
PreparingOwned ==
    \A t \in Tokens : row[t].state = "preparing" => Busy(t) \/ t \in stranded

\* Without a worker on its token, no temporary file is left but the one of a
\* download that failed (preparer.go 117-120, 125, 132).
TempReleased ==
    \A t \in Tokens : ~Busy(t) => out[t] = "absent" /\ part[t] \in {"absent", "partial"}

\* A worker that has its source ends, however many others want the slots.
FinishesOnceDownloaded ==
    \A w \in Workers :
        worker[w].pc \in {"normalize", "encode", "store", "publish", "fail", "release"}
            ~> worker[w] = Idle

\* The contract of PrepContract, for the workers, the rows and the files.
Contract == INSTANCE PrepContract WITH
    attempts <- {worker[w].token : w \in Active},
    status <- [t \in Tokens |-> row[t].state],
    published <- {t \in Tokens : final[t] # "absent"}

ContractKept == Contract!Spec

\* The state machine the comment on UpdateCache gives (store.go 132:
\* "none -> preparing -> ready/failed"): a ready row does not fail.
ReadyIsFinal ==
    [][\A t \in Tokens : row[t].state = "ready" => row'[t].state # "failed"]_vars

\* What Client.Download announces (client.go 64: "streams the whole file"):
\* what a row offers as ready was made from the whole recording.
ReadyIsWhole ==
    \A t \in Tokens : row[t].state = "ready" => final[t] # "short"
=============================================================================
