----------------------------- MODULE MediaCache -----------------------------
(***************************************************************************)
(* The local cache of normalised recordings                                *)
(* (src/internal/mediacache/cache.go): a directory of final files, an      *)
(* in-memory index of them with their sizes and last access times, and a   *)
(* running total that must stay within a limit.                            *)
(*                                                                         *)
(* A caller of Store first stats its temporary file, then takes the mutex, *)
(* evicts old entries one file at a time, renames its file into place and  *)
(* registers it.  Each of these is a step here: a crash can fall between   *)
(* any two of them, and the clock and the directory can be observed there. *)
(*                                                                         *)
(* The temporary file of a pending Store is not a variable: it exists for  *)
(* as long as its call is pending.  MediaPrep follows it.                  *)
(***************************************************************************)
EXTENDS Integers, FiniteSets

CONSTANTS
    Keys,       \* stream tokens, the names of the final files
    Callers,    \* goroutines that may be inside Store at the same time
    Sizes,      \* sizes a normalised file can have
    MaxBytes,   \* Cache.maxBytes
    TTL,        \* Cache.ttl, in ticks of the clock
    MaxClock,   \* bound on the clock
    Free,       \* the value of mu when nobody holds the mutex
    Faults      \* which failures may happen: see FaultKinds

FaultKinds == {"crash", "rename", "remove"}

ASSUME SizesAssumption   == Sizes \subseteq Nat
ASSUME LimitAssumption   == MaxBytes \in Nat /\ TTL \in Nat /\ MaxClock \in Nat
ASSUME FreeAssumption    == Free \notin Callers
ASSUME FaultsAssumption  == Faults \subseteq FaultKinds

VARIABLES
    entries,    \* Cache.entries: a map from some of the keys to entries
    total,      \* Cache.total
    mu,         \* who holds Cache.mu
    call,       \* the Store call each caller is executing
    disk,       \* the final files that exist, with their sizes
    now,        \* the clock Cache.now reads
    seen        \* history: the last access to a key the cache was told of,
                \* by the Store of its file or by a Lookup

vars == <<entries, total, mu, call, disk, now, seen>>

-----------------------------------------------------------------------------
(* Types.                                                                  *)

Entry == [size : Sizes, lastAccess : 0 .. MaxClock]

Idle == [pc |-> "idle"]

Call == [pc   : {"wait", "evict", "register"},
         key  : Keys,
         size : Sizes,
         at   : 0 .. MaxClock]

PartialMap(S, T) == UNION {[D -> T] : D \in SUBSET S}

TypeOK ==
    /\ entries \in PartialMap(Keys, Entry)
    /\ total \in Int
    /\ mu \in Callers \cup {Free}
    /\ call \in [Callers -> {Idle} \cup Call]
    /\ disk \in PartialMap(Keys, Sizes)
    /\ now \in 0 .. MaxClock
    /\ seen \in PartialMap(Keys, 0 .. MaxClock)

-----------------------------------------------------------------------------
(* Maps.                                                                   *)

Empty == [x \in {} |-> x]
Put(f, k, v) == [x \in DOMAIN f \cup {k} |-> IF x = k THEN v ELSE f[x]]
Without(f, k) == [x \in DOMAIN f \ {k} |-> f[x]]

SizeOf(k) == IF k \in DOMAIN entries THEN entries[k].size ELSE 0

\* The bytes of the files of a map of sizes, each one a key and a position, so
\* that a sum of sizes is a number of bytes.
BytesOf(sizes) == UNION {{k} \X (1 .. sizes[k]) : k \in DOMAIN sizes}

\* Bytes of the entries of a set of keys; bytes of all the final files.
EntryBytes(S) == Cardinality(BytesOf([k \in S |-> entries[k].size]))
DiskBytes == Cardinality(BytesOf(disk))

-----------------------------------------------------------------------------
(* New: an empty index over whatever the directory already holds.          *)

Init ==
    /\ entries = Empty
    /\ total = 0
    /\ mu = Free
    /\ call = [c \in Callers |-> Idle]
    /\ disk = Empty
    /\ now = 0
    /\ seen = Empty

-----------------------------------------------------------------------------
(* Store, up to the mutex: the size of the temporary file is read before   *)
(* the lock is taken.                                                      *)

StoreStat(c, k, s) ==
    /\ call[c] = Idle
    /\ call' = [call EXCEPT ![c] = [pc |-> "wait", key |-> k, size |-> s, at |-> 0]]
    /\ UNCHANGED <<entries, total, mu, disk, now, seen>>

TooLarge(s) == s > MaxBytes

\* Mutation: the mutex is not taken.
StoreEnter_NoLock(c) ==
    /\ call[c].pc = "wait"
    /\ ~TooLarge(call[c].size)
    /\ call' = [call EXCEPT ![c].pc = "evict", ![c].at = now]
    /\ UNCHANGED <<entries, total, mu, disk, now, seen>>

StoreEnter(c) ==
    /\ call[c].pc = "wait"
    /\ mu = Free
    /\ ~TooLarge(call[c].size)
    /\ mu' = c
    /\ call' = [call EXCEPT ![c].pc = "evict", ![c].at = now]
    /\ UNCHANGED <<entries, total, disk, now, seen>>

\* The temporary file is removed and the caller is given ErrTooLarge.
StoreTooLarge(c) ==
    /\ call[c].pc = "wait"
    /\ mu = Free
    /\ TooLarge(call[c].size)
    /\ call' = [call EXCEPT ![c] = Idle]
    /\ UNCHANGED <<entries, total, mu, disk, now, seen>>

-----------------------------------------------------------------------------
(* evictToFitLocked: by last access, oldest first, skipping the entries    *)
(* accessed within the window, until the new file fits.  Every protected   *)
(* entry is younger than every other one, so a scan of the sorted entries  *)
(* meets the unprotected ones first; entries of equal age come in any      *)
(* order.                                                                  *)

\* Mutation: only what is already there is compared with the limit.
Fits_IgnoresNew(s) == total <= MaxBytes

Fits(s) == total + s <= MaxBytes

\* Mutations: the window is one tick too long, or leaves out its last instant.
Protected_TooLong(e, at) == at - e.lastAccess <= TTL + 1
Protected_Exclusive(e, at) == at - e.lastAccess < TTL

Protected(e, at) == at - e.lastAccess <= TTL

Evictable(at) == {k \in DOMAIN entries : ~Protected(entries[k], at)}

\* Mutation: the entries are sorted the other way round.
Oldest_Reversed(S) == {k \in S : \A j \in S : entries[k].lastAccess >= entries[j].lastAccess}

Oldest(S) == {k \in S : \A j \in S : entries[k].lastAccess <= entries[j].lastAccess}

\* One victim.  The result of os.Remove is ignored, so the file may survive
\* its entry.
Evict(c) ==
    /\ call[c].pc = "evict"
    /\ ~Fits(call[c].size)
    /\ \E k \in Oldest(Evictable(call[c].at)) :
          /\ \/ disk' = Without(disk, k)
             \/ "remove" \in Faults /\ disk' = disk
          /\ entries' = Without(entries, k)
          /\ total' = total - entries[k].size
    /\ UNCHANGED <<mu, call, now, seen>>

\* Mutation: an early return that keeps the mutex.
StoreNoSpace_KeepsLock(c) ==
    /\ call[c].pc = "evict"
    /\ ~Fits(call[c].size)
    /\ Evictable(call[c].at) = {}
    /\ call' = [call EXCEPT ![c] = Idle]
    /\ UNCHANGED <<entries, total, mu, disk, now, seen>>

\* Whatever was evicted stays evicted; the temporary file is removed.
StoreNoSpace(c) ==
    /\ call[c].pc = "evict"
    /\ ~Fits(call[c].size)
    /\ Evictable(call[c].at) = {}
    /\ mu' = Free
    /\ call' = [call EXCEPT ![c] = Idle]
    /\ UNCHANGED <<entries, total, disk, now, seen>>

-----------------------------------------------------------------------------
(* Store, once the file fits.                                              *)

StoreRename(c) ==
    /\ call[c].pc = "evict"
    /\ Fits(call[c].size)
    /\ disk' = Put(disk, call[c].key, call[c].size)
    /\ call' = [call EXCEPT ![c].pc = "register"]
    /\ UNCHANGED <<entries, total, mu, now, seen>>

\* Mutation: the error of the rename is ignored.
StoreRenameFails_Ignored(c) ==
    /\ "rename" \in Faults
    /\ call[c].pc = "evict"
    /\ Fits(call[c].size)
    /\ call' = [call EXCEPT ![c].pc = "register"]
    /\ UNCHANGED <<entries, total, mu, disk, now, seen>>

StoreRenameFails(c) ==
    /\ "rename" \in Faults
    /\ call[c].pc = "evict"
    /\ Fits(call[c].size)
    /\ mu' = Free
    /\ call' = [call EXCEPT ![c] = Idle]
    /\ UNCHANGED <<entries, total, disk, now, seen>>

\* Mutation: the size of the replaced entry stays on the ledger.
NewTotal_KeepsOld(k, s) == total + s

\* The size an older entry of the same key had is taken off the total first.
NewTotal(k, s) == total - SizeOf(k) + s

StoreRegister(c) ==
    /\ call[c].pc = "register"
    /\ entries' = Put(entries, call[c].key, [size |-> call[c].size, lastAccess |-> now])
    /\ total' = NewTotal(call[c].key, call[c].size)
    /\ mu' = Free
    /\ call' = [call EXCEPT ![c] = Idle]
    /\ seen' = Put(seen, call[c].key, now)
    /\ UNCHANGED <<disk, now>>

-----------------------------------------------------------------------------
(* Lookup of a key that is cached; of another key it changes nothing.  The *)
(* program itself never calls it: the player is served from the row and    *)
(* the directory (Playback), so watching a file is not an access here.     *)

\* Mutation: an expiry time is stored instead of the access time.
Refreshed_Expiry(e) == [e EXCEPT !.lastAccess = now + TTL]

Refreshed(e) == [e EXCEPT !.lastAccess = now]

Lookup(k) ==
    /\ mu = Free
    /\ k \in DOMAIN entries
    /\ entries' = [entries EXCEPT ![k] = Refreshed(@)]
    /\ seen' = Put(seen, k, now)
    /\ UNCHANGED <<total, mu, call, disk, now>>

-----------------------------------------------------------------------------
(* The environment: time passes; the process stops and New runs again over *)
(* the same directory, without reading the final files back.               *)

Tick ==
    /\ now < MaxClock
    /\ now' = now + 1
    /\ UNCHANGED <<entries, total, mu, call, disk, seen>>

Restart ==
    /\ "crash" \in Faults
    /\ entries' = Empty
    /\ total' = 0
    /\ mu' = Free
    /\ call' = [c \in Callers |-> Idle]
    /\ UNCHANGED <<disk, now, seen>>

-----------------------------------------------------------------------------

StoreStep(c) ==
    \/ StoreEnter(c)
    \/ StoreTooLarge(c)
    \/ Evict(c)
    \/ StoreNoSpace(c)
    \/ StoreRename(c)
    \/ StoreRenameFails(c)
    \/ StoreRegister(c)

Next ==
    \/ \E c \in Callers, k \in Keys, s \in Sizes : StoreStat(c, k, s)
    \/ \E c \in Callers : StoreStep(c)
    \/ \E k \in Keys : Lookup(k)
    \/ Tick
    \/ Restart

Spec == Init /\ [][Next]_vars

(***************************************************************************)
(* A caller inside Store keeps running.  Strong fairness is what the mutex *)
(* gives a waiter: in its starvation mode sync.Mutex hands the lock over   *)
(* in arrival order.  Nothing makes anyone call, time pass or the process  *)
(* stop.                                                                   *)
(***************************************************************************)
Fairness == \A c \in Callers : SF_vars(StoreStep(c))

FairSpec == Spec /\ Fairness

-----------------------------------------------------------------------------
(* Properties.                                                             *)

\* The total is the sum of the sizes in the index: replacing a key, evicting
\* and restarting keep the ledger and the map in step (cache.go 103-107,
\* 131-133).
LedgerExact == total = EntryBytes(DOMAIN entries)

\* The ledger never passes the limit, whatever two concurrent Stores of the
\* same or of different keys do between the fit check and the registration.
WithinLimit == total <= MaxBytes

Registering(k) == \E c \in Callers : call[c].pc = "register" /\ call[c].key = k

\* A key in the index has its file on disk, with the size the index counts;
\* only while its replacement has been renamed and not yet registered may the
\* size differ.
EntryBacked ==
    \A k \in DOMAIN entries :
        /\ k \in DOMAIN disk
        /\ Registering(k) \/ disk[k] = entries[k].size

\* Files no index entry and no pending registration accounts for.
Orphans == {k \in DOMAIN disk : k \notin DOMAIN entries /\ ~Registering(k)}

\* As long as no file has escaped the index, the bytes of the final files on
\* disk, and not only the ledger, respect the limit at every instant: also
\* between a rename and its registration.
DiskWithinLimit == Orphans = {} => DiskBytes <= MaxBytes

\* A file stays on disk for the whole window after the last access to it the
\* cache was told of, through evictions for other keys, replacements that fail,
\* slow renames and restarts.  In this program that access is the Store that
\* brought the file; what it means for a file being watched is WatchedStays.
RecentStays ==
    \A k \in DOMAIN seen : now - seen[k] <= TTL => k \in DOMAIN disk

\* A Store is refused for lack of space only when the entries still inside the
\* protection window leave no room for its file by themselves: a scan that
\* stops early, or a ledger that has drifted upwards, refuses more.
NoSpaceJustified ==
    [][\A c \in Callers :
          StoreNoSpace(c) =>
             LET guarded == {k \in DOMAIN entries :
                               entries[k].lastAccess + TTL >= call[c].at}
             IN  EntryBytes(guarded) + call[c].size > MaxBytes]_vars

\* Only a restart or an eviction takes a key out of the index; the eviction
\* takes a least recently used one, and without it the pending file would not
\* have fitted next to the entries really there.
EvictionNeeded ==
    [][\A k \in DOMAIN entries :
          k \notin DOMAIN entries' /\ ~Restart =>
             \E c \in Callers :
                /\ mu = c
                /\ EntryBytes(DOMAIN entries) + call[c].size > MaxBytes
                /\ \A j \in DOMAIN entries' :
                      entries[k].lastAccess <= entries[j].lastAccess]_vars

\* Every Store that has asked for the mutex is answered: by success, by one of
\* the errors, or by the process stopping.
StoreReturns == \A c \in Callers : call[c].pc = "wait" ~> call[c] = Idle

\* What the package comment promises of the directory ("total capacity limit",
\* cache.go 2): the final files never exceed the limit.
DirectoryCap == DiskBytes <= MaxBytes
=============================================================================
