-------------------------- MODULE MediaCache_proofs --------------------------
(***************************************************************************)
(* What is proved of MediaCache for every value of its constants: types,   *)
(* the limit on the ledger, the agreement of index and directory, that the *)
(* ledger is exact and bounds the directory, that refusals and evictions   *)
(* are justified, and the protection window.                               *)
(*                                                                         *)
(* LedgerInv carries the agreement: the mutex is held from the fit check   *)
(* to the registration, so the room made is still there and the file just  *)
(* renamed is still on disk.  ExactInv adds that the total is the sum of   *)
(* the index, from which the statements about bytes follow.  WindowInv     *)
(* adds that no time is in the future and that no access the cache was     *)
(* told of is forgotten while the window covers it.                        *)
(***************************************************************************)
EXTENDS MediaCache, FiniteSetTheorems, TLAPS

-----------------------------------------------------------------------------
(* Partial maps.                                                           *)

LEMMA PartialMapIntro ==
    ASSUME NEW S, NEW T, NEW D \in SUBSET S, NEW f \in [D -> T]
    PROVE  f \in PartialMap(S, T)
BY DEF PartialMap

LEMMA PartialMapElim ==
    ASSUME NEW S, NEW T, NEW f \in PartialMap(S, T)
    PROVE  /\ DOMAIN f \in SUBSET S
           /\ f \in [DOMAIN f -> T]
BY DEF PartialMap

LEMMA EmptyMap ==
    ASSUME NEW S, NEW T
    PROVE  Empty \in PartialMap(S, T) /\ DOMAIN Empty = {}
<1>1. DOMAIN Empty = {} /\ Empty \in [{} -> T]
  BY DEF Empty
<1>2. {} \in SUBSET S
  OBVIOUS
<1>3. QED
  BY <1>1, <1>2, PartialMapIntro

LEMMA PutMap ==
    ASSUME NEW S, NEW T, NEW f \in PartialMap(S, T), NEW k \in S, NEW v \in T
    PROVE  /\ Put(f, k, v) \in PartialMap(S, T)
           /\ DOMAIN Put(f, k, v) = DOMAIN f \cup {k}
           /\ Put(f, k, v)[k] = v
           /\ \A x \in DOMAIN f : x # k => Put(f, k, v)[x] = f[x]
<1>1. DOMAIN f \in SUBSET S /\ f \in [DOMAIN f -> T]
  BY PartialMapElim
<1>2. DOMAIN f \cup {k} \in SUBSET S
  BY <1>1
<1>3. Put(f, k, v) \in [DOMAIN f \cup {k} -> T]
  BY <1>1 DEF Put
<1>4. Put(f, k, v) \in PartialMap(S, T)
  BY <1>2, <1>3, PartialMapIntro
<1>5. QED
  BY <1>4 DEF Put

LEMMA WithoutMap ==
    ASSUME NEW S, NEW T, NEW f \in PartialMap(S, T), NEW k
    PROVE  /\ Without(f, k) \in PartialMap(S, T)
           /\ DOMAIN Without(f, k) = DOMAIN f \ {k}
           /\ \A x \in DOMAIN f : x # k => Without(f, k)[x] = f[x]
<1>1. DOMAIN f \in SUBSET S /\ f \in [DOMAIN f -> T]
  BY PartialMapElim
<1>2. DOMAIN f \ {k} \in SUBSET S
  BY <1>1
<1>3. Without(f, k) \in [DOMAIN f \ {k} -> T]
  BY <1>1 DEF Without
<1>4. Without(f, k) \in PartialMap(S, T)
  BY <1>2, <1>3, PartialMapIntro
<1>5. QED
  BY <1>4 DEF Without

-----------------------------------------------------------------------------
(* Counting bytes.                                                         *)

\* A file has as many bytes as its size says.
LEMMA FileBytes ==
    ASSUME NEW k, NEW n \in Nat
    PROVE  /\ IsFiniteSet({k} \X (1 .. n))
           /\ Cardinality({k} \X (1 .. n)) = n
<1>1. IsFiniteSet({k}) /\ Cardinality({k}) = 1
  BY FS_Singleton
<1>2. IsFiniteSet(1 .. n) /\ Cardinality(1 .. n) = n
  <2>1. /\ IsFiniteSet(1 .. n)
        /\ Cardinality(1 .. n) = IF 1 > n THEN 0 ELSE n - 1 + 1
    BY FS_Interval
  <2>2. QED
    BY <2>1
<1>3. /\ IsFiniteSet({k} \X (1 .. n))
      /\ Cardinality({k} \X (1 .. n)) = Cardinality({k}) * Cardinality(1 .. n)
  BY <1>1, <1>2, FS_Product
<1>4. QED
  BY <1>1, <1>2, <1>3

LEMMA NoBytes == BytesOf(Empty) = {} /\ IsFiniteSet({}) /\ Cardinality({}) = 0
<1>1. DOMAIN Empty = {}
  BY DEF Empty
<1>2. QED
  BY <1>1, FS_EmptySet DEF BytesOf

\* The bytes of a map are those of one of its files and those of the others.
LEMMA BytesApart ==
    ASSUME NEW f, NEW k \in DOMAIN f
    PROVE  /\ BytesOf(f) = BytesOf(Without(f, k)) \cup ({k} \X (1 .. f[k]))
           /\ BytesOf(Without(f, k)) \cap ({k} \X (1 .. f[k])) = {}
           /\ BytesOf(Without(f, k)) = BytesOf(f) \ ({k} \X (1 .. f[k]))
<1> DEFINE g == Without(f, k)
<1>1. DOMAIN g = DOMAIN f \ {k} /\ \A x \in DOMAIN g : g[x] = f[x]
  BY DEF Without
<1>2. BytesOf(g) = UNION {{x} \X (1 .. f[x]) : x \in DOMAIN f \ {k}}
  BY <1>1 DEF BytesOf
<1>3. \A b \in BytesOf(g) : b[1] # k
  BY <1>2
<1>4. \A b \in {k} \X (1 .. f[k]) : b[1] = k
  OBVIOUS
<1>5. BytesOf(f) = BytesOf(g) \cup ({k} \X (1 .. f[k]))
  BY <1>2 DEF BytesOf
<1>6. BytesOf(g) \cap ({k} \X (1 .. f[k])) = {}
  BY <1>3, <1>4
<1>7. QED
  BY <1>5, <1>6

\* Taking a file away takes its size from the sum; and the other way round.
LEMMA BytesWithout ==
    ASSUME NEW f, NEW k \in DOMAIN f, f[k] \in Nat,
           IsFiniteSet(BytesOf(f)) \/ IsFiniteSet(BytesOf(Without(f, k)))
    PROVE  /\ IsFiniteSet(BytesOf(f)) /\ IsFiniteSet(BytesOf(Without(f, k)))
           /\ Cardinality(BytesOf(f)) \in Nat
           /\ Cardinality(BytesOf(Without(f, k))) \in Nat
           /\ Cardinality(BytesOf(f)) = Cardinality(BytesOf(Without(f, k))) + f[k]
<1> DEFINE B == BytesOf(Without(f, k))
           F == {k} \X (1 .. f[k])
<1>1. BytesOf(f) = B \cup F /\ B \cap F = {} /\ B = BytesOf(f) \ F
  BY BytesApart
<1>2. IsFiniteSet(F) /\ Cardinality(F) = f[k]
  BY FileBytes
<1>3. IsFiniteSet(B)
  <2>1. CASE IsFiniteSet(BytesOf(f))
    <3>1. IsFiniteSet(BytesOf(f) \ F)
      BY <2>1, FS_Difference
    <3>2. QED
      BY <1>1, <3>1
  <2>2. CASE IsFiniteSet(BytesOf(Without(f, k)))
    BY <2>2
  <2>3. QED
    BY <2>1, <2>2
<1>4. /\ IsFiniteSet(B \cup F)
      /\ Cardinality(B \cup F) = Cardinality(B) + Cardinality(F) - Cardinality(B \cap F)
  BY <1>2, <1>3, FS_Union
<1>5. Cardinality(B \cap F) = 0
  BY <1>1, FS_EmptySet
<1>6. Cardinality(B) \in Nat /\ Cardinality(B \cup F) \in Nat
  BY <1>3, <1>4, FS_CardinalityType
<1>7. QED
  BY <1>1, <1>2, <1>3, <1>4, <1>5, <1>6

\* Putting a file in a map adds its size and takes off what it replaces.
LEMMA BytesPut ==
    ASSUME NEW f, NEW k, NEW n \in Nat, IsFiniteSet(BytesOf(f)),
           k \in DOMAIN f => f[k] \in Nat
    PROVE  /\ IsFiniteSet(BytesOf(Put(f, k, n)))
           /\ Cardinality(BytesOf(f)) \in Nat
           /\ Cardinality(BytesOf(Put(f, k, n))) =
                 Cardinality(BytesOf(f)) - (IF k \in DOMAIN f THEN f[k] ELSE 0) + n
<1> DEFINE g == Put(f, k, n)
           W == BytesOf(Without(f, k))
<1>1. k \in DOMAIN g /\ g[k] = n
  BY DEF Put
<1>2. Without(g, k) = Without(f, k)
  BY DEF Put, Without
<1>3. /\ IsFiniteSet(W) /\ Cardinality(W) \in Nat
      /\ Cardinality(BytesOf(f)) = Cardinality(W) + (IF k \in DOMAIN f THEN f[k] ELSE 0)
  <2>1. CASE k \in DOMAIN f
    BY <2>1, BytesWithout
  <2>2. CASE k \notin DOMAIN f
    <3>1. W = BytesOf(f)
      BY <2>2 DEF Without, BytesOf
    <3>2. Cardinality(BytesOf(f)) \in Nat
      BY FS_CardinalityType
    <3>3. QED
      BY <2>2, <3>1, <3>2
  <2>3. QED
    BY <2>1, <2>2
<1>4. /\ IsFiniteSet(BytesOf(g))
      /\ Cardinality(BytesOf(g)) = Cardinality(W) + n
  <2>1. g[k] \in Nat /\ IsFiniteSet(BytesOf(Without(g, k)))
    BY <1>1, <1>2, <1>3
  <2>2. /\ IsFiniteSet(BytesOf(g))
        /\ Cardinality(BytesOf(g)) = Cardinality(BytesOf(Without(g, k))) + g[k]
    BY <1>1, <2>1, BytesWithout
  <2>3. QED
    BY <1>1, <1>2, <2>2
<1>5. Cardinality(BytesOf(f)) \in Nat
  BY FS_CardinalityType
<1>6. CASE k \in DOMAIN f
  BY <1>3, <1>4, <1>5, <1>6
<1>7. CASE k \notin DOMAIN f
  BY <1>3, <1>4, <1>5, <1>7
<1>8. QED
  BY <1>6, <1>7

-----------------------------------------------------------------------------
(* Type correctness.                                                       *)

LEMMA CallFields ==
    ASSUME TypeOK, NEW c \in Callers, call[c].pc # "idle"
    PROVE  /\ call[c] \in Call
           /\ call[c].key \in Keys
           /\ call[c].size \in Sizes
           /\ call[c].at \in 0 .. MaxClock
<1>1. call[c] \in {Idle} \cup Call
  BY DEF TypeOK
<1>2. call[c] # Idle
  BY DEF Idle
<1>3. QED
  BY <1>1, <1>2 DEF Call

LEMMA EntryFields ==
    ASSUME TypeOK, NEW k \in DOMAIN entries
    PROVE  /\ k \in Keys
           /\ entries[k] \in Entry
           /\ entries[k].size \in Nat
           /\ entries[k].lastAccess \in 0 .. MaxClock
<1>1. entries \in PartialMap(Keys, Entry)
  BY DEF TypeOK
<1>2. DOMAIN entries \in SUBSET Keys /\ entries \in [DOMAIN entries -> Entry]
  BY <1>1, PartialMapElim
<1>3. entries[k] \in Entry
  BY <1>2
<1>4. QED
  BY <1>2, <1>3, SizesAssumption DEF Entry

LEMMA TypeInit == Init => TypeOK
<1> SUFFICES ASSUME Init PROVE TypeOK
  OBVIOUS
<1>1. /\ Empty \in PartialMap(Keys, Entry)
      /\ Empty \in PartialMap(Keys, Sizes)
      /\ Empty \in PartialMap(Keys, 0 .. MaxClock)
  BY EmptyMap
<1>2. 0 \in 0 .. MaxClock
  BY LimitAssumption
<1>3. QED
  BY <1>1, <1>2 DEF Init, TypeOK

LEMMA TypeNext == TypeOK /\ [Next]_vars => TypeOK'
<1> SUFFICES ASSUME TypeOK, [Next]_vars PROVE TypeOK'
  OBVIOUS
<1> USE DEF TypeOK
<1>1. ASSUME NEW c \in Callers, NEW k \in Keys, NEW s \in Sizes, StoreStat(c, k, s)
      PROVE  TypeOK'
  <2>1. [pc |-> "wait", key |-> k, size |-> s, at |-> 0] \in Call
    BY LimitAssumption DEF Call
  <2>2. QED
    BY <1>1, <2>1 DEF StoreStat
<1>2. ASSUME NEW c \in Callers, StoreEnter(c) PROVE TypeOK'
  <2>1. [call[c] EXCEPT !.pc = "evict", !.at = now] \in Call
    BY <1>2, CallFields DEF StoreEnter, Call
  <2>2. call' \in [Callers -> {Idle} \cup Call]
    BY <1>2, <2>1 DEF StoreEnter
  <2>3. QED
    BY <1>2, <2>2 DEF StoreEnter
<1>3. ASSUME NEW c \in Callers, StoreTooLarge(c) PROVE TypeOK'
  BY <1>3 DEF StoreTooLarge
<1>4. ASSUME NEW c \in Callers, Evict(c) PROVE TypeOK'
  <2>1. PICK k \in Oldest(Evictable(call[c].at)) :
            /\ disk' = Without(disk, k) \/ disk' = disk
            /\ entries' = Without(entries, k)
            /\ total' = total - entries[k].size
    BY <1>4 DEF Evict
  <2>2. k \in DOMAIN entries
    BY DEF Oldest, Evictable
  <2>3. entries[k].size \in Int
    BY <2>2, EntryFields
  <2>4. entries' \in PartialMap(Keys, Entry)
    BY <2>1, WithoutMap
  <2>5. disk' \in PartialMap(Keys, Sizes)
    <3>1. Without(disk, k) \in PartialMap(Keys, Sizes)
      BY WithoutMap
    <3>2. QED
      BY <2>1, <3>1
  <2>6. QED
    BY <1>4, <2>1, <2>3, <2>4, <2>5 DEF Evict
<1>5. ASSUME NEW c \in Callers, StoreNoSpace(c) PROVE TypeOK'
  BY <1>5 DEF StoreNoSpace
<1>6. ASSUME NEW c \in Callers, StoreRename(c) PROVE TypeOK'
  <2>1. call[c].key \in Keys /\ call[c].size \in Sizes /\ call[c] \in Call
    BY <1>6, CallFields DEF StoreRename
  <2>2. [call[c] EXCEPT !.pc = "register"] \in Call
    BY <2>1 DEF Call
  <2>3. disk' \in PartialMap(Keys, Sizes)
    BY <1>6, <2>1, PutMap DEF StoreRename
  <2>4. call' \in [Callers -> {Idle} \cup Call]
    BY <1>6, <2>2 DEF StoreRename
  <2>5. QED
    BY <1>6, <2>3, <2>4 DEF StoreRename
<1>7. ASSUME NEW c \in Callers, StoreRenameFails(c) PROVE TypeOK'
  BY <1>7 DEF StoreRenameFails
<1>8. ASSUME NEW c \in Callers, StoreRegister(c) PROVE TypeOK'
  <2>1. call[c].key \in Keys /\ call[c].size \in Sizes
    BY <1>8, CallFields DEF StoreRegister
  <2>2. [size |-> call[c].size, lastAccess |-> now] \in Entry
    BY <2>1 DEF Entry
  <2>3. entries' \in PartialMap(Keys, Entry)
    BY <1>8, <2>1, <2>2, PutMap DEF StoreRegister
  <2>4. SizeOf(call[c].key) \in Int
    BY EntryFields DEF SizeOf
  <2>5. total' \in Int
    BY <1>8, <2>1, <2>4, SizesAssumption DEF StoreRegister, NewTotal
  <2>6. seen' \in PartialMap(Keys, 0 .. MaxClock)
    BY <1>8, <2>1, PutMap DEF StoreRegister
  <2>7. QED
    BY <1>8, <2>3, <2>5, <2>6 DEF StoreRegister
<1>9. ASSUME NEW k \in Keys, Lookup(k) PROVE TypeOK'
  <2>1. DOMAIN entries \in SUBSET Keys /\ entries \in [DOMAIN entries -> Entry]
    BY PartialMapElim
  <2>2. Refreshed(entries[k]) \in Entry
    BY <1>9, EntryFields DEF Lookup, Refreshed, Entry
  <2>3. entries' \in [DOMAIN entries -> Entry]
    BY <1>9, <2>1, <2>2 DEF Lookup
  <2>4. entries' \in PartialMap(Keys, Entry)
    BY <2>1, <2>3, PartialMapIntro
  <2>5. seen' \in PartialMap(Keys, 0 .. MaxClock)
    BY <1>9, PutMap DEF Lookup
  <2>6. QED
    BY <1>9, <2>4, <2>5 DEF Lookup
<1>10. CASE Tick
  BY <1>10, LimitAssumption DEF Tick
<1>11. CASE Restart
  BY <1>11, EmptyMap DEF Restart
<1>12. CASE UNCHANGED vars
  BY <1>12 DEF vars
<1>13. QED
  BY <1>1, <1>2, <1>3, <1>4, <1>5, <1>6, <1>7, <1>8, <1>9, <1>10, <1>11, <1>12
     DEF Next, StoreStep

\* The state of the cache always has its type.
THEOREM TypeCorrect == Spec => []TypeOK
BY TypeInit, TypeNext, PTL DEF Spec

-----------------------------------------------------------------------------
(* The limit and the agreement of index and directory.  Neither is         *)
(* inductive alone: that the file about to be registered still fits, and   *)
(* that its entry will describe it, rests on nobody else having touched    *)
(* the index or the directory since, that is, on the mutex.                *)

LockHeld ==
    \A c \in Callers : call[c].pc \in {"evict", "register"} => mu = c

RoomMade ==
    \A c \in Callers : call[c].pc = "register" =>
        /\ total + call[c].size <= MaxBytes
        /\ call[c].key \in DOMAIN disk
        /\ disk[call[c].key] = call[c].size

LedgerInv == TypeOK /\ LockHeld /\ RoomMade /\ WithinLimit /\ EntryBacked

\* The history of the accesses, and the clock against what was recorded of it.
TimesPast ==
    /\ \A k \in DOMAIN entries : entries[k].lastAccess <= now
    /\ \A c \in Callers : call[c].pc = "evict" => call[c].at <= now

Remembered ==
    \A k \in DOMAIN seen :
        /\ seen[k] <= now
        /\ k \in DOMAIN entries => seen[k] <= entries[k].lastAccess
        /\ k \notin DOMAIN disk => now - seen[k] > TTL

WindowInv == LedgerInv /\ TimesPast /\ Remembered

-----------------------------------------------------------------------------

LEMMA LedgerInit == Init => LedgerInv
<1> SUFFICES ASSUME Init PROVE LedgerInv
  OBVIOUS
<1>1. TypeOK
  BY TypeInit
<1>2. \A c \in Callers : call[c].pc = "idle"
  BY DEF Init, Idle
<1>3. DOMAIN entries = {}
  BY EmptyMap DEF Init
<1>4. WithinLimit
  BY LimitAssumption DEF Init, WithinLimit
<1>5. QED
  BY <1>1, <1>2, <1>3, <1>4 DEF LedgerInv, LockHeld, RoomMade, EntryBacked

\* A step outside the critical section: index, directory, ledger and mutex
\* stay, and nobody enters or leaves.
LEMMA LedgerOutside ==
    ASSUME LedgerInv, TypeOK',
           UNCHANGED <<total, disk, mu>>,
           DOMAIN entries' = DOMAIN entries,
           \A k \in DOMAIN entries : entries'[k].size = entries[k].size,
           \A c \in Callers : \/ call'[c] = call[c]
                              \/ /\ call[c].pc \in {"idle", "wait"}
                                 /\ call'[c].pc \in {"idle", "wait"}
    PROVE  LedgerInv'
<1>1. LockHeld' /\ RoomMade'
  BY DEF LedgerInv, LockHeld, RoomMade
<1>2. WithinLimit'
  BY DEF LedgerInv, WithinLimit
<1>3. \A k : Registering(k) => Registering(k)'
  BY DEF Registering
<1>4. EntryBacked'
  BY <1>3 DEF LedgerInv, EntryBacked
<1>5. QED
  BY <1>1, <1>2, <1>4 DEF LedgerInv

\* A caller that gives the mutex back without having renamed anything.
LEMMA LedgerRelease ==
    ASSUME LedgerInv, TypeOK', NEW c \in Callers,
           call[c].pc = "evict",
           UNCHANGED <<entries, total, disk>>,
           mu' = Free,
           call' = [call EXCEPT ![c] = Idle]
    PROVE  LedgerInv'
<1>1. \A d \in Callers : call'[d].pc \notin {"evict", "register"}
  BY DEF LedgerInv, LockHeld, TypeOK, Idle
<1>2. LockHeld' /\ RoomMade'
  BY <1>1 DEF LockHeld, RoomMade
<1>3. \A k : ~Registering(k)
  BY DEF LedgerInv, LockHeld, Registering
<1>4. EntryBacked'
  BY <1>3 DEF LedgerInv, EntryBacked
<1>5. QED
  BY <1>2, <1>4 DEF LedgerInv, WithinLimit

LEMMA LedgerEvict ==
    ASSUME LedgerInv, TypeOK', NEW c \in Callers, Evict(c)
    PROVE  LedgerInv'
<1>1. PICK k \in Oldest(Evictable(call[c].at)) :
          /\ disk' = Without(disk, k) \/ disk' = disk
          /\ entries' = Without(entries, k)
          /\ total' = total - entries[k].size
  BY DEF Evict
<1>2. k \in DOMAIN entries
  BY DEF Oldest, Evictable
<1>3. total \in Int /\ entries[k].size \in Nat
  BY <1>2, EntryFields DEF LedgerInv, TypeOK
<1>4. \A d \in Callers : call'[d] = call[d] /\ call[d].pc # "register"
  BY DEF Evict, LedgerInv, LockHeld
<1>5. LockHeld' /\ RoomMade'
  BY <1>4 DEF LedgerInv, LockHeld, RoomMade, Evict
<1>6. WithinLimit'
  BY <1>1, <1>3, LimitAssumption DEF LedgerInv, WithinLimit
<1>7. EntryBacked'
  <2> SUFFICES ASSUME NEW j \in DOMAIN entries'
               PROVE  j \in DOMAIN disk' /\ disk'[j] = entries'[j].size
    BY DEF EntryBacked
  <2>1. j \in DOMAIN entries /\ j # k /\ entries'[j] = entries[j]
    <3>1. /\ DOMAIN Without(entries, k) = DOMAIN entries \ {k}
          /\ \A x \in DOMAIN entries : x # k => Without(entries, k)[x] = entries[x]
      BY DEF Without
    <3>2. QED
      BY <1>1, <3>1
  <2>2. j \in DOMAIN disk /\ disk[j] = entries[j].size
    BY <1>4, <2>1 DEF LedgerInv, EntryBacked, Registering
  <2>3. j \in DOMAIN disk' /\ disk'[j] = disk[j]
    <3>1. CASE disk' = disk
      BY <2>2, <3>1
    <3>2. CASE disk' = Without(disk, k)
      <4>1. /\ DOMAIN Without(disk, k) = DOMAIN disk \ {k}
            /\ \A x \in DOMAIN disk : x # k => Without(disk, k)[x] = disk[x]
        BY DEF Without
      <4>2. QED
        BY <2>1, <2>2, <3>2, <4>1
    <3>3. QED
      BY <1>1, <3>1, <3>2
  <2>4. QED
    BY <2>1, <2>2, <2>3
<1>8. QED
  BY <1>5, <1>6, <1>7 DEF LedgerInv

LEMMA LedgerRename ==
    ASSUME LedgerInv, TypeOK', NEW c \in Callers, StoreRename(c)
    PROVE  LedgerInv'
<1>1. /\ call[c].pc = "evict" /\ mu = c /\ mu' = mu
      /\ call[c].key \in Keys /\ call[c].size \in Sizes
      /\ disk \in PartialMap(Keys, Sizes)
      /\ total + call[c].size <= MaxBytes
  BY CallFields DEF StoreRename, LedgerInv, LockHeld, TypeOK, Fits
<1>2. /\ call'[c].pc = "register"
      /\ call'[c].key = call[c].key /\ call'[c].size = call[c].size
      /\ \A d \in Callers : d # c => /\ call'[d] = call[d]
                                     /\ call[d].pc \notin {"evict", "register"}
  <2>1. call[c] \in Call
    BY <1>1, CallFields DEF LedgerInv
  <2>2. call'[c] = [call[c] EXCEPT !.pc = "register"]
    BY DEF StoreRename, LedgerInv, TypeOK
  <2>3. \A d \in Callers : d # c => call'[d] = call[d]
    BY DEF StoreRename, LedgerInv, TypeOK
  <2>4. QED
    BY <1>1, <2>1, <2>2, <2>3 DEF Call, LedgerInv, LockHeld
<1>3. /\ call[c].key \in DOMAIN disk'
      /\ disk'[call[c].key] = call[c].size
      /\ \A x \in DOMAIN disk : x # call[c].key => x \in DOMAIN disk' /\ disk'[x] = disk[x]
  <2>1. disk' = Put(disk, call[c].key, call[c].size)
    BY DEF StoreRename
  <2>2. /\ DOMAIN Put(disk, call[c].key, call[c].size) = DOMAIN disk \cup {call[c].key}
        /\ Put(disk, call[c].key, call[c].size)[call[c].key] = call[c].size
        /\ \A x \in DOMAIN disk : x # call[c].key =>
              Put(disk, call[c].key, call[c].size)[x] = disk[x]
    BY DEF Put
  <2>3. QED
    BY <2>1, <2>2
<1>4. LockHeld'
  BY <1>1, <1>2 DEF LockHeld
<1>5. RoomMade'
  BY <1>1, <1>2, <1>3 DEF RoomMade, StoreRename
<1>6. EntryBacked'
  <2> SUFFICES ASSUME NEW j \in DOMAIN entries'
               PROVE  j \in DOMAIN disk' /\ (Registering(j)' \/ disk'[j] = entries'[j].size)
    BY DEF EntryBacked
  <2>1. j \in DOMAIN entries /\ entries' = entries
    BY DEF StoreRename
  <2>2. CASE j = call[c].key
    BY <1>2, <1>3, <2>2 DEF Registering
  <2>3. CASE j # call[c].key
    BY <1>1, <1>2, <1>3, <2>1, <2>3 DEF LedgerInv, EntryBacked, Registering
  <2>4. QED
    BY <2>2, <2>3
<1>7. QED
  BY <1>4, <1>5, <1>6 DEF LedgerInv, WithinLimit, StoreRename

LEMMA LedgerRegister ==
    ASSUME LedgerInv, TypeOK', NEW c \in Callers, StoreRegister(c)
    PROVE  LedgerInv'
<1> DEFINE key == call[c].key
           e   == [size |-> call[c].size, lastAccess |-> now]
<1>1. /\ key \in Keys /\ call[c].size \in Sizes /\ call[c].size \in Nat
      /\ entries \in PartialMap(Keys, Entry) /\ e \in Entry
      /\ entries' = Put(entries, key, e)
  BY CallFields, SizesAssumption DEF StoreRegister, LedgerInv, TypeOK, Entry
<1>2. /\ DOMAIN entries' = DOMAIN entries \cup {key}
      /\ entries'[key] = e
      /\ \A x \in DOMAIN entries : x # key => entries'[x] = entries[x]
  BY <1>1, PutMap
<1>3. \A d \in Callers : call'[d].pc \notin {"evict", "register"}
  BY DEF StoreRegister, LedgerInv, LockHeld, TypeOK, Idle
<1>4. LockHeld' /\ RoomMade'
  BY <1>3 DEF LockHeld, RoomMade
<1>5. WithinLimit'
  <2>1. SizeOf(key) \in Nat
    BY EntryFields DEF SizeOf, LedgerInv
  <2>2. total + call[c].size <= MaxBytes
    BY DEF LedgerInv, RoomMade, StoreRegister
  <2>3. total' = total - SizeOf(key) + call[c].size
    BY DEF StoreRegister, NewTotal
  <2>4. QED
    BY <1>1, <2>1, <2>2, <2>3, LimitAssumption DEF WithinLimit, LedgerInv, TypeOK
<1>6. EntryBacked'
  <2> SUFFICES ASSUME NEW j \in DOMAIN entries'
               PROVE  j \in DOMAIN disk /\ disk[j] = entries'[j].size
    BY DEF EntryBacked, StoreRegister
  <2>1. CASE j = key
    BY <1>2, <2>1 DEF LedgerInv, RoomMade, StoreRegister
  <2>2. CASE j # key
    <3>1. j \in DOMAIN entries /\ entries'[j] = entries[j]
      BY <1>2, <2>2
    <3>2. ~Registering(j)
      BY <2>2 DEF Registering, LedgerInv, LockHeld, StoreRegister
    <3>3. QED
      BY <3>1, <3>2 DEF LedgerInv, EntryBacked
  <2>3. QED
    BY <2>1, <2>2
<1>7. QED
  BY <1>4, <1>5, <1>6 DEF LedgerInv

LEMMA LedgerNext == LedgerInv /\ [Next]_vars => LedgerInv'
<1> SUFFICES ASSUME LedgerInv, [Next]_vars PROVE LedgerInv'
  OBVIOUS
<1>0. TypeOK /\ TypeOK'
  BY TypeNext DEF LedgerInv
<1>1. ASSUME NEW c \in Callers, NEW k \in Keys, NEW s \in Sizes, StoreStat(c, k, s)
      PROVE  LedgerInv'
  BY <1>0, <1>1, LedgerOutside DEF StoreStat, TypeOK, Idle
<1>2. ASSUME NEW c \in Callers, StoreEnter(c) PROVE LedgerInv'
  <2>1. \A d \in Callers : call[d].pc \notin {"evict", "register"}
    BY <1>2, FreeAssumption DEF StoreEnter, LedgerInv, LockHeld
  <2>2. /\ call'[c].pc = "evict" /\ mu' = c
        /\ \A d \in Callers : d # c => call'[d] = call[d]
    <3>1. call[c] \in Call
      BY <1>0, <1>2, CallFields DEF StoreEnter
    <3>2. QED
      BY <1>0, <1>2, <3>1 DEF StoreEnter, TypeOK, Call
  <2>3. LockHeld' /\ RoomMade'
    BY <2>1, <2>2 DEF LockHeld, RoomMade
  <2>4. EntryBacked' /\ WithinLimit'
    BY <1>2, <2>1, <2>2
       DEF LedgerInv, EntryBacked, WithinLimit, Registering, StoreEnter
  <2>5. QED
    BY <1>0, <2>3, <2>4 DEF LedgerInv
<1>3. ASSUME NEW c \in Callers, StoreTooLarge(c) PROVE LedgerInv'
  BY <1>0, <1>3, LedgerOutside DEF StoreTooLarge, TypeOK, Idle
<1>4. ASSUME NEW c \in Callers, Evict(c) PROVE LedgerInv'
  BY <1>0, <1>4, LedgerEvict
<1>5. ASSUME NEW c \in Callers, StoreNoSpace(c) PROVE LedgerInv'
  BY <1>0, <1>5, LedgerRelease DEF StoreNoSpace
<1>6. ASSUME NEW c \in Callers, StoreRename(c) PROVE LedgerInv'
  BY <1>0, <1>6, LedgerRename
<1>7. ASSUME NEW c \in Callers, StoreRenameFails(c) PROVE LedgerInv'
  BY <1>0, <1>7, LedgerRelease DEF StoreRenameFails
<1>8. ASSUME NEW c \in Callers, StoreRegister(c) PROVE LedgerInv'
  BY <1>0, <1>8, LedgerRegister
<1>9. ASSUME NEW k \in Keys, Lookup(k) PROVE LedgerInv'
  <2>1. entries[k] \in Entry
    BY <1>0, <1>9, EntryFields DEF Lookup
  <2>2. /\ DOMAIN entries' = DOMAIN entries
        /\ \A j \in DOMAIN entries : entries'[j].size = entries[j].size
    BY <1>9, <2>1 DEF Lookup, Refreshed, Entry
  <2>3. QED
    BY <1>0, <1>9, <2>2, LedgerOutside DEF Lookup
<1>10. CASE Tick
  BY <1>0, <1>10, LedgerOutside DEF Tick
<1>11. CASE Restart
  <2>1. \A c \in Callers : call'[c].pc = "idle"
    BY <1>11 DEF Restart, Idle
  <2>2. DOMAIN entries' = {}
    BY <1>11, EmptyMap DEF Restart
  <2>3. QED
    BY <1>0, <1>11, <2>1, <2>2, LimitAssumption
       DEF Restart, LedgerInv, LockHeld, RoomMade, WithinLimit, EntryBacked
<1>12. CASE UNCHANGED vars
  BY <1>0, <1>12, LedgerOutside DEF vars
<1>13. QED
  BY <1>1, <1>2, <1>3, <1>4, <1>5, <1>6, <1>7, <1>8, <1>9, <1>10, <1>11, <1>12
     DEF Next, StoreStep

\* For every number of keys, callers and sizes, and whatever faults happen,
\* the ledger never passes the limit.
THEOREM LimitKept == Spec => []WithinLimit
<1>1. LedgerInv => WithinLimit
  BY DEF LedgerInv
<1>2. QED
  BY LedgerInit, LedgerNext, <1>1, PTL DEF Spec

\* Every key in the index has its file, of the size the index counts.
THEOREM IndexBacked == Spec => []EntryBacked
<1>1. LedgerInv => EntryBacked
  BY DEF LedgerInv
<1>2. QED
  BY LedgerInit, LedgerNext, <1>1, PTL DEF Spec

-----------------------------------------------------------------------------
(* The ledger is exact.  The sum is inductive only together with the       *)
(* finiteness of what it counts; that the file on disk that is not yet     *)
(* registered fits as well is RoomMade.                                    *)

IndexSizes == [k \in DOMAIN entries |-> entries[k].size]

ExactInv == LedgerInv /\ IsFiniteSet(BytesOf(IndexSizes)) /\ LedgerExact

LEMMA WholeIndex == EntryBytes(DOMAIN entries) = Cardinality(BytesOf(IndexSizes))
BY DEF EntryBytes, IndexSizes

LEMMA ExactInit == Init => ExactInv
<1> SUFFICES ASSUME Init PROVE ExactInv
  OBVIOUS
<1>1. entries = Empty /\ total = 0 /\ DOMAIN entries = {}
  BY EmptyMap DEF Init
<1>2. BytesOf(IndexSizes) = {}
  BY <1>1 DEF BytesOf, IndexSizes
<1>3. QED
  BY <1>1, <1>2, NoBytes, WholeIndex, LedgerInit DEF ExactInv, LedgerExact

LEMMA ExactSame ==
    ASSUME ExactInv, LedgerInv', total' = total,
           DOMAIN entries' = DOMAIN entries,
           \A k \in DOMAIN entries : entries'[k].size = entries[k].size
    PROVE  ExactInv'
<1>1. IndexSizes' = IndexSizes
  BY DEF IndexSizes
<1>2. QED
  BY <1>1, WholeIndex DEF ExactInv, LedgerExact, EntryBytes, IndexSizes

LEMMA ExactEvict ==
    ASSUME ExactInv, LedgerInv', NEW c \in Callers, Evict(c)
    PROVE  ExactInv'
<1>1. PICK k \in Oldest(Evictable(call[c].at)) :
          /\ entries' = Without(entries, k)
          /\ total' = total - entries[k].size
  BY DEF Evict
<1>2. k \in DOMAIN entries
  BY DEF Oldest, Evictable
<1>3. IndexSizes' = Without(IndexSizes, k)
  BY <1>1 DEF IndexSizes, Without
<1>4. k \in DOMAIN IndexSizes /\ IndexSizes[k] = entries[k].size /\ IndexSizes[k] \in Nat
  BY <1>2, EntryFields DEF IndexSizes, ExactInv, LedgerInv
<1>5. /\ IsFiniteSet(BytesOf(IndexSizes'))
      /\ Cardinality(BytesOf(IndexSizes)) \in Nat
      /\ Cardinality(BytesOf(IndexSizes')) \in Nat
      /\ Cardinality(BytesOf(IndexSizes)) = Cardinality(BytesOf(IndexSizes')) + entries[k].size
  BY <1>3, <1>4, BytesWithout DEF ExactInv
<1>6. total = Cardinality(BytesOf(IndexSizes))
  BY WholeIndex DEF ExactInv, LedgerExact
<1>7. total' = Cardinality(BytesOf(IndexSizes'))
  BY <1>1, <1>4, <1>5, <1>6
<1>8. QED
  BY <1>5, <1>7 DEF ExactInv, LedgerExact, EntryBytes, IndexSizes, BytesOf

LEMMA ExactRegister ==
    ASSUME ExactInv, LedgerInv', NEW c \in Callers, StoreRegister(c)
    PROVE  ExactInv'
<1> DEFINE key == call[c].key
           n   == call[c].size
           e   == [size |-> n, lastAccess |-> now]
<1>1. n \in Nat
  BY CallFields, SizesAssumption DEF StoreRegister, ExactInv, LedgerInv
<1>2. entries' = Put(entries, key, e) /\ total' = total - SizeOf(key) + n
  BY DEF StoreRegister, NewTotal
<1>3. IndexSizes' = Put(IndexSizes, key, n)
  <2>1. /\ DOMAIN entries' = DOMAIN entries \cup {key}
        /\ \A x \in DOMAIN entries' :
              entries'[x] = IF x = key THEN e ELSE entries[x]
    BY <1>2 DEF Put
  <2>2. \A x \in DOMAIN entries' :
           entries'[x].size = IF x = key THEN n ELSE entries[x].size
    BY <2>1
  <2>3. QED
    BY <2>1, <2>2 DEF IndexSizes, Put
<1>4. key \in DOMAIN IndexSizes => IndexSizes[key] \in Nat
  BY EntryFields DEF IndexSizes, ExactInv, LedgerInv
<1>5. SizeOf(key) = IF key \in DOMAIN IndexSizes THEN IndexSizes[key] ELSE 0
  BY DEF SizeOf, IndexSizes
<1>6. /\ IsFiniteSet(BytesOf(IndexSizes'))
      /\ Cardinality(BytesOf(IndexSizes')) = Cardinality(BytesOf(IndexSizes)) - SizeOf(key) + n
  BY <1>1, <1>3, <1>4, <1>5, BytesPut DEF ExactInv
<1>7. total = Cardinality(BytesOf(IndexSizes))
  BY WholeIndex DEF ExactInv, LedgerExact
<1>8. total' = Cardinality(BytesOf(IndexSizes'))
  BY <1>2, <1>6, <1>7
<1>9. QED
  BY <1>6, <1>8 DEF ExactInv, LedgerExact, EntryBytes, IndexSizes, BytesOf

LEMMA ExactNext == ExactInv /\ [Next]_vars => ExactInv'
<1> SUFFICES ASSUME ExactInv, [Next]_vars PROVE ExactInv'
  OBVIOUS
<1>0. TypeOK /\ LedgerInv'
  BY LedgerNext DEF ExactInv, LedgerInv
<1>1. ASSUME NEW c \in Callers, Evict(c) PROVE ExactInv'
  BY <1>0, <1>1, ExactEvict
<1>2. ASSUME NEW c \in Callers, StoreRegister(c) PROVE ExactInv'
  BY <1>0, <1>2, ExactRegister
<1>3. ASSUME NEW k \in Keys, Lookup(k) PROVE ExactInv'
  <2>1. entries[k] \in Entry
    BY <1>0, <1>3, EntryFields DEF Lookup
  <2>2. /\ DOMAIN entries' = DOMAIN entries /\ total' = total
        /\ \A j \in DOMAIN entries : entries'[j].size = entries[j].size
    BY <1>3, <2>1 DEF Lookup, Refreshed, Entry
  <2>3. QED
    BY <1>0, <2>2, ExactSame
<1>4. CASE Restart
  <2>1. total' = 0 /\ DOMAIN entries' = {}
    BY <1>4, EmptyMap DEF Restart
  <2>2. BytesOf(IndexSizes') = {}
    BY <2>1 DEF BytesOf, IndexSizes
  <2>3. total' = Cardinality(BytesOf(IndexSizes')) /\ IsFiniteSet(BytesOf(IndexSizes'))
    BY <2>1, <2>2, NoBytes
  <2>4. QED
    BY <1>0, <2>3 DEF ExactInv, LedgerExact, EntryBytes, IndexSizes, BytesOf
<1>5. CASE UNCHANGED <<entries, total>>
  BY <1>0, <1>5, ExactSame
<1>6. QED
  BY <1>1, <1>2, <1>3, <1>4, <1>5
     DEF Next, StoreStep, vars, StoreStat, StoreEnter, StoreTooLarge, StoreNoSpace,
         StoreRename, StoreRenameFails, Tick

\* The running total is the number of bytes in the index, whatever is
\* replaced, evicted, refused or forgotten in a restart.
THEOREM TotalExact == Spec => []LedgerExact
<1>1. ExactInv => LedgerExact
  BY DEF ExactInv
<1>2. QED
  BY ExactInit, ExactNext, <1>1, PTL DEF Spec

LEMMA DiskBounded == ExactInv => DiskWithinLimit
<1> SUFFICES ASSUME ExactInv, Orphans = {} PROVE DiskBytes <= MaxBytes
  BY DEF DiskWithinLimit
<1>1. /\ TypeOK /\ LockHeld /\ RoomMade /\ EntryBacked
      /\ total \in Int /\ total <= MaxBytes
      /\ IsFiniteSet(BytesOf(IndexSizes))
      /\ total = Cardinality(BytesOf(IndexSizes))
  BY WholeIndex DEF ExactInv, LedgerInv, LedgerExact, WithinLimit, TypeOK
<1>2. \A k \in DOMAIN disk : k \in DOMAIN entries \/ Registering(k)
  BY DEF Orphans
<1>3. disk = [k \in DOMAIN disk |-> disk[k]]
  <2>1. disk \in PartialMap(Keys, Sizes)
    BY <1>1 DEF TypeOK
  <2>2. disk \in [DOMAIN disk -> Sizes]
    BY <2>1, PartialMapElim
  <2>3. QED
    BY <2>2
<1>4. CASE \A k : ~Registering(k)
  <2>1. DOMAIN disk = DOMAIN entries /\ \A k \in DOMAIN disk : disk[k] = entries[k].size
    BY <1>1, <1>2, <1>4 DEF EntryBacked
  <2>2. disk = IndexSizes
    BY <1>3, <2>1 DEF IndexSizes
  <2>3. QED
    BY <1>1, <2>2 DEF DiskBytes
<1>5. ASSUME NEW c \in Callers, call[c].pc = "register" PROVE DiskBytes <= MaxBytes
  <2> DEFINE key == call[c].key
             n   == call[c].size
  <2>1. /\ n \in Nat
        /\ total + n <= MaxBytes
        /\ key \in DOMAIN disk /\ disk[key] = n
    BY <1>1, <1>5, CallFields, SizesAssumption DEF RoomMade
  <2>2. \A k : Registering(k) => k = key
    BY <1>1, <1>5 DEF LockHeld, Registering
  <2>3. Without(disk, key) = Without(IndexSizes, key)
    <3>1. DOMAIN disk \ {key} = DOMAIN entries \ {key}
      BY <1>1, <1>2, <2>2 DEF EntryBacked
    <3>2. \A k \in DOMAIN disk \ {key} : disk[k] = entries[k].size
      BY <1>1, <2>2, <3>1 DEF EntryBacked
    <3>3. QED
      BY <3>1, <3>2 DEF Without, IndexSizes
  <2>4. /\ IsFiniteSet(BytesOf(Without(IndexSizes, key)))
        /\ Cardinality(BytesOf(Without(IndexSizes, key))) \in Nat
        /\ Cardinality(BytesOf(Without(IndexSizes, key))) <= total
    <3>1. CASE key \in DOMAIN entries
      <4>1. /\ key \in DOMAIN IndexSizes
            /\ IndexSizes[key] \in Nat
        BY <1>1, <3>1, EntryFields DEF IndexSizes
      <4>2. /\ IsFiniteSet(BytesOf(Without(IndexSizes, key)))
            /\ Cardinality(BytesOf(Without(IndexSizes, key))) \in Nat
            /\ total = Cardinality(BytesOf(Without(IndexSizes, key))) + IndexSizes[key]
        BY <1>1, <4>1, BytesWithout
      <4>3. QED
        BY <4>1, <4>2
    <3>2. CASE key \notin DOMAIN entries
      <4>1. BytesOf(Without(IndexSizes, key)) = BytesOf(IndexSizes)
        BY <3>2 DEF BytesOf, Without, IndexSizes
      <4>2. Cardinality(BytesOf(IndexSizes)) \in Nat
        BY <1>1, FS_CardinalityType
      <4>3. QED
        BY <1>1, <4>1, <4>2
    <3>3. QED
      BY <3>1, <3>2
  <2>5. Cardinality(BytesOf(disk)) = Cardinality(BytesOf(Without(disk, key))) + n
    BY <2>1, <2>3, <2>4, BytesWithout
  <2>6. QED
    BY <1>1, <2>1, <2>3, <2>4, <2>5, LimitAssumption DEF DiskBytes
<1>6. QED
  BY <1>4, <1>5 DEF Registering

\* While no file has escaped the index, the directory itself respects the
\* limit, between a rename and its registration too.
THEOREM DirectoryBounded == Spec => []DiskWithinLimit
BY ExactInit, ExactNext, DiskBounded, PTL DEF Spec

-----------------------------------------------------------------------------
(* What a step may do to the index.                                        *)

LEMMA RefusalJustified ==
    ASSUME ExactInv, NEW c \in Callers, StoreNoSpace(c)
    PROVE  EntryBytes({k \in DOMAIN entries : entries[k].lastAccess + TTL >= call[c].at})
              + call[c].size > MaxBytes
<1>1. TypeOK /\ total \in Int /\ total = EntryBytes(DOMAIN entries)
  BY DEF ExactInv, LedgerInv, LedgerExact, TypeOK
<1>2. call[c].at \in Int /\ call[c].size \in Nat
  <2>1. call[c].pc # "idle"
    BY DEF StoreNoSpace
  <2>2. call[c].at \in 0 .. MaxClock /\ call[c].size \in Sizes
    BY <1>1, <2>1, CallFields
  <2>3. call[c].at \in Int
    BY <2>2
  <2>4. call[c].size \in Nat
    BY <2>2, SizesAssumption
  <2>5. QED
    BY <2>3, <2>4
<1>3. ~(total + call[c].size <= MaxBytes)
  BY DEF StoreNoSpace, Fits
<1>4. \A k \in DOMAIN entries : entries[k].lastAccess + TTL >= call[c].at
  <2> SUFFICES ASSUME NEW k \in DOMAIN entries
               PROVE  entries[k].lastAccess + TTL >= call[c].at
    OBVIOUS
  <2>1. call[c].at - entries[k].lastAccess <= TTL
    BY DEF StoreNoSpace, Evictable, Protected
  <2>2. entries[k].lastAccess \in Int
    BY <1>1, EntryFields
  <2>3. QED
    BY <1>2, <2>1, <2>2, LimitAssumption
<1>5. {k \in DOMAIN entries : entries[k].lastAccess + TTL >= call[c].at} = DOMAIN entries
  BY <1>4
<1>6. QED
  BY <1>1, <1>2, <1>3, <1>5, LimitAssumption

\* A Store is refused for lack of space only when the protected entries alone
\* leave no room: for every limit, window and set of sizes.
THEOREM RefusalsJustified == Spec => NoSpaceJustified
<1>1. ExactInv =>
        [\A c \in Callers :
            StoreNoSpace(c) =>
               LET guarded == {k \in DOMAIN entries :
                                 entries[k].lastAccess + TTL >= call[c].at}
               IN  EntryBytes(guarded) + call[c].size > MaxBytes]_vars
  BY RefusalJustified
<1>2. QED
  BY ExactInit, ExactNext, <1>1, PTL DEF Spec, NoSpaceJustified

\* The victim of an eviction, against everything that stays.
LEMMA VictimOldest ==
    ASSUME TypeOK, NEW c \in Callers, call[c].pc = "evict",
           NEW k \in Oldest(Evictable(call[c].at)), NEW j \in DOMAIN entries
    PROVE  entries[k].lastAccess <= entries[j].lastAccess
<1>1. /\ k \in DOMAIN entries
      /\ ~(call[c].at - entries[k].lastAccess <= TTL)
      /\ j \in Evictable(call[c].at) => entries[k].lastAccess <= entries[j].lastAccess
  BY DEF Oldest, Evictable, Protected
<1>2. /\ call[c].at \in Int
      /\ entries[k].lastAccess \in Int /\ entries[j].lastAccess \in Int
  BY <1>1, CallFields, EntryFields
<1>3. CASE j \in Evictable(call[c].at)
  BY <1>1, <1>3
<1>4. CASE j \notin Evictable(call[c].at)
  <2>1. call[c].at - entries[j].lastAccess <= TTL
    BY <1>4 DEF Evictable, Protected
  <2>2. QED
    BY <1>1, <1>2, <2>1, LimitAssumption
<1>5. QED
  BY <1>3, <1>4

\* Every step but an eviction and a restart keeps the index.
LEMMA IndexKept ==
    ASSUME [Next]_vars, \A c \in Callers : ~Evict(c), ~Restart
    PROVE  DOMAIN entries \subseteq DOMAIN entries'
<1>1. ASSUME NEW c \in Callers, StoreRegister(c)
      PROVE  DOMAIN entries \subseteq DOMAIN entries'
  BY <1>1 DEF StoreRegister, Put
<1>2. ASSUME NEW k \in Keys, Lookup(k)
      PROVE  DOMAIN entries \subseteq DOMAIN entries'
  BY <1>2 DEF Lookup
<1>3. CASE UNCHANGED entries
  BY <1>3
<1>4. QED
  BY <1>1, <1>2, <1>3
     DEF Next, StoreStep, vars, StoreStat, StoreEnter, StoreTooLarge, StoreNoSpace,
         StoreRename, StoreRenameFails, Tick

\* Only an eviction that is needed, or a restart, takes a key out of the
\* index, and the eviction takes a least recently used one.
THEOREM EvictionsNeeded == Spec => EvictionNeeded
<1>1. ExactInv /\ [Next]_vars =>
        [\A k \in DOMAIN entries :
            k \notin DOMAIN entries' /\ ~Restart =>
               \E c \in Callers :
                  /\ mu = c
                  /\ EntryBytes(DOMAIN entries) + call[c].size > MaxBytes
                  /\ \A j \in DOMAIN entries' :
                        entries[k].lastAccess <= entries[j].lastAccess]_vars
  <2> SUFFICES ASSUME ExactInv, [Next]_vars, NEW k \in DOMAIN entries,
                      k \notin DOMAIN entries', ~Restart
               PROVE  \E c \in Callers :
                         /\ mu = c
                         /\ EntryBytes(DOMAIN entries) + call[c].size > MaxBytes
                         /\ \A j \in DOMAIN entries' :
                               entries[k].lastAccess <= entries[j].lastAccess
    OBVIOUS
  <2>1. /\ TypeOK /\ LockHeld
        /\ total \in Int /\ total = EntryBytes(DOMAIN entries)
    BY DEF ExactInv, LedgerInv, LedgerExact, TypeOK
  <2>2. PICK c \in Callers : Evict(c)
    BY IndexKept
  <2>3. PICK v \in Oldest(Evictable(call[c].at)) : entries' = Without(entries, v)
    BY <2>2 DEF Evict
  <2>4. DOMAIN entries' = DOMAIN entries \ {v} /\ k = v
    BY <2>3 DEF Without
  <2>5. call[c].pc = "evict" /\ mu = c
    BY <2>1, <2>2 DEF Evict, LockHeld
  <2>6. EntryBytes(DOMAIN entries) + call[c].size > MaxBytes
    <3>1. call[c].size \in Nat
      BY <2>1, <2>5, CallFields, SizesAssumption
    <3>2. ~(total + call[c].size <= MaxBytes)
      BY <2>2 DEF Evict, Fits
    <3>3. QED
      BY <2>1, <3>1, <3>2, LimitAssumption
  <2>7. \A j \in DOMAIN entries' : entries[k].lastAccess <= entries[j].lastAccess
    BY <2>1, <2>4, <2>5, VictimOldest
  <2>8. QED
    BY <2>5, <2>6, <2>7
<1>2. QED
  BY ExactInit, ExactNext, <1>1, PTL DEF Spec, EvictionNeeded

-----------------------------------------------------------------------------
(* Why the directory can pass the limit at all: a file has to escape the   *)
(* index first, in a restart or in a removal that fails.                   *)

NothingEscapes == Faults \subseteq {"rename"}

TrackedInv == ExactInv /\ Orphans = {}

LEMMA TrackedNext == NothingEscapes /\ TrackedInv /\ [Next]_vars => TrackedInv'
<1> SUFFICES ASSUME NothingEscapes, TrackedInv, [Next]_vars PROVE TrackedInv'
  OBVIOUS
<1>0. /\ TypeOK /\ LockHeld /\ RoomMade /\ ExactInv'
      /\ "crash" \notin Faults /\ "remove" \notin Faults
      /\ \A k \in DOMAIN disk : k \in DOMAIN entries \/ Registering(k)
  BY ExactNext DEF TrackedInv, ExactInv, LedgerInv, NothingEscapes, Orphans
<1> SUFFICES ASSUME NEW k \in DOMAIN disk', k \notin DOMAIN entries'
             PROVE  Registering(k)'
  BY <1>0 DEF TrackedInv, Orphans
<1>1. ASSUME NEW c \in Callers, Evict(c) PROVE Registering(k)'
  <2>1. PICK v \in DOMAIN entries : entries' = Without(entries, v) /\ disk' = Without(disk, v)
    BY <1>0, <1>1 DEF Evict, Oldest, Evictable
  <2>2. k \in DOMAIN disk /\ k \notin DOMAIN entries
    BY <2>1 DEF Without
  <2>3. QED
    BY <1>0, <1>1, <2>2 DEF Evict, Registering
<1>2. ASSUME NEW c \in Callers, StoreRename(c) PROVE Registering(k)'
  <2>1. call[c] \in Call
    BY <1>0, <1>2, CallFields DEF StoreRename
  <2>2. call'[c].pc = "register" /\ call'[c].key = call[c].key
    BY <1>0, <1>2, <2>1 DEF StoreRename, TypeOK, Call
  <2>3. \A d \in Callers : call[d].pc # "register"
    BY <1>0, <1>2 DEF StoreRename, LockHeld
  <2>4. k = call[c].key
    BY <1>0, <1>2, <2>3 DEF StoreRename, Put, Registering
  <2>5. QED
    BY <2>2, <2>4 DEF Registering
<1>3. ASSUME NEW c \in Callers, StoreRegister(c) PROVE Registering(k)'
  <2>1. k # call[c].key /\ k \in DOMAIN disk /\ k \notin DOMAIN entries
    BY <1>3 DEF StoreRegister, Put
  <2>2. PICK d \in Callers : call[d].pc = "register" /\ call[d].key = k
    BY <1>0, <2>1 DEF Registering
  <2>3. d = c
    BY <1>0, <1>3, <2>2 DEF StoreRegister, LockHeld
  <2>4. QED
    BY <2>1, <2>2, <2>3
<1>4. ASSUME NEW j \in Keys, Lookup(j) PROVE Registering(k)'
  BY <1>0, <1>4 DEF Lookup, Registering
<1>5. ASSUME NEW c \in Callers, call[c].pc # "register", UNCHANGED <<entries, disk>>,
             \A d \in Callers : d # c => call'[d] = call[d]
      PROVE  Registering(k)'
  BY <1>0, <1>5 DEF Registering
<1>6. CASE UNCHANGED <<entries, disk, call>>
  BY <1>0, <1>6 DEF Registering
<1>7. ASSUME NEW c \in Callers, NEW j \in Keys, NEW s \in Sizes, StoreStat(c, j, s)
      PROVE  Registering(k)'
  BY <1>0, <1>5, <1>7 DEF StoreStat, TypeOK, Idle
<1>8. ASSUME NEW c \in Callers, StoreEnter(c) \/ StoreTooLarge(c) PROVE Registering(k)'
  BY <1>0, <1>5, <1>8 DEF StoreEnter, StoreTooLarge, TypeOK
<1>9. ASSUME NEW c \in Callers, StoreNoSpace(c) \/ StoreRenameFails(c) PROVE Registering(k)'
  BY <1>0, <1>5, <1>9 DEF StoreNoSpace, StoreRenameFails, TypeOK
<1>10. QED
  BY <1>0, <1>1, <1>2, <1>3, <1>4, <1>6, <1>7, <1>8, <1>9
     DEF Next, StoreStep, vars, Tick, Restart

\* In a process that is not restarted and whose removals succeed, the final
\* files never pass the limit at all.
THEOREM CapWithoutEscapes == NothingEscapes => (Spec => []DirectoryCap)
<1> SUFFICES ASSUME NothingEscapes PROVE Spec => []DirectoryCap
  OBVIOUS
<1>1. Init => TrackedInv
  <2> SUFFICES ASSUME Init PROVE Orphans = {}
    BY ExactInit DEF TrackedInv
  <2>1. DOMAIN disk = {}
    BY EmptyMap DEF Init
  <2>2. QED
    BY <2>1 DEF Orphans
<1>2. TrackedInv /\ [Next]_vars => TrackedInv'
  BY TrackedNext
<1>3. TrackedInv => DirectoryCap
  BY DiskBounded DEF TrackedInv, DiskWithinLimit, DirectoryCap
<1>4. QED
  BY <1>1, <1>2, <1>3, PTL DEF Spec

-----------------------------------------------------------------------------
(* The protection window.                                                  *)

LEMMA WindowInit == Init => WindowInv
<1> SUFFICES ASSUME Init PROVE WindowInv
  OBVIOUS
<1>1. LedgerInv
  BY LedgerInit
<1>2. DOMAIN entries = {} /\ DOMAIN seen = {}
  BY EmptyMap DEF Init
<1>3. \A c \in Callers : call[c].pc = "idle"
  BY DEF Init, Idle
<1>4. QED
  BY <1>1, <1>2, <1>3 DEF WindowInv, TimesPast, Remembered

LEMMA SeenTime ==
    ASSUME TypeOK, NEW k \in DOMAIN seen
    PROVE  seen[k] \in Int
<1>1. seen \in PartialMap(Keys, 0 .. MaxClock)
  BY DEF TypeOK
<1>2. seen \in [DOMAIN seen -> 0 .. MaxClock]
  BY <1>1, PartialMapElim
<1>3. QED
  BY <1>2

\* A step that neither reads the clock nor changes index, directory or history.
LEMMA WindowStill ==
    ASSUME WindowInv, LedgerInv',
           UNCHANGED <<entries, seen, now>>,
           \A k \in DOMAIN disk : k \in DOMAIN disk',
           \A c \in Callers : call'[c].pc = "evict" => call'[c] = call[c]
    PROVE  WindowInv'
<1>1. TimesPast'
  BY DEF WindowInv, TimesPast
<1>2. Remembered'
  BY DEF WindowInv, Remembered
<1>3. QED
  BY <1>1, <1>2 DEF WindowInv

LEMMA WindowEvict ==
    ASSUME WindowInv, LedgerInv', NEW c \in Callers, Evict(c)
    PROVE  WindowInv'
<1>1. PICK k \in Oldest(Evictable(call[c].at)) :
          /\ disk' = Without(disk, k) \/ disk' = disk
          /\ entries' = Without(entries, k)
  BY DEF Evict
<1>2. TypeOK
  BY DEF WindowInv, LedgerInv
<1>3. /\ k \in DOMAIN entries
      /\ ~(call[c].at - entries[k].lastAccess <= TTL)
  BY DEF Oldest, Evictable, Protected
<1>4. /\ call[c].at <= now /\ now' = now /\ seen' = seen /\ call' = call
      /\ call[c].at \in Int /\ now \in Int /\ entries[k].lastAccess \in Int
  BY <1>2, <1>3, CallFields, EntryFields DEF Evict, WindowInv, TimesPast, TypeOK
<1>5. /\ DOMAIN entries' = DOMAIN entries \ {k}
      /\ \A x \in DOMAIN entries' : entries'[x] = entries[x]
      /\ \A x \in DOMAIN disk : x # k => x \in DOMAIN disk'
  BY <1>1 DEF Without
<1>6. TimesPast'
  BY <1>4, <1>5 DEF WindowInv, TimesPast
<1>7. Remembered'
  <2> SUFFICES ASSUME NEW j \in DOMAIN seen
               PROVE  /\ seen[j] <= now
                      /\ j \in DOMAIN entries' => seen[j] <= entries'[j].lastAccess
                      /\ j \notin DOMAIN disk' => now - seen[j] > TTL
    BY <1>4 DEF Remembered
  <2>1. /\ seen[j] <= now
        /\ j \in DOMAIN entries => seen[j] <= entries[j].lastAccess
        /\ j \notin DOMAIN disk => now - seen[j] > TTL
    BY DEF WindowInv, Remembered
  <2>2. CASE j = k
    <3>1. seen[k] \in Int /\ seen[k] <= entries[k].lastAccess
      BY <1>2, <1>3, <2>1, <2>2, SeenTime
    <3>2. now - seen[k] > TTL
      BY <1>3, <1>4, <3>1, LimitAssumption
    <3>3. QED
      BY <1>5, <2>1, <2>2, <3>2
  <2>3. CASE j # k
    BY <1>5, <2>1, <2>3
  <2>4. QED
    BY <2>2, <2>3
<1>8. QED
  BY <1>6, <1>7 DEF WindowInv

LEMMA WindowNext == WindowInv /\ [Next]_vars => WindowInv'
<1> SUFFICES ASSUME WindowInv, [Next]_vars PROVE WindowInv'
  OBVIOUS
<1>0. TypeOK /\ LedgerInv /\ LedgerInv' /\ now \in Int
  BY LedgerNext DEF WindowInv, LedgerInv, TypeOK
<1>1. ASSUME NEW c \in Callers, NEW k \in Keys, NEW s \in Sizes, StoreStat(c, k, s)
      PROVE  WindowInv'
  <2>1. \A d \in Callers : call'[d].pc = "evict" => call'[d] = call[d]
    BY <1>0, <1>1 DEF StoreStat, TypeOK
  <2>2. QED
    BY <1>0, <1>1, <2>1, WindowStill DEF StoreStat
<1>2. ASSUME NEW c \in Callers, StoreEnter(c) PROVE WindowInv'
  <2>1. call[c] \in Call
    BY <1>0, <1>2, CallFields DEF StoreEnter
  <2>2. /\ call'[c].at = now
        /\ \A d \in Callers : d # c => call'[d] = call[d]
    BY <1>0, <1>2, <2>1 DEF StoreEnter, TypeOK, Call
  <2>3. TimesPast'
    <3>1. entries' = entries /\ now' = now /\ now <= now
      BY <1>0, <1>2 DEF StoreEnter
    <3>2. \A d \in Callers : call'[d].pc = "evict" => call'[d].at <= now
      BY <2>2, <3>1 DEF WindowInv, TimesPast
    <3>3. QED
      BY <3>1, <3>2 DEF WindowInv, TimesPast
  <2>4. Remembered'
    BY <1>2 DEF StoreEnter, WindowInv, Remembered
  <2>5. QED
    BY <1>0, <2>3, <2>4 DEF WindowInv
<1>3. ASSUME NEW c \in Callers, call' = [call EXCEPT ![c] = Idle],
             UNCHANGED <<entries, disk, seen, now>>
      PROVE  WindowInv'
  <2>1. \A d \in Callers : call'[d].pc = "evict" => call'[d] = call[d]
    BY <1>0, <1>3 DEF TypeOK, Idle
  <2>2. QED
    BY <1>0, <1>3, <2>1, WindowStill
<1>4. ASSUME NEW c \in Callers, Evict(c) PROVE WindowInv'
  BY <1>0, <1>4, WindowEvict
<1>5. ASSUME NEW c \in Callers, StoreRename(c) PROVE WindowInv'
  <2>1. call[c] \in Call
    BY <1>0, <1>5, CallFields DEF StoreRename
  <2>2. \A d \in Callers : call'[d].pc = "evict" => call'[d] = call[d]
    BY <1>0, <1>5, <2>1 DEF StoreRename, TypeOK, Call
  <2>3. \A k \in DOMAIN disk : k \in DOMAIN disk'
    BY <1>5 DEF StoreRename, Put
  <2>4. QED
    BY <1>0, <1>5, <2>2, <2>3, WindowStill DEF StoreRename
<1>6. ASSUME NEW c \in Callers, StoreRegister(c) PROVE WindowInv'
  <2> DEFINE key == call[c].key
  <2>1. /\ DOMAIN entries' = DOMAIN entries \cup {key}
        /\ entries'[key].lastAccess = now
        /\ \A x \in DOMAIN entries : x # key => entries'[x] = entries[x]
    BY <1>6 DEF StoreRegister, Put
  <2>2. \A d \in Callers : call'[d].pc = "evict" => call'[d] = call[d]
    BY <1>0, <1>6 DEF StoreRegister, TypeOK, Idle
  <2>3. TimesPast'
    BY <1>0, <1>6, <2>1, <2>2 DEF StoreRegister, WindowInv, TimesPast
  <2>4. /\ DOMAIN seen' = DOMAIN seen \cup {key}
        /\ seen'[key] = now
        /\ \A x \in DOMAIN seen : x # key => seen'[x] = seen[x]
    BY <1>6 DEF StoreRegister, Put
  <2>5. key \in DOMAIN disk /\ disk' = disk /\ now' = now
    BY <1>0, <1>6 DEF LedgerInv, RoomMade, StoreRegister
  <2>6. Remembered'
    BY <1>0, <2>1, <2>4, <2>5 DEF WindowInv, Remembered
  <2>7. QED
    BY <1>0, <2>3, <2>6 DEF WindowInv
<1>7. ASSUME NEW k \in Keys, Lookup(k) PROVE WindowInv'
  <2>1. k \in DOMAIN entries /\ entries[k] \in Entry
    BY <1>0, <1>7, EntryFields DEF Lookup
  <2>2. /\ DOMAIN entries' = DOMAIN entries
        /\ entries'[k].lastAccess = now
        /\ \A x \in DOMAIN entries : x # k => entries'[x] = entries[x]
    BY <1>7, <2>1 DEF Lookup, Refreshed, Entry
  <2>3. /\ DOMAIN seen' = DOMAIN seen \cup {k}
        /\ seen'[k] = now
        /\ \A x \in DOMAIN seen : x # k => seen'[x] = seen[x]
    BY <1>7 DEF Lookup, Put
  <2>4. k \in DOMAIN disk /\ disk' = disk /\ now' = now /\ call' = call
    BY <1>0, <1>7, <2>1 DEF LedgerInv, EntryBacked, Lookup
  <2>5. TimesPast'
    BY <1>0, <2>2, <2>4 DEF WindowInv, TimesPast
  <2>6. Remembered'
    BY <1>0, <2>2, <2>3, <2>4 DEF WindowInv, Remembered
  <2>7. QED
    BY <1>0, <2>5, <2>6 DEF WindowInv
<1>8. CASE Tick
  <2>1. /\ now' = now + 1
        /\ UNCHANGED <<entries, call, disk, seen>>
    BY <1>8 DEF Tick
  <2>2. TimesPast'
    <3>1. \A k \in DOMAIN entries : entries[k].lastAccess <= now + 1
      BY <1>0, EntryFields DEF WindowInv, TimesPast
    <3>2. \A c \in Callers : call[c].pc = "evict" => call[c].at <= now + 1
      BY <1>0, CallFields DEF WindowInv, TimesPast
    <3>3. QED
      BY <2>1, <3>1, <3>2 DEF TimesPast
  <2>3. Remembered'
    <3>1. \A k \in DOMAIN seen : seen[k] \in Int
      BY <1>0, SeenTime
    <3>2. QED
      BY <1>0, <2>1, <3>1, LimitAssumption DEF WindowInv, Remembered
  <2>4. QED
    BY <1>0, <2>2, <2>3 DEF WindowInv
<1>9. CASE Restart
  <2>1. DOMAIN entries' = {}
    BY <1>9, EmptyMap DEF Restart
  <2>2. \A c \in Callers : call'[c].pc = "idle"
    BY <1>9 DEF Restart, Idle
  <2>3. QED
    BY <1>0, <1>9, <2>1, <2>2 DEF Restart, WindowInv, TimesPast, Remembered
<1>10. CASE UNCHANGED vars
  BY <1>0, <1>10, WindowStill DEF vars
<1>11. QED
  BY <1>1, <1>2, <1>3, <1>4, <1>5, <1>6, <1>7, <1>8, <1>9, <1>10
     DEF Next, StoreStep, StoreTooLarge, StoreNoSpace, StoreRenameFails

\* A file stays on disk for the window after the last access the cache was
\* told of, for every window length and whatever is evicted, replaced or
\* restarted.
THEOREM WindowKept == Spec => []RecentStays
<1>1. WindowInv => RecentStays
  <2> SUFFICES ASSUME WindowInv, NEW k \in DOMAIN seen, now - seen[k] <= TTL
               PROVE  k \in DOMAIN disk
    BY DEF RecentStays
  <2>1. now \in Int /\ seen[k] \in Int
    BY SeenTime DEF WindowInv, LedgerInv, TypeOK
  <2>2. QED
    BY <2>1, LimitAssumption DEF WindowInv, Remembered
<1>2. QED
  BY WindowInit, WindowNext, <1>1, PTL DEF Spec
=============================================================================
