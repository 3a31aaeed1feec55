-------------------------- MODULE Passthrough_proofs --------------------------
(***************************************************************************)
(* Proofs about playing as it is, for files, blocks, windows and ranges of *)
(* any size: what a viewer is sent (BodyExact, BodyComplete), and the gate *)
(* (GateBounded).                                                          *)
(*                                                                         *)
(* What was sent is the stretch from the first byte asked for up to the    *)
(* window, and what is being read the stretch from the block boundary      *)
(* below it up to the next block (StreamOK); once answered, there is the   *)
(* first stretch only (AnswerOK).                                          *)
(***************************************************************************)
EXTENDS Passthrough, FiniteSetTheorems, SequenceTheorems, TLAPS

-----------------------------------------------------------------------------
(* Stretches of bytes.                                                     *)

LEMMA BytesShape ==
    ASSUME NEW a \in Int, NEW b \in Int, a <= b
    PROVE  /\ Bytes(a, b) \in Seq(Int)
           /\ Len(Bytes(a, b)) = b - a
           /\ \A i \in 1 .. b - a : Bytes(a, b)[i] = a + i - 1
BY DEF Bytes

LEMMA BytesEmpty == ASSUME NEW a \in Int PROVE Bytes(a, a) = <<>>
<1>1. Bytes(a, a) \in Seq(Int) /\ Len(Bytes(a, a)) = 0
  BY BytesShape
<1> QED
  BY <1>1, EmptySeq

\* Two adjacent stretches make one.
LEMMA BytesConcat ==
    ASSUME NEW a \in Int, NEW b \in Int, NEW c \in Int, a <= b, b <= c
    PROVE  Bytes(a, b) \o Bytes(b, c) = Bytes(a, c)
<1> DEFINE s == Bytes(a, b)
           t == Bytes(b, c)
           u == Bytes(a, c)
<1>1. s \in Seq(Int) /\ Len(s) = b - a /\ \A i \in 1 .. b - a : s[i] = a + i - 1
  BY BytesShape
<1>2. t \in Seq(Int) /\ Len(t) = c - b /\ \A i \in 1 .. c - b : t[i] = b + i - 1
  BY BytesShape
<1>3. a <= c
  OBVIOUS
<1>4. u \in Seq(Int) /\ Len(u) = c - a /\ \A i \in 1 .. c - a : u[i] = a + i - 1
  BY <1>3, BytesShape
<1> HIDE DEF s, t, u
<1>5. /\ s \o t \in Seq(Int)
      /\ Len(s \o t) = Len(s) + Len(t)
      /\ \A i \in 1 .. Len(s) + Len(t) :
            (s \o t)[i] = IF i <= Len(s) THEN s[i] ELSE t[i - Len(s)]
  BY <1>1, <1>2, ConcatProperties
<1>6. Len(s \o t) = c - a
  BY <1>1, <1>2, <1>5
<1>7. ASSUME NEW i \in 1 .. c - a PROVE (s \o t)[i] = u[i]
  <2>1. (s \o t)[i] = IF i <= b - a THEN s[i] ELSE t[i - (b - a)]
    BY <1>1, <1>2, <1>5
  <2>2. i \in Int /\ u[i] = a + i - 1
    BY <1>4
  <2>3. CASE i <= b - a
    <3>1. i \in 1 .. b - a
      BY <2>2, <2>3
    <3>2. s[i] = a + i - 1
      BY <1>1, <3>1
    <3> QED
      BY <2>1, <2>2, <2>3, <3>2
  <2>4. CASE ~(i <= b - a)
    <3> DEFINE j == i - (b - a)
    <3>1. j \in 1 .. c - b
      BY <2>4
    <3>2. t[j] = b + j - 1
      BY <1>2, <3>1
    <3>3. b + j - 1 = a + i - 1
      BY <2>2
    <3> QED
      BY <2>1, <2>2, <2>4, <3>2, <3>3
  <2> QED
    BY <2>3, <2>4
<1>8. s \o t = u
  BY <1>4, <1>5, <1>6, <1>7, SeqEqual
<1> QED
  BY <1>8 DEF s, t, u

\* A part of a stretch is the stretch between its ends.
LEMMA BytesSub ==
    ASSUME NEW a \in Int, NEW b \in Int, NEW c \in Int, NEW d \in Int,
           a <= b, b <= c, c <= d
    PROVE  SubSeq(Bytes(a, d), b - a + 1, c - a) = Bytes(b, c)
<1> DEFINE s == Bytes(a, d)
           t == Bytes(b, c)
           m == b - a + 1
           n == c - a
<1>1. a <= d
  OBVIOUS
<1>2. s \in Seq(Int) /\ Len(s) = d - a /\ \A i \in 1 .. d - a : s[i] = a + i - 1
  BY <1>1, BytesShape
<1>3. t \in Seq(Int) /\ Len(t) = c - b /\ \A i \in 1 .. c - b : t[i] = b + i - 1
  BY BytesShape
<1>4. m \in Int /\ n \in Int /\ n - m + 1 = c - b /\ m >= 1 /\ n <= d - a
  OBVIOUS
<1>5. \A i \in m .. n : i \in 1 .. d - a
  BY <1>4
<1> HIDE DEF s, t, m, n
<1>6. \A i \in m .. n : s[i] \in Int
  BY <1>2, <1>5
<1>7. /\ SubSeq(s, m, n) \in Seq(Int)
      /\ Len(SubSeq(s, m, n)) = IF m <= n THEN n - m + 1 ELSE 0
      /\ \A i \in 1 .. n - m + 1 : SubSeq(s, m, n)[i] = s[m + i - 1]
  BY <1>4, <1>6, SubSeqProperties
<1>8. Len(SubSeq(s, m, n)) = c - b
  BY <1>4, <1>7
<1>9. ASSUME NEW i \in 1 .. c - b PROVE SubSeq(s, m, n)[i] = t[i]
  <2> DEFINE j == m + i - 1
  <2>1. j \in 1 .. d - a
    BY <1>4
  <2>2. s[j] = a + j - 1
    BY <1>2, <2>1
  <2>3. SubSeq(s, m, n)[i] = s[j]
    BY <1>4, <1>7
  <2>4. a + j - 1 = b + i - 1
    BY <1>4 DEF m
  <2>5. t[i] = b + i - 1
    BY <1>3
  <2> QED
    BY <2>2, <2>3, <2>4, <2>5
<1>10. SubSeq(s, m, n) = t
  BY <1>3, <1>7, <1>8, <1>9, SeqEqual
<1> QED
  BY <1>10 DEF s, t, m, n

\* A block boundary is less than a block below.
LEMMA AlignedBelow ==
    ASSUME NEW x \in Int
    PROVE  Aligned(x) \in Int /\ Aligned(x) <= x /\ x < Aligned(x) + Chunk
BY BlocksAssumption DEF Aligned

-----------------------------------------------------------------------------
(* Ranges.                                                                 *)

\* An accepted range lies in the file, and has a byte if the file has one.
InFile(r, n) ==
    /\ r.start \in Int /\ r.end \in Int
    /\ 0 <= r.start /\ r.end < n
    /\ n > 0 => r.start <= r.end
    /\ n = 0 => r.start = 0 /\ r.end = -1

LEMMA HeaderKinds ==
    ASSUME NEW h \in Headers
    PROVE  /\ h.kind \in {"none", "malformed", "from", "between", "last"}
           /\ h.kind = "none" => h = NoHeader
           /\ h.kind = "from" => h.a \in Nat
           /\ h.kind = "between" => h.a \in Nat /\ h.b \in Nat
           /\ h.kind = "last" => h.n \in Int
BY HeadersAssumption DEF HeaderForms, NoHeader, Malformed

LEMMA ParseShape ==
    ASSUME NEW h \in Headers, NEW n \in Nat
    PROVE  /\ ParseRange(h, n).ok \in BOOLEAN
           /\ ParseRange(h, n).ok => InFile(ParseRange(h, n), n)
<1>1. CASE h.kind = "none"
  <2>1. ParseRange(h, n) = Accepted(0, n - 1)
    BY <1>1 DEF ParseRange
  <2> QED
    BY <2>1 DEF Accepted, InFile
<1>2. CASE h.kind = "malformed"
  <2>1. ParseRange(h, n) = Refused
    BY <1>2 DEF ParseRange
  <2> QED
    BY <2>1 DEF Refused
<1>3. CASE h.kind = "from"
  <2>1. ParseRange(h, n) = IF h.a >= n THEN Refused ELSE Accepted(h.a, n - 1)
    BY <1>3 DEF ParseRange
  <2> QED
    BY <1>3, <2>1, HeaderKinds DEF Refused, Accepted, InFile
<1>4. CASE h.kind = "between"
  <2>1. ParseRange(h, n) =
          IF h.a >= n \/ h.b < h.a THEN Refused ELSE Accepted(h.a, Min2(h.b, n - 1))
    BY <1>4 DEF ParseRange
  <2> QED
    BY <1>4, <2>1, HeaderKinds DEF Refused, Accepted, InFile, Min2
<1>5. CASE h.kind = "last"
  <2>1. ParseRange(h, n) =
          IF h.n <= 0 THEN Refused ELSE Accepted(n - Min2(h.n, n), n - 1)
    BY <1>5 DEF ParseRange
  <2> QED
    BY <1>5, <2>1, HeaderKinds DEF Refused, Accepted, InFile, Min2
<1> QED
  BY <1>1, <1>2, <1>3, <1>4, <1>5, HeaderKinds

\* What the header asks for is the range it was parsed as; refused ones ask for
\* nothing.
LEMMA ParseExact ==
    ASSUME total \in Nat, NEW h \in Headers
    PROVE  Asked(h) = IF ParseRange(h, total).ok
                      THEN ParseRange(h, total).start .. ParseRange(h, total).end
                      ELSE {}
<1>1. CASE h.kind = "none"
  <2>1. ParseRange(h, total) = Accepted(0, total - 1) /\ Asked(h) = 0 .. total - 1
    BY <1>1 DEF ParseRange, Asked
  <2> QED
    BY <2>1 DEF Accepted
<1>2. CASE h.kind = "malformed"
  <2>1. ParseRange(h, total) = Refused /\ Asked(h) = {}
    BY <1>2 DEF ParseRange, Asked
  <2> QED
    BY <2>1 DEF Refused
<1>3. CASE h.kind = "from"
  <2>1. /\ ParseRange(h, total) = IF h.a >= total THEN Refused ELSE Accepted(h.a, total - 1)
        /\ Asked(h) = {i \in 0 .. total - 1 : i >= h.a}
        /\ h.a \in Nat
    BY <1>3, HeaderKinds DEF ParseRange, Asked
  <2> QED
    BY <2>1 DEF Refused, Accepted
<1>4. CASE h.kind = "between"
  <2>1. /\ ParseRange(h, total) =
             IF h.a >= total \/ h.b < h.a THEN Refused ELSE Accepted(h.a, Min2(h.b, total - 1))
        /\ Asked(h) = {i \in 0 .. total - 1 : h.a <= i /\ i <= h.b}
        /\ h.a \in Nat /\ h.b \in Nat
    BY <1>4, HeaderKinds DEF ParseRange, Asked
  <2> QED
    BY <2>1 DEF Refused, Accepted, Min2
<1>5. CASE h.kind = "last"
  <2>1. /\ ParseRange(h, total) =
             IF h.n <= 0 THEN Refused ELSE Accepted(total - Min2(h.n, total), total - 1)
        /\ Asked(h) = {i \in 0 .. total - 1 : i >= total - h.n}
        /\ h.n \in Int
    BY <1>5, HeaderKinds DEF ParseRange, Asked
  <2> QED
    BY <2>1 DEF Refused, Accepted, Min2
<1> QED
  BY <1>1, <1>2, <1>3, <1>4, <1>5, HeaderKinds

-----------------------------------------------------------------------------
(* The inductive invariant: of one browser's request, n being the length   *)
(* the catalog has and z the file's ...                                    *)

StreamOK(s, n, z) ==
    /\ s \in Streams
    /\ ParseRange(s.header, n).ok
    /\ s.end = ParseRange(s.header, n).end
    /\ ParseRange(s.header, n).start <= s.pos /\ s.pos <= s.end
    /\ s.body = Bytes(ParseRange(s.header, n).start, s.pos)
    /\ s.pc \in {"block", "fetching"} =>
          /\ s.pos < s.upto /\ s.upto <= s.end + 1 /\ s.upto <= z
          /\ Aligned(s.pos) <= s.at /\ s.at < s.upto
          /\ s.buf = Bytes(Aligned(s.pos), s.at)
    /\ s.pc \in {"resolve", "resolving"} => s.buf = <<>>
    /\ s.pc = "write" =>
          s.pos < s.upto /\ s.upto <= s.end + 1 /\ s.buf = Bytes(s.pos, s.upto)

AnswerOK(r, n) ==
    /\ r \in Answers
    /\ IF ParseRange(r.header, n).ok
       THEN /\ r.status = Status(r.header) \/ (n = 0 /\ r.status = 200)
            /\ \E e \in Int :
                  /\ ParseRange(r.header, n).start <= e
                  /\ e <= ParseRange(r.header, n).end + 1
                  /\ r.body = Bytes(ParseRange(r.header, n).start, e)
                  /\ r.whole => e = ParseRange(r.header, n).end + 1
       ELSE r.status = 416 /\ r.body = <<>> /\ r.whole

RequestOK(v, n, z) == v = Idle \/ AnswerOK(v, n) \/ StreamOK(v, n, z)

\* ... and of the whole.
PlayersOK ==
    /\ player = [p \in Players |-> player[p]]
    /\ \A p \in Players : RequestOK(player[p], total, size)

GateOK ==
    /\ total \in Nat /\ total \in Sizes
    /\ size \in Nat /\ size \in Sizes
    /\ ready \in BOOLEAN
    /\ sem \in Nat
    /\ download \in [Downloads -> {"idle", "waiting", "running"}]
    /\ GateBounded

Inv == GateOK /\ PlayersOK

-----------------------------------------------------------------------------
(* What each step makes of a request.                                      *)

LEMMA StreamParts ==
    ASSUME NEW n \in Nat, NEW z \in Nat, NEW s, StreamOK(s, n, z)
    PROVE  /\ s.pc \in Stages
           /\ s.header \in Headers /\ s.end \in Int /\ s.pos \in Int
           /\ s.upto \in Int /\ s.at \in Int
           /\ InFile(ParseRange(s.header, n), n)
<1>1. s \in Streams /\ ParseRange(s.header, n).ok
  BY DEF StreamOK
<1>2. s.header \in Headers
  BY <1>1 DEF Streams
<1> QED
  BY <1>1, <1>2, ParseShape DEF Streams

LEMMA NewRequestOK ==
    ASSUME NEW n \in Nat, NEW z \in Nat, NEW h \in Headers, ParseRange(h, n).ok, n # 0
    PROVE  RequestOK([pc |-> "resolve", header |-> h, end |-> ParseRange(h, n).end,
                      pos |-> ParseRange(h, n).start, upto |-> 0, at |-> 0,
                      buf |-> <<>>, body |-> <<>>], n, z)
<1> DEFINE v == [pc |-> "resolve", header |-> h, end |-> ParseRange(h, n).end,
                 pos |-> ParseRange(h, n).start, upto |-> 0, at |-> 0,
                 buf |-> <<>>, body |-> <<>>]
<1>1. InFile(ParseRange(h, n), n)
  BY ParseShape
<1>2. ParseRange(h, n).start \in Int /\ ParseRange(h, n).end \in Int
      /\ ParseRange(h, n).start <= ParseRange(h, n).end
  BY <1>1 DEF InFile
<1>3. Bytes(ParseRange(h, n).start, ParseRange(h, n).start) = <<>>
  BY <1>2, BytesEmpty
<1>4. v \in Streams
  BY <1>2 DEF Streams, Stages, Waiting, InCall
<1>5. v.pc = "resolve" /\ v.header = h /\ v.end = ParseRange(h, n).end
      /\ v.pos = ParseRange(h, n).start /\ v.body = <<>> /\ v.buf = <<>>
  OBVIOUS
<1> HIDE DEF v
<1>6. StreamOK(v, n, z)
  BY <1>2, <1>3, <1>4, <1>5 DEF StreamOK
<1>7. RequestOK(v, n, z)
  BY <1>6 DEF RequestOK
<1> QED
  BY <1>7 DEF v

\* An answer that sent the stretch from the first byte asked for up to e.
LEMMA AnswerUpTo ==
    ASSUME NEW n \in Nat, NEW z \in Nat, NEW h \in Headers, ParseRange(h, n).ok,
           NEW e \in Int, NEW whole \in {TRUE, FALSE},
           ParseRange(h, n).start <= e, e <= ParseRange(h, n).end + 1,
           whole => e = ParseRange(h, n).end + 1
    PROVE  RequestOK(Answered(h, Status(h), Bytes(ParseRange(h, n).start, e), whole), n, z)
<1> DEFINE v == Answered(h, Status(h), Bytes(ParseRange(h, n).start, e), whole)
<1>1. ParseRange(h, n).start \in Int
  BY ParseShape DEF InFile
<1>2. Bytes(ParseRange(h, n).start, e) \in Seq(Int)
  BY <1>1, BytesShape
<1>3. v \in Answers
  BY <1>2 DEF Answers, Answered, Status
<1>4. v.header = h /\ v.status = Status(h) /\ v.whole = whole
      /\ v.body = Bytes(ParseRange(h, n).start, e)
  BY DEF Answered
<1> HIDE DEF v
<1>5. AnswerOK(v, n)
  BY <1>3, <1>4 DEF AnswerOK
<1>6. RequestOK(v, n, z)
  BY <1>5 DEF RequestOK
<1> QED
  BY <1>6 DEF v

\* 416.
LEMMA RefusedOK ==
    ASSUME NEW n \in Nat, NEW z \in Nat, NEW h \in Headers, ~ParseRange(h, n).ok
    PROVE  RequestOK(Answered(h, 416, <<>>, TRUE), n, z)
BY DEF RequestOK, AnswerOK, Answered, Answers

\* What was written so far may be where the answer ends.
LEMMA BrokenOffOK ==
    ASSUME NEW n \in Nat, NEW z \in Nat, NEW s, StreamOK(s, n, z)
    PROVE  RequestOK(Answered(s.header, Status(s.header), s.body, FALSE), n, z)
<1>1. s.header \in Headers /\ s.pos \in Int /\ s.end \in Int
  BY StreamParts
<1>2. /\ ParseRange(s.header, n).ok
      /\ s.end = ParseRange(s.header, n).end
      /\ ParseRange(s.header, n).start <= s.pos
      /\ s.pos <= ParseRange(s.header, n).end + 1
      /\ s.body = Bytes(ParseRange(s.header, n).start, s.pos)
  BY <1>1 DEF StreamOK
<1>3. FALSE \in {TRUE, FALSE} /\ (FALSE => s.pos = ParseRange(s.header, n).end + 1)
  OBVIOUS
<1>4. RequestOK(Answered(s.header, Status(s.header),
                         Bytes(ParseRange(s.header, n).start, s.pos), FALSE), n, z)
  BY <1>1, <1>2, <1>3, AnswerUpTo, Zenon
<1> QED
  BY <1>2, <1>4

\* A file of no bytes: the answer is the empty stretch.
LEMMA EmptyOK ==
    ASSUME NEW z \in Nat, NEW h \in Headers, ParseRange(h, 0).ok
    PROVE  RequestOK(Answered(h, 200, <<>>, TRUE), 0, z)
<1>1. InFile(ParseRange(h, 0), 0)
  BY ParseShape
<1>2. ParseRange(h, 0).start = 0 /\ ParseRange(h, 0).end = -1
  BY <1>1 DEF InFile
<1>3. Bytes(0, 0) = <<>>
  BY BytesEmpty
<1> DEFINE v == Answered(h, 200, <<>>, TRUE)
<1>4. v \in Answers /\ v.header = h /\ v.status = 200 /\ v.whole = TRUE /\ v.body = <<>>
  BY DEF Answered, Answers
<1> HIDE DEF v
<1>5. AnswerOK(v, 0)
  BY <1>2, <1>3, <1>4 DEF AnswerOK
<1>6. RequestOK(v, 0, z)
  BY <1>5 DEF RequestOK
<1> QED
  BY <1>6 DEF v

\* Entering the gate changes the stage only.
LEMMA EnteredOK ==
    ASSUME NEW n \in Nat, NEW z \in Nat, NEW s, StreamOK(s, n, z), s.pc \in Waiting
    PROVE  RequestOK([s EXCEPT !.pc = IF @ = "resolve" THEN "resolving" ELSE "fetching"], n, z)
<1> DEFINE v == [s EXCEPT !.pc = IF @ = "resolve" THEN "resolving" ELSE "fetching"]
<1>1. s \in Streams
  BY DEF StreamOK
<1>2. v \in Streams
  BY <1>1 DEF Streams, Stages, Waiting, InCall
<1>3. /\ v.header = s.header /\ v.end = s.end /\ v.pos = s.pos /\ v.upto = s.upto
      /\ v.at = s.at /\ v.buf = s.buf /\ v.body = s.body
      /\ v.pc \in {"block", "fetching"} => s.pc \in {"block", "fetching"}
      /\ v.pc \in {"resolve", "resolving"} => s.pc \in {"resolve", "resolving"}
      /\ v.pc # "write"
  BY <1>1 DEF Streams, Stages, Waiting
<1> HIDE DEF v
<1>4. StreamOK(v, n, z)
  BY <1>2, <1>3 DEF StreamOK
<1>5. RequestOK(v, n, z)
  BY <1>4 DEF RequestOK
<1> QED
  BY <1>5 DEF v

\* The first block of a window: nothing is read yet.
LEMMA ResolvedOK ==
    ASSUME NEW n \in Nat, NEW z \in Nat, NEW s, StreamOK(s, n, z),
           s.pc = "resolving", ~(s.pos >= z)
    PROVE  RequestOK([s EXCEPT !.pc = "block", !.upto = Min2(WindowEnd(s), z),
                               !.at = Aligned(s.pos)], n, z)
<1> DEFINE v == [s EXCEPT !.pc = "block", !.upto = Min2(WindowEnd(s), z),
                          !.at = Aligned(s.pos)]
<1>1. s \in Streams /\ s.pos \in Int /\ s.end \in Int /\ s.pos <= s.end
  BY StreamParts DEF StreamOK
<1>2. Aligned(s.pos) \in Int /\ Aligned(s.pos) <= s.pos
  BY <1>1, AlignedBelow
<1>3. /\ Min2(WindowEnd(s), z) \in Int /\ s.pos < Min2(WindowEnd(s), z)
      /\ Min2(WindowEnd(s), z) <= s.end + 1 /\ Min2(WindowEnd(s), z) <= z
  BY <1>1, BlocksAssumption DEF Min2, WindowEnd
<1>4. Bytes(Aligned(s.pos), Aligned(s.pos)) = <<>>
  BY <1>2, BytesEmpty
<1>5. v \in Streams
  BY <1>1, <1>2, <1>3 DEF Streams, Stages, Waiting
<1>6. /\ v.header = s.header /\ v.end = s.end /\ v.pos = s.pos
      /\ v.upto = Min2(WindowEnd(s), z) /\ v.at = Aligned(s.pos)
      /\ v.buf = <<>> /\ v.body = s.body /\ v.pc = "block"
  BY <1>1 DEF Streams, StreamOK
<1> HIDE DEF v
<1>7. StreamOK(v, n, z)
  BY <1>1, <1>2, <1>3, <1>4, <1>5, <1>6 DEF StreamOK
<1>8. RequestOK(v, n, z)
  BY <1>7 DEF RequestOK
<1> QED
  BY <1>8 DEF v

-----------------------------------------------------------------------------
(* A block arrives.                                                        *)

\* With it, the blocks read reach from the boundary to the block's end.
LEMMA BlocksJoin ==
    ASSUME NEW n \in Nat, NEW z \in Nat, NEW s, StreamOK(s, n, z), s.pc = "fetching"
    PROVE  /\ Aligned(s.pos) \in Int /\ Aligned(s.pos) <= s.pos
           /\ Min2(s.at + Chunk, z) \in Int
           /\ s.at < Min2(s.at + Chunk, z)
           /\ s.buf \o Bytes(s.at, Min2(s.at + Chunk, z))
                = Bytes(Aligned(s.pos), Min2(s.at + Chunk, z))
<1>1. s.pos \in Int /\ s.at \in Int /\ s.upto \in Int
  BY StreamParts
<1>2. /\ s.upto <= z /\ Aligned(s.pos) <= s.at /\ s.at < s.upto
      /\ s.buf = Bytes(Aligned(s.pos), s.at)
  BY DEF StreamOK
<1>3. Aligned(s.pos) \in Int /\ Aligned(s.pos) <= s.pos
  BY <1>1, AlignedBelow
<1>4. Min2(s.at + Chunk, z) \in Int /\ s.at < Min2(s.at + Chunk, z)
  BY <1>1, <1>2, BlocksAssumption DEF Min2
<1>5. s.at <= Min2(s.at + Chunk, z)
  BY <1>1, <1>4
<1>6. Bytes(Aligned(s.pos), s.at) \o Bytes(s.at, Min2(s.at + Chunk, z))
        = Bytes(Aligned(s.pos), Min2(s.at + Chunk, z))
  BY <1>1, <1>2, <1>3, <1>4, <1>5, BytesConcat
<1> QED
  BY <1>2, <1>3, <1>4, <1>6

\* Not the last one of the window.
LEMMA MiddleBlockOK ==
    ASSUME NEW n \in Nat, NEW z \in Nat, NEW s, StreamOK(s, n, z), s.pc = "fetching",
           s.at + Chunk < s.upto
    PROVE  RequestOK([s EXCEPT !.pc = "block", !.at = @ + Chunk,
                        !.buf = s.buf \o Bytes(s.at, Min2(s.at + Chunk, z))], n, z)
<1> DEFINE w == s.buf \o Bytes(s.at, Min2(s.at + Chunk, z))
           v == [s EXCEPT !.pc = "block", !.at = @ + Chunk, !.buf = w]
<1>1. s \in Streams /\ s.pos \in Int /\ s.at \in Int /\ s.upto \in Int
  BY StreamParts DEF StreamOK
<1>2. s.upto <= z /\ Aligned(s.pos) <= s.at
  BY DEF StreamOK
<1>3. Aligned(s.pos) \in Int
  BY BlocksJoin
<1>4. Min2(s.at + Chunk, z) = s.at + Chunk
  BY <1>1, <1>2, BlocksAssumption DEF Min2
<1>5. w = Bytes(Aligned(s.pos), s.at + Chunk)
  BY <1>4, BlocksJoin
<1>6. s.at + Chunk \in Int /\ Aligned(s.pos) <= s.at + Chunk
  BY <1>1, <1>2, <1>3, BlocksAssumption
<1>7. w \in Seq(Int)
  BY <1>3, <1>5, <1>6, BytesShape
<1> HIDE DEF w
<1>8. v \in Streams
  BY <1>1, <1>6, <1>7 DEF Streams, Stages, Waiting
<1>9. /\ v.header = s.header /\ v.end = s.end /\ v.pos = s.pos /\ v.upto = s.upto
      /\ v.at = s.at + Chunk /\ v.buf = w /\ v.body = s.body /\ v.pc = "block"
  BY <1>1 DEF Streams
<1> HIDE DEF v
<1>10. StreamOK(v, n, z)
  BY <1>5, <1>6, <1>8, <1>9 DEF StreamOK
<1>11. RequestOK(v, n, z)
  BY <1>10 DEF RequestOK
<1> QED
  BY <1>11 DEF v, w

\* The last one: what ReadRange returns is the window, whole.
LEMMA WindowRead ==
    ASSUME NEW n \in Nat, NEW z \in Nat, NEW s, StreamOK(s, n, z), s.pc = "fetching",
           ~(s.at + Chunk < s.upto)
    PROVE  /\ Trimmed(s, s.buf \o Bytes(s.at, Min2(s.at + Chunk, z))) = Bytes(s.pos, s.upto)
           /\ Bytes(s.pos, s.upto) # <<>>
<1> DEFINE a == Aligned(s.pos)
           d == Min2(s.at + Chunk, z)
           c == s.upto
           b == s.pos
<1>1. s \in Streams /\ b \in Int /\ s.at \in Int /\ c \in Int
  BY StreamParts DEF StreamOK
<1>2. b < c /\ c <= z /\ a <= s.at
  BY DEF StreamOK
<1>4. /\ a \in Int /\ a <= b /\ d \in Int
      /\ s.buf \o Bytes(s.at, d) = Bytes(a, d)
  BY BlocksJoin
<1>5. c <= d
  BY <1>1, <1>2, BlocksAssumption DEF Min2
<1>6. a <= d /\ b <= c
  BY <1>1, <1>2, <1>4, <1>5
<1>7. Len(Bytes(a, d)) = d - a
  BY <1>4, <1>6, BytesShape
<1>8. Trimmed(s, Bytes(a, d)) = SubSeq(Bytes(a, d), b - a + 1, Min2(c - a, d - a))
  BY <1>7 DEF Trimmed
<1>9. Min2(c - a, d - a) = c - a
  BY <1>1, <1>4, <1>5 DEF Min2
<1>10. SubSeq(Bytes(a, d), b - a + 1, c - a) = Bytes(b, c)
  BY <1>1, <1>4, <1>5, <1>6, BytesSub
<1>11. Trimmed(s, s.buf \o Bytes(s.at, d)) = Bytes(b, c)
  BY <1>4, <1>8, <1>9, <1>10
<1>12. Bytes(b, c) \in Seq(Int) /\ Len(Bytes(b, c)) = c - b
  BY <1>1, <1>6, BytesShape
<1>13. Bytes(b, c) # <<>>
  BY <1>1, <1>2, <1>12, EmptySeq
<1> QED
  BY <1>11, <1>13

\* It is what the viewer is to take next.
LEMMA WindowReadyOK ==
    ASSUME NEW n \in Nat, NEW z \in Nat, NEW s, StreamOK(s, n, z), s.pc = "fetching"
    PROVE  RequestOK([s EXCEPT !.pc = "write", !.buf = Bytes(s.pos, s.upto)], n, z)
<1> DEFINE w == Bytes(s.pos, s.upto)
           v == [s EXCEPT !.pc = "write", !.buf = w]
<1>1. s \in Streams /\ s.pos \in Int /\ s.upto \in Int
  BY StreamParts DEF StreamOK
<1>2. s.pos < s.upto /\ s.upto <= s.end + 1
  BY DEF StreamOK
<1>3. w \in Seq(Int)
  <2>1. s.pos <= s.upto
    BY <1>1, <1>2
  <2> QED
    BY <1>1, <2>1, BytesShape
<1>4. w = Bytes(s.pos, s.upto)
  OBVIOUS
<1> HIDE DEF w
<1>5. v \in Streams
  BY <1>1, <1>3 DEF Streams, Stages
<1>6. /\ v.header = s.header /\ v.end = s.end /\ v.pos = s.pos /\ v.upto = s.upto
      /\ v.buf = w /\ v.body = s.body /\ v.pc = "write"
  BY <1>1 DEF Streams
<1> HIDE DEF v
<1>7. StreamOK(v, n, z)
  BY <1>2, <1>4, <1>5, <1>6 DEF StreamOK
<1>8. RequestOK(v, n, z)
  BY <1>7 DEF RequestOK
<1> QED
  BY <1>4, <1>8 DEF v

-----------------------------------------------------------------------------
(* The window is written.                                                  *)

\* With as much of it as the viewer took, what was written reaches so much further.
LEMMA WindowJoins ==
    ASSUME NEW n \in Nat, NEW z \in Nat, NEW s, StreamOK(s, n, z), s.pc = "write"
    PROVE  /\ s.pos + Len(s.buf) = s.upto
           /\ s.body \o s.buf = Bytes(ParseRange(s.header, n).start, s.upto)
           /\ \A k \in 0 .. Len(s.buf) :
                 /\ s.pos + k \in Int /\ s.pos <= s.pos + k /\ s.pos + k <= s.upto
                 /\ s.body \o SubSeq(s.buf, 1, k)
                      = Bytes(ParseRange(s.header, n).start, s.pos + k)
<1> DEFINE f == ParseRange(s.header, n).start
           b == s.pos
           c == s.upto
<1>1. b \in Int /\ c \in Int
  BY StreamParts
<1>2. b < c /\ f <= b /\ s.body = Bytes(f, b) /\ s.buf = Bytes(b, c)
  BY DEF StreamOK
<1>3. f \in Int
  BY StreamParts DEF InFile
<1>4. b <= c
  BY <1>1, <1>2
<1>5. Len(Bytes(b, c)) = c - b
  BY <1>1, <1>4, BytesShape
<1>6. Bytes(f, b) \o Bytes(b, c) = Bytes(f, c)
  BY <1>1, <1>2, <1>3, <1>4, BytesConcat
<1>7. ASSUME NEW k \in 0 .. c - b
      PROVE  /\ b + k \in Int /\ b <= b + k /\ b + k <= c
             /\ Bytes(f, b) \o SubSeq(Bytes(b, c), 1, k) = Bytes(f, b + k)
  <2>1. b + k \in Int /\ b <= b + k /\ b + k <= c
    BY <1>1, <1>4
  <2>2. b <= b /\ b - b + 1 = 1 /\ (b + k) - b = k
    BY <1>1, <2>1
  <2>3. SubSeq(Bytes(b, c), b - b + 1, (b + k) - b) = Bytes(b, b + k)
    BY <1>1, <2>1, <2>2, BytesSub
  <2>4. Bytes(f, b) \o Bytes(b, b + k) = Bytes(f, b + k)
    BY <1>1, <1>2, <1>3, <2>1, BytesConcat
  <2> QED
    BY <2>1, <2>2, <2>3, <2>4
<1>8. b + Len(s.buf) = c
  BY <1>1, <1>2, <1>5
<1>9. Len(s.buf) = c - b
  BY <1>2, <1>5
<1> QED
  BY <1>2, <1>6, <1>7, <1>8, <1>9

\* A window taken in part.
LEMMA PartTakenOK ==
    ASSUME NEW n \in Nat, NEW z \in Nat, NEW s, StreamOK(s, n, z), s.pc = "write",
           NEW k \in 0 .. Len(s.buf)
    PROVE  RequestOK(Answered(s.header, Status(s.header),
                              s.body \o SubSeq(s.buf, 1, k), FALSE), n, z)
<1>1. s.header \in Headers /\ s.end \in Int /\ s.pos \in Int /\ s.upto \in Int
  BY StreamParts
<1>2. ParseRange(s.header, n).start \in Int /\ ParseRange(s.header, n).end \in Int
  BY StreamParts DEF InFile
<1>3. /\ ParseRange(s.header, n).ok
      /\ ParseRange(s.header, n).start <= s.pos
      /\ s.upto <= s.end + 1 /\ s.end = ParseRange(s.header, n).end
  BY DEF StreamOK
<1>4. /\ s.pos + k \in Int /\ s.pos <= s.pos + k /\ s.pos + k <= s.upto
      /\ s.body \o SubSeq(s.buf, 1, k) = Bytes(ParseRange(s.header, n).start, s.pos + k)
  BY WindowJoins
<1>5. /\ ParseRange(s.header, n).start <= s.pos + k
      /\ s.pos + k <= ParseRange(s.header, n).end + 1
  BY <1>1, <1>2, <1>3, <1>4
<1>6. FALSE \in {TRUE, FALSE} /\ (FALSE => s.pos + k = ParseRange(s.header, n).end + 1)
  OBVIOUS
<1>7. RequestOK(Answered(s.header, Status(s.header),
                         Bytes(ParseRange(s.header, n).start, s.pos + k), FALSE), n, z)
  BY <1>1, <1>3, <1>4, <1>5, <1>6, AnswerUpTo, Zenon
<1> QED
  BY <1>4, <1>7

\* After the last window the answer is whole.
LEMMA LastWindowOK ==
    ASSUME NEW n \in Nat, NEW z \in Nat, NEW s, StreamOK(s, n, z), s.pc = "write",
           s.upto > s.end
    PROVE  RequestOK(Answered(s.header, Status(s.header),
                              Bytes(ParseRange(s.header, n).start, s.upto), TRUE), n, z)
<1>1. s.header \in Headers /\ s.end \in Int /\ s.pos \in Int /\ s.upto \in Int
  BY StreamParts
<1>2. ParseRange(s.header, n).start \in Int /\ ParseRange(s.header, n).end \in Int
  BY StreamParts DEF InFile
<1>3. /\ ParseRange(s.header, n).ok
      /\ ParseRange(s.header, n).start <= s.pos /\ s.pos < s.upto
      /\ s.upto <= s.end + 1 /\ s.end = ParseRange(s.header, n).end
  BY DEF StreamOK
<1>4. /\ ParseRange(s.header, n).start <= s.upto
      /\ s.upto <= ParseRange(s.header, n).end + 1
      /\ s.upto = ParseRange(s.header, n).end + 1
  BY <1>1, <1>2, <1>3
<1>5. TRUE \in {TRUE, FALSE}
  OBVIOUS
<1> QED
  BY <1>1, <1>3, <1>4, <1>5, AnswerUpTo, Zenon

\* Before, the next window begins where it ended.
LEMMA NextWindowOK ==
    ASSUME NEW n \in Nat, NEW z \in Nat, NEW s, StreamOK(s, n, z), s.pc = "write",
           ~(s.upto > s.end)
    PROVE  RequestOK(NextWindow([s EXCEPT !.body =
                        Bytes(ParseRange(s.header, n).start, s.upto)], s.upto), n, z)
<1> DEFINE f == ParseRange(s.header, n).start
           v == NextWindow([s EXCEPT !.body = Bytes(f, s.upto)], s.upto)
<1>1. s \in Streams /\ s.end \in Int /\ s.pos \in Int /\ s.upto \in Int
  BY StreamParts DEF StreamOK
<1>2. f \in Int /\ f <= s.pos /\ s.pos < s.upto
  BY StreamParts DEF StreamOK, InFile
<1>3. f <= s.upto /\ s.upto <= s.end
  BY <1>1, <1>2
<1>4. Bytes(f, s.upto) \in Seq(Int)
  BY <1>1, <1>2, <1>3, BytesShape
<1> DEFINE u == [s EXCEPT !.body = Bytes(f, s.upto)]
<1>5. /\ u \in Streams /\ u.header = s.header /\ u.end = s.end
      /\ u.body = Bytes(f, s.upto)
  BY <1>1, <1>4 DEF Streams
<1> HIDE DEF u
<1>6. NextWindow(u, s.upto) \in Streams
  <2> DEFINE w == [u EXCEPT !.pc = "resolve", !.pos = s.upto, !.buf = <<>>]
  <2>1. <<>> \in Seq(Int)
    OBVIOUS
  <2>2. w \in Streams
    BY <1>1, <1>5, <2>1 DEF Streams, Stages, Waiting
  <2> QED
    BY <2>2 DEF NextWindow
<1>7. v = NextWindow(u, s.upto)
  BY DEF u
<1>8. /\ v.header = s.header /\ v.end = s.end /\ v.pos = s.upto
      /\ v.buf = <<>> /\ v.body = Bytes(f, s.upto) /\ v.pc = "resolve"
  BY <1>1, <1>7, <1>5 DEF Streams, NextWindow
<1> HIDE DEF v
<1>9. StreamOK(v, n, z)
  BY <1>3, <1>6, <1>7, <1>8 DEF StreamOK
<1>10. RequestOK(v, n, z)
  BY <1>9 DEF RequestOK
<1> QED
  BY <1>10 DEF v

-----------------------------------------------------------------------------
(* The whole.                                                              *)

LEMMA CallersFinite ==
    /\ IsFiniteSet(Callers) /\ Cardinality(Callers) \in Nat
    /\ IsFiniteSet(Running) /\ Cardinality(Running) \in Nat
<1>1. Callers \subseteq Players /\ Running \subseteq Downloads
  BY DEF Callers, Running
<1>2. IsFiniteSet(Callers) /\ IsFiniteSet(Running)
  BY <1>1, CallersAssumption, FS_Subset
<1> QED
  BY <1>2, FS_CardinalityType

\* One request changes.
LEMMA Replace ==
    ASSUME PlayersOK, NEW p \in Players, NEW v, RequestOK(v, total, size),
           player' = [player EXCEPT ![p] = v], total' = total, size' = size
    PROVE  PlayersOK'
<1>1. player' = [q \in Players |-> player'[q]]
  BY DEF PlayersOK
<1>2. ASSUME NEW q \in Players PROVE RequestOK(player'[q], total', size')
  <2>1. player'[q] = IF q = p THEN v ELSE player[q]
    BY DEF PlayersOK
  <2>2. RequestOK(player[q], total, size)
    BY DEF PlayersOK
  <2>3. RequestOK(player'[q], total, size)
    BY <2>1, <2>2
  <2> QED
    BY <2>3
<1> QED
  BY <1>1, <1>2 DEF PlayersOK

LEMMA CallersAfter ==
    ASSUME PlayersOK, NEW p \in Players, NEW v, player' = [player EXCEPT ![p] = v]
    PROVE  Callers' = IF v.pc \in InCall THEN Callers \cup {p} ELSE Callers \ {p}
<1>1. \A q \in Players : player'[q] = IF q = p THEN v ELSE player[q]
  BY DEF PlayersOK
<1> QED
  BY <1>1 DEF Callers

\* Taking a slot, giving it back, and neither.
LEMMA SlotTaken ==
    ASSUME GateOK, PlayersOK, NEW p \in Players, NEW v, v.pc \in InCall,
           player[p].pc \notin InCall, player' = [player EXCEPT ![p] = v],
           sem' = sem + 1, sem < Limit,
           UNCHANGED <<total, size, ready, download>>
    PROVE  GateOK'
<1>1. Callers' = Callers \cup {p} /\ p \notin Callers
  BY CallersAfter DEF Callers
<1>2. Cardinality(Callers \cup {p}) = Cardinality(Callers) + 1
  BY <1>1, CallersFinite, FS_AddElement
<1>3. Running' = Running
  BY DEF Running
<1>4. Limit \in Int
  BY GateAssumption DEF Limit
<1>5. GateBounded'
  BY <1>1, <1>2, <1>3, <1>4, CallersFinite DEF GateOK, GateBounded, Limit
<1> QED
  BY <1>5 DEF GateOK

LEMMA SlotGivenBack ==
    ASSUME GateOK, PlayersOK, NEW p \in Players, NEW v, v.pc \notin InCall,
           player[p].pc \in InCall, player' = [player EXCEPT ![p] = v],
           sem' = sem - 1, UNCHANGED <<total, size, ready, download>>
    PROVE  GateOK'
<1>1. Callers' = Callers \ {p} /\ p \in Callers
  BY CallersAfter DEF Callers
<1>2. Cardinality(Callers \ {p}) = Cardinality(Callers) - 1 /\ Cardinality(Callers) # 0
  BY <1>1, CallersFinite, FS_RemoveElement, FS_EmptySet
<1>3. Running' = Running
  BY DEF Running
<1>4. Limit \in Int
  BY GateAssumption DEF Limit
<1>5. GateBounded' /\ sem' \in Nat
  BY <1>1, <1>2, <1>3, <1>4, CallersFinite DEF GateOK, GateBounded, Limit
<1> QED
  BY <1>5 DEF GateOK

LEMMA SlotsUntouched ==
    ASSUME GateOK, PlayersOK, NEW p \in Players, NEW v, v.pc \notin InCall,
           player[p].pc \notin InCall, player' = [player EXCEPT ![p] = v],
           UNCHANGED <<total, size, ready, sem, download>>
    PROVE  GateOK'
<1>1. Callers' = Callers
  BY CallersAfter DEF Callers
<1>2. Running' = Running
  BY DEF Running
<1> QED
  BY <1>1, <1>2 DEF GateOK, GateBounded, Limit

\* Only a stream is at a stage of a stream.
LEMMA StreamingOK ==
    ASSUME PlayersOK, NEW p \in Players, Streaming(p)
    PROVE  StreamOK(player[p], total, size)
<1>1. RequestOK(player[p], total, size)
  BY DEF PlayersOK
<1>2. player[p] # Idle /\ ~AnswerOK(player[p], total)
  BY DEF Streaming, Stages, Idle, AnswerOK, Answers, Waiting, InCall
<1> QED
  BY <1>1, <1>2 DEF RequestOK

-----------------------------------------------------------------------------
(* One lemma per operation.                                                *)

LEMMA InitKeeps == ASSUME Init PROVE Inv
<1>1. Callers = {}
  BY DEF Init, Callers, Idle, InCall
<1>2. Running = {}
  BY DEF Init, Running
<1>3. Cardinality(Callers) = 0 /\ Cardinality(Running) = 0
  BY <1>1, <1>2, FS_EmptySet
<1>4. GateBounded
  BY <1>3, GateAssumption DEF Init, GateBounded, Limit
<1>5. GateOK
  BY <1>4, SizesAssumption DEF Init, GateOK
<1>6. PlayersOK
  BY DEF Init, PlayersOK, RequestOK
<1> QED
  BY <1>5, <1>6 DEF Inv

LEMMA RequestKeeps ==
    ASSUME Inv, NEW p \in Players, NEW h \in Headers, Request(p, h) PROVE Inv'
<1> DEFINE r == ParseRange(h, total)
           v == IF ~r.ok THEN Answered(h, 416, <<>>, TRUE)
                ELSE IF total = 0 THEN Answered(h, 200, <<>>, TRUE)
                ELSE [pc |-> "resolve", header |-> h, end |-> r.end, pos |-> r.start,
                      upto |-> 0, at |-> 0, buf |-> <<>>, body |-> <<>>]
<1>1. /\ GateOK /\ PlayersOK /\ total \in Nat /\ size \in Nat
      /\ ~Streaming(p) /\ player' = [player EXCEPT ![p] = v]
      /\ UNCHANGED <<total, size, ready, sem, download>>
  BY DEF Inv, GateOK, Request
<1>2. RequestOK(v, total, size)
  <2>1. CASE ~r.ok
    <3>1. RequestOK(Answered(h, 416, <<>>, TRUE), total, size)
      BY <1>1, <2>1, RefusedOK
    <3> QED
      BY <2>1, <3>1
  <2>2. CASE r.ok /\ total = 0
    <3>1. RequestOK(Answered(h, 200, <<>>, TRUE), 0, size)
      BY <1>1, <2>2, EmptyOK
    <3> QED
      BY <2>2, <3>1
  <2>3. CASE r.ok /\ total # 0
    <3>1. RequestOK([pc |-> "resolve", header |-> h, end |-> r.end, pos |-> r.start,
                     upto |-> 0, at |-> 0, buf |-> <<>>, body |-> <<>>], total, size)
      BY <1>1, <2>3, NewRequestOK
    <3> QED
      BY <2>3, <3>1
  <2> QED
    BY <2>1, <2>2, <2>3
<1>3. v.pc \notin InCall
  BY DEF Answered, InCall
<1>4. player[p].pc \notin InCall
  BY <1>1 DEF Streaming, Stages
<1> HIDE DEF v
<1>5. GateOK'
  BY <1>1, <1>3, <1>4, SlotsUntouched
<1>6. PlayersOK'
  BY <1>1, <1>2, Replace
<1> QED
  BY <1>5, <1>6 DEF Inv

LEMMA EnterKeeps ==
    ASSUME Inv, NEW p \in Players, Enter(p) PROVE Inv'
<1> DEFINE v == [player[p] EXCEPT !.pc = IF @ = "resolve" THEN "resolving" ELSE "fetching"]
<1>1. /\ GateOK /\ PlayersOK /\ total \in Nat /\ size \in Nat
      /\ player[p].pc \in Waiting /\ sem < Limit /\ sem' = sem + 1
      /\ UNCHANGED <<total, size, ready, download>>
  BY DEF Inv, GateOK, Enter, Acquire, SlotFree
<1>2. player' = [player EXCEPT ![p] = v]
  BY DEF Enter
<1>3. StreamOK(player[p], total, size)
  BY <1>1, StreamingOK DEF Streaming, Stages
<1>4. RequestOK(v, total, size)
  BY <1>1, <1>3, EnteredOK
<1>5. v.pc \in InCall /\ player[p].pc \notin InCall
  BY <1>1, <1>3 DEF StreamOK, Streams, InCall, Waiting
<1> HIDE DEF v
<1>6. GateOK'
  BY <1>1, <1>2, <1>5, SlotTaken
<1>7. PlayersOK'
  BY <1>1, <1>2, <1>4, Replace
<1> QED
  BY <1>6, <1>7 DEF Inv

\* Whatever a call leaves of the request, if it is one, its slot is given back.
LEMMA CallOver ==
    ASSUME Inv, NEW p \in Players, NEW v, RequestOK(v, total, size),
           v.pc \notin InCall, player[p].pc \in InCall,
           player' = [player EXCEPT ![p] = v], ReturnSlot,
           UNCHANGED <<total, size, ready, download>>
    PROVE  Inv'
<1>1. GateOK /\ PlayersOK /\ sem' = sem - 1
  BY DEF Inv, ReturnSlot
<1>2. GateOK'
  BY <1>1, SlotGivenBack
<1>3. PlayersOK'
  BY <1>1, Replace
<1> QED
  BY <1>2, <1>3 DEF Inv

LEMMA ResolvedKeeps ==
    ASSUME Inv, NEW p \in Players, Resolved(p) PROVE Inv'
<1> DEFINE s == player[p]
           b == Answered(s.header, Status(s.header), s.body, FALSE)
           v == [s EXCEPT !.pc = "block", !.upto = Min2(WindowEnd(s), size),
                          !.at = Aligned(s.pos)]
<1>1. /\ PlayersOK /\ total \in Nat /\ size \in Nat
      /\ s.pc = "resolving" /\ ReturnSlot
      /\ UNCHANGED <<total, size, ready, download>>
  BY DEF Inv, GateOK, Resolved
<1>2. s.pc \in InCall
  BY <1>1 DEF InCall
<1>3. StreamOK(s, total, size)
  BY <1>1, <1>2, StreamingOK DEF Streaming, Stages
<1>4. CASE s.pos >= size
  <2>1. player' = [player EXCEPT ![p] = b]
    BY <1>4 DEF Resolved, BreakOff
  <2>2. RequestOK(b, total, size)
    BY <1>1, <1>3, BrokenOffOK
  <2>3. b.pc \notin InCall
    BY DEF Answered, InCall
  <2> HIDE DEF b
  <2> QED
    BY <1>1, <1>2, <2>1, <2>2, <2>3, CallOver
<1>5. CASE ~(s.pos >= size)
  <2>1. player' = [player EXCEPT ![p] = v]
    BY <1>5 DEF Resolved
  <2>2. RequestOK(v, total, size)
    BY <1>1, <1>3, <1>5, ResolvedOK
  <2>3. v.pc \notin InCall
    BY <1>3 DEF StreamOK, Streams, InCall
  <2> HIDE DEF v
  <2> QED
    BY <1>1, <1>2, <2>1, <2>2, <2>3, CallOver
<1> QED
  BY <1>4, <1>5

LEMMA GotBlockKeeps ==
    ASSUME Inv, NEW p \in Players, GotBlock(p) PROVE Inv'
<1> DEFINE s == player[p]
           buf == s.buf \o Bytes(s.at, Min2(s.at + Chunk, size))
           data == Trimmed(s, buf)
<1>1. /\ PlayersOK /\ total \in Nat /\ size \in Nat
      /\ s.pc = "fetching" /\ ReturnSlot
      /\ UNCHANGED <<total, size, ready, download>>
  BY DEF Inv, GateOK, GotBlock
<1>2. s.pc \in InCall
  BY <1>1 DEF InCall
<1>3. StreamOK(s, total, size)
  BY <1>1, <1>2, StreamingOK DEF Streaming, Stages
<1>4. CASE s.at + Chunk < s.upto
  <2> DEFINE v == [s EXCEPT !.pc = "block", !.at = @ + Chunk, !.buf = buf]
  <2>1. player' = [player EXCEPT ![p] = v]
    BY <1>4 DEF GotBlock
  <2>2. RequestOK(v, total, size)
    BY <1>1, <1>3, <1>4, MiddleBlockOK
  <2>3. v.pc \notin InCall
    BY <1>3 DEF StreamOK, Streams, InCall
  <2> HIDE DEF v
  <2> QED
    BY <1>1, <1>2, <2>1, <2>2, <2>3, CallOver
<1>5. CASE ~(s.at + Chunk < s.upto)
  <2>1. data = Bytes(s.pos, s.upto) /\ data # <<>>
    BY <1>1, <1>3, <1>5, WindowRead
  <2> DEFINE v == [s EXCEPT !.pc = "write", !.buf = Bytes(s.pos, s.upto)]
  <2>2. player' = [player EXCEPT ![p] = [s EXCEPT !.pc = "write", !.buf = data]]
    BY <1>5, <2>1 DEF GotBlock
  <2>3. player' = [player EXCEPT ![p] = v]
    BY <2>1, <2>2
  <2>4. RequestOK(v, total, size)
    BY <1>1, <1>3, WindowReadyOK
  <2>5. v.pc \notin InCall
    BY <1>3 DEF StreamOK, Streams, InCall
  <2> HIDE DEF v
  <2> QED
    BY <1>1, <1>2, <2>3, <2>4, <2>5, CallOver
<1> QED
  BY <1>4, <1>5

\* Outside of the gate a request takes its steps without a slot.
LEMMA SlotlessStep ==
    ASSUME Inv, NEW p \in Players, NEW v, RequestOK(v, total, size),
           v.pc \notin InCall, player[p].pc \notin InCall,
           player' = [player EXCEPT ![p] = v],
           UNCHANGED <<total, size, ready, sem, download>>
    PROVE  Inv'
<1>1. GateOK /\ PlayersOK
  BY DEF Inv
<1>2. GateOK'
  BY <1>1, SlotsUntouched
<1>3. PlayersOK'
  BY <1>1, Replace
<1> QED
  BY <1>2, <1>3 DEF Inv

LEMMA WrittenKeeps ==
    ASSUME Inv, NEW p \in Players, Written(p) PROVE Inv'
<1> DEFINE s == player[p]
           f == ParseRange(s.header, total).start
<1>1. /\ PlayersOK /\ total \in Nat /\ size \in Nat /\ s.pc = "write"
      /\ UNCHANGED <<total, size, ready, sem, download>>
  BY DEF Inv, GateOK, Written
<1>2. s.pc \notin InCall
  BY <1>1 DEF InCall
<1>3. StreamOK(s, total, size)
  BY <1>1, StreamingOK DEF Streaming, Stages
<1>4. s.pos + Len(s.buf) = s.upto /\ s.body \o s.buf = Bytes(f, s.upto)
  BY <1>1, <1>3, WindowJoins
<1>5. player' = [player EXCEPT ![p] =
          IF s.upto > s.end THEN Answered(s.header, Status(s.header), Bytes(f, s.upto), TRUE)
          ELSE NextWindow([s EXCEPT !.body = Bytes(f, s.upto)], s.upto)]
  BY <1>4 DEF Written, AllWritten
<1>6. CASE s.upto > s.end
  <2> DEFINE v == Answered(s.header, Status(s.header), Bytes(f, s.upto), TRUE)
  <2>1. player' = [player EXCEPT ![p] = v]
    BY <1>5, <1>6
  <2>2. RequestOK(v, total, size)
    BY <1>1, <1>3, <1>6, LastWindowOK
  <2>3. v.pc \notin InCall
    BY DEF Answered, InCall
  <2> HIDE DEF v
  <2> QED
    BY <1>1, <1>2, <2>1, <2>2, <2>3, SlotlessStep
<1>7. CASE ~(s.upto > s.end)
  <2> DEFINE v == NextWindow([s EXCEPT !.body = Bytes(f, s.upto)], s.upto)
  <2>1. player' = [player EXCEPT ![p] = v]
    BY <1>5, <1>7
  <2>2. RequestOK(v, total, size)
    BY <1>1, <1>3, <1>7, NextWindowOK
  <2>3. v.pc \notin InCall
    BY <1>3 DEF StreamOK, Streams, NextWindow, InCall
  <2> HIDE DEF v
  <2> QED
    BY <1>1, <1>2, <2>1, <2>2, <2>3, SlotlessStep
<1> QED
  BY <1>6, <1>7

LEMMA WriteFailsKeeps ==
    ASSUME Inv, NEW p \in Players, WriteFails(p) PROVE Inv'
<1> DEFINE s == player[p]
<1>1. /\ PlayersOK /\ total \in Nat /\ size \in Nat /\ s.pc = "write"
      /\ UNCHANGED <<total, size, ready, sem, download>>
  BY DEF Inv, GateOK, WriteFails
<1>2. s.pc \notin InCall
  BY <1>1 DEF InCall
<1>3. StreamOK(s, total, size)
  BY <1>1, StreamingOK DEF Streaming, Stages
<1>4. PICK k \in 0 .. Len(s.buf) : player' = [player EXCEPT ![p] =
          Answered(s.header, Status(s.header), s.body \o SubSeq(s.buf, 1, k), FALSE)]
  BY DEF WriteFails
<1> DEFINE v == Answered(s.header, Status(s.header), s.body \o SubSeq(s.buf, 1, k), FALSE)
<1>5. RequestOK(v, total, size)
  BY <1>1, <1>3, PartTakenOK
<1>6. v.pc \notin InCall
  BY DEF Answered, InCall
<1>7. player' = [player EXCEPT ![p] = v]
  BY <1>4
<1> HIDE DEF v
<1> QED
  BY <1>1, <1>2, <1>5, <1>6, <1>7, SlotlessStep

LEMMA CallFailsKeeps ==
    ASSUME Inv, NEW p \in Players, CallFails(p) PROVE Inv'
<1> DEFINE s == player[p]
           v == Answered(s.header, Status(s.header), s.body, FALSE)
<1>1. /\ PlayersOK /\ total \in Nat /\ size \in Nat
      /\ s.pc \in InCall /\ ReturnSlot /\ player' = [player EXCEPT ![p] = v]
      /\ UNCHANGED <<total, size, ready, download>>
  BY DEF Inv, GateOK, CallFails, BreakOff
<1>2. StreamOK(s, total, size)
  BY <1>1, StreamingOK DEF Streaming, Stages
<1>3. RequestOK(v, total, size)
  BY <1>1, <1>2, BrokenOffOK
<1>4. v.pc \notin InCall
  BY DEF Answered, InCall
<1> HIDE DEF v
<1> QED
  BY <1>1, <1>3, <1>4, CallOver

LEMMA LeaveKeeps ==
    ASSUME Inv, NEW p \in Players, Leave(p) PROVE Inv'
<1> DEFINE s == player[p]
           v == Answered(s.header, Status(s.header), s.body, FALSE)
<1>1. /\ PlayersOK /\ total \in Nat /\ size \in Nat
      /\ s.pc \in Waiting /\ player' = [player EXCEPT ![p] = v]
      /\ UNCHANGED <<total, size, ready, sem, download>>
  BY DEF Inv, GateOK, Leave, BreakOff
<1>2. StreamOK(s, total, size)
  BY <1>1, StreamingOK DEF Streaming, Stages
<1>3. RequestOK(v, total, size)
  BY <1>1, <1>2, BrokenOffOK
<1>4. v.pc \notin InCall /\ s.pc \notin InCall
  BY <1>1 DEF Answered, InCall, Waiting
<1> HIDE DEF v
<1> QED
  BY <1>1, <1>3, <1>4, SlotlessStep

\* Steps that leave the requests and the file alone.
LEMMA OthersKeep ==
    ASSUME PlayersOK, UNCHANGED <<total, size, player>>
    PROVE  PlayersOK' /\ Callers' = Callers
<1>1. PlayersOK'
  BY DEF PlayersOK
<1> QED
  BY <1>1 DEF Callers

LEMMA ConnectKeeps == ASSUME Inv, Connect PROVE Inv'
<1>1. PlayersOK' /\ Callers' = Callers
  BY OthersKeep DEF Inv, Connect
<1>2. Running' = Running
  BY DEF Connect, Running
<1>3. GateOK'
  BY <1>1, <1>2 DEF Inv, Connect, GateOK, GateBounded, Limit
<1> QED
  BY <1>1, <1>3 DEF Inv

LEMMA EnterDownloadKeeps ==
    ASSUME Inv, NEW d \in Downloads, EnterDownload(d) PROVE Inv'
<1>1. PlayersOK' /\ Callers' = Callers
  BY OthersKeep DEF Inv, EnterDownload
<1>2. Running' = Running \cup {d} /\ d \notin Running
  BY DEF Inv, GateOK, EnterDownload, Running
<1>3. Cardinality(Running \cup {d}) = Cardinality(Running) + 1
  BY <1>2, CallersFinite, FS_AddElement
<1>4. Limit \in Int
  BY GateAssumption DEF Limit
<1>5. GateOK /\ sem' = sem + 1 /\ sem < Limit
  BY DEF Inv, EnterDownload, Acquire, SlotFree
<1>6. GateBounded' /\ sem' \in Nat
  BY <1>1, <1>2, <1>3, <1>4, <1>5, CallersFinite DEF GateOK, GateBounded, Limit
<1>7. GateOK'
  BY <1>5, <1>6 DEF GateOK, EnterDownload
<1> QED
  BY <1>1, <1>7 DEF Inv

LEMMA EndDownloadKeeps ==
    ASSUME Inv, NEW d \in Downloads, EndDownload(d) PROVE Inv'
<1>1. PlayersOK' /\ Callers' = Callers
  BY OthersKeep DEF Inv, EndDownload
<1>2. Running' = Running \ {d} /\ d \in Running
  BY DEF Inv, GateOK, EndDownload, Running
<1>3. Cardinality(Running \ {d}) = Cardinality(Running) - 1 /\ Cardinality(Running) # 0
  BY <1>2, CallersFinite, FS_RemoveElement, FS_EmptySet
<1>4. Limit \in Int
  BY GateAssumption DEF Limit
<1>5. GateOK /\ sem' = sem - 1
  BY DEF Inv, EndDownload, ReturnSlot
<1>6. GateBounded' /\ sem' \in Nat
  BY <1>1, <1>2, <1>3, <1>4, <1>5, CallersFinite DEF GateOK, GateBounded, Limit
<1>7. GateOK'
  BY <1>5, <1>6 DEF GateOK, EndDownload
<1> QED
  BY <1>1, <1>7 DEF Inv

LEMMA WaitingDownloadKeeps ==
    ASSUME Inv, NEW d \in Downloads, StartDownload(d) \/ CancelDownload(d) PROVE Inv'
<1>1. PlayersOK' /\ Callers' = Callers
  BY OthersKeep DEF Inv, StartDownload, CancelDownload
<1>2. Running' = Running
  BY DEF Inv, GateOK, StartDownload, CancelDownload, Running
<1>3. GateOK'
  BY <1>1, <1>2 DEF Inv, StartDownload, CancelDownload, GateOK, GateBounded, Limit
<1> QED
  BY <1>1, <1>3 DEF Inv

LEMMA StutterKeeps == ASSUME Inv, UNCHANGED vars PROVE Inv'
<1>1. PlayersOK' /\ Callers' = Callers
  BY OthersKeep DEF Inv, vars
<1>2. Running' = Running
  BY DEF vars, Running
<1>3. GateOK'
  BY <1>1, <1>2 DEF Inv, vars, GateOK, GateBounded, Limit
<1> QED
  BY <1>1, <1>3 DEF Inv

LEMMA NextKeeps == ASSUME Inv, Next PROVE Inv'
<1>1. CASE Connect
  BY <1>1, ConnectKeeps
<1>2. ASSUME NEW p \in Players, NEW h \in Headers, Request(p, h) PROVE Inv'
  BY <1>2, RequestKeeps
<1>3. ASSUME NEW p \in Players, Enter(p) PROVE Inv'
  BY <1>3, EnterKeeps
<1>4. ASSUME NEW p \in Players, Resolved(p) PROVE Inv'
  BY <1>4, ResolvedKeeps
<1>5. ASSUME NEW p \in Players, GotBlock(p) PROVE Inv'
  BY <1>5, GotBlockKeeps
<1>6. ASSUME NEW p \in Players, CallFails(p) PROVE Inv'
  BY <1>6, CallFailsKeeps
<1>7. ASSUME NEW p \in Players, Leave(p) PROVE Inv'
  BY <1>7, LeaveKeeps
<1>8. ASSUME NEW d \in Downloads, StartDownload(d) \/ CancelDownload(d) PROVE Inv'
  BY <1>8, WaitingDownloadKeeps
<1>9. ASSUME NEW d \in Downloads, EnterDownload(d) PROVE Inv'
  BY <1>9, EnterDownloadKeeps
<1>10. ASSUME NEW d \in Downloads, EndDownload(d) PROVE Inv'
  BY <1>10, EndDownloadKeeps
<1>11. ASSUME NEW p \in Players, Written(p) PROVE Inv'
  BY <1>11, WrittenKeeps
<1>12. ASSUME NEW p \in Players, WriteFails(p) PROVE Inv'
  BY <1>12, WriteFailsKeeps
<1> QED
  BY <1>1, <1>2, <1>3, <1>4, <1>5, <1>6, <1>7, <1>8, <1>9, <1>10, <1>11, <1>12
     DEF Next, CallEnds

\* The invariant holds throughout.
THEOREM Invariance == Spec => []Inv
<1>1. Init => Inv
  BY InitKeeps
<1>2. Inv /\ [Next]_vars => Inv'
  BY NextKeeps, StutterKeeps
<1> QED
  BY <1>1, <1>2, PTL DEF Spec

-----------------------------------------------------------------------------
(* What follows from it.                                                   *)

\* What was sent to a viewer is the stretch from the first byte it asked for.
LEMMA BodyIsStretch ==
    ASSUME Inv, NEW p \in Players, HasBody(p), ParseRange(player[p].header, total).ok
    PROVE  \E e \in Int :
              /\ ParseRange(player[p].header, total).start <= e
              /\ e <= ParseRange(player[p].header, total).end + 1
              /\ player[p].body = Bytes(ParseRange(player[p].header, total).start, e)
              /\ player[p].pc = "answered" /\ player[p].whole
                    => e = ParseRange(player[p].header, total).end + 1
<1>1. RequestOK(player[p], total, size) /\ total \in Nat /\ size \in Nat
  BY DEF Inv, PlayersOK, GateOK
<1>2. player[p] # Idle
  BY DEF HasBody, Streaming, Stages, Idle, Waiting, InCall
<1>3. CASE AnswerOK(player[p], total)
  BY <1>3 DEF AnswerOK
<1>4. CASE StreamOK(player[p], total, size)
  <2>1. player[p].pc # "answered" /\ player[p].pos \in Int /\ player[p].end \in Int
    BY <1>1, <1>4, StreamParts DEF Stages, Waiting, InCall
  <2>2. /\ ParseRange(player[p].header, total).start <= player[p].pos
        /\ player[p].pos <= ParseRange(player[p].header, total).end + 1
        /\ player[p].body = Bytes(ParseRange(player[p].header, total).start, player[p].pos)
    BY <1>4, <2>1 DEF StreamOK
  <2> QED
    BY <2>1, <2>2
<1> QED
  BY <1>1, <1>2, <1>3, <1>4 DEF RequestOK

LEMMA RequestParts ==
    ASSUME Inv, NEW p \in Players, HasBody(p)
    PROVE  /\ total \in Nat /\ size \in Nat /\ player[p].header \in Headers
           /\ ~ParseRange(player[p].header, total).ok => player[p].body = <<>>
<1>1. RequestOK(player[p], total, size) /\ total \in Nat /\ size \in Nat
  BY DEF Inv, PlayersOK, GateOK
<1>2. player[p] # Idle
  BY DEF HasBody, Streaming, Stages, Idle, Waiting, InCall
<1>3. CASE AnswerOK(player[p], total)
  BY <1>1, <1>3 DEF AnswerOK, Answers
<1>4. CASE StreamOK(player[p], total, size)
  BY <1>1, <1>4 DEF StreamOK, Streams
<1> QED
  BY <1>1, <1>2, <1>3, <1>4 DEF RequestOK

LEMMA BodyExactHolds == ASSUME Inv PROVE BodyExact
<1> SUFFICES ASSUME NEW p \in Players, HasBody(p), NEW i \in DOMAIN player[p].body
             PROVE  /\ player[p].body[i] \in Asked(player[p].header)
                    /\ Cardinality({a \in Asked(player[p].header) : a < player[p].body[i]})
                         = i - 1
  BY DEF BodyExact
<1> DEFINE h == player[p].header
           body == player[p].body
           f == ParseRange(h, total).start
           l == ParseRange(h, total).end
<1>1. /\ total \in Nat /\ size \in Nat /\ h \in Headers
      /\ ~ParseRange(h, total).ok => body = <<>>
  BY RequestParts
<1>2. ParseRange(h, total).ok
  BY <1>1
<1>3. f \in Int /\ l \in Int /\ Asked(h) = f .. l
  BY <1>1, <1>2, ParseShape, ParseExact DEF InFile
<1>4. PICK e \in Int : f <= e /\ e <= l + 1 /\ body = Bytes(f, e)
  BY <1>2, BodyIsStretch
<1>5. body \in Seq(Int) /\ Len(body) = e - f
      /\ \A j \in 1 .. e - f : body[j] = f + j - 1
  <2>1. Bytes(f, e) \in Seq(Int) /\ Len(Bytes(f, e)) = e - f
        /\ \A j \in 1 .. e - f : Bytes(f, e)[j] = f + j - 1
    BY <1>3, <1>4, BytesShape
  <2> HIDE DEF body, f
  <2> QED
    BY <1>4, <2>1
<1> HIDE DEF h, body, f, l
<1>6. i \in 1 .. e - f
  <2>1. DOMAIN body = 1 .. Len(body)
    BY <1>5
  <2> QED
    BY <1>5, <2>1 DEF body
<1>7. body[i] = f + i - 1 /\ i \in Int /\ i >= 1 /\ i <= e - f
  BY <1>3, <1>4, <1>5, <1>6
<1>8. body[i] \in f .. l
  BY <1>3, <1>4, <1>7
<1>9. {a \in f .. l : a < body[i]} = f .. (f + i - 2)
  BY <1>3, <1>4, <1>7
<1>10. Cardinality(f .. (f + i - 2)) = i - 1
  <2>1. f + i - 2 \in Int
    BY <1>3, <1>7
  <2>2. Cardinality(f .. (f + i - 2)) =
          IF f > f + i - 2 THEN 0 ELSE (f + i - 2) - f + 1
    BY <1>3, <2>1, FS_Interval
  <2> QED
    BY <1>3, <1>7, <2>2
<1> QED
  BY <1>3, <1>8, <1>9, <1>10 DEF h, body

LEMMA BodyCompleteHolds == ASSUME Inv PROVE BodyComplete
<1> SUFFICES ASSUME NEW p \in Players, player[p].pc = "answered"
             PROVE
               /\ player[p].whole => Len(player[p].body) = Cardinality(Asked(player[p].header))
               /\ player[p].status = 416 =>
                    Asked(player[p].header) = {} /\ player[p].header # NoHeader
               /\ player[p].header # NoHeader /\ Asked(player[p].header) = {} =>
                    player[p].status = 416 \/ (total = 0 /\ player[p].header.kind = "last")
               /\ player[p].status = 200 => player[p].header = NoHeader \/ total = 0
  BY DEF BodyComplete
<1> DEFINE h == player[p].header
           r == ParseRange(h, total)
<1>1. HasBody(p)
  BY DEF HasBody
<1>2. /\ total \in Nat /\ size \in Nat /\ h \in Headers
      /\ ~r.ok => player[p].body = <<>>
  BY <1>1, RequestParts
<1>3. Asked(h) = IF r.ok THEN r.start .. r.end ELSE {}
  BY <1>2, ParseExact
<1>4. AnswerOK(player[p], total)
  <2>1. RequestOK(player[p], total, size)
    BY DEF Inv, PlayersOK
  <2>2. player[p] # Idle /\ ~StreamOK(player[p], total, size)
    BY DEF Idle, StreamOK, Streams, Stages, Waiting, InCall
  <2> QED
    BY <2>1, <2>2 DEF RequestOK
<1>5. h = NoHeader => r.ok
  BY DEF ParseRange, NoHeader, Accepted
<1>6. CASE ~r.ok
  <2>1. player[p].status = 416 /\ player[p].body = <<>> /\ player[p].whole
    BY <1>4, <1>6 DEF AnswerOK
  <2>2. Cardinality(Asked(h)) = 0 /\ Len(player[p].body) = 0
    BY <1>3, <1>6, <2>1, FS_EmptySet, EmptySeq
  <2> QED
    BY <1>3, <1>5, <1>6, <2>1, <2>2
<1>7. CASE r.ok
  <2>1. InFile(r, total)
    BY <1>2, <1>7, ParseShape
  <2>2. r.start \in Int /\ r.end \in Int
    BY <2>1 DEF InFile
  <2>3. player[p].status = Status(h) \/ (total = 0 /\ player[p].status = 200)
    BY <1>4, <1>7 DEF AnswerOK
  <2>4. player[p].status # 416
    BY <2>3 DEF Status
  <2>5. player[p].status = 200 => h = NoHeader \/ total = 0
    BY <1>2, <2>3, HeaderKinds DEF Status
  <2>6. Asked(h) = {} => total = 0
    BY <1>2, <1>3, <1>7, <2>1, <2>2 DEF InFile
  <2>7. total = 0 => h.kind \in {"none", "last"}
    <3>1. total = 0 => ~(h.kind \in {"from", "between", "malformed"})
      BY <1>2, <1>7, HeaderKinds DEF ParseRange, Refused
    <3> QED
      BY <1>2, <3>1, HeaderKinds
  <2>8. h # NoHeader /\ Asked(h) = {} => total = 0 /\ h.kind = "last"
    BY <1>2, <2>6, <2>7, HeaderKinds
  <2>9. player[p].whole => Len(player[p].body) = Cardinality(Asked(h))
    <3> SUFFICES ASSUME player[p].whole
                 PROVE  Len(player[p].body) = Cardinality(Asked(h))
      OBVIOUS
    <3>1. player[p].body = Bytes(r.start, r.end + 1) /\ r.start <= r.end + 1
      BY <1>1, <1>7, BodyIsStretch
    <3>2. Len(player[p].body) = r.end + 1 - r.start
      <4>1. PICK a \in Int, b \in Int : a = r.start /\ b = r.end + 1
        BY <2>2
      <4>2. a <= b /\ player[p].body = Bytes(a, b)
        BY <3>1, <4>1
      <4>3. Len(Bytes(a, b)) = b - a
        BY <4>2, BytesShape
      <4> QED
        BY <2>2, <4>1, <4>2, <4>3
    <3>3. Cardinality(r.start .. r.end) =
            IF r.start > r.end THEN 0 ELSE r.end - r.start + 1
      BY <2>2, FS_Interval
    <3> HIDE DEF r
    <3> QED
      BY <1>3, <1>7, <2>2, <3>1, <3>2, <3>3
  <2> HIDE DEF r
  <2> QED
    BY <2>4, <2>5, <2>8, <2>9
<1> QED
  BY <1>6, <1>7

LEMMA TypeOKHolds == ASSUME Inv PROVE TypeOK
<1>1. player \in [Players -> {Idle} \cup Answers \cup Streams]
  <2>1. \A p \in Players : player[p] \in {Idle} \cup Answers \cup Streams
    BY DEF Inv, PlayersOK, RequestOK, AnswerOK, StreamOK
  <2>2. player = [p \in Players |-> player[p]]
    BY DEF Inv, PlayersOK
  <2> QED
    BY <2>1, <2>2
<1>2. Limit \in Int /\ sem \in 0 .. Limit
  BY GateAssumption DEF Inv, GateOK, GateBounded, Limit
<1> QED
  BY <1>1, <1>2 DEF Inv, GateOK, TypeOK

-----------------------------------------------------------------------------
(* The theorems.                                                           *)

\* The state always has its type.
THEOREM TypeCorrect == Spec => []TypeOK
BY Invariance, TypeOKHolds, PTL

\* The gate counts the calls going on and lets no more than allowed pass, however
\* many browsers and downloads there are and however their calls end.
THEOREM GateKept == Spec => []GateBounded
<1>1. Inv => GateBounded
  BY DEF Inv, GateOK
<1> QED
  BY <1>1, Invariance, PTL

\* Windows and blocks of any size put together what was asked for, byte by byte.
THEOREM BodiesExact == Spec => []BodyExact
BY Invariance, BodyExactHolds, PTL

\* A response that was not broken off is the whole of it, and the status says so.
THEOREM BodiesComplete == Spec => []BodyComplete
BY Invariance, BodyCompleteHolds, PTL
=============================================================================
