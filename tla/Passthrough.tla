---------------------------- MODULE Passthrough -----------------------------
(***************************************************************************)
(* Playing a recording as it is: the play handler translates a Range       *)
(* request into windows (src/internal/httpserver/play.go), the broker a    *)
(* window into aligned blocks (src/internal/broker/download.go), and every *)
(* call of Telegram passes the broker's gate                               *)
(* (src/internal/broker/client.go, ratelimit.go), which whole-file         *)
(* downloads pass as well.                                                 *)
(*                                                                         *)
(* A byte is known by its place in the file.  The catalog's idea of the    *)
(* length may differ from the file's, since a synchronised message is not  *)
(* looked at again.  The gate's rate limiter only adds delay and is left   *)
(* out; requests are GET.                                                  *)
(***************************************************************************)
EXTENDS Integers, Sequences, FiniteSets

CONSTANTS
    Players,        \* browsers, one request at a time each
    Downloads,      \* whole-file downloads
    Sizes,          \* lengths a file may have
    Headers,        \* Range headers browsers send
    Chunk,          \* fileChunk
    Window,         \* passthroughWindow
    MaxConcurrent   \* argument of newGate

\* Range headers: none, malformed, "a-", "a-b" and "-n".
NoHeader  == [kind |-> "none"]
Malformed == [kind |-> "malformed"]
HeaderForms ==
    {NoHeader, Malformed}
      \cup [kind : {"from"}, a : Nat]
      \cup [kind : {"between"}, a : Nat, b : Nat]
      \cup [kind : {"last"}, n : Int]

ASSUME HeadersAssumption == Headers \subseteq HeaderForms
ASSUME SizesAssumption   == Sizes \subseteq Nat
ASSUME BlocksAssumption  == Chunk \in Nat \ {0} /\ Window \in Nat \ {0}
ASSUME GateAssumption    == MaxConcurrent \in Int
ASSUME CallersAssumption == IsFiniteSet(Players) /\ IsFiniteSet(Downloads)

\* newGate: at least one.
Limit == IF MaxConcurrent < 1 THEN 1 ELSE MaxConcurrent

VARIABLES
    total,      \* file_size of the row
    size,       \* length of the file
    ready,      \* has the broker connected?
    sem,        \* length of the gate's channel
    player,     \* the request of each browser
    download    \* what each download is doing

vars == <<total, size, ready, sem, player, download>>

Min2(a, b) == IF a < b THEN a ELSE b

\* The bytes from a up to but not including b.
Bytes(a, b) == [i \in 1 .. (IF a < b THEN b - a ELSE 0) |-> a + i - 1]

-----------------------------------------------------------------------------
(* parseRange.                                                             *)

Refused == [ok |-> FALSE]
Accepted(start, end) == [ok |-> TRUE, start |-> start, end |-> end]

\* parseRange, with the handler's reading of no header as the whole file.
ParseRange(h, n) ==
    CASE h.kind = "none" -> Accepted(0, n - 1)
      [] h.kind = "malformed" -> Refused
      [] h.kind = "last" -> IF h.n <= 0 THEN Refused ELSE Accepted(n - Min2(h.n, n), n - 1)
      [] h.kind = "from" -> IF h.a >= n THEN Refused ELSE Accepted(h.a, n - 1)
      [] h.kind = "between" ->
            IF h.a >= n \/ h.b < h.a THEN Refused ELSE Accepted(h.a, Min2(h.b, n - 1))

-----------------------------------------------------------------------------
(* The gate.                                                               *)

\* Mutation: one call too many.
SlotFree_OneMore == sem <= Limit

SlotFree == sem < Limit

Acquire ==
    /\ ready
    /\ SlotFree
    /\ sem' = sem + 1

\* Mutation: the deferred release and an explicit one.
ReturnSlot_Twice == sem' = sem - 2

ReturnSlot == sem' = sem - 1

-----------------------------------------------------------------------------
(* The stages of a request: "resolve" and "block" wait for the gate,       *)
(* "resolving" and "fetching" are past it, "write" waits for the viewer to *)
(* take a window.  end is the last byte asked for, pos the first byte of   *)
(* the window, upto the one after its last, at the next block, buf the     *)
(* blocks so far or the window being written, body what was written.       *)

Waiting == {"resolve", "block"}
InCall  == {"resolving", "fetching"}
Stages  == Waiting \cup InCall \cup {"write"}

Idle == [pc |-> "idle"]
Answered(h, status, body, whole) ==
    [pc |-> "answered", header |-> h, status |-> status, body |-> body, whole |-> whole]

Answers == [pc : {"answered"}, header : Headers, status : {200, 206, 416},
            body : Seq(Int), whole : BOOLEAN]
Streams == [pc : Stages, header : Headers, end : Int, pos : Int,
            upto : Int, at : Int, buf : Seq(Int), body : Seq(Int)]

Streaming(p) == player[p].pc \in Stages

Init ==
    /\ total \in Sizes
    /\ size \in Sizes
    /\ ready = FALSE
    /\ sem = 0
    /\ player = [p \in Players |-> Idle]
    /\ download = [d \in Downloads |-> "idle"]

Connect ==
    /\ ~ready
    /\ ready' = TRUE
    /\ UNCHANGED <<total, size, sem, player, download>>

Status(h) == IF h.kind = "none" THEN 200 ELSE 206

\* The next window of request s, from byte pos on.
NextWindow(s, pos) == [s EXCEPT !.pc = "resolve", !.pos = pos, !.buf = <<>>]

\* servePassthrough up to the first read, for a URL that is valid and a row to be
\* played as it is.
Request(p, h) ==
    LET r == ParseRange(h, total) IN
    /\ ~Streaming(p)
    /\ player' = [player EXCEPT ![p] =
          IF ~r.ok THEN Answered(h, 416, <<>>, TRUE)
          ELSE IF total = 0 THEN Answered(h, 200, <<>>, TRUE)
          ELSE [pc |-> "resolve", header |-> h, end |-> r.end, pos |-> r.start,
                upto |-> 0, at |-> 0, buf |-> <<>>, body |-> <<>>]]
    /\ UNCHANGED <<total, size, ready, sem, download>>

\* The head of the response is out: all that is left is to break off.
BreakOff(p) ==
    player' = [player EXCEPT ![p] =
                 Answered(player[p].header, Status(player[p].header), player[p].body, FALSE)]

Enter(p) ==
    /\ player[p].pc \in Waiting
    /\ Acquire
    /\ player' = [player EXCEPT ![p].pc = IF @ = "resolve" THEN "resolving" ELSE "fetching"]
    /\ UNCHANGED <<total, size, ready, download>>

\* The window of request s ends here.
WindowEnd(s) == s.pos + Min2(Window, s.end - s.pos + 1)

\* The block boundary at or below an offset.
Aligned(offset) == offset - (offset % Chunk)

\* ReadRange has the location and the length of the file: past its end there is
\* nothing to read, otherwise it starts at the boundary below.
Resolved(p) ==
    LET s == player[p] IN
    /\ s.pc = "resolving"
    /\ ReturnSlot
    /\ IF s.pos >= size
       THEN BreakOff(p)
       ELSE player' = [player EXCEPT ![p] =
               [s EXCEPT !.pc = "block", !.upto = Min2(WindowEnd(s), size),
                         !.at = Aligned(s.pos)]]
    /\ UNCHANGED <<total, size, ready, download>>

\* Mutation: the part below the offset is not taken off.
Trimmed_Aligned(s, buf) == SubSeq(buf, 1, s.upto - s.pos)

\* What ReadRange returns of the blocks it has read.
Trimmed(s, buf) ==
    SubSeq(buf, s.pos - Aligned(s.pos) + 1, Min2(s.upto - Aligned(s.pos), Len(buf)))

\* A block arrives; with the last one of the window ReadRange returns.
GotBlock(p) ==
    LET s    == player[p]
        buf  == s.buf \o Bytes(s.at, Min2(s.at + Chunk, size))
        data == Trimmed(s, buf)
    IN
    /\ s.pc = "fetching"
    /\ ReturnSlot
    /\ IF s.at + Chunk < s.upto
       THEN player' = [player EXCEPT ![p] =
               [s EXCEPT !.pc = "block", !.at = @ + Chunk, !.buf = buf]]
       ELSE IF data = <<>> THEN BreakOff(p)
       ELSE player' = [player EXCEPT ![p] = [s EXCEPT !.pc = "write", !.buf = data]]
    /\ UNCHANGED <<total, size, ready, download>>

\* Mutation: the error path keeps the slot.
CallFails_KeepsSlot(p) ==
    /\ player[p].pc \in InCall
    /\ BreakOff(p)
    /\ UNCHANGED <<total, size, ready, sem, download>>

\* Telegram refuses a call, or the viewer goes away in the middle of it.
CallFails(p) ==
    /\ player[p].pc \in InCall
    /\ ReturnSlot
    /\ BreakOff(p)
    /\ UNCHANGED <<total, size, ready, download>>

\* The viewer goes away while the request waits for the connection or the gate.
Leave(p) ==
    /\ player[p].pc \in Waiting
    /\ BreakOff(p)
    /\ UNCHANGED <<total, size, ready, sem, download>>

-----------------------------------------------------------------------------
(* The window goes out to the viewer: Write and Flush return when it has   *)
(* taken the bytes, and as late as it likes.                               *)

\* Mutation: the last byte is taken for the one after it.
AllWritten_Short(s, pos) == pos >= s.end

AllWritten(s, pos) == pos > s.end

Written(p) ==
    LET s    == player[p]
        pos  == s.pos + Len(s.buf)
        body == s.body \o s.buf
    IN
    /\ s.pc = "write"
    /\ player' = [player EXCEPT ![p] =
          IF AllWritten(s, pos) THEN Answered(s.header, Status(s.header), body, TRUE)
          ELSE NextWindow([s EXCEPT !.body = body], pos)]
    /\ UNCHANGED <<total, size, ready, sem, download>>

\* The viewer goes away with a part of the window.
WriteFails(p) ==
    LET s == player[p] IN
    /\ s.pc = "write"
    /\ \E n \in 0 .. Len(s.buf) :
          player' = [player EXCEPT ![p] =
             Answered(s.header, Status(s.header), s.body \o SubSeq(s.buf, 1, n), FALSE)]
    /\ UNCHANGED <<total, size, ready, sem, download>>

-----------------------------------------------------------------------------
(* Downloads: one call of the gate from the first byte to the last.        *)

StartDownload(d) ==
    /\ download[d] = "idle"
    /\ download' = [download EXCEPT ![d] = "waiting"]
    /\ UNCHANGED <<total, size, ready, sem, player>>

EnterDownload(d) ==
    /\ download[d] = "waiting"
    /\ Acquire
    /\ download' = [download EXCEPT ![d] = "running"]
    /\ UNCHANGED <<total, size, ready, player>>

EndDownload(d) ==
    /\ download[d] = "running"
    /\ ReturnSlot
    /\ download' = [download EXCEPT ![d] = "idle"]
    /\ UNCHANGED <<total, size, ready, player>>

CancelDownload(d) ==
    /\ download[d] = "waiting"
    /\ download' = [download EXCEPT ![d] = "idle"]
    /\ UNCHANGED <<total, size, ready, sem, player>>

-----------------------------------------------------------------------------

CallEnds(p) == Resolved(p) \/ GotBlock(p) \/ CallFails(p)

Next ==
    \/ Connect
    \/ \E p \in Players :
          \/ \E h \in Headers : Request(p, h)
          \/ Enter(p)
          \/ CallEnds(p)
          \/ Leave(p)
          \/ Written(p)
          \/ WriteFails(p)
    \/ \E d \in Downloads :
          StartDownload(d) \/ EnterDownload(d) \/ EndDownload(d) \/ CancelDownload(d)

(***************************************************************************)
(* Senders blocked on a Go channel are served in order.  Nothing makes a   *)
(* call of Telegram end, a viewer take its bytes -- the server has no      *)
(* WriteTimeout (server.go 83-87) -- or a download come to its end.        *)
(***************************************************************************)
Fairness == \A p \in Players : SF_vars(Enter(p))

Spec == Init /\ [][Next]_vars /\ Fairness

-----------------------------------------------------------------------------
(* Properties.                                                             *)

Callers == {p \in Players : player[p].pc \in InCall}
Running == {d \in Downloads : download[d] = "running"}

TypeOK ==
    /\ total \in Sizes /\ size \in Sizes
    /\ ready \in BOOLEAN
    /\ sem \in 0 .. Limit
    /\ player \in [Players -> {Idle} \cup Answers \cup Streams]
    /\ download \in [Downloads -> {"idle", "waiting", "running"}]

\* The gate's channel counts the calls of Telegram going on, whichever way each
\* of them ends, and there are never more than allowed (ratelimit.go 32-43).
GateBounded ==
    /\ sem = Cardinality(Callers) + Cardinality(Running)
    /\ sem <= Limit

\* The bytes a header asks for, after the meaning of HTTP's Range, as a set.
Asked(h) ==
    CASE h.kind = "none" -> 0 .. total - 1
      [] h.kind = "malformed" -> {}
      [] h.kind = "from" -> {i \in 0 .. total - 1 : i >= h.a}
      [] h.kind = "between" -> {i \in 0 .. total - 1 : h.a <= i /\ i <= h.b}
      [] h.kind = "last" -> {i \in 0 .. total - 1 : i >= total - h.n}

HasBody(p) == Streaming(p) \/ player[p].pc = "answered"

\* What a viewer has been sent is the beginning of what it asked for, byte by
\* byte, over all windows and blocks and however the request ended
\* (play.go 161-183, download.go 91-132).
BodyExact ==
    \A p \in Players : HasBody(p) =>
        LET asked == Asked(player[p].header)
            body  == player[p].body
        IN \A i \in DOMAIN body :
              /\ body[i] \in asked
              /\ Cardinality({a \in asked : a < body[i]}) = i - 1

\* A response that was not broken off has all of it; 416 is said only, and
\* always, when there is nothing to send for a header (play.go 132-156).  For a
\* file of no bytes, "the last n" is answered with all of it.
BodyComplete ==
    \A p \in Players : player[p].pc = "answered" =>
        LET r == player[p] IN
        /\ r.whole => Len(r.body) = Cardinality(Asked(r.header))
        /\ r.status = 416 => Asked(r.header) = {} /\ r.header # NoHeader
        /\ r.header # NoHeader /\ Asked(r.header) = {} =>
              r.status = 416 \/ (total = 0 /\ r.header.kind = "last")
        /\ r.status = 200 => r.header = NoHeader \/ total = 0

\* Downloads leave a slot again and again, and no call of Telegram for a window
\* hangs for ever.
Served ==
    /\ []<>(ready /\ Cardinality(Running) < Limit)
    /\ \A p \in Players : []<>(player[p].pc \notin InCall)

\* Where Telegram serves, a stream comes to its end, one way or another, as long as
\* its own viewer does not leave a window untaken for ever; those of others may, and
\* keep no slot meanwhile (ratelimit.go 36-42, play.go 163-183).
StreamsEnd ==
    Served =>
        \A p \in Players :
            []<>(player[p].pc # "write") => (Streaming(p) ~> ~Streaming(p))
=============================================================================
