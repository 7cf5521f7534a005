----------------------------- MODULE CBufferSpec -----------------------------
(***************************************************************************)
(* One CBuffer driven by its owner, a single thread: any sequence of       *)
(* append, appendByte, peek and pop calls.  AppConn uses append, peek and  *)
(* pop; appendByte is in the interface and has no caller.                  *)
(***************************************************************************)
EXTENDS CBuffer

CONSTANTS
  MaxChunk,  \* longest array handed to append
  Writers    \* the appending operations in use

ASSUME ChunkAssumption   == MaxChunk \in Nat /\ MaxChunk <= m_size
ASSUME WritersAssumption == Writers \subseteq {"append", "appendByte"}

VARIABLES
  buf,     \* the buffer
  queued,  \* history: bytes accepted and not yet returned by pop
  out,     \* the bytes the last peek or pop copied out
  last     \* history: the operation that stored last

vars == <<buf, queued, out, last>>

Chunk == UNION {[1 .. n -> Byte] : n \in 1 .. MaxChunk}

\* Readable bytes that were already popped (none in a sound loop buffer).
Stale(b, q) == length(b) - Len(q)

\* How many of the bytes a pop(len) returns are accepted ones.
Genuine(b, q, len) ==
  LET n == Lesser(len, length(b)) IN IF n <= Stale(b, q) THEN 0 ELSE n - Stale(b, q)

Init == buf = NewBuffer /\ queued = <<>> /\ out = <<>> /\ last = "none"

AppendChunk(src) ==
  /\ "append" \in Writers
  /\ buf' = append(buf, src)
  /\ queued' = IF Accepts(buf, Len(src)) THEN queued \o src ELSE queued
  /\ last' = IF Accepts(buf, Len(src)) THEN "append" ELSE last
  /\ UNCHANGED out

AppendOne(byte) ==
  /\ "appendByte" \in Writers
  /\ buf' = appendByte(buf, byte)
  /\ queued' = IF IsFull(buf) THEN queued ELSE queued \o <<byte>>
  /\ last' = IF IsFull(buf) THEN last ELSE "appendByte"
  /\ UNCHANGED out

Peek(len) == /\ out' = peek(buf, len)
             /\ UNCHANGED <<buf, queued, last>>

Pop(len) ==
  /\ out' = peek(buf, len)
  /\ buf' = pop(buf, len)
  /\ queued' = SubSeq(queued, Genuine(buf, queued, len) + 1, Len(queued))
  /\ UNCHANGED last

Next == \/ \E src \in Chunk : AppendChunk(src)
        \/ \E byte \in Byte : AppendOne(byte)
        \/ \E len \in 0 .. m_size : Peek(len) \/ Pop(len)

Spec == Init /\ [][Next]_vars
-----------------------------------------------------------------------------
TypeOK == /\ buf \in Buffer
          /\ queued \in Seq(Byte)
          /\ out \in Seq(Byte \cup {Uninit})
          /\ last \in {"none", "append", "appendByte"}

\* No accepted byte is lost, altered or reordered, however appends and pops
\* wrap: the accepted bytes are always the last readable ones, in order.
\* (append must not overwrite what pop has not returned.)
AcceptedBytesKept ==
  /\ Len(queued) <= length(buf)
  /\ \A i \in 1 .. Len(queued) :
       queued[i] = buf.m_buff[Slot(buf, Stale(buf, queued) + i)]

\* Every store and every load of the next call stays inside the array, even when
\* freebyte has wrapped to a huge number and append refuses nothing, with one
\* exception: appendByte stores behind the array (CBuffer.cpp line 164), though by
\* one byte only, when the last to store was an append that ended on its last
\* element.  Neither appends that wrap nor any number of appendByte and pop do that.
AccessInBounds ==
  /\ \A len \in 1 .. MaxChunk :
       Accepts(buf, len) =>
         /\ buf.m_idxw + FirstSegment(buf, len) <= m_size
         /\ len - FirstSegment(buf, len) <= m_size
  /\ "appendByte" \in Writers /\ ~ IsFull(buf) =>
       buf.m_idxw < m_size \/ (buf.m_idxw = m_size /\ last = "append")
  /\ buf.m_idxr <= buf.m_idxw => buf.m_idxr + length(buf) <= m_size
  /\ length(buf) <= m_size

\* pop and peek never hand out an array element that was never written,
\* although stale parts of the array do become readable.
NothingUninitialised == \A i \in 1 .. Len(out) : out[i] \in Byte

\* The buffer is a queue as ByteQueue describes it.
BQ == INSTANCE ByteQueue WITH
        Data <- Byte, Capacity <- m_size,
        unread <- queued, stale <- Stale(buf, queued), out <- out
ImplementsByteQueue == BQ!BQSpec
=============================================================================
