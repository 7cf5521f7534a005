---------------------------- MODULE CBufferProofs ----------------------------
(***************************************************************************)
(* Theorems about one loop buffer and its owner, for every array size,     *)
(* chunk length and set of bytes.                                          *)
(***************************************************************************)
EXTENDS CBufferSpec, CBufferLemmas

LEMMA ChunkType ==
  \A src \in Chunk : src \in Seq(Byte) /\ Len(src) \in 1 .. m_size
BY ChunkAssumption, SizeAssumption DEF Chunk

\* The bytes a pop takes off the history are there.
LEMMA GenuineBounds ==
  ASSUME NEW b \in Buffer, NEW q \in Seq(Byte), NEW len \in Nat
  PROVE  /\ Genuine(b, q, len) \in 0 .. Len(q)
         /\ SubSeq(q, Genuine(b, q, len) + 1, Len(q)) \in Seq(Byte)
<1>0. length(b) \in Nat
  BY LengthBounds
<1>1. Lesser(len, length(b)) \in 0 .. length(b)
  BY <1>0 DEF Lesser
<1>2. Genuine(b, q, len) \in 0 .. Len(q)
  BY <1>0, <1>1 DEF Genuine, Stale
<1> QED
  BY <1>2
-----------------------------------------------------------------------------
(* Type correctness, for every interleaving of all four operations.        *)

THEOREM TypeCorrect == Spec => []TypeOK
<1>1. Init => TypeOK
  BY SizeAssumption DEF Init, TypeOK, NewBuffer, Buffer, Index
<1>2. TypeOK /\ [Next]_vars => TypeOK'
  <2> SUFFICES ASSUME TypeOK, [Next]_vars PROVE TypeOK'
    OBVIOUS
  <2> USE DEF TypeOK
  <2>1. ASSUME NEW src \in Chunk, AppendChunk(src) PROVE TypeOK'
    <3>1. src \in Seq(Byte) /\ Len(src) \in 1 .. m_size
      BY ChunkType
    <3> QED
      BY <2>1, <3>1, AppendTyped DEF AppendChunk
  <2>2. ASSUME NEW byte \in Byte, AppendOne(byte) PROVE TypeOK'
    BY <2>2, AppendByteTyped DEF AppendOne
  <2>3. ASSUME NEW len \in 0 .. m_size, Peek(len) PROVE TypeOK'
    BY <2>3, PeekTyped, SizeAssumption DEF Peek
  <2>4. ASSUME NEW len \in 0 .. m_size, Pop(len) PROVE TypeOK'
    <3>1. len \in Nat
      BY SizeAssumption
    <3>2. buf' \in Buffer
      BY <2>4, <3>1, PopLeaves DEF Pop
    <3>3. queued' \in Seq(Byte)
      BY <2>4, <3>1, GenuineBounds DEF Pop
    <3> QED
      BY <2>4, <3>1, <3>2, <3>3, PeekTyped DEF Pop
  <2>5. CASE UNCHANGED vars
    BY <2>5 DEF vars
  <2> QED
    BY <2>1, <2>2, <2>3, <2>4, <2>5 DEF Next
<1> QED
  BY <1>1, <1>2, PTL DEF Spec
-----------------------------------------------------------------------------
(* No accepted byte is lost or overwritten, as long as an appended array   *)
(* is shorter than the buffer.                                             *)

\* AcceptedBytesKept is not inductive: a buffer of length m_size accepts any
\* append.  That length only arises by a relapse, when nothing is queued.
KeptInv == /\ TypeOK
           /\ AcceptedBytesKept
           /\ length(buf) = m_size => queued = <<>>

LEMMA KeptAppend ==
  ASSUME MaxChunk < m_size, KeptInv, NEW src \in Chunk, AppendChunk(src)
  PROVE  AcceptedBytesKept' /\ (length(buf) = m_size => queued = <<>>)'
<1>1. PICK len \in 1 .. MaxChunk : src \in [1 .. len -> Byte]
  BY DEF Chunk
<1>2. /\ len \in 1 .. m_size /\ Len(src) = len
      /\ src \in Seq(Byte)
      /\ len < m_size
  BY <1>1, ChunkAssumption, SizeAssumption
<1>3. /\ buf \in Buffer
      /\ queued \in Seq(Byte)
      /\ Len(queued) <= length(buf)
      /\ \A i \in 1 .. Len(queued) :
           queued[i] = buf.m_buff[Slot(buf, length(buf) - Len(queued) + i)]
      /\ length(buf) \in 0 .. m_size
      /\ buf' = append(buf, src)
      /\ queued' = IF Accepts(buf, len) THEN queued \o src ELSE queued
  BY <1>2, LengthBounds DEF KeptInv, TypeOK, AcceptedBytesKept, AppendChunk, Stale
<1>4. CASE ~ Accepts(buf, len)
  <2>1. buf' = buf /\ queued' = queued
    BY <1>2, <1>3, <1>4 DEF append
  <2> QED
    BY <2>1 DEF KeptInv, AcceptedBytesKept, Stale
<1>5. CASE Accepts(buf, len) /\ length(buf) < m_size
  <2>1. /\ length(buf') = length(buf) + len
        /\ length(buf') < m_size
        /\ \A i \in 1 .. length(buf) :
             buf'.m_buff[Slot(buf', i)] = buf.m_buff[Slot(buf, i)]
        /\ \A k \in 1 .. len : buf'.m_buff[Slot(buf', length(buf) + k)] = src[k]
    BY <1>1, <1>2, <1>3, <1>5, AppendBehind
  <2>2. /\ queued' = queued \o src
        /\ Len(queued') = Len(queued) + len
    BY <1>2, <1>3, <1>5
  <2>3. Stale(buf', queued') = length(buf) - Len(queued)
    BY <1>2, <1>3, <2>1, <2>2 DEF Stale
  <2>4. ASSUME NEW i \in 1 .. Len(queued')
        PROVE  queued'[i] = buf'.m_buff[Slot(buf', Stale(buf', queued') + i)]
    <3>1. CASE i <= Len(queued)
      <4> DEFINE j == length(buf) - Len(queued) + i
      <4>1. j \in 1 .. length(buf)
        BY <1>3, <3>1
      <4>2. queued'[i] = queued[i] /\ i \in 1 .. Len(queued)
        BY <1>2, <1>3, <2>2, <3>1
      <4>3. queued[i] = buf.m_buff[Slot(buf, j)]
        BY <1>3, <4>2
      <4>4. Stale(buf', queued') + i = j
        BY <2>3
      <4> HIDE DEF j
      <4> QED
        BY <2>1, <4>1, <4>2, <4>3, <4>4
    <3>2. CASE i > Len(queued)
      <4>1. i - Len(queued) \in 1 .. len
        BY <1>2, <1>3, <2>2, <3>2
      <4>2. queued'[i] = src[i - Len(queued)]
        BY <1>2, <1>3, <2>2, <3>2
      <4> DEFINE j == Stale(buf', queued') + i
      <4>3. j = length(buf) + (i - Len(queued))
        BY <1>3, <2>2, <2>3
      <4> HIDE DEF j
      <4>4. buf'.m_buff[Slot(buf', length(buf) + (i - Len(queued)))]
              = src[i - Len(queued)]
        BY <2>1, <4>1
      <4>5. queued'[i] = buf'.m_buff[Slot(buf', j)]
        BY <4>2, <4>3, <4>4
      <4> QED
        BY <4>5 DEF j
    <3> QED
      BY <1>3, <3>1, <3>2
  <2> QED
    BY <1>2, <1>3, <2>1, <2>2, <2>4 DEF AcceptedBytesKept
<1>6. CASE Accepts(buf, len) /\ length(buf) = m_size
  <2>1. /\ length(buf') = len
        /\ \A k \in 1 .. len : buf'.m_buff[Slot(buf', k)] = src[k]
    BY <1>1, <1>2, <1>3, <1>6, AppendAfterRelapse
  <2>2. queued' = src
    BY <1>2, <1>3, <1>6 DEF KeptInv
  <2>3. Stale(buf', queued') = 0
    BY <1>2, <2>1, <2>2 DEF Stale
  <2> QED
    BY <1>2, <2>1, <2>2, <2>3 DEF AcceptedBytesKept
<1> QED
  BY <1>3, <1>4, <1>5, <1>6, SizeAssumption

LEMMA KeptPop ==
  ASSUME KeptInv, NEW len \in 0 .. m_size, Pop(len)
  PROVE  AcceptedBytesKept' /\ (length(buf) = m_size => queued = <<>>)'
<1> DEFINE n == Lesser(len, length(buf))
           L == length(buf)
           q == Len(queued)
           g == Genuine(buf, queued, len)
<1>1. /\ len \in Nat
      /\ buf \in Buffer
      /\ queued \in Seq(Byte)
      /\ L \in Nat /\ L <= m_size /\ m_size \in Nat
      /\ q \in 0 .. L
      /\ \A i \in 1 .. q : queued[i] = buf.m_buff[Slot(buf, (L - q) + i)]
      /\ L = m_size => queued = <<>>
  BY LengthBounds, SizeAssumption DEF KeptInv, TypeOK, AcceptedBytesKept, Stale
<1>2. len \in Nat /\ buf \in Buffer /\ buf' = pop(buf, len)
  BY <1>1 DEF Pop
<1>3. /\ n \in 0 .. L
      /\ buf'.m_buff = buf.m_buff
      /\ \/ /\ length(buf') = L - n
            /\ \A i \in 1 .. length(buf') : Slot(buf', i) = Slot(buf, n + i)
         \/ n = L /\ length(buf') = m_size
  BY <1>2, PopLeaves
<1>4. /\ g = IF n <= L - q THEN 0 ELSE n - (L - q)
      /\ queued' = SubSeq(queued, g + 1, q)
  BY DEF Pop, Genuine, Stale
<1> HIDE DEF n, L, g
<1>5. /\ g \in 0 .. q
      /\ q - g <= L - n
      /\ n = L => g = q
      /\ \A i \in 1 .. q - g : /\ (L - n) - (q - g) + i \in 1 .. L - n
                              /\ n + ((L - n) - (q - g) + i) = (L - q) + (g + i)
                              /\ g + i \in 1 .. q
  BY <1>1, <1>3, <1>4, PopArithmetic
<1>6. queued \in Seq(Byte) /\ g \in 0 .. Len(queued)
  BY <1>1, <1>5
<1>7. /\ Len(queued') = q - g
      /\ \A i \in 1 .. q - g : queued'[i] = queued[g + i]
      /\ g = q => queued' = <<>>
  BY <1>4, <1>6, DropFirst
<1>8. CASE n = L
  <2>1. queued' = <<>> /\ Len(queued') = 0
    BY <1>5, <1>7, <1>8
  <2>2. length(buf') \in Nat
    BY <1>1, <1>3
  <2> QED
    BY <2>1, <2>2 DEF AcceptedBytesKept
<1>9. CASE n # L
  <2>1. /\ length(buf') = L - n
        /\ \A i \in 1 .. length(buf') : Slot(buf', i) = Slot(buf, n + i)
    BY <1>3, <1>9
  <2>2. ASSUME NEW i \in 1 .. Len(queued')
        PROVE  queued'[i] = buf'.m_buff[Slot(buf', Stale(buf', queued') + i)]
    <3> DEFINE j == (L - n) - (q - g) + i
    <3>1. Stale(buf', queued') + i = j
      BY <1>7, <2>1 DEF Stale
    <3>2. /\ j \in 1 .. length(buf')
          /\ n + j = (L - q) + (g + i)
          /\ g + i \in 1 .. q
      BY <1>5, <1>7, <2>1
    <3>3. queued'[i] = queued[g + i]
      BY <1>7
    <3> HIDE DEF j
    <3>4. Slot(buf', j) = Slot(buf, (L - q) + (g + i))
      BY <2>1, <3>2
    <3> QED
      BY <1>1, <1>3, <3>1, <3>2, <3>3, <3>4
  <2>3. Len(queued') <= length(buf')
    BY <1>5, <1>7, <2>1
  <2>4. length(buf') = m_size => queued' = <<>>
    BY <1>1, <1>3, <1>5, <1>7, <2>1
  <2> QED
    BY <2>2, <2>3, <2>4 DEF AcceptedBytesKept
<1> QED
  BY <1>8, <1>9

LEMMA KeptInit == Init => KeptInv
<1> SUFFICES ASSUME Init PROVE KeptInv
  OBVIOUS
<1>1. TypeOK
  BY SizeAssumption DEF Init, TypeOK, NewBuffer, Buffer, Index
<1>2. length(buf) = 0 /\ queued = <<>>
  BY DEF Init, NewBuffer, length
<1> QED
  BY <1>1, <1>2, SizeAssumption DEF KeptInv, AcceptedBytesKept

LEMMA KeptStep ==
  ASSUME MaxChunk < m_size, "appendByte" \notin Writers, KeptInv, TypeOK', [Next]_vars
  PROVE  KeptInv'
<1>1. ASSUME NEW src \in Chunk, AppendChunk(src) PROVE KeptInv'
  BY <1>1, KeptAppend DEF KeptInv
<1>2. ASSUME NEW byte \in Byte, AppendOne(byte) PROVE KeptInv'
  BY <1>2 DEF AppendOne
<1>3. ASSUME NEW len \in 0 .. m_size, Peek(len) PROVE KeptInv'
  BY <1>3 DEF Peek, KeptInv, AcceptedBytesKept, Stale
<1>4. ASSUME NEW len \in 0 .. m_size, Pop(len) PROVE KeptInv'
  BY <1>4, KeptPop DEF KeptInv
<1>5. CASE UNCHANGED vars
  BY <1>5 DEF vars, KeptInv, AcceptedBytesKept, Stale
<1> QED
  BY <1>1, <1>2, <1>3, <1>4, <1>5 DEF Next

THEOREM BytesKept ==
  ASSUME MaxChunk < m_size, "appendByte" \notin Writers
  PROVE  Spec => []AcceptedBytesKept
<1>1. KeptInv /\ TypeOK' /\ [Next]_vars => KeptInv'
  BY KeptStep
<1>2. KeptInv => AcceptedBytesKept
  BY DEF KeptInv
<1> QED
  BY <1>1, <1>2, KeptInit, TypeCorrect, PTL DEF Spec
-----------------------------------------------------------------------------
(* Memory accesses, for chunks up to the size of the array.                *)

\* Only an append leaves the write position behind the array.
ComesBack == buf.m_idxw = m_size => last = "append"

LEMMA BytesComeBack == Spec => []ComesBack
<1>1. Init => ComesBack
  BY SizeAssumption DEF Init, NewBuffer, ComesBack
<1>2. TypeOK /\ ComesBack /\ [Next]_vars => ComesBack'
  <2> SUFFICES ASSUME TypeOK, ComesBack, [Next]_vars PROVE ComesBack'
    OBVIOUS
  <2>0. buf \in Buffer
    BY DEF TypeOK
  <2>1. ASSUME NEW src \in Chunk, AppendChunk(src) PROVE ComesBack'
    BY <2>1 DEF AppendChunk, append, ComesBack
  <2>2. ASSUME NEW byte \in Byte, AppendOne(byte) PROVE ComesBack'
    BY <2>0, <2>2, SizeAssumption DEF AppendOne, appendByte, Buffer, ComesBack
  <2>3. ASSUME NEW len \in 0 .. m_size, Peek(len) \/ Pop(len) PROVE ComesBack'
    BY <2>0, <2>3 DEF Peek, Pop, pop, Buffer, ComesBack
  <2>4. CASE UNCHANGED vars
    BY <2>4 DEF vars, ComesBack
  <2> QED
    BY <2>1, <2>2, <2>3, <2>4 DEF Next
<1> QED
  BY <1>1, <1>2, TypeCorrect, PTL DEF Spec

\* Every store of an accepted append or appendByte and every load of peek is
\* inside the array, also after freebyte has wrapped, but for an appendByte behind
\* an append that ended on the last element, and that one misses by one byte.
THEOREM AccessesInBounds == Spec => []AccessInBounds
<1>1. TypeOK /\ ComesBack => AccessInBounds
  <2> SUFFICES ASSUME TypeOK, ComesBack
               PROVE  AccessInBounds
    OBVIOUS
  <2>1. buf \in Buffer
    BY DEF TypeOK
  <2>2. ASSUME NEW len \in 1 .. MaxChunk, Accepts(buf, len)
        PROVE  /\ buf.m_idxw + FirstSegment(buf, len) <= m_size
               /\ len - FirstSegment(buf, len) <= m_size
    <3>1. len \in 1 .. m_size
      BY ChunkAssumption, SizeAssumption
    <3>2. /\ FirstSegment(buf, len) \in 0 .. len
          /\ buf.m_idxw + FirstSegment(buf, len) <= m_size
      BY <2>1, <2>2, <3>1, SegmentsFit
    <3> QED
      BY <3>1, <3>2, SizeAssumption
  <2>3. /\ buf.m_idxr <= buf.m_idxw => buf.m_idxr + length(buf) <= m_size
        /\ length(buf) <= m_size
    BY <2>1, SizeAssumption DEF Buffer, Index, length
  <2>4. buf.m_idxw < m_size \/ (buf.m_idxw = m_size /\ last = "append")
    BY <2>1, SizeAssumption DEF Buffer, Index, ComesBack
  <2> QED
    BY <2>2, <2>3, <2>4 DEF AccessInBounds
<1> QED
  BY <1>1, BytesComeBack, TypeCorrect, PTL

WrittenInv == TypeOK /\ Written(buf) /\ NothingUninitialised

\* pop and peek never return an array element that was never written.
THEOREM NothingUninitialisedRead == Spec => []NothingUninitialised
<1>1. Init => WrittenInv
  <2> SUFFICES ASSUME Init PROVE WrittenInv
    OBVIOUS
  <2>1. TypeOK
    BY SizeAssumption DEF Init, TypeOK, NewBuffer, Buffer, Index
  <2>2. Written(buf)
    BY SizeAssumption DEF Init, NewBuffer, Written, Index
  <2> QED
    BY <2>1, <2>2 DEF WrittenInv, NothingUninitialised, Init
<1>2. WrittenInv /\ TypeOK' /\ [Next]_vars => WrittenInv'
  <2> SUFFICES ASSUME WrittenInv, TypeOK', [Next]_vars PROVE WrittenInv'
    OBVIOUS
  <2> USE DEF WrittenInv, TypeOK
  <2>1. ASSUME NEW src \in Chunk, AppendChunk(src) PROVE WrittenInv'
    BY <2>1, ChunkType, WrittenAppend DEF AppendChunk, NothingUninitialised
  <2>2. ASSUME NEW byte \in Byte, AppendOne(byte) PROVE WrittenInv'
    BY <2>2, WrittenAppendByte DEF AppendOne, NothingUninitialised
  <2>3. ASSUME NEW len \in 0 .. m_size, Peek(len) PROVE WrittenInv'
    BY <2>3, WrittenReadable, SizeAssumption DEF Peek, NothingUninitialised
  <2>4. ASSUME NEW len \in 0 .. m_size, Pop(len) PROVE WrittenInv'
    BY <2>4, WrittenReadable, WrittenPop, SizeAssumption DEF Pop, NothingUninitialised
  <2>5. CASE UNCHANGED vars
    BY <2>5 DEF vars, NothingUninitialised
  <2> QED
    BY <2>1, <2>2, <2>3, <2>4, <2>5 DEF Next
<1>3. WrittenInv => NothingUninitialised
  BY DEF WrittenInv
<1> QED
  BY <1>1, <1>2, <1>3, TypeCorrect, PTL DEF Spec
-----------------------------------------------------------------------------
(* The refinement of ByteQueue, for the use that AppConn makes of the      *)
(* buffer.                                                                 *)

\* KeptInv says where the accepted bytes are, Written that all bytes returned
\* are bytes.
QueueInv == KeptInv /\ Written(buf)

LEMMA QueueInvariance ==
  ASSUME MaxChunk < m_size, "appendByte" \notin Writers
  PROVE  Spec => []QueueInv
<1>1. Init => QueueInv
  BY KeptInit DEF QueueInv, Init, NewBuffer, Written, Index
<1>2. QueueInv /\ TypeOK' /\ [Next]_vars => QueueInv'
  <2> SUFFICES ASSUME QueueInv, TypeOK', [Next]_vars PROVE QueueInv'
    OBVIOUS
  <2>1. KeptInv'
    BY KeptStep DEF QueueInv
  <2>2. Written(buf)'
    <3>1. buf \in Buffer /\ Written(buf)
      BY DEF QueueInv, KeptInv, TypeOK
    <3>2. ASSUME NEW src \in Chunk, AppendChunk(src) PROVE Written(buf')
      BY <3>1, <3>2, ChunkType, WrittenAppend DEF AppendChunk
    <3>3. ASSUME NEW byte \in Byte, AppendOne(byte) PROVE Written(buf')
      BY <3>3 DEF AppendOne
    <3>4. ASSUME NEW len \in 0 .. m_size, Peek(len) \/ Pop(len) PROVE Written(buf')
      BY <3>1, <3>4, WrittenPop, SizeAssumption DEF Peek, Pop
    <3>5. CASE UNCHANGED vars
      BY <3>1, <3>5 DEF vars
    <3> QED
      BY <3>2, <3>3, <3>4, <3>5 DEF Next
  <2> QED
    BY <2>1, <2>2 DEF QueueInv
<1> QED
  BY <1>1, <1>2, TypeCorrect, PTL DEF Spec

\* What stands from position j + 1 of one sequence on stands at the front of
\* the other.
LEMMA SamePart ==
  ASSUME NEW S, NEW o \in Seq(S), NEW q \in Seq(S), NEW n \in 0 .. Len(o), NEW j \in 0 .. n,
         n - j <= Len(q),
         \A i \in 1 .. n - j : o[j + i] = q[i]
  PROVE  SubSeq(o, j + 1, n) = SubSeq(q, 1, n - j)
<1>1. /\ Len(SubSeq(o, j + 1, n)) = n - j
      /\ Len(SubSeq(q, 1, n - j)) = n - j
  OBVIOUS
<1>2. ASSUME NEW i \in 1 .. n - j
      PROVE  SubSeq(o, j + 1, n)[i] = SubSeq(q, 1, n - j)[i]
  <2>1. SubSeq(o, j + 1, n)[i] = o[j + i]
    OBVIOUS
  <2>2. SubSeq(q, 1, n - j)[i] = q[i]
    OBVIOUS
  <2> QED
    BY <2>1, <2>2
<1>3. SubSeq(o, j + 1, n) \in Seq(S)
  <2>1. j + 1 \in 1 .. Len(o) + 1 /\ n \in Nat /\ n <= Len(o)
    OBVIOUS
  <2>2. \A i \in j + 1 .. n : o[i] \in S
    BY <2>1
  <2> QED
    BY <2>1, <2>2
<1>4. SubSeq(q, 1, n - j) \in Seq(S)
  <2>1. n - j \in 0 .. Len(q)
    OBVIOUS
  <2> QED
    BY <2>1
<1> QED
  BY <1>1, <1>2, <1>3, <1>4

\* peek and pop return what the queue delivers.
LEMMA PeekDelivers ==
  ASSUME QueueInv, NEW len \in 0 .. m_size, out' = peek(buf, len)
  PROVE  /\ BQ!Delivers(len)
         /\ BQ!Returned(len) = Lesser(len, length(buf))
         /\ BQ!Returned(len) - BQ!Junk(len) = Genuine(buf, queued, len)
<1> DEFINE n == Lesser(len, length(buf))
           L == length(buf)
           q == Len(queued)
           j == IF n <= L - q THEN n ELSE L - q
<1>1. /\ len \in Nat /\ buf \in Buffer /\ Written(buf)
      /\ queued \in Seq(Byte)
      /\ L \in Nat
      /\ q \in 0 .. L
      /\ \A i \in 1 .. q : queued[i] = buf.m_buff[Slot(buf, (L - q) + i)]
  BY LengthBounds, SizeAssumption DEF QueueInv, KeptInv, TypeOK, AcceptedBytesKept, Stale
<1>2. /\ n \in 0 .. L
      /\ peek(buf, len) = [i \in 1 .. n |-> buf.m_buff[Slot(buf, i)]]
  BY <1>1, PeekIsReadable
<1>3. \A i \in 1 .. Len(peek(buf, len)) : peek(buf, len)[i] \in Byte
  BY <1>1, WrittenReadable
<1>4. n = IF len <= L THEN len ELSE L
  BY DEF Lesser
<1>5. Stale(buf, queued) = L - q
  BY DEF Stale
<1>6. Genuine(buf, queued, len) = IF n <= L - q THEN 0 ELSE n - (L - q)
  BY DEF Genuine, Stale
<1> HIDE DEF n, L
<1>7. BQ!Returned(len) = n
  BY <1>1, <1>4, <1>5 DEF BQ!Returned
<1>8. BQ!Junk(len) = j
  BY <1>5, <1>7 DEF BQ!Junk
<1>9. j \in 0 .. n /\ n - j = Genuine(buf, queued, len) /\ n - j <= q
  BY <1>1, <1>2, <1>6
<1>10. out' \in Seq(Byte) /\ Len(out') = n
  BY <1>2, <1>3
<1>11. ASSUME NEW i \in 1 .. n - j
       PROVE  out'[j + i] = queued[i]
  <2>1. j = L - q /\ j + i \in 1 .. n /\ i \in 1 .. q
    BY <1>1, <1>2, <1>9
  <2>2. out'[j + i] = buf.m_buff[Slot(buf, j + i)]
    BY <1>2, <2>1
  <2> HIDE DEF j
  <2> QED
    BY <1>1, <2>1, <2>2
<1> HIDE DEF j
<1>12. SubSeq(out', j + 1, n) = SubSeq(queued, 1, n - j)
  BY <1>1, <1>9, <1>10, <1>11, SamePart
<1>13. BQ!Delivers(len)
  BY <1>7, <1>8, <1>10, <1>12 DEF BQ!Delivers
<1> QED
  BY <1>7, <1>8, <1>9, <1>13 DEF n

\* A sequence with another behind it.
LEMMA ExtendsFront ==
  ASSUME NEW S, NEW q \in Seq(S), NEW a \in Seq(S)
  PROVE  /\ q \o a \in Seq(S)
         /\ Len(q \o a) = Len(q) + Len(a)
         /\ SubSeq(q \o a, 1, Len(q)) = q
<1>1. Len(SubSeq(q \o a, 1, Len(q))) = Len(q)
  OBVIOUS
<1>2. \A i \in 1 .. Len(q) : SubSeq(q \o a, 1, Len(q))[i] = q[i]
  OBVIOUS
<1> QED
  BY <1>1, <1>2

LEMMA AppendRefines ==
  ASSUME MaxChunk < m_size, QueueInv, NEW src \in Chunk, AppendChunk(src)
  PROVE  BQ!Accept \/ UNCHANGED BQ!bqVars
<1>1. PICK len \in 1 .. MaxChunk : src \in [1 .. len -> Byte]
  BY DEF Chunk
<1>2. /\ len \in 1 .. m_size /\ Len(src) = len
      /\ src \in Seq(Byte)
      /\ len < m_size
  BY <1>1, ChunkAssumption, SizeAssumption
<1>3. /\ buf \in Buffer
      /\ queued \in Seq(Byte)
      /\ Len(queued) <= length(buf)
      /\ length(buf) = m_size => queued = <<>>
      /\ length(buf) \in 0 .. m_size
      /\ buf' = append(buf, src)
      /\ queued' = IF Accepts(buf, len) THEN queued \o src ELSE queued
      /\ out' = out
  BY <1>2, LengthBounds DEF QueueInv, KeptInv, TypeOK, AcceptedBytesKept, AppendChunk
<1>4. CASE ~ Accepts(buf, len)
  BY <1>2, <1>3, <1>4 DEF append, BQ!bqVars, Stale
<1>5. CASE Accepts(buf, len)
  <2>1. /\ queued' = queued \o src
        /\ queued' \in Seq(Byte)
        /\ Len(queued') = Len(queued) + len
        /\ SubSeq(queued', 1, Len(queued)) = queued
    BY <1>2, <1>3, <1>5, ExtendsFront
  <2>2. /\ Len(queued') < m_size
        /\ Stale(buf', queued') \in {0, Stale(buf, queued)}
    <3>1. CASE length(buf) < m_size
      <4>1. length(buf') = length(buf) + len /\ length(buf') < m_size
        BY <1>1, <1>2, <1>3, <1>5, <3>1, AppendBehind
      <4>2. Len(queued) \in Nat /\ length(buf) \in Nat /\ Len(queued) <= length(buf)
        BY <1>3
      <4>3. length(buf') - Len(queued') = length(buf) - Len(queued)
        BY <1>2, <2>1, <4>1, <4>2
      <4>4. Len(queued') < m_size
        BY <1>2, <2>1, <4>1, <4>2, SizeAssumption
      <4> QED
        BY <4>3, <4>4 DEF Stale
    <3>2. CASE length(buf) = m_size
      <4>1. length(buf') = len
        BY <1>1, <1>2, <1>3, <1>5, <3>2, AppendAfterRelapse
      <4>2. Len(queued) = 0
        BY <1>3, <3>2
      <4> QED
        BY <1>2, <2>1, <4>1, <4>2 DEF Stale
    <3> QED
      BY <1>3, <3>1, <3>2, SizeAssumption
  <2> QED
    BY <1>1, <1>3, <2>1, <2>2 DEF BQ!Accept
<1> QED
  BY <1>4, <1>5

LEMMA PopRefines ==
  ASSUME QueueInv, NEW len \in 0 .. m_size, Pop(len)
  PROVE  BQ!Take
<1> DEFINE n == Lesser(len, length(buf))
           L == length(buf)
           q == Len(queued)
           g == Genuine(buf, queued, len)
<1>1. /\ len \in Nat /\ buf \in Buffer
      /\ queued \in Seq(Byte)
      /\ L \in Nat /\ q \in 0 .. L
  BY LengthBounds, SizeAssumption DEF QueueInv, KeptInv, TypeOK, AcceptedBytesKept
<1>2. /\ out' = peek(buf, len)
      /\ buf' = pop(buf, len)
      /\ queued' = SubSeq(queued, g + 1, q)
  BY DEF Pop
<1>3. /\ BQ!Delivers(len)
      /\ BQ!Returned(len) = n
      /\ BQ!Returned(len) - BQ!Junk(len) = g
  BY <1>2, PeekDelivers
<1>4. /\ n \in 0 .. L
      /\ length(buf') = L - n \/ (n = L /\ length(buf') = m_size)
  BY <1>1, <1>2, PopLeaves
<1>5. g = IF n <= L - q THEN 0 ELSE n - (L - q)
  BY DEF Genuine, Stale
<1>6. Stale(buf, queued) = L - q
  BY DEF Stale
<1>7. BQ!Junk(len) \in Int
  BY <1>1, <1>3, <1>4, <1>6 DEF BQ!Junk
<1> HIDE DEF n, L, g
<1>8. /\ g \in 0 .. q
      /\ n = L => g = q
  BY <1>1, <1>4, <1>5, PopArithmetic
<1>9. /\ Len(queued') = q - g
      /\ g = q => queued' = <<>>
  BY <1>1, <1>2, <1>8, DropFirst
<1>10. Stale(buf', queued') = length(buf') - (q - g)
  BY <1>9 DEF Stale
<1>11. BQ!Junk(len) = n - g
  BY <1>1, <1>3, <1>4, <1>7, <1>8
<1>12. \/ Stale(buf', queued') = Stale(buf, queued) - BQ!Junk(len)
       \/ BQ!Relapse(len)
  <2>1. CASE length(buf') = L - n
    BY <1>1, <1>4, <1>6, <1>8, <1>10, <1>11, <2>1
  <2>2. CASE n = L /\ length(buf') = m_size
    BY <1>1, <1>3, <1>6, <1>8, <1>10, <2>2, SizeAssumption DEF BQ!Relapse
  <2> QED
    BY <1>4, <2>1, <2>2
<1>13. queued' = SubSeq(queued, BQ!Returned(len) - BQ!Junk(len) + 1, Len(queued))
  BY <1>2, <1>3
<1> QED
  BY <1>3, <1>12, <1>13 DEF BQ!Take

\* The program's loop buffer implements the queue of ByteQueue for every array
\* size and every interleaving of append, peek and pop, as AppConn uses it for
\* its replies: chunks shorter than the array, no appendByte.
THEOREM BufferIsByteQueue ==
  ASSUME MaxChunk < m_size, "appendByte" \notin Writers
  PROVE  Spec => ImplementsByteQueue
<1>1. Init => BQ!BQInit
  BY DEF Init, NewBuffer, BQ!BQInit, Stale, length
<1>2. QueueInv /\ [Next]_vars => [BQ!BQNext]_(BQ!bqVars)
  <2> SUFFICES ASSUME QueueInv, [Next]_vars PROVE BQ!BQNext \/ UNCHANGED BQ!bqVars
    OBVIOUS
  <2>1. ASSUME NEW src \in Chunk, AppendChunk(src)
        PROVE  BQ!Accept \/ UNCHANGED BQ!bqVars
    BY <2>1, AppendRefines
  <2>2. ASSUME NEW byte \in Byte, AppendOne(byte) PROVE FALSE
    BY <2>2 DEF AppendOne
  <2>3. ASSUME NEW len \in 0 .. m_size, Peek(len) PROVE BQ!Read
    <3>1. BQ!Delivers(len)
      BY <2>3, PeekDelivers DEF Peek
    <3> QED
      BY <2>3, <3>1 DEF Peek, BQ!Read, Stale
  <2>4. ASSUME NEW len \in 0 .. m_size, Pop(len) PROVE BQ!Take
    BY <2>4, PopRefines
  <2>5. CASE UNCHANGED vars
    BY <2>5 DEF vars, BQ!bqVars, Stale
  <2> QED
    BY <2>1, <2>2, <2>3, <2>4, <2>5 DEF Next, BQ!BQNext
<1> QED
  BY <1>1, <1>2, QueueInvariance, PTL DEF Spec, ImplementsByteQueue, BQ!BQSpec
=============================================================================
