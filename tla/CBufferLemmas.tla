---------------------------- MODULE CBufferLemmas ----------------------------
(***************************************************************************)
(* What the operations of the loop buffer compute, for every array size.   *)
(* These are facts about single calls; CBufferProofs uses them for a       *)
(* buffer and SocketServerProofs for the buffers of all connections.       *)
(***************************************************************************)
EXTENDS CBuffer, TLAPS

-----------------------------------------------------------------------------
(* Arithmetic of the indices.                                              *)

LEMMA ModBelow == \A x \in Nat : x < m_size => x % m_size = x
BY SizeAssumption

LEMMA ModOnce ==
  \A x \in Nat : m_size <= x /\ x < 2 * m_size => x % m_size = x - m_size
BY SizeAssumption

LEMMA ModRange == \A x \in Nat : x % m_size \in Index
BY SizeAssumption DEF Index

\* length is at most m_size, and m_size only with the indices at both ends.
LEMMA LengthBounds ==
  ASSUME NEW b \in Buffer
  PROVE  /\ length(b) \in 0 .. m_size
         /\ length(b) = m_size => b.m_idxr = 0 /\ b.m_idxw = m_size
BY SizeAssumption DEF length, Buffer, Index

\* freebyte is exact unless the length is m_size.
LEMMA FreeByte ==
  ASSUME NEW b \in Buffer, length(b) < m_size
  PROVE  freebyte(b) = m_size - length(b) - 1
<1>1. length(b) \in 0 .. m_size
  BY LengthBounds
<1>2. \A x \in Nat : x < Modulus => x % Modulus = x
  BY ModulusAssumption
<1> QED
  BY <1>1, <1>2, SizeAssumption, ModulusAssumption DEF freebyte

\* What pop does to the read position.
LEMMA PopIndex ==
  ASSUME NEW b \in Buffer, NEW n \in 0 .. length(b)
  PROVE  /\ (b.m_idxr + n) % m_size \in Index
         /\ (b.m_idxr + n) % m_size = IF b.m_idxr + n < m_size
                                      THEN b.m_idxr + n
                                      ELSE b.m_idxr + n - m_size
<1>1. /\ b.m_idxr \in Index
      /\ b.m_idxr + n < 2 * m_size
  BY SizeAssumption DEF Buffer, Index, length
<1>2. b.m_idxr + n \in Nat
  BY <1>1, LengthBounds, SizeAssumption DEF Index
<1> QED
  BY <1>1, <1>2, SizeAssumption, ModBelow, ModOnce DEF Index

-----------------------------------------------------------------------------
(* What each operation returns.                                            *)

LEMMA LesserFacts ==
  ASSUME NEW x \in Nat, NEW y \in Nat
  PROVE  /\ Lesser(x, y) \in Nat
         /\ Lesser(x, y) <= x
         /\ Lesser(x, y) <= y
         /\ Lesser(x, y) = x \/ Lesser(x, y) = y
BY DEF Lesser

\* peek copies the first n readable bytes, in order.
LEMMA PeekIsReadable ==
  ASSUME NEW b \in Buffer, NEW len \in Nat
  PROVE  LET n == Lesser(len, length(b)) IN
         /\ n \in 0 .. length(b)
         /\ \A i \in 1 .. n : Slot(b, i) \in Index
         /\ peek(b, len) = [i \in 1 .. n |-> b.m_buff[Slot(b, i)]]
<1> DEFINE n    == Lesser(len, length(b))
           seg1 == IF b.m_idxr <= b.m_idxw THEN n ELSE Lesser(m_size - b.m_idxr, n)
<1>0. /\ b.m_idxr \in 0 .. m_size - 1
      /\ b.m_idxw \in 0 .. m_size
      /\ m_size \in Nat
  BY SizeAssumption DEF Buffer, Index
<1>1. n \in 0 .. length(b)
  BY LengthBounds, LesserFacts
<1>2. \A i \in 1 .. n : Slot(b, i) \in Index
  BY <1>0, <1>1 DEF Slot, Index, length
<1>3. \A i \in 1 .. n : Slot(b, i) = IF i <= seg1 THEN b.m_idxr + i - 1 ELSE i - seg1 - 1
  BY <1>0, <1>1 DEF Slot, length, Lesser
<1>4. peek(b, len) = [i \in 1 .. n |-> IF i <= seg1 THEN b.m_buff[b.m_idxr + i - 1]
                                                    ELSE b.m_buff[i - seg1 - 1]]
  BY DEF peek
<1> QED
  BY <1>1, <1>2, <1>3, <1>4

\* pop moves the read position and nothing else; what stays readable is what
\* stood behind the n bytes it returned, unless the indices fall back to both
\* ends of the array.
LEMMA PopLeaves ==
  ASSUME NEW b \in Buffer, NEW len \in Nat
  PROVE  /\ Lesser(len, length(b)) \in 0 .. length(b)
         /\ pop(b, len) \in Buffer
         /\ pop(b, len).m_buff = b.m_buff
         /\ pop(b, len).m_idxw = b.m_idxw
         /\ \/ /\ length(pop(b, len)) = length(b) - Lesser(len, length(b))
               /\ \A i \in 1 .. length(pop(b, len)) :
                    Slot(pop(b, len), i) = Slot(b, Lesser(len, length(b)) + i)
            \/ /\ Lesser(len, length(b)) = length(b)
               /\ length(pop(b, len)) = m_size
<1> SUFFICES ASSUME NEW n, n = Lesser(len, length(b)),
                    NEW c, c = pop(b, len)
             PROVE  /\ n \in 0 .. length(b)
                    /\ c \in Buffer
                    /\ c.m_buff = b.m_buff
                    /\ c.m_idxw = b.m_idxw
                    /\ \/ /\ length(c) = length(b) - n
                          /\ \A i \in 1 .. length(c) : Slot(c, i) = Slot(b, n + i)
                       \/ n = length(b) /\ length(c) = m_size
  OBVIOUS
<1>0. /\ b.m_idxr \in 0 .. m_size - 1
      /\ b.m_idxw \in 0 .. m_size
      /\ m_size \in Nat /\ m_size > 1
  BY SizeAssumption DEF Buffer, Index
<1>1. n \in 0 .. length(b)
  BY LengthBounds, LesserFacts
<1>2. c = [b EXCEPT !.m_idxr = (b.m_idxr + n) % m_size]
  BY DEF pop
<1>3. /\ (b.m_idxr + n) % m_size \in Index
      /\ (b.m_idxr + n) % m_size = IF b.m_idxr + n < m_size
                                   THEN b.m_idxr + n
                                   ELSE b.m_idxr + n - m_size
  BY <1>1, PopIndex
<1>4. /\ c \in Buffer
      /\ c.m_buff = b.m_buff
      /\ c.m_idxw = b.m_idxw
      /\ c.m_idxr = IF b.m_idxr + n < m_size THEN b.m_idxr + n
                                             ELSE b.m_idxr + n - m_size
  BY <1>2, <1>3 DEF Buffer
<1>5. CASE b.m_idxr + n < m_size
  BY <1>0, <1>1, <1>4, <1>5 DEF length, Slot
<1>6. CASE b.m_idxr + n >= m_size /\ b.m_idxw < b.m_idxr
  BY <1>0, <1>1, <1>4, <1>6 DEF length, Slot
<1>7. CASE b.m_idxr + n >= m_size /\ b.m_idxw >= b.m_idxr
  BY <1>0, <1>1, <1>4, <1>7 DEF length, Slot
<1> QED
  BY <1>0, <1>1, <1>5, <1>6, <1>7, LengthBounds

\* The two segments of an accepted append fit the array, whatever freebyte is.
LEMMA SegmentsFit ==
  ASSUME NEW b \in Buffer, NEW len \in 1 .. m_size, Accepts(b, len),
         NEW seg1, seg1 = FirstSegment(b, len)
  PROVE  /\ seg1 \in 0 .. len
         /\ b.m_idxw + seg1 <= m_size
         /\ b.m_idxw < b.m_idxr => seg1 = len /\ b.m_idxw + len < b.m_idxr
         /\ b.m_idxw >= b.m_idxr =>
              seg1 = IF m_size - b.m_idxw >= len THEN len ELSE m_size - b.m_idxw
         /\ length(b) < m_size => length(b) + len < m_size - 1
<1>0. /\ b.m_idxr \in 0 .. m_size - 1
      /\ b.m_idxw \in 0 .. m_size
      /\ m_size \in Nat /\ m_size > 1
  BY SizeAssumption DEF Buffer, Index
<1>1. length(b) < m_size => len < m_size - length(b) - 1
  BY FreeByte DEF Accepts
<1>2. b.m_idxw < b.m_idxr => length(b) = b.m_idxw + m_size - b.m_idxr
  BY <1>0 DEF length
<1>3. length(b) \in 0 .. m_size
  BY LengthBounds
<1> QED
  BY <1>0, <1>1, <1>2, <1>3 DEF FirstSegment, Lesser

\* The record an accepted append leaves.
LEMMA AppendRecord ==
  ASSUME NEW b \in Buffer, NEW len \in 1 .. m_size, NEW src \in [1 .. len -> Byte],
         Accepts(b, len),
         NEW c, c = append(b, src),
         NEW seg1, seg1 = FirstSegment(b, len)
  PROVE  /\ c \in Buffer
         /\ c.m_idxr = b.m_idxr
         /\ c.m_idxw = IF len > seg1 THEN len - seg1 ELSE b.m_idxw + len
         /\ \A i \in Index :
              c.m_buff[i] = IF i < len - seg1 THEN src[seg1 + i + 1]
                            ELSE IF i \in b.m_idxw .. b.m_idxw + seg1 - 1
                                 THEN src[i - b.m_idxw + 1]
                                 ELSE b.m_buff[i]
<1> DEFINE newbuff == [i \in Index |->
                         IF i < len - seg1 THEN src[seg1 + i + 1]
                         ELSE IF i \in b.m_idxw .. b.m_idxw + seg1 - 1
                              THEN src[i - b.m_idxw + 1]
                              ELSE b.m_buff[i]]
           newidxw == IF len - seg1 > 0 THEN len - seg1 ELSE b.m_idxw + len
<1>0. /\ b.m_idxr \in 0 .. m_size - 1
      /\ b.m_idxw \in 0 .. m_size
      /\ b.m_buff \in [Index -> Byte \cup {Uninit}]
      /\ m_size \in Nat /\ m_size > 1
  BY SizeAssumption DEF Buffer, Index
<1>1. Len(src) = len
  OBVIOUS
<1>2. /\ seg1 \in 0 .. len
      /\ b.m_idxw + seg1 <= m_size
  BY SegmentsFit
<1>3. c = [b EXCEPT !.m_buff = newbuff, !.m_idxw = newidxw]
  BY <1>1 DEF append
<1>4. newidxw \in 0 .. m_size
  BY <1>0, <1>2
<1>5. newbuff \in [Index -> Byte \cup {Uninit}]
  <2>1. ASSUME NEW i \in Index
        PROVE  newbuff[i] \in Byte \cup {Uninit}
    <3>1. CASE i < len - seg1
      BY <1>2, <3>1 DEF Index
    <3>2. CASE ~ i < len - seg1 /\ i \in b.m_idxw .. b.m_idxw + seg1 - 1
      <4>1. i - b.m_idxw + 1 \in 1 .. len
        BY <1>0, <1>2, <3>2, SMTT(20) DEF Index
      <4> QED
        BY <3>2, <4>1
    <3>3. CASE ~ i < len - seg1 /\ i \notin b.m_idxw .. b.m_idxw + seg1 - 1
      BY <1>0, <3>3
    <3> QED
      BY <3>1, <3>2, <3>3
  <2> QED
    BY <2>1
<1>6. newidxw = IF len > seg1 THEN len - seg1 ELSE b.m_idxw + len
  BY <1>2
<1> HIDE DEF newidxw
<1>7. /\ c \in Buffer
      /\ c.m_idxr = b.m_idxr
      /\ c.m_idxw = newidxw
      /\ c.m_buff = newbuff
  <2> HIDE DEF newbuff
  <2> QED BY <1>3, <1>4, <1>5 DEF Buffer
<1> QED
  BY <1>6, <1>7

\* Positions in the array, without records: r and w are the indices, L the
\* length, and an append of len bytes has a first segment of seg1 bytes.  The
\* i-th readable byte is not overwritten, the k-th new byte lands behind it.
LEMMA SlotArithmetic ==
  ASSUME NEW m \in Nat, NEW r \in 0 .. m - 1, NEW w \in 0 .. m,
         NEW L \in 0 .. m, L = IF w >= r THEN w - r ELSE w + m - r,
         NEW len \in 1 .. m, L + len < m - 1,
         NEW seg1 \in 0 .. len,
         seg1 = IF w < r \/ m - w >= len THEN len ELSE m - w
  PROVE  /\ LET v == IF len > seg1 THEN len - seg1 ELSE w + len
            IN  L + len = IF v >= r THEN v - r ELSE v + m - r
         /\ \A i \in 1 .. L :
              LET s == IF r + i - 1 < m THEN r + i - 1 ELSE r + i - 1 - m
              IN  /\ s \in 0 .. m - 1
                  /\ ~ s < len - seg1
                  /\ s \notin w .. w + seg1 - 1
         /\ \A k \in 1 .. len :
              LET s == IF r + (L + k) - 1 < m THEN r + (L + k) - 1
                                              ELSE r + (L + k) - 1 - m
              IN  /\ s \in 0 .. m - 1
                  /\ k <= seg1 => s = w + k - 1 /\ ~ s < len - seg1
                  /\ k > seg1  => s = k - seg1 - 1 /\ s < len - seg1
OBVIOUS

\* An append into a buffer whose length is exact writes the new bytes behind
\* the readable ones and touches none of them.
LEMMA AppendBehind ==
  ASSUME NEW b \in Buffer, NEW len \in 1 .. m_size, NEW src \in [1 .. len -> Byte],
         Accepts(b, len), length(b) < m_size,
         NEW c, c = append(b, src)
  PROVE  /\ c \in Buffer
         /\ length(c) = length(b) + len
         /\ length(c) < m_size
         /\ \A i \in 1 .. length(b) :
              c.m_buff[Slot(c, i)] = b.m_buff[Slot(b, i)]
         /\ \A k \in 1 .. len : c.m_buff[Slot(c, length(b) + k)] = src[k]
<1> DEFINE seg1 == FirstSegment(b, len)
           L    == length(b)
           r    == b.m_idxr
           w    == b.m_idxw
<1>0. /\ m_size \in Nat
      /\ r \in 0 .. m_size - 1
      /\ w \in 0 .. m_size
      /\ L \in 0 .. m_size
      /\ L = IF w >= r THEN w - r ELSE w + m_size - r
  BY SizeAssumption, LengthBounds DEF Buffer, Index, length
<1>1. /\ seg1 \in 0 .. len
      /\ seg1 = IF w < r \/ m_size - w >= len THEN len ELSE m_size - w
      /\ L + len < m_size - 1
  BY SegmentsFit, <1>0
<1>2. /\ c \in Buffer
      /\ c.m_idxr = r
      /\ c.m_idxw = IF len > seg1 THEN len - seg1 ELSE w + len
  BY AppendRecord
<1>3. \A i \in Index :
        c.m_buff[i] = IF i < len - seg1 THEN src[seg1 + i + 1]
                      ELSE IF i \in w .. w + seg1 - 1
                           THEN src[i - w + 1]
                           ELSE b.m_buff[i]
  BY AppendRecord
<1>4. \A i \in Int : /\ Slot(c, i) = Slot(b, i)
                    /\ Slot(b, i) = IF r + i - 1 < m_size THEN r + i - 1
                                                          ELSE r + i - 1 - m_size
  BY <1>2 DEF Slot
<1> HIDE DEF seg1, L, r, w
<1>5. length(c) = L + len
  BY <1>0, <1>1, <1>2, SlotArithmetic DEF length
<1>6. ASSUME NEW i \in 1 .. L
      PROVE  c.m_buff[Slot(c, i)] = b.m_buff[Slot(b, i)]
  <2>1. /\ Slot(b, i) \in 0 .. m_size - 1
        /\ ~ Slot(b, i) < len - seg1
        /\ Slot(b, i) \notin w .. w + seg1 - 1
    BY <1>0, <1>1, <1>4, SlotArithmetic
  <2> QED
    BY <1>3, <1>4, <2>1 DEF Index
<1>7. ASSUME NEW k \in 1 .. len
      PROVE  c.m_buff[Slot(c, L + k)] = src[k]
  <2> DEFINE s == Slot(c, L + k)
  <2>1. /\ s \in 0 .. m_size - 1
        /\ k <= seg1 => s = w + k - 1 /\ ~ s < len - seg1
        /\ k > seg1  => s = k - seg1 - 1 /\ s < len - seg1
    BY <1>0, <1>1, <1>4, SlotArithmetic
  <2> HIDE DEF s
  <2>2. k <= seg1 => c.m_buff[s] = src[k]
    BY <1>0, <1>1, <1>3, <2>1 DEF Index
  <2>3. k > seg1 => c.m_buff[s] = src[k]
    <3>1. k > seg1 => seg1 + s + 1 = k
      BY <1>0, <1>1, <2>1
    <3>2. s < len - seg1 => c.m_buff[s] = src[seg1 + s + 1]
      BY <1>3, <2>1 DEF Index
    <3> QED
      BY <2>1, <3>1, <3>2
  <2> QED
    BY <1>1, <2>2, <2>3 DEF s
<1> QED
  BY <1>0, <1>1, <1>2, <1>5, <1>6, <1>7 DEF L

\* An append into a buffer that relapsed (length m_size, indices at both ends)
\* starts again at the front of the array.
LEMMA AppendAfterRelapse ==
  ASSUME NEW b \in Buffer, NEW len \in 1 .. m_size, NEW src \in [1 .. len -> Byte],
         Accepts(b, len), length(b) = m_size,
         NEW c, c = append(b, src)
  PROVE  /\ c \in Buffer
         /\ length(c) = len
         /\ \A k \in 1 .. len : c.m_buff[Slot(c, k)] = src[k]
<1> DEFINE seg1 == FirstSegment(b, len)
<1>0. /\ b.m_idxr = 0
      /\ b.m_idxw = m_size
      /\ m_size \in Nat /\ m_size > 1
  BY SizeAssumption, LengthBounds
<1>1. seg1 = 0
  BY <1>0 DEF FirstSegment, Lesser
<1>2. /\ c \in Buffer
      /\ c.m_idxr = 0
      /\ c.m_idxw = len
      /\ \A i \in Index : i < len => c.m_buff[i] = src[i + 1]
  <2> HIDE DEF seg1
  <2>1. /\ c \in Buffer
        /\ c.m_idxr = b.m_idxr
        /\ c.m_idxw = IF len > seg1 THEN len - seg1 ELSE b.m_idxw + len
        /\ \A i \in Index :
             c.m_buff[i] = IF i < len - seg1 THEN src[seg1 + i + 1]
                           ELSE IF i \in b.m_idxw .. b.m_idxw + seg1 - 1
                                THEN src[i - b.m_idxw + 1]
                                ELSE b.m_buff[i]
    BY AppendRecord DEF seg1
  <2> QED
    BY <1>0, <1>1, <2>1 DEF Index
<1>3. \A k \in 1 .. len : Slot(c, k) = k - 1 /\ k - 1 \in Index
  BY <1>0, <1>2 DEF Slot, Index
<1> QED
  BY <1>0, <1>2, <1>3 DEF length

\* Lengths around a pop of n out of L readable bytes, the last q of them genuine.
LEMMA PopArithmetic ==
  ASSUME NEW L \in Nat, NEW q \in 0 .. L, NEW n \in 0 .. L,
         NEW g, g = IF n <= L - q THEN 0 ELSE n - (L - q)
  PROVE  /\ g \in 0 .. q
         /\ q - g <= L - n
         /\ n = L => g = q
         /\ \A i \in 1 .. q - g : /\ (L - n) - (q - g) + i \in 1 .. L - n
                                 /\ n + ((L - n) - (q - g) + i) = (L - q) + (g + i)
                                 /\ g + i \in 1 .. q
OBVIOUS

\* A sequence without its first g elements.
LEMMA DropFirst ==
  ASSUME NEW S, NEW q \in Seq(S), NEW g \in 0 .. Len(q)
  PROVE  /\ Len(SubSeq(q, g + 1, Len(q))) = Len(q) - g
         /\ \A i \in 1 .. Len(q) - g : SubSeq(q, g + 1, Len(q))[i] = q[g + i]
         /\ g = Len(q) => SubSeq(q, g + 1, Len(q)) = <<>>
OBVIOUS

-----------------------------------------------------------------------------
(* Types.                                                                  *)

LEMMA AppendTyped ==
  ASSUME NEW b \in Buffer, NEW src \in Seq(Byte), Len(src) \in 1 .. m_size
  PROVE  append(b, src) \in Buffer
<1> DEFINE len == Len(src)
<1>1. src \in [1 .. len -> Byte]
  OBVIOUS
<1>2. len \in 1 .. m_size /\ Len(src) = len
  OBVIOUS
<1> HIDE DEF len
<1>3. CASE Accepts(b, len)
  BY <1>1, <1>2, <1>3, AppendRecord
<1>4. CASE ~ Accepts(b, len)
  BY <1>2, <1>4 DEF append
<1> QED
  BY <1>3, <1>4

LEMMA AppendByteTyped ==
  ASSUME NEW b \in Buffer, NEW byte \in Byte
  PROVE  appendByte(b, byte) \in Buffer
<1> DEFINE newbuff == [i \in Index |-> IF i = b.m_idxw THEN byte ELSE b.m_buff[i]]
           newidxw == (b.m_idxw + 1) % m_size
<1>1. newbuff \in [Index -> Byte \cup {Uninit}]
  BY DEF Buffer
<1>2. newidxw \in 0 .. m_size
  <2>1. b.m_idxw + 1 \in Nat
    BY SizeAssumption DEF Buffer
  <2> QED
    BY <2>1, ModRange, SizeAssumption DEF Index
<1>3. CASE IsFull(b)
  BY <1>3 DEF appendByte
<1>4. CASE ~ IsFull(b)
  <2>1. appendByte(b, byte) = [b EXCEPT !.m_buff = newbuff, !.m_idxw = newidxw]
    BY <1>4 DEF appendByte
  <2> HIDE DEF newbuff, newidxw
  <2> QED
    BY <1>1, <1>2, <2>1 DEF Buffer
<1> QED
  BY <1>3, <1>4

LEMMA PeekTyped ==
  ASSUME NEW b \in Buffer, NEW len \in Nat
  PROVE  peek(b, len) \in Seq(Byte \cup {Uninit})
<1> DEFINE n == Lesser(len, length(b))
<1>1. /\ n \in Nat
      /\ \A i \in 1 .. n : Slot(b, i) \in Index
      /\ peek(b, len) = [i \in 1 .. n |-> b.m_buff[Slot(b, i)]]
  BY PeekIsReadable, LengthBounds
<1> HIDE DEF n
<1>2. [i \in 1 .. n |-> b.m_buff[Slot(b, i)]] \in [1 .. n -> Byte \cup {Uninit}]
  BY <1>1 DEF Buffer
<1> QED
  BY <1>1, <1>2

-----------------------------------------------------------------------------
(* Written elements.                                                       *)

\* Which elements hold a byte that was written: those below the write position,
\* and all of them once it has wrapped.
Written(b) == /\ b.m_idxw >= b.m_idxr =>
                   \A i \in Index : i < b.m_idxw => b.m_buff[i] \in Byte
              /\ b.m_idxw < b.m_idxr => \A i \in Index : b.m_buff[i] \in Byte

LEMMA WrittenAppend ==
  ASSUME NEW b \in Buffer, Written(b), NEW src \in Seq(Byte), Len(src) \in 1 .. m_size
  PROVE  Written(append(b, src))
<1> DEFINE len == Len(src)
<1>1. src \in [1 .. len -> Byte]
  OBVIOUS
<1>2. len \in 1 .. m_size /\ Len(src) = len
  OBVIOUS
<1> HIDE DEF len
<1>3. CASE ~ Accepts(b, len)
  BY <1>2, <1>3 DEF append
<1>4. CASE Accepts(b, len)
  <2> DEFINE c    == append(b, src)
             seg1 == FirstSegment(b, len)
  <2>1. /\ c.m_idxr = b.m_idxr
        /\ c.m_idxw = IF len > seg1 THEN len - seg1 ELSE b.m_idxw + len
        /\ \A i \in Index :
             c.m_buff[i] = IF i < len - seg1 THEN src[seg1 + i + 1]
                           ELSE IF i \in b.m_idxw .. b.m_idxw + seg1 - 1
                                THEN src[i - b.m_idxw + 1]
                                ELSE b.m_buff[i]
    BY <1>1, <1>2, <1>4, AppendRecord
  <2>2. /\ seg1 \in 0 .. len
        /\ b.m_idxw < b.m_idxr => seg1 = len
        /\ b.m_idxw >= b.m_idxr =>
             seg1 = IF m_size - b.m_idxw >= len THEN len ELSE m_size - b.m_idxw
    BY <1>2, <1>4, SegmentsFit
  <2>3. /\ b.m_idxr \in 0 .. m_size - 1
        /\ b.m_idxw \in 0 .. m_size
        /\ m_size \in Nat
    BY SizeAssumption DEF Buffer, Index
  <2> HIDE DEF c, seg1
  <2>4. ASSUME NEW i \in Index,
               i < c.m_idxw \/ i < b.m_idxw \/ b.m_idxw < b.m_idxr \/ c.m_idxw < b.m_idxw
        PROVE  c.m_buff[i] \in Byte
    <3>1. i \in 0 .. m_size - 1
      BY DEF Index
    <3>2. CASE i < len - seg1
      <4>1. seg1 + i + 1 \in 1 .. len
        BY <1>2, <2>2, <3>1, <3>2
      <4> QED
        BY <1>1, <2>1, <3>2, <4>1
    <3>3. CASE ~ i < len - seg1 /\ i \in b.m_idxw .. b.m_idxw + seg1 - 1
      <4>1. i - b.m_idxw + 1 \in 1 .. len
        BY <1>2, <2>2, <2>3, <3>1, <3>3
      <4> QED
        BY <1>1, <2>1, <3>3, <4>1
    <3>4. CASE ~ i < len - seg1 /\ i \notin b.m_idxw .. b.m_idxw + seg1 - 1
      <4>1. c.m_buff[i] = b.m_buff[i]
        BY <2>1, <3>4
      <4>2. i < b.m_idxw \/ b.m_idxw < b.m_idxr
        BY <1>2, <2>1, <2>2, <2>3, <2>4, <3>1, <3>4
      <4> QED
        BY <2>3, <4>1, <4>2 DEF Written
    <3> QED
      BY <3>2, <3>3, <3>4
  <2>5. c.m_idxw < c.m_idxr => b.m_idxw < b.m_idxr \/ c.m_idxw < b.m_idxw
    BY <1>2, <2>1, <2>2, <2>3
  <2> QED
    BY <2>1, <2>4, <2>5 DEF Written, c
<1> QED
  BY <1>3, <1>4

LEMMA WrittenAppendByte ==
  ASSUME NEW b \in Buffer, Written(b), NEW byte \in Byte
  PROVE  Written(appendByte(b, byte))
<1>1. CASE IsFull(b)
  BY <1>1 DEF appendByte
<1>2. CASE ~ IsFull(b)
  <2> DEFINE c == appendByte(b, byte)
  <2>1. /\ b.m_idxr \in 0 .. m_size - 1
        /\ b.m_idxw \in 0 .. m_size
        /\ m_size \in Nat /\ m_size > 1
    BY SizeAssumption DEF Buffer, Index
  <2>2. /\ c.m_idxr = b.m_idxr
        /\ c.m_idxw = (b.m_idxw + 1) % m_size
        /\ c.m_buff = [i \in Index |-> IF i = b.m_idxw THEN byte ELSE b.m_buff[i]]
    BY <1>2 DEF appendByte, Buffer
  <2>3. (b.m_idxw + 1) % m_size = IF b.m_idxw + 1 < m_size THEN b.m_idxw + 1
                                                           ELSE b.m_idxw + 1 - m_size
    BY <2>1, ModBelow, ModOnce
  <2>4. c.m_idxw # b.m_idxr
    BY <1>2, <2>2 DEF IsFull
  <2> HIDE DEF c
  <2>5. \A i \in Index : i < b.m_idxw \/ b.m_idxw < b.m_idxr \/ i = b.m_idxw
                          => c.m_buff[i] \in Byte
    BY <2>1, <2>2 DEF Written, Index
  <2>6. b.m_idxw + 1 < m_size => Written(c)
    BY <2>1, <2>2, <2>3, <2>4, <2>5 DEF Written, Index
  <2>7. b.m_idxw + 1 >= m_size => Written(c)
    BY <2>1, <2>2, <2>3, <2>4, <2>5 DEF Written, Index
  <2> QED
    BY <2>1, <2>6, <2>7 DEF c
<1> QED
  BY <1>1, <1>2

\* What is readable has been written, so peek returns bytes.
LEMMA WrittenReadable ==
  ASSUME NEW b \in Buffer, Written(b), NEW len \in Nat
  PROVE  \A i \in 1 .. Len(peek(b, len)) : peek(b, len)[i] \in Byte
<1> DEFINE n == Lesser(len, length(b))
<1>1. /\ n \in 0 .. length(b)
      /\ length(b) \in Nat
      /\ \A i \in 1 .. n : Slot(b, i) \in Index
      /\ peek(b, len) = [i \in 1 .. n |-> b.m_buff[Slot(b, i)]]
  BY PeekIsReadable, LengthBounds
<1> HIDE DEF n
<1>2. ASSUME NEW i \in 1 .. n
      PROVE  b.m_buff[Slot(b, i)] \in Byte
  <2>1. b.m_idxw >= b.m_idxr => Slot(b, i) < b.m_idxw
    BY <1>1, SizeAssumption DEF Slot, length, Buffer, Index
  <2> QED
    BY <1>1, <2>1, SizeAssumption DEF Written, Buffer, Index
<1>3. n \in Nat /\ Len(peek(b, len)) = n
  BY <1>1
<1> QED
  BY <1>1, <1>2, <1>3

LEMMA WrittenPop ==
  ASSUME NEW b \in Buffer, Written(b), NEW len \in Nat
  PROVE  Written(pop(b, len))
<1> DEFINE n == Lesser(len, length(b))
           c == pop(b, len)
<1>1. /\ b.m_idxr \in 0 .. m_size - 1
      /\ b.m_idxw \in 0 .. m_size
      /\ m_size \in Nat /\ m_size > 1
  BY SizeAssumption DEF Buffer, Index
<1>2. /\ c.m_buff = b.m_buff
      /\ c.m_idxw = b.m_idxw
      /\ n \in 0 .. length(b)
  BY PopLeaves
<1>3. c.m_idxr = (b.m_idxr + n) % m_size
  BY DEF pop, Buffer
<1>4. c.m_idxr = IF b.m_idxr + n < m_size THEN b.m_idxr + n ELSE b.m_idxr + n - m_size
  BY <1>2, <1>3, PopIndex
<1> HIDE DEF c, n
<1>5. b.m_idxw < b.m_idxr => Written(c)
  BY <1>2 DEF Written, Index
<1>6. b.m_idxw >= b.m_idxr => Written(c)
  <2>1. b.m_idxw >= b.m_idxr => c.m_idxw >= c.m_idxr
    BY <1>1, <1>2, <1>4 DEF length
  <2>2. c.m_idxr \in Int
    BY <1>1, <1>2, <1>4, LengthBounds
  <2> QED
    BY <1>1, <1>2, <2>1, <2>2 DEF Written, Index
<1> QED
  BY <1>1, <1>5, <1>6 DEF c
-----------------------------------------------------------------------------
(* What is readable in a buffer, as a sequence.                            *)

Readable(b) == peek(b, m_size)

\* A sequence that begins with r and goes on with s.
LEMMA IsJoined ==
  ASSUME NEW S, NEW r \in Seq(S), NEW s \in Seq(S), NEW t \in Seq(S), Len(t) = Len(r) + Len(s),
         \A i \in 1 .. Len(r) : t[i] = r[i],
         \A k \in 1 .. Len(s) : t[Len(r) + k] = s[k]
  PROVE  t = r \o s
<1>1. /\ r \o s \in Seq(S)
      /\ Len(r \o s) = Len(t)
      /\ \A i \in 1 .. Len(r) : (r \o s)[i] = r[i]
      /\ \A k \in 1 .. Len(s) : (r \o s)[Len(r) + k] = s[k]
  OBVIOUS
<1> DEFINE u == r \o s
<1> HIDE DEF u
<1>2. ASSUME NEW i \in 1 .. Len(t) PROVE t[i] = u[i]
  <2>1. CASE i <= Len(r)
    BY <1>1, <2>1 DEF u
  <2>2. CASE i > Len(r)
    <3>1. i - Len(r) \in 1 .. Len(s) /\ Len(r) + (i - Len(r)) = i
      BY <2>2
    <3> QED
      BY <1>1, <3>1 DEF u
  <2> QED
    BY <2>1, <2>2
<1>3. u \in Seq(S) /\ Len(u) = Len(t)
  BY <1>1 DEF u
<1>4. t = u
  BY <1>2, <1>3
<1> QED
  BY <1>4 DEF u

LEMMA Joined ==
  ASSUME NEW S, NEW r \in Seq(S), NEW s \in Seq(S)
  PROVE  /\ Len(r \o s) = Len(r) + Len(s)
         /\ \A i \in 1 .. Len(r) : (r \o s)[i] = r[i]
         /\ \A k \in 1 .. Len(s) : (r \o s)[Len(r) + k] = s[k]
OBVIOUS

LEMMA Appended ==
  ASSUME NEW S, NEW s \in Seq(S), NEW x \in S
  PROVE  /\ Len(Append(s, x)) = Len(s) + 1 /\ Len(s) \in Nat
         /\ \A i \in 1 .. Len(s) : Append(s, x)[i] = s[i] /\ s[i] \in S
         /\ Append(s, x)[Len(s) + 1] = x
OBVIOUS

LEMMA ReadableIs ==
  ASSUME NEW b \in Buffer
  PROVE  /\ length(b) \in Nat /\ length(b) <= m_size
         /\ Readable(b) = [i \in 1 .. length(b) |-> b.m_buff[Slot(b, i)]]
         /\ Len(Readable(b)) = length(b)
         /\ \A i \in 1 .. length(b) : Readable(b)[i] = b.m_buff[Slot(b, i)]
<1>1. length(b) \in Nat /\ length(b) <= m_size
  BY LengthBounds
<1>2. Lesser(m_size, length(b)) = length(b)
  BY <1>1, SizeAssumption DEF Lesser
<1>3. Readable(b) = [i \in 1 .. length(b) |-> b.m_buff[Slot(b, i)]]
  BY <1>2, PeekIsReadable, SizeAssumption DEF Readable
<1> QED
  BY <1>1, <1>3

LEMMA ReadableTyped ==
  ASSUME NEW b \in Buffer, Written(b)
  PROVE  Readable(b) \in Seq(Byte)
<1>1. \A i \in 1 .. Len(Readable(b)) : Readable(b)[i] \in Byte
  BY WrittenReadable, SizeAssumption DEF Readable
<1>2. /\ length(b) \in Nat /\ Len(Readable(b)) = length(b)
      /\ Readable(b) = [i \in 1 .. length(b) |-> b.m_buff[Slot(b, i)]]
  BY ReadableIs
<1> HIDE DEF Readable
<1>3. Readable(b) \in [1 .. length(b) -> Byte]
  BY <1>1, <1>2
<1> QED
  BY <1>2, <1>3

\* A shorter peek returns the first of them.
LEMMA PeekBegins ==
  ASSUME NEW b \in Buffer, NEW len \in Nat
  PROVE  /\ Len(peek(b, len)) \in 0 .. length(b)
         /\ \A i \in 1 .. Len(peek(b, len)) : peek(b, len)[i] = Readable(b)[i]
<1>1. /\ Lesser(len, length(b)) \in 0 .. length(b)
      /\ peek(b, len) = [i \in 1 .. Lesser(len, length(b)) |-> b.m_buff[Slot(b, i)]]
  BY PeekIsReadable
<1>2. length(b) \in Nat
  BY ReadableIs
<1>3. Len(peek(b, len)) = Lesser(len, length(b))
  BY <1>1, <1>2
<1> QED
  BY <1>1, <1>2, <1>3, ReadableIs

\* An append puts its bytes behind the readable ones, or is refused; into a
\* buffer of length m_size it puts them instead of those.
LEMMA ReadableAfterAppend ==
  ASSUME NEW b \in Buffer, NEW src \in Seq(Byte), Len(src) \in 1 .. m_size
  PROVE  \/ /\ length(b) < m_size /\ ~ Accepts(b, Len(src))
            /\ Readable(append(b, src)) = Readable(b)
         \/ /\ length(b) < m_size /\ Accepts(b, Len(src))
            /\ Readable(append(b, src)) = Readable(b) \o src
         \/ length(b) = m_size /\ Readable(append(b, src)) = src
<1> DEFINE c == append(b, src)
           len == Len(src)
<1>1. src \in [1 .. len -> Byte] /\ len \in 1 .. m_size
  OBVIOUS
<1>2. length(b) \in 0 .. m_size
  BY LengthBounds
<1>3. c \in Buffer
  BY AppendTyped
<1> HIDE DEF c, len
<1>4. CASE ~ Accepts(b, len)
  <2>1. c = b
    BY <1>4 DEF append, c, len
  <2>2. length(b) # m_size
    <3>1. ASSUME length(b) = m_size PROVE FALSE
      <4>1. freebyte(b) = Modulus - 1
        <5>1. (0 - 1) % Modulus = Modulus - 1
          BY ModulusAssumption, SizeAssumption
        <5>2. m_size - m_size - 1 = 0 - 1
          BY SizeAssumption
        <5> QED
          BY <3>1, <5>1, <5>2 DEF freebyte
      <4> QED
        BY <1>1, <1>4, <4>1, ModulusAssumption, SizeAssumption DEF Accepts
    <3> QED
      BY <3>1
  <2> QED
    BY <1>2, <1>4, <2>1, <2>2, SizeAssumption DEF c, len
<1>5. CASE Accepts(b, len) /\ length(b) < m_size
  <2>1. /\ length(c) = length(b) + len
        /\ \A i \in 1 .. length(b) : c.m_buff[Slot(c, i)] = b.m_buff[Slot(b, i)]
        /\ \A k \in 1 .. len : c.m_buff[Slot(c, length(b) + k)] = src[k]
    BY <1>1, <1>5, AppendBehind DEF c
  <2>2. /\ Readable(b) = [i \in 1 .. length(b) |-> b.m_buff[Slot(b, i)]]
        /\ Readable(c) = [i \in 1 .. length(c) |-> c.m_buff[Slot(c, i)]]
    BY <1>3, ReadableIs
  <2>3. /\ Readable(b) \in Seq(Byte \cup {Uninit}) /\ Readable(c) \in Seq(Byte \cup {Uninit})
        /\ Len(Readable(b)) = length(b) /\ Len(Readable(c)) = length(c)
    BY <1>3, ReadableIs, PeekTyped, SizeAssumption DEF Readable
  <2>4. Len(src) = len /\ len \in Nat /\ src \in Seq(Byte \cup {Uninit})
    BY <1>1 DEF len
  <2>5. ASSUME NEW i \in 1 .. length(b) PROVE Readable(c)[i] = Readable(b)[i]
    BY <1>2, <2>1, <2>2, <2>4
  <2>6. ASSUME NEW k \in 1 .. len PROVE Readable(c)[length(b) + k] = src[k]
    <3>1. length(b) + k \in 1 .. length(c)
      BY <1>2, <2>1, <2>4
    <3> QED
      BY <2>1, <2>2, <3>1
  <2>7. Readable(c) = Readable(b) \o src
    <3> DEFINE r == Readable(b)
               t == Readable(c)
    <3>1. /\ r \in Seq(Byte \cup {Uninit}) /\ t \in Seq(Byte \cup {Uninit})
          /\ Len(t) = Len(r) + Len(src)
          /\ \A i \in 1 .. Len(r) : t[i] = r[i]
          /\ \A k \in 1 .. Len(src) : t[Len(r) + k] = src[k]
      BY <2>1, <2>3, <2>4, <2>5, <2>6
    <3> HIDE DEF r, t
    <3>2. t = r \o src
      BY <2>4, <3>1, IsJoined
    <3> QED
      BY <3>2 DEF r, t
  <2> QED
    BY <1>5, <2>7 DEF c, len
<1>6. CASE Accepts(b, len) /\ length(b) = m_size
  <2>1. length(c) = len /\ \A k \in 1 .. len : c.m_buff[Slot(c, k)] = src[k]
    BY <1>1, <1>6, AppendAfterRelapse DEF c
  <2>2. Readable(c) = [i \in 1 .. length(c) |-> c.m_buff[Slot(c, i)]]
    BY <1>3, ReadableIs
  <2>3. src = [i \in 1 .. len |-> src[i]]
    BY <1>1
  <2>4. Readable(c) = src
    BY <2>1, <2>2, <2>3
  <2> QED
    BY <1>6, <2>4 DEF c
<1> QED
  BY <1>2, <1>4, <1>5, <1>6, SizeAssumption

\* There is room for them.
LEMMA ReadableAfterAccepted ==
  ASSUME NEW b \in Buffer, NEW src \in Seq(Byte), Len(src) \in 1 .. m_size,
         length(b) = m_size \/ length(b) + Len(src) < m_size - 1
  PROVE  Readable(append(b, src)) = IF length(b) = m_size THEN src ELSE Readable(b) \o src
<1>1. length(b) < m_size => freebyte(b) = m_size - length(b) - 1
  BY FreeByte
<1>2. length(b) < m_size => Accepts(b, Len(src))
  BY <1>1, LengthBounds, SizeAssumption DEF Accepts
<1> QED
  BY <1>2, ReadableAfterAppend, SizeAssumption

\* An append leaves nothing in the array that was not there or appended.
LEMMA AppendElements ==
  ASSUME NEW b \in Buffer, NEW src \in Seq(Byte), Len(src) \in 1 .. m_size
  PROVE  \A i \in Index : \/ append(b, src).m_buff[i] = b.m_buff[i]
                           \/ \E k \in 1 .. Len(src) : append(b, src).m_buff[i] = src[k]
<1> DEFINE len  == Len(src)
           seg1 == FirstSegment(b, len)
           c    == append(b, src)
<1>1. src \in [1 .. len -> Byte] /\ len \in 1 .. m_size
  OBVIOUS
<1>2. CASE ~ Accepts(b, len)
  BY <1>2 DEF append
<1>3. CASE Accepts(b, len)
  <2>1. seg1 \in 0 .. len /\ b.m_idxw + seg1 <= m_size
    BY <1>1, <1>3, SegmentsFit
  <2>2. \A i \in Index :
          c.m_buff[i] = IF i < len - seg1 THEN src[seg1 + i + 1]
                        ELSE IF i \in b.m_idxw .. b.m_idxw + seg1 - 1
                             THEN src[i - b.m_idxw + 1]
                             ELSE b.m_buff[i]
    <3> HIDE DEF len, seg1, c
    <3> QED
      BY <1>1, <1>3, AppendRecord DEF seg1, c
  <2>3. b.m_idxw \in Nat
    BY DEF Buffer
  <2> HIDE DEF len, seg1, c
  <2>4. ASSUME NEW i \in Index
        PROVE  c.m_buff[i] = b.m_buff[i] \/ \E k \in 1 .. len : c.m_buff[i] = src[k]
    <3>1. i \in Nat
      BY SizeAssumption DEF Index
    <3>2. CASE i < len - seg1
      <4>1. seg1 + i + 1 \in 1 .. len
        BY <1>1, <2>1, <3>1, <3>2
      <4> QED
        BY <2>2, <3>2, <4>1
    <3>3. CASE ~ i < len - seg1 /\ i \in b.m_idxw .. b.m_idxw + seg1 - 1
      <4>1. i - b.m_idxw + 1 \in 1 .. len
        BY <1>1, <2>1, <2>3, <3>1, <3>3
      <4> QED
        BY <2>2, <3>3, <4>1
    <3> QED
      BY <2>2, <3>2, <3>3
  <2> QED
    BY <2>4 DEF len, c
<1> QED
  BY <1>2, <1>3

\* A pop takes the first bytes, or leaves a relapsed buffer.
LEMMA ReadableAfterPop ==
  ASSUME NEW b \in Buffer, NEW n \in 0 .. length(b)
  PROVE  /\ pop(b, n) \in Buffer
         /\ \/ /\ length(pop(b, n)) = length(b) - n
               /\ Readable(pop(b, n)) = SubSeq(Readable(b), n + 1, Len(Readable(b)))
            \/ n = length(b) /\ length(pop(b, n)) = m_size
<1> DEFINE c == pop(b, n)
<1>1. length(b) \in Nat /\ n \in Nat /\ n <= length(b)
  BY ReadableIs
<1>2. Lesser(n, length(b)) = n
  BY <1>1 DEF Lesser
<1>3. /\ c \in Buffer
      /\ c.m_buff = b.m_buff
      /\ \/ length(c) = length(b) - n /\ \A i \in 1 .. length(c) : Slot(c, i) = Slot(b, n + i)
         \/ n = length(b) /\ length(c) = m_size
  <2> DEFINE m == Lesser(n, length(b))
  <2>1. /\ c \in Buffer
        /\ c.m_buff = b.m_buff
        /\ \/ length(c) = length(b) - m /\ \A i \in 1 .. length(c) : Slot(c, i) = Slot(b, m + i)
           \/ m = length(b) /\ length(c) = m_size
    BY <1>1, PopLeaves
  <2> HIDE DEF c
  <2> QED
    BY <1>2, <2>1
<1> HIDE DEF c
<1>4. ASSUME length(c) = length(b) - n, \A i \in 1 .. length(c) : Slot(c, i) = Slot(b, n + i)
      PROVE  Readable(c) = SubSeq(Readable(b), n + 1, Len(Readable(b)))
  <2>1. /\ Readable(b) = [i \in 1 .. length(b) |-> b.m_buff[Slot(b, i)]]
        /\ Readable(c) = [i \in 1 .. length(c) |-> c.m_buff[Slot(c, i)]]
        /\ Len(Readable(b)) = length(b)
    BY <1>3, ReadableIs
  <2>2. SubSeq(Readable(b), n + 1, length(b)) = [i \in 1 .. length(b) - n |-> Readable(b)[n + i]]
    <3>1. length(b) - (n + 1) + 1 = length(b) - n
      BY <1>1
    <3>2. \A i \in 1 .. length(b) - n : i + (n + 1) - 1 = n + i
      BY <1>1
    <3> QED
      BY <1>1, <2>1, <3>1, <3>2
  <2>3. ASSUME NEW i \in 1 .. length(b) - n
        PROVE  c.m_buff[Slot(c, i)] = Readable(b)[n + i]
    <3>1. n + i \in 1 .. length(b)
      BY <1>1
    <3> QED
      BY <1>3, <1>4, <2>1, <3>1
  <2> QED
    BY <1>4, <2>1, <2>2, <2>3
<1> QED
  BY <1>3, <1>4 DEF c

=============================================================================
