------------------------------- MODULE CBuffer -------------------------------
(***************************************************************************)
(* The loop buffer of code/buffer/CBuffer.{h,cpp} as operators on a record *)
(* of its fields.  AppConn keeps two of them, readBuff_ and writeBuff_;    *)
(* the state machines that use the buffer apply these operators, so every  *)
(* module sees the same arithmetic.                                        *)
(*                                                                         *)
(* The constructor allocates the array without filling it: Uninit stands   *)
(* for whatever an array element holds before it is first written.         *)
(***************************************************************************)
EXTENDS Integers, Sequences

CONSTANTS
  m_size,   \* number of bytes in the array: 256 in the program
  Modulus,  \* number of values of a uint32_t: 2^32 in the program
  Byte,     \* the values a byte can hold
  Uninit    \* the value of an array element that was never written

\* CBuffer.h line 27: "size must > 1"
ASSUME SizeAssumption    == m_size \in Nat /\ m_size > 1
ASSUME ModulusAssumption == Modulus \in Nat /\ Modulus > 2 * m_size
ASSUME UninitAssumption  == Uninit \notin Byte

Index == 0 .. m_size - 1

\* m_idxw may come to rest one past the array, on m_size: see append.
Buffer == [m_buff : [Index -> Byte \cup {Uninit}],
           m_idxr : Index,
           m_idxw : 0 .. m_size]

NewBuffer == [m_buff |-> [i \in Index |-> Uninit], m_idxr |-> 0, m_idxw |-> 0]

Lesser(a, b) == IF a <= b THEN a ELSE b

IsEmpty(b) == b.m_idxr = b.m_idxw

IsFull(b) == (b.m_idxw + 1) % m_size = b.m_idxr

\* Mutant: equal indices taken for a full buffer.
length_FullWhenEqual(b) == IF b.m_idxw > b.m_idxr THEN b.m_idxw - b.m_idxr
                                                 ELSE b.m_idxw + m_size - b.m_idxr

length(b) == IF b.m_idxw >= b.m_idxr THEN b.m_idxw - b.m_idxr
                                     ELSE b.m_idxw + m_size - b.m_idxr

\* The array element of the i-th readable byte.
Slot(b, i) == IF b.m_idxr + i - 1 < m_size THEN b.m_idxr + i - 1
                                           ELSE b.m_idxr + i - 1 - m_size

\* Mutant: the second segment is copied from the wrong place.
peek_WrongSegment(b, len) ==
  [i \in 1 .. Lesser(len, length(b)) |->
     IF b.m_idxr + i - 1 < m_size THEN b.m_buff[b.m_idxr + i - 1]
                                  ELSE b.m_buff[i - 1]]

\* The bytes peek and pop copy out: one segment, or two when the readable
\* bytes wrap over the end of the array.
peek(b, len) ==
  LET n    == Lesser(len, length(b))
      seg1 == IF b.m_idxr <= b.m_idxw THEN n ELSE Lesser(m_size - b.m_idxr, n)
  IN  [i \in 1 .. n |-> IF i <= seg1 THEN b.m_buff[b.m_idxr + i - 1]
                                     ELSE b.m_buff[i - seg1 - 1]]

\* Mutant: the read position is not wrapped.
pop_Unwrapped(b, len) == [b EXCEPT !.m_idxr = @ + Lesser(len, length(b))]

\* pop returns the bytes of peek and leaves this buffer.
pop(b, len) ==
  [b EXCEPT !.m_idxr = (@ + Lesser(len, length(b))) % m_size]

\* append's uint32_t freebyte: it wraps when length reaches m_size.
freebyte(b) == (m_size - length(b) - 1) % Modulus

\* Mutant: the array may be filled to its last byte.
Accepts_NoSlack(b, len) == len <= freebyte(b) + 1

Accepts(b, len) == len < freebyte(b)

\* Mutant: the array's end is ignored.
FirstSegment_Unbounded(b, len) == len

\* How many of the len bytes go up to the end of the array; the rest wraps.
FirstSegment(b, len) ==
  IF b.m_idxw < b.m_idxr THEN len ELSE Lesser(m_size - b.m_idxw, len)

append(b, src) ==
  LET len  == Len(src)
      seg1 == FirstSegment(b, len)
      seg2 == len - seg1
  IN  IF ~ Accepts(b, len) THEN b
      ELSE [b EXCEPT
             !.m_buff = [i \in Index |->
                           IF i < seg2 THEN src[seg1 + i + 1]
                           ELSE IF i \in b.m_idxw .. b.m_idxw + seg1 - 1
                                THEN src[i - b.m_idxw + 1]
                                ELSE @[i]],
             !.m_idxw = IF seg2 > 0 THEN seg2 ELSE @ + len]

\* Mutant: the write position is not wrapped.
appendByte_Unwrapped(b, byte) ==
  IF IsFull(b) THEN b
  ELSE [b EXCEPT
         !.m_buff = [i \in Index |-> IF i = b.m_idxw THEN byte ELSE @[i]],
         !.m_idxw = Lesser(@ + 1, m_size)]

\* appendByte stores at m_idxw before it wraps the index.  A store on m_size
\* falls outside the array, so no element changes.
appendByte(b, byte) ==
  IF IsFull(b) THEN b
  ELSE [b EXCEPT
         !.m_buff = [i \in Index |-> IF i = b.m_idxw THEN byte ELSE @[i]],
         !.m_idxw = (@ + 1) % m_size]
=============================================================================
