------------------------------- MODULE Buffer -------------------------------
(***************************************************************************)
(* The growing buffer of code/buffer/buffer.{h,cpp}: a vector with a read  *)
(* and a write position, which makes room by moving what is readable to    *)
(* the front or by growing.  It is compiled into the program; CBuffer has  *)
(* taken its place in AppConn, so its owner here is any single thread that *)
(* keeps the assertions of its interface (the Makefile leaves them on).    *)
(***************************************************************************)
EXTENDS Integers, Sequences

CONSTANTS
  InitSize,    \* initBuffSize: 1024 by default
  Byte,        \* the values a byte can hold
  Zero,        \* the byte resize and bzero fill with
  Scratch,     \* length of ReadFd's array on the stack: 65535
  MaxReadable  \* bound: how many readable bytes the owner lets pile up

ASSUME SizeAssumption    == InitSize \in Nat \ {0}
ASSUME ZeroAssumption    == Zero \in Byte
ASSUME ScratchAssumption == Scratch \in Nat
ASSUME BoundAssumption   == MaxReadable \in Nat

VARIABLES
  b,       \* the buffer's three fields
  io,      \* the bytes the last call handed in or out
  demand   \* history: most bytes that ever had to fit behind readPos_ at once

vars == <<b, io, demand>>

Zeros(n) == [i \in 1 .. n |-> Zero]

Larger(x, y) == IF x >= y THEN x ELSE y

\* What some call hands in: at most n bytes.
Bytes(n) == UNION {[1 .. k -> Byte] : k \in 0 .. n}

Fields(array, r, w) == [buffer_ |-> array, readPos_ |-> r, writePos_ |-> w]

ReadableBytes(f) == f.writePos_ - f.readPos_
WritableBytes(f) == Len(f.buffer_) - f.writePos_

\* The bytes from Peek() to BeginWriteConst().
Readable(f) == SubSeq(f.buffer_, f.readPos_ + 1, f.writePos_)

Grown(f, len) ==
  Fields(f.buffer_ \o Zeros(f.writePos_ + len + 1 - Len(f.buffer_)), f.readPos_, f.writePos_)

Shifted(f) ==
  Fields(Readable(f) \o SubSeq(f.buffer_, ReadableBytes(f) + 1, Len(f.buffer_)),
         0, ReadableBytes(f))

\* Mutant: the space in front of the readable bytes is never used again.
MakeSpace_NoShift(f, len) == Grown(f, len)

MakeSpace_(f, len) ==
  IF WritableBytes(f) + f.readPos_ < len THEN Grown(f, len) ELSE Shifted(f)

\* Mutant: the space in front is counted as if it were behind.
EnsureWriteable_Prepends(f, len) ==
  IF WritableBytes(f) + f.readPos_ < len THEN MakeSpace_(f, len) ELSE f

EnsureWriteable(f, len) == IF WritableBytes(f) < len THEN MakeSpace_(f, len) ELSE f

\* A copy to BeginWrite() followed by HasWritten.  What a copy puts behind the
\* vector's end is no byte of this buffer.
Written(f, src) ==
  Fields([i \in 1 .. Len(f.buffer_) |->
            IF i - f.writePos_ \in 1 .. Len(src) THEN src[i - f.writePos_] ELSE f.buffer_[i]],
         f.readPos_, f.writePos_ + Len(src))

Appended(f, src) == Written(EnsureWriteable(f, Len(src)), src)

\* Mutant: the bytes that went into the buffer itself are appended again.
Received_Twice(f, src) ==
  IF Len(src) <= WritableBytes(f) THEN Written(f, src)
  ELSE Appended(Written(f, SubSeq(src, 1, WritableBytes(f))), src)

\* readv fills the writable part first and the array on the stack next.
Received(f, src) ==
  IF Len(src) <= WritableBytes(f) THEN Written(f, src)
  ELSE Appended(Written(f, SubSeq(src, 1, WritableBytes(f))),
                SubSeq(src, WritableBytes(f) + 1, Len(src)))
-----------------------------------------------------------------------------
Init == /\ b = Fields(Zeros(InitSize), 0, 0)
        /\ io = <<>>
        /\ demand = 0

\* The owner keeps what must fit at once within MaxReadable.
Demands(n) == /\ ReadableBytes(b) + n <= MaxReadable
              /\ demand' = Larger(demand, ReadableBytes(b) + n)

\* The four Append functions end in one of them.
Append_(src) == /\ Demands(Len(src))
                /\ b' = Appended(b, src)
                /\ io' = src

\* A writer of its own: EnsureWriteable now, BeginWrite and HasWritten later.
Reserve(len) == /\ Demands(len)
                /\ b' = EnsureWriteable(b, len)
                /\ io' = <<>>

HasWritten(src) == /\ Len(src) <= WritableBytes(b)
                   /\ Demands(Len(src))
                   /\ b' = Written(b, src)
                   /\ io' = src

Retrieve(len) == /\ len <= ReadableBytes(b)
                 /\ b' = Fields(b.buffer_, b.readPos_ + len, b.writePos_)
                 /\ io' = <<>> /\ UNCHANGED demand

\* `end` is a place between Peek() and BeginWriteConst().
RetrieveUntil(end) == end >= b.readPos_ /\ Retrieve(end - b.readPos_)

Cleared == Fields(Zeros(Len(b.buffer_)), 0, 0)

RetrieveAll == b' = Cleared /\ io' = <<>> /\ UNCHANGED demand

RetrieveAllToStr == io' = Readable(b) /\ b' = Cleared /\ UNCHANGED demand

\* Peek(char *buffer, size_t len) copies from the caller's array to the front
\* of this buffer; the caller takes what its array holds for the bytes peeked.
PeekInto(array) ==
  LET rl == IF ReadableBytes(b) >= Len(array) THEN Len(array) ELSE ReadableBytes(b)
  IN  /\ io' = SubSeq(array, 1, rl)
      /\ b' = Fields(SubSeq(array, 1, rl) \o SubSeq(b.buffer_, rl + 1, Len(b.buffer_)),
                      b.readPos_, b.writePos_)
      /\ UNCHANGED demand

\* Nothing to read, or a failing readv, changes nothing: src is empty then.
ReadFd(src) == /\ Len(src) <= WritableBytes(b) + Scratch
               /\ Demands(Len(src))
               /\ b' = Received(b, src)
               /\ io' = src

\* write takes the first n bytes; a failing one none and leaves all as it is.
WriteFd(n) == /\ n <= ReadableBytes(b)
              /\ io' = SubSeq(Readable(b), 1, n)
              /\ b' = Fields(b.buffer_, b.readPos_ + n, b.writePos_)
              /\ UNCHANGED demand

Next == \/ \E src \in Bytes(MaxReadable) :
             Append_(src) \/ HasWritten(src) \/ ReadFd(src) \/ PeekInto(src)
        \/ \E n \in 0 .. MaxReadable : Reserve(n) \/ Retrieve(n) \/ WriteFd(n)
        \/ \E end \in 0 .. Len(b.buffer_) : RetrieveUntil(end)
        \/ RetrieveAll
        \/ RetrieveAllToStr

Spec == Init /\ [][Next]_vars
-----------------------------------------------------------------------------
\* The positions stay in order and inside the vector, through growing,
\* moving and reads that overflow into the array on the stack.
TypeOK == /\ b \in [buffer_ : Seq(Byte), readPos_ : Nat, writePos_ : Nat]
          /\ b.readPos_ <= b.writePos_
          /\ b.writePos_ <= Len(b.buffer_)
          /\ io \in Seq(Byte)
          /\ demand \in Nat

\* However long the buffer is used, it holds on to at most twice the most
\* that ever had to fit at once: room freed by retrieving is used again
\* before MakeSpace_ grows the vector.
GrowthBounded == /\ ReadableBytes(b) <= demand
                 /\ Len(b.buffer_) <= Larger(InitSize, 2 * demand)

\* The buffer is a queue that loses, repeats and reorders nothing, except for
\* what Peek(char*, size_t) writes into it.
GQ == INSTANCE GrowingQueue WITH
        Data <- Byte, unread <- Readable(b), io <- io
ImplementsGrowingQueue == GQ!GQSpec
=============================================================================
