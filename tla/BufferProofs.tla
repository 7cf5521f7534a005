---------------------------- MODULE BufferProofs ----------------------------
(***************************************************************************)
(* Theorems about the growing buffer, for every initial size, length of    *)
(* the array on the stack and set of bytes: the positions stay in order,   *)
(* the vector grows no further than it must, and the buffer implements     *)
(* GrowingQueue.                                                           *)
(***************************************************************************)
EXTENDS Buffer, TLAPS

\* The buffers in which every operation leaves its own.
Sound == {f \in [buffer_ : Seq(Byte), readPos_ : Nat, writePos_ : Nat] :
            f.readPos_ <= f.writePos_ /\ f.writePos_ <= Len(f.buffer_)}

\* A new state of the buffer with the same bytes to read.
Same(f, g) == /\ g \in Sound
              /\ ReadableBytes(g) = ReadableBytes(f)
              /\ Readable(g) = Readable(f)

LEMMA ReadableIs ==
  ASSUME NEW f \in Sound
  PROVE  /\ ReadableBytes(f) \in Nat
         /\ WritableBytes(f) \in Nat
         /\ Readable(f) \in Seq(Byte)
         /\ Len(Readable(f)) = ReadableBytes(f)
         /\ \A i \in 1 .. ReadableBytes(f) : Readable(f)[i] = f.buffer_[f.readPos_ + i]
BY DEF Sound, Readable, ReadableBytes, WritableBytes

\* Sequences are equal when they agree at every index.
LEMMA SeqEqual ==
  ASSUME NEW s \in Seq(Byte), NEW t \in Seq(Byte), Len(s) = Len(t),
         \A i \in 1 .. Len(s) : s[i] = t[i]
  PROVE  s = t
OBVIOUS

LEMMA Joined ==
  ASSUME NEW s \in Seq(Byte), NEW t \in Seq(Byte)
  PROVE  /\ s \o t \in Seq(Byte)
         /\ Len(s \o t) = Len(s) + Len(t)
         /\ \A i \in 1 .. Len(s) : (s \o t)[i] = s[i]
         /\ \A i \in 1 .. Len(t) : (s \o t)[Len(s) + i] = t[i]
OBVIOUS

LEMMA SplitJoined ==
  ASSUME NEW s \in Seq(Byte), NEW n \in 0 .. Len(s)
  PROVE  SubSeq(s, 1, n) \o SubSeq(s, n + 1, Len(s)) = s
<1> DEFINE h == SubSeq(s, 1, n)
           t == SubSeq(s, n + 1, Len(s))
<1>1. /\ h \in Seq(Byte) /\ Len(h) = n /\ \A i \in 1 .. n : h[i] = s[i]
      /\ t \in Seq(Byte) /\ Len(t) = Len(s) - n
      /\ \A i \in 1 .. Len(s) - n : t[i] = s[n + i]
  OBVIOUS
<1> HIDE DEF h, t
<1>2. /\ h \o t \in Seq(Byte) /\ Len(h \o t) = Len(s)
      /\ \A i \in 1 .. n : (h \o t)[i] = s[i]
      /\ \A i \in 1 .. Len(s) - n : (h \o t)[n + i] = s[n + i]
  BY <1>1, Joined
<1>3. ASSUME NEW i \in 1 .. Len(s) PROVE (h \o t)[i] = s[i]
  <2>1. CASE i <= n
    BY <1>2, <2>1
  <2>2. CASE i > n
    <3>1. i - n \in 1 .. Len(s) - n /\ n + (i - n) = i
      BY <2>2
    <3> QED
      BY <3>1, <1>2
  <2>3. i <= n \/ i > n
    OBVIOUS
  <2> QED
    BY <2>1, <2>2, <2>3, Zenon
<1> QED
  BY <1>2, <1>3, SeqEqual DEF h, t

LEMMA FieldsSound ==
  ASSUME NEW s \in Seq(Byte), NEW r \in Nat, NEW w \in Nat, r <= w, w <= Len(s)
  PROVE  /\ Fields(s, r, w) \in Sound
         /\ Fields(s, r, w).buffer_ = s
         /\ Fields(s, r, w).readPos_ = r
         /\ Fields(s, r, w).writePos_ = w
BY DEF Fields, Sound

\* Two buffers with the same number of bytes to read, and the same bytes.
LEMMA SameBytes ==
  ASSUME NEW f \in Sound, NEW g \in Sound, ReadableBytes(g) = ReadableBytes(f),
         \A i \in 1 .. ReadableBytes(f) : g.buffer_[g.readPos_ + i] = f.buffer_[f.readPos_ + i]
  PROVE  Same(f, g)
<1>1. \A i \in 1 .. ReadableBytes(f) : Readable(g)[i] = Readable(f)[i]
  BY ReadableIs
<1> QED
  BY <1>1, ReadableIs, SeqEqual DEF Same

LEMMA GrownKeeps ==
  ASSUME NEW f \in Sound, NEW len \in Nat, WritableBytes(f) < len
  PROVE  /\ Same(f, Grown(f, len))
         /\ Len(Grown(f, len).buffer_) = f.writePos_ + len + 1
         /\ Grown(f, len).writePos_ = f.writePos_
<1> DEFINE k == f.writePos_ + len + 1 - Len(f.buffer_)
           s == f.buffer_ \o Zeros(k)
           g == Grown(f, len)
<1>1. /\ f.buffer_ \in Seq(Byte) /\ Len(f.buffer_) \in Nat
      /\ f.readPos_ \in Nat /\ f.writePos_ \in Nat
      /\ f.readPos_ <= f.writePos_ /\ f.writePos_ <= Len(f.buffer_)
      /\ k \in Nat
  BY DEF Sound, WritableBytes
<1>2. Zeros(k) \in Seq(Byte) /\ Len(Zeros(k)) = k
  BY <1>1, ZeroAssumption DEF Zeros
<1>3. /\ s \in Seq(Byte)
      /\ Len(s) = Len(f.buffer_) + k
      /\ \A i \in 1 .. Len(f.buffer_) : s[i] = f.buffer_[i]
  <2>1. /\ s \in Seq(Byte)
        /\ Len(s) = Len(f.buffer_) + Len(Zeros(k))
        /\ \A i \in 1 .. Len(f.buffer_) : s[i] = f.buffer_[i]
    BY <1>1, <1>2, Joined, Zenon
  <2> HIDE DEF k, s
  <2> QED
    BY <2>1, <1>2
<1>4. g = Fields(s, f.readPos_, f.writePos_)
  BY DEF Grown
<1> HIDE DEF s, g
<1>5. /\ g \in Sound
      /\ g.buffer_ = s /\ g.readPos_ = f.readPos_ /\ g.writePos_ = f.writePos_
  BY <1>1, <1>3, <1>4, FieldsSound, SMTT(30)
<1>6. ReadableBytes(g) = ReadableBytes(f)
  BY <1>5 DEF ReadableBytes
<1>7. \A i \in 1 .. ReadableBytes(f) : g.buffer_[g.readPos_ + i] = f.buffer_[f.readPos_ + i]
  <2> SUFFICES ASSUME NEW i \in 1 .. ReadableBytes(f)
               PROVE  s[f.readPos_ + i] = f.buffer_[f.readPos_ + i]
    BY <1>5
  <2>1. f.readPos_ + i \in 1 .. Len(f.buffer_)
    BY <1>1 DEF ReadableBytes
  <2> QED
    BY <2>1, <1>3
<1>8. Same(f, g)
  BY <1>5, <1>6, <1>7, SameBytes
<1> QED
  BY <1>1, <1>3, <1>5, <1>8 DEF g

LEMMA ShiftedKeeps ==
  ASSUME NEW f \in Sound
  PROVE  /\ Same(f, Shifted(f))
         /\ Len(Shifted(f).buffer_) = Len(f.buffer_)
         /\ Shifted(f).writePos_ = ReadableBytes(f)
<1> DEFINE n == ReadableBytes(f)
           tail == SubSeq(f.buffer_, n + 1, Len(f.buffer_))
           s == Readable(f) \o tail
           g == Shifted(f)
<1>1. /\ f.buffer_ \in Seq(Byte) /\ Len(f.buffer_) \in Nat
      /\ n \in 0 .. Len(f.buffer_)
  BY DEF Sound, ReadableBytes
<1>2. tail \in Seq(Byte) /\ Len(tail) = Len(f.buffer_) - n
  BY <1>1
<1>3. /\ Readable(f) \in Seq(Byte) /\ Len(Readable(f)) = n
      /\ \A i \in 1 .. n : Readable(f)[i] = f.buffer_[f.readPos_ + i]
  BY ReadableIs
<1>4. g = Fields(s, 0, n)
  BY DEF Shifted
<1> HIDE DEF n, tail, g
<1>5. /\ s \in Seq(Byte)
      /\ Len(s) = Len(f.buffer_)
      /\ \A i \in 1 .. n : s[i] = f.buffer_[f.readPos_ + i]
  <2>1. /\ s \in Seq(Byte)
        /\ Len(s) = Len(Readable(f)) + Len(tail)
        /\ \A i \in 1 .. Len(Readable(f)) : s[i] = Readable(f)[i]
    BY <1>2, <1>3, Joined, Zenon
  <2> HIDE DEF s
  <2> QED
    BY <2>1, <1>1, <1>2, <1>3
<1> HIDE DEF s
<1>6. g \in Sound /\ g.buffer_ = s /\ g.readPos_ = 0 /\ g.writePos_ = n
  BY <1>1, <1>4, <1>5, FieldsSound
<1>7. ReadableBytes(g) = n
  BY <1>1, <1>6 DEF ReadableBytes
<1>8. \A i \in 1 .. n : g.buffer_[g.readPos_ + i] = f.buffer_[f.readPos_ + i]
  BY <1>1, <1>5, <1>6
<1>9. Same(f, g)
  BY <1>6, <1>7, <1>8, SameBytes DEF n
<1> QED
  BY <1>5, <1>6, <1>9 DEF g, n

\* EnsureWriteable's assertion, and what it costs.
LEMMA EnsureKeeps ==
  ASSUME NEW f \in Sound, NEW len \in Nat
  PROVE  /\ Same(f, EnsureWriteable(f, len))
         /\ WritableBytes(EnsureWriteable(f, len)) >= len
         /\ Len(EnsureWriteable(f, len).buffer_)
              <= Larger(Len(f.buffer_), 2 * (ReadableBytes(f) + len))
<1>1. /\ Len(f.buffer_) \in Nat /\ f.readPos_ \in Nat /\ f.writePos_ \in Nat
      /\ f.readPos_ <= f.writePos_ /\ f.writePos_ <= Len(f.buffer_)
  BY DEF Sound
<1>2. CASE WritableBytes(f) >= len
  BY <1>1, <1>2 DEF EnsureWriteable, Same, WritableBytes, Larger, ReadableBytes
<1>3. CASE WritableBytes(f) < len /\ WritableBytes(f) + f.readPos_ < len
  <2>1. EnsureWriteable(f, len) = Grown(f, len)
    BY <1>1, <1>3 DEF EnsureWriteable, MakeSpace_
  <2> DEFINE g == EnsureWriteable(f, len)
  <2>2. /\ Same(f, g)
        /\ Len(g.buffer_) = f.writePos_ + len + 1
        /\ g.writePos_ = f.writePos_
    BY <1>3, <2>1, GrownKeeps
  <2> HIDE DEF g
  <2>3. WritableBytes(g) >= len
    BY <1>1, <2>2 DEF WritableBytes
  <2>4. f.readPos_ < len
    BY <1>1, <1>3 DEF WritableBytes
  <2>5. Len(g.buffer_) <= 2 * (ReadableBytes(f) + len)
    BY <1>1, <2>2, <2>4 DEF ReadableBytes
  <2>6. Len(g.buffer_) <= Larger(Len(f.buffer_), 2 * (ReadableBytes(f) + len))
    BY <1>1, <2>2, <2>5 DEF Larger, ReadableBytes
  <2> QED
    BY <2>2, <2>3, <2>6 DEF g
<1>4. CASE WritableBytes(f) < len /\ WritableBytes(f) + f.readPos_ >= len
  <2>1. EnsureWriteable(f, len) = Shifted(f)
    BY <1>1, <1>4 DEF EnsureWriteable, MakeSpace_, WritableBytes
  <2> HIDE DEF Shifted
  <2> QED
    BY <1>1, <1>4, <2>1, ShiftedKeeps DEF WritableBytes, ReadableBytes, Larger
<1> QED
  BY <1>1, <1>2, <1>3, <1>4 DEF WritableBytes

\* src has joined the readable bytes, and the vector is not too long for that.
Adds(f, g, src) ==
  /\ g \in Sound
  /\ ReadableBytes(g) = ReadableBytes(f) + Len(src)
  /\ Readable(g) = Readable(f) \o src
  /\ Len(g.buffer_) <= Larger(Len(f.buffer_), 2 * ReadableBytes(g))

LEMMA WrittenAdds ==
  ASSUME NEW f \in Sound, NEW src \in Seq(Byte), Len(src) <= WritableBytes(f)
  PROVE  Adds(f, Written(f, src), src) /\ Len(Written(f, src).buffer_) = Len(f.buffer_)
<1> DEFINE s == [i \in 1 .. Len(f.buffer_) |->
                   IF i - f.writePos_ \in 1 .. Len(src)
                   THEN src[i - f.writePos_] ELSE f.buffer_[i]]
           g == Written(f, src)
           r == f.readPos_
           w == f.writePos_
<1>1. /\ f.buffer_ \in Seq(Byte) /\ Len(f.buffer_) \in Nat
      /\ r \in Nat /\ w \in Nat /\ Len(src) \in Nat
      /\ r <= w /\ w + Len(src) <= Len(f.buffer_)
  BY DEF Sound, WritableBytes
<1>2. s \in Seq(Byte) /\ Len(s) = Len(f.buffer_)
  BY <1>1
<1>3. /\ \A i \in 1 .. w : s[i] = f.buffer_[i]
      /\ \A i \in 1 .. Len(src) : s[w + i] = src[i]
  BY <1>1, SMTT(30)
<1>4. g = Fields(s, r, w + Len(src))
  BY DEF Written
<1> HIDE DEF s, g
<1>5. /\ g \in Sound
      /\ g.buffer_ = s /\ g.readPos_ = r /\ g.writePos_ = w + Len(src)
  BY <1>1, <1>2, <1>4, FieldsSound
<1>6. ReadableBytes(g) = ReadableBytes(f) + Len(src)
  BY <1>1, <1>5 DEF ReadableBytes
<1>7. Readable(g) = Readable(f) \o src
  <2> DEFINE t == Readable(f) \o src
  <2>1. /\ t \in Seq(Byte)
        /\ Len(t) = Len(Readable(f)) + Len(src)
        /\ \A i \in 1 .. Len(Readable(f)) : t[i] = Readable(f)[i]
        /\ \A i \in 1 .. Len(src) : t[Len(Readable(f)) + i] = src[i]
    BY ReadableIs, Joined, Zenon
  <2> HIDE DEF t
  <2>2. /\ Readable(f) \in Seq(Byte) /\ Len(Readable(f)) = w - r
        /\ \A i \in 1 .. w - r : Readable(f)[i] = f.buffer_[r + i]
    BY ReadableIs DEF ReadableBytes
  <2>3. /\ Readable(g) \in Seq(Byte) /\ Len(Readable(g)) = w - r + Len(src)
        /\ \A i \in 1 .. w - r + Len(src) : Readable(g)[i] = s[r + i]
    BY <1>5, <1>6, ReadableIs DEF ReadableBytes
  <2>4. ASSUME NEW i \in 1 .. w - r + Len(src) PROVE Readable(g)[i] = t[i]
    <3>1. CASE i <= w - r
      <4>1. i \in 1 .. w - r /\ r + i \in 1 .. w
        BY <1>1, <3>1
      <4> QED
        BY <4>1, <1>3, <2>1, <2>2, <2>3
    <3>2. CASE i > w - r
      <4> DEFINE j == i - (w - r)
      <4>1. j \in 1 .. Len(src) /\ r + i = w + j /\ i = w - r + j
        BY <1>1, <3>2
      <4> HIDE DEF j
      <4>2. Readable(g)[i] = s[w + j]
        BY <4>1, <2>3
      <4>3. t[i] = src[j]
        BY <4>1, <2>1, <2>2
      <4> QED
        BY <4>1, <4>2, <4>3, <1>3
    <3> QED
      BY <1>1, <3>1, <3>2
  <2>5. Len(t) = Len(Readable(g))
    BY <1>1, <2>1, <2>2, <2>3
  <2> QED
    BY <2>1, <2>3, <2>4, <2>5, SeqEqual DEF t
<1> QED
  BY <1>1, <1>2, <1>5, <1>6, <1>7 DEF Adds, Larger, g, ReadableBytes

LEMMA AppendedAdds ==
  ASSUME NEW f \in Sound, NEW src \in Seq(Byte)
  PROVE  Adds(f, Appended(f, src), src)
<1> DEFINE e == EnsureWriteable(f, Len(src))
           g == Written(e, src)
<1>1. /\ e \in Sound
      /\ ReadableBytes(e) = ReadableBytes(f)
      /\ Readable(e) = Readable(f)
      /\ Len(src) <= WritableBytes(e)
      /\ Len(e.buffer_) <= Larger(Len(f.buffer_), 2 * (ReadableBytes(f) + Len(src)))
  BY EnsureKeeps, ReadableIs DEF Same
<1> HIDE DEF e
<1>2. Adds(e, g, src) /\ Len(g.buffer_) = Len(e.buffer_)
  BY <1>1, WrittenAdds
<1>3. g = Appended(f, src)
  BY DEF g, e, Appended
<1> HIDE DEF g
<1> QED
  BY <1>1, <1>2, <1>3 DEF Adds

\* The two parts of what was read follow each other.
LEMMA ReceivedAdds ==
  ASSUME NEW f \in Sound, NEW src \in Seq(Byte)
  PROVE  Adds(f, Received(f, src), src)
<1>1. WritableBytes(f) \in Nat
  BY ReadableIs
<1>2. CASE Len(src) <= WritableBytes(f)
  BY <1>2, WrittenAdds DEF Received
<1>3. CASE Len(src) > WritableBytes(f)
  <2> DEFINE n == WritableBytes(f)
             first == SubSeq(src, 1, n)
             rest == SubSeq(src, n + 1, Len(src))
             m == Written(f, first)
             g == Appended(m, rest)
  <2>1. /\ first \in Seq(Byte) /\ Len(first) = n
        /\ rest \in Seq(Byte) /\ Len(rest) = Len(src) - n
    BY <1>1, <1>3
  <2>2. first \o rest = src
    <3>1. n \in 0 .. Len(src)
      BY <1>1, <1>3
    <3> QED
      BY <3>1, SplitJoined, Zenon
  <2>3. g = Received(f, src)
    BY <1>1, <1>3 DEF Received
  <2> HIDE DEF n, first, rest, g
  <2>4. Adds(f, m, first) /\ Len(m.buffer_) = Len(f.buffer_)
    BY <2>1, WrittenAdds DEF n
  <2> HIDE DEF m
  <2>5. Adds(m, g, rest)
    BY <2>1, <2>4, AppendedAdds DEF Adds, g
  <2>6. /\ Readable(f) \in Seq(Byte)
        /\ ReadableBytes(f) \in Nat /\ n \in Nat /\ Len(src) \in Nat
    BY <1>1, ReadableIs DEF n
  <2>7. (Readable(f) \o first) \o rest = Readable(f) \o (first \o rest)
    BY <2>1, <2>6, SMTT(30)
  <2>8. ReadableBytes(g) = ReadableBytes(f) + Len(src)
    BY <2>1, <2>4, <2>5, <2>6 DEF Adds
  <2> QED
    BY <2>2, <2>3, <2>4, <2>5, <2>7, <2>8 DEF Adds
<1> QED
  BY <1>1, <1>2, <1>3

\* What is behind the first n bytes.
LEMMA RestIs ==
  ASSUME NEW s \in Seq(Byte), NEW n \in Nat, n <= Len(s)
  PROVE  LET t == SubSeq(s, n + 1, Len(s))
         IN  /\ t \in Seq(Byte)
             /\ Len(t) = Len(s) - n
             /\ \A i \in 1 .. Len(s) - n : t[i] = s[n + i]
<1> DEFINE t == SubSeq(s, n + 1, Len(s))
<1>1. Len(s) \in Nat
  OBVIOUS
<1>2. Len(t) = Len(s) - n
  BY <1>1
<1>3. \A i \in 1 .. Len(s) - n : t[i] = s[n + i]
  BY <1>1
<1>4. t \in Seq(Byte)
  BY <1>1
<1> QED
  BY <1>2, <1>3, <1>4

\* Retrieving takes bytes off the front and touches nothing else.
LEMMA TakenLeaves ==
  ASSUME NEW f \in Sound, NEW n \in 0 .. ReadableBytes(f)
  PROVE  LET g == Fields(f.buffer_, f.readPos_ + n, f.writePos_)
         IN  /\ g \in Sound
             /\ g.buffer_ = f.buffer_
             /\ ReadableBytes(g) = ReadableBytes(f) - n
             /\ Readable(g) = SubSeq(Readable(f), n + 1, Len(Readable(f)))
<1> DEFINE r == f.readPos_
           w == f.writePos_
           g == Fields(f.buffer_, r + n, w)
           t == SubSeq(Readable(f), n + 1, Len(Readable(f)))
<1>1. f.buffer_ \in Seq(Byte) /\ r \in Nat /\ w \in Nat /\ r + n <= w /\ w <= Len(f.buffer_)
  BY DEF Sound, ReadableBytes
<1>2. /\ g \in Sound
      /\ g.buffer_ = f.buffer_ /\ g.readPos_ = r + n /\ g.writePos_ = w
  BY <1>1, FieldsSound
<1> HIDE DEF g
<1>3. ReadableBytes(g) = ReadableBytes(f) - n
  BY <1>1, <1>2 DEF ReadableBytes
<1>4. /\ Readable(f) \in Seq(Byte) /\ Len(Readable(f)) = w - r
      /\ \A i \in 1 .. w - r : Readable(f)[i] = f.buffer_[r + i]
  BY ReadableIs DEF ReadableBytes
<1>5. /\ Readable(g) \in Seq(Byte) /\ Len(Readable(g)) = w - r - n
      /\ \A i \in 1 .. w - r - n : Readable(g)[i] = f.buffer_[r + n + i]
  <2>1. /\ Readable(g) \in Seq(Byte) /\ Len(Readable(g)) = ReadableBytes(g)
        /\ \A i \in 1 .. ReadableBytes(g) : Readable(g)[i] = g.buffer_[g.readPos_ + i]
    BY <1>2, ReadableIs, Zenon
  <2>2. ReadableBytes(g) = w - r - n
    BY <1>1, <1>2 DEF ReadableBytes
  <2> QED
    BY <1>1, <1>2, <2>1, <2>2
<1>6. /\ t \in Seq(Byte) /\ Len(t) = w - r - n
      /\ \A i \in 1 .. w - r - n : t[i] = Readable(f)[n + i]
  <2> HIDE DEF r, w
  <2>1. n \in Nat /\ n <= w - r /\ w - r = Len(Readable(f))
    BY <1>1, <1>4
  <2> QED
    BY <1>4, <2>1, RestIs
<1> HIDE DEF t
<1>7. ASSUME NEW i \in 1 .. w - r - n PROVE Readable(g)[i] = t[i]
  <2>1. n + i \in 1 .. w - r /\ r + (n + i) = r + n + i
    BY <1>1
  <2> QED
    BY <2>1, <1>4, <1>5, <1>6
<1>8. Readable(g) = t
  BY <1>5, <1>6, <1>7, SeqEqual
<1> QED
  BY <1>2, <1>3, <1>8 DEF g, t

LEMMA ClearedIs ==
  ASSUME NEW f \in Sound
  PROVE  LET g == Fields(Zeros(Len(f.buffer_)), 0, 0)
         IN  /\ g \in Sound
             /\ Len(g.buffer_) = Len(f.buffer_)
             /\ ReadableBytes(g) = 0
             /\ Readable(g) = <<>>
<1> DEFINE z == Zeros(Len(f.buffer_))
           g == Fields(z, 0, 0)
<1>1. z \in Seq(Byte) /\ Len(z) = Len(f.buffer_) /\ Len(f.buffer_) \in Nat
  BY ZeroAssumption DEF Zeros, Sound
<1> HIDE DEF z
<1>2. g \in Sound /\ g.buffer_ = z /\ g.readPos_ = 0 /\ g.writePos_ = 0
  BY <1>1, FieldsSound
<1>3. ReadableBytes(g) = 0 /\ Readable(g) = <<>>
  BY <1>1, <1>2 DEF ReadableBytes, Readable
<1> QED
  BY <1>1, <1>2, <1>3 DEF z

\* What Peek(char*, size_t) leaves to be read: up to k bytes of the caller's
\* array, and the buffer's own from there on.
LEMMA PeekOverwrites ==
  ASSUME NEW f \in Sound, NEW a \in Seq(Byte), Len(a) <= ReadableBytes(f)
  PROVE  LET g == Fields(a \o SubSeq(f.buffer_, Len(a) + 1, Len(f.buffer_)),
                         f.readPos_, f.writePos_)
         IN  /\ g \in Sound
             /\ Len(g.buffer_) = Len(f.buffer_)
             /\ ReadableBytes(g) = ReadableBytes(f)
             /\ \E k \in 0 .. Len(a) :
                  Readable(g) = SubSeq(a, Len(a) - k + 1, Len(a))
                                  \o SubSeq(Readable(f), k + 1, Len(Readable(f)))
<1> DEFINE r == f.readPos_
           w == f.writePos_
           m == Len(a)
           tail == SubSeq(f.buffer_, m + 1, Len(f.buffer_))
           s == a \o tail
           g == Fields(s, r, w)
           k == IF m <= r THEN 0 ELSE m - r
           over == SubSeq(a, m - k + 1, m)
           kept == SubSeq(Readable(f), k + 1, Len(Readable(f)))
           t == over \o kept
<1>1. /\ f.buffer_ \in Seq(Byte) /\ Len(f.buffer_) \in Nat
      /\ r \in Nat /\ w \in Nat /\ r <= w /\ w <= Len(f.buffer_)
      /\ m \in Nat /\ m <= w - r
  BY DEF Sound, ReadableBytes
<1>2. /\ tail \in Seq(Byte) /\ Len(tail) = Len(f.buffer_) - m
      /\ \A i \in 1 .. Len(f.buffer_) - m : tail[i] = f.buffer_[m + i]
  BY <1>1
<1>3. /\ s \in Seq(Byte) /\ Len(s) = m + Len(tail)
      /\ \A i \in 1 .. m : s[i] = a[i]
      /\ \A i \in 1 .. Len(tail) : s[m + i] = tail[i]
  BY <1>2, Joined, Zenon
<1> HIDE DEF tail, s
<1>4. /\ g \in Sound
      /\ g.buffer_ = s /\ g.readPos_ = r /\ g.writePos_ = w
  BY <1>1, <1>2, <1>3, FieldsSound
<1> HIDE DEF g
<1>5. /\ Readable(f) \in Seq(Byte) /\ Len(Readable(f)) = w - r
      /\ \A i \in 1 .. w - r : Readable(f)[i] = f.buffer_[r + i]
  BY ReadableIs DEF ReadableBytes
<1>6. /\ Readable(g) \in Seq(Byte) /\ Len(Readable(g)) = w - r
      /\ \A i \in 1 .. w - r : Readable(g)[i] = s[r + i]
  BY <1>4, ReadableIs DEF ReadableBytes
<1>7. k \in 0 .. m /\ (m > r => k = m - r) /\ (m <= r => k = 0)
  BY <1>1
<1> HIDE DEF k
<1>8. /\ over \in Seq(Byte) /\ Len(over) = k
      /\ \A i \in 1 .. k : over[i] = a[m - k + i]
  BY <1>1, <1>7
<1>9. /\ kept \in Seq(Byte) /\ Len(kept) = w - r - k
      /\ \A i \in 1 .. w - r - k : kept[i] = Readable(f)[k + i]
  BY <1>1, <1>5, <1>7, SMTT(30)
<1> HIDE DEF over, kept
<1>10. /\ t \in Seq(Byte) /\ Len(t) = w - r
       /\ \A i \in 1 .. k : t[i] = over[i]
       /\ \A i \in 1 .. w - r - k : t[k + i] = kept[i]
  <2>1. /\ t \in Seq(Byte) /\ Len(t) = Len(over) + Len(kept)
        /\ \A i \in 1 .. Len(over) : t[i] = over[i]
        /\ \A i \in 1 .. Len(kept) : t[Len(over) + i] = kept[i]
    BY <1>8, <1>9, Joined, Zenon
  <2> HIDE DEF t
  <2> QED
    BY <2>1, <1>1, <1>7, <1>8, <1>9
<1> HIDE DEF t
<1>11. ASSUME NEW i \in 1 .. w - r PROVE Readable(g)[i] = t[i]
  <2>1. CASE i <= k
    <3>1. i \in 1 .. k /\ m - k + i = r + i /\ r + i \in 1 .. m
      BY <1>1, <1>7, <2>1, SMTT(30)
    <3>2. t[i] = a[r + i]
      BY <3>1, <1>8, <1>10
    <3>3. Readable(g)[i] = a[r + i]
      BY <3>1, <1>3, <1>6
    <3> QED
      BY <3>2, <3>3
  <2>2. CASE i > k
    <3> DEFINE j == i - k
               h == r + i - m
    <3>1. /\ j \in 1 .. w - r - k /\ k + j = i
          /\ h \in 1 .. Len(f.buffer_) - m /\ m + h = r + i
      BY <1>1, <1>7, <2>2, SMTT(30)
    <3> HIDE DEF j, h
    <3>2. s[r + i] = f.buffer_[r + i]
      BY <3>1, <1>2, <1>3, ZenonT(30)
    <3>3. t[i] = Readable(f)[i]
      BY <3>1, <1>9, <1>10
    <3> QED
      BY <3>2, <3>3, <1>5, <1>6
  <2> QED
    BY <1>1, <1>7, <2>1, <2>2
<1>12. Readable(g) = t
  BY <1>6, <1>10, <1>11, SeqEqual
<1>13. ReadableBytes(g) = ReadableBytes(f) /\ Len(g.buffer_) = Len(f.buffer_)
  BY <1>1, <1>2, <1>3, <1>4 DEF ReadableBytes
<1> QED
  BY <1>4, <1>7, <1>12, <1>13 DEF g, s, tail, t, over, kept
-----------------------------------------------------------------------------
(* One step, in terms of what becomes readable.                            *)

Inv == TypeOK /\ GrowthBounded

\* Every step puts bytes in, takes some out or overwrites some, and leaves
\* the vector no longer than it may be.
StepIs(f, g, d) ==
  /\ g \in Sound
  /\ d \in Nat
  /\ ReadableBytes(g) <= d
  /\ Len(g.buffer_) <= Larger(Len(f.buffer_), 2 * d)
  /\ d >= demand

LEMMA SoundIs == TypeOK <=> b \in Sound /\ io \in Seq(Byte) /\ demand \in Nat
BY DEF TypeOK, Sound

LEMMA LargerChain ==
  ASSUME NEW x \in Nat, NEW m \in Nat, NEW n \in Nat, NEW d \in Nat, NEW e \in Nat,
         m <= Larger(x, 2 * d), n <= Larger(m, 2 * e), d <= e
  PROVE  n <= Larger(x, 2 * e)
BY DEF Larger

LEMMA StepKeepsInv ==
  ASSUME Inv, StepIs(b, b', demand'), io' \in Seq(Byte)
  PROVE  Inv'
<1>1. TypeOK'
  BY DEF StepIs, Sound, TypeOK
<1>2. Len(b.buffer_) \in Nat /\ Len(b'.buffer_) \in Nat /\ demand \in Nat /\ InitSize \in Nat
  BY SizeAssumption, <1>1 DEF Inv, TypeOK
<1>3. GrowthBounded'
  <2>1. Len(b.buffer_) <= Larger(InitSize, 2 * demand)
    BY DEF Inv, GrowthBounded
  <2>2. /\ Len(b'.buffer_) <= Larger(Len(b.buffer_), 2 * demand')
        /\ demand' \in Nat /\ demand <= demand'
        /\ ReadableBytes(b') <= demand'
    BY <1>2 DEF StepIs
  <2>3. Len(b'.buffer_) <= Larger(InitSize, 2 * demand')
    BY <1>2, <2>1, <2>2, LargerChain
  <2> QED
    BY <2>2, <2>3 DEF GrowthBounded
<1> QED
  BY <1>1, <1>3 DEF Inv

LEMMA AddingStep ==
  ASSUME Inv, NEW src \in Seq(Byte), Adds(b, b', src), Demands(Len(src)), io' = src
  PROVE  Inv' /\ GQ!Put
<1>1. b \in Sound /\ demand \in Nat
  BY SoundIs DEF Inv
<1>2. ReadableBytes(b) \in Nat /\ Len(src) \in Nat
  BY <1>1, ReadableIs
<1>3. StepIs(b, b', demand')
  <2>1. ReadableBytes(b') = ReadableBytes(b) + Len(src)
    BY DEF Adds
  <2>2. demand' \in Nat /\ demand' >= demand /\ ReadableBytes(b') <= demand'
    BY <1>1, <1>2, <2>1 DEF Demands, Larger
  <2>3. Len(b.buffer_) \in Nat /\ Len(b'.buffer_) \in Nat
    BY <1>1 DEF Adds, Sound
  <2>4. Len(b'.buffer_) <= Larger(Len(b.buffer_), 2 * demand')
    BY <1>2, <2>1, <2>2, <2>3 DEF Adds, Larger
  <2> QED
    BY <2>2, <2>4 DEF StepIs, Adds
<1>4. GQ!Put
  BY DEF GQ!Put, Adds
<1> QED
  BY <1>3, <1>4, StepKeepsInv

\* A step that leaves the vector as long as it is and makes nothing readable.
LEMMA QuietStep ==
  ASSUME Inv, b' \in Sound, Len(b'.buffer_) = Len(b.buffer_),
         ReadableBytes(b') <= ReadableBytes(b), io' \in Seq(Byte), UNCHANGED demand
  PROVE  Inv'
<1>1. /\ b \in Sound /\ demand \in Nat /\ Len(b.buffer_) \in Nat
      /\ ReadableBytes(b) \in Nat /\ ReadableBytes(b') \in Nat
      /\ ReadableBytes(b) <= demand
  BY SoundIs, ReadableIs, SMTT(30) DEF Inv, GrowthBounded, Sound
<1>2. StepIs(b, b', demand')
  BY <1>1 DEF StepIs, Larger
<1> QED
  BY <1>2, StepKeepsInv

LEMMA BytesTyped == \A src \in Bytes(MaxReadable) : src \in Seq(Byte) /\ Len(src) \in 0 .. MaxReadable
BY BoundAssumption DEF Bytes

LEMMA TakingStep ==
  ASSUME Inv, NEW n \in 0 .. ReadableBytes(b),
         b' = Fields(b.buffer_, b.readPos_ + n, b.writePos_),
         io' \in {<<>>, SubSeq(Readable(b), 1, n)}, UNCHANGED demand
  PROVE  Inv' /\ \E k \in 0 .. Len(Readable(b)) : GQ!Take(k)
<1>1. /\ b \in Sound
      /\ Readable(b) \in Seq(Byte)
      /\ Len(Readable(b)) = ReadableBytes(b)
      /\ ReadableBytes(b) \in Nat
  BY SoundIs, ReadableIs DEF Inv
<1>2. /\ b' \in Sound
      /\ b'.buffer_ = b.buffer_
      /\ ReadableBytes(b') = ReadableBytes(b) - n
      /\ Readable(b') = SubSeq(Readable(b), n + 1, Len(Readable(b)))
  BY <1>1, TakenLeaves
<1>3. io' \in Seq(Byte)
  <2>1. <<>> \in Seq(Byte) /\ SubSeq(Readable(b), 1, n) \in Seq(Byte)
    BY <1>1
  <2> QED
    BY <2>1
<1>4. Inv'
  BY <1>1, <1>2, <1>3, QuietStep
<1>5. GQ!Take(n)
  BY <1>2 DEF GQ!Take
<1> QED
  BY <1>1, <1>4, <1>5

LEMMA ClearingStep ==
  ASSUME Inv, b' = Cleared, io' \in {<<>>, Readable(b)}, UNCHANGED demand
  PROVE  Inv' /\ \E k \in 0 .. Len(Readable(b)) : GQ!Take(k)
<1> DEFINE n == Len(Readable(b))
<1>1. /\ b \in Sound
      /\ Readable(b) \in Seq(Byte)
      /\ n \in Nat
      /\ ReadableBytes(b) \in Nat
  BY SoundIs, ReadableIs DEF Inv
<1>2. /\ b' \in Sound
      /\ Len(b'.buffer_) = Len(b.buffer_)
      /\ ReadableBytes(b') = 0
      /\ Readable(b') = <<>>
  BY <1>1, ClearedIs DEF Cleared
<1>3. Inv'
  <2>1. <<>> \in Seq(Byte)
    OBVIOUS
  <2>2. io' \in Seq(Byte)
    BY <1>1, <2>1
  <2> QED
    BY <1>1, <1>2, <2>2, QuietStep
<1>4. /\ SubSeq(Readable(b), n + 1, n) = <<>>
      /\ SubSeq(Readable(b), 1, n) = Readable(b)
  BY <1>1
<1>5. GQ!Take(n)
  BY <1>2, <1>4 DEF GQ!Take
<1> QED
  BY <1>1, <1>3, <1>5

LEMMA PeekingStep ==
  ASSUME Inv, NEW array \in Seq(Byte), PeekInto(array)
  PROVE  Inv' /\ \E k \in 0 .. Len(Readable(b)) : GQ!Overwrite(k)
<1> DEFINE rl == IF ReadableBytes(b) >= Len(array) THEN Len(array) ELSE ReadableBytes(b)
           a == SubSeq(array, 1, rl)
<1>1. /\ b \in Sound
      /\ Len(Readable(b)) = ReadableBytes(b)
      /\ ReadableBytes(b) \in Nat
  BY SoundIs, ReadableIs DEF Inv
<1>2. a \in Seq(Byte) /\ Len(a) = rl /\ rl <= ReadableBytes(b) /\ rl \in Nat
  BY <1>1
<1>3. /\ io' = a
      /\ b' = Fields(a \o SubSeq(b.buffer_, rl + 1, Len(b.buffer_)), b.readPos_, b.writePos_)
      /\ UNCHANGED demand
  BY DEF PeekInto
<1> HIDE DEF rl, a
<1>4. /\ b' \in Sound
      /\ Len(b'.buffer_) = Len(b.buffer_)
      /\ ReadableBytes(b') = ReadableBytes(b)
      /\ \E k \in 0 .. Len(a) :
           Readable(b') = SubSeq(a, Len(a) - k + 1, Len(a))
                            \o SubSeq(Readable(b), k + 1, Len(Readable(b)))
  BY <1>1, <1>2, <1>3, PeekOverwrites
<1>5. Inv'
  BY <1>1, <1>2, <1>3, <1>4, QuietStep
<1>6. PICK k \in 0 .. Len(a) :
        Readable(b') = SubSeq(a, Len(a) - k + 1, Len(a))
                         \o SubSeq(Readable(b), k + 1, Len(Readable(b)))
  BY <1>4
<1>7. k \in 0 .. Len(Readable(b))
  BY <1>1, <1>2
<1>8. GQ!Overwrite(k)
  <2>1. /\ io' \in Seq(Byte)
        /\ k <= Len(io')
        /\ Len(io') <= Len(Readable(b))
    BY <1>1, <1>2, <1>3
  <2>2. Readable(b)' = SubSeq(io', Len(io') - k + 1, Len(io'))
                         \o SubSeq(Readable(b), k + 1, Len(Readable(b)))
    BY <1>3, <1>6, Zenon
  <2> QED
    BY <2>1, <2>2 DEF GQ!Overwrite
<1> QED
  BY <1>5, <1>7, <1>8

\* EnsureWriteable on its own: nothing to read comes or goes.
LEMMA ReservingStep ==
  ASSUME Inv, NEW len \in Nat, Reserve(len)
  PROVE  Inv' /\ GQ!Put
<1>1. b \in Sound /\ demand \in Nat /\ ReadableBytes(b) \in Nat /\ Readable(b) \in Seq(Byte)
  BY SoundIs, ReadableIs DEF Inv
<1>2. /\ b' \in Sound
      /\ ReadableBytes(b') = ReadableBytes(b)
      /\ Readable(b') = Readable(b)
      /\ Len(b'.buffer_) <= Larger(Len(b.buffer_), 2 * (ReadableBytes(b) + len))
  BY <1>1, EnsureKeeps DEF Reserve, Same
<1>3. /\ demand' \in Nat /\ demand' >= demand
      /\ ReadableBytes(b) + len <= demand'
  BY <1>1 DEF Reserve, Demands, Larger
<1>4. Len(b.buffer_) \in Nat /\ Len(b'.buffer_) \in Nat
  BY <1>1, <1>2 DEF Sound
<1>5. Len(b'.buffer_) <= Larger(Len(b.buffer_), 2 * demand')
  BY <1>1, <1>2, <1>3, <1>4 DEF Larger
<1>6. StepIs(b, b', demand')
  BY <1>1, <1>2, <1>3, <1>5 DEF StepIs
<1>7. io' = <<>> /\ io' \in Seq(Byte)
  BY DEF Reserve
<1>8. Readable(b') = Readable(b) \o io'
  BY <1>1, <1>2, <1>7
<1> QED
  BY <1>6, <1>7, <1>8, StepKeepsInv DEF GQ!Put
-----------------------------------------------------------------------------
(* The theorems.                                                           *)

LEMMA InitInv == Init => Inv /\ GQ!GQInit
<1> SUFFICES ASSUME Init PROVE Inv /\ GQ!GQInit
  OBVIOUS
<1>1. Zeros(InitSize) \in Seq(Byte) /\ Len(Zeros(InitSize)) = InitSize
  BY SizeAssumption, ZeroAssumption DEF Zeros
<1>2. b \in Sound /\ b.buffer_ = Zeros(InitSize) /\ b.readPos_ = 0 /\ b.writePos_ = 0
  BY <1>1, SizeAssumption, FieldsSound DEF Init
<1>3. Readable(b) = <<>> /\ ReadableBytes(b) = 0
  BY <1>1, <1>2 DEF Readable, ReadableBytes
<1>4. TypeOK
  BY <1>2, SoundIs DEF Init
<1>5. GrowthBounded
  BY <1>1, <1>2, <1>3, SizeAssumption DEF Init, GrowthBounded, Larger
<1> QED
  BY <1>3, <1>4, <1>5 DEF Inv, GQ!GQInit, Init

\* Every step keeps the invariant and is a step, or none, of the queue.
LEMMA StepRefines ==
  ASSUME Inv, [Next]_vars
  PROVE  Inv' /\ [GQ!GQNext]_(GQ!gqVars)
<1> USE DEF GQ!GQNext
<1>0. b \in Sound /\ ReadableBytes(b) \in Nat
  BY SoundIs, ReadableIs DEF Inv
<1>1. ASSUME NEW src \in Bytes(MaxReadable), Append_(src) \/ HasWritten(src) \/ ReadFd(src)
      PROVE  Inv' /\ GQ!Put
  <2>1. src \in Seq(Byte)
    BY BytesTyped
  <2>2. Demands(Len(src)) /\ io' = src
    BY <1>1 DEF Append_, HasWritten, ReadFd
  <2>3. Adds(b, b', src)
    BY <1>0, <1>1, <2>1, AppendedAdds, WrittenAdds, ReceivedAdds DEF Append_, HasWritten, ReadFd
  <2> QED
    BY <2>1, <2>2, <2>3, AddingStep
<1>2. ASSUME NEW src \in Bytes(MaxReadable), PeekInto(src)
      PROVE  Inv' /\ \E k \in 0 .. Len(Readable(b)) : GQ!Overwrite(k)
  BY <1>2, BytesTyped, PeekingStep
<1>3. ASSUME NEW n \in 0 .. MaxReadable, Reserve(n) PROVE Inv' /\ GQ!Put
  BY <1>3, ReservingStep, BoundAssumption
<1>4. ASSUME NEW n \in Nat, Retrieve(n) \/ WriteFd(n)
      PROVE  Inv' /\ \E k \in 0 .. Len(Readable(b)) : GQ!Take(k)
  BY <1>0, <1>4, TakingStep DEF Retrieve, WriteFd
<1>5. ASSUME NEW end \in 0 .. Len(b.buffer_), RetrieveUntil(end)
      PROVE  Inv' /\ \E k \in 0 .. Len(Readable(b)) : GQ!Take(k)
  <2>1. end - b.readPos_ \in Nat /\ Retrieve(end - b.readPos_)
    BY <1>0, <1>5 DEF RetrieveUntil, Sound
  <2> QED
    BY <2>1, <1>4
<1>6. ASSUME RetrieveAll \/ RetrieveAllToStr
      PROVE  Inv' /\ \E k \in 0 .. Len(Readable(b)) : GQ!Take(k)
  BY <1>6, ClearingStep DEF RetrieveAll, RetrieveAllToStr
<1>7. CASE UNCHANGED vars
  BY <1>7 DEF vars, Inv, TypeOK, GrowthBounded, GQ!gqVars, Readable, ReadableBytes
<1> QED
  BY <1>1, <1>2, <1>3, <1>4, <1>5, <1>6, <1>7, BoundAssumption DEF Next

LEMMA Invariance == Spec => []Inv
<1>1. Inv /\ [Next]_vars => Inv'
  BY StepRefines
<1> QED
  BY InitInv, <1>1, PTL DEF Spec

\* The positions stay in order and inside the vector (buffer.cpp, every
\* operation), for every initial size and every use.
THEOREM BufferTyped == Spec => []TypeOK
<1>1. Inv => TypeOK
  BY DEF Inv
<1> QED
  BY Invariance, <1>1, PTL

\* MakeSpace_ never lets the vector grow past twice what its owner needed.
THEOREM BufferGrowth == Spec => []GrowthBounded
<1>1. Inv => GrowthBounded
  BY DEF Inv
<1> QED
  BY Invariance, <1>1, PTL

\* The buffer is the queue GrowingQueue describes.
THEOREM BufferRefines == Spec => ImplementsGrowingQueue
<1>1. Inv /\ [Next]_vars => [GQ!GQNext]_(GQ!gqVars)
  BY StepRefines
<1>2. Init => GQ!GQInit
  BY InitInv
<1> QED
  BY Invariance, <1>1, <1>2, PTL DEF Spec, ImplementsGrowingQueue, GQ!GQSpec
=============================================================================
