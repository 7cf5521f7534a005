---------------------------- MODULE ReceiveProofs ----------------------------
(***************************************************************************)
(* The receive path takes every frame of a client that waits for its       *)
(* answers, once and in order, for every set of messages, every number of  *)
(* them and every size of the buffer that has room for them.               *)
(*                                                                         *)
(* What is readable and what is under way make one stream of bytes, unless *)
(* the buffer has relapsed: then what is readable are old bytes, which the *)
(* next append replaces.  The invariant says that in the stream the bytes  *)
(* of a message lie together and in order (Stream), that a frame that was  *)
(* not executed is in it (Kept) and is the last message in it, and that    *)
(* what was executed is older than all of it (Done).                       *)
(***************************************************************************)
EXTENDS Receive, CBufferLemmas, SequenceTheorems

\* A damaged frame that init can tell from a good one by its own bytes: the
\* length it shows is out of range or within the message.  (A length field
\* damaged to a larger number makes init wait for bytes nobody sends.)
Recognisable ==
  \A s \in Shapes : s.head /\ ~ s.good =>
    /\ FRAME_BEFORE_NUM <= s.size
    /\ s.length > FRAME_MAX_LEN \/ ReadUpTo(s.length) <= s.size

-----------------------------------------------------------------------------
(* Streams of bytes of the messages in snt.                                *)

Placed(st, snt) ==
  \A i \in 1 .. Len(st) : /\ st[i].msg \in 1 .. Len(snt)
                          /\ st[i].pos \in 1 .. snt[st[i].msg].size

Ordered(st) ==
  \A i, j \in 1 .. Len(st) :
    i < j => \/ st[i].msg < st[j].msg
             \/ st[i].msg = st[j].msg /\ st[i].pos < st[j].pos

Together(st, snt) ==
  \A i, j \in 1 .. Len(st) :
    j - i \in 1 - st[i].pos .. snt[st[i].msg].size - st[i].pos =>
      st[j] = [msg |-> st[i].msg, pos |-> st[i].pos + (j - i)]

Whole(st, snt) ==
  st # <<>> => /\ st[1].pos = 1
               /\ st[Len(st)].pos = snt[st[Len(st)].msg].size

GoodIsLast(st, snt) == \A i \in 1 .. Len(st) : snt[st[i].msg].good => st[i].msg = Len(snt)

Stream(st, snt) == /\ st \in Seq(Byte)
                   /\ Placed(st, snt)
                   /\ Ordered(st)
                   /\ Together(st, snt)
                   /\ Whole(st, snt)
                   /\ GoodIsLast(st, snt)

\* What was executed: frames, each once and in order, all older than the stream.
Done(st, snt, ex) ==
  /\ \A k \in 1 .. Len(ex) : /\ ex[k] \in 1 .. Len(snt) /\ snt[ex[k]].good
                             /\ \A i \in 1 .. Len(st) : ex[k] < st[i].msg
  /\ \A k, l \in 1 .. Len(ex) : k < l => ex[k] < ex[l]

Kept(st, snt, ex) ==
  \A m \in 1 .. Len(snt) :
    snt[m].good => \/ \E k \in 1 .. Len(ex) : ex[k] = m
                   \/ \E i \in 1 .. Len(st) : st[i] = [msg |-> m, pos |-> 1]

LEMMA ByteFields ==
  \A b \in Byte : /\ b.msg \in 1 .. MaxSent /\ b.pos \in Nat
                  /\ b = [msg |-> b.msg, pos |-> b.pos]
BY ByteAssumption

LEMMA ShapeFields ==
  \A s \in Shapes : /\ s.head \in BOOLEAN /\ s.good \in BOOLEAN
                    /\ s.length \in Nat /\ s.size \in Nat \ {0}
BY ShapeAssumption DEF Shape

LEMMA Messages ==
  ASSUME NEW snt \in Seq(Shapes), NEW st, Placed(st, snt), NEW i \in 1 .. Len(st)
  PROVE  /\ st[i].msg \in Nat /\ st[i].msg >= 1 /\ st[i].msg <= Len(snt)
         /\ snt[st[i].msg] \in Shapes
         /\ snt[st[i].msg].size \in Nat
         /\ st[i].pos \in Nat /\ st[i].pos >= 1 /\ st[i].pos <= snt[st[i].msg].size
<1>1. st[i].msg \in 1 .. Len(snt) /\ st[i].pos \in 1 .. snt[st[i].msg].size
  BY DEF Placed
<1>2. snt[st[i].msg] \in Shapes
  BY <1>1
<1>3. snt[st[i].msg].size \in Nat
  BY <1>2, ShapeFields
<1> QED
  BY <1>1, <1>2, <1>3

\* A byte's message has begun in the stream, as many places before it as its
\* position says.
LEMMA HeadBefore ==
  ASSUME NEW snt \in Seq(Shapes), NEW st, Stream(st, snt), NEW i \in 1 .. Len(st),
         NEW h, h = i - st[i].pos + 1
  PROVE  h \in 1 .. i /\ st[h] = [msg |-> st[i].msg, pos |-> 1]
<1> DEFINE p == st[i].pos
           z == snt[st[i].msg].size
<1>1. st \in Seq(Byte) /\ Len(st) \in Nat
  BY DEF Stream
<1>2. p \in Nat /\ p >= 1 /\ p <= z /\ z \in Nat
  BY Messages DEF Stream
<1>3. \A j \in 1 .. Len(st) :
        j - i \in 1 - p .. z - p => st[j] = [msg |-> st[i].msg, pos |-> p + (j - i)]
  BY DEF Stream, Together
<1>4. st[1].pos = 1
  BY <1>1 DEF Stream, Whole
<1> HIDE DEF p, z
<1>5. p <= i
  <2>1. ASSUME i < p PROVE FALSE
    <3>1. 1 \in 1 .. Len(st) /\ 1 - i \in 1 - p .. z - p
      BY <1>1, <1>2, <2>1
    <3>2. st[1] = [msg |-> st[i].msg, pos |-> p + (1 - i)]
      BY <1>3, <3>1
    <3> QED
      BY <1>2, <1>4, <2>1, <3>2
  <2> QED
    BY <1>2, <2>1
<1>6. h = i - p + 1
  BY DEF p
<1>7. h \in 1 .. i /\ h \in 1 .. Len(st) /\ h - i \in 1 - p .. z - p /\ p + (h - i) = 1
  BY <1>1, <1>2, <1>5, <1>6
<1> QED
  BY <1>3, <1>7

\* A frame begins at place i.
GoodAt(st, snt, i) == snt[st[i].msg].good /\ st[i].pos = 1

\* From the first byte of the last frame to the end, the stream is that frame.
LEMMA GoodTail ==
  ASSUME NEW snt \in Seq(Shapes), NEW st, Stream(st, snt), NEW i \in 1 .. Len(st),
         GoodAt(st, snt, i)
  PROVE  /\ st[i].msg = Len(snt) /\ Len(snt) >= 1 /\ snt[Len(snt)] \in Shapes
         /\ snt[Len(snt)].good
         /\ Len(st) = i + snt[Len(snt)].size - 1
         /\ \A j \in 1 .. Len(st) : i <= j => st[j] = [msg |-> Len(snt), pos |-> j - i + 1]
<1>1. st \in Seq(Byte)
  BY DEF Stream
<1>2. PICK m \in Nat, z \in Nat :
        /\ m = Len(snt) /\ st[i].msg = m /\ m >= 1
        /\ snt[m] \in Shapes /\ snt[m].size = z /\ snt[m].good
  BY Messages DEF Stream, GoodIsLast, GoodAt
<1>3. z >= 1
  BY <1>2, ShapeFields
<1>4. \A j \in 1 .. Len(st) : j - i \in 0 .. z - 1 => st[j] = [msg |-> m, pos |-> 1 + (j - i)]
  <2>1. \A j \in 1 .. Len(st) :
          j - i \in 1 - st[i].pos .. snt[st[i].msg].size - st[i].pos =>
            st[j] = [msg |-> st[i].msg, pos |-> st[i].pos + (j - i)]
    BY DEF Stream, Together
  <2>2. st[i].pos = 1
    BY DEF GoodAt
  <2> QED
    BY <1>2, <2>1, <2>2
<1>5. PICK n \in Nat : n = Len(st)
  BY <1>1
<1>6. i \in Nat /\ 1 <= i /\ i <= n
  BY <1>5
<1>7. ASSUME n < i + z - 1 PROVE FALSE
  <2>1. n \in 1 .. n /\ n - i \in 0 .. z - 1
    BY <1>3, <1>6, <1>7
  <2>2. st[n] = [msg |-> m, pos |-> 1 + (n - i)]
    BY <1>4, <1>5, <2>1
  <2>3. st[n].pos = snt[st[n].msg].size
    BY <1>1, <1>5, <2>1 DEF Stream, Whole
  <2> QED
    BY <1>2, <1>3, <1>6, <1>7, <2>2, <2>3
<1>8. ASSUME n > i + z - 1 PROVE FALSE
  <2>1. PICK e \in Nat : e = i + z - 1
    BY <1>3, <1>6
  <2>2. /\ e \in 1 .. n /\ e + 1 \in 1 .. n /\ e < e + 1
        /\ e - i \in 0 .. z - 1 /\ 1 + (e - i) = z
    BY <1>3, <1>6, <1>8, <2>1
  <2>3. st[e] = [msg |-> m, pos |-> z]
    BY <1>4, <1>5, <2>2
  <2>4. m < st[e + 1].msg \/ (m = st[e + 1].msg /\ z < st[e + 1].pos)
    BY <1>5, <2>2, <2>3 DEF Stream, Ordered
  <2>5. /\ st[e + 1].msg \in Nat /\ st[e + 1].msg <= Len(snt)
        /\ st[e + 1].pos \in Nat /\ st[e + 1].pos <= snt[st[e + 1].msg].size
    BY <1>5, <2>2, Messages DEF Stream
  <2> QED
    BY <1>2, <1>3, <2>4, <2>5
<1>9. n = i + z - 1
  BY <1>3, <1>6, <1>7, <1>8
<1>10. ASSUME NEW j \in 1 .. n, i <= j PROVE st[j] = [msg |-> m, pos |-> j - i + 1]
  <2>1. j - i \in 0 .. z - 1 /\ 1 + (j - i) = j - i + 1
    BY <1>3, <1>6, <1>9, <1>10
  <2> QED
    BY <1>4, <1>5, <2>1
<1> QED
  BY <1>2, <1>5, <1>9, <1>10

\* Behind the last byte of a message another begins.
LEMMA HeadAfterEnd ==
  ASSUME NEW snt \in Seq(Shapes), NEW st, Stream(st, snt), NEW n \in 1 .. Len(st) - 1,
         st[n].pos = snt[st[n].msg].size
  PROVE  st[n + 1].pos = 1
<1>1. Len(st) \in Nat /\ n \in Nat /\ n + 1 \in 1 .. Len(st) /\ n \in 1 .. Len(st)
  BY DEF Stream
<1>2. PICK p \in Nat, z \in Nat :
        /\ st[n + 1].pos = p /\ 1 <= p /\ p <= z
        /\ snt[st[n + 1].msg].size = z
  BY <1>1, Messages DEF Stream
<1>3. ASSUME p # 1 PROVE FALSE
  <2>1. n - (n + 1) \in 1 - p .. z - p /\ p + (n - (n + 1)) = p - 1
    BY <1>1, <1>2, <1>3
  <2>2. st[n] = [msg |-> st[n + 1].msg, pos |-> p - 1]
    BY <1>1, <1>2, <2>1 DEF Stream, Together
  <2>3. p - 1 = z
    BY <1>2, <2>2
  <2> QED
    BY <1>2, <2>3
<1> QED
  BY <1>2, <1>3

\* Places after n, without its first n bytes.
LEMMA Rest ==
  ASSUME NEW st \in Seq(Byte), NEW n \in 0 .. Len(st)
  PROVE  /\ SubSeq(st, n + 1, Len(st)) \in Seq(Byte)
         /\ Len(SubSeq(st, n + 1, Len(st))) = Len(st) - n
         /\ \A i \in 1 .. Len(st) - n : /\ SubSeq(st, n + 1, Len(st))[i] = st[n + i]
                                       /\ n + i \in 1 .. Len(st)
<1>1. SubSeq(st, n + 1, Len(st)) \in Seq(Byte)
  OBVIOUS
<1>2. \A i \in 1 .. Len(st) - n : n + i \in 1 .. Len(st)
  OBVIOUS
<1> QED
  BY <1>1, <1>2, DropFirst

\* A stream cut where a message begins is a stream.
LEMMA StreamCut ==
  ASSUME NEW snt \in Seq(Shapes), NEW st, Stream(st, snt), NEW n \in 0 .. Len(st),
         n < Len(st) => st[n + 1].pos = 1,
         NEW t, t = SubSeq(st, n + 1, Len(st))
  PROVE  Stream(t, snt)
<1>1. PICK l \in Nat : l = Len(st)
  BY DEF Stream
<1>2. PICK k \in Nat : k = l - n
  BY <1>1
<1>3. /\ t \in Seq(Byte) /\ Len(t) = k
      /\ \A i \in 1 .. k : t[i] = st[n + i] /\ n + i \in 1 .. l
  BY <1>1, <1>2, Rest DEF Stream
<1>4. Placed(t, snt)
  BY <1>1, <1>3 DEF Stream, Placed
<1>5. Ordered(t)
  <2> SUFFICES ASSUME NEW i \in 1 .. k, NEW j \in 1 .. k, i < j
               PROVE  \/ t[i].msg < t[j].msg
                      \/ t[i].msg = t[j].msg /\ t[i].pos < t[j].pos
    BY <1>3 DEF Ordered
  <2>1. n + i < n + j
    OBVIOUS
  <2> QED
    BY <1>1, <1>3, <2>1 DEF Stream, Ordered
<1>6. Together(t, snt)
  <2> SUFFICES ASSUME NEW i \in 1 .. k, NEW j \in 1 .. k,
                      j - i \in 1 - t[i].pos .. snt[t[i].msg].size - t[i].pos
               PROVE  t[j] = [msg |-> t[i].msg, pos |-> t[i].pos + (j - i)]
    BY <1>3 DEF Together
  <2>1. (n + j) - (n + i) = j - i
    OBVIOUS
  <2> QED
    BY <1>1, <1>3, <2>1 DEF Stream, Together
<1>7. Whole(t, snt)
  <2> SUFFICES ASSUME t # <<>> PROVE t[1].pos = 1 /\ t[k].pos = snt[t[k].msg].size
    BY <1>3 DEF Whole
  <2>1. k >= 1
    BY <1>3
  <2>2. t[1] = st[n + 1] /\ t[k] = st[l] /\ n < l /\ l >= 1
    <3>1. 1 \in 1 .. k /\ k \in 1 .. k /\ n + k = l
      BY <1>2, <2>1
    <3> QED
      BY <1>2, <1>3, <2>1, <3>1
  <2>3. st # <<>>
    BY <1>1, <2>2
  <2> QED
    BY <1>1, <2>2, <2>3 DEF Stream, Whole
<1>8. GoodIsLast(t, snt)
  BY <1>1, <1>3 DEF Stream, GoodIsLast
<1> QED
  BY <1>3, <1>4, <1>5, <1>6, <1>7, <1>8 DEF Stream

-----------------------------------------------------------------------------
(* What sending, discarding and executing do to the stream.                *)

Facts(st, snt, ex) == Stream(st, snt) /\ Done(st, snt, ex) /\ Kept(st, snt, ex)

LEMMA FactsCut ==
  ASSUME NEW snt \in Seq(Shapes), NEW ex, NEW st, Facts(st, snt, ex), NEW n \in 0 .. Len(st),
         n < Len(st) => st[n + 1].pos = 1,
         \A i \in 1 .. n : ~ GoodAt(st, snt, i),
         NEW t, t = SubSeq(st, n + 1, Len(st))
  PROVE  Facts(t, snt, ex)
<1>1. Stream(t, snt)
  BY StreamCut DEF Facts
<1>2. PICK l \in Nat : l = Len(st)
  BY DEF Facts, Stream
<1>3. PICK k \in Nat : k = l - n
  BY <1>2
<1>4. /\ Len(t) = k
      /\ \A i \in 1 .. k : t[i] = st[n + i] /\ n + i \in 1 .. l
  BY <1>2, <1>3, Rest DEF Facts, Stream
<1>7. Len(t) = k
  BY <1>4
<1>5. Done(t, snt, ex)
  BY <1>2, <1>4 DEF Facts, Done
<1>6. Kept(t, snt, ex)
  <2> SUFFICES ASSUME NEW m \in 1 .. Len(snt), snt[m].good, ~ \E e \in 1 .. Len(ex) : ex[e] = m
               PROVE  \E j \in 1 .. k : t[j] = [msg |-> m, pos |-> 1]
    BY <1>7, Zenon DEF Kept
  <2>1. PICK i \in 1 .. l : st[i] = [msg |-> m, pos |-> 1]
    BY <1>2 DEF Facts, Kept
  <2>2. GoodAt(st, snt, i)
    BY <2>1 DEF GoodAt
  <2>3. ~ i <= n
    BY <2>2
  <2>4. PICK j \in 1 .. k : n + j = i
    <3>1. i - n \in 1 .. k /\ n + (i - n) = i
      BY <1>2, <1>3, <2>3
    <3> QED
      BY <3>1
  <2>5. t[j] = st[i]
    BY <1>4, <2>4
  <2> QED
    BY <2>1, <2>5
<1> QED
  BY <1>1, <1>5, <1>6 DEF Facts

LEMMA FactsExecuted ==
  ASSUME NEW snt \in Seq(Shapes), NEW ex \in Seq(0 .. MaxSent), NEW st, Facts(st, snt, ex),
         NEW i \in 1 .. Len(st), GoodAt(st, snt, i)
  PROVE  Facts(<<>>, snt, Append(ex, st[i].msg))
<1>1. PICK m \in Nat : m = st[i].msg /\ m = Len(snt) /\ m >= 1 /\ snt[m].good
  BY GoodTail DEF Facts
<1>2. PICK z \in Nat : z = Len(ex)
  OBVIOUS
<1>3. m \in 0 .. MaxSent
  <2>1. st[i] \in Byte
    BY DEF Facts, Stream
  <2>2. st[i].msg \in 1 .. MaxSent
    BY <2>1, ByteFields
  <2> QED
    BY <1>1, <2>2, LimitAssumption
<1>4. /\ Len(Append(ex, m)) = z + 1
      /\ \A k \in 1 .. z : Append(ex, m)[k] = ex[k]
      /\ Append(ex, m)[z + 1] = m
  BY <1>2, <1>3, Appended
<1>5. /\ \A k \in 1 .. z : ex[k] \in 1 .. Len(snt) /\ snt[ex[k]].good /\ ex[k] < m
      /\ \A k, l \in 1 .. z : k < l => ex[k] < ex[l]
  BY <1>1, <1>2 DEF Facts, Done
<1> DEFINE e == Append(ex, m)
<1> HIDE DEF e
<1>6. Stream(<<>>, snt)
  BY DEF Stream, Placed, Ordered, Together, Whole, GoodIsLast
<1>7. Done(<<>>, snt, e)
  <2>1. ASSUME NEW k \in 1 .. z + 1 PROVE e[k] \in 1 .. Len(snt) /\ snt[e[k]].good
    <3>1. CASE k \in 1 .. z
      BY <1>4, <1>5, <3>1 DEF e
    <3>2. CASE k = z + 1
      BY <1>1, <1>4, <3>2 DEF e
    <3> QED
      BY <3>1, <3>2
  <2>2. ASSUME NEW k \in 1 .. z + 1, NEW l \in 1 .. z + 1, k < l PROVE e[k] < e[l]
    <3>1. k \in 1 .. z
      BY <2>2
    <3>2. CASE l \in 1 .. z
      BY <1>4, <1>5, <2>2, <3>1, <3>2 DEF e
    <3>3. CASE l = z + 1
      BY <1>4, <1>5, <3>1, <3>3 DEF e
    <3> QED
      BY <3>2, <3>3
  <2>3. Len(e) = z + 1
    BY <1>4 DEF e
  <2> QED
    BY <2>1, <2>2, <2>3 DEF Done
<1>8. Kept(<<>>, snt, e)
  <2> SUFFICES ASSUME NEW g \in 1 .. Len(snt), snt[g].good
               PROVE  \E k \in 1 .. z + 1 : e[k] = g
    BY <1>4 DEF Kept, e
  <2>1. CASE \E k \in 1 .. z : ex[k] = g
    BY <1>4, <2>1 DEF e
  <2>2. CASE \E j \in 1 .. Len(st) : st[j] = [msg |-> g, pos |-> 1]
    <3>1. g = m
      BY <1>1, <2>2 DEF Facts, Stream, GoodIsLast
    <3> QED
      BY <1>4, <3>1 DEF e
  <2> QED
    BY <1>2, <2>1, <2>2 DEF Facts, Kept
<1> QED
  BY <1>1, <1>6, <1>7, <1>8 DEF Facts, e

LEMMA BytesOfIs ==
  ASSUME NEW m \in 1 .. MaxSent, NEW s \in Shapes
  PROVE  /\ BytesOf(m, s) \in Seq(Byte) /\ Len(BytesOf(m, s)) = s.size
         /\ \A p \in 1 .. s.size : BytesOf(m, s)[p] = [msg |-> m, pos |-> p]
<1>1. s.size \in Nat
  BY ShapeFields
<1>2. \A p \in 1 .. s.size : [msg |-> m, pos |-> p] \in Byte
  BY ByteAssumption
<1> QED
  BY <1>1, <1>2 DEF BytesOf

\* t is st, of length l, and then the z bytes of message m.
Extended(t, st, l, m, z) ==
  /\ Len(st) = l /\ t \in Seq(Byte) /\ Len(t) = l + z
  /\ \A i \in 1 .. l : t[i] = st[i]
  /\ \A i \in 1 .. l + z : l < i => t[i] = [msg |-> m, pos |-> i - l]

LEMMA ExtendedBySend ==
  ASSUME NEW st \in Seq(Byte), NEW m \in 1 .. MaxSent, NEW s \in Shapes
  PROVE  Extended(st \o BytesOf(m, s), st, Len(st), m, s.size)
<1> DEFINE a == BytesOf(m, s)
<1>1. PICK z \in Nat, l \in Nat : z = s.size /\ l = Len(st)
  BY ShapeFields
<1>2. /\ a \in Seq(Byte) /\ Len(a) = z
      /\ \A p \in 1 .. z : a[p] = [msg |-> m, pos |-> p]
  BY <1>1, BytesOfIs
<1> HIDE DEF a
<1>3. st \o a \in Seq(Byte)
  BY <1>2
<1>4. /\ Len(st \o a) = Len(st) + Len(a)
      /\ \A i \in 1 .. Len(st) : (st \o a)[i] = st[i]
      /\ \A k \in 1 .. Len(a) : (st \o a)[Len(st) + k] = a[k]
  BY <1>2, Joined
<1> SUFFICES ASSUME NEW t, t = st \o a PROVE Extended(t, st, l, m, z)
  BY <1>1 DEF a
<1>5. /\ t \in Seq(Byte) /\ Len(t) = l + z
      /\ \A i \in 1 .. l : t[i] = st[i]
  BY <1>1, <1>2, <1>3, <1>4, Zenon
<1>6. \A k \in 1 .. z : t[l + k] = a[k]
  BY <1>1, <1>2, <1>4, Zenon
<1>7. ASSUME NEW i \in 1 .. l + z, l < i
      PROVE  t[i] = [msg |-> m, pos |-> i - l]
  <2>1. i - l \in 1 .. z
    BY <1>1, <1>7
  <2>2. l + (i - l) = i
    BY <1>1
  <2>3. t[l + (i - l)] = [msg |-> m, pos |-> i - l]
    BY <1>2, <1>6, <2>1, Zenon
  <2> QED
    BY <2>2, <2>3, Zenon
<1> QED
  BY <1>1, <1>5, <1>7 DEF Extended

\* snt2 is snt and one message of size z more.
OneMore(snt2, snt, n, z) ==
  /\ snt2 \in Seq(Shapes) /\ Len(snt) = n /\ Len(snt2) = n + 1
  /\ \A k \in 1 .. n : snt2[k] = snt[k]
  /\ snt2[n + 1].size = z

LEMMA FactsExtended ==
  ASSUME NEW snt \in Seq(Shapes), NEW ex, NEW st, Facts(st, snt, ex),
         NEW l \in Nat, NEW n \in Nat, NEW z \in Nat, z >= 1,
         NEW t, Extended(t, st, l, n + 1, z), NEW snt2, OneMore(snt2, snt, n, z),
         \A m \in 1 .. Len(snt) : snt[m].good => \E k \in 1 .. Len(ex) : ex[k] = m
  PROVE  Facts(t, snt2, ex)
<1>1. /\ Len(t) = l + z /\ t \in Seq(Byte) /\ Len(st) = l /\ Len(snt) = n
      /\ Len(snt2) = n + 1
  BY DEF Extended, OneMore
<1>2. \A i \in 1 .. l : t[i] = st[i]
  BY DEF Extended
<1>3. ASSUME NEW i \in 1 .. l + z, l < i
      PROVE  /\ t[i] = [msg |-> n + 1, pos |-> i - l]
             /\ t[i].msg = n + 1 /\ t[i].pos = i - l
  <2>1. t[i] = [msg |-> n + 1, pos |-> i - l]
    BY <1>3 DEF Extended
  <2> QED
    BY <2>1
<1>4. /\ \A k \in 1 .. n : snt2[k] = snt[k]
      /\ snt2[n + 1].size = z
  BY DEF OneMore
<1>5. ASSUME NEW i \in 1 .. l
      PROVE  /\ st[i].msg \in Nat /\ 1 <= st[i].msg /\ st[i].msg <= n
             /\ st[i].pos \in Nat /\ 1 <= st[i].pos /\ st[i].pos <= snt[st[i].msg].size
             /\ snt[st[i].msg].size \in Nat
             /\ ~ snt[st[i].msg].good
  <2>1. /\ st[i].msg \in Nat /\ 1 <= st[i].msg /\ st[i].msg <= n
        /\ st[i].pos \in Nat /\ 1 <= st[i].pos /\ st[i].pos <= snt[st[i].msg].size
        /\ snt[st[i].msg].size \in Nat
    BY <1>1, Messages DEF Facts, Stream
  <2>2. ASSUME snt[st[i].msg].good PROVE FALSE
    <3>1. st[i].msg \in 1 .. Len(snt)
      BY <1>1, <2>1
    <3>2. PICK k \in 1 .. Len(ex) : ex[k] = st[i].msg
      BY <2>2, <3>1
    <3>3. ex[k] < st[i].msg
      BY <1>1 DEF Facts, Done
    <3> QED
      BY <2>1, <3>2, <3>3
  <2> QED
    BY <2>1, <2>2
<1>6. \A i \in 1 .. l : snt2[st[i].msg] = snt[st[i].msg]
  BY <1>4, <1>5
<1>7. \A i \in 1 .. l + z : i \in 1 .. l \/ l < i
  OBVIOUS
<1>8. Placed(t, snt2)
  <2> SUFFICES ASSUME NEW i \in 1 .. l + z
               PROVE  t[i].msg \in 1 .. n + 1 /\ t[i].pos \in 1 .. snt2[t[i].msg].size
    BY <1>1 DEF Placed
  <2>1. CASE i \in 1 .. l
    <3>1. st[i].msg \in 1 .. n /\ st[i].pos \in 1 .. snt[st[i].msg].size
      BY <1>5, <2>1
    <3>2. 1 .. n \subseteq 1 .. n + 1
      OBVIOUS
    <3> QED
      BY <1>2, <1>6, <2>1, <3>1, <3>2, Zenon
  <2>2. CASE l < i
    <3>1. t[i].msg = n + 1 /\ t[i].pos = i - l
      BY <1>3, <2>2
    <3>2. i - l \in 1 .. z /\ n + 1 \in 1 .. n + 1
      BY <2>2
    <3> QED
      BY <1>4, <3>1, <3>2, Zenon
  <2> QED
    BY <2>1, <2>2, <1>7, Zenon
<1>9. Ordered(t)
  <2> SUFFICES ASSUME NEW i \in 1 .. l + z, NEW j \in 1 .. l + z, i < j
               PROVE  \/ t[i].msg < t[j].msg
                      \/ t[i].msg = t[j].msg /\ t[i].pos < t[j].pos
    BY <1>1 DEF Ordered
  <2>1. CASE j \in 1 .. l
    <3>1. i \in 1 .. l
      BY <2>1
    <3>2. t[i] = st[i] /\ t[j] = st[j]
      BY <1>2, <2>1, <3>1
    <3> QED
      BY <1>1, <2>1, <3>1, <3>2 DEF Facts, Stream, Ordered
  <2>2. CASE i \in 1 .. l /\ l < j
    <3>1. t[i] = st[i] /\ st[i].msg \in Nat /\ st[i].msg <= n
      BY <1>2, <1>5, <2>2
    <3>2. t[j].msg = n + 1
      BY <1>3, <2>2
    <3> QED
      BY <3>1, <3>2
  <2>3. CASE l < i /\ l < j
    <3>1. /\ t[i].msg = n + 1 /\ t[i].pos = i - l
          /\ t[j].msg = n + 1 /\ t[j].pos = j - l
      BY <1>3, <2>3
    <3>2. i - l < j - l
      OBVIOUS
    <3> QED
      BY <3>1, <3>2, Zenon
  <2> QED
    BY <2>1, <2>2, <2>3, <1>7, Zenon
<1>10. Together(t, snt2)
  <2> SUFFICES ASSUME NEW i \in 1 .. l + z, NEW j \in 1 .. l + z,
                      j - i \in 1 - t[i].pos .. snt2[t[i].msg].size - t[i].pos
               PROVE  t[j] = [msg |-> t[i].msg, pos |-> t[i].pos + (j - i)]
    BY <1>1 DEF Together
  <2>1. CASE i \in 1 .. l
    <3>1. PICK p \in Nat, y \in Nat : /\ p = st[i].pos /\ y = snt[st[i].msg].size
                                     /\ 1 <= p /\ p <= y
      BY <1>5, <2>1
    <3>2. t[i].pos = p /\ snt2[t[i].msg].size = y /\ t[i].msg = st[i].msg
      BY <1>2, <1>6, <2>1, <3>1
    <3>3. j - i \in 1 - p .. y - p
      BY <3>2
    <3>4. \A x \in 1 .. l : x - i \in 1 - p .. y - p => st[x] = [msg |-> st[i].msg, pos |-> p + (x - i)]
      BY <1>1, <2>1, <3>1 DEF Facts, Stream, Together
    <3>5. ASSUME l < j PROVE FALSE
      <4>1. l \in 1 .. l /\ l - i \in 1 - p .. y - p
        <5>1. i \in Nat /\ j \in Nat /\ i >= 1 /\ i <= l /\ l - i >= 0
          BY <2>1
        <5>2. j - i <= y - p
          BY <3>3
        <5>3. l - i <= y - p
          BY <3>5, <5>1, <5>2
        <5>4. 1 <= p
          BY <3>1
        <5> QED
          BY <5>1, <5>3, <5>4
      <4>2. st[l] = [msg |-> st[i].msg, pos |-> p + (l - i)]
        BY <3>4, <4>1
      <4>3. st[l].pos = snt[st[l].msg].size
        <5>1. Len(st) # 0 /\ Len(<<>>) = 0
          BY <1>1, <2>1
        <5>2. st # <<>>
          BY <5>1
        <5> QED
          BY <1>1, <5>2, Zenon DEF Facts, Stream, Whole
      <4>4. p + (l - i) = y
        BY <3>1, <4>2, <4>3
      <4>5. j - i <= y - p /\ i \in Nat /\ j \in Nat
        BY <3>3
      <4> QED
        BY <3>5, <4>4, <4>5
    <3>6. j \in 1 .. l
      BY <3>5, <1>7
    <3>7. st[j] = [msg |-> st[i].msg, pos |-> p + (j - i)]
      BY <3>3, <3>4, <3>6
    <3> QED
      BY <1>2, <3>2, <3>6, <3>7
  <2>2. CASE l < i
    <3>1. t[i].msg = n + 1 /\ t[i].pos = i - l
      BY <1>3, <2>2
    <3>2. l < j
      <4>1. j - i \in 1 - (i - l) .. z - (i - l)
        BY <1>4, <3>1
      <4> QED
        BY <4>1
    <3>3. t[j] = [msg |-> n + 1, pos |-> j - l]
      BY <1>3, <3>2
    <3>4. (i - l) + (j - i) = j - l
      OBVIOUS
    <3> QED
      BY <3>1, <3>3, <3>4, Zenon
  <2> QED
    BY <2>1, <2>2, <1>7, Zenon
<1>11. Whole(t, snt2)
  <2>1. t[l + z].msg = n + 1 /\ t[l + z].pos = z
    <3>1. l + z \in 1 .. l + z /\ l < l + z /\ (l + z) - l = z
      OBVIOUS
    <3> QED
      BY <1>3, <3>1
  <2>2. t[1].pos = 1
    <3>1. CASE l = 0
      <4>1. 1 \in 1 .. l + z /\ l < 1 /\ 1 - l = 1
        BY <3>1
      <4> QED
        BY <1>3, <4>1
    <3>2. CASE l # 0
      <4>1. 1 \in 1 .. l
        BY <3>2
      <4>2. st # <<>>
        BY <1>1, <3>2
      <4>3. st[1].pos = 1
        BY <4>2 DEF Facts, Stream, Whole
      <4> QED
        BY <1>2, <4>1, <4>3
    <3> QED
      BY <3>1, <3>2
  <2>3. t[l + z].pos = snt2[t[l + z].msg].size
    BY <1>4, <2>1
  <2> QED
    BY <1>1, <2>2, <2>3 DEF Whole
<1>12. GoodIsLast(t, snt2)
  <2> SUFFICES ASSUME NEW i \in 1 .. l + z, snt2[t[i].msg].good
               PROVE  t[i].msg = n + 1
    BY <1>1 DEF GoodIsLast
  <2>1. i \notin 1 .. l
    BY <1>2, <1>5, <1>6
  <2> QED
    BY <1>3, <1>7, <2>1
<1>13. Done(t, snt2, ex)
  <2>1. ASSUME NEW k \in 1 .. Len(ex)
        PROVE  /\ ex[k] \in 1 .. n + 1 /\ snt2[ex[k]].good
               /\ \A i \in 1 .. l + z : ex[k] < t[i].msg
    <3>1. /\ ex[k] \in 1 .. n /\ snt[ex[k]].good
          /\ \A i \in 1 .. l : ex[k] < st[i].msg
      BY <1>1 DEF Facts, Done
    <3>2. ASSUME NEW i \in 1 .. l + z PROVE ex[k] < t[i].msg
      <4>1. CASE i \in 1 .. l
        BY <1>2, <3>1, <4>1
      <4>2. CASE l < i
        <5>1. t[i].msg = n + 1
          BY <1>3, <4>2
        <5> QED
          BY <3>1, <5>1
      <4> QED
        BY <4>1, <4>2, <1>7, Zenon
    <3>3. ex[k] \in 1 .. n + 1
      BY <3>1
    <3>4. snt2[ex[k]].good
      BY <1>4, <3>1
    <3> QED
      BY <3>2, <3>3, <3>4, Zenon
  <2>2. \A k, j \in 1 .. Len(ex) : k < j => ex[k] < ex[j]
    BY DEF Facts, Done
  <2> QED
    BY <1>1, <2>1, <2>2 DEF Done
<1>14. Kept(t, snt2, ex)
  <2> SUFFICES ASSUME NEW m \in 1 .. n + 1, snt2[m].good
               PROVE  \/ \E k \in 1 .. Len(ex) : ex[k] = m
                      \/ \E i \in 1 .. l + z : t[i] = [msg |-> m, pos |-> 1]
    BY <1>1 DEF Kept
  <2>1. CASE m \in 1 .. n
    BY <1>1, <1>4, <2>1
  <2>2. CASE m = n + 1
    <3>1. l + 1 \in 1 .. l + z /\ l < l + 1 /\ (l + 1) - l = 1
      OBVIOUS
    <3>2. t[l + 1] = [msg |-> m, pos |-> 1]
      BY <1>3, <2>2, <3>1
    <3> QED
      BY <3>1, <3>2
  <2>3. m \in 1 .. n \/ m = n + 1
    OBVIOUS
  <2> QED
    BY <2>1, <2>2, <2>3, Zenon
<1> QED
  BY <1>1, <1>8, <1>9, <1>10, <1>11, <1>12, <1>13, <1>14 DEF Facts, Stream

\* The bytes of a message that is sent go on the stream's end.
LEMMA FactsSent ==
  ASSUME NEW snt \in Seq(Shapes), NEW ex, NEW st, Facts(st, snt, ex),
         NEW s \in Shapes, Len(snt) < MaxSent,
         \A m \in 1 .. Len(snt) : snt[m].good => \E k \in 1 .. Len(ex) : ex[k] = m
  PROVE  Facts(st \o BytesOf(Len(snt) + 1, s), Append(snt, s), ex)
<1>1. PICK l \in Nat, n \in Nat, z \in Nat : l = Len(st) /\ n = Len(snt) /\ z = s.size /\ z >= 1
  BY ShapeFields DEF Facts, Stream
<1>2. n + 1 \in 1 .. MaxSent
  BY <1>1, LimitAssumption
<1>3. st \in Seq(Byte)
  BY DEF Facts, Stream
<1>4. Extended(st \o BytesOf(n + 1, s), st, l, n + 1, z)
  BY <1>1, <1>2, <1>3, ExtendedBySend
<1>5. /\ Append(snt, s) \in Seq(Shapes)
      /\ Len(Append(snt, s)) = Len(snt) + 1
      /\ \A i \in 1 .. Len(snt) : Append(snt, s)[i] = snt[i]
      /\ Append(snt, s)[Len(snt) + 1] = s
  BY Appended
<1>6. OneMore(Append(snt, s), snt, n, z)
  BY <1>1, <1>5 DEF OneMore
<1>7. Facts(st \o BytesOf(n + 1, s), Append(snt, s), ex)
  BY <1>1, <1>4, <1>6, FactsExtended
<1> QED
  BY <1>1, <1>7

-----------------------------------------------------------------------------
(* Frame::init.                                                            *)

\* What init says of a frame at which getFrameFromBuffer stops.
LEMMA InitStops ==
  ASSUME NEW rest, NEW frame \in init(rest), Stops(frame)
  PROVE  /\ IsHead(rest[1])
         /\ frame.length_ \in LengthField(rest) /\ ~ frame.length_ > FRAME_MAX_LEN
         /\ \/ frame.state_ = "FRAME_WAIT" /\ frame.length_ > Len(rest)
            \/ /\ frame.state_ = "FRAME_OK" /\ ~ frame.length_ > Len(rest)
               /\ "FRAME_OK" \in Checksum(rest, frame.length_)
<1>1. IsHead(rest[1])
  BY DEF init, Stops
<1>2. PICK n \in LengthField(rest) :
        frame \in IF n > FRAME_MAX_LEN THEN {[state_ |-> "FRAME_LENGTH_ERROR", length_ |-> n]}
                  ELSE IF n > Len(rest) THEN {[state_ |-> "FRAME_WAIT", length_ |-> n]}
                  ELSE {[state_ |-> st, length_ |-> n] : st \in Checksum(rest, n)}
  BY <1>1, Zenon DEF init
<1>3. ~ n > FRAME_MAX_LEN
  BY <1>2 DEF Stops
<1>4. CASE n > Len(rest)
  <2>1. frame = [state_ |-> "FRAME_WAIT", length_ |-> n]
    BY <1>2, <1>3, <1>4
  <2> QED
    BY <1>1, <1>3, <1>4, <2>1
<1>5. CASE ~ n > Len(rest)
  <2>1. PICK c \in Checksum(rest, n) : frame = [state_ |-> c, length_ |-> n]
    BY <1>2, <1>3, <1>5
  <2>2. frame.state_ = c /\ frame.length_ = n
    BY <2>1
  <2>3. c = "FRAME_OK"
    BY <2>1, <2>2 DEF Checksum, Stops
  <2> QED
    BY <1>1, <1>3, <1>5, <2>1, <2>2, <2>3
<1> QED
  BY <1>4, <1>5

LEMMA LengthIsNat ==
  ASSUME sent \in Seq(Shapes), NEW rest, rest[1].msg \in 1 .. Len(sent),
         NEW frame \in init(rest), Stops(frame)
  PROVE  frame.length_ \in Nat /\ size(frame.length_) \in Nat
<1>1. frame.length_ \in LengthField(rest)
  BY InitStops
<1>2. sent[rest[1].msg].length \in Nat
  <2>1. sent[rest[1].msg] \in Shapes
    OBVIOUS
  <2> QED
    BY <2>1, ShapeFields
<1>3. frame.length_ \in Nat
  BY <1>1, <1>2, FrameLayout DEF LengthField
<1> QED
  BY <1>3, FrameLayout DEF size

-----------------------------------------------------------------------------
(* Types.                                                                  *)

Known(b, n) == \A i \in Index : b.m_buff[i] \in Byte => b.m_buff[i].msg \in 1 .. n

TypedInv == /\ TypeOK
            /\ Written(readBuff_)
            /\ Known(readBuff_, Len(sent))
            /\ \A i \in 1 .. Len(inq) : inq[i].msg \in 1 .. Len(sent)

LEMMA KnownPeek ==
  ASSUME NEW b \in Buffer, Written(b), NEW n, Known(b, n), NEW len \in Nat
  PROVE  /\ peek(b, len) \in Seq(Byte)
         /\ \A i \in 1 .. Len(peek(b, len)) : peek(b, len)[i].msg \in 1 .. n
<1>1. \A i \in 1 .. Len(peek(b, len)) : peek(b, len)[i] \in Byte
  BY WrittenReadable
<1>2. /\ Lesser(len, length(b)) \in 0 .. length(b)
      /\ length(b) \in Nat
      /\ \A i \in 1 .. Lesser(len, length(b)) : Slot(b, i) \in Index
      /\ peek(b, len) = [i \in 1 .. Lesser(len, length(b)) |-> b.m_buff[Slot(b, i)]]
  BY PeekIsReadable, LengthBounds
<1> DEFINE k == Lesser(len, length(b))
           f == peek(b, len)
<1>3. k \in Nat /\ f = [i \in 1 .. k |-> b.m_buff[Slot(b, i)]]
  BY <1>2
<1> HIDE DEF k, f
<1>4. Len(f) = k
  BY <1>3
<1>5. f \in [1 .. k -> Byte]
  BY <1>1, <1>3, <1>4 DEF f
<1>6. f \in Seq(Byte)
  BY <1>3, <1>5
<1>7. ASSUME NEW i \in 1 .. k PROVE f[i].msg \in 1 .. n
  <2>1. Slot(b, i) \in Index
    BY <1>2 DEF k
  <2>2. f[i] \in Byte
    BY <1>5
  <2>3. f[i] = b.m_buff[Slot(b, i)]
    BY <1>3
  <2> QED
    BY <2>1, <2>2, <2>3 DEF Known
<1> QED
  BY <1>4, <1>6, <1>7 DEF f

LEMMA TypedSend ==
  ASSUME TypedInv, NEW s \in Shapes, Send(s)
  PROVE  TypedInv'
<1>1. /\ sent \in Seq(Shapes) /\ inq \in Seq(Byte)
      /\ sent' = Append(sent, s) /\ Len(sent) < MaxSent
      /\ inq' = inq \o BytesOf(Len(sent) + 1, s)
      /\ UNCHANGED <<readBuff_, pc, executed>>
  BY DEF TypedInv, TypeOK, Send
<1>2. PICK n \in Nat : n = Len(sent)
  BY <1>1
<1>3. sent' \in Seq(Shapes) /\ Len(sent') = n + 1 /\ n + 1 <= MaxSent
  BY <1>1, <1>2, LimitAssumption
<1>4. n + 1 \in 1 .. MaxSent
  BY <1>2, <1>3, LimitAssumption
<1>5. PICK l \in Nat, z \in Nat : l = Len(inq) /\ z = s.size
  BY <1>1, ShapeFields
<1>6. Extended(inq', inq, l, n + 1, z)
  BY <1>1, <1>2, <1>4, <1>5, ExtendedBySend
<1>7. ASSUME NEW i \in 1 .. Len(inq') PROVE inq'[i].msg \in 1 .. n + 1
  <2>1. i \in 1 .. l + z
    BY <1>6 DEF Extended
  <2>2. CASE i \in 1 .. l
    <3>1. inq'[i] = inq[i]
      BY <1>6, <2>2 DEF Extended
    <3>2. inq[i].msg \in 1 .. n
      BY <1>2, <1>5, <2>2 DEF TypedInv
    <3> QED
      BY <3>1, <3>2
  <2>3. CASE l < i
    <3>1. inq'[i].msg = n + 1
      BY <1>6, <2>1, <2>3 DEF Extended
    <3> QED
      BY <3>1
  <2> QED
    BY <2>1, <2>2, <2>3
<1>8. Known(readBuff_, n + 1)
  <2>1. Known(readBuff_, n)
    BY <1>2 DEF TypedInv
  <2> QED
    BY <2>1 DEF Known
<1>9. TypeOK'
  <2>1. inq' \in Seq(Byte)
    BY <1>6 DEF Extended
  <2> QED
    BY <1>1, <1>3, <2>1 DEF TypedInv, TypeOK
<1> QED
  BY <1>1, <1>3, <1>7, <1>8, <1>9 DEF TypedInv

\* What a read of n bytes moves.
LEMMA ReadMoves ==
  ASSUME NEW q \in Seq(Byte), NEW n \in 1 .. Lesser(Len(q), FRAME_MAX_LEN),
         FRAME_MAX_LEN <= m_size
  PROVE  /\ n \in 1 .. Len(q) /\ n <= FRAME_MAX_LEN /\ n \in 1 .. m_size
         /\ SubSeq(q, 1, n) \in Seq(Byte) /\ Len(SubSeq(q, 1, n)) = n
         /\ \A i \in 1 .. n : SubSeq(q, 1, n)[i] = q[i] /\ i \in 1 .. Len(q)
         /\ SubSeq(q, n + 1, Len(q)) \in Seq(Byte)
         /\ Len(SubSeq(q, n + 1, Len(q))) = Len(q) - n
         /\ \A i \in 1 .. Len(q) - n : /\ SubSeq(q, n + 1, Len(q))[i] = q[n + i]
                                       /\ n + i \in 1 .. Len(q)
<1>1. n \in 1 .. Len(q) /\ n <= FRAME_MAX_LEN /\ n \in 1 .. m_size
  BY FrameLayout, SizeAssumption DEF Lesser
<1>2. /\ SubSeq(q, 1, n) \in Seq(Byte) /\ Len(SubSeq(q, 1, n)) = n
      /\ \A i \in 1 .. n : SubSeq(q, 1, n)[i] = q[i]
  BY <1>1
<1>3. \A i \in 1 .. n : i \in 1 .. Len(q)
  BY <1>1
<1>4. n \in 0 .. Len(q)
  BY <1>1
<1> QED
  BY <1>1, <1>2, <1>3, <1>4, Rest

LEMMA TypedRead ==
  ASSUME FRAME_MAX_LEN <= m_size, TypedInv, Read
  PROVE  TypedInv'
<1>1. /\ inq \in Seq(Byte) /\ readBuff_ \in Buffer /\ Written(readBuff_)
      /\ Known(readBuff_, Len(sent))
      /\ \A i \in 1 .. Len(inq) : inq[i].msg \in 1 .. Len(sent)
  BY DEF TypedInv, TypeOK
<1>2. PICK n \in 1 .. Lesser(Len(inq), FRAME_MAX_LEN) :
        /\ readBuff_' = append(readBuff_, SubSeq(inq, 1, n))
        /\ inq' = SubSeq(inq, n + 1, Len(inq))
  BY DEF Read
<1>3. /\ pc' = "process" /\ UNCHANGED <<sent, executed>>
  BY DEF Read
<1> DEFINE a == SubSeq(inq, 1, n)
           r == SubSeq(inq, n + 1, Len(inq))
<1>4. /\ n \in 1 .. m_size /\ a \in Seq(Byte) /\ Len(a) = n
      /\ \A i \in 1 .. n : a[i] = inq[i] /\ i \in 1 .. Len(inq)
      /\ r \in Seq(Byte) /\ Len(r) = Len(inq) - n
      /\ \A i \in 1 .. Len(inq) - n : r[i] = inq[n + i] /\ n + i \in 1 .. Len(inq)
  BY <1>1, ReadMoves
<1>5. readBuff_' = append(readBuff_, a) /\ inq' = r
  BY <1>2
<1> HIDE DEF a, r
<1>6. readBuff_' \in Buffer /\ Written(readBuff_')
  BY <1>1, <1>4, <1>5, AppendTyped, WrittenAppend
<1>7. ASSUME NEW i \in Index, readBuff_'.m_buff[i] \in Byte
      PROVE  readBuff_'.m_buff[i].msg \in 1 .. Len(sent)
  <2>1. \/ readBuff_'.m_buff[i] = readBuff_.m_buff[i]
        \/ \E k \in 1 .. n : readBuff_'.m_buff[i] = a[k]
    BY <1>1, <1>4, <1>5, AppendElements
  <2>2. CASE readBuff_'.m_buff[i] = readBuff_.m_buff[i]
    BY <1>1, <1>7, <2>2 DEF Known
  <2>3. CASE \E k \in 1 .. n : readBuff_'.m_buff[i] = a[k]
    BY <1>1, <1>4, <2>3
  <2> QED
    BY <2>1, <2>2, <2>3
<1>8. \A i \in 1 .. Len(inq') : inq'[i].msg \in 1 .. Len(sent)
  BY <1>1, <1>4, <1>5
<1>9. TypeOK'
  BY <1>3, <1>4, <1>5, <1>6 DEF TypedInv, TypeOK
<1> QED
  BY <1>3, <1>6, <1>7, <1>8, <1>9 DEF TypedInv, Known

\* A pop keeps the buffer's type and the bytes in it.
LEMMA PopKeeps ==
  ASSUME NEW b \in Buffer, Written(b), NEW n, Known(b, n), NEW len \in Nat
  PROVE  pop(b, len) \in Buffer /\ Written(pop(b, len)) /\ Known(pop(b, len), n)
<1>1. pop(b, len) \in Buffer /\ pop(b, len).m_buff = b.m_buff
  BY PopLeaves
<1> QED
  BY <1>1, WrittenPop DEF Known

LEMMA TypedProcess ==
  ASSUME TypedInv, Process
  PROVE  TypedInv'
<1> DEFINE bytes == peek(readBuff_, FRAME_MAX_LEN)
<1>1. /\ sent \in Seq(Shapes) /\ readBuff_ \in Buffer /\ Written(readBuff_)
      /\ Known(readBuff_, Len(sent)) /\ executed \in Seq(0 .. MaxSent)
  BY DEF TypedInv, TypeOK
<1>2. /\ bytes \in Seq(Byte) /\ Len(bytes) \in Nat
      /\ \A i \in 1 .. Len(bytes) : bytes[i].msg \in 1 .. Len(sent)
  BY <1>1, KnownPeek, FrameLayout
<1>3. pc' = "idle" /\ UNCHANGED <<sent, inq>>
  BY DEF Process
<1>4. /\ readBuff_' \in Buffer /\ Written(readBuff_') /\ Known(readBuff_', Len(sent))
      /\ executed' \in Seq(0 .. MaxSent)
  <2>1. PICK discard \in 0 .. Len(bytes) :
          \/ readBuff_' = pop(readBuff_, discard) /\ UNCHANGED executed
          \/ /\ discard < Len(bytes)
             /\ \E frame \in init(From(bytes, discard)) :
                  /\ Stops(frame)
                  /\ readBuff_' = AfterFrame(readBuff_, discard, frame)
                  /\ frameProcess(From(bytes, discard), frame)
    BY DEF Process
  <2>2. discard \in Nat
    BY <1>2
  <2>3. CASE readBuff_' = pop(readBuff_, discard) /\ UNCHANGED executed
    BY <1>1, <2>2, <2>3, PopKeeps
  <2>4. ASSUME discard < Len(bytes), NEW frame \in init(From(bytes, discard)), Stops(frame),
               readBuff_' = AfterFrame(readBuff_, discard, frame),
               frameProcess(From(bytes, discard), frame)
        PROVE  /\ readBuff_' \in Buffer /\ Written(readBuff_') /\ Known(readBuff_', Len(sent))
               /\ executed' \in Seq(0 .. MaxSent)
    <3> DEFINE rest == From(bytes, discard)
    <3>1. /\ rest \in Seq(Byte) /\ 1 \in 1 .. Len(rest)
          /\ rest[1] \in Byte /\ rest[1].msg \in 1 .. Len(sent)
      <4>1. /\ rest \in Seq(Byte) /\ Len(rest) = Len(bytes) - discard
            /\ \A i \in 1 .. Len(bytes) - discard :
                 rest[i] = bytes[discard + i] /\ discard + i \in 1 .. Len(bytes)
        BY <1>2, Rest DEF From
      <4>2. 1 \in 1 .. Len(bytes) - discard
        BY <1>2, <2>2, <2>4
      <4> HIDE DEF bytes, rest
      <4> QED
        BY <1>2, <4>1, <4>2
    <3>2. size(frame.length_) \in Nat
      BY <1>1, <2>4, <3>1, LengthIsNat
    <3>3. /\ readBuff_' \in Buffer /\ Written(readBuff_') /\ Known(readBuff_', Len(sent))
      BY <1>1, <2>2, <2>4, <3>2, PopKeeps DEF AfterFrame
    <3>4. executed' \in Seq(0 .. MaxSent)
      <4>1. rest[1].msg \in 0 .. MaxSent /\ 0 \in 0 .. MaxSent
        BY <3>1, ByteFields, LimitAssumption
      <4>2. executed' = Append(executed, IF Intact(rest, ReadUpTo(frame.length_)) THEN rest[1].msg ELSE 0)
        BY <2>4 DEF frameProcess
      <4> HIDE DEF rest
      <4> QED
        BY <1>1, <4>1, <4>2
    <3> QED
      BY <3>3, <3>4
  <2>5. CASE /\ discard < Len(bytes)
             /\ \E frame \in init(From(bytes, discard)) :
                  /\ Stops(frame)
                  /\ readBuff_' = AfterFrame(readBuff_, discard, frame)
                  /\ frameProcess(From(bytes, discard), frame)
    BY <2>4, <2>5, Zenon
  <2> QED
    BY <2>1, <2>3, <2>5, Zenon
<1> QED
  BY <1>3, <1>4 DEF TypedInv, TypeOK

LEMMA TypedInit == Init => TypedInv
<1> SUFFICES ASSUME Init PROVE TypedInv
  OBVIOUS
<1>1. NewBuffer \in Buffer /\ Written(NewBuffer) /\ Known(NewBuffer, 0)
  BY SizeAssumption, UninitAssumption DEF NewBuffer, Buffer, Index, Written, Known
<1> QED
  BY <1>1, LimitAssumption DEF Init, TypedInv, TypeOK

LEMMA TypedInvariance ==
  ASSUME FRAME_MAX_LEN <= m_size
  PROVE  Spec => []TypedInv
<1>1. Init => TypedInv
  BY TypedInit
<1>2. TypedInv /\ [Next]_vars => TypedInv'
  <2> SUFFICES ASSUME TypedInv, [Next]_vars PROVE TypedInv'
    OBVIOUS
  <2>1. CASE UNCHANGED vars
    BY <2>1 DEF TypedInv, TypeOK, vars
  <2> QED
    BY <2>1, TypedSend, TypedRead, TypedProcess DEF Next
<1> QED
  BY <1>1, <1>2, PTL DEF Spec

\* The receive path's state has its type: with a receive buffer of at least the
\* size of a read, whatever arrives, however it is cut and whatever init makes of
\* it, the buffer's indices stay in their ranges.
THEOREM ReceiveTyped ==
  ASSUME FRAME_MAX_LEN <= m_size
  PROVE  Spec => []TypeOK
<1>1. TypedInv => TypeOK
  BY DEF TypedInv
<1> QED
  BY <1>1, TypedInvariance, PTL

-----------------------------------------------------------------------------
(* What init makes of the bytes of one message.                            *)

LEMMA InitOne ==
  ASSUME NEW rest, NEW n, IsHead(rest[1]), LengthField(rest) = {n}, NEW frame \in init(rest)
  PROVE  \/ n > FRAME_MAX_LEN /\ frame.state_ = "FRAME_LENGTH_ERROR" /\ frame.length_ = n
         \/ /\ ~ n > FRAME_MAX_LEN /\ n > Len(rest)
            /\ frame.state_ = "FRAME_WAIT" /\ frame.length_ = n
         \/ /\ ~ n > FRAME_MAX_LEN /\ ~ n > Len(rest)
            /\ frame.state_ \in Checksum(rest, n) /\ frame.length_ = n
<1>1. frame \in IF n > FRAME_MAX_LEN THEN {[state_ |-> "FRAME_LENGTH_ERROR", length_ |-> n]}
                ELSE IF n > Len(rest) THEN {[state_ |-> "FRAME_WAIT", length_ |-> n]}
                ELSE {[state_ |-> st, length_ |-> n] : st \in Checksum(rest, n)}
  BY Zenon DEF init
<1>2. CASE n > FRAME_MAX_LEN
  BY <1>1, <1>2
<1>3. CASE ~ n > FRAME_MAX_LEN /\ n > Len(rest)
  BY <1>1, <1>3
<1>4. CASE ~ n > FRAME_MAX_LEN /\ ~ n > Len(rest)
  <2>1. PICK c \in Checksum(rest, n) : frame = [state_ |-> c, length_ |-> n]
    BY <1>1, <1>4
  <2> QED
    BY <1>4, <2>1
<1> QED
  BY <1>2, <1>3, <1>4

\* The first n bytes are those of message m.
Shows(rest, n, m) == \A j \in 1 .. n : rest[j] = [msg |-> m, pos |-> j]

\* A frame of which all bytes are there, or as many as show that it is cut.
LEMMA GoodFrame ==
  ASSUME NEW rest \in Seq(Byte), NEW n \in Nat, n >= 1, Len(rest) = n,
         NEW m, NEW s \in Shapes, sent[m] = s, s.good,
         Shows(rest, n, m),
         n <= s.size, n = s.size \/ (FRAME_BEFORE_NUM <= n /\ n < s.length)
  PROVE  \A frame \in init(rest) :
           /\ Stops(frame) /\ frame.length_ = s.length
           /\ frame.state_ = "FRAME_OK" => n = s.size /\ Intact(rest, ReadUpTo(s.length))
<1>1. rest[1].msg = m /\ rest[1].pos = 1
  BY 1 \in 1 .. n DEF Shows
<1>2. /\ s.head /\ s.length \in Nat /\ s.length <= FRAME_MAX_LEN
      /\ s.size = s.length + FRAME_BEFORE_NUM + FRAME_CTRL_NUM
  BY ShapeAssumption DEF Shape, size
<1>3. FRAME_BEFORE_NUM <= n
  BY <1>2, FrameLayout
<1>4. ASSUME NEW k \in Nat, k <= n PROVE Intact(rest, k)
  <2>1. \A i \in 1 .. k : i \in 1 .. n
    BY <1>4
  <2> QED
    BY <1>1, <1>4, <2>1 DEF Intact, Shows
<1>5. LengthField(rest) = {s.length}
  BY <1>1, <1>3, <1>4, FrameLayout DEF LengthField
<1>6. IsHead(rest[1])
  BY <1>1, <1>2 DEF IsHead
<1> TAKE frame \in init(rest)
<1>9. \/ s.length > FRAME_MAX_LEN /\ frame.state_ = "FRAME_LENGTH_ERROR"
      \/ s.length > n /\ frame.state_ = "FRAME_WAIT" /\ frame.length_ = s.length
      \/ frame.state_ \in Checksum(rest, s.length) /\ frame.length_ = s.length
  BY <1>5, <1>6, InitOne
<1>7. CASE n = s.size
  <2>1. ReadUpTo(s.length) \in Nat /\ ReadUpTo(s.length) <= n /\ ~ s.length > n
    BY <1>2, <1>7, FrameLayout DEF ReadUpTo
  <2>2. Intact(rest, ReadUpTo(s.length))
    BY <1>4, <2>1
  <2>3. Checksum(rest, s.length) = {"FRAME_OK"}
    BY <1>1, <2>2 DEF Checksum
  <2>4. ~ s.length > FRAME_MAX_LEN
    BY <1>2, FrameLayout
  <2> QED
    BY <1>7, <1>9, <2>1, <2>2, <2>3, <2>4 DEF Stops
<1>8. CASE n # s.size
  <2>1. s.length > n /\ ~ s.length > FRAME_MAX_LEN
    BY <1>2, <1>8, FrameLayout
  <2>2. frame.state_ = "FRAME_WAIT" /\ frame.length_ = s.length
    BY <1>5, <1>6, <2>1, InitOne, Zenon
  <2> QED
    BY <2>2 DEF Stops
<1> QED
  BY <1>7, <1>8

\* A damaged frame that is all there is passed over.
LEMMA BadFrame ==
  ASSUME Recognisable,
         NEW rest \in Seq(Byte), NEW n \in Nat, n >= 1, Len(rest) = n,
         NEW m, NEW s \in Shapes, sent[m] = s, ~ s.good, s.head, s.size <= n,
         Shows(rest, s.size, m)
  PROVE  \A frame \in init(rest) : ~ Stops(frame)
<1>1. /\ s.size \in Nat /\ s.size >= 1 /\ s.length \in Nat
      /\ FRAME_BEFORE_NUM <= s.size
      /\ s.length > FRAME_MAX_LEN \/ ReadUpTo(s.length) <= s.size
  BY ShapeFields DEF Recognisable
<1>2. rest[1].msg = m /\ rest[1].pos = 1
  <2>1. 1 \in 1 .. s.size
    BY <1>1
  <2>2. rest[1] = [msg |-> m, pos |-> 1]
    BY <2>1 DEF Shows
  <2> QED
    BY <2>2
<1>3. Intact(rest, FRAME_BEFORE_NUM)
  <2>1. /\ FRAME_BEFORE_NUM <= n
        /\ \A i \in 1 .. FRAME_BEFORE_NUM : i \in 1 .. s.size
    BY <1>1, FrameLayout
  <2> QED
    BY <1>2, <2>1 DEF Intact, Shows
<1>4. LengthField(rest) = {s.length}
  BY <1>2, <1>3 DEF LengthField
<1>5. IsHead(rest[1])
  BY <1>2 DEF IsHead
<1> TAKE frame \in init(rest)
<1>6. CASE s.length > FRAME_MAX_LEN
  <2>1. frame.state_ = "FRAME_LENGTH_ERROR"
    BY <1>4, <1>5, <1>6, InitOne, Zenon
  <2> QED
    BY <2>1 DEF Stops
<1>7. CASE ~ s.length > FRAME_MAX_LEN
  <2>1. ReadUpTo(s.length) <= n /\ ~ s.length > n
    BY <1>1, <1>7, FrameLayout DEF ReadUpTo
  <2>2. Checksum(rest, s.length) = {"FRAME_CHECK_ERROR"}
    BY <1>2, <2>1 DEF Checksum
  <2>3. frame.state_ \in Checksum(rest, s.length)
    BY <1>4, <1>5, <1>7, <2>1, InitOne, Zenon
  <2> QED
    BY <2>2, <2>3 DEF Stops
<1> QED
  BY <1>6, <1>7

-----------------------------------------------------------------------------
(* What getFrameFromBuffer finds: it stops exactly where a frame begins.   *)

\* Where a read that the client's writes or init's WAIT account for ends.
CutAt(snt, b) == \/ b.pos = snt[b.msg].size
                 \/ /\ snt[b.msg].good
                    /\ FRAME_BEFORE_NUM <= b.pos /\ b.pos < snt[b.msg].length

\* bytes are the first l of the stream, and the cut is between messages or
\* where init waits.
Begins(bytes, st, l) == /\ bytes \in Seq(Byte) /\ Len(bytes) = l /\ l <= Len(st)
                        /\ \A i \in 1 .. l : bytes[i] = st[i]
                        /\ l >= 1 => CutAt(sent, st[l])

LEMMA FromIs ==
  ASSUME NEW st, NEW l \in Nat, NEW bytes, Begins(bytes, st, l), NEW d \in 0 .. l - 1
  PROVE  /\ From(bytes, d) \in Seq(Byte) /\ Len(From(bytes, d)) = l - d
         /\ \A k \in 1 .. l - d : From(bytes, d)[k] = st[d + k]
<1>1. bytes \in Seq(Byte) /\ Len(bytes) = l /\ d \in 0 .. Len(bytes)
  BY DEF Begins
<1>2. /\ From(bytes, d) \in Seq(Byte) /\ Len(From(bytes, d)) = l - d
      /\ \A k \in 1 .. l - d : From(bytes, d)[k] = bytes[d + k] /\ d + k \in 1 .. l
  BY <1>1, Rest DEF From
<1>3. \A i \in 1 .. l : bytes[i] = st[i]
  BY DEF Begins
<1> QED
  BY <1>2, <1>3

LEMMA GoodStops ==
  ASSUME sent \in Seq(Shapes), NEW st, Stream(st, sent),
         NEW l \in Nat, NEW bytes, Begins(bytes, st, l),
         NEW d \in 0 .. l - 1, GoodAt(st, sent, d + 1)
  PROVE  \A frame \in init(From(bytes, d)) :
           /\ Stops(frame)
           /\ frame.state_ = "FRAME_OK" =>
                /\ l = Len(st) /\ size(frame.length_) = l - d
                /\ Intact(From(bytes, d), ReadUpTo(frame.length_))
                /\ From(bytes, d)[1].msg = st[d + 1].msg
<1> DEFINE rest == From(bytes, d)
<1>3. /\ rest \in Seq(Byte) /\ Len(rest) = l - d
      /\ \A k \in 1 .. l - d : rest[k] = st[d + k]
  BY FromIs
<1>1. /\ Len(st) \in Nat /\ l <= Len(st) /\ l >= 1 /\ l \in 1 .. l /\ d + 1 \in 1 .. Len(st)
      /\ d \in Nat
  BY DEF Begins, Stream
<1>2. PICK m \in Nat, s \in Shapes, z \in Nat :
        /\ m = Len(sent) /\ sent[m] = s /\ s.good /\ s.size = z
        /\ st[d + 1].msg = m
        /\ Len(st) = d + 1 + z - 1
        /\ \A j \in 1 .. Len(st) : d + 1 <= j => st[j] = [msg |-> m, pos |-> j - (d + 1) + 1]
  <2>1. /\ st[d + 1].msg = Len(sent) /\ Len(sent) >= 1 /\ sent[Len(sent)] \in Shapes
        /\ sent[Len(sent)].good
        /\ Len(st) = d + 1 + sent[Len(sent)].size - 1
        /\ \A j \in 1 .. Len(st) :
             d + 1 <= j => st[j] = [msg |-> Len(sent), pos |-> j - (d + 1) + 1]
    BY <1>1, GoodTail
  <2>2. Len(sent) \in Nat /\ sent[Len(sent)].size \in Nat
    BY <2>1, ShapeFields
  <2> QED
    BY <2>1, <2>2
<1> HIDE DEF rest
<1>13. Len(st) = d + z
  <2>1. Len(st) = d + 1 + z - 1
    BY <1>2
  <2> QED
    BY <1>1, <2>1
<1>4. PICK n \in Nat : n = l - d /\ n >= 1 /\ n <= z
  <2>1. l - d \in Nat /\ l - d >= 1 /\ l - d <= z
    BY <1>1, <1>13
  <2> QED
    BY <2>1
<1>5. ASSUME NEW k \in 1 .. n PROVE st[d + k] = [msg |-> m, pos |-> k]
  <2>1. d + k \in 1 .. Len(st) /\ d + 1 <= d + k /\ (d + k) - (d + 1) + 1 = k
    BY <1>1, <1>4
  <2>2. \A j \in 1 .. Len(st) : d + 1 <= j => st[j] = [msg |-> m, pos |-> j - (d + 1) + 1]
    BY <1>2
  <2>3. st[d + k] = [msg |-> m, pos |-> (d + k) - (d + 1) + 1]
    BY <2>1, <2>2, Zenon
  <2> QED
    BY <2>1, <2>3, Zenon
<1>6. Shows(rest, n, m)
  BY <1>3, <1>4, <1>5, Zenon DEF Shows
<1>7. st[l] = [msg |-> m, pos |-> n]
  <2>1. d + n = l /\ n \in 1 .. n
    BY <1>1, <1>4
  <2>2. st[d + n] = [msg |-> m, pos |-> n]
    BY <1>5, <2>1
  <2> QED
    BY <2>1, <2>2, Zenon
<1>8. n = z \/ (FRAME_BEFORE_NUM <= n /\ n < s.length)
  <2>1. CutAt(sent, st[l])
    BY <1>1 DEF Begins
  <2>2. st[l].msg = m /\ st[l].pos = n
    BY <1>7
  <2> QED
    BY <1>2, <2>1, <2>2, Zenon DEF CutAt
<1>9. \A frame \in init(rest) :
        /\ Stops(frame) /\ frame.length_ = s.length
        /\ frame.state_ = "FRAME_OK" => n = z /\ Intact(rest, ReadUpTo(s.length))
  <2>1. Len(rest) = n /\ n <= s.size /\ (n = s.size \/ (FRAME_BEFORE_NUM <= n /\ n < s.length))
    BY <1>2, <1>3, <1>4, <1>8, Zenon
  <2> QED
    <3>1. n >= 1 /\ sent[m] = s /\ s.good
      BY <1>2, <1>4
    <3>2. rest \in Seq(Byte)
      BY <1>3
    <3>3. \A frame \in init(rest) :
            /\ Stops(frame) /\ frame.length_ = s.length
            /\ frame.state_ = "FRAME_OK" => n = s.size /\ Intact(rest, ReadUpTo(s.length))
      BY <1>6, <2>1, <3>1, <3>2, GoodFrame
    <3>4. s.size = z
      BY <1>2
    <3> QED
      BY <3>3, <3>4, Zenon
<1>10. size(s.length) = z
  BY <1>2, ShapeAssumption
<1>11. n = z => l = Len(st)
  BY <1>1, <1>4, <1>13
<1>12. rest[1].msg = m
  <2>1. 1 \in 1 .. n
    BY <1>4
  <2> QED
    <3>1. rest[1] = [msg |-> m, pos |-> 1]
      BY <1>6, <2>1, Zenon DEF Shows
    <3> QED
      BY <3>1
<1> QED
  BY <1>2, <1>4, <1>9, <1>10, <1>11, <1>12, Zenon DEF rest

LEMMA BadPasses ==
  ASSUME Recognisable, sent \in Seq(Shapes), NEW st, Stream(st, sent),
         NEW l \in Nat, NEW bytes, Begins(bytes, st, l),
         NEW d \in 0 .. l - 1, ~ GoodAt(st, sent, d + 1)
  PROVE  \A frame \in init(From(bytes, d)) : ~ Stops(frame)
<1> DEFINE rest == From(bytes, d)
<1>1. /\ Len(st) \in Nat /\ l <= Len(st) /\ l >= 1 /\ d + 1 \in 1 .. Len(st)
      /\ d \in Nat /\ 1 \in 1 .. l - d /\ l \in 1 .. Len(st)
  BY DEF Begins, Stream
<1>2. /\ rest \in Seq(Byte) /\ Len(rest) = l - d
      /\ \A k \in 1 .. l - d : rest[k] = st[d + k]
  BY FromIs
<1>3. rest[1] = st[d + 1]
  BY <1>1, <1>2
<1> SUFFICES ASSUME NEW frame \in init(rest), Stops(frame) PROVE FALSE
  OBVIOUS
<1>4. IsHead(rest[1])
  BY InitStops
<1> HIDE DEF rest
<1>5. PICK m \in Nat, s \in Shapes, z \in Nat :
        /\ st[d + 1].msg = m /\ sent[m] = s /\ s.size = z /\ z >= 1
        /\ s.head /\ ~ s.good /\ st[d + 1].pos = 1
  <2>1. st[d + 1].msg \in Nat /\ sent[st[d + 1].msg] \in Shapes
    BY <1>1, Messages DEF Stream
  <2>2. st[d + 1].pos = 1 /\ sent[st[d + 1].msg].head
    BY <1>3, <1>4 DEF IsHead
  <2>3. ~ sent[st[d + 1].msg].good
    BY <2>2 DEF GoodAt
  <2>4. sent[st[d + 1].msg].size \in Nat /\ sent[st[d + 1].msg].size >= 1
    BY <2>1, ShapeFields
  <2> QED
    BY <2>1, <2>2, <2>3, <2>4, Zenon
<1>6. \A j \in 1 .. Len(st) : j - (d + 1) \in 0 .. z - 1 => st[j] = [msg |-> m, pos |-> 1 + (j - (d + 1))]
  <2>1. \A j \in 1 .. Len(st) :
          j - (d + 1) \in 1 - st[d + 1].pos .. sent[st[d + 1].msg].size - st[d + 1].pos =>
            st[j] = [msg |-> st[d + 1].msg, pos |-> st[d + 1].pos + (j - (d + 1))]
    BY <1>1 DEF Stream, Together
  <2> QED
    BY <1>5, <2>1
<1>7. z <= l - d
  <2>1. ASSUME l - d < z PROVE FALSE
    <3>1. l - (d + 1) \in 0 .. z - 1
      BY <1>1, <2>1
    <3>2. st[l] = [msg |-> m, pos |-> 1 + (l - (d + 1))]
      BY <1>1, <1>6, <3>1
    <3>3. st[l].msg = m /\ st[l].pos = l - d
      BY <1>1, <3>2
    <3>4. CutAt(sent, st[l])
      BY <1>1 DEF Begins
    <3>5. l - d = z
      BY <1>5, <3>3, <3>4 DEF CutAt
    <3> QED
      BY <1>1, <2>1, <3>5
  <2> QED
    BY <1>1, <2>1
<1>8. ASSUME NEW j \in 1 .. z PROVE rest[j] = [msg |-> m, pos |-> j]
  <2>1. /\ j \in 1 .. l - d /\ d + j \in 1 .. Len(st)
        /\ (d + j) - (d + 1) \in 0 .. z - 1 /\ 1 + ((d + j) - (d + 1)) = j
    BY <1>1, <1>7
  <2>2. st[d + j] = [msg |-> m, pos |-> 1 + ((d + j) - (d + 1))]
    BY <1>6, <2>1, Zenon
  <2> QED
    BY <1>2, <2>1, <2>2, Zenon
<1>9. PICK n \in Nat : n = l - d /\ n >= 1
  BY <1>1
<1>10. \A f \in init(rest) : ~ Stops(f)
  <2>1. Len(rest) = n /\ s.size <= n /\ Shows(rest, s.size, m)
    BY <1>2, <1>5, <1>7, <1>8, <1>9, Zenon DEF Shows
  <2> QED
    BY <1>2, <1>5, <1>9, <2>1, BadFrame
<1> QED
  BY <1>10 DEF rest

-----------------------------------------------------------------------------
(* The stream of a connection.                                             *)

\* What is readable and what is under way; after a relapse what is readable is
\* old, and the next append replaces it.
Live(b, q) == IF length(b) = m_size THEN q ELSE Readable(b) \o q

LEMMA Regrouped ==
  ASSUME NEW r \in Seq(Byte), NEW s \in Seq(Byte), NEW t \in Seq(Byte)
  PROVE  (r \o s) \o t = r \o (s \o t)
BY ConcatAssociative

LEMMA SameBytes ==
  ASSUME NEW s \in Seq(Byte), NEW t \in Seq(Byte), Len(s) = Len(t),
         \A i \in 1 .. Len(s) : s[i] = t[i]
  PROVE  s = t
BY SeqEqual

\* The part of a sequence from k to its end.
LEMMA LastPart ==
  ASSUME NEW s \in Seq(Byte), NEW k \in 1 .. Len(s), NEW z \in Nat, Len(s) = k + z - 1
  PROVE  /\ SubSeq(s, k, Len(s)) \in Seq(Byte)
         /\ Len(SubSeq(s, k, Len(s))) = z
         /\ \A p \in 1 .. z : SubSeq(s, k, Len(s))[p] = s[k + p - 1]
OBVIOUS

LEMMA Halves ==
  ASSUME NEW q \in Seq(Byte), NEW n \in 0 .. Len(q)
  PROVE  SubSeq(q, 1, n) \o SubSeq(q, n + 1, Len(q)) = q
<1> DEFINE r == SubSeq(q, 1, n)
           s == SubSeq(q, n + 1, Len(q))
<1>1. r \in Seq(Byte) /\ Len(r) = n /\ \A i \in 1 .. n : q[i] = r[i]
  OBVIOUS
<1>2. s \in Seq(Byte) /\ Len(s) = Len(q) - n /\ \A k \in 1 .. Len(q) - n : q[n + k] = s[k]
  BY Rest
<1> HIDE DEF r, s
<1>3. Len(q) = Len(r) + Len(s)
  BY <1>1, <1>2
<1>4. Len(r) = n /\ Len(s) = Len(q) - n
  BY <1>1, <1>2
<1>5. /\ \A i \in 1 .. Len(r) : q[i] = r[i]
      /\ \A k \in 1 .. Len(s) : q[Len(r) + k] = s[k]
  BY <1>1, <1>2, <1>4, Zenon
<1>6. r \in Seq(Byte) /\ s \in Seq(Byte)
  BY <1>1, <1>2
<1>7. q = r \o s
  BY <1>3, <1>5, <1>6, IsJoined
<1> QED
  BY <1>7 DEF r, s

\* Dropping the first bytes of a joined sequence.
LEMMA JoinedRest ==
  ASSUME NEW r \in Seq(Byte), NEW q \in Seq(Byte), NEW d \in 0 .. Len(r)
  PROVE  SubSeq(r \o q, d + 1, Len(r \o q)) = SubSeq(r, d + 1, Len(r)) \o q
<1> DEFINE u == r \o q
           t == SubSeq(u, d + 1, Len(u))
           s == SubSeq(r, d + 1, Len(r))
<1>1. /\ u \in Seq(Byte) /\ Len(u) = Len(r) + Len(q)
      /\ \A i \in 1 .. Len(r) : u[i] = r[i]
      /\ \A k \in 1 .. Len(q) : u[Len(r) + k] = q[k]
  BY Joined, ConcatProperties
<1>2. /\ s \in Seq(Byte) /\ Len(s) = Len(r) - d
      /\ \A i \in 1 .. Len(r) - d : s[i] = r[d + i] /\ d + i \in 1 .. Len(r)
  BY Rest
<1> HIDE DEF u
<1>3. d \in 0 .. Len(u)
  BY <1>1
<1>4. /\ t \in Seq(Byte) /\ Len(t) = Len(u) - d
      /\ \A i \in 1 .. Len(u) - d : t[i] = u[d + i]
  BY <1>1, <1>3, Rest
<1> HIDE DEF t, s
<1>5. Len(t) = Len(s) + Len(q)
  BY <1>1, <1>2, <1>4
<1>6. ASSUME NEW i \in 1 .. Len(s) PROVE t[i] = s[i]
  <2>1. i \in 1 .. Len(r) - d /\ i \in 1 .. Len(u) - d
    BY <1>1, <1>2
  <2> QED
    BY <1>1, <1>2, <1>4, <2>1
<1>7. ASSUME NEW k \in 1 .. Len(q) PROVE t[Len(s) + k] = q[k]
  <2>1. Len(s) + k \in 1 .. Len(u) - d /\ d + (Len(s) + k) = Len(r) + k
    BY <1>1, <1>2
  <2>2. t[Len(s) + k] = u[d + (Len(s) + k)]
    BY <1>4, <2>1, Zenon
  <2> QED
    BY <1>1, <2>1, <2>2
<1>8. t = s \o q
  BY <1>2, <1>4, <1>5, <1>6, <1>7, IsJoined
<1> QED
  BY <1>8 DEF t, s, u

LEMMA LiveIs ==
  ASSUME NEW b \in Buffer, Written(b), NEW q \in Seq(Byte), length(b) < m_size
  PROVE  /\ Live(b, q) = Readable(b) \o q
         /\ Live(b, q) \in Seq(Byte)
         /\ length(b) \in Nat /\ Len(Readable(b)) = length(b) /\ Readable(b) \in Seq(Byte)
         /\ Len(Live(b, q)) = length(b) + Len(q)
         /\ \A i \in 1 .. length(b) : Live(b, q)[i] = Readable(b)[i]
         /\ \A k \in 1 .. Len(q) : Live(b, q)[length(b) + k] = q[k]
<1>1. /\ Readable(b) \in Seq(Byte) /\ Len(Readable(b)) = length(b) /\ length(b) \in Nat
  BY ReadableTyped, ReadableIs
<1>2. Live(b, q) = Readable(b) \o q
  BY <1>1, SizeAssumption DEF Live
<1> SUFFICES ASSUME NEW r, r = Readable(b)
             PROVE  /\ Live(b, q) = r \o q
                    /\ Live(b, q) \in Seq(Byte)
                    /\ length(b) \in Nat /\ Len(r) = length(b) /\ r \in Seq(Byte)
                    /\ Len(Live(b, q)) = length(b) + Len(q)
                    /\ \A i \in 1 .. length(b) : Live(b, q)[i] = r[i]
                    /\ \A k \in 1 .. Len(q) : Live(b, q)[length(b) + k] = q[k]
  OBVIOUS
<1>4. r \in Seq(Byte) /\ Len(r) = length(b) /\ length(b) \in Nat /\ Live(b, q) = r \o q
  BY <1>1, <1>2, Zenon
<1>3. /\ r \o q \in Seq(Byte) /\ Len(r \o q) = Len(r) + Len(q)
      /\ \A i \in 1 .. Len(r) : (r \o q)[i] = r[i]
      /\ \A k \in 1 .. Len(q) : (r \o q)[Len(r) + k] = q[k]
  BY <1>4, Joined, ConcatProperties
<1> QED
  BY <1>3, <1>4, Zenon

\* A read moves bytes within the stream.
LEMMA LiveAfterRead ==
  ASSUME NEW b \in Buffer, Written(b), NEW q \in Seq(Byte), NEW n \in 1 .. Len(q),
         n < m_size, length(b) = m_size \/ length(b) + n < m_size - 1,
         NEW c, c = append(b, SubSeq(q, 1, n))
  PROVE  /\ Live(c, SubSeq(q, n + 1, Len(q))) = Live(b, q)
         /\ length(c) = IF length(b) = m_size THEN n ELSE length(b) + n
         /\ length(c) \in 1 .. m_size - 1
<1> DEFINE a == SubSeq(q, 1, n)
           s == SubSeq(q, n + 1, Len(q))
           r == Readable(b)
<1>1. /\ n \in Nat /\ n >= 1 /\ n \in 0 .. Len(q) /\ m_size \in Nat /\ n \in 1 .. m_size
      /\ length(b) \in Nat /\ length(b) <= m_size
  BY ReadableIs, SizeAssumption
<1>2. a \in Seq(Byte) /\ Len(a) = n /\ s \in Seq(Byte) /\ a \o s = q
  <2>1. n \in 0 .. Len(q)
    BY <1>1
  <2>2. a \in Seq(Byte) /\ Len(a) = n
    OBVIOUS
  <2>3. s \in Seq(Byte)
    BY <2>1, Rest
  <2>4. a \o s = q
    BY <2>1, Halves
  <2> QED
    BY <2>2, <2>3, <2>4
<1>3. r \in Seq(Byte) /\ Len(r) = length(b)
  BY ReadableTyped, ReadableIs
<1>4. c = append(b, a)
  OBVIOUS
<1>5. Live(b, q) = IF length(b) = m_size THEN q ELSE r \o q
  BY DEF Live
<1>6. ASSUME NEW x, Readable(c) = x
      PROVE  Live(c, s) = IF length(c) = m_size THEN s ELSE x \o s
  BY <1>6 DEF Live
<1> SUFFICES /\ Live(c, s) = Live(b, q)
             /\ length(c) = IF length(b) = m_size THEN n ELSE length(b) + n
             /\ length(c) \in 1 .. m_size - 1
  OBVIOUS
<1>7. Len(a) \in 1 .. m_size /\ (length(b) = m_size \/ length(b) + Len(a) < m_size - 1)
  BY <1>1, <1>2
<1> HIDE DEF a, s
<1>8. c \in Buffer
  BY <1>2, <1>4, <1>7, AppendTyped
<1>9. Readable(c) = IF length(b) = m_size THEN a ELSE r \o a
  BY <1>2, <1>4, <1>7, ReadableAfterAccepted
<1>10. length(c) = Len(Readable(c))
  BY <1>8, ReadableIs
<1> HIDE DEF r
<1>11. CASE length(b) = m_size
  <2>1. Readable(c) = a /\ length(c) = n
    BY <1>2, <1>9, <1>10, <1>11
  <2>2. length(c) \in 1 .. m_size - 1 /\ length(c) # m_size
    BY <1>1, <2>1
  <2>3. Live(c, s) = a \o s
    BY <1>6, <2>1, <2>2
  <2> QED
    BY <1>2, <1>5, <1>11, <2>1, <2>2, <2>3, Zenon
<1>12. CASE length(b) # m_size
  <2>1. Readable(c) = r \o a
    BY <1>9, <1>12
  <2>2. Len(r \o a) = Len(r) + Len(a)
    BY <1>2, <1>3, Joined
  <2>3. length(c) = length(b) + n
    BY <1>2, <1>3, <1>10, <2>1, <2>2, Zenon
  <2>4. length(c) \in 1 .. m_size - 1 /\ length(c) # m_size
    BY <1>1, <1>2, <1>7, <1>12, <2>3
  <2>5. Live(c, s) = (r \o a) \o s
    BY <1>6, <2>1, <2>4, Zenon
  <2>6. (r \o a) \o s = r \o (a \o s)
    <3>1. r \in Seq(Byte) /\ a \in Seq(Byte) /\ s \in Seq(Byte)
      BY <1>2, <1>3
    <3> QED
      BY <3>1, Regrouped, Zenon
  <2> QED
    BY <1>2, <1>5, <1>12, <2>3, <2>4, <2>5, <2>6, Zenon
<1> QED
  BY <1>11, <1>12

\* A pop takes the stream's first bytes.
LEMMA LiveAfterPop ==
  ASSUME NEW b \in Buffer, Written(b), NEW q \in Seq(Byte), length(b) < m_size,
         NEW d \in 0 .. length(b), NEW c, c = pop(b, d)
  PROVE  /\ Live(c, q) = SubSeq(Live(b, q), d + 1, Len(Live(b, q)))
         /\ \/ length(c) = length(b) - d
            \/ d = length(b) /\ length(c) = m_size
<1>1. /\ Live(b, q) = Readable(b) \o q
      /\ Len(Readable(b)) = length(b) /\ Readable(b) \in Seq(Byte) /\ length(b) \in Nat
  BY LiveIs
<1> DEFINE r == Readable(b)
<1>2. SubSeq(r \o q, d + 1, Len(r \o q)) = SubSeq(r, d + 1, Len(r)) \o q
  BY <1>1, JoinedRest
<1>3. \/ /\ length(c) = length(b) - d
         /\ Readable(c) = SubSeq(r, d + 1, Len(r))
      \/ d = length(b) /\ length(c) = m_size
  BY ReadableAfterPop
<1> HIDE DEF r
<1>4. CASE length(c) = length(b) - d /\ Readable(c) = SubSeq(r, d + 1, Len(r))
  <2>1. length(c) # m_size
    BY <1>1, <1>4, SizeAssumption
  <2>2. Live(c, q) = SubSeq(r, d + 1, Len(r)) \o q
    BY <1>4, <2>1 DEF Live
  <2> QED
    BY <1>1, <1>2, <1>4, <2>2, Zenon DEF r
<1>5. CASE d = length(b) /\ length(c) = m_size
  <2>1. Live(c, q) = q
    BY <1>5 DEF Live
  <2>2. SubSeq(r, d + 1, Len(r)) = <<>>
    <3>1. r \in Seq(Byte) /\ d \in 0 .. Len(r) /\ d = Len(r)
      BY <1>1, <1>5 DEF r
    <3> QED
      BY <3>1, DropFirst
  <2>3. <<>> \o q = q
    BY ConcatEmptySeq
  <2>4. SubSeq(r \o q, d + 1, Len(r \o q)) = q
    BY <1>2, <2>2, <2>3, Zenon
  <2> QED
    BY <1>1, <1>5, <2>1, <2>4, Zenon DEF r
<1> QED
  BY <1>3, <1>4, <1>5

-----------------------------------------------------------------------------
(* The inductive invariant.                                                *)

\* At rest the buffer is empty, has relapsed, or holds the beginning of a frame;
\* a read leaves in it whole messages and at the end perhaps a frame that is cut
\* where init waits for the rest.
Held(snt, q, b, p, ex) ==
  /\ Len(q) <= Room
  /\ \A m \in 1 .. Len(snt) : snt[m].size <= Room
  /\ Facts(Live(b, q), snt, ex)
  /\ p = "idle" => length(b) \in {0, m_size} \/ snt[Live(b, q)[1].msg].good
  /\ p = "process" => length(b) \in 1 .. m_size - 1 /\ CutAt(snt, Live(b, q)[length(b)])

LiveInv == TypedInv /\ Held(sent, inq, readBuff_, pc, executed)

LEMMA HeldSend ==
  ASSUME LiveInv, NEW s \in Shapes, Send(s)
  PROVE  Held(sent', inq', readBuff_', pc', executed')
<1> DEFINE st == Live(readBuff_, inq)
           x  == BytesOf(Len(sent) + 1, s)
<1>1. /\ sent \in Seq(Shapes) /\ inq \in Seq(Byte)
      /\ readBuff_ \in Buffer /\ Written(readBuff_)
      /\ Len(sent) \in Nat
  BY DEF LiveInv, TypedInv, TypeOK
<1>2. /\ sent' = Append(sent, s) /\ Len(sent) < MaxSent
      /\ inq' = inq \o x /\ Len(inq) + s.size <= Room
      /\ UNCHANGED <<readBuff_, pc, executed>>
      /\ \A m \in 1 .. Len(sent) : sent[m].good => \E k \in 1 .. Len(executed) : executed[k] = m
  BY DEF Send, WasExecuted
<1>3. /\ \A m \in 1 .. Len(sent) : sent[m].size <= Room
      /\ Facts(st, sent, executed)
      /\ pc = "idle" => length(readBuff_) \in {0, m_size} \/ sent[st[1].msg].good
      /\ pc = "process" => /\ length(readBuff_) \in 1 .. m_size - 1
                           /\ CutAt(sent, st[length(readBuff_)])
  BY DEF LiveInv, Held
<1>4. st \in Seq(Byte) /\ Stream(st, sent) /\ Len(st) \in Nat
  BY <1>3 DEF Facts, Stream
<1>5. Facts(st \o x, sent', executed)
  BY <1>1, <1>2, <1>3, FactsSent
<1>6. Len(sent) + 1 \in 1 .. MaxSent
  BY <1>1, <1>2, LimitAssumption
<1>7. x \in Seq(Byte) /\ Len(x) = s.size
  BY <1>6, BytesOfIs
<1>8. /\ s.size \in Nat /\ Len(inq \o x) = Len(inq) + Len(x)
  BY <1>1, <1>7, Joined, ShapeFields
<1>9. length(readBuff_) # m_size => /\ Len(st) = length(readBuff_) + Len(inq)
                                    /\ st = Readable(readBuff_) \o inq
                                    /\ Readable(readBuff_) \in Seq(Byte)
  <2>1. length(readBuff_) \in Nat /\ length(readBuff_) <= m_size
    BY <1>1, ReadableIs
  <2>2. length(readBuff_) # m_size => length(readBuff_) < m_size
    BY <2>1, SizeAssumption
  <2> QED
    BY <1>1, <2>2, LiveIs
<1>10. Live(readBuff_, inq \o x) = st \o x
  <2>1. CASE length(readBuff_) = m_size
    BY <2>1 DEF Live
  <2>2. CASE length(readBuff_) # m_size
    <3>1. (Readable(readBuff_) \o inq) \o x = Readable(readBuff_) \o (inq \o x)
      <4>1. Readable(readBuff_) \in Seq(Byte)
        BY <1>9, <2>2
      <4> HIDE DEF x
      <4> QED
        BY <1>1, <1>7, <4>1, Regrouped, Zenon
    <3> QED
      BY <1>9, <2>2, <3>1, Zenon DEF Live
  <2> QED
    BY <2>1, <2>2
<1> HIDE DEF st, x
<1>11. /\ Len(sent') = Len(sent) + 1
       /\ \A i \in 1 .. Len(sent) : sent'[i] = sent[i]
       /\ sent'[Len(sent) + 1] = s
  BY <1>1, <1>2, Appended
<1>12. Len(inq') <= Room
  BY <1>2, <1>7, <1>8
<1>13. ASSUME NEW m \in 1 .. Len(sent') PROVE sent'[m].size <= Room
  <2>1. CASE m \in 1 .. Len(sent)
    BY <1>3, <1>11, <2>1
  <2>2. CASE m = Len(sent) + 1
    <3>1. s.size <= Room
      <4>1. Len(inq) \in Nat
        BY <1>1
      <4> QED
        BY <1>2, <1>8, <4>1, LimitAssumption
    <3> QED
      BY <1>11, <2>2, <3>1
  <2> QED
    BY <1>1, <1>11, <2>1, <2>2
<1>14. ASSUME pc' = "idle", length(readBuff_) \notin {0, m_size} PROVE FALSE
  <2>1. sent[st[1].msg].good
    BY <1>2, <1>3, <1>14
  <2>2. 1 \in 1 .. Len(st)
    <3>1. length(readBuff_) \in Nat /\ Len(inq) \in Nat
      BY <1>1, ReadableIs
    <3> QED
      BY <1>9, <1>14, <3>1
  <2>3. st[1].msg \in 1 .. Len(sent)
    BY <1>1, <1>4, <2>2, Messages DEF Stream
  <2>4. PICK k \in 1 .. Len(executed) : executed[k] = st[1].msg
    BY <1>2, <2>1, <2>3
  <2>5. executed[k] < st[1].msg
    BY <1>3, <2>2 DEF Facts, Done
  <2> QED
    BY <1>1, <2>3, <2>4, <2>5
<1>15. ASSUME pc' = "process"
       PROVE  /\ length(readBuff_) \in 1 .. m_size - 1
              /\ CutAt(sent', (st \o x)[length(readBuff_)])
  <2>1. PICK l \in 1 .. m_size - 1 : l = length(readBuff_) /\ CutAt(sent, st[l])
    BY <1>2, <1>3, <1>15
  <2>2. l \in 1 .. Len(st)
    <3>1. l # m_size /\ Len(inq) \in Nat
      BY <1>1, SizeAssumption
    <3> QED
      BY <1>9, <2>1, <3>1
  <2>3. (st \o x)[l] = st[l]
    BY <1>4, <1>7, <2>2, Joined
  <2>4. st[l].msg \in 1 .. Len(sent)
    BY <1>1, <1>4, <2>2, Messages DEF Stream
  <2>5. sent'[st[l].msg] = sent[st[l].msg]
    BY <1>11, <2>4
  <2> QED
    BY <2>1, <2>3, <2>5 DEF CutAt
<1> QED
  BY <1>2, <1>5, <1>10, <1>12, <1>13, <1>14, <1>15 DEF Held

\* The client has no more under way than the buffer takes, and reads cut its
\* stream where it or init can tell.
Fitting == Room + 1 < m_size /\ FRAME_MAX_LEN = m_size /\ Cuts # "any"

LEMMA HeldRead ==
  ASSUME Fitting, LiveInv, Read
  PROVE  Held(sent', inq', readBuff_', pc', executed')
<1> DEFINE st == Live(readBuff_, inq)
           L  == length(readBuff_)
<1>1. /\ sent \in Seq(Shapes) /\ inq \in Seq(Byte)
      /\ readBuff_ \in Buffer /\ Written(readBuff_)
      /\ L \in Nat /\ L <= m_size /\ Len(inq) \in Nat
  BY ReadableIs DEF LiveInv, TypedInv, TypeOK
<1>2. PICK n \in 1 .. Lesser(Len(inq), FRAME_MAX_LEN) :
        /\ CutAllowed(n) \/ n = FRAME_MAX_LEN
        /\ readBuff_' = append(readBuff_, SubSeq(inq, 1, n))
        /\ inq' = SubSeq(inq, n + 1, Len(inq))
  BY DEF Read
<1>3. pc = "idle" /\ pc' = "process" /\ UNCHANGED <<sent, executed>>
  BY DEF Read
<1>4. /\ \A m \in 1 .. Len(sent) : sent[m].size <= Room
      /\ Facts(st, sent, executed)
      /\ Len(inq) <= Room
      /\ L \in {0, m_size} \/ sent[st[1].msg].good
  BY <1>3 DEF LiveInv, Held
<1>5. Stream(st, sent) /\ Len(st) \in Nat /\ st \in Seq(Byte)
  BY <1>4 DEF Facts, Stream
<1>6. /\ n \in Nat /\ n >= 1 /\ n <= Len(inq) /\ n \in 1 .. Len(inq) /\ n < m_size - 1
      /\ n # FRAME_MAX_LEN /\ m_size \in Nat /\ Room \in Nat
  BY <1>1, <1>4, SizeAssumption, LimitAssumption DEF Lesser, Fitting
<1>7. L # m_size => /\ Len(st) = L + Len(inq)
                    /\ \A k \in 1 .. Len(inq) : st[L + k] = inq[k]
  BY <1>1, SizeAssumption, LiveIs
<1>8. L = m_size => st = inq
  BY DEF Live
<1> HIDE DEF st, L
<1>9. L = m_size \/ L + n < m_size - 1
  <2>1. ASSUME L \notin {0, m_size} PROVE L + n < m_size - 1
    <3>1. Len(st) = L + Len(inq) /\ 1 \in 1 .. Len(st)
      BY <1>1, <1>7, <2>1
    <3>2. st # <<>>
      <4>1. Len(st) # 0 /\ Len(<<>>) = 0
        BY <3>1
      <4> QED
        BY <4>1
    <3>3. st[1].pos = 1
      BY <1>5, <3>2 DEF Stream, Whole
    <3>4. GoodAt(st, sent, 1)
      BY <1>4, <2>1, <3>3 DEF GoodAt
    <3>5. Len(st) = 1 + sent[Len(sent)].size - 1 /\ Len(sent) >= 1 /\ sent[Len(sent)] \in Shapes
      BY <1>1, <1>5, <3>1, <3>4, GoodTail
    <3>6. sent[Len(sent)].size <= Room /\ sent[Len(sent)].size \in Nat
      BY <1>1, <1>4, <3>5, ShapeFields
    <3>7. Len(st) <= Room
      BY <3>5, <3>6
    <3> QED
      BY <1>1, <1>6, <3>1, <3>7 DEF Fitting
  <2> QED
    BY <1>6, <2>1
<1>10. /\ Live(readBuff_', inq') = st
       /\ length(readBuff_') = IF L = m_size THEN n ELSE L + n
       /\ length(readBuff_') \in 1 .. m_size - 1
  BY <1>1, <1>2, <1>6, <1>9, LiveAfterRead DEF L, st
<1>11. CutAt(sent, inq[n])
  BY <1>2, <1>6 DEF CutAllowed, CutAt, Fitting
<1>12. st[length(readBuff_')] = inq[n]
  BY <1>6, <1>7, <1>8, <1>10
<1>13. Len(inq') <= Room
  <2>1. Len(inq') = Len(inq) - n
    <3>1. n \in 0 .. Len(inq)
      BY <1>6
    <3> QED
      BY <1>1, <1>2, <3>1, Rest
  <2> QED
    BY <1>1, <1>4, <1>6, <2>1
<1> QED
  BY <1>3, <1>4, <1>10, <1>11, <1>12, <1>13 DEF Held

\* No frame begins in the bytes that are skipped.
LEMMA NoneSkipped ==
  ASSUME sent \in Seq(Shapes), NEW st, Stream(st, sent),
         NEW l \in Nat, NEW bytes, Begins(bytes, st, l),
         NEW discard \in 0 .. l, Skipped(bytes, discard), NEW i \in 1 .. discard
  PROVE  ~ GoodAt(st, sent, i)
<1> SUFFICES ASSUME GoodAt(st, sent, i) PROVE FALSE
  OBVIOUS
<1>1. PICK d \in 0 .. l - 1 : d + 1 = i /\ d \in 0 .. discard - 1
  <2>1. i - 1 \in 0 .. l - 1 /\ (i - 1) + 1 = i /\ i - 1 \in 0 .. discard - 1
    OBVIOUS
  <2> QED
    BY <2>1
<1>2. bytes[d + 1] = st[i] /\ i \in 1 .. Len(st)
  BY <1>1 DEF Begins, Stream
<1>3. st[i].pos = 1 /\ sent[st[i].msg] \in Shapes /\ sent[st[i].msg].good
  BY <1>2, Messages DEF GoodAt, Stream
<1>4. IsHead(bytes[d + 1])
  BY <1>2, <1>3, ShapeAssumption DEF IsHead
<1>5. PICK frame \in init(From(bytes, d)) : ~ Stops(frame)
  BY <1>1, <1>4 DEF Skipped
<1>6. GoodAt(st, sent, d + 1)
  BY <1>1
<1> QED
  BY <1>5, <1>6, GoodStops

LEMMA HeldProcess ==
  ASSUME Recognisable, Fitting, LiveInv, Process
  PROVE  Held(sent', inq', readBuff_', pc', executed')
<1> DEFINE st    == Live(readBuff_, inq)
           L     == length(readBuff_)
           bytes == peek(readBuff_, FRAME_MAX_LEN)
<1>1. /\ sent \in Seq(Shapes) /\ inq \in Seq(Byte)
      /\ readBuff_ \in Buffer /\ Written(readBuff_)
      /\ executed \in Seq(0 .. MaxSent)
      /\ Len(inq) \in Nat /\ m_size \in Nat
  BY SizeAssumption DEF LiveInv, TypedInv, TypeOK
<1>2. pc = "process" /\ pc' = "idle" /\ UNCHANGED <<sent, inq>>
  BY DEF Process
<1>3. /\ \A m \in 1 .. Len(sent) : sent[m].size <= Room
      /\ Facts(st, sent, executed)
      /\ Len(inq) <= Room
      /\ L \in 1 .. m_size - 1 /\ CutAt(sent, st[L])
  BY <1>2 DEF LiveInv, Held
<1>4. Stream(st, sent) /\ Len(st) \in Nat /\ st \in Seq(Byte)
  BY <1>3 DEF Facts, Stream
<1>5. L \in Nat /\ L >= 1 /\ L < m_size
  BY <1>1, <1>3
<1>6. bytes = Readable(readBuff_)
  BY DEF Readable, Fitting
<1>7. Begins(bytes, st, L) /\ Len(st) = L + Len(inq) /\ Len(bytes) = L
  <2>1. /\ bytes \in Seq(Byte) /\ Len(bytes) = L
        /\ Len(st) = L + Len(inq)
        /\ \A i \in 1 .. L : st[i] = bytes[i]
    BY <1>1, <1>5, <1>6, LiveIs
  <2> HIDE DEF bytes, st, L
  <2>2. L <= Len(st)
    BY <1>1, <1>5, <2>1
  <2> QED
    BY <1>3, <2>1, <2>2, Zenon DEF Begins
<1>8. PICK discard \in 0 .. Len(bytes) :
        /\ Skipped(bytes, discard)
        /\ \/ /\ discard = Len(bytes)
              /\ readBuff_' = pop(readBuff_, discard)
              /\ UNCHANGED executed
           \/ /\ discard < Len(bytes)
              /\ \E frame \in init(From(bytes, discard)) :
                   /\ Stops(frame)
                   /\ \/ /\ frame.state_ = "FRAME_OK"
                         /\ readBuff_' = AfterFrame(readBuff_, discard, frame)
                         /\ frameProcess(From(bytes, discard), frame)
                      \/ /\ readBuff_' = pop(readBuff_, discard)
                         /\ UNCHANGED executed
  BY Zenon DEF Process
<1> HIDE DEF bytes
<1>9. discard \in Nat /\ discard \in 0 .. L /\ discard <= L /\ discard \in 0 .. Len(st)
  BY <1>5, <1>7, <1>1
<1>10. \A i \in 1 .. discard : ~ GoodAt(st, sent, i)
  <2> HIDE DEF st, L
  <2> QED
    BY <1>1, <1>4, <1>5, <1>7, <1>8, <1>9, NoneSkipped
<1>11. ASSUME NEW c, c = pop(readBuff_, discard)
       PROVE  /\ c \in Buffer /\ Written(c)
              /\ Live(c, inq) = SubSeq(st, discard + 1, Len(st))
              /\ length(c) = L - discard \/ (discard = L /\ length(c) = m_size)
  <2>1. c \in Buffer /\ Written(c)
    BY <1>1, <1>9, <1>11, PopLeaves, WrittenPop
  <2> QED
    BY <1>1, <1>5, <1>9, <1>11, <2>1, LiveAfterPop
<1> HIDE DEF st, L
<1>12. ASSUME discard < Len(st) => st[discard + 1].pos = 1
       PROVE  Facts(SubSeq(st, discard + 1, Len(st)), sent, executed)
  BY <1>1, <1>3, <1>9, <1>10, <1>12, FactsCut
<1>13. CASE discard = L /\ readBuff_' = pop(readBuff_, discard) /\ UNCHANGED executed
  <2>1. ASSUME L < Len(st) PROVE st[L + 1].pos = 1
    <3>1. st[L].pos = sent[st[L].msg].size
      <4>1. ASSUME sent[st[L].msg].good PROVE FALSE
        <5>1. PICK h \in 1 .. L : st[h] = [msg |-> st[L].msg, pos |-> 1]
          <6>1. L \in 1 .. Len(st)
            BY <1>4, <1>5, <2>1
          <6> QED
            BY <1>1, <1>4, <6>1, HeadBefore
        <5>2. GoodAt(st, sent, h)
          BY <4>1, <5>1 DEF GoodAt
        <5> QED
          BY <1>10, <1>13, <5>2
      <4> QED
        BY <1>3, <4>1 DEF CutAt
    <3>2. L \in 1 .. Len(st) - 1
      BY <1>4, <1>5, <2>1
    <3> QED
      BY <1>1, <1>4, <3>1, <3>2, HeadAfterEnd
  <2>2. Facts(SubSeq(st, discard + 1, Len(st)), sent, executed)
    BY <1>12, <1>13, <2>1
  <2>3. /\ Live(readBuff_', inq) = SubSeq(st, discard + 1, Len(st))
        /\ length(readBuff_') \in {0, m_size}
    BY <1>5, <1>11, <1>13
  <2> QED
    BY <1>2, <1>3, <1>13, <2>2, <2>3 DEF Held
<1>14. ASSUME discard < L, NEW frame \in init(From(bytes, discard)), Stops(frame)
       PROVE  /\ GoodAt(st, sent, discard + 1) /\ discard + 1 \in 1 .. Len(st)
              /\ discard < Len(st)
              /\ frame.state_ = "FRAME_OK" =>
                   /\ L = Len(st) /\ size(frame.length_) = L - discard
                   /\ Intact(From(bytes, discard), ReadUpTo(frame.length_))
                   /\ From(bytes, discard)[1].msg = st[discard + 1].msg
  <2>1. discard \in 0 .. L - 1 /\ discard + 1 \in 1 .. Len(st) /\ discard < Len(st)
    BY <1>1, <1>5, <1>7, <1>9, <1>14
  <2>2. GoodAt(st, sent, discard + 1)
    BY <1>1, <1>4, <1>5, <1>7, <1>14, <2>1, BadPasses
  <2> QED
    BY <1>1, <1>4, <1>5, <1>7, <1>14, <2>1, <2>2, GoodStops
<1>15. ASSUME discard < L, NEW frame \in init(From(bytes, discard)), Stops(frame),
              readBuff_' = pop(readBuff_, discard), UNCHANGED executed
       PROVE  Held(sent', inq', readBuff_', pc', executed')
  <2>1. GoodAt(st, sent, discard + 1) /\ discard < Len(st)
    BY <1>14, <1>15
  <2>2. Facts(SubSeq(st, discard + 1, Len(st)), sent, executed)
    BY <1>12, <2>1 DEF GoodAt
  <2>3. Live(readBuff_', inq) = SubSeq(st, discard + 1, Len(st))
    BY <1>11, <1>15
  <2>4. SubSeq(st, discard + 1, Len(st))[1] = st[discard + 1]
    <3>1. 1 \in 1 .. Len(st) - discard
      BY <1>4, <1>9, <2>1
    <3> QED
      BY <1>4, <1>9, <3>1, Rest
  <2>5. sent[Live(readBuff_', inq)[1].msg].good
    BY <2>1, <2>3, <2>4 DEF GoodAt
  <2> QED
    BY <1>2, <1>3, <1>15, <2>2, <2>3, <2>5 DEF Held
<1>16. ASSUME discard < L, NEW frame \in init(From(bytes, discard)), Stops(frame),
              frame.state_ = "FRAME_OK",
              readBuff_' = AfterFrame(readBuff_, discard, frame),
              frameProcess(From(bytes, discard), frame)
       PROVE  Held(sent', inq', readBuff_', pc', executed')
  <2>1. /\ GoodAt(st, sent, discard + 1) /\ discard + 1 \in 1 .. Len(st)
        /\ L = Len(st) /\ size(frame.length_) = L - discard
        /\ executed' = Append(executed, st[discard + 1].msg)
    BY <1>14, <1>16 DEF frameProcess
  <2>2. Facts(<<>>, sent, executed')
    BY <1>1, <1>3, <2>1, FactsExecuted
  <2>3. inq = <<>>
    <3>1. Len(inq) = 0
      BY <1>1, <1>5, <1>7, <2>1
    <3> QED
      BY <1>1, <3>1
  <2> DEFINE c == pop(readBuff_, discard)
  <2>4. c \in Buffer /\ Written(c) /\ length(c) = L - discard
    BY <1>9, <1>11, <1>16
  <2> HIDE DEF c
  <2>5. readBuff_' = pop(c, length(c))
    BY <1>16, <2>1, <2>4 DEF AfterFrame, c
  <2>6. length(c) \in Nat /\ length(c) \in 0 .. length(c) /\ length(c) < m_size
    <3>1. length(c) = L - discard
      BY <2>4
    <3> QED
      BY <1>1, <1>5, <1>9, <3>1
  <2>7. /\ Live(readBuff_', inq) = SubSeq(Live(c, inq), length(c) + 1, Len(Live(c, inq)))
        /\ length(readBuff_') = length(c) - length(c) \/ length(readBuff_') = m_size
    BY <1>1, <2>4, <2>5, <2>6, LiveAfterPop
  <2>8. Len(Live(c, inq)) = length(c) /\ Live(c, inq) \in Seq(Byte)
    <3>1. Live(c, inq) \in Seq(Byte) /\ Len(Live(c, inq)) = length(c) + Len(inq)
      BY <1>1, <2>4, <2>6, LiveIs
    <3>2. Len(inq) = 0
      BY <2>3
    <3> QED
      BY <2>6, <3>1, <3>2
  <2>9. Live(readBuff_', inq) = <<>>
    BY <2>6, <2>7, <2>8, DropFirst
  <2>10. length(readBuff_') \in {0, m_size}
    BY <2>6, <2>7
  <2> QED
    BY <1>2, <1>3, <2>2, <2>9, <2>10 DEF Held
<1> QED
  BY <1>7, <1>8, <1>13, <1>15, <1>16

LEMMA LiveInvariance ==
  ASSUME Recognisable, Fitting
  PROVE  Spec => []LiveInv
<1>1. Init => LiveInv
  <2> SUFFICES ASSUME Init PROVE LiveInv
    OBVIOUS
  <2>1. TypedInv
    BY TypedInit
  <2>2. /\ sent = <<>> /\ inq = <<>> /\ readBuff_ = NewBuffer /\ pc = "idle" /\ executed = <<>>
    BY DEF Init
  <2>3. NewBuffer \in Buffer /\ Written(NewBuffer) /\ length(NewBuffer) = 0
    BY SizeAssumption DEF NewBuffer, Buffer, Index, Written, length
  <2>4. Live(NewBuffer, <<>>) = <<>>
    <3>1. <<>> \in Seq(Byte) /\ length(NewBuffer) < m_size /\ Len(<<>>) = 0
      BY <2>3, SizeAssumption
    <3>2. /\ Live(NewBuffer, <<>>) \in Seq(Byte)
          /\ Len(Live(NewBuffer, <<>>)) = length(NewBuffer) + Len(<<>>)
      BY <2>3, <3>1, LiveIs
    <3> QED
      BY <2>3, <3>1, <3>2
  <2>5. Facts(<<>>, <<>>, <<>>)
    BY DEF Facts, Stream, Placed, Ordered, Together, Whole, GoodIsLast, Done, Kept
  <2>6. Held(<<>>, <<>>, NewBuffer, "idle", <<>>)
    BY <2>3, <2>4, <2>5, LimitAssumption DEF Held
  <2> QED
    BY <2>1, <2>2, <2>6 DEF LiveInv
<1>2. LiveInv /\ TypedInv' /\ [Next]_vars => LiveInv'
  <2> SUFFICES ASSUME LiveInv, TypedInv', [Next]_vars
               PROVE  Held(sent', inq', readBuff_', pc', executed')
    BY DEF LiveInv
  <2>1. CASE UNCHANGED vars
    <3>1. /\ sent' = sent /\ inq' = inq /\ readBuff_' = readBuff_ /\ pc' = pc
          /\ executed' = executed
      BY <2>1 DEF vars
    <3>2. Held(sent, inq, readBuff_, pc, executed)
      BY DEF LiveInv
    <3> QED
      BY <3>1, <3>2, Zenon
  <2> QED
    BY <2>1, HeldSend, HeldRead, HeldProcess DEF Next
<1>3. TypedInv' => (LiveInv /\ [Next]_vars => LiveInv')
  BY <1>2
<1>4. FRAME_MAX_LEN <= m_size
  BY SizeAssumption DEF Fitting
<1> QED
  BY <1>1, <1>2, <1>4, TypedInvariance, PTL DEF Spec

\* Every message that is a frame is executed or stands whole in the buffer and on
\* its way, in order and in one piece, although noise and damaged frames come
\* between, reads cut frames where init waits for the rest and the buffer relapses
\* to full when it is emptied: for every set of messages whose damage shows, every size of the buffer
\* that has room for them, and every number of them.
THEOREM NoFrameLost ==
  ASSUME Recognisable, Fitting
  PROVE  Spec => []FramesKept
<1>1. LiveInv => FramesKept
  <2> SUFFICES ASSUME LiveInv, NEW m \in 1 .. Len(sent), sent[m].good, ~ WasExecuted(m)
               PROVE  Unhandled(m)
    BY DEF FramesKept
  <2> DEFINE st == Live(readBuff_, inq)
             pre == IF length(readBuff_) = m_size THEN Readable(readBuff_) ELSE <<>>
             bytes == BytesOf(m, sent[m])
             stream == peek(readBuff_, m_size) \o inq
  <2>1. /\ sent \in Seq(Shapes) /\ inq \in Seq(Byte) /\ readBuff_ \in Buffer
        /\ Written(readBuff_) /\ Len(sent) <= MaxSent /\ Readable(readBuff_) \in Seq(Byte)
    BY ReadableTyped DEF LiveInv, TypedInv, TypeOK
  <2>2. Facts(st, sent, executed)
    BY DEF LiveInv, Held
  <2>3. Stream(st, sent) /\ st \in Seq(Byte)
    BY <2>2 DEF Facts, Stream
  <2>4. PICK i \in 1 .. Len(st) : st[i] = [msg |-> m, pos |-> 1]
    BY <2>2 DEF Facts, Kept, WasExecuted
  <2>5. PICK s \in Shapes, z \in Nat : s = sent[m] /\ z = s.size /\ z >= 1
    BY <2>1, ShapeFields
  <2>6. PICK w \in Nat : w = Len(st) /\ i \in 1 .. w
    BY <2>3
  <2>7. /\ w = i + z - 1
        /\ \A j \in 1 .. w : i <= j => st[j] = [msg |-> m, pos |-> j - i + 1]
    <3>1. GoodAt(st, sent, i) /\ st[i].msg = m
      BY <2>4 DEF GoodAt
    <3>2. /\ st[i].msg = Len(sent)
          /\ Len(st) = i + sent[Len(sent)].size - 1
          /\ \A j \in 1 .. Len(st) : i <= j => st[j] = [msg |-> Len(sent), pos |-> j - i + 1]
      BY <2>1, <2>3, <3>1, GoodTail
    <3>3. m = Len(sent)
      BY <3>1, <3>2
    <3> QED
      BY <2>5, <2>6, <3>2, <3>3
  <2>8. /\ bytes \in Seq(Byte) /\ Len(bytes) = z
        /\ \A p \in 1 .. z : bytes[p] = [msg |-> m, pos |-> p]
    <3>1. m \in 1 .. MaxSent
      BY <2>1, LimitAssumption
    <3> QED
      BY <2>5, <3>1, BytesOfIs
  <2>9. pre \in Seq(Byte) /\ Len(pre) \in Nat
    BY <2>1
  <2>10. stream = pre \o st
    <3>1. <<>> \o (Readable(readBuff_) \o inq) = Readable(readBuff_) \o inq
      <4> DEFINE r == Readable(readBuff_)
      <4>1. r \in Seq(Byte)
        BY <2>1
      <4> HIDE DEF r
      <4>2. r \o inq \in Seq(Byte)
        BY <2>1, <4>1
      <4>3. <<>> \o (r \o inq) = r \o inq
        BY <4>2, ConcatEmptySeq
      <4> QED
        BY <4>3 DEF r
    <3>2. CASE length(readBuff_) = m_size
      BY <3>2 DEF Live, Readable
    <3>3. CASE length(readBuff_) # m_size
      BY <3>1, <3>3 DEF Live, Readable
    <3> QED
      BY <3>2, <3>3
  <2> SUFFICES \E k \in 1 .. Len(stream) :
                 /\ stream[k] = bytes[1]
                 /\ SubSeq(stream, k, Lesser(Len(stream), k + Len(bytes) - 1)) = bytes
    BY DEF Unhandled
  <2> HIDE DEF st, pre, bytes, stream
  <2>11. PICK v \in Nat : v = Len(pre)
    BY <2>9
  <2>12. /\ stream \in Seq(Byte) /\ Len(stream) = v + w
         /\ \A j \in 1 .. w : stream[v + j] = st[j]
    BY <2>3, <2>6, <2>9, <2>10, <2>11, Joined, ConcatProperties
  <2>13. ASSUME NEW p \in 1 .. z PROVE stream[v + i + p - 1] = bytes[p]
    <3>1. /\ i + p - 1 \in 1 .. w /\ i <= i + p - 1 /\ (i + p - 1) - i + 1 = p
          /\ v + (i + p - 1) = v + i + p - 1
      BY <2>6, <2>7
    <3>2. st[i + p - 1] = [msg |-> m, pos |-> (i + p - 1) - i + 1]
      BY <2>7, <3>1, Zenon
    <3>3. stream[v + (i + p - 1)] = st[i + p - 1]
      BY <2>12, <3>1, Zenon
    <3> QED
      BY <2>8, <3>1, <3>2, <3>3, Zenon
  <2>14. PICK k \in 1 .. v + w : k = v + i
    BY <2>6
  <2>15. Lesser(Len(stream), k + Len(bytes) - 1) = v + w /\ v + w = k + z - 1
    BY <2>6, <2>7, <2>8, <2>12, <2>14 DEF Lesser
  <2>16. /\ SubSeq(stream, k, v + w) \in Seq(Byte)
         /\ Len(SubSeq(stream, k, v + w)) = z
         /\ \A p \in 1 .. z : SubSeq(stream, k, v + w)[p] = stream[k + p - 1]
    <3>1. v + w = Len(stream) /\ stream \in Seq(Byte)
      BY <2>12, Zenon
    <3>2. k \in 1 .. Len(stream) /\ Len(stream) = k + z - 1
      BY <2>15, <3>1
    <3>3. /\ SubSeq(stream, k, Len(stream)) \in Seq(Byte)
          /\ Len(SubSeq(stream, k, Len(stream))) = z
          /\ \A p \in 1 .. z : SubSeq(stream, k, Len(stream))[p] = stream[k + p - 1]
      BY <3>1, <3>2, LastPart, Zenon
    <3> QED
      BY <3>1, <3>3, Zenon
  <2>17. \A p \in 1 .. z : SubSeq(stream, k, v + w)[p] = bytes[p]
    BY <2>13, <2>14, <2>16
  <2>18. SubSeq(stream, k, v + w) = bytes
    <3>1. Len(SubSeq(stream, k, v + w)) = Len(bytes)
      BY <2>8, <2>16, Zenon
    <3> QED
      BY <2>8, <2>16, <2>17, <3>1, SameBytes
  <2>19. stream[k] = bytes[1]
    <3>1. 1 \in 1 .. z /\ v + i + 1 - 1 = k
      BY <2>5, <2>6, <2>14
    <3> QED
      BY <2>13, <3>1
  <2> QED
    BY <2>12, <2>14, <2>15, <2>18, <2>19
<1> QED
  BY <1>1, LiveInvariance, PTL

\* Only frames that were sent and arrived whole are executed, each once and in
\* the order they were sent, also when the buffer relapses to full and the bytes
\* of frames already executed are readable again.
THEOREM ExecutedOnceInOrder ==
  ASSUME Recognisable, Fitting
  PROVE  Spec => []ExecutedOnce
<1>1. LiveInv => ExecutedOnce
  <2> SUFFICES ASSUME LiveInv PROVE ExecutedOnce
    OBVIOUS
  <2>1. /\ \A k \in 1 .. Len(executed) : executed[k] \in 1 .. Len(sent) /\ sent[executed[k]].good
        /\ \A k, l \in 1 .. Len(executed) : k < l => executed[k] < executed[l]
    BY DEF LiveInv, Held, Facts, Done
  <2> QED
    BY <2>1 DEF ExecutedOnce
<1> QED
  BY <1>1, LiveInvariance, PTL
=============================================================================
