------------------------------- MODULE Receive -------------------------------
(***************************************************************************)
(* The receive path of one connection, byte by byte: AppConn::read_,       *)
(* process and getFrameFromBuffer (code/app/appconn.cpp) over Frame::init  *)
(* (code/app/Frame.h).  SocketServer takes whole frames as its unit; here  *)
(* a frame arrives in pieces, behind noise, or damaged.                    *)
(*                                                                         *)
(* A byte is named by the message it belongs to and its position there.    *)
(* What init computes from the bytes depends on three facts of a message:  *)
(* the length field it shows, its real size, and whether its checksum      *)
(* fits.  init also looks at bytes behind those received: `bytes` in       *)
(* process is an uninitialised array, so what they show is left open.      *)
(***************************************************************************)
EXTENDS CBuffer

CONSTANTS
  Shapes,            \* the messages a client may send
  MaxSent,           \* how many it sends
  Room,              \* bytes it lets be under way at a time
  Cuts,              \* where reads may cut the stream: see CutAllowed
  FRAME_MAX_LEN,     \* 256 in the program
  FRAME_BEFORE_NUM,  \* 5: 'S' and four digits of length
  FRAME_CTRL_NUM,    \* 4: host, client, type, command
  FRAME_SUM_LEN      \* 3: digits of the checksum

\* head: it begins with 'S'.  length: what its length field shows.  good: it is
\* a frame, with a fitting checksum.
Shape == [head : BOOLEAN, length : Nat, size : Nat \ {0}, good : BOOLEAN]

\* What Frame::size says of a frame whose length field shows n: the checksum
\* and a newline follow the n bytes it counts.
size(n) == n + FRAME_BEFORE_NUM + FRAME_CTRL_NUM

ASSUME FrameLayout ==
  /\ FRAME_MAX_LEN \in Nat /\ FRAME_BEFORE_NUM \in Nat \ {0}
  /\ FRAME_CTRL_NUM \in Nat /\ FRAME_SUM_LEN \in Nat
  /\ FRAME_SUM_LEN < FRAME_CTRL_NUM
ASSUME ShapeAssumption ==
  /\ Shapes \subseteq Shape
  /\ \A s \in Shapes : s.good => s.head /\ s.length <= FRAME_MAX_LEN /\ s.size = size(s.length)
ASSUME LimitAssumption ==
  /\ MaxSent \in Nat /\ Room \in Nat
  /\ Cuts \in {"between", "waited", "any"}
ASSUME ByteAssumption ==
  /\ Byte \subseteq [msg : 1 .. MaxSent, pos : Nat]
  /\ \A m \in 1 .. MaxSent : \A s \in Shapes : \A p \in 1 .. s.size : [msg |-> m, pos |-> p] \in Byte

VARIABLES
  sent,       \* the messages sent so far
  inq,        \* their bytes that were not read yet
  readBuff_,
  pc,         \* "idle" or "process"
  executed    \* messages executed, in order; 0 for one that never arrived whole

vars == <<sent, inq, readBuff_, pc, executed>>

Init == sent = <<>> /\ inq = <<>> /\ readBuff_ = NewBuffer /\ pc = "idle" /\ executed = <<>>

BytesOf(m, s) == [p \in 1 .. s.size |-> [msg |-> m, pos |-> p]]
WasExecuted(m) == \E i \in 1 .. Len(executed) : executed[i] = m

\* The client waits for the answer to its last frame; what is no frame is not
\* answered, and it does not wait for it.
Send(s) ==
  /\ Len(sent) < MaxSent
  /\ \A m \in 1 .. Len(sent) : sent[m].good => WasExecuted(m)
  /\ Len(inq) + s.size <= Room
  /\ sent' = Append(sent, s)
  /\ inq' = inq \o BytesOf(Len(sent) + 1, s)
  /\ UNCHANGED <<readBuff_, pc, executed>>

\* A read may end after the n-th byte that is under way: anywhere; between
\* messages only; or also where init sees that more has to come.
CutAllowed(n) ==
  LET b == inq[n]
      s == sent[b.msg]
  IN  \/ Cuts = "any"
      \/ b.pos = s.size
      \/ Cuts = "waited" /\ s.good /\ FRAME_BEFORE_NUM <= b.pos /\ b.pos < s.length

\* read_: one read() per event, as its loop ends on the EAGAIN that the accept
\* loop left in errno (SocketServer has the other case).
Read ==
  /\ pc = "idle"
  /\ \E n \in 1 .. Lesser(Len(inq), FRAME_MAX_LEN) :
       /\ CutAllowed(n) \/ n = FRAME_MAX_LEN
       /\ readBuff_' = append(readBuff_, SubSeq(inq, 1, n))
       /\ inq' = SubSeq(inq, n + 1, Len(inq))
  /\ pc' = "process"
  /\ UNCHANGED <<sent, executed>>
-----------------------------------------------------------------------------
(* Frame::init on the bytes from some position on.                         *)

\* The first n bytes are there and are the first n bytes of one message.
Intact(rest, n) ==
  n <= Len(rest) /\ \A i \in 1 .. n : rest[i] = [msg |-> rest[1].msg, pos |-> i]

IsHead(b) == b.pos = 1 /\ sent[b.msg].head

\* length_: a field that is not complete, or made of several messages, may
\* show anything.
LengthField(rest) ==
  IF Intact(rest, FRAME_BEFORE_NUM) THEN {sent[rest[1].msg].length}
                                    ELSE 0 .. FRAME_MAX_LEN + 1

\* Up to which byte init reads a frame that shows length n.
ReadUpTo(n) == FRAME_BEFORE_NUM + n + FRAME_SUM_LEN

\* The checksum of a good frame fits and that of other received bytes does not;
\* with bytes that were not received it may.
Checksum(rest, n) ==
  IF Intact(rest, ReadUpTo(n)) /\ sent[rest[1].msg].good THEN {"FRAME_OK"}
  ELSE IF ReadUpTo(n) <= Len(rest) THEN {"FRAME_CHECK_ERROR"}
  ELSE {"FRAME_OK", "FRAME_CHECK_ERROR"}

\* What init may make of the bytes: its state_ and length_.
init(rest) ==
  IF ~ IsHead(rest[1]) THEN {[state_ |-> "FRAME_HEAD_ERROR", length_ |-> 0]}
  ELSE UNION {
    IF n > FRAME_MAX_LEN THEN {[state_ |-> "FRAME_LENGTH_ERROR", length_ |-> n]}
    ELSE IF n > Len(rest) THEN {[state_ |-> "FRAME_WAIT", length_ |-> n]}
    ELSE {[state_ |-> st, length_ |-> n] : st \in Checksum(rest, n)}
    : n \in LengthField(rest)}
-----------------------------------------------------------------------------
(* AppConn::process.                                                       *)

\* Mutant: a frame that is not complete is skipped like noise.
Stops_NoWait(frame) == frame.state_ = "FRAME_OK"

\* Mutant: a length out of range waits for more.
Stops_OnLength(frame) == frame.state_ \in {"FRAME_OK", "FRAME_WAIT", "FRAME_LENGTH_ERROR"}

\* When getFrameFromBuffer stops looking further.
Stops(frame) == frame.state_ \in {"FRAME_OK", "FRAME_WAIT"}

From(bytes, discard) == SubSeq(bytes, discard + 1, Len(bytes))

\* getFrameFromBuffer skips `discard` bytes none of which begins a frame.
Skipped(bytes, discard) ==
  \A d \in 0 .. discard - 1 :
    IsHead(bytes[d + 1]) => \E frame \in init(From(bytes, d)) : ~ Stops(frame)

\* Mutant: the frame stays in the buffer.
AfterFrame_Kept(b, discard, frame) == pop(b, discard)

\* The noise is popped, then as many bytes as the frame says it has.
AfterFrame(b, discard, frame) == pop(pop(b, discard), size(frame.length_))

\* frameProcess, as far as it matters here.
frameProcess(rest, frame) ==
  executed' = Append(executed, IF Intact(rest, ReadUpTo(frame.length_)) THEN rest[1].msg ELSE 0)

Process ==
  /\ pc = "process"
  /\ LET bytes == peek(readBuff_, FRAME_MAX_LEN)
     IN  \E discard \in 0 .. Len(bytes) :
           /\ \/ /\ discard = Len(bytes)
                 /\ Skipped(bytes, discard)
                 /\ readBuff_' = pop(readBuff_, discard)
                 /\ UNCHANGED executed
              \/ /\ discard < Len(bytes) /\ IsHead(bytes[discard + 1])
                 /\ Skipped(bytes, discard)
                 /\ \E frame \in init(From(bytes, discard)) :
                      /\ Stops(frame)
                      /\ IF frame.state_ = "FRAME_OK"
                         THEN /\ readBuff_' = AfterFrame(readBuff_, discard, frame)
                              /\ frameProcess(From(bytes, discard), frame)
                         ELSE /\ readBuff_' = pop(readBuff_, discard)
                              /\ UNCHANGED executed
  /\ pc' = "idle"
  /\ UNCHANGED <<sent, inq>>

Next == Read \/ Process \/ \E s \in Shapes : Send(s)

Spec == Init /\ [][Next]_vars

\* The server's thread goes on; nothing is assumed of the client.
FairSpec == Spec /\ WF_vars(Read \/ Process)
-----------------------------------------------------------------------------
TypeOK ==
  /\ sent \in Seq(Shapes) /\ Len(sent) <= MaxSent
  /\ inq \in Seq(Byte)
  /\ readBuff_ \in Buffer
  /\ pc \in {"idle", "process"}
  /\ executed \in Seq(0 .. MaxSent)

\* The bytes of message m lie together in the buffer or on their way.
Unhandled(m) ==
  LET stream == peek(readBuff_, m_size) \o inq
      bytes  == BytesOf(m, sent[m])
  IN  \E i \in 1 .. Len(stream) :
        stream[i] = bytes[1] /\ SubSeq(stream, i, Lesser(Len(stream), i + Len(bytes) - 1)) = bytes

\* A frame that was sent has been executed or can still be: neither noise, nor a
\* damaged frame, nor a cut, nor the buffer's end takes part of it away.
FramesKept ==
  \A m \in 1 .. Len(sent) : sent[m].good => WasExecuted(m) \/ Unhandled(m)

\* What is executed is a frame that was sent and arrived whole, and it is
\* executed once and in order, also when the buffer's length relapses and bytes
\* of old frames are readable again.
ExecutedOnce ==
  /\ \A i \in 1 .. Len(executed) : executed[i] # 0 /\ sent[executed[i]].good
  /\ \A i, j \in 1 .. Len(executed) : i < j => executed[i] < executed[j]

\* A client that waits for its answer is served, although noise and damaged
\* frames came before its frame, in pieces, and all of it goes over the buffer's
\* end.  It takes damage that leaves the length field alone (a damaged one may
\* make init wait for what nobody sends) and cuts that init can notice.
FrameExecuted ==
  \A m \in 1 .. MaxSent : (m <= Len(sent) /\ sent[m].good) ~> WasExecuted(m)
=============================================================================
