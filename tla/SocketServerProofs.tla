------------------------- MODULE SocketServerProofs -------------------------
(***************************************************************************)
(* The reactor keeps its connections watched and its events fresh, for any *)
(* number of clients, descriptors and requests and any size of buffer,     *)
(* drains what it has written before it waits again, executes no request   *)
(* twice or before an earlier one of its client, and sends its clients no  *)
(* reply that is not of their own descriptor.  Clients that wait for each  *)
(* answer get exactly their own, and it is to them a RequestService, but   *)
(* on descriptors whose writeBuff_ has relapsed.                           *)
(*                                                                         *)
(* The inductive invariant adds to the properties what the thread knows at *)
(* each point: Current (the descriptor being handled, and where a batch    *)
(* can be non-empty), Writing (how much write_ still has to pop), and that *)
(* what is readable in a readBuff_ has been written, so that a frame taken *)
(* from it is one.                                                         *)
(***************************************************************************)
EXTENDS SocketServer, CBufferLemmas

ReadBuffersWritten == \A fd \in FDs : Written(readBuff_[fd])

Current ==
  /\ pc \in {"read", "process"} => cur \in FDs /\ \A e \in batch : e.fd # cur
  /\ pc \in {"wait", "write", "killed"} => batch = {}

Writing == pc = "write" /\ cur # listenFd_ => sum <= length(writeBuff_[cur])

Inv == TypeOK /\ Rearmed /\ BatchFresh /\ Current /\ ReadBuffersWritten /\ Writing

USE DEF kernelVars, clientVars, loopVars, connVars, historyVars

-----------------------------------------------------------------------------
(* The buffers at the start.                                               *)

LEMMA NewBufferTyped == NewBuffer \in Buffer /\ Written(NewBuffer)
BY SizeAssumption DEF NewBuffer, Buffer, Index, Written

LEMMA InitInv == Init => Inv
<1> SUFFICES ASSUME Init PROVE Inv
  OBVIOUS
<1>1. TypeOK
  <2>1. /\ inq \in [Clients -> Seq(Byte)]
        /\ got \in [Clients -> Seq(Byte \cup {Uninit})]
        /\ executed \in [Clients -> Seq(1 .. MaxReq)]
        /\ backlog \in Seq(Clients)
    BY DEF Init
  <2>2. nsent \in [Clients -> 0 .. MaxReq]
    BY BoundAssumption DEF Init
  <2>3. readBuff_ \in [FDs -> Buffer] /\ writeBuff_ \in [FDs -> Buffer]
    BY NewBufferTyped DEF Init
  <2>4. /\ peer \in [Clients -> PeerState]
        /\ skerr \in [Clients -> {"none", "ECONNRESET", "EPIPE"}]
        /\ owner \in [FDs -> Clients \cup {NoClient}]
        /\ interest \in [FDs -> {"none", "armed", "disarmed"}]
    BY DEF Init, PeerState
  <2>5. isClose_ \in [FDs -> BOOLEAN] /\ edge \in BOOLEAN
    BY DEF Init
  <2>6. /\ pc \in {"wait", "dispatch", "accept", "read", "process", "write", "killed"}
        /\ batch \subseteq Event
        /\ cur \in FDs \cup {listenFd_}
        /\ sum \in Nat
        /\ todo \subseteq FDs
        /\ errno \in {"EAGAIN", "other"}
        /\ fdSet_ \subseteq FDs
        /\ userCount \in Int
        /\ foreign \subseteq Byte
        /\ home \in [Clients -> FDs \cup {listenFd_}]
        /\ relapsed \subseteq FDs
    BY DEF Init
  <2> QED
    BY <2>1, <2>2, <2>3, <2>4, <2>5, <2>6 DEF TypeOK
<1>2. Rearmed
  BY DEF Init, Rearmed
<1>3. BatchFresh /\ Current /\ Writing
  BY DEF Init, BatchFresh, Current, Writing
<1>4. ReadBuffersWritten
  BY NewBufferTyped DEF Init, ReadBuffersWritten
<1> QED
  BY <1>1, <1>2, <1>3, <1>4 DEF Inv

-----------------------------------------------------------------------------
(* The clients and the network.                                            *)

LEMMA ConnectInv == ASSUME Inv, NEW c \in Clients, Connect(c) PROVE Inv'
<1>1. TypeOK'
  BY DEF Inv, Connect, TypeOK, PeerState
<1>2. Rearmed' /\ BatchFresh' /\ Current' /\ Writing' /\ ReadBuffersWritten'
  BY DEF Inv, Connect, Rearmed, BatchFresh, Current, Writing, ReadBuffersWritten
<1> QED
  BY <1>1, <1>2 DEF Inv

LEMMA SendInv == ASSUME Inv, NEW c \in Clients, Send(c) PROVE Inv'
<1>1. TypeOK'
  <2>1. PICK k \in Kinds :
          inq' = [inq EXCEPT ![c] = Append(@, [conn |-> c, n |-> nsent[c] + 1, kind |-> k])]
    BY DEF Send
  <2>2. nsent[c] + 1 \in 1 .. MaxReq
    BY BoundAssumption DEF Inv, Send, TypeOK
  <2>3. [conn |-> c, n |-> nsent[c] + 1, kind |-> k] \in Byte
    BY <2>2, FrameAssumption
  <2>4. inq' \in [Clients -> Seq(Byte)]
    BY <2>1, <2>3 DEF Inv, TypeOK
  <2>5. nsent' \in [Clients -> 0 .. MaxReq]
    BY <2>2 DEF Inv, Send, TypeOK
  <2> QED
    BY <2>4, <2>5 DEF Inv, Send, TypeOK
<1>2. Rearmed' /\ BatchFresh' /\ Current' /\ Writing' /\ ReadBuffersWritten'
  BY DEF Inv, Send, Rearmed, BatchFresh, Current, Writing, ReadBuffersWritten
<1> QED
  BY <1>1, <1>2 DEF Inv

LEMMA ShutdownInv == ASSUME Inv, NEW c \in Clients, Shutdown(c) PROVE Inv'
<1>1. TypeOK'
  BY DEF Inv, Shutdown, TypeOK, PeerState
<1>2. Rearmed' /\ BatchFresh' /\ Current' /\ Writing' /\ ReadBuffersWritten'
  BY DEF Inv, Shutdown, Rearmed, BatchFresh, Current, Writing, ReadBuffersWritten
<1> QED
  BY <1>1, <1>2 DEF Inv

LEMMA AbortInv == ASSUME Inv, NEW c \in Clients, Abort(c) PROVE Inv'
<1>1. TypeOK'
  BY DEF Inv, Abort, TypeOK, PeerState
<1>2. Rearmed' /\ BatchFresh' /\ Current' /\ Writing' /\ ReadBuffersWritten'
  BY DEF Inv, Abort, Rearmed, BatchFresh, Current, Writing, ReadBuffersWritten
<1> QED
  BY <1>1, <1>2 DEF Inv

-----------------------------------------------------------------------------
(* The event loop.                                                         *)

\* What a batch holds: at most one listening event, and one event for each
\* ready descriptor.
LEMMA BatchOfWait ==
  ASSUME EpollWait
  PROVE  /\ \A e \in batch' :
              \/ e = [fd |-> listenFd_, hup |-> FALSE, conn |-> NoClient]
              \/ /\ e.fd \in Ready
                 /\ e = [fd |-> e.fd, hup |-> HungUp(owner[e.fd]), conn |-> owner[e.fd]]
         /\ \A fd \in Ready : \E e \in batch' : e.fd = fd
<1> DEFINE event(fd) == [fd |-> fd, hup |-> HungUp(owner[fd]), conn |-> owner[fd]]
           listen    == [fd |-> listenFd_, hup |-> FALSE, conn |-> NoClient]
<1>1. \/ batch' = {event(fd) : fd \in Ready}
      \/ batch' = {event(fd) : fd \in Ready} \cup {listen}
  BY DEF EpollWait
<1>2. \A fd \in Ready : event(fd).fd = fd
  OBVIOUS
<1> HIDE DEF event
<1>3. \A e \in batch' : e = listen \/ \E fd \in Ready : e = event(fd)
  BY <1>1
<1>4. \A fd \in Ready : event(fd) \in batch'
  BY <1>1
<1>5. \A e \in batch' : e = listen \/ (e.fd \in Ready /\ e = event(e.fd))
  BY <1>2, <1>3
<1> QED
  BY <1>2, <1>4, <1>5 DEF event

LEMMA EpollWaitInv == ASSUME Inv, EpollWait PROVE Inv'
<1>1. /\ \A fd \in Ready : fd \in FDs /\ interest[fd] = "armed" /\ owner[fd] \in Clients
      /\ listenFd_ \notin FDs
  BY FDAssumption DEF Inv, TypeOK, Rearmed, Ready
<1>2. \A e \in batch' :
        \/ e.fd = listenFd_
        \/ e.fd \in Ready /\ e.conn = owner[e.fd]
  BY BatchOfWait
<1>3. \A e, f \in batch' : e.fd = f.fd => e = f
  <2> DEFINE event(fd) == [fd |-> fd, hup |-> HungUp(owner[fd]), conn |-> owner[fd]]
             listen    == [fd |-> listenFd_, hup |-> FALSE, conn |-> NoClient]
  <2>1. listen.fd = listenFd_
    OBVIOUS
  <2>2. \A e \in batch' : e = listen \/ (e.fd \in Ready /\ e = event(e.fd))
    BY BatchOfWait
  <2> HIDE DEF event, listen
  <2> QED
    BY <1>1, <2>1, <2>2
<1>4. \A fd \in FDs : (\E e \in batch' : e.fd = fd) <=> fd \in Ready
  BY BatchOfWait, <1>1, <1>2
<1>5. ASSUME NEW e \in batch' PROVE e \in Event
  <2>1. \A c : HungUp(c) \in BOOLEAN
    BY DEF HungUp
  <2>2. CASE e = [fd |-> listenFd_, hup |-> FALSE, conn |-> NoClient]
    BY <2>2 DEF Event
  <2>3. CASE /\ e.fd \in Ready
             /\ e = [fd |-> e.fd, hup |-> HungUp(owner[e.fd]), conn |-> owner[e.fd]]
    BY <1>1, <2>1, <2>3 DEF Event
  <2> QED
    BY <2>2, <2>3, BatchOfWait
<1>6. interest' = [fd \in FDs |-> IF fd \in Ready THEN "disarmed" ELSE interest[fd]]
  BY DEF EpollWait
<1>7. TypeOK'
  <2>1. batch' \subseteq Event
    BY <1>5
  <2>2. interest' \in [FDs -> {"none", "armed", "disarmed"}]
    BY <1>6 DEF Inv, TypeOK
  <2> QED
    BY <2>1, <2>2 DEF Inv, EpollWait, TypeOK
<1>8. Rearmed'
  <2>1. \A fd \in FDs : interest[fd] # "disarmed"
    BY DEF Inv, EpollWait, Rearmed, Current
  <2>2. pc' = "dispatch" /\ UNCHANGED <<owner, fdSet_, isClose_>>
    BY DEF EpollWait
  <2> QED
    BY <1>1, <1>4, <1>6, <2>1, <2>2 DEF Inv, Rearmed
<1>9. BatchFresh'
  <2>1. UNCHANGED owner
    BY DEF EpollWait
  <2> QED
    BY <1>1, <1>2, <1>3, <2>1, ClientAssumption DEF BatchFresh
<1>10. Current' /\ Writing' /\ ReadBuffersWritten'
  BY DEF Inv, EpollWait, Current, Writing, ReadBuffersWritten
<1> QED
  BY <1>7, <1>8, <1>9, <1>10 DEF Inv

LEMMA DispatchListenInv == ASSUME Inv, DispatchListen PROVE Inv'
<1>1. PICK e \in batch : e.fd = listenFd_ /\ batch' = batch \ {e}
  BY DEF DispatchListen, Taken
<1>2. TypeOK'
  <2>1. batch' \subseteq Event
    BY <1>1 DEF Inv, TypeOK
  <2> QED
    BY <2>1 DEF Inv, DispatchListen, TypeOK
<1>3. Rearmed'
  <2>1. \A fd \in FDs : (\E f \in batch' : f.fd = fd) <=> (\E f \in batch : f.fd = fd)
    BY <1>1, FDAssumption
  <2> QED
    BY <2>1 DEF Inv, DispatchListen, Rearmed
<1>4. BatchFresh' /\ Current' /\ Writing' /\ ReadBuffersWritten'
  BY <1>1 DEF Inv, DispatchListen, BatchFresh, Current, Writing, ReadBuffersWritten
<1> QED
  BY <1>2, <1>3, <1>4 DEF Inv

LEMMA CloseConnTyped ==
  ASSUME TypeOK, NEW fd \in FDs, CloseConn_(fd)
  PROVE  /\ fdSet_' \subseteq FDs
         /\ interest' \in [FDs -> {"none", "armed", "disarmed"}]
         /\ isClose_' \in [FDs -> BOOLEAN]
         /\ owner' \in [FDs -> Clients \cup {NoClient}]
         /\ inq' \in [Clients -> Seq(Byte)]
         /\ userCount' \in Int
<1>1. fdSet_' \subseteq FDs /\ userCount' \in Int
  BY DEF TypeOK, CloseConn_
<1>2. isClose_' \in [FDs -> BOOLEAN]
  BY DEF TypeOK, CloseConn_
<1>3. /\ interest' \in [FDs -> {"none", "armed", "disarmed"}]
      /\ owner' \in [FDs -> Clients \cup {NoClient}]
  BY DEF TypeOK, CloseConn_
<1>4. inq' \in [Clients -> Seq(Byte)]
  <2>1. <<>> \in Seq(Byte)
    OBVIOUS
  <2> QED
    BY <2>1 DEF TypeOK, CloseConn_
<1> QED
  BY <1>1, <1>2, <1>3, <1>4

\* What closing leaves of Rearmed: the closed descriptor is out of everything.
LEMMA CloseConnRearmed ==
  ASSUME TypeOK, NEW fd \in FDs, CloseConn_(fd), NEW g \in FDs
  PROVE  /\ g = fd => /\ g \notin fdSet_' /\ owner'[g] = NoClient
                      /\ isClose_'[g] /\ interest'[g] = "none"
         /\ g # fd => /\ g \in fdSet_' <=> g \in fdSet_
                      /\ owner'[g] = owner[g]
                      /\ isClose_'[g] = isClose_[g]
                      /\ interest'[g] = interest[g]
BY DEF TypeOK, CloseConn_

LEMMA DispatchCloseInv == ASSUME Inv, DispatchClose PROVE Inv'
<1>1. PICK e \in batch : /\ e.fd # listenFd_
                         /\ batch' = batch \ {e}
                         /\ CloseConn_(e.fd)
  BY DEF DispatchClose, Taken
<1>2. e.fd \in FDs
  BY <1>1 DEF Inv, TypeOK, Event
<1>3. \A f \in batch' : f \in batch /\ f.fd # e.fd
  BY <1>1 DEF Inv, BatchFresh
<1>4. \A g \in FDs : g # e.fd =>
        ((\E f \in batch' : f.fd = g) <=> (\E f \in batch : f.fd = g))
  BY <1>1
<1>5. pc = "dispatch" /\ UNCHANGED <<pc, cur, readBuff_, writeBuff_>>
  BY DEF DispatchClose
<1>6. TypeOK'
  <2>1. batch' \subseteq Event
    BY <1>1 DEF Inv, TypeOK
  <2> QED
    BY <1>1, <1>2, <2>1, CloseConnTyped DEF Inv, DispatchClose, TypeOK
<1>7. Rearmed'
  BY <1>1, <1>2, <1>3, <1>4, <1>5, CloseConnRearmed DEF Inv, Rearmed
<1>8. BatchFresh'
  <2>1. \A f \in batch' : f.fd # listenFd_ => owner'[f.fd] = owner[f.fd]
    BY <1>1, <1>2, <1>3, CloseConnRearmed DEF Inv, TypeOK, Event
  <2> QED
    BY <1>3, <2>1 DEF Inv, BatchFresh
<1>9. Current' /\ Writing' /\ ReadBuffersWritten'
  BY <1>3, <1>5 DEF Inv, Current, Writing, ReadBuffersWritten
<1> QED
  BY <1>6, <1>7, <1>8, <1>9 DEF Inv

LEMMA DispatchReadInv == ASSUME Inv, DispatchRead PROVE Inv'
<1>1. PICK e \in batch : e.fd # listenFd_ /\ batch' = batch \ {e} /\ cur' = e.fd
  BY DEF DispatchRead, Taken
<1>2. e.fd \in FDs
  BY <1>1 DEF Inv, TypeOK, Event
<1>3. \A f \in batch' : f \in batch /\ f.fd # e.fd
  BY <1>1 DEF Inv, BatchFresh
<1>4. \A g \in FDs : g # e.fd =>
        ((\E f \in batch' : f.fd = g) <=> (\E f \in batch : f.fd = g))
  BY <1>1
<1>5. /\ pc = "dispatch" /\ pc' = "read" /\ sum' = 0
      /\ UNCHANGED <<kernelVars, clientVars, todo, errno, connVars, historyVars>>
  BY DEF DispatchRead
<1>6. TypeOK'
  BY <1>1, <1>2, <1>5 DEF Inv, TypeOK
<1>7. Rearmed'
  BY <1>1, <1>2, <1>3, <1>4, <1>5 DEF Inv, Rearmed
<1>8. BatchFresh' /\ Current' /\ Writing' /\ ReadBuffersWritten'
  BY <1>1, <1>2, <1>3, <1>5 DEF Inv, BatchFresh, Current, Writing, ReadBuffersWritten
<1> QED
  BY <1>6, <1>7, <1>8 DEF Inv

LEMMA EndDispatchInv == ASSUME Inv, EndDispatch PROVE Inv'
<1>1. TypeOK'
  BY DEF Inv, EndDispatch, TypeOK
<1>2. Rearmed' /\ BatchFresh' /\ Current' /\ Writing' /\ ReadBuffersWritten'
  BY DEF Inv, EndDispatch, Rearmed, BatchFresh, Current, Writing, ReadBuffersWritten
<1> QED
  BY <1>1, <1>2 DEF Inv

-----------------------------------------------------------------------------
(* Accepting.                                                              *)

LEMMA AcceptFailsInv == ASSUME Inv, AcceptFails PROVE Inv'
<1>1. TypeOK'
  BY DEF Inv, AcceptFails, TypeOK
<1>2. Rearmed' /\ BatchFresh' /\ Current' /\ Writing' /\ ReadBuffersWritten'
  BY DEF Inv, AcceptFails, Rearmed, BatchFresh, Current, Writing, ReadBuffersWritten
<1> QED
  BY <1>1, <1>2 DEF Inv

LEMMA AcceptInv == ASSUME Inv, Accept PROVE Inv'
<1>1. PICK fd \in FDs :
        /\ Free(fd)
        /\ \/ /\ peer' = [peer EXCEPT ![Head(backlog)] = "refused"]
              /\ UNCHANGED <<owner, interest, fdSet_, isClose_, home>>
           \/ /\ owner' = [owner EXCEPT ![fd] = Head(backlog)]
              /\ interest' = [interest EXCEPT ![fd] = "armed"]
              /\ fdSet_' = fdSet_ \cup {fd}
              /\ isClose_' = [isClose_ EXCEPT ![fd] = FALSE]
              /\ home' = [home EXCEPT ![Head(backlog)] = fd]
              /\ UNCHANGED peer
  BY DEF Accept
<1>2. /\ pc = "accept" /\ pc' = "accept" /\ backlog # <<>> /\ backlog' = Tail(backlog)
      /\ UNCHANGED <<skerr, inq, edge, clientVars, batch, cur, sum, todo, errno, readBuff_,
                     writeBuff_, userCount, executed, foreign, relapsed>>
  BY DEF Accept, AfterAccept
<1>3. Head(backlog) \in Clients /\ backlog' \in Seq(Clients) /\ Head(backlog) # NoClient
  <2>1. backlog \in Seq(Clients)
    BY DEF Inv, TypeOK
  <2>2. Head(backlog) \in Clients /\ Tail(backlog) \in Seq(Clients)
    BY <1>2, <2>1
  <2> QED
    BY <1>2, <2>2, ClientAssumption
<1>4. owner[fd] = NoClient /\ fd \notin fdSet_ /\ interest[fd] = "none"
  BY <1>1 DEF Inv, Rearmed, Free
<1>5. TypeOK'
  <2>1. peer' \in [Clients -> PeerState]
    BY <1>1, <1>3 DEF Inv, TypeOK, PeerState
  <2>2. owner' \in [FDs -> Clients \cup {NoClient}]
    <3>1. owner' = owner \/ owner' = [owner EXCEPT ![fd] = Head(backlog)]
      BY <1>1
    <3> QED
      BY <1>3, <3>1 DEF Inv, TypeOK
  <2>5. fdSet_' \subseteq FDs
    BY <1>1 DEF Inv, TypeOK
  <2>6. interest' \in [FDs -> {"none", "armed", "disarmed"}]
    <3>1. interest' = interest \/ interest' = [interest EXCEPT ![fd] = "armed"]
      BY <1>1
    <3> QED
      BY <3>1 DEF Inv, TypeOK
  <2>3. isClose_' \in [FDs -> BOOLEAN]
    <3>1. isClose_' = isClose_ \/ isClose_' = [isClose_ EXCEPT ![fd] = FALSE]
      BY <1>1
    <3> QED
      BY <3>1 DEF Inv, TypeOK
  <2>4. home' \in [Clients -> FDs \cup {listenFd_}]
    <3>1. home' = home \/ home' = [home EXCEPT ![Head(backlog)] = fd]
      BY <1>1
    <3> QED
      BY <3>1 DEF Inv, TypeOK
  <2> QED
    BY <1>2, <1>3, <2>1, <2>2, <2>3, <2>4, <2>5, <2>6 DEF Inv, TypeOK
<1>6. Rearmed'
  <2>1. ASSUME NEW g \in FDs, g # fd
        PROVE  /\ g \in fdSet_' <=> g \in fdSet_
               /\ owner'[g] = owner[g]
               /\ isClose_'[g] = isClose_[g]
               /\ interest'[g] = interest[g]
    BY <1>1, <2>1 DEF Inv, TypeOK
  <2>2. \/ UNCHANGED <<owner, interest, fdSet_, isClose_>>
        \/ /\ fd \in fdSet_' /\ owner'[fd] # NoClient
           /\ ~ isClose_'[fd] /\ interest'[fd] = "armed"
    BY <1>1, <1>3 DEF Inv, TypeOK
  <2> QED
    BY <1>2, <1>4, <2>1, <2>2 DEF Inv, Rearmed
<1>7. BatchFresh'
  <2>1. \A e \in batch : e.fd # listenFd_ => e.fd # fd /\ owner'[e.fd] = owner[e.fd]
    BY <1>1, <1>4 DEF Inv, TypeOK, BatchFresh, Event
  <2> QED
    BY <1>2, <2>1 DEF Inv, BatchFresh
<1>8. Current' /\ Writing' /\ ReadBuffersWritten'
  BY <1>2 DEF Inv, Current, Writing, ReadBuffersWritten
<1> QED
  BY <1>5, <1>6, <1>7, <1>8 DEF Inv

-----------------------------------------------------------------------------
(* Reading.                                                                *)

\* The descriptor being read belongs to a client.
LEMMA CurrentOwned ==
  ASSUME Inv, pc \in {"read", "process"}
  PROVE  /\ cur \in FDs
         /\ cur # listenFd_
         /\ owner[cur] \in Clients
         /\ interest[cur] = "disarmed"
         /\ cur \in fdSet_
         /\ \A e \in batch : e.fd # cur
BY FDAssumption DEF Inv, TypeOK, Rearmed, Current

LEMMA ReadDataInv == ASSUME Inv, ReadData PROVE Inv'
<1> DEFINE c    == owner[cur]
           n    == Lesser(Len(inq[c]), FRAME_MAX_LEN)
           data == SubSeq(inq[c], 1, n)
<1>1. /\ pc = "read" /\ pc' \in {"read", "process"}
      /\ UNCHANGED <<peer, skerr, backlog, edge, owner, interest, clientVars, batch, cur, todo,
                     errno, fdSet_, isClose_, writeBuff_, userCount, historyVars>>
  BY DEF ReadData
<1>2. /\ n > 0
      /\ readBuff_' = [readBuff_ EXCEPT ![cur] = append(@, data)]
      /\ inq' = [inq EXCEPT ![c] = SubSeq(@, n + 1, Len(@))]
      /\ sum' = sum + n
  BY DEF ReadData
<1>3. cur \in FDs /\ c \in Clients /\ inq[c] \in Seq(Byte) /\ readBuff_[cur] \in Buffer
  BY <1>1, CurrentOwned DEF Inv, TypeOK
<1>4. n \in 1 .. m_size /\ n <= Len(inq[c])
  <2>1. Len(inq[c]) \in Nat /\ FRAME_MAX_LEN \in Nat /\ FRAME_MAX_LEN <= m_size
    BY <1>3, BoundAssumption
  <2>2. n \in Nat /\ n <= Len(inq[c]) /\ n <= FRAME_MAX_LEN
    BY <2>1, LesserFacts
  <2> QED
    BY <1>2, <2>1, <2>2, SizeAssumption
<1>5. data \in Seq(Byte) /\ Len(data) = n
  BY <1>3, <1>4
<1>6. append(readBuff_[cur], data) \in Buffer /\ Written(append(readBuff_[cur], data))
  BY <1>3, <1>4, <1>5, AppendTyped, WrittenAppend DEF Inv, ReadBuffersWritten
<1>7. SubSeq(inq[c], n + 1, Len(inq[c])) \in Seq(Byte)
  BY <1>3, <1>4
<1> HIDE DEF c, n, data
<1>8. TypeOK'
  <2>1. /\ readBuff_' \in [FDs -> Buffer]
        /\ inq' \in [Clients -> Seq(Byte)]
        /\ sum' \in Nat
    BY <1>2, <1>3, <1>4, <1>6, <1>7 DEF Inv, TypeOK
  <2> QED
    BY <1>1, <2>1 DEF Inv, TypeOK
<1>9. ReadBuffersWritten'
  BY <1>2, <1>3, <1>6 DEF Inv, TypeOK, ReadBuffersWritten
<1>10. Rearmed' /\ BatchFresh' /\ Current' /\ Writing'
  BY <1>1 DEF Inv, Rearmed, BatchFresh, Current, Writing
<1> QED
  BY <1>8, <1>9, <1>10 DEF Inv

LEMMA ReadEndsInv == ASSUME Inv, ReadEnds PROVE Inv'
<1>1. /\ pc = "read"
      /\ UNCHANGED <<peer, backlog, edge, clientVars, batch, sum, todo, readBuff_, writeBuff_,
                     historyVars>>
  BY DEF ReadEnds
<1>2. /\ cur \in FDs /\ cur # listenFd_
      /\ interest[cur] = "disarmed"
      /\ \A e \in batch : e.fd # cur
  BY <1>1, CurrentOwned
<1>3. /\ errno' \in {"EAGAIN", "other"}
      /\ skerr' \in [Clients -> {"none", "ECONNRESET", "EPIPE"}]
  BY DEF Inv, TypeOK, ReadEnds
<1>4. CASE CloseConn_(cur) /\ pc' = "dispatch" /\ cur' = listenFd_
  <2>1. TypeOK'
    BY <1>1, <1>2, <1>3, <1>4, CloseConnTyped DEF Inv, TypeOK
  <2>2. Rearmed'
    BY <1>1, <1>2, <1>4, CloseConnRearmed DEF Inv, Rearmed
  <2>3. BatchFresh'
    <3>1. \A f \in batch : f.fd # listenFd_ => owner'[f.fd] = owner[f.fd]
      BY <1>2, <1>4, CloseConnRearmed DEF Inv, TypeOK, Event
    <3> QED
      BY <1>1, <3>1 DEF Inv, BatchFresh
  <2>4. Current' /\ Writing' /\ ReadBuffersWritten'
    BY <1>1, <1>4 DEF Inv, Current, Writing, ReadBuffersWritten
  <2> QED
    BY <2>1, <2>2, <2>3, <2>4 DEF Inv
<1>5. CASE /\ pc' = "process"
           /\ UNCHANGED <<fdSet_, interest, isClose_, owner, inq, userCount, cur>>
  <2>1. TypeOK'
    BY <1>1, <1>3, <1>5 DEF Inv, TypeOK
  <2>2. Rearmed' /\ BatchFresh' /\ Current' /\ Writing' /\ ReadBuffersWritten'
    BY <1>1, <1>5 DEF Inv, Rearmed, BatchFresh, Current, Writing, ReadBuffersWritten
  <2> QED
    BY <2>1, <2>2 DEF Inv
<1> QED
  BY <1>4, <1>5 DEF ReadEnds

\* frameProcess keeps the types, given a frame.
LEMMA FrameProcessTyped ==
  ASSUME TypeOK, cur \in FDs, NEW frame \in Byte, frameProcess(frame)
  PROVE  /\ writeBuff_' \in [FDs -> Buffer]
         /\ errno' \in {"EAGAIN", "other"}
         /\ executed' \in [Clients -> Seq(1 .. MaxReq)]
         /\ foreign' \subseteq Byte
<1>1. frame.conn \in Clients /\ frame.n \in 1 .. MaxReq
  BY FrameAssumption
<1>2. append(writeBuff_[cur], <<frame>>) \in Buffer
  <2>1. writeBuff_[cur] \in Buffer
    BY DEF TypeOK
  <2> DEFINE src == <<frame>>
  <2>2. src \in Seq(Byte) /\ Len(src) = 1
    OBVIOUS
  <2>3. 1 \in 1 .. m_size
    BY SizeAssumption
  <2> HIDE DEF src
  <2>4. append(writeBuff_[cur], src) \in Buffer
    BY <2>1, <2>2, <2>3, AppendTyped
  <2> QED
    BY <2>4 DEF src
<1>3. writeBuff_' \in [FDs -> Buffer]
  BY <1>2 DEF TypeOK, frameProcess
<1>4. executed' \in [Clients -> Seq(1 .. MaxReq)]
  <2>1. executed[frame.conn] \in Seq(1 .. MaxReq)
    BY <1>1 DEF TypeOK
  <2>2. Append(executed[frame.conn], frame.n) \in Seq(1 .. MaxReq)
    BY <1>1, <2>1
  <2> QED
    BY <2>2 DEF TypeOK, frameProcess
<1>5. errno' \in {"EAGAIN", "other"} /\ foreign' \subseteq Byte
  BY DEF TypeOK, frameProcess
<1> QED
  BY <1>3, <1>4, <1>5

LEMMA ProcessInv == ASSUME Inv, Process PROVE Inv'
<1> DEFINE b     == readBuff_[cur]
           bytes == peek(b, FRAME_MAX_LEN)
<1>1. /\ pc = "process" /\ pc' = "dispatch" /\ cur' = listenFd_ /\ sum' = 0
      /\ interest' = [interest EXCEPT ![cur] = "armed"]
      /\ UNCHANGED <<peer, skerr, inq, backlog, edge, owner, clientVars, batch, todo, fdSet_,
                     isClose_, userCount, home, relapsed>>
  BY DEF Process, ModFd
<1>2. /\ cur \in FDs /\ cur # listenFd_ /\ owner[cur] \in Clients /\ cur \in fdSet_
      /\ \A e \in batch : e.fd # cur
      /\ b \in Buffer /\ Written(b)
  BY <1>1, CurrentOwned DEF Inv, TypeOK, ReadBuffersWritten
<1>3. /\ Len(bytes) \in Nat
      /\ \A i \in 1 .. Len(bytes) : bytes[i] \in Byte
  <2>1. FRAME_MAX_LEN \in Nat
    BY BoundAssumption
  <2>2. bytes \in Seq(Byte \cup {Uninit})
    BY <1>2, <2>1, PeekTyped
  <2>3. \A i \in 1 .. Len(bytes) : bytes[i] \in Byte
    BY <1>2, <2>1, WrittenReadable
  <2> HIDE DEF bytes, b
  <2> QED
    BY <2>2, <2>3
<1>4. \E left \in Buffer :
        /\ Written(left)
        /\ readBuff_' = [readBuff_ EXCEPT ![cur] = left]
        /\ \/ UNCHANGED <<writeBuff_, errno, executed, foreign>>
           \/ \E frame \in Byte : frameProcess(frame)
  <2>1. PICK discard \in 0 .. Len(bytes) :
          \/ /\ readBuff_' = [readBuff_ EXCEPT ![cur] = pop(@, discard)]
             /\ UNCHANGED <<writeBuff_, errno, executed, foreign>>
          \/ /\ discard < Len(bytes)
             /\ readBuff_' = [readBuff_ EXCEPT ![cur] = AfterFrame(@, discard)]
             /\ frameProcess(bytes[discard + 1])
    BY DEF Process
  <2> HIDE DEF b, bytes
  <2>2. discard \in Nat
    BY <1>3
  <2>3. pop(b, discard) \in Buffer /\ Written(pop(b, discard))
    BY <1>2, <2>2, PopLeaves, WrittenPop
  <2>4. AfterFrame(b, discard) \in Buffer /\ Written(AfterFrame(b, discard))
    BY <2>3, PopLeaves, WrittenPop DEF AfterFrame
  <2>5. discard < Len(bytes) => bytes[discard + 1] \in Byte
    BY <1>3, <2>2
  <2>6. b = readBuff_[cur] /\ readBuff_ \in [FDs -> Buffer]
    BY DEF b, Inv, TypeOK
  <2>7. CASE /\ readBuff_' = [readBuff_ EXCEPT ![cur] = pop(@, discard)]
             /\ UNCHANGED <<writeBuff_, errno, executed, foreign>>
    <3>1. readBuff_' = [readBuff_ EXCEPT ![cur] = pop(b, discard)]
      BY <2>6, <2>7
    <3> QED
      BY <2>3, <2>7, <3>1
  <2>8. CASE /\ discard < Len(bytes)
             /\ readBuff_' = [readBuff_ EXCEPT ![cur] = AfterFrame(@, discard)]
             /\ frameProcess(bytes[discard + 1])
    <3>1. readBuff_' = [readBuff_ EXCEPT ![cur] = AfterFrame(b, discard)]
      BY <2>6, <2>8
    <3> QED
      BY <2>4, <2>5, <2>8, <3>1
  <2> QED
    BY <2>1, <2>7, <2>8
<1> HIDE DEF b, bytes
<1>5. readBuff_' \in [FDs -> Buffer] /\ ReadBuffersWritten'
  BY <1>2, <1>4 DEF Inv, TypeOK, ReadBuffersWritten
<1>6. TypeOK'
  <2>1. /\ writeBuff_' \in [FDs -> Buffer]
        /\ errno' \in {"EAGAIN", "other"}
        /\ executed' \in [Clients -> Seq(1 .. MaxReq)]
        /\ foreign' \subseteq Byte
    BY <1>2, <1>4, FrameProcessTyped DEF Inv, TypeOK
  <2>2. interest' \in [FDs -> {"none", "armed", "disarmed"}]
    BY <1>1 DEF Inv, TypeOK
  <2> QED
    BY <1>1, <1>5, <2>1, <2>2 DEF Inv, TypeOK
<1>7. Rearmed'
  <2>1. \A fd \in FDs : interest'[fd] = IF fd = cur THEN "armed" ELSE interest[fd]
    BY <1>1 DEF Inv, TypeOK
  <2> QED
    BY <1>1, <1>2, <2>1, ClientAssumption DEF Inv, Rearmed
<1>8. BatchFresh' /\ Current' /\ Writing'
  BY <1>1 DEF Inv, BatchFresh, Current, Writing
<1> QED
  BY <1>5, <1>6, <1>7, <1>8 DEF Inv

-----------------------------------------------------------------------------
(* Writing.                                                                *)

LEMMA WriteBeginInv == ASSUME Inv, WriteBegin PROVE Inv'
<1>1. PICK fd \in todo : cur' = fd /\ todo' = todo \ {fd} /\ sum' = length(writeBuff_[fd])
  BY DEF WriteBegin, needWrite
<1>2. fd \in FDs /\ length(writeBuff_[fd]) \in Nat
  BY <1>1, LengthBounds DEF Inv, TypeOK
<1>3. /\ pc = "write" /\ cur = listenFd_
      /\ UNCHANGED <<kernelVars, clientVars, pc, batch, errno, connVars, historyVars>>
  BY DEF WriteBegin
<1>4. TypeOK'
  BY <1>1, <1>2, <1>3 DEF Inv, TypeOK
<1>5. Writing'
  <2>1. length(writeBuff_'[cur']) = sum'
    BY <1>1, <1>3
  <2> QED
    BY <1>1, <1>2, <2>1 DEF Writing
<1>6. Rearmed' /\ BatchFresh' /\ Current' /\ ReadBuffersWritten'
  BY <1>3 DEF Inv, Rearmed, BatchFresh, Current, ReadBuffersWritten
<1> QED
  BY <1>4, <1>5, <1>6 DEF Inv

LEMMA WriteDoneInv == ASSUME Inv, WriteDone PROVE Inv'
<1>1. TypeOK'
  BY DEF Inv, WriteDone, TypeOK
<1>2. Rearmed' /\ BatchFresh' /\ Current' /\ Writing' /\ ReadBuffersWritten'
  BY DEF Inv, WriteDone, Rearmed, BatchFresh, Current, Writing, ReadBuffersWritten
<1> QED
  BY <1>1, <1>2 DEF Inv

\* What one round of write_ pops and leaves.
LEMMA WriteRoundPops ==
  ASSUME Inv, WriteRound
  PROVE  LET n == Lesser(sum, FRAME_MAX_LEN)
             b == writeBuff_[cur]
         IN  /\ cur \in FDs /\ b \in Buffer
             /\ n \in 0 .. length(b) /\ n <= sum
             /\ pop(b, n) \in Buffer
             /\ sum - n <= length(pop(b, n))
             /\ peek(b, n) \in Seq(Byte \cup {Uninit}) /\ Len(peek(b, n)) = n
<1> DEFINE n == Lesser(sum, FRAME_MAX_LEN)
           b == writeBuff_[cur]
<1>1. /\ cur \in FDs /\ b \in Buffer /\ sum \in Nat
      /\ sum <= length(b)
  BY DEF Inv, TypeOK, WriteRound, Writing
<1> HIDE DEF b
<1>2. length(b) \in 0 .. m_size /\ m_size \in Nat
  BY <1>1, LengthBounds, SizeAssumption
<1>3. n \in Nat /\ n <= sum
  BY <1>1, BoundAssumption, LesserFacts
<1> HIDE DEF n
<1>4. n \in 0 .. length(b) /\ Lesser(n, length(b)) = n
  BY <1>1, <1>2, <1>3 DEF Lesser
<1>5. /\ pop(b, n) \in Buffer
      /\ length(pop(b, n)) = length(b) - n \/ length(pop(b, n)) = m_size
  BY <1>1, <1>3, <1>4, PopLeaves
<1>6. peek(b, n) = [i \in 1 .. n |-> b.m_buff[Slot(b, i)]]
  BY <1>1, <1>3, <1>4, PeekIsReadable
<1>7. peek(b, n) \in Seq(Byte \cup {Uninit})
  BY <1>1, <1>3, PeekTyped
<1>8. Len(peek(b, n)) = n
  BY <1>3, <1>6
<1>9. sum - n <= length(pop(b, n))
  BY <1>1, <1>2, <1>3, <1>5
<1> QED
  BY <1>1, <1>3, <1>4, <1>5, <1>7, <1>8, <1>9 DEF n, b

LEMMA WriteRoundInv == ASSUME Inv, WriteRound PROVE Inv'
<1> DEFINE n    == Lesser(sum, FRAME_MAX_LEN)
           b    == writeBuff_[cur]
           data == peek(b, n)
           c    == owner[cur]
<1>1. /\ pc = "write" /\ cur # listenFd_
      /\ writeBuff_' = [writeBuff_ EXCEPT ![cur] = pop(b, n)]
      /\ UNCHANGED <<peer, inq, backlog, edge, owner, interest, nsent, batch, todo, fdSet_,
                     isClose_, readBuff_, userCount, executed, foreign, home>>
      /\ relapsed' \subseteq relapsed \cup {cur}
  BY DEF WriteRound
<1>2. \/ /\ got' = [got EXCEPT ![c] = SubSeq(@ \o data, 1, Lesser(MaxGot, Len(@) + n))]
         /\ sum' = sum - n
         /\ cur' = IF n = 0 THEN listenFd_ ELSE cur
         /\ UNCHANGED <<skerr, errno, pc>>
      \/ /\ skerr' = [skerr EXCEPT ![c] = "none"]
         /\ errno' = "other"
         /\ cur' = listenFd_ /\ sum' = 0
         /\ UNCHANGED <<got, pc>>
      \/ /\ pc' = "killed"
         /\ UNCHANGED <<got, skerr, errno, cur, sum>>
  BY DEF WriteRound
<1>3. /\ cur \in FDs /\ b \in Buffer
      /\ n \in 0 .. length(b) /\ n <= sum
      /\ pop(b, n) \in Buffer
      /\ sum - n <= length(pop(b, n))
      /\ data \in Seq(Byte \cup {Uninit}) /\ Len(data) = n
  BY WriteRoundPops
<1>4. sum \in Nat /\ n \in Nat /\ length(b) \in Nat
  <2>1. length(b) \in Nat
    BY <1>3, LengthBounds
  <2> QED
    BY <1>3, <2>1 DEF Inv, TypeOK
<1> HIDE DEF n, b, data, c
<1>5. writeBuff_' \in [FDs -> Buffer] /\ writeBuff_'[cur] = pop(b, n)
  BY <1>1, <1>3 DEF Inv, TypeOK
<1>6. got' \in [Clients -> Seq(Byte \cup {Uninit})]
  <2> DEFINE more(g) == SubSeq(g \o data, 1, Lesser(MaxGot, Len(g) + n))
  <2>1. ASSUME NEW g \in Seq(Byte \cup {Uninit})
        PROVE  more(g) \in Seq(Byte \cup {Uninit})
    <3>1. g \o data \in Seq(Byte \cup {Uninit}) /\ Len(g \o data) = Len(g) + n
      BY <1>3
    <3> DEFINE k == Len(g) + n
               m == Lesser(MaxGot, k)
    <3>2. k \in Nat
      BY <1>4
    <3>3. m \in Nat /\ m <= k
      <4> HIDE DEF k
      <4> QED
        BY <3>2, BoundAssumption, LesserFacts
    <3> HIDE DEF k, m
    <3>4. SubSeq(g \o data, 1, m) \in Seq(Byte \cup {Uninit})
      BY <3>1, <3>2, <3>3 DEF k
    <3> QED
      BY <3>4 DEF k, m
  <2>2. got' = got \/ got' = [got EXCEPT ![c] = more(got[c])]
    BY <1>2
  <2>3. got \in [Clients -> Seq(Byte \cup {Uninit})]
    BY DEF Inv, TypeOK
  <2> HIDE DEF more
  <2>4. CASE c \in Clients
    BY <2>1, <2>2, <2>3, <2>4
  <2>5. CASE c \notin Clients
    BY <2>2, <2>3, <2>5
  <2> QED
    BY <2>4, <2>5
<1>7. TypeOK'
  <2>1. sum' \in Nat
    BY <1>2, <1>3, <1>4
  <2>2. /\ cur' \in FDs \cup {listenFd_}
        /\ errno' \in {"EAGAIN", "other"}
        /\ pc' \in {"write", "killed"}
    BY <1>1, <1>2, <1>3 DEF Inv, TypeOK
  <2>3. skerr' \in [Clients -> {"none", "ECONNRESET", "EPIPE"}]
    BY <1>2 DEF Inv, TypeOK
  <2>4. relapsed' \subseteq FDs
    BY <1>1, <1>3 DEF Inv, TypeOK
  <2> QED
    BY <1>1, <1>5, <1>6, <2>1, <2>2, <2>3, <2>4 DEF Inv, TypeOK
<1>8. Writing'
  BY <1>1, <1>2, <1>3, <1>5 DEF Writing
<1>9. Rearmed' /\ BatchFresh' /\ Current' /\ ReadBuffersWritten'
  BY <1>1, <1>2 DEF Inv, Rearmed, BatchFresh, Current, ReadBuffersWritten
<1> QED
  BY <1>7, <1>8, <1>9 DEF Inv

-----------------------------------------------------------------------------
(* The theorems.                                                           *)

LEMMA NextInv == Inv /\ [Next]_vars => Inv'
<1> SUFFICES ASSUME Inv, [Next]_vars PROVE Inv'
  OBVIOUS
<1>1. CASE UNCHANGED vars
  <2>1. TypeOK'
    BY <1>1 DEF Inv, vars, TypeOK
  <2>2. Rearmed' /\ BatchFresh' /\ Current' /\ Writing' /\ ReadBuffersWritten'
    BY <1>1 DEF Inv, vars, Rearmed, BatchFresh, Current, Writing, ReadBuffersWritten
  <2> QED
    BY <2>1, <2>2 DEF Inv
<1>2. CASE ServerStep
  BY <1>2, EpollWaitInv, DispatchListenInv, DispatchCloseInv, DispatchReadInv,
     EndDispatchInv, AcceptFailsInv, AcceptInv, ReadDataInv, ReadEndsInv, ProcessInv,
     WriteBeginInv, WriteDoneInv, WriteRoundInv DEF ServerStep
<1>3. CASE \E c \in Clients : Connect(c) \/ Send(c) \/ Shutdown(c) \/ Abort(c)
  BY <1>3, ConnectInv, SendInv, ShutdownInv, AbortInv
<1> QED
  BY <1>1, <1>2, <1>3 DEF Next

LEMMA InvAlways == Spec => []Inv
<1>1. Init => Inv
  BY InitInv
<1>2. Inv /\ [Next]_vars => Inv'
  BY NextInv
<1> QED
  BY <1>1, <1>2, PTL DEF Spec

\* The variables keep their types: no action indexes an array outside its
\* range or takes a frame that was never received.
THEOREM ServerTyped == Spec => []TypeOK
<1>1. Inv => TypeOK
  BY DEF Inv
<1> QED
  BY <1>1, InvAlways, PTL

\* No open connection goes unwatched: DealRead_ re-arms or closes on every path.
THEOREM AlwaysRearmed == Spec => []Rearmed
<1>1. Inv => Rearmed
  BY DEF Inv
<1> QED
  BY <1>1, InvAlways, PTL

\* Events are handled for the connection they were reported for.
THEOREM EventsFresh == Spec => []BatchFresh
<1>1. Inv => BatchFresh
  BY DEF Inv
<1> QED
  BY <1>1, InvAlways, PTL

-----------------------------------------------------------------------------
(* Replies.  What is in a writeBuff_ belongs to an open connection whose   *)
(* event of this batch is behind it, and DealWrite_ has it on its list.    *)

\* The two states in which nothing is left to write (see WritesDrained).
Drained(b) == IsEmpty(b) \/ Relapsed(b)

\* A reply that waits: its descriptor cannot be closed before DealWrite_.
Waits(fd) ==
  /\ pc \in {"dispatch", "accept", "read", "process"} =>
       /\ fd \in fdSet_
       /\ \A e \in batch : e.fd # fd
       /\ pc \in {"read", "process"} => cur # fd
  /\ pc = "write" => fd \in todo \/ (cur = fd /\ sum = length(writeBuff_[fd]))
  /\ pc # "wait"

\* write_ has everything or nothing left.
AllOrNothing ==
  pc = "write" /\ cur # listenFd_ =>
    \/ sum = length(writeBuff_[cur])
    \/ sum = 0 /\ Drained(writeBuff_[cur])

Replies == AllOrNothing /\ \A fd \in FDs : Drained(writeBuff_[fd]) \/ Waits(fd)

LEMMA PopNone == ASSUME NEW b \in Buffer PROVE pop(b, 0) = b
<1>1. length(b) \in 0 .. m_size
  BY LengthBounds
<1>2. Lesser(0, length(b)) = 0
  BY <1>1 DEF Lesser
<1>3. b.m_idxr \in 0 .. m_size - 1 /\ m_size \in Nat
  BY SizeAssumption DEF Buffer, Index
<1>4. (b.m_idxr + 0) % m_size = b.m_idxr
  BY <1>3, ModBelow
<1>5. pop(b, 0) = [b EXCEPT !.m_idxr = b.m_idxr]
  BY <1>2, <1>4 DEF pop
<1> QED
  BY <1>5 DEF Buffer

LEMMA PopAll == ASSUME NEW b \in Buffer PROVE Drained(pop(b, length(b)))
<1> DEFINE c == pop(b, length(b))
<1>1. length(b) \in 0 .. m_size /\ m_size \in Nat
  BY LengthBounds, SizeAssumption
<1>2. Lesser(length(b), length(b)) = length(b)
  BY <1>1 DEF Lesser
<1>3. c \in Buffer /\ (length(c) = length(b) - length(b) \/ length(c) = m_size)
  BY <1>1, <1>2, PopLeaves
<1> HIDE DEF c
<1>4. length(c) = 0 => IsEmpty(c)
  BY <1>3, SizeAssumption DEF length, IsEmpty, Buffer, Index
<1>5. length(c) = m_size => c.m_idxr = 0 /\ c.m_idxw = m_size
  BY <1>3, LengthBounds
<1> QED
  BY <1>1, <1>3, <1>4, <1>5 DEF Drained, Relapsed, IsEmpty, c

\* A buffer with something left has a length, so DealWrite_ sees it.
LEMMA UndrainedNeedsWrite ==
  ASSUME NEW b \in Buffer, ~ Drained(b) PROVE length(b) > 0
BY SizeAssumption DEF Drained, Relapsed, IsEmpty, length, Buffer, Index

LEMMA InitReplies == Init => Replies
<1> SUFFICES ASSUME Init PROVE Replies
  OBVIOUS
<1>1. \A fd \in FDs : IsEmpty(writeBuff_[fd])
  BY DEF Init, NewBuffer, IsEmpty
<1> QED
  BY <1>1 DEF Init, Replies, AllOrNothing, Drained, Relapsed, IsEmpty

\* Steps that leave the replies, the batch and the thread's place alone.
LEMMA ClientReplies ==
  ASSUME Replies,
         UNCHANGED <<pc, batch, cur, sum, todo, fdSet_, writeBuff_>>
  PROVE  Replies'
BY DEF Replies, AllOrNothing, Waits, Drained, Relapsed, IsEmpty, length

\* Steps of the batch before DealWrite_ that append nothing.
LEMMA DispatchReplies ==
  ASSUME Inv, Replies,
         EpollWait \/ DispatchListen \/ DispatchClose \/ DispatchRead
           \/ AcceptFails \/ Accept \/ ReadData \/ ReadEnds
  PROVE  Replies'
<1>1. UNCHANGED writeBuff_ /\ pc' \in {"dispatch", "accept", "read", "process"}
  BY DEF EpollWait, DispatchListen, DispatchClose, DispatchRead, AcceptFails, Accept,
         AfterAccept, ReadData, ReadEnds
<1>2. AllOrNothing'
  BY <1>1 DEF AllOrNothing
<1>3. ASSUME NEW fd \in FDs, ~ Drained(writeBuff_[fd])
      PROVE  Waits(fd)'
  <2>1. Waits(fd)
    BY <1>3 DEF Replies
  <2>2. CASE EpollWait
    BY <2>1, <2>2 DEF EpollWait, Waits
  <2>3. CASE DispatchListen
    BY <2>1, <2>3 DEF DispatchListen, Taken, Waits
  <2>4. CASE DispatchClose
    BY <2>1, <2>4 DEF DispatchClose, CloseConn_, Taken, Waits
  <2>5. CASE DispatchRead
    BY <2>1, <2>5 DEF DispatchRead, Taken, Waits
  <2>6. CASE AcceptFails
    BY <2>1, <2>6 DEF AcceptFails, Waits
  <2>7. CASE Accept
    <3>1. fd \in fdSet_ => fd \in fdSet_'
      BY <2>7 DEF Accept
    <3> QED
      BY <2>1, <2>7, <3>1 DEF Accept, AfterAccept, Waits
  <2>8. CASE ReadData
    BY <2>1, <2>8 DEF ReadData, Waits
  <2>9. CASE ReadEnds
    BY <2>1, <2>9 DEF ReadEnds, CloseConn_, Waits
  <2> QED
    BY <2>2, <2>3, <2>4, <2>5, <2>6, <2>7, <2>8, <2>9
<1>4. \A fd \in FDs : Drained(writeBuff_'[fd]) <=> Drained(writeBuff_[fd])
  BY <1>1
<1> QED
  BY <1>2, <1>3, <1>4 DEF Replies, Drained, Relapsed

LEMMA ProcessReplies == ASSUME Inv, Replies, Process PROVE Replies'
<1>1. /\ pc = "process" /\ pc' = "dispatch"
      /\ UNCHANGED <<batch, fdSet_>>
      /\ \A fd \in FDs : fd # cur => writeBuff_'[fd] = writeBuff_[fd]
  BY DEF Inv, TypeOK, Process, frameProcess
<1>2. cur \in fdSet_ /\ \A e \in batch : e.fd # cur
  BY <1>1, CurrentOwned
<1>3. AllOrNothing'
  BY <1>1 DEF AllOrNothing
<1>4. ASSUME NEW fd \in FDs, fd = cur PROVE Waits(fd)'
  BY <1>1, <1>2, <1>4 DEF Waits
<1>5. ASSUME NEW fd \in FDs, fd # cur PROVE Drained(writeBuff_[fd])' \/ Waits(fd)'
  <2>1. Drained(writeBuff_[fd]) \/ Waits(fd)
    BY DEF Replies
  <2>2. writeBuff_'[fd] = writeBuff_[fd]
    BY <1>1, <1>5
  <2>3. Waits(fd) => Waits(fd)'
    BY <1>1 DEF Waits
  <2> QED
    BY <2>1, <2>2, <2>3 DEF Drained, Relapsed, IsEmpty
<1> QED
  BY <1>3, <1>4, <1>5 DEF Replies

LEMMA EndDispatchReplies == ASSUME Inv, Replies, EndDispatch PROVE Replies'
<1>1. /\ pc = "dispatch" /\ pc' = "write" /\ cur' = listenFd_
      /\ todo' = {fd \in fdSet_ : length(writeBuff_[fd]) > 0}
      /\ UNCHANGED writeBuff_
  BY DEF EndDispatch, needWrite
<1>2. AllOrNothing'
  BY <1>1 DEF AllOrNothing
<1>3. ASSUME NEW fd \in FDs, ~ Drained(writeBuff_[fd])
      PROVE  Waits(fd)'
  <2>1. fd \in fdSet_
    BY <1>1, <1>3 DEF Replies, Waits
  <2>2. length(writeBuff_[fd]) > 0
    BY <1>3, UndrainedNeedsWrite DEF Inv, TypeOK
  <2> QED
    BY <1>1, <2>1, <2>2 DEF Waits
<1>4. ASSUME NEW fd \in FDs PROVE Drained(writeBuff_[fd]) => Drained(writeBuff_[fd])'
  BY <1>1 DEF Drained, Relapsed, IsEmpty
<1> QED
  BY <1>2, <1>3, <1>4 DEF Replies

LEMMA WriteBeginReplies == ASSUME Inv, Replies, WriteBegin PROVE Replies'
<1>1. PICK fd \in todo : cur' = fd /\ todo' = todo \ {fd} /\ sum' = length(writeBuff_[fd])
  BY DEF WriteBegin, needWrite
<1>2. pc = "write" /\ cur = listenFd_ /\ UNCHANGED <<pc, batch, fdSet_, writeBuff_>>
  BY DEF WriteBegin
<1>3. AllOrNothing'
  <2>1. sum' = length(writeBuff_'[cur'])
    BY <1>1, <1>2
  <2> QED
    BY <2>1 DEF AllOrNothing
<1>4. ASSUME NEW g \in FDs, Waits(g) PROVE Waits(g)'
  <2>1. g \in todo
    BY <1>2, <1>4, FDAssumption DEF Waits
  <2>2. g \in todo' \/ (cur' = g /\ sum' = length(writeBuff_'[g]))
    BY <1>1, <1>2, <2>1
  <2> QED
    BY <1>2, <2>2 DEF Waits
<1>5. ASSUME NEW g \in FDs PROVE Drained(writeBuff_[g]) => Drained(writeBuff_[g])'
  BY <1>2 DEF Drained, Relapsed, IsEmpty
<1> QED
  BY <1>3, <1>4, <1>5 DEF Replies

LEMMA WriteDoneReplies == ASSUME Inv, Replies, WriteDone PROVE Replies'
<1>1. /\ pc = "write" /\ pc' = "wait" /\ cur = listenFd_ /\ todo = {}
      /\ UNCHANGED writeBuff_
  BY DEF WriteDone
<1>2. AllOrNothing'
  BY <1>1 DEF AllOrNothing
<1>3. ASSUME NEW fd \in FDs PROVE Drained(writeBuff_[fd])'
  <2>1. Drained(writeBuff_[fd])
    BY <1>1, FDAssumption DEF Replies, Waits
  <2> QED
    BY <1>1, <2>1 DEF Drained, Relapsed, IsEmpty
<1> QED
  BY <1>2, <1>3 DEF Replies

\* With rounds as long as the buffer, as in the program, one round pops it all.
LEMMA WriteRoundReplies ==
  ASSUME FRAME_MAX_LEN = m_size, Inv, Replies, WriteRound
  PROVE  Replies'
<1> DEFINE n == Lesser(sum, FRAME_MAX_LEN)
           b == writeBuff_[cur]
<1>1. /\ pc = "write" /\ cur # listenFd_ /\ cur \in FDs /\ b \in Buffer
      /\ writeBuff_' = [writeBuff_ EXCEPT ![cur] = pop(b, n)]
      /\ UNCHANGED <<todo, fdSet_, batch>>
      /\ pc' \in {"write", "killed"}
  BY WriteRoundPops DEF WriteRound
<1>2. \/ cur' = (IF n = 0 THEN listenFd_ ELSE cur) /\ sum' = sum - n
      \/ cur' = listenFd_
      \/ pc' = "killed"
  BY DEF WriteRound
<1>3. length(b) \in 0 .. m_size /\ m_size \in Nat
  BY <1>1, LengthBounds, SizeAssumption
<1>4. sum = length(b) \/ (sum = 0 /\ Drained(b))
  BY <1>1 DEF Replies, AllOrNothing
<1>5. n = sum
  BY <1>3, <1>4 DEF Lesser
<1>6. Drained(pop(b, n))
  <2>1. sum = length(b) => Drained(pop(b, n))
    BY <1>1, <1>5, PopAll
  <2>2. sum = 0 /\ Drained(b) => Drained(pop(b, n))
    BY <1>1, <1>5, PopNone
  <2> QED
    BY <1>4, <2>1, <2>2
<1> HIDE DEF n
<1>7. /\ writeBuff_'[cur] = pop(b, n)
      /\ \A fd \in FDs : fd # cur => writeBuff_'[fd] = writeBuff_[fd]
  BY <1>1 DEF Inv, TypeOK
<1> HIDE DEF b
<1>8. AllOrNothing'
  <2>1. CASE cur' = (IF n = 0 THEN listenFd_ ELSE cur) /\ sum' = sum - n
    <3>1. sum' = 0
      BY <1>3, <1>4, <1>5, <2>1
    <3>2. cur' # listenFd_ => Drained(writeBuff_'[cur'])
      BY <1>6, <1>7, <2>1
    <3> QED
      BY <3>1, <3>2 DEF AllOrNothing, Drained, Relapsed, IsEmpty
  <2>2. CASE cur' = listenFd_ \/ pc' = "killed"
    BY <2>2 DEF AllOrNothing
  <2> QED
    BY <1>2, <2>1, <2>2
<1>9. ASSUME NEW fd \in FDs PROVE (Drained(writeBuff_[fd]) \/ Waits(fd))'
  <2>1. CASE fd = cur
    <3>1. Drained(writeBuff_'[fd])
      BY <1>6, <1>7, <2>1
    <3> QED
      BY <3>1 DEF Drained, Relapsed, IsEmpty
  <2>2. CASE fd # cur
    <3>1. Drained(writeBuff_[fd]) => Drained(writeBuff_[fd])'
      BY <1>7, <2>2 DEF Drained, Relapsed, IsEmpty
    <3>2. Waits(fd) => Waits(fd)'
      BY <1>1, <2>2 DEF Waits
    <3> QED
      BY <3>1, <3>2 DEF Replies
  <2> QED
    BY <2>1, <2>2
<1> QED
  BY <1>8, <1>9 DEF Replies

LEMMA NextReplies ==
  ASSUME FRAME_MAX_LEN = m_size, Inv, Replies, [Next]_vars
  PROVE  Replies'
<1>1. CASE UNCHANGED vars
  BY <1>1, ClientReplies DEF vars
<1>2. CASE ServerStep
  BY <1>2, DispatchReplies, ProcessReplies, EndDispatchReplies, WriteBeginReplies,
     WriteDoneReplies, WriteRoundReplies DEF ServerStep
<1>3. CASE \E c \in Clients : Connect(c) \/ Send(c) \/ Shutdown(c) \/ Abort(c)
  BY <1>3, ClientReplies DEF Connect, Send, Shutdown, Abort
<1> QED
  BY <1>1, <1>2, <1>3 DEF Next

\* When the loop waits again no reply is left in any writeBuff_: none is lost
\* with a closed connection and none goes to the next owner of its descriptor.
THEOREM RepliesWritten == ASSUME FRAME_MAX_LEN = m_size
                          PROVE  Spec => []WritesDrained
<1>1. Init => Replies
  BY InitReplies
<1>2. Inv /\ Replies /\ [Next]_vars => Replies'
  BY NextReplies
<1>3. Replies => WritesDrained
  BY DEF Replies, Waits, Drained, Relapsed, WritesDrained
<1> QED
  BY <1>1, <1>2, <1>3, InvAlways, PTL DEF Spec
-----------------------------------------------------------------------------
(***************************************************************************)
(* The order of the requests.                                              *)
(*                                                                         *)
(* A request moves from its client's inq to a readBuff_ and from there to  *)
(* executed, or is lost on the way.  The invariant says that at every      *)
(* moment what is further on is older, and that a client's requests are in *)
(* one readBuff_ only, although descriptors change their owners and keep   *)
(* what is in their buffers.  The difficulty is the buffer's relapse,      *)
(* after which executed requests are readable again: Unread leaves them    *)
(* out, and ToRead is why the server never looks at them, as process is    *)
(* only reached with something newly read.                                 *)
(***************************************************************************)

\* The thread has read something from fd and not processed it.
Fresh(fd) == cur = fd /\ (pc = "process" \/ (pc = "read" /\ sum > 0))

\* The requests that wait in fd's readBuff_, from whatever client: what is
\* readable, unless the buffer has relapsed.
Unread(fd) == IF length(readBuff_[fd]) = m_size /\ ~ Fresh(fd) THEN <<>>
                                                               ELSE Readable(readBuff_[fd])

\* Request n of c comes after what was executed, and before what was not read.
After(c, n)  == \A k \in 1 .. Len(executed[c]) : executed[c][k] < n
Before(c, n) == \A k \in 1 .. Len(inq[c]) : n < inq[c][k].n

ExecOrder == ExecutedInOrderOnce /\ \A c \in Clients : After(c, nsent[c] + 1)

QueueOrder ==
  \A c \in Clients : \A k \in 1 .. Len(inq[c]) :
    /\ inq[c][k].conn = c /\ inq[c][k].n <= nsent[c]
    /\ After(c, inq[c][k].n)
    /\ \A j \in 1 .. Len(inq[c]) : j < k => inq[c][j].n < inq[c][k].n

BufferOrder ==
  \A fd \in FDs : \A i \in 1 .. Len(Unread(fd)) :
    LET f == Unread(fd)[i]
    IN  /\ f.n <= nsent[f.conn] /\ After(f.conn, f.n) /\ Before(f.conn, f.n)
        /\ \A j \in 1 .. Len(Unread(fd)) :
             i < j /\ Unread(fd)[j].conn = f.conn => f.n < Unread(fd)[j].n

\* Whose requests wait for fd was accepted, and for no other descriptor.
Homes ==
  \A fd \in FDs : \A i \in 1 .. Len(Unread(fd)) :
    LET c == Unread(fd)[i].conn
    IN  /\ peer[c] # "off" /\ ~ Waiting(c)
        /\ \A g \in FDs : owner[g] = c => g = fd
        /\ \A g \in FDs : \A j \in 1 .. Len(Unread(g)) : Unread(g)[j].conn = c => g = fd

\* A connection is made once, waits once and has one descriptor.
Places ==
  /\ \A i, j \in 1 .. Len(backlog) : backlog[i] = backlog[j] => i = j
  /\ \A c \in Clients : Waiting(c) => peer[c] # "off" /\ \A g \in FDs : owner[g] # c
  /\ \A g, h \in FDs : owner[g] = owner[h] /\ owner[g] # NoClient => g = h
  /\ \A g \in FDs : owner[g] # NoClient => peer[owner[g]] # "off"

\* Something can be read where the server goes to read.
ToRead ==
  /\ \A e \in batch : e.fd # listenFd_ /\ ~ e.hup => inq[owner[e.fd]] # <<>>
  /\ pc = "read" /\ sum = 0 => inq[owner[cur]] # <<>>

Orders   == ExecOrder /\ QueueOrder /\ BufferOrder
OrderInv == Orders /\ Homes /\ Places /\ ToRead

LEMMA FrameFields == \A f \in Byte : f.conn \in Clients /\ f.n \in Nat /\ f.n \in 1 .. MaxReq
BY FrameAssumption, BoundAssumption

LEMMA OrderTypes ==
  ASSUME Inv
  PROVE  /\ inq \in [Clients -> Seq(Byte)]
         /\ nsent \in [Clients -> Nat]
         /\ executed \in [Clients -> Seq(Nat)]
<1>1. /\ inq \in [Clients -> Seq(Byte)]
      /\ nsent \in [Clients -> 0 .. MaxReq]
      /\ executed \in [Clients -> Seq(1 .. MaxReq)]
  BY DEF Inv, TypeOK
<1>2. nsent \in [Clients -> Nat]
  BY <1>1, BoundAssumption
<1>3. \A t \in Seq(1 .. MaxReq) : t \in Seq(Nat)
  BY BoundAssumption
<1> QED
  BY <1>1, <1>2, <1>3

LEMMA UnreadTyped == ASSUME Inv, NEW fd \in FDs PROVE Unread(fd) \in Seq(Byte)
<1>1. readBuff_[fd] \in Buffer /\ Written(readBuff_[fd])
  BY DEF Inv, TypeOK, ReadBuffersWritten
<1> QED
  BY <1>1, ReadableTyped DEF Unread

\* A step that leaves readBuff_ alone and reads nothing leaves what waits there.
LEMMA UnreadKept ==
  ASSUME readBuff_' = readBuff_, \A fd \in FDs : Fresh(fd)' <=> Fresh(fd)
  PROVE  \A fd \in FDs : Unread(fd)' = Unread(fd)
BY DEF Unread

LEMMA InitOrder == Init => OrderInv
<1> SUFFICES ASSUME Init PROVE OrderInv
  OBVIOUS
<1>1. \A fd \in FDs : Unread(fd) = <<>>
  <2>1. length(NewBuffer) = 0 /\ NewBuffer \in Buffer
    BY NewBufferTyped DEF NewBuffer, length
  <2>2. Readable(NewBuffer) = <<>>
    BY <2>1, ReadableIs
  <2> QED
    BY <2>2 DEF Init, Unread
<1>2. Orders
  BY <1>1 DEF Init, Orders, ExecOrder, QueueOrder, BufferOrder, After, ExecutedInOrderOnce
<1>3. Homes /\ Places
  BY <1>1 DEF Init, Homes, Places, Waiting
<1>4. ToRead
  BY DEF Init, ToRead
<1> QED
  BY <1>2, <1>3, <1>4 DEF OrderInv

-----------------------------------------------------------------------------
(* How requests may move.                                                  *)

\* Where requests come to wait, when connections are made and accepted.
LEMMA HomesMove ==
  ASSUME Inv, Homes, Places,
         \A fd \in FDs : \A i \in 1 .. Len(Unread(fd)') :
            \/ \E j \in 1 .. Len(Unread(fd)) : Unread(fd)[j].conn = Unread(fd)'[i].conn
            \/ Unread(fd)'[i].conn = owner[fd],
         \A fd \in FDs : Unread(fd)' \in Seq(Byte),
         \A c \in Clients : peer[c] # "off" => peer'[c] # "off",
         \A c \in Clients : Waiting(c)' => Waiting(c) \/ peer[c] = "off",
         \A g \in FDs : owner'[g] = owner[g] \/ owner'[g] = NoClient \/ Waiting(owner'[g])
  PROVE  Homes'
<1> SUFFICES ASSUME NEW fd \in FDs, NEW i \in 1 .. Len(Unread(fd)'),
                    NEW c, c = Unread(fd)'[i].conn
             PROVE  /\ peer'[c] # "off" /\ ~ Waiting(c)'
                    /\ \A g \in FDs : owner'[g] = c => g = fd
                    /\ \A g \in FDs : \A j \in 1 .. Len(Unread(g)') :
                         Unread(g)'[j].conn = c => g = fd
  BY DEF Homes
<1>1. c \in Clients /\ c # NoClient
  <2>1. Unread(fd)'[i] \in Byte
    OBVIOUS
  <2> QED
    BY <2>1, FrameFields, ClientAssumption
<1>2. /\ peer[c] # "off" /\ ~ Waiting(c)
      /\ \A g \in FDs : owner[g] = c => g = fd
      /\ \A g \in FDs : \A j \in 1 .. Len(Unread(g)) : Unread(g)[j].conn = c => g = fd
  <2>1. CASE \E j \in 1 .. Len(Unread(fd)) : Unread(fd)[j].conn = c
    BY <2>1 DEF Homes
  <2>2. CASE c = owner[fd]
    BY <1>1, <2>2 DEF Homes, Places
  <2> QED
    BY <2>1, <2>2
<1>3. \A g \in FDs : owner'[g] = c => g = fd
  BY <1>1, <1>2
<1>4. ASSUME NEW g \in FDs, NEW j \in 1 .. Len(Unread(g)'), Unread(g)'[j].conn = c
      PROVE  g = fd
  BY <1>2, <1>4
<1> QED
  BY <1>1, <1>2, <1>3, <1>4

LEMMA OrdersKept ==
  ASSUME Orders, \A fd \in FDs : Unread(fd)' = Unread(fd), UNCHANGED <<inq, executed, nsent>>
  PROVE  Orders'
<1>1. ExecOrder'
  BY DEF Orders, ExecOrder, ExecutedInOrderOnce, After
<1>2. QueueOrder'
  BY DEF Orders, QueueOrder, After
<1>3. BufferOrder'
  BY DEF Orders, BufferOrder, After, Before
<1> QED
  BY <1>1, <1>2, <1>3 DEF Orders

\* A request that is sent comes after all that were.
LEMMA OrdersSend ==
  ASSUME Inv, Orders, \A fd \in FDs : Unread(fd)' = Unread(fd), UNCHANGED executed,
         NEW c \in Clients, NEW f \in Byte, f.conn = c, f.n = nsent[c] + 1,
         nsent' = [nsent EXCEPT ![c] = @ + 1],
         inq' = [inq EXCEPT ![c] = Append(@, f)]
  PROVE  Orders'
<1>1. /\ nsent \in [Clients -> Nat] /\ inq \in [Clients -> Seq(Byte)]
      /\ executed \in [Clients -> Seq(Nat)]
  BY OrderTypes
<1>2. /\ \A d \in Clients : nsent[d] <= nsent'[d] /\ nsent'[d] \in Nat /\ nsent[d] \in Nat
      /\ nsent'[c] = f.n /\ f.n \in Nat
  BY <1>1
<1>3. /\ \A d \in Clients : d # c => inq'[d] = inq[d]
      /\ Len(inq'[c]) = Len(inq[c]) + 1 /\ Len(inq[c]) \in Nat
      /\ \A k \in 1 .. Len(inq[c]) : inq'[c][k] = inq[c][k]
      /\ inq'[c][Len(inq[c]) + 1] = f
  BY <1>1
<1>4. \A d \in Clients : \A k \in 1 .. Len(executed[d]) : executed[d][k] \in Nat
  BY <1>1
<1>5. \A d \in Clients : \A k \in 1 .. Len(inq[d]) : inq[d][k] \in Byte /\ inq[d][k].n \in Nat
  BY <1>1, FrameFields
<1>6. ExecOrder'
  BY <1>2, <1>4 DEF Orders, ExecOrder, ExecutedInOrderOnce, After
<1>7. QueueOrder'
  <2> SUFFICES ASSUME NEW d \in Clients, NEW k \in 1 .. Len(inq'[d])
               PROVE  /\ inq'[d][k].conn = d /\ inq'[d][k].n <= nsent'[d]
                      /\ \A l \in 1 .. Len(executed[d]) : executed[d][l] < inq'[d][k].n
                      /\ \A j \in 1 .. Len(inq'[d]) : j < k => inq'[d][j].n < inq'[d][k].n
    BY DEF QueueOrder, After
  <2>1. CASE d # c
    BY <1>2, <1>3, <1>5, <2>1 DEF Orders, QueueOrder, After
  <2>2. CASE d = c /\ k <= Len(inq[c])
    <3>1. k \in 1 .. Len(inq[c]) /\ inq'[c][k] = inq[c][k]
      BY <1>3, <2>2
    <3>2. \A j \in 1 .. Len(inq'[c]) : j < k => j \in 1 .. Len(inq[c]) /\ inq'[c][j] = inq[c][j]
      BY <1>3, <2>2
    <3> QED
      BY <1>2, <1>5, <2>2, <3>1, <3>2 DEF Orders, QueueOrder, After
  <2>3. CASE d = c /\ k = Len(inq[c]) + 1
    <3>1. inq'[c][k] = f
      BY <1>3, <2>3
    <3>2. \A j \in 1 .. Len(inq'[c]) : j < k => j \in 1 .. Len(inq[c]) /\ inq'[c][j] = inq[c][j]
      BY <1>3, <2>3
    <3>3. \A j \in 1 .. Len(inq[c]) : inq[c][j].n < f.n
      BY <1>2, <1>5 DEF Orders, QueueOrder
    <3> QED
      BY <1>2, <2>3, <3>1, <3>2, <3>3 DEF Orders, ExecOrder, After
  <2> QED
    BY <1>3, <2>1, <2>2, <2>3
<1>8. BufferOrder'
  <2> SUFFICES ASSUME NEW fd \in FDs, NEW i \in 1 .. Len(Unread(fd)),
                      NEW h, h = Unread(fd)[i]
               PROVE  /\ h.n <= nsent'[h.conn]
                      /\ \A l \in 1 .. Len(executed[h.conn]) : executed[h.conn][l] < h.n
                      /\ \A k \in 1 .. Len(inq'[h.conn]) : h.n < inq'[h.conn][k].n
                      /\ \A j \in 1 .. Len(Unread(fd)) :
                           i < j /\ Unread(fd)[j].conn = h.conn => h.n < Unread(fd)[j].n
    BY DEF BufferOrder, After, Before
  <2>1. h \in Byte /\ h.conn \in Clients /\ h.n \in Nat
    BY UnreadTyped, FrameFields
  <2>2. /\ h.n <= nsent[h.conn]
        /\ \A l \in 1 .. Len(executed[h.conn]) : executed[h.conn][l] < h.n
        /\ \A k \in 1 .. Len(inq[h.conn]) : h.n < inq[h.conn][k].n
        /\ \A j \in 1 .. Len(Unread(fd)) :
             i < j /\ Unread(fd)[j].conn = h.conn => h.n < Unread(fd)[j].n
    BY DEF Orders, BufferOrder, After, Before
  <2>3. h.n <= nsent'[h.conn]
    BY <1>2, <2>1, <2>2
  <2>4. ASSUME NEW k \in 1 .. Len(inq'[h.conn]) PROVE h.n < inq'[h.conn][k].n
    <3>1. CASE h.conn # c
      BY <1>3, <2>1, <2>2, <3>1
    <3>2. CASE h.conn = c /\ k <= Len(inq[c])
      BY <1>3, <2>2, <3>2
    <3>3. CASE h.conn = c /\ k = Len(inq[c]) + 1
      BY <1>2, <1>3, <2>1, <2>2, <3>3
    <3> QED
      BY <1>3, <3>1, <3>2, <3>3
  <2> QED
    BY <2>2, <2>3, <2>4
<1> QED
  BY <1>6, <1>7, <1>8 DEF Orders

\* What was not read of a connection that is closed is gone.
LEMMA OrdersClose ==
  ASSUME Inv, Orders, \A fd \in FDs : Unread(fd)' = Unread(fd), UNCHANGED <<executed, nsent>>,
         NEW c \in Clients, inq' = [inq EXCEPT ![c] = <<>>]
  PROVE  Orders'
<1>1. \A d \in Clients : \/ inq'[d] = inq[d]
                         \/ inq'[d] = <<>>
  BY DEF Inv, TypeOK
<1>2. ExecOrder'
  BY DEF Orders, ExecOrder, ExecutedInOrderOnce, After
<1>3. QueueOrder'
  BY <1>1 DEF Orders, QueueOrder, After
<1>4. BufferOrder'
  <2>1. \A fd \in FDs : \A i \in 1 .. Len(Unread(fd)) : Unread(fd)[i].conn \in Clients
    BY UnreadTyped, FrameFields
  <2>2. \A d \in Clients : \A n : Before(d, n) => Before(d, n)'
    BY <1>1 DEF Before
  <2> QED
    BY <2>1, <2>2 DEF Orders, BufferOrder, After
<1> QED
  BY <1>2, <1>3, <1>4 DEF Orders

\* Reading: p requests stay where they were and q come from the front of inq.
\* (p and q are all or nothing: append may refuse what was read, and what it
\* puts into a full readBuff_ takes the place of everything.)
ReadInto(fd, c, n, p, q) ==
  /\ n \in 1 .. Len(inq[c]) /\ p \in 0 .. Len(Unread(fd)) /\ q \in 0 .. n
  /\ inq' = [inq EXCEPT ![c] = SubSeq(@, n + 1, Len(@))]
  /\ Len(Unread(fd)') = p + q
  /\ \A i \in 1 .. p : Unread(fd)'[i] = Unread(fd)[i]
  /\ \A k \in 1 .. q : Unread(fd)'[p + k] = inq[c][k]
  /\ \A g \in FDs : g # fd => Unread(g)' = Unread(g)

\* What is read comes behind what waits there and before what stays in inq.
LEMMA OrdersRead ==
  ASSUME Inv, Orders, UNCHANGED <<executed, nsent>>,
         NEW fd \in FDs, NEW c \in Clients, NEW n, NEW p, NEW q, ReadInto(fd, c, n, p, q)
  PROVE  Orders'
<1> DEFINE Q == inq[c]
           U == Unread(fd)
           Later(d, m) == \A k \in 1 .. Len(inq'[d]) : m < inq'[d][k].n
<1> USE DEF ReadInto
<1> SUFFICES ASSUME NEW W, W = Unread(fd)' PROVE Orders'
  OBVIOUS
<1>1. /\ inq \in [Clients -> Seq(Byte)] /\ nsent \in [Clients -> Nat]
      /\ executed \in [Clients -> Seq(Nat)]
  BY OrderTypes
<1>2. /\ \A d \in Clients : d # c => inq'[d] = inq[d]
      /\ Len(inq'[c]) = Len(Q) - n /\ Len(Q) \in Nat
      /\ \A k \in 1 .. Len(Q) - n : inq'[c][k] = Q[n + k] /\ n + k \in 1 .. Len(Q)
  BY <1>1
<1>3. U \in Seq(Byte) /\ Len(U) \in Nat
  BY UnreadTyped
<1>4. \A i \in 1 .. Len(U) : /\ U[i] \in Byte /\ U[i].conn \in Clients /\ U[i].n \in Nat
                             /\ U[i].n <= nsent[U[i].conn]
                             /\ After(U[i].conn, U[i].n) /\ Before(U[i].conn, U[i].n)
                             /\ \A j \in 1 .. Len(U) :
                                  i < j /\ U[j].conn = U[i].conn => U[i].n < U[j].n
  BY <1>3, FrameFields DEF Orders, BufferOrder
<1>5. \A k \in 1 .. Len(Q) : /\ Q[k] \in Byte /\ Q[k].n \in Nat
                             /\ Q[k].conn = c /\ Q[k].n <= nsent[c] /\ After(c, Q[k].n)
                             /\ \A j \in 1 .. Len(Q) : j < k => Q[j].n < Q[k].n
  <2>1. ASSUME NEW k \in 1 .. Len(Q) PROVE Q[k] \in Byte /\ Q[k].n \in Nat
    <3>1. Q[k] \in Byte
      BY <1>1
    <3> QED
      BY <3>1, FrameFields
  <2>2. \A k \in 1 .. Len(Q) : /\ Q[k].conn = c /\ Q[k].n <= nsent[c] /\ After(c, Q[k].n)
                               /\ \A j \in 1 .. Len(Q) : j < k => Q[j].n < Q[k].n
    BY DEF Orders, QueueOrder
  <2> QED
    BY <2>1, <2>2
<1>6. ExecOrder'
  BY DEF Orders, ExecOrder, ExecutedInOrderOnce, After
<1>7. QueueOrder'
  <2> SUFFICES ASSUME NEW d \in Clients, NEW k \in 1 .. Len(inq'[d])
               PROVE  /\ inq'[d][k].conn = d /\ inq'[d][k].n <= nsent[d]
                      /\ After(d, inq'[d][k].n)
                      /\ \A j \in 1 .. Len(inq'[d]) : j < k => inq'[d][j].n < inq'[d][k].n
    BY DEF QueueOrder, After
  <2>1. CASE d # c
    BY <1>2, <2>1 DEF Orders, QueueOrder
  <2>2. CASE d = c
    <3>0. Len(Q) \in Nat /\ n \in 1 .. Len(Q) /\ Len(inq'[c]) = Len(Q) - n
      BY <1>2
    <3> HIDE DEF Q
    <3>1. /\ k \in 1 .. Len(Q) - n /\ inq'[c][k] = Q[n + k] /\ n + k \in 1 .. Len(Q)
      BY <1>2, <2>2
    <3>2. ASSUME NEW j \in 1 .. Len(inq'[c]), j < k
          PROVE  inq'[c][j].n < inq'[c][k].n
      <4>1. j \in 1 .. Len(Q) - n /\ n + j < n + k
        BY <3>0, <3>1, <3>2
      <4>2. inq'[c][j] = Q[n + j] /\ n + j \in 1 .. Len(Q)
        BY <1>2, <4>1
      <4> QED
        BY <1>5, <3>1, <4>1, <4>2
    <3> QED
      BY <1>5, <2>2, <3>1, <3>2
  <2> QED
    BY <2>1, <2>2
<1>8. \A d \in Clients : \A m : Before(d, m) => Later(d, m)
  <2> SUFFICES ASSUME NEW d \in Clients, NEW m, \A k \in 1 .. Len(inq[d]) : m < inq[d][k].n,
                      NEW k \in 1 .. Len(inq'[d])
               PROVE  m < inq'[d][k].n
    BY DEF Before
  <2>1. CASE d # c
    BY <1>2, <2>1
  <2>2. CASE d = c
    BY <1>2, <2>2
  <2> QED
    BY <2>1, <2>2
<1>9. \A k \in 1 .. n : Later(c, Q[k].n)
  <2> SUFFICES ASSUME NEW k \in 1 .. n, NEW l \in 1 .. Len(inq'[c])
               PROVE  Q[k].n < inq'[c][l].n
    BY DEF Before
  <2> HIDE DEF Q
  <2>1. inq'[c][l] = Q[n + l] /\ n + l \in 1 .. Len(Q) /\ k \in 1 .. Len(Q) /\ k < n + l
    BY <1>2 DEF Q
  <2> QED
    BY <1>5, <2>1
<1>10. ASSUME NEW i \in 1 .. Len(W)
       PROVE  /\ W[i].n <= nsent[W[i].conn]
              /\ After(W[i].conn, W[i].n)
              /\ Later(W[i].conn, W[i].n)
              /\ \A j \in 1 .. Len(W) : i < j /\ W[j].conn = W[i].conn => W[i].n < W[j].n
  <2> HIDE DEF U, Q
  <2>0. /\ Len(W) = p + q /\ p <= Len(U) /\ q <= n /\ n <= Len(Q)
        /\ p \in Nat /\ q \in Nat /\ n \in Nat /\ Len(Q) \in Nat
        /\ \A j \in 1 .. p : W[j] = U[j]
        /\ \A k \in 1 .. q : W[p + k] = Q[k]
    BY DEF U, Q
  <2>1. CASE i <= p
    <3>1. i \in 1 .. Len(U) /\ W[i] = U[i]
      BY <1>3, <2>0, <2>1
    <3>2. ASSUME NEW j \in 1 .. Len(W), i < j, W[j].conn = W[i].conn
          PROVE  W[i].n < W[j].n
      <4>1. CASE j <= p
        <5>1. j \in 1 .. Len(U) /\ W[j] = U[j]
          BY <1>3, <2>0, <4>1
        <5> QED
          BY <1>4, <3>1, <3>2, <5>1
      <4>2. CASE j > p
        <5>1. /\ j - p \in 1 .. q /\ j - p \in 1 .. Len(Q) /\ p + (j - p) = j
          BY <2>0, <4>2
        <5>2. W[j] = Q[j - p]
          BY <2>0, <5>1
        <5>3. U[i].conn = c
          BY <1>5, <3>1, <3>2, <5>1, <5>2
        <5>4. Before(c, U[i].n)
          BY <1>4, <3>1, <5>3
        <5>5. \A k \in 1 .. Len(Q) : U[i].n < Q[k].n
          BY <5>4 DEF Before, Q
        <5> QED
          BY <3>1, <5>1, <5>2, <5>5
      <4> QED
        BY <4>1, <4>2
    <3> QED
      BY <1>4, <1>8, <3>1, <3>2
  <2>2. CASE i > p
    <3>1. /\ i - p \in 1 .. q /\ i - p \in 1 .. n /\ i - p \in 1 .. Len(Q) /\ p + (i - p) = i
      BY <2>0, <2>2
    <3>2. W[i] = Q[i - p]
      BY <2>0, <3>1
    <3>3. ASSUME NEW j \in 1 .. Len(W), i < j, W[j].conn = W[i].conn
          PROVE  W[i].n < W[j].n
      <4>1. /\ j - p \in 1 .. q /\ j - p \in 1 .. Len(Q) /\ p + (j - p) = j /\ i - p < j - p
        BY <2>0, <2>2, <3>3
      <4>2. W[j] = Q[j - p]
        BY <2>0, <4>1
      <4> QED
        BY <1>5, <3>1, <3>2, <4>1, <4>2
    <3>4. W[i].conn = c /\ W[i].n <= nsent[c] /\ After(c, W[i].n)
      BY <1>5, <3>1, <3>2
    <3>5. Later(c, W[i].n)
      BY <1>9, <3>1, <3>2
    <3> QED
      BY <3>3, <3>4, <3>5
  <2> QED
    BY <2>1, <2>2
<1>11. BufferOrder'
  <2> SUFFICES ASSUME NEW g \in FDs, NEW i \in 1 .. Len(Unread(g)'),
                      NEW f, f = Unread(g)'[i]
               PROVE  /\ f.n <= nsent[f.conn] /\ After(f.conn, f.n) /\ Later(f.conn, f.n)
                      /\ \A j \in 1 .. Len(Unread(g)') :
                           i < j /\ Unread(g)'[j].conn = f.conn => f.n < Unread(g)'[j].n
    BY DEF BufferOrder, After, Before
  <2>1. CASE g = fd
    BY <1>10, <2>1
  <2>2. CASE g # fd
    <3>1. Unread(g)' = Unread(g) /\ Unread(g)[i] \in Byte
      BY <2>2, UnreadTyped
    <3>2. f.conn \in Clients
      BY <3>1, FrameFields
    <3>3. /\ f.n <= nsent[f.conn] /\ After(f.conn, f.n) /\ Before(f.conn, f.n)
          /\ \A j \in 1 .. Len(Unread(g)) :
               i < j /\ Unread(g)[j].conn = f.conn => f.n < Unread(g)[j].n
      BY <3>1 DEF Orders, BufferOrder
    <3>4. Later(f.conn, f.n)
      BY <1>8, <3>2, <3>3
    <3> QED
      BY <3>1, <3>3, <3>4
  <2> QED
    BY <2>1, <2>2
<1> QED
  BY <1>6, <1>7, <1>11 DEF Orders

\* Processing: the first p requests go, and the last of them may be executed.
LEMMA OrdersProcess ==
  ASSUME Inv, Orders, Homes, UNCHANGED <<inq, nsent>>,
         NEW fd \in FDs,
         \A g \in FDs : g # fd => Unread(g)' = Unread(g),
         NEW p \in 0 .. Len(Unread(fd)),
         Len(Unread(fd)') = Len(Unread(fd)) - p,
         \A i \in 1 .. Len(Unread(fd)') : Unread(fd)'[i] = Unread(fd)[p + i],
         \/ UNCHANGED executed
         \/ /\ p > 0
            /\ executed' = [executed EXCEPT ![Unread(fd)[p].conn] = Append(@, Unread(fd)[p].n)]
  PROVE  Orders'
<1> DEFINE U == Unread(fd)
           f == U[p]
           Later(d, m) == \A k \in 1 .. Len(executed'[d]) : executed'[d][k] < m
<1> SUFFICES ASSUME NEW W, W = Unread(fd)' PROVE Orders'
  OBVIOUS
<1>1. /\ inq \in [Clients -> Seq(Byte)] /\ nsent \in [Clients -> Nat]
      /\ executed \in [Clients -> Seq(Nat)]
  BY OrderTypes
<1>2. U \in Seq(Byte) /\ Len(U) \in Nat /\ p \in Nat /\ p <= Len(U)
  BY UnreadTyped
<1>3. \A i \in 1 .. Len(U) : /\ U[i] \in Byte /\ U[i].conn \in Clients /\ U[i].n \in Nat
                             /\ U[i].n <= nsent[U[i].conn]
                             /\ After(U[i].conn, U[i].n) /\ Before(U[i].conn, U[i].n)
                             /\ \A j \in 1 .. Len(U) :
                                  i < j /\ U[j].conn = U[i].conn => U[i].n < U[j].n
  BY <1>2, FrameFields DEF Orders, BufferOrder
<1>4. /\ Len(W) = Len(U) - p
      /\ \A i \in 1 .. Len(W) : W[i] = U[p + i] /\ p + i \in 1 .. Len(U) /\ p < p + i
  <2>1. Len(W) = Len(U) - p /\ \A i \in 1 .. Len(W) : W[i] = U[p + i]
    OBVIOUS
  <2> HIDE DEF U
  <2> QED
    BY <1>2, <2>1
<1>5. ASSUME NEW d \in Clients, NEW m \in Nat, After(d, m),
             p > 0 /\ d = f.conn => f.n < m
      PROVE  Later(d, m)
  <2>1. CASE UNCHANGED executed
    BY <1>5, <2>1 DEF After
  <2>2. CASE p > 0 /\ executed' = [executed EXCEPT ![f.conn] = Append(@, f.n)]
    <3>1. p \in 1 .. Len(U) /\ f.conn \in Clients /\ f.n \in Nat
      BY <1>2, <1>3, <2>2
    <3> HIDE DEF f
    <3>2. CASE d = f.conn
      <4>1. executed'[d] = Append(executed[d], f.n) /\ executed[d] \in Seq(Nat)
        BY <1>1, <2>2, <3>2
      <4>2. /\ Len(executed'[d]) = Len(executed[d]) + 1 /\ Len(executed[d]) \in Nat
            /\ \A k \in 1 .. Len(executed[d]) : executed'[d][k] = executed[d][k]
            /\ executed'[d][Len(executed[d]) + 1] = f.n
        BY <3>1, <4>1, Appended
      <4>3. f.n < m /\ \A k \in 1 .. Len(executed[d]) : executed[d][k] < m
        BY <1>5, <2>2, <3>2 DEF After
      <4> SUFFICES ASSUME NEW k \in 1 .. Len(executed'[d]) PROVE executed'[d][k] < m
        OBVIOUS
      <4>4. k \in 1 .. Len(executed[d]) \/ k = Len(executed[d]) + 1
        BY <4>2
      <4> QED
        BY <4>2, <4>3, <4>4
    <3>3. CASE d # f.conn
      BY <1>1, <1>5, <2>2, <3>3 DEF After
    <3> QED
      BY <3>2, <3>3
  <2> QED
    BY <2>1, <2>2
<1>6. ExecOrder'
  <2>1. ASSUME NEW d \in Clients PROVE Later(d, nsent[d] + 1)
    <3>1. nsent[d] + 1 \in Nat /\ After(d, nsent[d] + 1)
      BY <1>1 DEF Orders, ExecOrder
    <3>2. ASSUME p > 0, d = f.conn PROVE f.n < nsent[d] + 1
      <4>1. p \in 1 .. Len(U)
        BY <1>2, <3>2
      <4> QED
        BY <1>1, <1>3, <3>2, <4>1
    <3> HIDE DEF f
    <3> QED
      BY <1>5, <3>1, <3>2
  <2>2. ExecutedInOrderOnce'
    <3>1. CASE UNCHANGED executed
      BY <3>1 DEF Orders, ExecOrder, ExecutedInOrderOnce
    <3>2. CASE p > 0 /\ executed' = [executed EXCEPT ![f.conn] = Append(@, f.n)]
      <4>1. p \in 1 .. Len(U) /\ f.conn \in Clients /\ f.n \in Nat /\ After(f.conn, f.n)
        BY <1>2, <1>3, <3>2
      <4> HIDE DEF f
      <4>2. \A c \in Clients : \A i, j \in 1 .. Len(executed[c]) :
              i < j => executed[c][i] < executed[c][j]
        BY DEF Orders, ExecOrder, ExecutedInOrderOnce
      <4> SUFFICES ASSUME NEW c \in Clients, NEW i \in 1 .. Len(executed'[c]),
                          NEW j \in 1 .. Len(executed'[c]), i < j
                   PROVE  executed'[c][i] < executed'[c][j]
        BY DEF ExecutedInOrderOnce
      <4>3. CASE c # f.conn
        BY <1>1, <3>2, <4>2, <4>3
      <4>4. CASE c = f.conn
        <5>1. executed'[c] = Append(executed[c], f.n) /\ executed[c] \in Seq(Nat)
          BY <1>1, <3>2, <4>4
        <5>0. /\ Len(executed'[c]) = Len(executed[c]) + 1 /\ Len(executed[c]) \in Nat
              /\ \A k \in 1 .. Len(executed[c]) : executed'[c][k] = executed[c][k]
              /\ executed'[c][Len(executed[c]) + 1] = f.n
          BY <4>1, <5>1, Appended
        <5>2. i \in 1 .. Len(executed[c])
          BY <5>0
        <5>3. CASE j = Len(executed[c]) + 1
          BY <4>1, <4>4, <5>0, <5>2, <5>3 DEF After
        <5>4. CASE j # Len(executed[c]) + 1
          <6>1. j \in 1 .. Len(executed[c])
            BY <5>0, <5>4
          <6> QED
            BY <4>2, <5>0, <5>2, <6>1
        <5> QED
          BY <5>3, <5>4
      <4> QED
        BY <4>3, <4>4
    <3> QED
      BY <3>1, <3>2
  <2> QED
    BY <2>1, <2>2 DEF ExecOrder, After
<1>7. QueueOrder'
  <2>1. ASSUME NEW c \in Clients, NEW k \in 1 .. Len(inq[c]) PROVE Later(c, inq[c][k].n)
    <3>1. inq[c][k].n \in Nat /\ After(c, inq[c][k].n)
      BY <1>1, FrameFields DEF Orders, QueueOrder
    <3>2. ASSUME p > 0, c = f.conn PROVE f.n < inq[c][k].n
      <4>1. p \in 1 .. Len(U)
        BY <1>2, <3>2
      <4> QED
        BY <1>3, <3>2, <4>1 DEF Before
    <3> HIDE DEF f
    <3> QED
      BY <1>5, <3>1, <3>2
  <2> QED
    BY <2>1 DEF Orders, QueueOrder, After
<1>8. ASSUME NEW i \in 1 .. Len(W)
      PROVE  /\ W[i].n <= nsent[W[i].conn]
             /\ Later(W[i].conn, W[i].n) /\ Before(W[i].conn, W[i].n)
             /\ \A j \in 1 .. Len(W) : i < j /\ W[j].conn = W[i].conn => W[i].n < W[j].n
  <2>1. W[i] = U[p + i] /\ p + i \in 1 .. Len(U) /\ p < p + i
    BY <1>4
  <2>2. ASSUME p > 0, U[p + i].conn = f.conn PROVE f.n < U[p + i].n
    <3>1. p \in 1 .. Len(U)
      BY <1>2, <2>2
    <3> QED
      BY <1>3, <2>1, <2>2, <3>1
  <2>3. Later(U[p + i].conn, U[p + i].n)
    <3>1. /\ U[p + i].conn \in Clients /\ U[p + i].n \in Nat
          /\ After(U[p + i].conn, U[p + i].n)
      BY <1>3, <2>1
    <3> HIDE DEF f, U
    <3> QED
      BY <1>5, <2>2, <3>1
  <2>4. ASSUME NEW j \in 1 .. Len(W), i < j, W[j].conn = W[i].conn PROVE W[i].n < W[j].n
    <3>1. W[j] = U[p + j] /\ p + j \in 1 .. Len(U) /\ p + i < p + j
      BY <1>2, <1>4, <2>4
    <3> HIDE DEF U, f
    <3> QED
      BY <1>3, <2>1, <2>4, <3>1
  <2> QED
    BY <1>3, <2>1, <2>3, <2>4
<1>9. BufferOrder'
  <2> SUFFICES ASSUME NEW g \in FDs, NEW i \in 1 .. Len(Unread(g)'),
                      NEW h, h = Unread(g)'[i]
               PROVE  /\ h.n <= nsent[h.conn] /\ Later(h.conn, h.n) /\ Before(h.conn, h.n)
                      /\ \A j \in 1 .. Len(Unread(g)') :
                           i < j /\ Unread(g)'[j].conn = h.conn => h.n < Unread(g)'[j].n
    BY DEF BufferOrder, After, Before
  <2>1. CASE g = fd
    BY <1>8, <2>1
  <2>2. CASE g # fd
    <3>1. Unread(g)' = Unread(g) /\ Unread(g)[i] \in Byte
      BY <2>2, UnreadTyped
    <3>2. h.conn \in Clients /\ h.n \in Nat
      BY <3>1, FrameFields
    <3>3. /\ h.n <= nsent[h.conn] /\ After(h.conn, h.n) /\ Before(h.conn, h.n)
          /\ \A j \in 1 .. Len(Unread(g)) :
               i < j /\ Unread(g)[j].conn = h.conn => h.n < Unread(g)[j].n
      BY <3>1 DEF Orders, BufferOrder
    <3>4. ASSUME p > 0, h.conn = f.conn PROVE FALSE
      <4>1. p \in 1 .. Len(U)
        BY <1>2, <3>4
      <4> QED
        BY <2>2, <3>1, <3>4, <4>1 DEF Homes
    <3> HIDE DEF f
    <3>5. Later(h.conn, h.n)
      BY <1>5, <3>2, <3>3, <3>4
    <3> QED
      BY <3>1, <3>3, <3>5
  <2> QED
    BY <2>1, <2>2
<1> QED
  BY <1>6, <1>7, <1>9 DEF Orders

-----------------------------------------------------------------------------
(* Steps that move no request from a buffer or into one.                   *)

LEMMA UnreadTypedNext == ASSUME Inv', NEW fd \in FDs PROVE Unread(fd)' \in Seq(Byte)
<1>1. readBuff_'[fd] \in Buffer /\ Written(readBuff_'[fd])
  BY DEF Inv, TypeOK, ReadBuffersWritten
<1>2. Readable(readBuff_'[fd]) \in Seq(Byte)
  BY <1>1, ReadableTyped
<1> QED
  BY <1>2 DEF Unread

\* Requests stay where they are, and so do the connections.
LEMMA HomesStay ==
  ASSUME Inv, Inv', Homes, Places, UNCHANGED <<peer, backlog, owner>>,
         \A fd \in FDs : \A i \in 1 .. Len(Unread(fd)') :
            \/ \E j \in 1 .. Len(Unread(fd)) : Unread(fd)[j].conn = Unread(fd)'[i].conn
            \/ Unread(fd)'[i].conn = owner[fd]
  PROVE  Homes' /\ Places'
<1>1. \A c \in Clients : Waiting(c)' <=> Waiting(c)
  BY DEF Waiting
<1>2. Places'
  BY <1>1 DEF Places
<1>3. Homes'
  BY <1>1, HomesMove, UnreadTypedNext
<1> QED
  BY <1>2, <1>3

LEMMA Quiet ==
  ASSUME Inv, Inv', OrderInv,
         UNCHANGED <<peer, inq, backlog, owner, nsent, readBuff_, executed>>,
         \A fd \in FDs : Fresh(fd)' <=> Fresh(fd),
         ToRead'
  PROVE  OrderInv'
<1>1. \A fd \in FDs : Unread(fd)' = Unread(fd)
  BY UnreadKept
<1>2. Orders'
  BY <1>1, OrdersKept DEF OrderInv
<1>3. Homes' /\ Places'
  <2>1. \A fd \in FDs : \A i \in 1 .. Len(Unread(fd)') :
          \E j \in 1 .. Len(Unread(fd)) : Unread(fd)[j].conn = Unread(fd)'[i].conn
    BY <1>1
  <2> QED
    BY <2>1, HomesStay DEF OrderInv
<1> QED
  BY <1>2, <1>3 DEF OrderInv

\* The clients' steps but Send, and Accept: connections begin, move or end.
LEMMA Moving ==
  ASSUME Inv, Inv', OrderInv,
         UNCHANGED <<inq, nsent, readBuff_, executed>>,
         \A fd \in FDs : Fresh(fd)' <=> Fresh(fd),
         \A c \in Clients : peer[c] # "off" => peer'[c] # "off",
         \A c \in Clients : Waiting(c)' => Waiting(c) \/ peer[c] = "off",
         \A g \in FDs : owner'[g] = owner[g] \/ owner'[g] = NoClient \/ Waiting(owner'[g]),
         Places', ToRead'
  PROVE  OrderInv'
<1>1. \A fd \in FDs : Unread(fd)' = Unread(fd)
  BY UnreadKept
<1>2. Orders'
  BY <1>1, OrdersKept DEF OrderInv
<1>3. Homes'
  <2>1. \A fd \in FDs : \A i \in 1 .. Len(Unread(fd)') :
          \E j \in 1 .. Len(Unread(fd)) : Unread(fd)[j].conn = Unread(fd)'[i].conn
    BY <1>1
  <2> QED
    BY <2>1, HomesMove, UnreadTypedNext DEF OrderInv
<1> QED
  BY <1>2, <1>3 DEF OrderInv

LEMMA ConnectOrder ==
  ASSUME Inv, Inv', OrderInv, NEW c \in Clients, Connect(c) PROVE OrderInv'
<1>1. /\ peer[c] = "off" /\ peer' = [peer EXCEPT ![c] = "est"]
      /\ backlog' = Append(backlog, c)
      /\ UNCHANGED <<inq, owner, nsent, readBuff_, executed, pc, cur, sum, batch>>
  BY DEF Connect
<1>2. /\ backlog \in Seq(Clients)
      /\ peer' \in [Clients -> PeerState]
      /\ peer'[c] = "est" /\ \A d \in Clients : d # c => peer'[d] = peer[d]
      /\ \A g \in FDs : owner[g] # NoClient => owner[g] \in Clients
  BY <1>1 DEF Inv, TypeOK
<1>3. /\ Len(backlog') = Len(backlog) + 1 /\ Len(backlog) \in Nat
      /\ \A i \in 1 .. Len(backlog) : backlog'[i] = backlog[i] /\ backlog[i] \in Clients
      /\ backlog'[Len(backlog) + 1] = c
  BY <1>1, <1>2
<1>4. ~ Waiting(c)
  BY <1>1 DEF OrderInv, Places
<1>5. \A d : Waiting(d)' => Waiting(d) \/ d = c
  BY <1>3 DEF Waiting
<1>6. Places'
  <2>1. ASSUME NEW i \in 1 .. Len(backlog'), NEW j \in 1 .. Len(backlog'),
               backlog'[i] = backlog'[j]
        PROVE  i = j
    <3>1. CASE i = Len(backlog) + 1 /\ j # i
      BY <1>3, <1>4, <2>1, <3>1 DEF Waiting
    <3>2. CASE j = Len(backlog) + 1 /\ j # i
      BY <1>3, <1>4, <2>1, <3>2 DEF Waiting
    <3>3. CASE i # Len(backlog) + 1 /\ j # Len(backlog) + 1
      BY <1>3, <2>1, <3>3 DEF OrderInv, Places
    <3> QED
      BY <3>1, <3>2, <3>3
  <2>2. \A g \in FDs : owner[g] # c
    BY <1>1, ClientAssumption DEF OrderInv, Places
  <2>3. \A d \in Clients : Waiting(d)' => peer'[d] # "off" /\ \A g \in FDs : owner[g] # d
    BY <1>2, <1>5, <2>2 DEF OrderInv, Places
  <2>4. \A g \in FDs : owner[g] # NoClient => peer'[owner[g]] # "off"
    BY <1>2 DEF OrderInv, Places
  <2> QED
    BY <1>1, <2>1, <2>3, <2>4 DEF OrderInv, Places
<1>7. ToRead' /\ \A fd \in FDs : Fresh(fd)' <=> Fresh(fd)
  BY <1>1 DEF OrderInv, ToRead, Fresh
<1>8. \A d \in Clients : peer[d] # "off" => peer'[d] # "off"
  BY <1>2
<1>9. \A d \in Clients : Waiting(d)' => Waiting(d) \/ peer[d] = "off"
  BY <1>1, <1>5
<1> QED
  BY <1>1, <1>6, <1>7, <1>8, <1>9, Moving

LEMMA SendOrder ==
  ASSUME Inv, Inv', OrderInv, NEW c \in Clients, Send(c) PROVE OrderInv'
<1>1. PICK k \in Kinds :
        inq' = [inq EXCEPT ![c] = Append(@, [conn |-> c, n |-> nsent[c] + 1, kind |-> k])]
  BY DEF Send
<1>2. /\ nsent' = [nsent EXCEPT ![c] = @ + 1] /\ nsent[c] < MaxReq
      /\ UNCHANGED <<peer, backlog, owner, readBuff_, executed, pc, cur, sum, batch>>
  BY DEF Send
<1>3. nsent[c] + 1 \in 1 .. MaxReq
  BY <1>2, BoundAssumption DEF Inv, TypeOK
<1>4. [conn |-> c, n |-> nsent[c] + 1, kind |-> k] \in Byte
  BY <1>3, FrameAssumption
<1>5. \A fd \in FDs : Fresh(fd)' <=> Fresh(fd)
  BY <1>2 DEF Fresh
<1>6. \A fd \in FDs : Unread(fd)' = Unread(fd)
  BY <1>2, <1>5, UnreadKept
<1>7. Orders'
  <2> DEFINE f == [conn |-> c, n |-> nsent[c] + 1, kind |-> k]
  <2>1. f.conn = c /\ f.n = nsent[c] + 1 /\ f \in Byte
    BY <1>4
  <2>2. inq' = [inq EXCEPT ![c] = Append(@, f)]
    BY <1>1
  <2> HIDE DEF f
  <2> QED
    BY <1>2, <1>6, <2>1, <2>2, OrdersSend DEF OrderInv
<1>8. Homes' /\ Places'
  <2>1. \A fd \in FDs : \A i \in 1 .. Len(Unread(fd)') :
          \E j \in 1 .. Len(Unread(fd)) : Unread(fd)[j].conn = Unread(fd)'[i].conn
    BY <1>6
  <2> QED
    BY <1>2, <2>1, HomesStay DEF OrderInv
<1>9. ToRead'
  <2>1. \A d : inq[d] # <<>> => inq'[d] # <<>>
    <3>1. inq \in [Clients -> Seq(Byte)]
      BY DEF Inv, TypeOK
    <3> DEFINE f == [conn |-> c, n |-> nsent[c] + 1, kind |-> k]
    <3>2. f \in Byte /\ inq' = [inq EXCEPT ![c] = Append(@, f)]
      BY <1>1, <1>4
    <3> HIDE DEF f
    <3>3. inq'[c] # <<>>
      BY <3>1, <3>2
    <3>4. DOMAIN inq = Clients /\ DOMAIN inq' = Clients
      BY <3>1, <3>2
    <3>5. \A d \in Clients : d # c => inq'[d] = inq[d]
      BY <3>1, <3>2
    <3>6. \A d : d # c => inq'[d] = inq[d]
      BY <3>2
    <3> QED
      BY <3>3, <3>6
  <2> QED
    BY <1>2, <2>1 DEF OrderInv, ToRead
<1> QED
  BY <1>7, <1>8, <1>9 DEF OrderInv

LEMMA HangUpOrder ==
  ASSUME Inv, Inv', OrderInv, NEW c \in Clients, Shutdown(c) \/ Abort(c) PROVE OrderInv'
<1>1. UNCHANGED <<inq, backlog, owner, nsent, readBuff_, executed, pc, cur, sum, batch>>
  BY DEF Shutdown, Abort
<1>2. \A d \in Clients : (peer'[d] = "off") <=> (peer[d] = "off")
  BY DEF Inv, TypeOK, Shutdown, Abort
<1>3. \A d : Waiting(d)' <=> Waiting(d)
  BY <1>1 DEF Waiting
<1>4. \A g \in FDs : owner[g] # NoClient => owner[g] \in Clients
  BY DEF Inv, TypeOK
<1>5. Places'
  BY <1>1, <1>2, <1>3, <1>4 DEF OrderInv, Places
<1>6. ToRead' /\ \A fd \in FDs : Fresh(fd)' <=> Fresh(fd)
  BY <1>1 DEF OrderInv, ToRead, Fresh
<1> QED
  BY <1>1, <1>2, <1>3, <1>5, <1>6, Moving

\* The loop's steps that only take events, or look at what is to be written.
LEMMA LoopOrder ==
  ASSUME Inv, Inv', OrderInv,
         EpollWait \/ DispatchListen \/ DispatchRead \/ EndDispatch \/ AcceptFails
  PROVE  OrderInv'
<1>1. UNCHANGED <<peer, inq, backlog, owner, nsent, readBuff_, executed>>
  BY DEF EpollWait, DispatchListen, DispatchRead, EndDispatch, AcceptFails
<1>2. \A fd \in FDs : Fresh(fd)' <=> Fresh(fd)
  <2>1. pc \notin {"read", "process"}
    BY DEF EpollWait, DispatchListen, DispatchRead, EndDispatch, AcceptFails
  <2>2. pc' # "process" /\ (pc' = "read" => sum' = 0)
    BY DEF EpollWait, DispatchListen, DispatchRead, EndDispatch, AcceptFails
  <2> QED
    BY <2>1, <2>2 DEF Fresh
<1>3. ToRead'
  <2>1. CASE EpollWait
    <3>1. ASSUME NEW e \in batch', e.fd # listenFd_, ~ e.hup PROVE inq[owner[e.fd]] # <<>>
      <4>1. CASE e = [fd |-> listenFd_, hup |-> FALSE, conn |-> NoClient]
        BY <3>1, <4>1
      <4>2. CASE /\ e.fd \in Ready
                 /\ e = [fd |-> e.fd, hup |-> HungUp(owner[e.fd]), conn |-> owner[e.fd]]
        BY <3>1, <4>2 DEF Ready
      <4> QED
        BY <2>1, <4>1, <4>2, BatchOfWait
    <3>2. pc' = "dispatch"
      BY <2>1 DEF EpollWait
    <3> QED
      BY <1>1, <3>1, <3>2 DEF ToRead
  <2>2. CASE DispatchRead
    <3>1. PICK e \in batch : /\ e.fd # listenFd_ /\ ~ e.hup
                             /\ batch' = batch \ {e} /\ cur' = e.fd
      BY <2>2 DEF DispatchRead, Taken
    <3> QED
      BY <1>1, <3>1 DEF OrderInv, ToRead
  <2>3. CASE DispatchListen \/ EndDispatch \/ AcceptFails
    <3>1. batch' \subseteq batch /\ pc' # "read"
      BY <2>3 DEF DispatchListen, EndDispatch, AcceptFails, Taken
    <3> QED
      BY <1>1, <3>1 DEF OrderInv, ToRead
  <2> QED
    BY <2>1, <2>2, <2>3
<1> QED
  BY <1>1, <1>2, <1>3, Quiet

LEMMA WriteOrder ==
  ASSUME Inv, Inv', OrderInv, WriteBegin \/ WriteDone \/ WriteRound PROVE OrderInv'
<1>1. /\ UNCHANGED <<peer, inq, backlog, owner, nsent, readBuff_, executed, batch>>
      /\ pc = "write" /\ pc' \in {"wait", "write", "killed"}
  BY DEF WriteBegin, WriteDone, WriteRound
<1>2. ToRead' /\ \A fd \in FDs : Fresh(fd)' <=> Fresh(fd)
  BY <1>1 DEF OrderInv, ToRead, Fresh
<1> QED
  BY <1>1, <1>2, Quiet

\* A read that ends without data had some before it: what is readable then was
\* read for this event.
LEMMA ReadEndsOrder == ASSUME Inv, Inv', OrderInv, ReadEnds PROVE OrderInv'
<1>1. pc = "read" /\ inq[owner[cur]] = <<>> /\ sum \in Nat
  BY DEF Inv, TypeOK, ReadEnds
<1>2. sum > 0
  BY <1>1 DEF OrderInv, ToRead
<1>3. /\ pc' = "process"
      /\ UNCHANGED <<peer, inq, backlog, owner, nsent, readBuff_, executed, batch, cur, sum>>
  BY <1>1, <1>2 DEF ReadEnds
<1>4. ToRead' /\ \A fd \in FDs : Fresh(fd)' <=> Fresh(fd)
  BY <1>1, <1>2, <1>3 DEF OrderInv, ToRead, Fresh
<1> QED
  BY <1>3, <1>4, Quiet

\* The other events of a batch are for other connections.
LEMMA OthersInBatch ==
  ASSUME Inv, Places, NEW fd \in FDs, owner[fd] # NoClient, NEW e \in batch,
         e.fd # fd, e.fd # listenFd_
  PROVE  e.fd \in FDs /\ owner[e.fd] # owner[fd]
BY DEF Inv, TypeOK, Event, BatchFresh, Places

LEMMA DispatchCloseOrder == ASSUME Inv, Inv', OrderInv, DispatchClose PROVE OrderInv'
<1>1. PICK e \in batch : /\ e.fd # listenFd_ /\ batch' = batch \ {e}
                         /\ CloseConn_(e.fd)
  BY DEF DispatchClose, Taken
<1>2. /\ UNCHANGED <<peer, backlog, nsent, readBuff_, executed, pc, cur, sum>>
      /\ pc = "dispatch"
  BY DEF DispatchClose
<1>3. /\ e.fd \in FDs /\ owner[e.fd] \in Clients
      /\ owner' = [owner EXCEPT ![e.fd] = NoClient]
      /\ inq' = [inq EXCEPT ![owner[e.fd]] = <<>>]
      /\ owner \in [FDs -> Clients \cup {NoClient}] /\ inq \in [Clients -> Seq(Byte)]
  BY <1>1 DEF Inv, TypeOK, Event, BatchFresh, CloseConn_
<1>4. \A g \in FDs : \/ owner'[g] = owner[g]
                     \/ owner'[g] = NoClient
  BY <1>3
<1>5. \A fd \in FDs : Unread(fd)' = Unread(fd)
  <2>1. \A fd \in FDs : Fresh(fd)' <=> Fresh(fd)
    BY <1>2 DEF Fresh
  <2> QED
    BY <1>2, <2>1, UnreadKept
<1>6. Orders'
  BY <1>2, <1>3, <1>5, OrdersClose DEF OrderInv
<1>7. Places'
  <2>1. \A c : Waiting(c)' <=> Waiting(c)
    BY <1>2 DEF Waiting
  <2> QED
    BY <1>2, <1>4, <2>1, ClientAssumption DEF OrderInv, Places
<1>8. Homes'
  <2>1. \A fd \in FDs : \A i \in 1 .. Len(Unread(fd)') :
          \E j \in 1 .. Len(Unread(fd)) : Unread(fd)[j].conn = Unread(fd)'[i].conn
    BY <1>5
  <2>2. \A c : Waiting(c)' <=> Waiting(c)
    BY <1>2 DEF Waiting
  <2>3. \A c \in Clients : peer[c] # "off" => peer'[c] # "off"
    BY <1>2
  <2> QED
    BY <1>4, <2>1, <2>2, <2>3, HomesMove, UnreadTypedNext DEF OrderInv
<1>9. ToRead'
  <2>1. ASSUME NEW f \in batch', f.fd # listenFd_, ~ f.hup
        PROVE  inq'[owner'[f.fd]] # <<>>
    <3>1. f \in batch /\ f.fd # e.fd
      BY <1>1, <2>1 DEF Inv, BatchFresh
    <3>2. f.fd \in FDs /\ owner[f.fd] # owner[e.fd]
      BY <1>3, <2>1, <3>1, OthersInBatch, ClientAssumption DEF OrderInv
    <3>3. owner[f.fd] \in Clients
      BY <1>3, <2>1, <3>1, <3>2 DEF Inv, BatchFresh
    <3>4. owner'[f.fd] = owner[f.fd] /\ inq'[owner[f.fd]] = inq[owner[f.fd]]
      BY <1>3, <3>1, <3>2, <3>3
    <3> QED
      BY <2>1, <3>1, <3>4 DEF OrderInv, ToRead
  <2> QED
    BY <1>2, <2>1 DEF ToRead
<1> QED
  BY <1>6, <1>7, <1>8, <1>9 DEF OrderInv

LEMMA AcceptOrder == ASSUME Inv, Inv', OrderInv, Accept PROVE OrderInv'
<1>1. /\ backlog \in Seq(Clients) /\ backlog # <<>> /\ backlog' = Tail(backlog)
      /\ UNCHANGED <<inq, nsent, readBuff_, executed, batch, cur, sum>>
      /\ pc = "accept" /\ pc' = "accept"
  BY DEF Inv, TypeOK, Accept, AfterAccept
<1>2. PICK fd \in FDs :
        /\ owner[fd] = NoClient
        /\ \/ peer' = [peer EXCEPT ![Head(backlog)] = "refused"] /\ UNCHANGED owner
           \/ owner' = [owner EXCEPT ![fd] = Head(backlog)] /\ UNCHANGED peer
  BY DEF Accept, Free
<1>3. /\ Len(backlog) \in Nat /\ Len(backlog) > 0 /\ Len(backlog') = Len(backlog) - 1
      /\ Head(backlog) = backlog[1] /\ Head(backlog) \in Clients
      /\ \A i \in 1 .. Len(backlog') : backlog'[i] = backlog[i + 1] /\ i + 1 \in 1 .. Len(backlog)
  BY <1>1
<1> DEFINE c == Head(backlog)
<1>4. Waiting(c) /\ c # NoClient
  BY <1>3, ClientAssumption DEF Waiting
<1>5. \A d : Waiting(d)' => Waiting(d) /\ d # c
  <2>1. SUFFICES ASSUME NEW i \in 1 .. Len(backlog')
                 PROVE  Waiting(backlog'[i]) /\ backlog'[i] # c
    BY DEF Waiting
  <2>2. Waiting(backlog'[i])
    BY <1>3 DEF Waiting
  <2>3. backlog'[i] # c
    <3>1. i + 1 \in 1 .. Len(backlog) /\ 1 \in 1 .. Len(backlog) /\ i + 1 # 1
      BY <1>3
    <3> QED
      BY <1>3, <3>1 DEF OrderInv, Places
  <2> QED
    BY <2>2, <2>3
<1>6. /\ owner \in [FDs -> Clients \cup {NoClient}] /\ peer \in [Clients -> PeerState]
      /\ \A g \in FDs : g # fd => owner'[g] = owner[g]
      /\ owner'[fd] \in {NoClient, c}
  BY <1>2 DEF Inv, TypeOK
<1>7. \A d \in Clients : peer[d] # "off" => peer'[d] # "off"
  BY <1>2, <1>6
<1> HIDE DEF c
<1>8. Places'
  <2>1. ASSUME NEW i \in 1 .. Len(backlog'), NEW j \in 1 .. Len(backlog'),
               backlog'[i] = backlog'[j]
        PROVE  i = j
    <3>1. /\ backlog[i + 1] = backlog[j + 1]
          /\ i + 1 \in 1 .. Len(backlog) /\ j + 1 \in 1 .. Len(backlog)
      BY <1>3, <2>1
    <3>2. i + 1 = j + 1
      BY <3>1 DEF OrderInv, Places
    <3> QED
      BY <1>3, <3>2
  <2>2. ASSUME NEW d \in Clients, Waiting(d)'
        PROVE  peer'[d] # "off" /\ \A g \in FDs : owner'[g] # d
    <3>1. peer[d] # "off" /\ \A g \in FDs : owner[g] # d
      BY <1>5, <2>2 DEF OrderInv, Places
    <3> QED
      BY <1>5, <1>6, <1>7, <2>2, <3>1, ClientAssumption
  <2>3. \A g \in FDs : owner[g] # c
    BY <1>3, <1>4 DEF OrderInv, Places, c
  <2>4. \A g, h \in FDs : owner'[g] = owner'[h] /\ owner'[g] # NoClient => g = h
    BY <1>6, <2>3 DEF OrderInv, Places
  <2>5. \A g \in FDs : owner'[g] # NoClient => peer'[owner'[g]] # "off"
    <3>1. peer[c] # "off" /\ c \in Clients
      BY <1>3, <1>4 DEF OrderInv, Places, c
    <3> QED
      BY <1>6, <1>7, <3>1 DEF OrderInv, Places
  <2> QED
    BY <2>1, <2>2, <2>4, <2>5 DEF Places
<1>9. ToRead'
  <2>1. ASSUME NEW e \in batch, e.fd # listenFd_ PROVE owner'[e.fd] = owner[e.fd]
    <3>1. e.fd \in FDs /\ owner[e.fd] # NoClient
      BY <2>1 DEF Inv, TypeOK, Event, BatchFresh
    <3> QED
      BY <1>2, <1>6, <3>1
  <2> QED
    BY <1>1, <2>1 DEF OrderInv, ToRead
<1>10. \A g \in FDs : Fresh(g)' <=> Fresh(g)
  BY <1>1 DEF Fresh
<1>11. \A g \in FDs : owner'[g] = owner[g] \/ owner'[g] = NoClient \/ Waiting(owner'[g])
  BY <1>4, <1>6
<1> QED
  BY <1>1, <1>5, <1>7, <1>8, <1>9, <1>10, <1>11, Moving

-----------------------------------------------------------------------------
(* Steps that move requests.                                               *)

LEMMA ReadDataOrder == ASSUME Inv, Inv', OrderInv, ReadData PROVE OrderInv'
<1> DEFINE c    == owner[cur]
           n    == Lesser(Len(inq[c]), FRAME_MAX_LEN)
           data == SubSeq(inq[c], 1, n)
           b    == readBuff_[cur]
<1>1. /\ pc = "read" /\ pc' \in {"read", "process"}
      /\ UNCHANGED <<peer, backlog, owner, nsent, executed, batch, cur>>
      /\ n > 0
      /\ readBuff_' = [readBuff_ EXCEPT ![cur] = append(@, data)]
      /\ inq' = [inq EXCEPT ![c] = SubSeq(@, n + 1, Len(@))]
      /\ sum' = sum + n
  BY DEF ReadData
<1>2. /\ cur \in FDs /\ c \in Clients /\ inq \in [Clients -> Seq(Byte)] /\ b \in Buffer
      /\ readBuff_ \in [FDs -> Buffer] /\ sum \in Nat
  BY <1>1, CurrentOwned DEF Inv, TypeOK
<1>3. n \in 1 .. Len(inq[c]) /\ n \in 1 .. m_size
  <2>1. Len(inq[c]) \in Nat /\ FRAME_MAX_LEN \in Nat /\ FRAME_MAX_LEN <= m_size
    BY <1>2, BoundAssumption
  <2>2. n \in Nat /\ n <= Len(inq[c]) /\ n <= FRAME_MAX_LEN
    BY <2>1, LesserFacts
  <2> QED
    BY <1>1, <2>1, <2>2, SizeAssumption
<1>4. data \in Seq(Byte) /\ Len(data) = n /\ \A k \in 1 .. n : data[k] = inq[c][k]
  BY <1>2, <1>3
<1> HIDE DEF c, n, data, b
<1> SUFFICES ASSUME NEW d \in FDs, d = cur PROVE OrderInv'
  BY <1>2
<1>5. /\ readBuff_'[d] = append(b, data)
      /\ \A fd \in FDs : fd # d => readBuff_'[fd] = readBuff_[fd]
  BY <1>1, <1>2 DEF b
<1>6. Fresh(d)' /\ \A fd \in FDs : fd # d => ~ Fresh(fd) /\ ~ Fresh(fd)'
  BY <1>1, <1>2, <1>3 DEF Fresh
<1>7. ASSUME NEW fd \in FDs, fd # d PROVE Unread(fd)' = Unread(fd)
  <2>1. ~ Fresh(fd) /\ ~ Fresh(fd)' /\ readBuff_'[fd] = readBuff_[fd]
    BY <1>5, <1>6, <1>7
  <2> QED
    BY <2>1 DEF Unread
<1>8. Unread(d)' = Readable(append(b, data))
  BY <1>5, <1>6 DEF Unread
<1>9. /\ Unread(d) \in Seq(Byte) /\ Len(Unread(d)) \in Nat
      /\ length(b) < m_size => Unread(d) = Readable(b)
  <2>1. Unread(d) \in Seq(Byte)
    BY <1>2, UnreadTyped
  <2>2. length(b) < m_size => length(b) # m_size
    BY <1>2, LengthBounds, SizeAssumption
  <2> QED
    BY <2>1, <2>2 DEF Unread, b
<1>10. PICK p \in 0 .. Len(Unread(d)), q \in 0 .. n :
         /\ Len(Unread(d)') = p + q
         /\ \A i \in 1 .. p : Unread(d)'[i] = Unread(d)[i]
         /\ \A k \in 1 .. q : Unread(d)'[p + k] = inq[c][k]
  <2>1. /\ Len(Unread(d)) \in 0 .. Len(Unread(d)) /\ 0 \in 0 .. Len(Unread(d))
        /\ 0 \in 0 .. n /\ n \in 0 .. n
    BY <1>3, <1>9
  <2>2. CASE Unread(d)' = Unread(d)
    <3>1. /\ Len(Unread(d)') = Len(Unread(d)) + 0
          /\ \A i \in 1 .. Len(Unread(d)) : Unread(d)'[i] = Unread(d)[i]
          /\ \A k \in 1 .. 0 : Unread(d)'[Len(Unread(d)) + k] = inq[c][k]
      BY <1>9, <2>2
    <3> USE <2>1
    <3> WITNESS Len(Unread(d)) \in 0 .. Len(Unread(d)), 0 \in 0 .. n
    <3> QED
      BY <3>1
  <2>3. CASE Unread(d)' = Unread(d) \o data
    <3>1. /\ Len(Unread(d)') = Len(Unread(d)) + n
          /\ \A i \in 1 .. Len(Unread(d)) : Unread(d)'[i] = Unread(d)[i]
          /\ \A k \in 1 .. n : Unread(d)'[Len(Unread(d)) + k] = inq[c][k]
      <4>1. /\ Len(Unread(d) \o data) = Len(Unread(d)) + Len(data)
            /\ \A i \in 1 .. Len(Unread(d)) : (Unread(d) \o data)[i] = Unread(d)[i]
            /\ \A k \in 1 .. Len(data) : (Unread(d) \o data)[Len(Unread(d)) + k] = data[k]
        <5>1. Unread(d) \in Seq(Byte) /\ data \in Seq(Byte)
          BY <1>4, <1>9
        <5> QED
          BY <5>1, Joined
      <4> QED
        BY <1>4, <2>3, <4>1
    <3> USE <2>1
    <3> WITNESS Len(Unread(d)) \in 0 .. Len(Unread(d)), n \in 0 .. n
    <3> QED
      BY <3>1
  <2>4. CASE Unread(d)' = data
    <3>1. /\ Len(Unread(d)') = 0 + n
          /\ \A i \in 1 .. 0 : Unread(d)'[i] = Unread(d)[i]
          /\ \A k \in 1 .. n : Unread(d)'[0 + k] = inq[c][k]
      BY <1>3, <1>4, <2>4
    <3> USE <2>1
    <3> WITNESS 0 \in 0 .. Len(Unread(d)), n \in 0 .. n
    <3> QED
      BY <3>1
  <2> QED
    BY <1>2, <1>3, <1>4, <1>8, <1>9, <2>2, <2>3, <2>4, ReadableAfterAppend
<1>11. Orders'
  <2>1. ReadInto(d, c, n, p, q)
    BY <1>1, <1>3, <1>7, <1>10 DEF ReadInto
  <2> QED
    BY <1>1, <1>2, <2>1, OrdersRead DEF OrderInv
<1>12. Homes' /\ Places'
  <2>1. ASSUME NEW fd \in FDs, NEW i \in 1 .. Len(Unread(fd)')
        PROVE  \/ \E j \in 1 .. Len(Unread(fd)) : Unread(fd)[j].conn = Unread(fd)'[i].conn
               \/ Unread(fd)'[i].conn = owner[fd]
    <3>1. CASE fd # d
      BY <1>7, <3>1
    <3>2. CASE fd = d
      <4> SUFFICES ASSUME NEW W, W = Unread(d)', NEW U, U = Unread(d)
                   PROVE  \/ \E j \in 1 .. Len(U) : U[j].conn = W[i].conn
                          \/ W[i].conn = c
        BY <3>2 DEF c
      <4>1. i \in 1 .. p + q /\ p \in Nat /\ q \in Nat /\ p <= Len(U) /\ Len(U) \in Nat
        BY <1>3, <1>9, <1>10, <3>2
      <4>2. CASE i <= p
        BY <1>10, <4>1, <4>2
      <4>3. CASE i > p
        <5>1. i - p \in 1 .. q /\ p + (i - p) = i /\ i - p \in 1 .. Len(inq[c])
          BY <1>3, <4>1, <4>3
        <5>2. W[i] = inq[c][i - p]
          BY <1>10, <5>1
        <5> QED
          BY <1>2, <5>1, <5>2 DEF OrderInv, Orders, QueueOrder
      <4> QED
        BY <4>1, <4>2, <4>3
    <3> QED
      BY <3>1, <3>2
  <2> QED
    BY <1>1, <2>1, HomesStay DEF OrderInv
<1>13. ToRead'
  <2>1. ASSUME NEW e \in batch, e.fd # listenFd_ PROVE inq'[owner[e.fd]] = inq[owner[e.fd]]
    <3>1. e.fd # cur /\ owner[cur] # NoClient
      BY <1>1, CurrentOwned, ClientAssumption
    <3>2. owner[e.fd] # c
      BY <1>2, <2>1, <3>1, OthersInBatch DEF OrderInv, c
    <3> QED
      BY <1>1, <3>2
  <2>2. sum' # 0
    BY <1>1, <1>2, <1>3
  <2> QED
    BY <1>1, <2>1, <2>2 DEF OrderInv, ToRead
<1> QED
  BY <1>11, <1>12, <1>13 DEF OrderInv

\* What counts of a buffer when nothing was read from its descriptor.
Rest(b) == IF length(b) = m_size THEN <<>> ELSE Readable(b)

\* A pop takes the first n.
LEMMA RestAfterPop ==
  ASSUME NEW b \in Buffer, NEW n \in 0 .. length(b), n > 0 \/ length(b) < m_size
  PROVE  /\ Len(Rest(pop(b, n))) = length(b) - n
         /\ \A i \in 1 .. length(b) - n : Rest(pop(b, n))[i] = Readable(b)[n + i]
<1>1. length(b) \in Nat /\ length(b) <= m_size /\ Len(Readable(b)) = length(b) /\ n \in Nat
  BY ReadableIs
<1> DEFINE c == pop(b, n)
           R == Readable(b)
<1>2. CASE length(c) = length(b) - n /\ Readable(c) = SubSeq(R, n + 1, Len(R))
  <2>1. length(c) # m_size
    BY <1>1, <1>2, SizeAssumption
  <2>2. Rest(c) = SubSeq(R, n + 1, length(b))
    BY <1>1, <1>2, <2>1 DEF Rest
  <2>3. /\ Len(SubSeq(R, n + 1, length(b))) = length(b) - n
        /\ \A i \in 1 .. length(b) - n : SubSeq(R, n + 1, length(b))[i] = R[n + i]
    <3> HIDE DEF R
    <3>1. R \in Seq(Byte \cup {Uninit})
      BY PeekTyped, SizeAssumption DEF R, Readable
    <3> QED
      BY <1>1, <3>1 DEF R
  <2> HIDE DEF c, R
  <2> QED
    BY <2>2, <2>3 DEF c, R
<1>3. CASE n = length(b) /\ length(c) = m_size
  BY <1>1, <1>3 DEF Rest
<1> QED
  BY <1>2, <1>3, ReadableAfterPop

\* ... and AfterFrame discard of them and one more.
LEMMA RestAfterFrame ==
  ASSUME NEW b \in Buffer, NEW discard \in Nat, discard < length(b)
  PROVE  /\ Len(Rest(AfterFrame(b, discard))) = length(b) - (discard + 1)
         /\ \A i \in 1 .. length(b) - (discard + 1) :
              Rest(AfterFrame(b, discard))[i] = Readable(b)[(discard + 1) + i]
<1> DEFINE c == pop(b, discard)
           R == Readable(b)
<1>1. length(b) \in Nat /\ Len(R) = length(b)
  BY ReadableIs
<1>2. /\ c \in Buffer /\ length(c) = length(b) - discard
      /\ Readable(c) = SubSeq(R, discard + 1, length(b))
  <2>1. discard \in 0 .. length(b) /\ discard # length(b)
    BY <1>1
  <2> QED
    BY <1>1, <2>1, ReadableAfterPop
<1>3. 1 \in 0 .. length(c) /\ length(c) - 1 = length(b) - (discard + 1)
  BY <1>1, <1>2
<1> HIDE DEF c
<1>4. /\ Len(Rest(pop(c, 1))) = length(c) - 1
      /\ \A i \in 1 .. length(c) - 1 : Rest(pop(c, 1))[i] = Readable(c)[1 + i]
  <2>1. 1 \in 0 .. length(c) /\ 1 > 0
    BY <1>3
  <2> QED
    BY <1>2, <2>1, RestAfterPop
<1>5. \A i \in 1 .. length(c) - 1 : Readable(c)[1 + i] = R[(discard + 1) + i]
  <2> HIDE DEF R
  <2>1. R \in Seq(Byte \cup {Uninit})
    BY PeekTyped, SizeAssumption DEF R, Readable
  <2>2. ASSUME NEW i \in 1 .. length(c) - 1 PROVE Readable(c)[1 + i] = R[(discard + 1) + i]
    <3>1. 1 + i \in 1 .. length(b) - discard /\ (discard + 1) + (1 + i) - 1 = (discard + 1) + i
      BY <1>1, <1>2
    <3> QED
      BY <1>1, <1>2, <2>1, <3>1
  <2> QED
    BY <2>2
<1>6. AfterFrame(b, discard) = pop(c, 1)
  BY DEF AfterFrame, c
<1> HIDE DEF R
<1> QED
  BY <1>3, <1>4, <1>5, <1>6 DEF R

LEMMA ProcessOrder == ASSUME Inv, Inv', OrderInv, Process PROVE OrderInv'
<1> DEFINE b     == readBuff_[cur]
           bytes == peek(b, FRAME_MAX_LEN)
           R     == Readable(b)
<1>1. /\ pc = "process" /\ pc' = "dispatch" /\ sum' = 0
      /\ UNCHANGED <<peer, inq, backlog, owner, nsent, batch>>
  BY DEF Process
<1>2. /\ cur \in FDs /\ b \in Buffer /\ readBuff_ \in [FDs -> Buffer]
  BY <1>1, CurrentOwned DEF Inv, TypeOK
<1>3. length(b) \in Nat /\ length(b) <= m_size /\ Len(R) = length(b)
  BY <1>2, ReadableIs
<1>4. /\ Len(bytes) \in 0 .. length(b)
      /\ \A i \in 1 .. Len(bytes) : bytes[i] = R[i]
      /\ Len(bytes) > 0 \/ length(b) < m_size
  <2>1. FRAME_MAX_LEN \in Nat /\ 0 < FRAME_MAX_LEN
    BY BoundAssumption
  <2>2. Len(bytes) = Lesser(FRAME_MAX_LEN, length(b))
    <3>1. /\ Lesser(FRAME_MAX_LEN, length(b)) \in 0 .. length(b)
          /\ bytes = [i \in 1 .. Lesser(FRAME_MAX_LEN, length(b)) |-> b.m_buff[Slot(b, i)]]
      BY <1>2, <2>1, PeekIsReadable
    <3> QED
      BY <1>3, <3>1
  <2>3. Len(bytes) > 0 \/ length(b) < m_size
    BY <1>3, <2>1, <2>2, SizeAssumption DEF Lesser
  <2> QED
    BY <1>2, <2>1, <2>3, PeekBegins
<1>5. PICK p \in 0 .. length(b) :
        /\ p > 0 \/ length(b) < m_size
        /\ Len(Rest(readBuff_'[cur])) = length(b) - p
        /\ \A i \in 1 .. length(b) - p : Rest(readBuff_'[cur])[i] = R[p + i]
        /\ \A fd \in FDs : fd # cur => readBuff_'[fd] = readBuff_[fd]
        /\ \/ UNCHANGED executed
           \/ p > 0 /\ executed' = [executed EXCEPT ![R[p].conn] = Append(@, R[p].n)]
  <2>1. PICK discard \in 0 .. Len(bytes) :
          \/ /\ discard = Len(bytes)
             /\ readBuff_' = [readBuff_ EXCEPT ![cur] = pop(@, discard)]
             /\ UNCHANGED executed
          \/ /\ discard < Len(bytes)
             /\ readBuff_' = [readBuff_ EXCEPT ![cur] = AfterFrame(@, discard)]
             /\ executed' = [executed EXCEPT ![bytes[discard + 1].conn]
                                             = Append(@, bytes[discard + 1].n)]
    BY DEF Process, frameProcess
  <2> HIDE DEF bytes, R
  <2>2. CASE /\ discard = Len(bytes)
             /\ readBuff_' = [readBuff_ EXCEPT ![cur] = pop(@, discard)]
             /\ UNCHANGED executed
    <3>1. /\ readBuff_'[cur] = pop(b, discard)
          /\ \A fd \in FDs : fd # cur => readBuff_'[fd] = readBuff_[fd]
      BY <1>2, <2>2
    <3>2. discard \in 0 .. length(b) /\ (discard > 0 \/ length(b) < m_size)
      BY <1>3, <1>4, <2>2
    <3>3. /\ Len(Rest(pop(b, discard))) = length(b) - discard
          /\ \A i \in 1 .. length(b) - discard : Rest(pop(b, discard))[i] = R[discard + i]
      BY <1>2, <3>2, RestAfterPop DEF R
    <3> QED
      BY <2>2, <3>1, <3>2, <3>3
  <2>3. CASE /\ discard < Len(bytes)
             /\ readBuff_' = [readBuff_ EXCEPT ![cur] = AfterFrame(@, discard)]
             /\ executed' = [executed EXCEPT ![bytes[discard + 1].conn]
                                             = Append(@, bytes[discard + 1].n)]
    <3>1. /\ readBuff_'[cur] = AfterFrame(b, discard)
          /\ \A fd \in FDs : fd # cur => readBuff_'[fd] = readBuff_[fd]
      BY <1>2, <2>3
    <3>2. /\ discard \in Nat /\ discard < length(b)
          /\ discard + 1 \in 0 .. length(b) /\ discard + 1 > 0
          /\ discard + 1 \in 1 .. Len(bytes)
      BY <1>3, <1>4, <2>3
    <3>3. /\ Len(Rest(AfterFrame(b, discard))) = length(b) - (discard + 1)
          /\ \A i \in 1 .. length(b) - (discard + 1) :
               Rest(AfterFrame(b, discard))[i] = R[(discard + 1) + i]
      BY <1>2, <3>2, RestAfterFrame DEF R
    <3>4. bytes[discard + 1] = R[discard + 1]
      BY <1>4, <3>2
    <3> QED
      BY <2>3, <3>1, <3>2, <3>3, <3>4
  <2> QED
    BY <2>1, <2>2, <2>3
<1> HIDE DEF b, bytes, R
<1> SUFFICES ASSUME NEW d \in FDs, d = cur PROVE OrderInv'
  BY <1>2
<1>6. /\ Fresh(d)
      /\ \A fd \in FDs : fd # d => ~ Fresh(fd)
      /\ \A fd \in FDs : ~ Fresh(fd)'
  BY <1>1 DEF Fresh
<1>7. Unread(d) = R /\ Unread(d)' = Rest(readBuff_'[d])
  BY <1>6 DEF Unread, Rest, R, b
<1>8. ASSUME NEW fd \in FDs, fd # d PROVE Unread(fd)' = Unread(fd)
  <2>1. ~ Fresh(fd) /\ ~ Fresh(fd)' /\ readBuff_'[fd] = readBuff_[fd]
    BY <1>5, <1>6, <1>8
  <2> QED
    BY <2>1 DEF Unread
<1>9. /\ p \in 0 .. Len(Unread(d))
      /\ Len(Unread(d)') = Len(Unread(d)) - p
      /\ \A i \in 1 .. Len(Unread(d)') : Unread(d)'[i] = Unread(d)[p + i]
      /\ \A i \in 1 .. Len(Unread(d)') : p + i \in 1 .. Len(Unread(d))
      /\ \/ UNCHANGED executed
         \/ /\ p > 0
            /\ executed' = [executed EXCEPT ![Unread(d)[p].conn] = Append(@, Unread(d)[p].n)]
  BY <1>3, <1>5, <1>7
<1>10. Orders'
  BY <1>1, <1>8, <1>9, OrdersProcess DEF OrderInv
<1>11. Homes' /\ Places'
  <2>1. ASSUME NEW fd \in FDs, NEW i \in 1 .. Len(Unread(fd)')
        PROVE  \E j \in 1 .. Len(Unread(fd)) : Unread(fd)[j].conn = Unread(fd)'[i].conn
    <3>1. CASE fd # d
      BY <1>8, <3>1
    <3>2. CASE fd = d
      BY <1>9, <3>2
    <3> QED
      BY <3>1, <3>2
  <2> QED
    BY <1>1, <2>1, HomesStay DEF OrderInv
<1>12. ToRead'
  BY <1>1 DEF OrderInv, ToRead
<1> QED
  BY <1>10, <1>11, <1>12 DEF OrderInv

-----------------------------------------------------------------------------
(* The theorem.                                                            *)

LEMMA NextOrder == Inv /\ Inv' /\ OrderInv /\ [Next]_vars => OrderInv'
<1> SUFFICES ASSUME Inv, Inv', OrderInv, [Next]_vars PROVE OrderInv'
  OBVIOUS
<1>1. CASE UNCHANGED vars
  <2>1. /\ UNCHANGED <<peer, inq, backlog, owner, nsent, readBuff_, executed>>
        /\ UNCHANGED <<pc, cur, sum, batch>>
    BY <1>1 DEF vars
  <2>2. ToRead' /\ \A fd \in FDs : Fresh(fd)' <=> Fresh(fd)
    BY <2>1 DEF OrderInv, ToRead, Fresh
  <2> QED
    BY <2>1, <2>2, Quiet
<1>2. CASE ServerStep
  BY <1>2, LoopOrder, DispatchCloseOrder, AcceptOrder, ReadDataOrder, ReadEndsOrder,
     ProcessOrder, WriteOrder DEF ServerStep
<1>3. CASE \E c \in Clients : Connect(c) \/ Send(c) \/ Shutdown(c) \/ Abort(c)
  BY <1>3, ConnectOrder, SendOrder, HangUpOrder
<1> QED
  BY <1>1, <1>2, <1>3 DEF Next

\* No request is executed twice, or after a later one of its client: neither
\* frames that pile up in a readBuff_, nor those append refuses, nor a pop that
\* leaves the buffer relapsed, nor AddClient_ giving a descriptor and its buffer
\* to another client can bring that about.
THEOREM NeverTwice == Spec => []ExecutedInOrderOnce
<1>1. Init => OrderInv
  BY InitOrder
<1>2. Inv /\ Inv' /\ OrderInv /\ [Next]_vars => OrderInv'
  BY NextOrder
<1>3. OrderInv => ExecutedInOrderOnce
  BY DEF OrderInv, Orders, ExecOrder
<1> QED
  BY <1>1, <1>2, <1>3, InvAlways, PTL DEF Spec

-----------------------------------------------------------------------------
(***************************************************************************)
(* Whose requests and replies they are.                                    *)
(*                                                                         *)
(* No buffer is emptied when its descriptor goes to another connection,    *)
(* and a relapsed one gives out again what it had in it, but an array only *)
(* ever holds frames of connections that had the descriptor, and the       *)
(* writeBuff_'s are all replies.                                           *)
(***************************************************************************)

\* The client whose request x answers, or is, was accepted on fd.
CameBy(x, fd) == x # Uninit => x \in Byte /\ home[x.conn] = fd

\* The request x was executed.
Executed(x) == \E k \in 1 .. Len(executed[x.conn]) : executed[x.conn][k] = x.n

\* Connections have the descriptor they were given.
Placed ==
  /\ \A c \in Clients : Waiting(c) \/ peer[c] = "off" => home[c] = listenFd_
  /\ \A fd \in FDs : owner[fd] # NoClient => home[owner[fd]] = fd

\* A readBuff_ has only seen requests made on its descriptor,
RequestsHome ==
  \A fd \in FDs : \A i \in Index : CameBy(readBuff_[fd].m_buff[i], fd)

\* ... a writeBuff_ only replies to such, after they were executed,
RepliesHome ==
  \A fd \in FDs :
    /\ Written(writeBuff_[fd])
    /\ \A i \in Index : /\ CameBy(writeBuff_[fd].m_buff[i], fd)
                        /\ writeBuff_[fd].m_buff[i] # Uninit => Executed(writeBuff_[fd].m_buff[i])

\* ... and its clients have received nothing else.
ReceivedHome ==
  \A c \in Clients : \A i \in 1 .. Len(got[c]) :
    /\ got[c][i] \in Byte /\ Executed(got[c][i])
    /\ home[got[c][i].conn] = home[c] /\ home[c] \in FDs

HomeInv == Placed /\ RequestsHome /\ RepliesHome /\ ReceivedHome

\* append keeps what is in the array or puts what it is given there.
LEMMA AppendHolds ==
  ASSUME NEW b \in Buffer, NEW src \in Seq(Byte), Len(src) \in 1 .. m_size, NEW i \in Index
  PROVE  \/ append(b, src).m_buff[i] = b.m_buff[i]
         \/ \E k \in 1 .. Len(src) : append(b, src).m_buff[i] = src[k]
<1>1. CASE ~ Accepts(b, Len(src))
  BY <1>1 DEF append
<1>2. CASE Accepts(b, Len(src))
  <2> DEFINE len  == Len(src)
             seg1 == FirstSegment(b, len)
             c    == append(b, src)
  <2>1. len \in 1 .. m_size /\ src \in [1 .. len -> Byte] /\ len \in Nat
    BY SizeAssumption
  <2> HIDE DEF len
  <2>2. Accepts(b, len)
    BY <1>2 DEF len
  <2>3. c.m_buff[i] = IF i < len - seg1 THEN src[seg1 + i + 1]
                      ELSE IF i \in b.m_idxw .. b.m_idxw + seg1 - 1
                           THEN src[i - b.m_idxw + 1]
                           ELSE b.m_buff[i]
    BY <2>1, <2>2, AppendRecord
  <2>4. seg1 \in 0 .. len
    BY <2>1, <2>2, SegmentsFit
  <2>5. b.m_idxw \in Nat /\ i \in Nat
    BY SizeAssumption DEF Buffer, Index
  <2> HIDE DEF seg1, c
  <2>6. i < len - seg1 => seg1 + i + 1 \in 1 .. len
    BY <2>1, <2>4, <2>5
  <2>7. i \in b.m_idxw .. b.m_idxw + seg1 - 1 => i - b.m_idxw + 1 \in 1 .. len
    BY <2>1, <2>4, <2>5
  <2>8. c.m_buff[i] = b.m_buff[i] \/ \E k \in 1 .. len : c.m_buff[i] = src[k]
    BY <2>3, <2>6, <2>7
  <2> QED
    BY <2>8 DEF len, c
<1> QED
  BY <1>1, <1>2

\* pop leaves the array.
LEMMA PopHolds == ASSUME NEW b \in Buffer, NEW len PROVE pop(b, len).m_buff = b.m_buff
BY DEF pop, Buffer

LEMMA HomeTypes ==
  ASSUME Inv
  PROVE  /\ home \in [Clients -> FDs \cup {listenFd_}]
         /\ listenFd_ \notin FDs
         /\ owner \in [FDs -> Clients \cup {NoClient}]
         /\ NoClient \notin Clients
         /\ readBuff_ \in [FDs -> Buffer] /\ writeBuff_ \in [FDs -> Buffer]
         /\ got \in [Clients -> Seq(Byte \cup {Uninit})]
         /\ executed \in [Clients -> Seq(1 .. MaxReq)]
         /\ relapsed \subseteq FDs
BY FDAssumption, ClientAssumption DEF Inv, TypeOK

LEMMA InitHome == Init => HomeInv
<1> SUFFICES ASSUME Init PROVE HomeInv
  OBVIOUS
<1>1. Placed
  BY DEF Init, Placed, Waiting
<1>2. \A fd \in FDs : readBuff_[fd] = NewBuffer /\ writeBuff_[fd] = NewBuffer
  BY DEF Init
<1>3. \A i \in Index : NewBuffer.m_buff[i] = Uninit
  BY DEF NewBuffer
<1>4. RequestsHome /\ RepliesHome
  BY <1>2, <1>3, NewBufferTyped DEF RequestsHome, RepliesHome, CameBy
<1>5. ReceivedHome
  BY DEF Init, ReceivedHome
<1> QED
  BY <1>1, <1>4, <1>5 DEF HomeInv

\* Steps that move no request or reply and accept nobody.
LEMMA HomeStays ==
  ASSUME HomeInv,
         UNCHANGED <<readBuff_, writeBuff_, got, executed, home>>,
         \A c \in Clients : (Waiting(c) \/ peer[c] = "off")' => Waiting(c) \/ peer[c] = "off",
         \A fd \in FDs : owner'[fd] = owner[fd] \/ owner'[fd] = NoClient
  PROVE  HomeInv'
<1>1. Placed'
  BY DEF HomeInv, Placed
<1>2. RequestsHome' /\ RepliesHome'
  BY DEF HomeInv, RequestsHome, RepliesHome, CameBy, Executed, Written
<1>3. ReceivedHome'
  BY DEF HomeInv, ReceivedHome, Executed
<1> QED
  BY <1>1, <1>2, <1>3 DEF HomeInv

LEMMA ConnectHome ==
  ASSUME Inv, HomeInv, NEW c \in Clients, Connect(c) PROVE HomeInv'
<1>1. /\ peer[c] = "off" /\ peer' = [peer EXCEPT ![c] = "est"]
      /\ backlog' = Append(backlog, c) /\ backlog \in Seq(Clients)
      /\ UNCHANGED <<readBuff_, writeBuff_, got, executed, home, owner>>
  BY DEF Connect, Inv, TypeOK
<1>2. \A d : Waiting(d)' => Waiting(d) \/ d = c
  BY <1>1 DEF Waiting
<1>3. \A d \in Clients : peer'[d] = "off" => peer[d] = "off"
  BY <1>1 DEF Inv, TypeOK
<1> QED
  BY <1>1, <1>2, <1>3, HomeStays

\* The clients' other steps and those of the loop.
LEMMA QuietHome ==
  ASSUME Inv, HomeInv,
         \/ \E c \in Clients : Send(c) \/ Shutdown(c) \/ Abort(c)
         \/ EpollWait \/ DispatchListen \/ DispatchRead \/ EndDispatch \/ AcceptFails
         \/ WriteBegin \/ WriteDone
         \/ DispatchClose \/ ReadEnds
         \/ UNCHANGED vars
  PROVE  HomeInv'
<1>1. UNCHANGED <<readBuff_, writeBuff_, got, executed, home, backlog>>
  BY DEF Send, Shutdown, Abort, EpollWait, DispatchListen, DispatchRead, EndDispatch,
         AcceptFails, WriteBegin, WriteDone, DispatchClose, ReadEnds, vars
<1>2. \A c \in Clients : peer'[c] = "off" => peer[c] = "off"
  <2>1. peer' = peer \/ \E c \in Clients : Shutdown(c) \/ Abort(c)
    BY DEF Send, EpollWait, DispatchListen, DispatchRead, EndDispatch,
           AcceptFails, WriteBegin, WriteDone, DispatchClose, ReadEnds, vars
  <2> QED
    BY <2>1 DEF Shutdown, Abort, Inv, TypeOK
<1>3. \A fd \in FDs : owner'[fd] = owner[fd] \/ owner'[fd] = NoClient
  <2>1. CASE \E fd \in FDs : CloseConn_(fd)
    BY <2>1, HomeTypes DEF CloseConn_
  <2>2. \/ UNCHANGED owner
        \/ \E fd \in FDs : CloseConn_(fd)
    <3>1. \A e \in batch : e.fd # listenFd_ => e.fd \in FDs
      BY DEF Inv, TypeOK, Event
    <3>2. pc = "read" => cur \in FDs
      BY DEF Inv, Current
    <3> QED
      BY <3>1, <3>2
         DEF Send, Shutdown, Abort, EpollWait, DispatchListen, DispatchRead, EndDispatch,
             AcceptFails, WriteBegin, WriteDone, DispatchClose, ReadEnds, vars
  <2> QED
    BY <2>1, <2>2
<1>4. \A c : Waiting(c)' <=> Waiting(c)
  BY <1>1 DEF Waiting
<1> QED
  BY <1>1, <1>2, <1>3, <1>4, HomeStays

\* Who is accepted had no descriptor, so that no frame of its is in any buffer.
LEMMA AcceptHome == ASSUME Inv, OrderInv, HomeInv, Accept PROVE HomeInv'
<1> DEFINE c == Head(backlog)
<1>1. /\ backlog \in Seq(Clients) /\ backlog # <<>> /\ backlog' = Tail(backlog)
      /\ UNCHANGED <<readBuff_, writeBuff_, got, executed>>
  BY DEF Inv, TypeOK, Accept
<1>2. PICK fd \in FDs :
        \/ UNCHANGED <<owner, home>> /\ peer' = [peer EXCEPT ![c] = "refused"]
        \/ /\ owner' = [owner EXCEPT ![fd] = c] /\ home' = [home EXCEPT ![c] = fd]
           /\ UNCHANGED peer
  BY DEF Accept
<1>3. Waiting(c) /\ c \in Clients
  <2>1. 1 \in 1 .. Len(backlog) /\ c = backlog[1] /\ c \in Clients
    BY <1>1
  <2> QED
    BY <2>1 DEF Waiting
<1>4. \A d : Waiting(d)' => Waiting(d) /\ d # c
  <2>1. /\ Len(backlog) \in Nat /\ Len(backlog) > 0 /\ Len(backlog') = Len(backlog) - 1
        /\ c = backlog[1]
        /\ \A i \in 1 .. Len(backlog') : backlog'[i] = backlog[i + 1] /\ i + 1 \in 1 .. Len(backlog)
    BY <1>1
  <2> HIDE DEF c
  <2> SUFFICES ASSUME NEW i \in 1 .. Len(backlog')
               PROVE  Waiting(backlog'[i]) /\ backlog'[i] # c
    BY DEF Waiting
  <2>2. Waiting(backlog'[i])
    BY <2>1 DEF Waiting
  <2>3. i + 1 \in 1 .. Len(backlog) /\ 1 \in 1 .. Len(backlog) /\ i + 1 # 1
    BY <2>1
  <2> QED
    BY <2>1, <2>2, <2>3 DEF OrderInv, Places
<1>5. home[c] = listenFd_ /\ listenFd_ \notin FDs
  BY <1>3, HomeTypes DEF HomeInv, Placed
<1> HIDE DEF c
<1>6. \A d \in Clients : home[d] \in FDs => home'[d] = home[d]
  BY <1>2, <1>3, <1>5, HomeTypes
<1>7. Placed'
  <2>1. ASSUME NEW d \in Clients, Waiting(d)' \/ peer'[d] = "off" PROVE home'[d] = listenFd_
    <3>1. Waiting(d) \/ peer[d] = "off"
      BY <1>2, <1>3, <1>4, <2>1 DEF Inv, TypeOK
    <3>2. d # c
      <4>1. peer[c] # "off"
        BY <1>3 DEF OrderInv, Places
      <4> QED
        BY <1>2, <1>3, <1>4, <2>1, <4>1 DEF Inv, TypeOK
    <3> QED
      BY <1>2, <3>1, <3>2, HomeTypes DEF HomeInv, Placed
  <2>2. ASSUME NEW g \in FDs, owner'[g] # NoClient PROVE home'[owner'[g]] = g
    <3>1. CASE owner'[g] = owner[g]
      <4>1. owner[g] \in Clients /\ home[owner[g]] = g
        BY <2>2, <3>1, HomeTypes DEF HomeInv, Placed
      <4> QED
        BY <1>6, <3>1, <4>1
    <3>2. CASE owner'[g] # owner[g]
      <4>1. g = fd /\ owner'[g] = c /\ home' = [home EXCEPT ![c] = fd]
        BY <1>2, <3>2, HomeTypes
      <4> QED
        BY <1>3, <4>1, HomeTypes
    <3> QED
      BY <3>1, <3>2
  <2> QED
    BY <2>1, <2>2 DEF Placed
<1>8. \A x, g : g \in FDs /\ CameBy(x, g) => CameBy(x, g)'
  <2>1. \A x \in Byte : x.conn \in Clients
    BY FrameFields
  <2> QED
    BY <1>6, <2>1 DEF CameBy
<1>9. RequestsHome' /\ RepliesHome'
  BY <1>1, <1>8 DEF HomeInv, RequestsHome, RepliesHome, Executed, Written
<1>10. ReceivedHome'
  <2> SUFFICES ASSUME NEW d \in Clients, NEW i \in 1 .. Len(got[d])
               PROVE  /\ got[d][i] \in Byte /\ Executed(got[d][i])
                      /\ home'[got[d][i].conn] = home'[d] /\ home'[d] \in FDs
    BY <1>1 DEF ReceivedHome, Executed
  <2>1. /\ got[d][i] \in Byte /\ Executed(got[d][i])
        /\ home[got[d][i].conn] = home[d] /\ home[d] \in FDs
    BY DEF HomeInv, ReceivedHome
  <2>2. got[d][i].conn \in Clients
    BY <2>1, FrameFields
  <2> QED
    BY <1>6, <2>1, <2>2
<1> QED
  BY <1>7, <1>9, <1>10 DEF HomeInv

\* What is read was sent by the connection on the descriptor.
LEMMA ReadDataHome == ASSUME Inv, OrderInv, HomeInv, ReadData PROVE HomeInv'
<1> DEFINE c    == owner[cur]
           n    == Lesser(Len(inq[c]), FRAME_MAX_LEN)
           data == SubSeq(inq[c], 1, n)
           b    == readBuff_[cur]
<1>1. /\ cur \in FDs /\ c \in Clients /\ inq[c] \in Seq(Byte) /\ b \in Buffer
      /\ n > 0
      /\ readBuff_' = [readBuff_ EXCEPT ![cur] = append(b, data)]
      /\ UNCHANGED <<writeBuff_, got, executed, home, owner, peer, backlog>>
  BY CurrentOwned DEF ReadData, Inv, TypeOK
<1>2. n \in Nat /\ n <= Len(inq[c]) /\ n <= m_size
  BY <1>1, BoundAssumption, SizeAssumption DEF Lesser
<1>3. \A k \in 1 .. Len(inq[c]) : inq[c][k].conn = c /\ inq[c][k] \in Byte
  BY <1>1 DEF OrderInv, Orders, QueueOrder
<1>4. home[c] = cur
  BY <1>1, HomeTypes DEF HomeInv, Placed, c
<1> HIDE DEF n, c
<1>5. /\ data \in Seq(Byte) /\ Len(data) = n
      /\ \A k \in 1 .. Len(data) : data[k] = inq[c][k] /\ k \in 1 .. Len(inq[c])
  BY <1>1, <1>2
<1>6. Len(data) \in 1 .. m_size
  BY <1>1, <1>2, <1>5
<1>7. \A k \in 1 .. Len(data) : CameBy(data[k], cur)
  BY <1>3, <1>4, <1>5 DEF CameBy
<1> HIDE DEF data
<1>8. ASSUME NEW fd \in FDs, NEW i \in Index PROVE CameBy(readBuff_'[fd].m_buff[i], fd)
  <2>1. CASE fd # cur
    BY <1>1, <2>1, HomeTypes DEF HomeInv, RequestsHome
  <2>2. CASE fd = cur
    <3>1. readBuff_'[cur] = append(b, data)
      BY <1>1, HomeTypes
    <3>2. \/ readBuff_'[cur].m_buff[i] = b.m_buff[i]
          \/ \E k \in 1 .. Len(data) : readBuff_'[cur].m_buff[i] = data[k]
      BY <1>1, <1>5, <1>6, <3>1, AppendHolds
    <3>3. CameBy(b.m_buff[i], cur)
      BY <1>1 DEF HomeInv, RequestsHome
    <3> QED
      BY <1>7, <2>2, <3>2, <3>3
  <2> QED
    BY <2>1, <2>2
<1>9. RequestsHome'
  BY <1>1, <1>8 DEF RequestsHome, CameBy
<1>10. Placed' /\ RepliesHome' /\ ReceivedHome'
  <2>1. UNCHANGED <<writeBuff_, got, executed, home, owner, peer, backlog>>
    BY <1>1
  <2>2. Placed'
    BY <2>1 DEF HomeInv, Placed, Waiting
  <2>3. RepliesHome'
    BY <2>1 DEF HomeInv, RepliesHome, Executed, CameBy, Written
  <2>4. ReceivedHome'
    BY <2>1 DEF HomeInv, ReceivedHome, Executed
  <2> QED
    BY <2>2, <2>3, <2>4
<1> QED
  BY <1>9, <1>10 DEF HomeInv
\* Executed requests stay so.
LEMMA ExecutedLasts ==
  ASSUME Inv, NEW f \in Byte, executed' = [executed EXCEPT ![f.conn] = Append(@, f.n)]
  PROVE  /\ \A x \in Byte : Executed(x) => Executed(x)'
         /\ Executed(f)'
<1>1. /\ f.conn \in Clients /\ f.n \in 1 .. MaxReq
      /\ executed[f.conn] \in Seq(1 .. MaxReq)
  BY FrameFields, HomeTypes
<1>2. /\ executed'[f.conn] = Append(executed[f.conn], f.n)
      /\ \A c \in Clients : c # f.conn => executed'[c] = executed[c]
  BY <1>1, HomeTypes
<1> DEFINE e == executed[f.conn]
<1>3. /\ Len(Append(e, f.n)) = Len(e) + 1 /\ Len(e) \in Nat
      /\ \A k \in 1 .. Len(e) : Append(e, f.n)[k] = e[k] /\ k \in 1 .. Len(e) + 1
      /\ Append(e, f.n)[Len(e) + 1] = f.n /\ Len(e) + 1 \in 1 .. Len(e) + 1
  BY <1>1, Appended
<1>4. Executed(f)'
  BY <1>2, <1>3 DEF Executed
<1>5. ASSUME NEW x \in Byte, Executed(x) PROVE Executed(x)'
  <2>1. x.conn \in Clients
    BY FrameFields
  <2>2. CASE x.conn # f.conn
    BY <1>2, <1>5, <2>1, <2>2 DEF Executed
  <2>3. CASE x.conn = f.conn
    <3>1. PICK k \in 1 .. Len(e) : e[k] = x.n
      BY <1>5, <2>3 DEF Executed
    <3>2. /\ k \in 1 .. Len(executed'[f.conn])
          /\ executed'[f.conn][k] = x.n
      BY <1>2, <1>3, <3>1
    <3> QED
      BY <2>3, <3>2 DEF Executed
  <2> QED
    BY <2>2, <2>3
<1> QED
  BY <1>4, <1>5

\* Process executes nothing, or a request that was read, for its own descriptor,
\* and is later than those executed.
LEMMA ProcessExecutes ==
  ASSUME Inv, OrderInv, HomeInv, Process
  PROVE  \/ UNCHANGED <<writeBuff_, executed, foreign>>
         \/ \E f \in Byte :
              /\ \E i \in 1 .. length(readBuff_[cur]) : f = Readable(readBuff_[cur])[i]
              /\ home[f.conn] = cur
              /\ After(f.conn, f.n)
              /\ executed' = [executed EXCEPT ![f.conn] = Append(@, f.n)]
              /\ \/ writeBuff_' = writeBuff_
                 \/ writeBuff_' = [writeBuff_ EXCEPT ![cur] = append(@, <<f>>)]
              /\ foreign' = foreign \/ foreign' = foreign \cup {f}
<1> DEFINE b     == readBuff_[cur]
           bytes == peek(b, FRAME_MAX_LEN)
<1>1. /\ pc = "process" /\ cur \in FDs /\ b \in Buffer
      /\ writeBuff_ \in [FDs -> Buffer]
  BY CurrentOwned DEF Process, Inv, TypeOK
<1>2. PICK discard \in 0 .. Len(bytes) :
        \/ UNCHANGED <<writeBuff_, executed, foreign>>
        \/ discard < Len(bytes) /\ frameProcess(bytes[discard + 1])
  BY DEF Process
<1>3. CASE UNCHANGED <<writeBuff_, executed, foreign>>
  BY <1>3
<1>4. CASE discard < Len(bytes) /\ frameProcess(bytes[discard + 1])
  <2> DEFINE f == bytes[discard + 1]
  <2>1. /\ Len(bytes) \in 0 .. length(b)
        /\ \A i \in 1 .. Len(bytes) : bytes[i] = Readable(b)[i]
    BY <1>1, BoundAssumption, PeekBegins
  <2>2. discard + 1 \in 1 .. Len(bytes)
    BY <1>4, <2>1
  <2>3. f \in Byte
    BY <1>1, <2>2, BoundAssumption, WrittenReadable DEF Inv, ReadBuffersWritten
  <2>4. Unread(cur) = Readable(b)
    BY <1>1 DEF Unread, Fresh
  <2>5. /\ Len(Unread(cur)) = length(b)
        /\ length(b) \in Nat
        /\ Readable(b) = [i \in 1 .. length(b) |-> b.m_buff[Slot(b, i)]]
    BY <1>1, <2>4, ReadableIs
  <2>6. discard + 1 \in 1 .. length(b) /\ f = Readable(b)[discard + 1]
    <3>1. length(b) \in Nat
      BY <2>5
    <3> HIDE DEF b, bytes
    <3> QED
      BY <2>1, <2>2, <3>1
  <2>7. home[f.conn] = cur
    <3>1. f = b.m_buff[Slot(b, discard + 1)]
      BY <2>5, <2>6
    <3>2. Slot(b, discard + 1) \in Index
      <4>1. Lesser(length(b), length(b)) = length(b)
        BY <2>5 DEF Lesser
      <4> HIDE DEF b
      <4> QED
        BY <1>1, <2>5, <2>6, <4>1, PeekIsReadable
    <3>3. CameBy(f, cur)
      BY <1>1, <3>1, <3>2 DEF HomeInv, RequestsHome
    <3> QED
      BY <2>3, <3>3, UninitAssumption DEF CameBy
  <2> HIDE DEF f
  <2>8. After(f.conn, f.n)
    BY <1>1, <2>4, <2>5, <2>6 DEF OrderInv, Orders, BufferOrder
  <2>9. /\ executed' = [executed EXCEPT ![f.conn] = Append(@, f.n)]
        /\ \/ writeBuff_' = writeBuff_
           \/ writeBuff_' = [writeBuff_ EXCEPT ![cur] = append(@, <<f>>)]
        /\ foreign' = foreign \/ foreign' = foreign \cup {f}
    BY <1>4 DEF frameProcess, f
  <2> QED
    BY <2>3, <2>6, <2>7, <2>8, <2>9 DEF b
<1> QED
  BY <1>2, <1>3, <1>4

\* A reply is put where its request was executed.
LEMMA ProcessHome == ASSUME Inv, OrderInv, HomeInv, Process PROVE HomeInv'
<1>1. /\ cur \in FDs /\ UNCHANGED <<got, home, owner, peer, backlog>>
  BY CurrentOwned DEF Process
<1>2. Placed'
  BY <1>1 DEF HomeInv, Placed, Waiting
<1>3. \A fd \in FDs : readBuff_'[fd].m_buff = readBuff_[fd].m_buff
  <2>1. PICK d : \/ readBuff_' = [readBuff_ EXCEPT ![cur] = pop(@, d)]
                 \/ readBuff_' = [readBuff_ EXCEPT ![cur] = AfterFrame(@, d)]
    BY DEF Process
  <2>2. pop(readBuff_[cur], d).m_buff = readBuff_[cur].m_buff
    BY <1>1, HomeTypes, PopHolds
  <2>3. pop(pop(readBuff_[cur], d), 1).m_buff = pop(readBuff_[cur], d).m_buff
    BY <1>1, HomeTypes DEF pop, Buffer
  <2> QED
    BY <1>1, <2>1, <2>2, <2>3, HomeTypes DEF AfterFrame
<1>4. RequestsHome'
  BY <1>1, <1>3 DEF HomeInv, RequestsHome, CameBy
<1>5. CASE UNCHANGED <<writeBuff_, executed>>
  <2>1. RepliesHome'
    BY <1>1, <1>5 DEF HomeInv, RepliesHome, Executed, CameBy, Written
  <2>2. ReceivedHome'
    BY <1>1, <1>5 DEF HomeInv, ReceivedHome, Executed
  <2> QED
    BY <1>2, <1>4, <2>1, <2>2 DEF HomeInv
<1>6. ASSUME NEW f \in Byte, home[f.conn] = cur,
             executed' = [executed EXCEPT ![f.conn] = Append(@, f.n)],
             \/ writeBuff_' = writeBuff_
             \/ writeBuff_' = [writeBuff_ EXCEPT ![cur] = append(@, <<f>>)]
      PROVE  HomeInv'
  <2>1. (\A x \in Byte : Executed(x) => Executed(x)') /\ Executed(f)'
    BY <1>6, ExecutedLasts
  <2>2. <<f>> \in Seq(Byte) /\ Len(<<f>>) = 1 /\ 1 \in 1 .. m_size /\ <<f>>[1] = f
    BY SizeAssumption
  <2>3. CameBy(f, cur)
    BY <1>6 DEF CameBy
  <2> DEFINE IsReply(x, fd) == CameBy(x, fd) /\ (x # Uninit => Executed(x)')
  <2>4. ASSUME NEW fd \in FDs
        PROVE  /\ Written(writeBuff_'[fd])
               /\ \A i \in Index : \E x : x = writeBuff_'[fd].m_buff[i] /\ IsReply(x, fd)
    <3>0. Written(writeBuff_[fd])
      BY DEF HomeInv, RepliesHome
    <3>1. \A i \in Index : \E x : x = writeBuff_[fd].m_buff[i] /\ IsReply(x, fd)
      <4> SUFFICES ASSUME NEW i \in Index, NEW x, x = writeBuff_[fd].m_buff[i]
                   PROVE  IsReply(x, fd)
        OBVIOUS
      <4>1. CameBy(x, fd) /\ (x # Uninit => Executed(x))
        BY DEF HomeInv, RepliesHome
      <4> QED
        BY <2>1, <4>1 DEF CameBy
    <3>f. IsReply(f, cur)
      BY <2>1, <2>3
    <3> HIDE DEF IsReply
    <3>2. CASE writeBuff_'[fd] = writeBuff_[fd]
      BY <3>0, <3>1, <3>2
    <3>3. CASE fd = cur /\ writeBuff_'[fd] = append(writeBuff_[fd], <<f>>)
      <4>1. writeBuff_[fd] \in Buffer /\ Written(writeBuff_[fd])
        BY HomeTypes DEF HomeInv, RepliesHome
      <4>2. Written(append(writeBuff_[fd], <<f>>))
        BY <2>2, <4>1, WrittenAppend
      <4>3. ASSUME NEW i \in Index
            PROVE  \/ writeBuff_'[fd].m_buff[i] = writeBuff_[fd].m_buff[i]
                   \/ writeBuff_'[fd].m_buff[i] = f
        <5>1. \/ append(writeBuff_[fd], <<f>>).m_buff[i] = writeBuff_[fd].m_buff[i]
              \/ \E k \in 1 .. Len(<<f>>) : append(writeBuff_[fd], <<f>>).m_buff[i] = <<f>>[k]
          BY <2>2, <4>1, AppendHolds
        <5>2. \A k \in 1 .. Len(<<f>>) : <<f>>[k] = f
          BY <2>2
        <5> QED
          BY Zenon, <3>3, <5>1, <5>2
      <4> QED
        BY <3>1, <3>3, <3>f, <4>2, <4>3
    <3> QED
      BY <1>1, <1>6, <3>2, <3>3, HomeTypes
  <2>5. RepliesHome'
    <3>1. ASSUME NEW fd \in FDs, NEW i \in Index
          PROVE  LET x == writeBuff_'[fd].m_buff[i]
                 IN  /\ x # Uninit => x \in Byte /\ home'[x.conn] = fd
                     /\ x # Uninit => \E k \in 1 .. Len(executed'[x.conn]) :
                                         executed'[x.conn][k] = x.n
      <4>1. PICK x : x = writeBuff_'[fd].m_buff[i] /\ IsReply(x, fd)
        BY <2>4
      <4>2. /\ x # Uninit => x \in Byte /\ home'[x.conn] = fd
            /\ x # Uninit => \E k \in 1 .. Len(executed'[x.conn]) : executed'[x.conn][k] = x.n
        BY <1>1, <4>1 DEF CameBy, Executed
      <4> QED
        BY <4>1, <4>2
    <3> QED
      BY <2>4, <3>1 DEF RepliesHome, CameBy, Executed
  <2>6. ReceivedHome'
    BY <1>1, <2>1 DEF HomeInv, ReceivedHome
  <2> QED
    BY <1>2, <1>4, <2>5, <2>6 DEF HomeInv
<1> QED
  BY <1>5, <1>6, ProcessExecutes

\* What is in the beginning of two sequences is in one of them.
LEMMA BeginsWith ==
  ASSUME NEW S, NEW r \in Seq(S), NEW t \in Seq(S), NEW m \in Nat, m <= Len(r) + Len(t)
  PROVE  \A i \in 1 .. Len(SubSeq(r \o t, 1, m)) :
           \/ \E j \in 1 .. Len(r) : SubSeq(r \o t, 1, m)[i] = r[j]
           \/ \E j \in 1 .. Len(t) : SubSeq(r \o t, 1, m)[i] = t[j]
<1> DEFINE u == r \o t
           s == SubSeq(u, 1, m)
<1>1. /\ u \in Seq(S) /\ Len(u) = Len(r) + Len(t)
      /\ \A i \in 1 .. Len(r) : u[i] = r[i]
      /\ \A i \in 1 .. Len(t) : u[Len(r) + i] = t[i]
  <2>1. u \in Seq(S)
    OBVIOUS
  <2> QED
    BY <2>1, Joined
<1>2. Len(r) \in Nat /\ Len(t) \in Nat
  OBVIOUS
<1> HIDE DEF u
<1>3. Len(s) = m /\ \A i \in 1 .. m : s[i] = u[i]
  BY <1>1
<1> HIDE DEF s
<1>4. ASSUME NEW i \in 1 .. m
      PROVE  \/ \E j \in 1 .. Len(r) : s[i] = r[j]
             \/ \E j \in 1 .. Len(t) : s[i] = t[j]
  <2>1. CASE i <= Len(r)
    <3>1. i \in 1 .. Len(r)
      BY <1>2, <2>1
    <3> QED
      BY Zenon, <1>1, <1>3, <3>1
  <2>2. CASE i > Len(r)
    <3>1. i - Len(r) \in 1 .. Len(t) /\ Len(r) + (i - Len(r)) = i
      BY <1>2, <2>2
    <3>2. s[i] = t[i - Len(r)]
      BY Zenon, <1>1, <1>3, <3>1
    <3> QED
      BY <3>1, <3>2
  <2> QED
    BY <1>2, <2>1, <2>2
<1> QED
  BY <1>3, <1>4 DEF s, u

\* What is handed over is in the writeBuff_ of the connection's descriptor.
LEMMA WriteRoundHome == ASSUME Inv, HomeInv, WriteRound PROVE HomeInv'
<1> DEFINE c    == owner[cur]
           n    == Lesser(sum, FRAME_MAX_LEN)
           b    == writeBuff_[cur]
           data == peek(b, n)
<1>1. /\ writeBuff_' = [writeBuff_ EXCEPT ![cur] = pop(b, n)]
      /\ \/ got' = got
         \/ got' = [got EXCEPT ![c] = SubSeq(@ \o data, 1, Lesser(MaxGot, Len(@) + n))]
      /\ UNCHANGED <<readBuff_, executed, home, owner, peer, backlog>>
  BY DEF WriteRound
<1>2. /\ cur \in FDs /\ b \in Buffer /\ n \in Nat
      /\ data \in Seq(Byte \cup {Uninit}) /\ Len(data) = n
  BY WriteRoundPops
<1>3. Written(b) /\ \A i \in Index : CameBy(b.m_buff[i], cur)
                                     /\ (b.m_buff[i] # Uninit => Executed(b.m_buff[i]))
  BY <1>2 DEF HomeInv, RepliesHome
<1>4. \A k \in 1 .. Len(data) : /\ data[k] \in Byte /\ Executed(data[k])
                                /\ home[data[k].conn] = cur
  <2> SUFFICES ASSUME NEW k \in 1 .. Len(data)
               PROVE  data[k] \in Byte /\ Executed(data[k]) /\ home[data[k].conn] = cur
    OBVIOUS
  <2>1. data[k] \in Byte
    BY <1>2, <1>3, WrittenReadable
  <2>2. PICK i \in Index : data[k] = b.m_buff[i]
    <3> HIDE DEF b, n
    <3>1. /\ \A i \in 1 .. Lesser(n, length(b)) : Slot(b, i) \in Index
          /\ data = [i \in 1 .. Lesser(n, length(b)) |-> b.m_buff[Slot(b, i)]]
          /\ Lesser(n, length(b)) \in Nat
      BY <1>2, PeekIsReadable, LengthBounds
    <3>2. k \in 1 .. Lesser(n, length(b))
      BY <3>1
    <3> QED
      BY <3>1, <3>2
  <2> QED
    BY <1>3, <2>1, <2>2, UninitAssumption DEF CameBy
<1> HIDE DEF data, n
<1>5. Placed' /\ RequestsHome'
  BY <1>1 DEF HomeInv, Placed, Waiting, RequestsHome, CameBy
<1>6. RepliesHome'
  <2>1. \A fd \in FDs : \/ writeBuff_'[fd] = writeBuff_[fd]
                        \/ fd = cur /\ writeBuff_'[fd] = pop(b, n)
    BY <1>1, HomeTypes
  <2>2. Written(pop(b, n)) /\ pop(b, n).m_buff = b.m_buff
    BY <1>2, <1>3, WrittenPop, PopHolds
  <2>3. \A fd \in FDs : Written(writeBuff_'[fd]) /\ writeBuff_'[fd].m_buff = writeBuff_[fd].m_buff
    BY <2>1, <2>2 DEF HomeInv, RepliesHome
  <2> QED
    <3>1. \A fd \in FDs : \A i \in Index :
             LET x == writeBuff_[fd].m_buff[i]
             IN  /\ x # Uninit => x \in Byte /\ home[x.conn] = fd
                 /\ x # Uninit => \E k \in 1 .. Len(executed[x.conn]) : executed[x.conn][k] = x.n
      BY DEF HomeInv, RepliesHome, CameBy, Executed
    <3>2. UNCHANGED <<home, executed>>
      BY <1>1
    <3> QED
      BY <2>3, <3>1, <3>2 DEF RepliesHome, CameBy, Executed
<1>7. ReceivedHome'
  <2> SUFFICES ASSUME NEW d \in Clients, NEW i \in 1 .. Len(got'[d])
               PROVE  /\ got'[d][i] \in Byte /\ Executed(got'[d][i])
                      /\ home[got'[d][i].conn] = home[d] /\ home[d] \in FDs
    BY <1>1 DEF ReceivedHome, Executed
  <2>1. \A j \in 1 .. Len(got[d]) :
           /\ got[d][j] \in Byte /\ Executed(got[d][j])
           /\ home[got[d][j].conn] = home[d] /\ home[d] \in FDs
    BY DEF HomeInv, ReceivedHome
  <2>2. CASE got'[d] = got[d]
    BY <2>1, <2>2
  <2>3. CASE d = c /\ got'[d] = SubSeq(got[d] \o data, 1, Lesser(MaxGot, Len(got[d]) + n))
    <3> DEFINE g == got[d]
               k == Lesser(MaxGot, Len(g) + n)
    <3>1. g \in Seq(Byte \cup {Uninit}) /\ Len(g) \in Nat
      BY HomeTypes
    <3>2. k \in Nat /\ k <= Len(g) + Len(data)
      BY <1>2, <3>1, BoundAssumption DEF Lesser
    <3>3. got'[d] = SubSeq(g \o data, 1, k)
      BY <2>3
    <3> HIDE DEF g, k
    <3>4. \A j \in 1 .. Len(SubSeq(g \o data, 1, k)) :
            \/ \E l \in 1 .. Len(g) : SubSeq(g \o data, 1, k)[j] = g[l]
            \/ \E l \in 1 .. Len(data) : SubSeq(g \o data, 1, k)[j] = data[l]
      <4> DEFINE S == Byte \cup {Uninit}
      <4>1. g \in Seq(S) /\ data \in Seq(S)
        BY <1>2, <3>1
      <4> HIDE DEF S
      <4> QED
        BY <3>2, <4>1, BeginsWith
    <3>7. \/ \E l \in 1 .. Len(g) : got'[d][i] = g[l]
          \/ \E l \in 1 .. Len(data) : got'[d][i] = data[l]
      BY Zenon, <3>3, <3>4
    <3>8. home[d] = cur
      BY <1>2, <2>3, HomeTypes DEF HomeInv, Placed
    <3> QED
      BY <1>2, <1>4, <2>1, <3>7, <3>8 DEF g
  <2> QED
    BY <1>1, <2>2, <2>3, HomeTypes
<1> QED
  BY <1>5, <1>6, <1>7 DEF HomeInv

LEMMA NextHome == ASSUME Inv, OrderInv, HomeInv, [Next]_vars PROVE HomeInv'
<1>1. CASE UNCHANGED vars
  BY <1>1, QuietHome
<1>2. CASE ServerStep
  BY <1>2, QuietHome, AcceptHome, ReadDataHome, ProcessHome, WriteRoundHome DEF ServerStep
<1>3. CASE \E c \in Clients : Connect(c) \/ Send(c) \/ Shutdown(c) \/ Abort(c)
  BY <1>3, QuietHome, ConnectHome
<1> QED
  BY <1>1, <1>2, <1>3 DEF Next

\* Whatever clients send and buffers refuse, keep or give out again: what is
\* received on a descriptor are replies to requests made on it and executed.
THEOREM AnswersStayHome == Spec => []AnswersFromHome
<1>1. Init => OrderInv /\ HomeInv
  BY InitOrder, InitHome
<1>2. Inv /\ Inv' /\ OrderInv /\ HomeInv /\ [Next]_vars => OrderInv' /\ HomeInv'
  BY NextOrder, NextHome
<1>3. HomeInv => AnswersFromHome
  BY DEF HomeInv, ReceivedHome, Executed, AnswersFromHome
<1> QED
  BY <1>1, <1>2, <1>3, InvAlways, PTL DEF Spec

-----------------------------------------------------------------------------
(***************************************************************************)
(* Clients that wait for each answer.                                      *)
(*                                                                         *)
(* While its descriptor's writeBuff_ has not relapsed, such a client has   *)
(* one request under way at most, and it is in one place at most: its inq, *)
(* the readBuff_ in hand, or the descriptor's writeBuff_ as the answer.    *)
(* Every other readBuff_ of such a descriptor holds nothing, or has        *)
(* relapsed and is written over by the next read.  What spoilt clients do  *)
(* cannot be said, but HomeInv keeps it on their descriptors.              *)
(***************************************************************************)

\* f is the request c waits to have answered.
Due(c, f) == f.conn = c /\ f.n = nsent[c] /\ nsent[c] = Len(got[c]) + 1

\* Replies received are those of the requests sent, but for the one under way.
Turns ==
  \A c \in Clients \ spoilt :
    /\ Len(got[c]) <= nsent[c] /\ nsent[c] <= Len(got[c]) + 1 /\ Len(got[c]) <= MaxGot
    /\ \A i \in 1 .. Len(got[c]) : got[c][i].conn = c /\ got[c][i].n = i

\* A request not yet read,
InQueue == \A c \in Clients \ spoilt : inq[c] # <<>> => Len(inq[c]) = 1 /\ Due(c, inq[c][1])

\* ... one read and not yet processed,
InHand ==
  \A fd \in FDs \ relapsed :
    /\ ~ Fresh(fd) => length(readBuff_[fd]) \in {0, m_size}
    /\ Fresh(fd) => /\ length(readBuff_[fd]) <= 1
                    /\ inq[owner[fd]] = <<>>
                    /\ nsent[owner[fd]] = Len(got[owner[fd]]) + 1
                    /\ length(readBuff_[fd]) = 1 => Due(owner[fd], Readable(readBuff_[fd])[1])

\* ... or one answered, with the answer not yet written.
InAnswer ==
  \A fd \in FDs \ relapsed :
    /\ length(writeBuff_[fd]) <= 1
    /\ length(writeBuff_[fd]) = 1 =>
         /\ owner[fd] # NoClient /\ inq[owner[fd]] = <<>>
         /\ Due(owner[fd], Readable(writeBuff_[fd])[1])

TurnInv == Turns /\ InQueue /\ InHand /\ InAnswer /\ Isolation

\* Nothing is asked, executed or answered for clients that are not spoilt, and
\* their answers wait where they did.
Unnoticed ==
  /\ \A c \in Clients \ spoilt' : /\ nsent'[c] = nsent[c]
                                  /\ executed'[c] = executed[c]
                                  /\ got'[c] = got[c]
  /\ \A fd \in FDs \ relapsed' : /\ writeBuff_'[fd] = writeBuff_[fd]
                                 /\ length(writeBuff_[fd]) = 1 => owner'[fd] = owner[fd]

\* ... and none of their requests moves.
Unmoved ==
  /\ \A c \in Clients \ spoilt' : inq'[c] = inq[c] \/ inq'[c] = <<>>
  /\ \A fd \in FDs \ relapsed' : /\ readBuff_'[fd] = readBuff_[fd]
                                 /\ Fresh(fd)' <=> Fresh(fd)
                                 /\ Fresh(fd) => owner'[fd] = owner[fd]
  /\ \A f \in foreign' : f \in foreign \/ f.conn \in spoilt'

LEMMA TurnTypes ==
  ASSUME Inv
  PROVE  /\ inq \in [Clients -> Seq(Byte)]
         /\ nsent \in [Clients -> Nat]
         /\ got \in [Clients -> Seq(Byte \cup {Uninit})]
         /\ owner \in [FDs -> Clients \cup {NoClient}]
         /\ readBuff_ \in [FDs -> Buffer] /\ writeBuff_ \in [FDs -> Buffer]
         /\ \A c \in Clients : Len(got[c]) \in Nat
         /\ \A fd \in FDs : length(readBuff_[fd]) \in Nat /\ length(writeBuff_[fd]) \in Nat
<1>1. /\ inq \in [Clients -> Seq(Byte)]
      /\ got \in [Clients -> Seq(Byte \cup {Uninit})]
      /\ owner \in [FDs -> Clients \cup {NoClient}]
      /\ readBuff_ \in [FDs -> Buffer] /\ writeBuff_ \in [FDs -> Buffer]
  BY DEF Inv, TypeOK
<1>2. nsent \in [Clients -> Nat]
  BY OrderTypes
<1>3. \A c \in Clients : Len(got[c]) \in Nat
  BY <1>1
<1>4. \A fd \in FDs : length(readBuff_[fd]) \in Nat /\ length(writeBuff_[fd]) \in Nat
  BY <1>1, ReadableIs
<1> QED
  BY <1>1, <1>2, <1>3, <1>4

LEMMA InitTurns == Init => TurnInv
<1> SUFFICES ASSUME Init PROVE TurnInv
  OBVIOUS
<1>1. length(NewBuffer) = 0 /\ \A fd \in FDs : ~ Fresh(fd)
  BY DEF Init, NewBuffer, length, Fresh
<1>2. Turns /\ InQueue /\ Isolation
  BY BoundAssumption DEF Init, Turns, InQueue, Isolation
<1>3. InHand
  BY <1>1 DEF Init, InHand
<1>4. InAnswer
  BY <1>1 DEF Init, InAnswer
<1> QED
  BY <1>2, <1>3, <1>4 DEF TurnInv

\* Clients keep the descriptor they were given, and what is spoilt stays so.
LEMMA SpoiltStays ==
  ASSUME Inv, OrderInv, HomeInv, [Next]_vars
  PROVE  /\ relapsed \subseteq relapsed'
         /\ \A c \in Clients : home[c] \in FDs => home'[c] = home[c]
         /\ spoilt \subseteq spoilt'
         /\ \A fd \in FDs : owner[fd] # NoClient => owner[fd] \in Clients /\ home'[owner[fd]] = fd
<1>1. relapsed \subseteq relapsed'
  BY DEF Next, ServerStep, vars, EpollWait, DispatchListen, DispatchClose, DispatchRead,
         EndDispatch, AcceptFails, Accept, ReadData, ReadEnds, Process, WriteBegin, WriteDone,
         WriteRound, Connect, Send, Shutdown, Abort
<1>2. home' = home \/ Accept
  BY DEF Next, ServerStep, vars, EpollWait, DispatchListen, DispatchClose, DispatchRead,
         EndDispatch, AcceptFails, ReadData, ReadEnds, Process, WriteBegin, WriteDone,
         WriteRound, Connect, Send, Shutdown, Abort
<1>3. ASSUME Accept, NEW c \in Clients, home[c] \in FDs PROVE home'[c] = home[c]
  <2>1. backlog \in Seq(Clients) /\ backlog # <<>>
    BY <1>3 DEF Inv, TypeOK, Accept
  <2>2. Waiting(Head(backlog)) /\ Head(backlog) \in Clients
    <3>1. 1 \in 1 .. Len(backlog) /\ Head(backlog) = backlog[1] /\ Head(backlog) \in Clients
      BY <2>1
    <3> QED
      BY <3>1 DEF Waiting
  <2>3. c # Head(backlog)
    BY <1>3, <2>2, HomeTypes DEF HomeInv, Placed
  <2> QED
    BY <1>3, <2>3, HomeTypes DEF Accept
<1>4. \A c \in Clients : home[c] \in FDs => home'[c] = home[c]
  BY <1>2, <1>3
<1>5. spoilt \subseteq spoilt'
  BY <1>1, <1>4, HomeTypes DEF spoilt
<1>6. \A fd \in FDs : owner[fd] # NoClient => owner[fd] \in Clients /\ home[owner[fd]] = fd
  BY HomeTypes DEF HomeInv, Placed
<1> QED
  BY <1>1, <1>4, <1>5, <1>6

\* An owner is spoilt with its descriptor.
LEMMA OwnerSpoilt ==
  ASSUME Inv, HomeInv, NEW fd \in FDs, owner[fd] # NoClient
  PROVE  owner[fd] \in Clients /\ (owner[fd] \in spoilt <=> fd \in relapsed)
BY HomeTypes DEF HomeInv, Placed, spoilt

\* Whoever holds a request or an answer has the descriptor's client.
LEMMA HeldOwned ==
  ASSUME Inv, HomeInv, TurnInv,
         NEW fd \in FDs \ relapsed, Fresh(fd) \/ length(writeBuff_[fd]) = 1
  PROVE  owner[fd] \in Clients \ spoilt
<1>1. owner[fd] # NoClient
  <2>1. CASE Fresh(fd)
    BY <2>1, CurrentOwned, ClientAssumption DEF Fresh
  <2>2. CASE length(writeBuff_[fd]) = 1
    BY <2>2 DEF TurnInv, InAnswer
  <2> QED
    BY <2>1, <2>2
<1> QED
  BY <1>1, OwnerSpoilt

\* Steps of the network, of the loop and of spoilt clients.
LEMMA TurnsElsewhere ==
  ASSUME Inv, OrderInv, HomeInv, TurnInv, [Next]_vars, Unnoticed, Unmoved
  PROVE  TurnInv'
<1>1. /\ relapsed \subseteq relapsed' /\ spoilt \subseteq spoilt'
      /\ \A c \in Clients : home[c] \in FDs => home'[c] = home[c]
      /\ \A fd \in FDs : owner[fd] # NoClient => owner[fd] \in Clients /\ home'[owner[fd]] = fd
  BY SpoiltStays
<1>2. \A c \in Clients \ spoilt' : c \in Clients \ spoilt
  BY <1>1
<1>3. ASSUME NEW fd \in FDs \ relapsed', Fresh(fd) \/ length(writeBuff_[fd]) = 1
      PROVE  owner[fd] \in Clients \ spoilt' /\ owner'[fd] = owner[fd]
  <2>1. owner[fd] # NoClient /\ owner[fd] \in Clients
    BY <1>1, <1>3, HeldOwned, ClientAssumption
  <2>2. owner[fd] \notin spoilt'
    BY <1>1, <2>1 DEF spoilt
  <2> QED
    BY <1>3, <2>1, <2>2 DEF Unnoticed, Unmoved
<1>4. Turns'
  <2> SUFFICES ASSUME NEW c \in Clients \ spoilt'
               PROVE  /\ Len(got'[c]) <= nsent'[c] /\ nsent'[c] <= Len(got'[c]) + 1
                      /\ Len(got'[c]) <= MaxGot
                      /\ \A i \in 1 .. Len(got'[c]) : got'[c][i].conn = c /\ got'[c][i].n = i
    BY DEF Turns
  <2> QED
    BY <1>2 DEF TurnInv, Turns, Unnoticed
<1>5. InQueue'
  <2> SUFFICES ASSUME NEW c \in Clients \ spoilt', inq'[c] # <<>>
               PROVE  /\ Len(inq'[c]) = 1
                      /\ LET f == inq'[c][1]
                         IN  f.conn = c /\ f.n = nsent'[c] /\ nsent'[c] = Len(got'[c]) + 1
    BY DEF InQueue, Due
  <2>1. inq'[c] = inq[c] /\ nsent'[c] = nsent[c] /\ got'[c] = got[c]
    BY DEF Unnoticed, Unmoved
  <2>2. Len(inq[c]) = 1 /\ Due(c, inq[c][1])
    BY <1>2, <2>1 DEF TurnInv, InQueue
  <2> QED
    BY <2>1, <2>2 DEF Due
<1>6. InHand'
  <2> SUFFICES ASSUME NEW fd \in FDs \ relapsed'
               PROVE  /\ ~ Fresh(fd) => length(readBuff_[fd]) \in {0, m_size}
                      /\ Fresh(fd) =>
                           /\ length(readBuff_[fd]) <= 1
                           /\ inq'[owner[fd]] = <<>>
                           /\ nsent'[owner[fd]] = Len(got'[owner[fd]]) + 1
                           /\ length(readBuff_[fd]) = 1 =>
                                LET f == Readable(readBuff_[fd])[1]
                                IN  /\ f.conn = owner[fd] /\ f.n = nsent'[owner[fd]]
                                    /\ nsent'[owner[fd]] = Len(got'[owner[fd]]) + 1
    BY DEF InHand, Due, Unmoved
  <2>1. fd \in FDs \ relapsed
    BY <1>1
  <2>2. ~ Fresh(fd) => length(readBuff_[fd]) \in {0, m_size}
    BY <2>1 DEF TurnInv, InHand
  <2>3. Fresh(fd) => /\ length(readBuff_[fd]) <= 1
                     /\ inq[owner[fd]] = <<>>
                     /\ nsent[owner[fd]] = Len(got[owner[fd]]) + 1
                     /\ length(readBuff_[fd]) = 1 => Due(owner[fd], Readable(readBuff_[fd])[1])
    BY <2>1 DEF TurnInv, InHand
  <2>4. Fresh(fd) => /\ nsent'[owner[fd]] = nsent[owner[fd]]
                     /\ got'[owner[fd]] = got[owner[fd]]
                     /\ inq'[owner[fd]] = inq[owner[fd]] \/ inq'[owner[fd]] = <<>>
    BY <1>3 DEF Unnoticed, Unmoved
  <2> QED
    BY <2>2, <2>3, <2>4 DEF Due
<1>7. InAnswer'
  <2> SUFFICES ASSUME NEW fd \in FDs \ relapsed'
               PROVE  /\ length(writeBuff_[fd]) <= 1
                      /\ length(writeBuff_[fd]) = 1 =>
                           /\ owner[fd] # NoClient /\ inq'[owner[fd]] = <<>>
                           /\ LET f == Readable(writeBuff_[fd])[1]
                              IN  /\ f.conn = owner[fd] /\ f.n = nsent'[owner[fd]]
                                  /\ nsent'[owner[fd]] = Len(got'[owner[fd]]) + 1
    BY DEF InAnswer, Due, Unnoticed
  <2>1. fd \in FDs \ relapsed
    BY <1>1
  <2>2. /\ length(writeBuff_[fd]) <= 1
        /\ length(writeBuff_[fd]) = 1 =>
             /\ owner[fd] # NoClient /\ inq[owner[fd]] = <<>>
             /\ Due(owner[fd], Readable(writeBuff_[fd])[1])
    BY <2>1 DEF TurnInv, InAnswer
  <2>3. length(writeBuff_[fd]) = 1 =>
          /\ nsent'[owner[fd]] = nsent[owner[fd]]
          /\ got'[owner[fd]] = got[owner[fd]]
          /\ inq'[owner[fd]] = inq[owner[fd]] \/ inq'[owner[fd]] = <<>>
    BY <1>3 DEF Unnoticed, Unmoved
  <2> QED
    BY <2>2, <2>3 DEF Due
<1>8. Isolation'
  <2> SUFFICES ASSUME NEW f \in foreign' PROVE home'[f.conn] \in relapsed'
    BY DEF Isolation
  <2>1. CASE f \in foreign
    <3>1. f.conn \in Clients
      BY <2>1, FrameFields DEF Inv, TypeOK
    <3>2. home[f.conn] \in relapsed
      BY <2>1 DEF TurnInv, Isolation
    <3> QED
      BY <1>1, <3>1, <3>2, HomeTypes
  <2>2. CASE f.conn \in spoilt'
    BY <2>2 DEF spoilt
  <2> QED
    BY <2>1, <2>2 DEF Unmoved
<1> QED
  BY <1>4, <1>5, <1>6, <1>7, <1>8 DEF TurnInv

\* Steps that move no request; connections may begin, and those end that hold none.
LEMMA QuietSteps ==
  ASSUME UNCHANGED <<nsent, got, executed, readBuff_, writeBuff_, foreign>>,
         \A fd \in FDs : Fresh(fd)' <=> Fresh(fd),
         \A c \in Clients : inq'[c] = inq[c] \/ inq'[c] = <<>>,
         \A fd \in FDs \ relapsed :
            Fresh(fd) \/ length(writeBuff_[fd]) = 1 => owner'[fd] = owner[fd],
         relapsed \subseteq relapsed'
  PROVE  Unnoticed /\ Unmoved
BY DEF Unnoticed, Unmoved

\* The clients' other steps, and those of the loop that move nothing.
LEMMA LoopUnnoticed ==
  ASSUME Inv,
         \/ \E c \in Clients : Connect(c) \/ Shutdown(c) \/ Abort(c)
         \/ EpollWait \/ DispatchListen \/ DispatchRead \/ EndDispatch \/ AcceptFails
         \/ WriteBegin \/ WriteDone
         \/ UNCHANGED vars
  PROVE  Unnoticed /\ Unmoved
<1>1. UNCHANGED <<nsent, got, executed, readBuff_, writeBuff_, foreign, inq, owner, relapsed>>
  BY DEF Connect, Shutdown, Abort, EpollWait, DispatchListen, DispatchRead, EndDispatch,
         AcceptFails, WriteBegin, WriteDone, vars
<1>2. \/ UNCHANGED <<pc, cur, sum>>
      \/ pc \notin {"read", "process"} /\ pc' # "process" /\ (pc' = "read" => sum' = 0)
  BY DEF Connect, Shutdown, Abort, EpollWait, DispatchListen, DispatchRead, EndDispatch,
         AcceptFails, WriteBegin, WriteDone, vars
<1>3. \A fd \in FDs : Fresh(fd)' <=> Fresh(fd)
  BY <1>2 DEF Fresh
<1> QED
  BY <1>1, <1>3, QuietSteps

\* A connection that is closed has had its answers: its event was in the batch.
LEMMA DispatchCloseUnnoticed ==
  ASSUME Inv, Replies, DispatchClose PROVE Unnoticed /\ Unmoved
<1>1. PICK e \in batch : e.fd # listenFd_ /\ CloseConn_(e.fd)
  BY DEF DispatchClose
<1>2. /\ pc = "dispatch" /\ e.fd \in FDs
      /\ UNCHANGED <<nsent, got, executed, readBuff_, writeBuff_, foreign, pc, cur, sum, relapsed>>
  BY <1>1 DEF DispatchClose, Inv, TypeOK, Event
<1>3. \A fd \in FDs : ~ Fresh(fd) /\ ~ Fresh(fd)'
  BY <1>2 DEF Fresh
<1>4. \A c \in Clients : inq'[c] = inq[c] \/ inq'[c] = <<>>
  BY <1>1, TurnTypes DEF CloseConn_
<1>5. ASSUME NEW fd \in FDs, length(writeBuff_[fd]) = 1 PROVE owner'[fd] = owner[fd]
  <2>1. ~ Drained(writeBuff_[fd])
    BY <1>5, TurnTypes, SizeAssumption DEF Drained, Relapsed, IsEmpty, length, Buffer, Index
  <2>2. fd # e.fd
    BY <1>2, <2>1 DEF Replies, Waits
  <2> QED
    BY <1>1, <1>2, <2>2, TurnTypes DEF CloseConn_
<1> QED
  BY <1>2, <1>3, <1>4, <1>5, QuietSteps

LEMMA AcceptUnnoticed == ASSUME Inv, TurnInv, Accept PROVE Unnoticed /\ Unmoved
<1>1. /\ pc = "accept" /\ pc' = "accept"
      /\ UNCHANGED <<nsent, got, executed, readBuff_, writeBuff_, foreign, inq, cur, sum, relapsed>>
  BY DEF Accept, AfterAccept
<1>2. \A fd \in FDs : ~ Fresh(fd) /\ ~ Fresh(fd)'
  BY <1>1 DEF Fresh
<1>3. \A fd \in FDs : owner[fd] # NoClient => owner'[fd] = owner[fd]
  BY TurnTypes DEF Accept, Free
<1>4. \A fd \in FDs \ relapsed : length(writeBuff_[fd]) = 1 => owner'[fd] = owner[fd]
  BY <1>3 DEF TurnInv, InAnswer
<1> QED
  BY <1>1, <1>2, <1>4, QuietSteps

\* A read that ends without data had the request before it.
LEMMA ReadEndsUnnoticed == ASSUME Inv, OrderInv, ReadEnds PROVE Unnoticed /\ Unmoved
<1>1. pc = "read" /\ inq[owner[cur]] = <<>> /\ sum \in Nat
  BY DEF Inv, TypeOK, ReadEnds
<1>2. sum > 0
  BY <1>1 DEF OrderInv, ToRead
<1>3. /\ pc' = "process"
      /\ UNCHANGED <<nsent, got, executed, readBuff_, writeBuff_, foreign, inq, owner, cur, sum,
                     relapsed>>
  BY <1>1, <1>2 DEF ReadEnds
<1>4. \A fd \in FDs : Fresh(fd)' <=> Fresh(fd)
  BY <1>1, <1>2, <1>3 DEF Fresh
<1> QED
  BY <1>3, <1>4, QuietSteps

\* A request that is sent to a descriptor with a relapsed writeBuff_,
LEMMA SendUnnoticed ==
  ASSUME Inv, HomeInv, NEW c \in spoilt, Send(c) PROVE Unnoticed /\ Unmoved
<1>1. /\ nsent' = [nsent EXCEPT ![c] = @ + 1]
      /\ \E f : inq' = [inq EXCEPT ![c] = Append(@, f)]
      /\ UNCHANGED <<got, executed, owner, readBuff_, writeBuff_, foreign, pc, cur, sum, home,
                     relapsed>>
  BY DEF Send
<1>2. spoilt' = spoilt
  BY <1>1 DEF spoilt
<1>3. \A d \in Clients \ spoilt' : nsent'[d] = nsent[d] /\ inq'[d] = inq[d]
  BY <1>1, <1>2, TurnTypes
<1>4. \A fd \in FDs : Fresh(fd)' <=> Fresh(fd)
  BY <1>1 DEF Fresh
<1> QED
  BY <1>1, <1>3, <1>4 DEF Unnoticed, Unmoved

\* ... read from it,
LEMMA ReadDataUnnoticed ==
  ASSUME Inv, HomeInv, ReadData
  PROVE  Unnoticed /\ (cur \in relapsed => Unmoved)
<1>1. /\ pc = "read" /\ pc' \in {"read", "process"}
      /\ UNCHANGED <<nsent, got, executed, owner, writeBuff_, foreign, cur, home, relapsed>>
      /\ \E s : readBuff_' = [readBuff_ EXCEPT ![cur] = s]
      /\ \E s : inq' = [inq EXCEPT ![owner[cur]] = s]
  BY DEF ReadData
<1>2. Unnoticed
  BY <1>1 DEF Unnoticed
<1>3. ASSUME cur \in relapsed PROVE Unmoved
  <2>1. spoilt' = spoilt /\ owner[cur] \in spoilt
    <3>1. cur \in FDs /\ owner[cur] # NoClient
      BY <1>1, CurrentOwned, ClientAssumption
    <3> QED
      BY <1>1, <1>3, <3>1, OwnerSpoilt DEF spoilt
  <2>2. \A d \in Clients \ spoilt' : inq'[d] = inq[d]
    BY <1>1, <2>1, TurnTypes
  <2>3. \A fd \in FDs \ relapsed' : readBuff_'[fd] = readBuff_[fd] /\ ~ Fresh(fd) /\ ~ Fresh(fd)'
    BY <1>1, <1>3, TurnTypes DEF Fresh
  <2> QED
    BY <1>1, <2>2, <2>3 DEF Unmoved
<1> QED
  BY <1>2, <1>3

\* ... executed for it
LEMMA ProcessUnnoticed ==
  ASSUME Inv, OrderInv, HomeInv, Process, cur \in relapsed PROVE Unnoticed /\ Unmoved
<1>1. /\ pc = "process" /\ pc' = "dispatch"
      /\ UNCHANGED <<nsent, got, owner, inq, home, relapsed>>
      /\ \E s : readBuff_' = [readBuff_ EXCEPT ![cur] = s]
  BY DEF Process
<1>2. \A fd \in FDs \ relapsed' : readBuff_'[fd] = readBuff_[fd] /\ ~ Fresh(fd) /\ ~ Fresh(fd)'
  BY <1>1, TurnTypes DEF Fresh
<1>3. spoilt' = spoilt
  BY <1>1 DEF spoilt
<1>4. CASE UNCHANGED <<writeBuff_, executed, foreign>>
  BY <1>1, <1>2, <1>4 DEF Unnoticed, Unmoved
<1>5. ASSUME NEW f \in Byte, home[f.conn] = cur,
             executed' = [executed EXCEPT ![f.conn] = Append(@, f.n)],
             \/ writeBuff_' = writeBuff_
             \/ writeBuff_' = [writeBuff_ EXCEPT ![cur] = append(@, <<f>>)],
             foreign' = foreign \/ foreign' = foreign \cup {f}
      PROVE  Unnoticed /\ Unmoved
  <2>1. f.conn \in spoilt
    BY <1>5, FrameFields DEF spoilt
  <2>2. \A d \in Clients \ spoilt' : executed'[d] = executed[d]
    BY <1>3, <1>5, <2>1, HomeTypes
  <2>3. \A fd \in FDs \ relapsed' : writeBuff_'[fd] = writeBuff_[fd]
    BY <1>1, <1>5, TurnTypes
  <2>4. \A g \in foreign' : g \in foreign \/ g.conn \in spoilt'
    BY <1>3, <1>5, <2>1
  <2> QED
    BY <1>1, <1>2, <2>2, <2>3, <2>4 DEF Unnoticed, Unmoved
<1> QED
  BY <1>4, <1>5, ProcessExecutes

\* ... or answered from it is no other client's, nor is the first reply of those
\* that spoil the descriptor.
LEMMA WriteRoundUnnoticed ==
  ASSUME Inv, HomeInv, WriteRound, cur \in relapsed' PROVE Unnoticed /\ Unmoved
<1>1. /\ pc = "write" /\ pc' \in {"write", "killed"}
      /\ UNCHANGED <<nsent, executed, owner, inq, readBuff_, foreign, home>>
      /\ \E s : writeBuff_' = [writeBuff_ EXCEPT ![cur] = s]
      /\ got' = got \/ \E s : got' = [got EXCEPT ![owner[cur]] = s]
  BY DEF WriteRound
<1>2. cur \in FDs
  BY WriteRoundPops
<1>3. owner[cur] \in Clients => owner[cur] \in spoilt'
  BY <1>1, <1>2, ClientAssumption DEF HomeInv, Placed, spoilt
<1>4. \A d \in Clients \ spoilt' : got'[d] = got[d]
  BY <1>1, <1>3, TurnTypes
<1>5. \A fd \in FDs \ relapsed' : writeBuff_'[fd] = writeBuff_[fd]
  BY <1>1, TurnTypes
<1>6. \A fd \in FDs : ~ Fresh(fd) /\ ~ Fresh(fd)'
  BY <1>1 DEF Fresh
<1> QED
  BY <1>1, <1>4, <1>5, <1>6 DEF Unnoticed, Unmoved

\* The next request of a client that has had its answers.
LEMMA SendTurns ==
  ASSUME ~ Pipelining, Inv, HomeInv, TurnInv, NEW c \in Clients \ spoilt, Send(c)
  PROVE  TurnInv'
<1>1. PICK k \in Kinds :
        inq' = [inq EXCEPT ![c] = Append(@, [conn |-> c, n |-> nsent[c] + 1, kind |-> k])]
  BY DEF Send
<1>2. /\ nsent' = [nsent EXCEPT ![c] = @ + 1] /\ Len(got[c]) >= nsent[c]
      /\ UNCHANGED <<got, owner, readBuff_, writeBuff_, foreign, pc, cur, sum, home, relapsed>>
  BY DEF Send
<1>0. spoilt' = spoilt
  BY <1>2 DEF spoilt
<1> DEFINE f == [conn |-> c, n |-> nsent[c] + 1, kind |-> k]
<1>3. f.conn = c /\ f.n = nsent[c] + 1 /\ inq' = [inq EXCEPT ![c] = Append(@, f)]
  BY <1>1
<1> HIDE DEF f
<1>4. /\ nsent[c] = Len(got[c]) /\ nsent[c] \in Nat
      /\ nsent'[c] = nsent[c] + 1
      /\ \A d \in Clients : d # c => nsent'[d] = nsent[d] /\ inq'[d] = inq[d]
  BY <1>2, <1>3, TurnTypes DEF TurnInv, Turns
<1>5. inq[c] = <<>>
  BY <1>4, TurnTypes DEF TurnInv, InQueue, Due
<1>6. inq'[c] = <<f>>
  BY <1>3, <1>5, TurnTypes
<1>7. \A fd \in FDs \ relapsed : Fresh(fd) \/ length(writeBuff_[fd]) = 1 =>
                                   owner[fd] \in Clients /\ owner[fd] # c
  <2> SUFFICES ASSUME NEW fd \in FDs \ relapsed, Fresh(fd) \/ length(writeBuff_[fd]) = 1
               PROVE  owner[fd] \in Clients /\ owner[fd] # c
    OBVIOUS
  <2>1. nsent[owner[fd]] = Len(got[owner[fd]]) + 1
    BY DEF TurnInv, InHand, InAnswer, Due
  <2> QED
    BY <1>4, <2>1, HeldOwned
<1>8. Turns' /\ Isolation'
  BY <1>0, <1>2, <1>4 DEF TurnInv, Turns, Isolation
<1>9. InQueue'
  <2>1. Len(<<f>>) = 1 /\ <<f>>[1] = f
    OBVIOUS
  <2> QED
    BY <1>0, <1>2, <1>3, <1>4, <1>6, <2>1 DEF TurnInv, InQueue, Due
<1>10. \A fd \in FDs : Fresh(fd)' <=> Fresh(fd)
  BY <1>2 DEF Fresh
<1>11. InHand'
  BY <1>2, <1>4, <1>7, <1>10 DEF TurnInv, InHand, Due
<1>12. InAnswer'
  BY <1>2, <1>4, <1>7 DEF TurnInv, InAnswer, Due
<1> QED
  BY <1>8, <1>9, <1>11, <1>12 DEF TurnInv

\* What is read is the one request that was due, into a buffer without any.
LEMMA ReadDataTurns ==
  ASSUME Inv, HomeInv, TurnInv, ReadData, cur \notin relapsed PROVE TurnInv'
<1> DEFINE c    == owner[cur]
           n    == Lesser(Len(inq[c]), FRAME_MAX_LEN)
           data == SubSeq(inq[c], 1, n)
           b    == readBuff_[cur]
<1>1. /\ pc = "read" /\ pc' \in {"read", "process"}
      /\ UNCHANGED <<nsent, got, owner, writeBuff_, foreign, cur, home, relapsed>>
      /\ n > 0
      /\ readBuff_' = [readBuff_ EXCEPT ![cur] = append(@, data)]
      /\ inq' = [inq EXCEPT ![c] = SubSeq(@, n + 1, Len(@))]
      /\ sum' = sum + n
  BY DEF ReadData
<1>2. /\ cur \in FDs /\ c \in Clients /\ inq \in [Clients -> Seq(Byte)] /\ b \in Buffer
      /\ readBuff_ \in [FDs -> Buffer] /\ sum \in Nat
  BY <1>1, CurrentOwned DEF Inv, TypeOK
<1>0. spoilt' = spoilt /\ c \in Clients \ spoilt
  <2>1. c # NoClient
    BY <1>2, ClientAssumption
  <2> QED
    BY <1>1, <1>2, <2>1, OwnerSpoilt DEF spoilt
<1>3. inq[c] # <<>>
  BY <1>1, <1>2, BoundAssumption DEF Lesser
<1>4. Len(inq[c]) = 1 /\ Due(c, inq[c][1])
  BY <1>0, <1>3 DEF TurnInv, InQueue
<1>5. n = 1
  BY <1>4, BoundAssumption DEF Lesser
<1>6. /\ data \in Seq(Byte) /\ Len(data) = 1 /\ data[1] = inq[c][1]
      /\ SubSeq(inq[c], n + 1, Len(inq[c])) = <<>>
  <2>1. \A s \in Seq(Byte) : Len(s) = 1 =>
          /\ SubSeq(s, 1, 1) \in Seq(Byte) /\ Len(SubSeq(s, 1, 1)) = 1
          /\ SubSeq(s, 1, 1)[1] = s[1] /\ SubSeq(s, 2, 1) = <<>>
    OBVIOUS
  <2>2. inq[c] \in Seq(Byte)
    BY <1>2
  <2>3. data = SubSeq(inq[c], 1, 1) /\ SubSeq(inq[c], n + 1, Len(inq[c])) = SubSeq(inq[c], 2, 1)
    BY <1>4, <1>5
  <2> HIDE DEF c, n, data, b
  <2> QED
    BY Zenon, <1>4, <2>1, <2>2, <2>3
<1> HIDE DEF c, n, data, b
<1> SUFFICES ASSUME NEW d \in FDs \ relapsed, d = cur PROVE TurnInv'
  BY <1>2
<1>7. ~ Fresh(d) /\ c = owner[d] /\ b = readBuff_[d]
  BY <1>3 DEF TurnInv, InHand, c, b
<1>8. \A fd \in FDs : fd # d => ~ Fresh(fd) /\ ~ Fresh(fd)'
  BY <1>1 DEF Fresh
<1>9. Fresh(d)'
  BY <1>1, <1>2, <1>5 DEF Fresh
<1>10. /\ inq'[c] = <<>>
       /\ \A e \in Clients : e # c => inq'[e] = inq[e]
       /\ readBuff_'[d] = append(b, data)
       /\ \A fd \in FDs : fd # d => readBuff_'[fd] = readBuff_[fd]
  BY <1>1, <1>2, <1>6 DEF b
<1>11. Turns' /\ Isolation'
  BY <1>0, <1>1 DEF TurnInv, Turns, Isolation
<1>12. InQueue'
  BY <1>0, <1>1, <1>10 DEF TurnInv, InQueue, Due
<1>13. InHand'
  <2>1. append(b, data) \in Buffer
    <3>1. Len(data) \in 1 .. m_size
      BY <1>6, SizeAssumption
    <3> QED
      BY <1>2, <1>6, <3>1, AppendTyped
  <2>2. \/ Readable(append(b, data)) = data
        \/ Readable(append(b, data)) = Readable(b) /\ length(b) = 0
        \/ Readable(append(b, data)) = Readable(b) \o data /\ length(b) = 0
    <3>1. Len(data) \in 1 .. m_size
      BY <1>6, SizeAssumption
    <3>2. length(b) \in {0, m_size}
      BY <1>7 DEF TurnInv, InHand
    <3>3. m_size # 0 /\ ~ m_size < m_size
      BY SizeAssumption
    <3> QED
      BY <1>2, <1>6, <3>1, <3>2, <3>3, ReadableAfterAppend
  <2>3. length(append(b, data)) = Len(Readable(append(b, data))) /\ Len(Readable(b)) = length(b)
    BY <1>2, <2>1, ReadableIs
  <2>4. length(b) = 0 => Readable(b) = <<>> /\ Readable(b) \o data = data
    <3>1. length(b) = 0 => Readable(b) = <<>>
      BY <1>2, ReadableIs
    <3>2. \A s \in Seq(Byte) : <<>> \o s = s
      OBVIOUS
    <3> QED
      BY Zenon, <1>6, <3>1, <3>2
  <2>5. \/ length(append(b, data)) = 0
        \/ length(append(b, data)) = 1 /\ Readable(append(b, data))[1] = inq[c][1]
    <3>1. Readable(append(b, data)) = <<>> \/ Readable(append(b, data)) = data
      BY Zenon, <2>2, <2>4
    <3>2. Len(<<>>) = 0
      OBVIOUS
    <3> QED
      BY Zenon, <1>6, <2>3, <3>1, <3>2
  <2>6. ASSUME NEW fd \in FDs \ relapsed, fd # d
        PROVE  ~ Fresh(fd)' /\ length(readBuff_'[fd]) \in {0, m_size}
    BY <1>8, <1>10, <2>6 DEF TurnInv, InHand
  <2>7. /\ length(readBuff_'[d]) <= 1
        /\ inq'[owner[d]] = <<>>
        /\ nsent[owner[d]] = Len(got[owner[d]]) + 1
        /\ length(readBuff_'[d]) = 1 => Due(owner[d], Readable(readBuff_'[d])[1])
    BY <1>4, <1>7, <1>10, <2>5 DEF Due
  <2> QED
    BY <1>1, <1>9, <2>6, <2>7 DEF InHand, Due
<1>14. InAnswer'
  <2>1. ASSUME NEW fd \in FDs \ relapsed, length(writeBuff_[fd]) = 1
        PROVE  inq'[owner[fd]] = <<>>
    <3>1. owner[fd] \in Clients /\ inq[owner[fd]] = <<>>
      BY <2>1, HeldOwned DEF TurnInv, InAnswer
    <3> QED
      BY <1>10, <3>1
  <2> QED
    BY <1>1, <2>1 DEF TurnInv, InAnswer, Due
<1> QED
  BY <1>11, <1>12, <1>13, <1>14 DEF TurnInv

\* What one Process does in the client's turn: the request leaves readBuff_, and
\* its answer, if it has one, is the only one in writeBuff_.
LEMMA ProcessTakesTurn ==
  ASSUME Inv, Replies, HomeInv, TurnInv, Process, cur \notin relapsed
  PROVE  /\ length(readBuff_'[cur]) \in {0, m_size}
         /\ foreign' = foreign
         /\ \/ writeBuff_'[cur] = writeBuff_[cur]
            \/ /\ length(writeBuff_'[cur]) = 1
               /\ Due(owner[cur], Readable(writeBuff_'[cur])[1])
         /\ length(writeBuff_[cur]) = 0
<1> DEFINE b     == readBuff_[cur]
           bytes == peek(b, FRAME_MAX_LEN)
           w     == writeBuff_[cur]
<1>1. /\ pc = "process" /\ cur \in FDs /\ owner[cur] \in Clients
      /\ b \in Buffer /\ w \in Buffer
  BY CurrentOwned DEF Process, Inv, TypeOK
<1>2. /\ length(b) \in {0, 1}
      /\ inq[owner[cur]] = <<>>
      /\ length(b) = 1 => Due(owner[cur], Readable(b)[1])
  <2>1. Fresh(cur)
    BY <1>1 DEF Fresh
  <2>2. length(b) \in Nat
    BY <1>1, LengthBounds
  <2> QED
    BY <1>1, <2>1, <2>2 DEF TurnInv, InHand
<1>3. length(w) = 0
  <2>1. length(w) # 1
    <3>1. length(w) = 1 => ~ Drained(w)
      BY <1>1, SizeAssumption DEF Drained, Relapsed, IsEmpty, length, Buffer, Index
    <3> QED
      BY <1>1, <3>1 DEF Replies, Waits
  <2> QED
    BY <1>1, <2>1, TurnTypes DEF TurnInv, InAnswer
<1>4. /\ Len(bytes) = length(b)
      /\ \A i \in 1 .. Len(bytes) : bytes[i] = Readable(b)[i]
  <2>1. FRAME_MAX_LEN \in Nat /\ 0 < FRAME_MAX_LEN
    BY BoundAssumption
  <2>2. Lesser(FRAME_MAX_LEN, length(b)) = length(b)
    BY <1>2, <2>1 DEF Lesser
  <2>3. bytes = [i \in 1 .. length(b) |-> b.m_buff[Slot(b, i)]]
    BY <1>1, <2>1, <2>2, PeekIsReadable
  <2>4. length(b) \in Nat
    BY <1>2
  <2>5. Len(bytes) = length(b)
    <3> HIDE DEF b
    <3> QED
      BY <2>3, <2>4
  <2> QED
    BY <1>1, <2>1, <2>5, PeekBegins
<1>5. \A i \in 1 .. Len(bytes) : bytes[i] \in Byte
  BY <1>1, BoundAssumption, WrittenReadable DEF Inv, ReadBuffersWritten
<1>6. PICK discard \in 0 .. Len(bytes) :
        \/ /\ discard = Len(bytes)
           /\ readBuff_' = [readBuff_ EXCEPT ![cur] = pop(@, discard)]
           /\ UNCHANGED <<writeBuff_, foreign>>
        \/ /\ discard < Len(bytes)
           /\ readBuff_' = [readBuff_ EXCEPT ![cur] = AfterFrame(@, discard)]
           /\ frameProcess(bytes[discard + 1])
  BY DEF Process
<1> HIDE DEF b, bytes, w
<1>7. CASE /\ discard = Len(bytes)
           /\ readBuff_' = [readBuff_ EXCEPT ![cur] = pop(@, discard)]
           /\ UNCHANGED <<writeBuff_, foreign>>
  <2>1. readBuff_'[cur] = pop(b, length(b))
    BY <1>1, <1>4, <1>7, TurnTypes DEF b
  <2>2. length(pop(b, length(b))) \in {0, m_size}
    BY <1>1, <1>2, ReadableAfterPop
  <2> QED
    BY <1>3, <1>7, <2>1, <2>2 DEF w
<1>8. CASE /\ discard < Len(bytes)
           /\ readBuff_' = [readBuff_ EXCEPT ![cur] = AfterFrame(@, discard)]
           /\ frameProcess(bytes[discard + 1])
  <2> DEFINE f == bytes[discard + 1]
  <2>1. discard = 0 /\ length(b) = 1 /\ Len(bytes) = 1
    BY <1>2, <1>4, <1>8
  <2>2. f \in Byte /\ Due(owner[cur], f)
    BY <1>2, <1>4, <1>5, <2>1
  <2>3. readBuff_'[cur] = pop(pop(b, 0), 1)
    BY <1>1, <1>8, <2>1, TurnTypes DEF b, AfterFrame
  <2>4. length(pop(b, 1)) \in {0, m_size}
    BY <1>1, <2>1, ReadableAfterPop
  <2>5. length(readBuff_'[cur]) \in {0, m_size}
    BY <1>1, <2>3, <2>4, PopNone
  <2> HIDE DEF f
  <2>6. frameProcess(f)
    BY <1>8 DEF f
  <2>7. foreign' = foreign
    BY <2>2, <2>6 DEF frameProcess, Due
  <2>8. \/ writeBuff_' = writeBuff_
        \/ writeBuff_'[cur] = append(w, <<f>>)
    BY <1>1, <2>6, TurnTypes DEF frameProcess, w
  <2>9. CASE writeBuff_' = writeBuff_
    BY <1>3, <2>5, <2>7, <2>9 DEF w
  <2>10. CASE writeBuff_'[cur] = append(w, <<f>>)
    <3>1. <<f>> \in Seq(Byte) /\ Len(<<f>>) = 1 /\ <<f>>[1] = f /\ 1 \in 1 .. m_size
      BY <2>2, SizeAssumption
    <3>2. append(w, <<f>>) \in Buffer
      BY <1>1, <3>1, AppendTyped
    <3>3. length(w) # m_size
      BY <1>3, SizeAssumption
    <3>4. CASE ~ Accepts(w, Len(<<f>>))
      <4>1. append(w, <<f>>) = w
        BY <3>4 DEF append
      <4> QED
        BY <1>3, <2>5, <2>7, <2>10, <4>1 DEF w
    <3>5. CASE Accepts(w, Len(<<f>>))
      <4>1. Readable(append(w, <<f>>)) = Readable(w) \o <<f>>
        BY <1>1, <3>1, <3>3, <3>5, ReadableAfterAppend
      <4>2. Readable(w) = <<>>
        BY <1>1, <1>3, ReadableIs
      <4>3. <<>> \o <<f>> = <<f>>
        BY <3>1
      <4>4. Readable(append(w, <<f>>)) = <<f>>
        BY Zenon, <4>1, <4>2, <4>3
      <4>5. length(append(w, <<f>>)) = Len(Readable(append(w, <<f>>)))
        BY <3>2, ReadableIs
      <4>6. length(append(w, <<f>>)) = 1 /\ Readable(append(w, <<f>>))[1] = f
        BY Zenon, <3>1, <4>4, <4>5
      <4> QED
        BY Zenon, <1>3, <2>2, <2>5, <2>7, <2>10, <4>6 DEF w
    <3> QED
      BY <3>4, <3>5
  <2> QED
    BY <2>8, <2>9, <2>10
<1> QED
  BY <1>6, <1>7, <1>8

LEMMA ProcessTurns ==
  ASSUME Inv, Replies, HomeInv, TurnInv, Process, cur \notin relapsed PROVE TurnInv'
<1>1. /\ pc = "process" /\ pc' = "dispatch"
      /\ UNCHANGED <<nsent, got, owner, inq, home, relapsed>>
      /\ \A fd \in FDs : fd # cur => /\ readBuff_'[fd] = readBuff_[fd]
                                     /\ writeBuff_'[fd] = writeBuff_[fd]
  <2>1. /\ pc = "process" /\ pc' = "dispatch"
        /\ UNCHANGED <<nsent, got, owner, inq, home, relapsed>>
    BY DEF Process
  <2>2. \A fd \in FDs : fd # cur => /\ readBuff_'[fd] = readBuff_[fd]
                                    /\ writeBuff_'[fd] = writeBuff_[fd]
    BY TurnTypes DEF Process, frameProcess
  <2> QED
    BY <2>1, <2>2
<1>2. /\ Fresh(cur) /\ cur \in FDs /\ owner[cur] \in Clients
      /\ \A fd \in FDs : ~ Fresh(fd)' /\ (fd # cur => ~ Fresh(fd))
  BY <1>1, CurrentOwned DEF Fresh
<1>0. spoilt' = spoilt
  BY <1>1 DEF spoilt
<1>3. Turns' /\ Isolation'
  BY <1>0, <1>1, ProcessTakesTurn DEF TurnInv, Turns, Isolation
<1>4. InQueue'
  BY <1>0, <1>1 DEF TurnInv, InQueue, Due
<1>5. InHand'
  <2>1. \A fd \in FDs \ relapsed : length(readBuff_'[fd]) \in {0, m_size}
    BY <1>1, <1>2, ProcessTakesTurn DEF TurnInv, InHand
  <2> QED
    BY <1>1, <1>2, <2>1 DEF InHand
<1>6. InAnswer'
  <2>1. inq[owner[cur]] = <<>> /\ owner[cur] # NoClient
    BY <1>2, ClientAssumption DEF TurnInv, InHand
  <2> SUFFICES ASSUME NEW fd \in FDs \ relapsed
               PROVE  /\ length(writeBuff_'[fd]) <= 1
                      /\ length(writeBuff_'[fd]) = 1 =>
                           /\ owner[fd] # NoClient /\ inq[owner[fd]] = <<>>
                           /\ Due(owner[fd], Readable(writeBuff_'[fd])[1])
    BY <1>1 DEF InAnswer, Due
  <2>2. CASE fd # cur
    BY <1>1, <2>2 DEF TurnInv, InAnswer
  <2>3. CASE fd = cur
    BY <2>1, <2>3, ProcessTakesTurn
  <2> QED
    BY <2>2, <2>3
<1> QED
  BY <1>3, <1>4, <1>5, <1>6 DEF TurnInv

\* What the model remembers of the replies r and the data t behind them.
LEMMA Remembered ==
  ASSUME NEW S, NEW r \in Seq(S), NEW t \in Seq(S), NEW m \in Nat, Len(r) <= m, Len(t) <= 1
  PROVE  LET s == SubSeq(r \o t, 1, Lesser(m, Len(r) + Len(t)))
         IN  /\ Len(s) \in Nat /\ Len(s) <= m
             /\ Len(s) = Len(r) \/ (Len(t) = 1 /\ Len(s) = Len(r) + 1 /\ s[Len(r) + 1] = t[1])
             /\ \A i \in 1 .. Len(r) : s[i] = r[i]
<1> DEFINE u == r \o t
           k == Lesser(m, Len(r) + Len(t))
           s == SubSeq(u, 1, k)
<1>1. /\ u \in Seq(S) /\ Len(u) = Len(r) + Len(t)
      /\ \A i \in 1 .. Len(r) : u[i] = r[i]
      /\ \A i \in 1 .. Len(t) : u[Len(r) + i] = t[i]
  <2>1. u \in Seq(S)
    OBVIOUS
  <2> QED
    BY <2>1, Joined
<1> HIDE DEF u
<1>2. Len(r) \in Nat /\ Len(t) \in {0, 1}
  <2>1. Len(r) \in Nat /\ Len(t) \in Nat
    OBVIOUS
  <2>2. \A x \in Nat : x <= 1 => x \in {0, 1}
    OBVIOUS
  <2> QED
    BY Zenon, <2>1, <2>2
<1>3. /\ k \in Nat /\ k <= Len(u) /\ k <= m
      /\ k = Len(r) \/ (k = Len(r) + 1 /\ Len(t) = 1)
  BY <1>1, <1>2 DEF Lesser
<1> HIDE DEF k
<1>4. Len(s) = k /\ \A i \in 1 .. k : s[i] = u[i]
  BY <1>1, <1>3
<1> HIDE DEF s
<1>5. \A i \in 1 .. Len(r) : i \in 1 .. k
  BY <1>2, <1>3
<1>6. k = Len(r) + 1 => s[Len(r) + 1] = u[Len(r) + 1]
  BY <1>2, <1>4
<1>7. Len(t) = 1 => u[Len(r) + 1] = t[1]
  BY <1>1
<1>8. /\ Len(s) \in Nat /\ Len(s) <= m
      /\ Len(s) = Len(r) \/ (Len(t) = 1 /\ Len(s) = Len(r) + 1 /\ s[Len(r) + 1] = t[1])
      /\ \A i \in 1 .. Len(r) : s[i] = r[i]
  BY <1>1, <1>3, <1>4, <1>5, <1>6, <1>7
<1> QED
  BY <1>8 DEF s, u, k

\* A round hands over the one answer there is, or nothing.
LEMMA WriteRoundGives ==
  ASSUME FRAME_MAX_LEN = m_size, Inv, Replies, HomeInv, TurnInv, WriteRound, cur \notin relapsed
  PROVE  /\ cur \in FDs
         /\ writeBuff_'[cur] \in Buffer /\ length(writeBuff_'[cur]) \in {0, m_size}
         /\ \A fd \in FDs : fd # cur => writeBuff_'[fd] = writeBuff_[fd]
         /\ \A d \in Clients \ spoilt :
              /\ Len(got'[d]) \in Nat /\ Len(got'[d]) <= MaxGot
              /\ \A i \in 1 .. Len(got[d]) : got'[d][i] = got[d][i]
              /\ \/ Len(got'[d]) = Len(got[d])
                 \/ /\ d = owner[cur] /\ length(writeBuff_[cur]) = 1
                    /\ Len(got'[d]) = Len(got[d]) + 1
                    /\ Due(d, got'[d][Len(got[d]) + 1])
<1> DEFINE c    == owner[cur]
           n    == Lesser(sum, FRAME_MAX_LEN)
           b    == writeBuff_[cur]
           data == peek(b, n)
<1>1. /\ pc = "write" /\ pc' \in {"write", "killed"} /\ cur # listenFd_
      /\ writeBuff_' = [writeBuff_ EXCEPT ![cur] = pop(b, n)]
      /\ \/ got' = [got EXCEPT ![c] = SubSeq(@ \o data, 1, Lesser(MaxGot, Len(@) + n))]
         \/ got' = got
      /\ UNCHANGED <<nsent, owner, inq, readBuff_, foreign, home>>
  BY DEF WriteRound
<1>2. /\ cur \in FDs /\ b \in Buffer
      /\ data \in Seq(Byte \cup {Uninit}) /\ Len(data) = n
  BY WriteRoundPops DEF WriteRound
<1>3. length(b) \in {0, 1}
  BY <1>1, <1>2, TurnTypes DEF TurnInv, InAnswer
<1>4. n = length(b)
  <2>1. sum = length(b) \/ (sum = 0 /\ Drained(b))
    BY <1>1 DEF Replies, AllOrNothing
  <2>2. Drained(b) => length(b) = 0
    BY <1>2, <1>3, SizeAssumption DEF Drained, Relapsed, IsEmpty, length, Buffer, Index
  <2> QED
    BY <1>3, <2>1, <2>2, SizeAssumption DEF Lesser
<1>5. length(b) = 1 => /\ c \in Clients /\ inq[c] = <<>> /\ Due(c, data[1])
  <2> SUFFICES ASSUME length(b) = 1
               PROVE  c \in Clients /\ inq[c] = <<>> /\ Due(c, data[1])
    OBVIOUS
  <2>1. c \in Clients /\ inq[c] = <<>> /\ Due(c, Readable(b)[1])
    BY <1>2, HeldOwned DEF TurnInv, InAnswer
  <2>2. data[1] = Readable(b)[1]
    BY <1>2, <1>4, PeekBegins
  <2> QED
    BY <2>1, <2>2
<1>6. ASSUME NEW d \in Clients
      PROVE  \/ got'[d] = got[d]
             \/ d = c /\ got'[d] = SubSeq(got[d] \o data, 1, Lesser(MaxGot, Len(got[d]) + n))
  BY <1>1, TurnTypes
<1> HIDE DEF c, n, b, data
<1>7. /\ writeBuff_'[cur] \in Buffer /\ length(writeBuff_'[cur]) \in {0, m_size}
      /\ \A fd \in FDs : fd # cur => writeBuff_'[fd] = writeBuff_[fd]
  <2>1. /\ writeBuff_'[cur] = pop(b, n)
        /\ \A fd \in FDs : fd # cur => writeBuff_'[fd] = writeBuff_[fd]
    BY <1>1, <1>2, TurnTypes
  <2>2. /\ pop(b, n) \in Buffer
        /\ length(pop(b, n)) = 0 \/ length(pop(b, n)) = m_size
    BY <1>2, <1>3, <1>4, ReadableAfterPop
  <2> QED
    BY <2>1, <2>2
<1>8. ASSUME NEW d \in Clients \ spoilt
      PROVE  /\ Len(got'[d]) \in Nat /\ Len(got'[d]) <= MaxGot
             /\ \A i \in 1 .. Len(got[d]) : got'[d][i] = got[d][i]
             /\ \/ Len(got'[d]) = Len(got[d])
                \/ /\ d = c /\ length(b) = 1
                   /\ Len(got'[d]) = Len(got[d]) + 1 /\ got'[d][Len(got[d]) + 1] = data[1]
  <2>1. /\ got[d] \in Seq(Byte \cup {Uninit}) /\ Len(got[d]) \in Nat
        /\ Len(got[d]) <= MaxGot /\ MaxGot \in Nat
    BY TurnTypes, BoundAssumption DEF TurnInv, Turns
  <2>2. CASE got'[d] = got[d]
    BY <2>1, <2>2
  <2>3. CASE d = c /\ got'[d] = SubSeq(got[d] \o data, 1, Lesser(MaxGot, Len(got[d]) + n))
    <3> DEFINE h == got[d]
               g == SubSeq(h \o data, 1, Lesser(MaxGot, Len(h) + Len(data)))
    <3>1. got'[d] = g
      BY Zenon, <1>2, <2>3
    <3>2. Len(data) <= 1
      BY <1>2, <1>3, <1>4
    <3>3. h \in Seq(Byte \cup {Uninit}) /\ Len(h) <= MaxGot /\ MaxGot \in Nat
      BY <2>1
    <3> HIDE DEF h
    <3>4. /\ Len(g) \in Nat /\ Len(g) <= MaxGot
          /\ \/ Len(g) = Len(h)
             \/ Len(data) = 1 /\ Len(g) = Len(h) + 1 /\ g[Len(h) + 1] = data[1]
          /\ \A i \in 1 .. Len(h) : g[i] = h[i]
      BY <1>2, <3>2, <3>3, Remembered
    <3> HIDE DEF g
    <3> QED
      BY <1>2, <1>4, <2>3, <3>1, <3>4 DEF h
  <2> QED
    BY <1>6, <2>2, <2>3
<1> QED
  BY <1>2, <1>5, <1>7, <1>8 DEF b, c

LEMMA WriteRoundTurns ==
  ASSUME FRAME_MAX_LEN = m_size, Inv, Replies, HomeInv, TurnInv, WriteRound, cur \notin relapsed'
  PROVE  TurnInv'
<1>1. /\ pc = "write" /\ pc' \in {"write", "killed"}
      /\ UNCHANGED <<nsent, owner, inq, readBuff_, foreign, home>>
      /\ relapsed' = IF Relapsed(writeBuff_'[cur]) THEN relapsed \cup {cur} ELSE relapsed
  BY DEF WriteRound
<1>0. /\ ~ Relapsed(writeBuff_'[cur])
      /\ cur \notin relapsed /\ relapsed' = relapsed /\ spoilt' = spoilt
  <2>1. ~ Relapsed(writeBuff_'[cur]) /\ relapsed' = relapsed
    BY <1>1
  <2> QED
    BY <1>1, <2>1 DEF spoilt
<1> SUFFICES ASSUME NEW f \in FDs, f = cur PROVE TurnInv'
  BY <1>0, WriteRoundGives
<1>2. /\ length(writeBuff_'[f]) = 0
      /\ \A fd \in FDs : fd # f => writeBuff_'[fd] = writeBuff_[fd]
  <2>1. /\ writeBuff_'[f] \in Buffer /\ length(writeBuff_'[f]) \in {0, m_size}
        /\ \A fd \in FDs : fd # f => writeBuff_'[fd] = writeBuff_[fd]
    BY <1>0, WriteRoundGives
  <2>2. ~ Relapsed(writeBuff_'[f])
    BY <1>0
  <2> QED
    BY <2>1, <2>2, LengthBounds DEF Relapsed
<1>3. ASSUME NEW d \in Clients \ spoilt
      PROVE  /\ Len(got'[d]) \in Nat /\ Len(got'[d]) <= MaxGot
             /\ \A i \in 1 .. Len(got[d]) : got'[d][i] = got[d][i]
             /\ \/ Len(got'[d]) = Len(got[d])
                \/ /\ d = owner[f] /\ length(writeBuff_[f]) = 1
                   /\ Len(got'[d]) = Len(got[d]) + 1
                   /\ Due(d, got'[d][Len(got[d]) + 1])
  BY <1>0, WriteRoundGives
<1>4. Turns' /\ Isolation'
  <2> SUFFICES ASSUME NEW d \in Clients \ spoilt
               PROVE  /\ Len(got'[d]) <= nsent[d] /\ nsent[d] <= Len(got'[d]) + 1
                      /\ Len(got'[d]) <= MaxGot
                      /\ \A i \in 1 .. Len(got'[d]) : got'[d][i].conn = d /\ got'[d][i].n = i
    BY <1>0, <1>1 DEF TurnInv, Turns, Isolation
  <2>1. /\ Len(got[d]) <= nsent[d] /\ nsent[d] <= Len(got[d]) + 1
        /\ \A i \in 1 .. Len(got[d]) : got[d][i].conn = d /\ got[d][i].n = i
        /\ Len(got[d]) \in Nat /\ nsent[d] \in Nat
    BY TurnTypes DEF TurnInv, Turns
  <2>2. CASE Len(got'[d]) = Len(got[d])
    BY <1>3, <2>1, <2>2
  <2>3. CASE Len(got'[d]) = Len(got[d]) + 1 /\ Due(d, got'[d][Len(got[d]) + 1])
    <3>1. \A i \in 1 .. Len(got'[d]) : i \in 1 .. Len(got[d]) \/ i = Len(got[d]) + 1
      BY <2>1, <2>3
    <3>2. \A i \in 1 .. Len(got'[d]) : got'[d][i].conn = d /\ got'[d][i].n = i
      BY <1>3, <2>1, <2>3, <3>1 DEF Due
    <3> QED
      BY <1>3, <2>1, <2>3, <3>2 DEF Due
  <2> QED
    BY <1>3, <2>2, <2>3
\* Only the owner got something, and it has nothing on its way elsewhere.
<1>5. ASSUME NEW d \in Clients \ spoilt,
             \/ inq[d] # <<>>
             \/ \E fd \in FDs : fd # f /\ length(writeBuff_[fd]) = 1 /\ owner[fd] = d
      PROVE  Len(got'[d]) = Len(got[d])
  <2> SUFFICES ASSUME d = owner[f], length(writeBuff_[f]) = 1 PROVE FALSE
    BY <1>3
  <2>1. inq[d] = <<>> /\ d # NoClient
    BY <1>0 DEF TurnInv, InAnswer
  <2>2. \A fd \in FDs : owner[fd] = d => home[d] = fd
    BY <2>1 DEF HomeInv, Placed
  <2> QED
    BY <1>5, <2>1, <2>2
<1>6. \A fd \in FDs : ~ Fresh(fd) /\ ~ Fresh(fd)'
  BY <1>1 DEF Fresh
<1>7. InQueue'
  BY <1>0, <1>1, <1>5 DEF TurnInv, InQueue, Due
<1>8. InHand'
  BY <1>0, <1>1, <1>6 DEF TurnInv, InHand
<1>9. InAnswer'
  <2> SUFFICES ASSUME NEW fd \in FDs \ relapsed
               PROVE  /\ length(writeBuff_'[fd]) <= 1
                      /\ length(writeBuff_'[fd]) = 1 =>
                           /\ owner[fd] # NoClient /\ inq[owner[fd]] = <<>>
                           /\ LET g == Readable(writeBuff_'[fd])[1]
                              IN  /\ g.conn = owner[fd] /\ g.n = nsent[owner[fd]]
                                  /\ nsent[owner[fd]] = Len(got'[owner[fd]]) + 1
    BY <1>0, <1>1 DEF InAnswer, Due
  <2>1. CASE fd = f
    BY <1>2, <2>1
  <2>2. CASE fd # f
    <3>1. /\ length(writeBuff_[fd]) <= 1
          /\ length(writeBuff_[fd]) = 1 =>
               /\ owner[fd] # NoClient /\ inq[owner[fd]] = <<>>
               /\ Due(owner[fd], Readable(writeBuff_[fd])[1])
      BY DEF TurnInv, InAnswer
    <3>2. length(writeBuff_[fd]) = 1 =>
            owner[fd] \in Clients \ spoilt /\ Len(got'[owner[fd]]) = Len(got[owner[fd]])
      BY <1>5, <2>2, HeldOwned
    <3>3. writeBuff_'[fd] = writeBuff_[fd]
      BY <1>2, <2>2
    <3> QED
      BY <3>1, <3>2, <3>3 DEF Due
  <2> QED
    BY <2>1, <2>2
<1> QED
  BY <1>4, <1>7, <1>8, <1>9 DEF TurnInv

\* Every step takes a turn or is not noticed by those whose turn it may be.
LEMMA NextTurns ==
  ASSUME ~ Pipelining, FRAME_MAX_LEN = m_size,
         Inv, Replies, OrderInv, HomeInv, TurnInv, [Next]_vars
  PROVE  TurnInv'
<1>1. ASSUME Unnoticed /\ Unmoved PROVE TurnInv'
  BY <1>1, TurnsElsewhere
<1>2. CASE UNCHANGED vars
  BY <1>1, <1>2, LoopUnnoticed
<1>3. CASE ReadData
  BY <1>1, <1>3, ReadDataUnnoticed, ReadDataTurns
<1>4. CASE Process
  BY <1>1, <1>4, ProcessUnnoticed, ProcessTurns
<1>5. CASE WriteRound
  BY <1>1, <1>5, WriteRoundUnnoticed, WriteRoundTurns
<1>6. CASE /\ ServerStep
           /\ ~ ReadData /\ ~ Process /\ ~ WriteRound
  BY <1>1, <1>6, LoopUnnoticed, DispatchCloseUnnoticed, AcceptUnnoticed, ReadEndsUnnoticed
     DEF ServerStep
<1>7. CASE \E c \in Clients : Send(c)
  <2> SUFFICES ASSUME NEW c \in Clients, Send(c) PROVE TurnInv'
    BY <1>7
  <2>1. CASE c \in spoilt
    BY <1>1, <2>1, SendUnnoticed
  <2>2. CASE c \notin spoilt
    BY <2>2, SendTurns
  <2> QED
    BY <2>1, <2>2
<1>8. CASE \E c \in Clients : Connect(c) \/ Shutdown(c) \/ Abort(c)
  BY <1>1, <1>8, LoopUnnoticed
<1> QED
  BY <1>2, <1>3, <1>4, <1>5, <1>6, <1>7, <1>8 DEF Next

LEMMA TurnsAlways == ASSUME ~ Pipelining, FRAME_MAX_LEN = m_size PROVE Spec => []TurnInv
<1>1. Init => Replies /\ OrderInv /\ HomeInv /\ TurnInv
  BY InitReplies, InitOrder, InitHome, InitTurns
<1>2. Inv /\ Inv' /\ Replies /\ OrderInv /\ HomeInv /\ TurnInv /\ [Next]_vars
        => Replies' /\ OrderInv' /\ HomeInv' /\ TurnInv'
  BY NextReplies, NextOrder, NextHome, NextTurns
<1> QED
  BY <1>1, <1>2, InvAlways, PTL DEF Spec

\* Clients that wait for each answer get exactly the answers to their own
\* requests, in order, however many they are, whatever they send, and whoever had
\* their descriptor before, until that descriptor's writeBuff_ relapses: a relapse
\* shows to the clients of its descriptor and to nobody else, and where there was
\* none, AddClient_ clears neither buffer and neither needs it.
THEOREM AnswersOwn == ASSUME ~ Pipelining, FRAME_MAX_LEN = m_size
                      PROVE  Spec => []AnswersExact
<1>1. TurnInv => AnswersExact
  BY DEF TurnInv, Turns, AnswersExact, spoilt
<1> QED
  BY <1>1, TurnsAlways, PTL

\* ... and a request is executed for the connection that sent it, but on a
\* descriptor whose writeBuff_ has relapsed.
THEOREM ClientsIsolated == ASSUME ~ Pipelining, FRAME_MAX_LEN = m_size
                           PROVE  Spec => []Isolation
<1>1. TurnInv => Isolation
  BY DEF TurnInv
<1> QED
  BY <1>1, TurnsAlways, PTL

-----------------------------------------------------------------------------
(***************************************************************************)
(* The service behind the sockets.  To such clients the server implements  *)
(* RequestService: Send asks, Process may execute, WriteRound may answer,  *)
(* and every other step changes nothing there for clients not spoilt.      *)
(***************************************************************************)

\* Requests are executed one by one, and an answer on its way is to the last.
Served ==
  /\ \A c \in Clients \ spoilt :
       /\ Len(got[c]) <= Len(executed[c]) /\ Len(executed[c]) <= nsent[c]
       /\ \A i \in 1 .. Len(executed[c]) : executed[c][i] = i
  /\ \A fd \in FDs \ relapsed :
       length(writeBuff_[fd]) = 1 => Len(executed[owner[fd]]) = nsent[owner[fd]]

LEMMA ServedTypes ==
  ASSUME Inv
  PROVE  /\ executed \in [Clients -> Seq(Nat)] /\ nsent \in [Clients -> Nat]
         /\ \A c \in Clients : /\ executed[c] \in Seq(Nat) /\ Len(executed[c]) \in Nat
                               /\ nsent[c] \in Nat /\ Len(got[c]) \in Nat
<1>1. executed \in [Clients -> Seq(Nat)] /\ nsent \in [Clients -> Nat]
  BY OrderTypes
<1>2. \A c \in Clients : executed[c] \in Seq(Nat) /\ nsent[c] \in Nat /\ Len(got[c]) \in Nat
  BY <1>1, TurnTypes
<1>3. \A s \in Seq(Nat) : Len(s) \in Nat
  OBVIOUS
<1> QED
  BY Zenon, <1>1, <1>2, <1>3

LEMMA InitServes == Init => Served /\ Service!RSInit
<1> SUFFICES ASSUME Init PROVE Served /\ Service!RSInit
  OBVIOUS
<1>1. length(NewBuffer) = 0
  BY DEF NewBuffer, length
<1>2. \A c \in Clients : got[c] = <<>> /\ executed[c] = <<>> /\ nsent[c] = 0
  BY DEF Init
<1>3. Served
  BY <1>1, <1>2 DEF Served, Init
<1>0. spoilt = {}
  BY DEF Init, spoilt
<1>4. replied = [c \in Clients |-> <<>>]
  <2>1. \A c \in Clients : [i \in 1 .. Len(got[c]) |-> <<got[c][i].conn, got[c][i].n>>] = <<>>
    BY <1>2
  <2> QED
    BY <2>1 DEF replied
<1> QED
  BY <1>0, <1>3, <1>4 DEF Init, Service!RSInit

\* Steps that ask, execute and answer nothing for clients that are not spoilt.
LEMMA OthersServe ==
  ASSUME Inv, OrderInv, HomeInv, TurnInv, Served, [Next]_vars, Unnoticed
  PROVE  Served' /\ Service!Spoil
<1>1. /\ relapsed \subseteq relapsed' /\ spoilt \subseteq spoilt' /\ spoilt' \subseteq Clients
      /\ \A fd \in FDs : owner[fd] # NoClient => owner[fd] \in Clients /\ home'[owner[fd]] = fd
  BY SpoiltStays DEF spoilt
<1>2. \A c \in Clients \ spoilt' : replied'[c] = replied[c]
  BY DEF Unnoticed, replied
<1>3. Service!Spoil
  BY <1>1, <1>2 DEF Unnoticed, Service!Spoil
<1>4. ASSUME NEW c \in Clients \ spoilt'
      PROVE  /\ Len(got'[c]) <= Len(executed'[c]) /\ Len(executed'[c]) <= nsent'[c]
             /\ \A i \in 1 .. Len(executed'[c]) : executed'[c][i] = i
  BY <1>1 DEF Unnoticed, Served
<1>5. ASSUME NEW fd \in FDs \ relapsed', length(writeBuff_'[fd]) = 1
      PROVE  Len(executed'[owner'[fd]]) = nsent'[owner'[fd]]
  <2>1. /\ fd \in FDs \ relapsed /\ length(writeBuff_[fd]) = 1 /\ owner'[fd] = owner[fd]
    BY <1>1, <1>5 DEF Unnoticed
  <2>2. /\ owner[fd] \in Clients /\ owner[fd] \notin spoilt'
        /\ Len(executed[owner[fd]]) = nsent[owner[fd]]
    <3>1. owner[fd] \in Clients /\ owner[fd] # NoClient
      BY <2>1, HeldOwned, ClientAssumption
    <3> QED
      BY <1>1, <2>1, <3>1 DEF Served, spoilt
  <2> QED
    BY <2>1, <2>2 DEF Unnoticed
<1> QED
  BY <1>3, <1>4, <1>5 DEF Served

LEMMA SendServes ==
  ASSUME ~ Pipelining, Inv, HomeInv, TurnInv, Served, NEW c \in Clients \ spoilt, Send(c)
  PROVE  Served' /\ Service!Ask(c)
<1>1. /\ nsent[c] < MaxReq /\ Len(got[c]) >= nsent[c]
      /\ nsent' = [nsent EXCEPT ![c] = @ + 1]
      /\ UNCHANGED <<executed, got, writeBuff_, owner, home, relapsed>>
  BY DEF Send
<1>0. spoilt' = spoilt
  BY <1>1 DEF spoilt
<1>2. nsent[c] = Len(got[c])
  BY <1>1, ServedTypes DEF TurnInv, Turns
<1>3. Len(replied[c]) = Len(got[c]) /\ replied' = replied
  BY <1>1, ServedTypes DEF replied
<1>4. Service!Ask(c)
  BY <1>0, <1>1, <1>2, <1>3 DEF Service!Ask
<1>5. ASSUME NEW fd \in FDs \ relapsed, length(writeBuff_[fd]) = 1
      PROVE  nsent'[owner[fd]] = nsent[owner[fd]]
  <2>1. owner[fd] \in Clients /\ nsent[owner[fd]] = Len(got[owner[fd]]) + 1
    BY <1>5, HeldOwned DEF TurnInv, InAnswer, Due
  <2>2. owner[fd] # c
    BY <1>2, <2>1, ServedTypes
  <2> QED
    BY <1>1, <2>1, <2>2, ServedTypes
<1>6. \A d \in Clients : nsent'[d] \in Nat /\ nsent[d] <= nsent'[d]
  BY <1>1, ServedTypes
<1>7. Served'
  <2>1. \A d \in Clients \ spoilt :
          /\ Len(got[d]) <= Len(executed[d]) /\ Len(executed[d]) <= nsent'[d]
          /\ \A i \in 1 .. Len(executed[d]) : executed[d][i] = i
    BY <1>6, ServedTypes DEF Served
  <2>2. \A fd \in FDs \ relapsed :
          length(writeBuff_[fd]) = 1 => Len(executed[owner[fd]]) = nsent'[owner[fd]]
    BY <1>5 DEF Served
  <2> QED
    BY <1>0, <1>1, <2>1, <2>2 DEF Served
<1> QED
  BY <1>4, <1>7

\* A request that is executed is the next of its client.
LEMMA ProcessServes ==
  ASSUME Inv, Replies, OrderInv, HomeInv, TurnInv, Served, Process, cur \notin relapsed
  PROVE  /\ Served'
         /\ UNCHANGED Service!rsVars \/ \E c \in Clients \ spoilt : Service!Execute(c)
<1>1. /\ UNCHANGED <<nsent, got, owner, home, relapsed>> /\ replied' = replied
      /\ spoilt' = spoilt
  BY DEF Process, replied, spoilt
<1>2. /\ cur \in FDs /\ owner[cur] \in Clients /\ Fresh(cur) /\ length(readBuff_[cur]) \in Nat
  BY CurrentOwned, TurnTypes DEF Process, Fresh
<1>5. owner[cur] \notin spoilt
  BY <1>2, OwnerSpoilt, ClientAssumption
<1>3. CASE UNCHANGED <<writeBuff_, executed>>
  BY <1>1, <1>3 DEF Served, Service!rsVars
<1>4. ASSUME NEW f \in Byte,
             \E i \in 1 .. length(readBuff_[cur]) : f = Readable(readBuff_[cur])[i],
             After(f.conn, f.n),
             executed' = [executed EXCEPT ![f.conn] = Append(@, f.n)],
             \/ writeBuff_' = writeBuff_
             \/ writeBuff_' = [writeBuff_ EXCEPT ![cur] = append(@, <<f>>)]
      PROVE  Served' /\ \E c \in Clients \ spoilt : Service!Execute(c)
  <2> DEFINE c == owner[cur]
             s == executed[c]
  <2>1. Due(c, f)
    <3>1. length(readBuff_[cur]) <= 1
            /\ (length(readBuff_[cur]) = 1 => Due(c, Readable(readBuff_[cur])[1]))
      BY <1>2 DEF TurnInv, InHand
    <3>2. length(readBuff_[cur]) = 1 /\ f = Readable(readBuff_[cur])[1]
      BY <1>2, <1>4, <3>1
    <3> QED
      BY <3>1, <3>2
  <2>2. /\ c \in Clients /\ s \in Seq(Nat) /\ Len(s) \in Nat /\ nsent[c] \in Nat
        /\ Len(got[c]) \in Nat /\ Len(got[c]) <= Len(s) /\ Len(s) <= nsent[c]
        /\ \A i \in 1 .. Len(s) : s[i] = i
    BY <1>2, <1>5, ServedTypes DEF Served
  <2>3. Len(s) + 1 = nsent[c]
    <3>1. Len(s) # nsent[c]
      <4> SUFFICES ASSUME Len(s) = nsent[c] PROVE FALSE
        OBVIOUS
      <4>1. nsent[c] \in 1 .. Len(s)
        BY <2>1, <2>2 DEF Due
      <4>2. s[nsent[c]] < nsent[c]
        BY <1>4, <2>1, <4>1 DEF After, Due
      <4> QED
        BY <2>2, <4>1, <4>2
    <3> QED
      BY <2>1, <2>2, <3>1 DEF Due
  <2>4. executed' = [executed EXCEPT ![c] = Append(@, nsent[c])]
    BY <1>4, <2>1 DEF Due
  <2>5. Service!Execute(c)
    BY <1>1, <2>2, <2>3, <2>4 DEF Service!Execute
  <2>6. executed'[c] = Append(s, nsent[c]) /\ \A d \in Clients : d # c => executed'[d] = executed[d]
    BY <2>2, <2>4, ServedTypes
  <2>7. /\ Len(executed'[c]) = nsent[c]
        /\ \A i \in 1 .. Len(executed'[c]) : executed'[c][i] = i
    <3>1. \A t \in Seq(Nat), n \in Nat :
            /\ Len(Append(t, n)) = Len(t) + 1 /\ Append(t, n)[Len(t) + 1] = n
            /\ \A i \in 1 .. Len(t) : Append(t, n)[i] = t[i]
      OBVIOUS
    <3> DEFINE u == Append(s, nsent[c])
    <3>2. /\ Len(u) = Len(s) + 1 /\ u[Len(s) + 1] = nsent[c]
          /\ \A i \in 1 .. Len(s) : u[i] = s[i]
      BY Zenon, <2>2, <3>1
    <3>3. executed'[c] = u
      BY <2>6
    <3> HIDE DEF u, s
    <3>4. \A i \in 1 .. Len(u) : i \in 1 .. Len(s) \/ i = Len(s) + 1
      BY <2>2, <3>2
    <3>5. Len(u) = nsent[c] /\ \A i \in 1 .. Len(u) : u[i] = i
      BY <2>2, <2>3, <3>2, <3>4
    <3> QED
      BY <3>3, <3>5
  <2>8. ASSUME NEW fd \in FDs \ relapsed, length(writeBuff_'[fd]) = 1
        PROVE  Len(executed'[owner[fd]]) = nsent[owner[fd]]
    <3>1. CASE fd = cur
      BY <2>7, <3>1
    <3>2. CASE fd # cur
      <4>1. writeBuff_'[fd] = writeBuff_[fd]
        BY <1>4, <3>2, TurnTypes
      <4>2. owner[fd] \in Clients /\ owner[fd] # c
        <5>1. length(writeBuff_[fd]) = 1
          BY <2>8, <4>1
        <5>2. owner[fd] \in Clients
          BY <5>1, HeldOwned
        <5>3. c # NoClient
          BY <2>2, ClientAssumption
        <5> QED
          BY <1>2, <3>2, <5>2, <5>3 DEF OrderInv, Places
      <4> QED
        BY <2>6, <2>8, <4>1, <4>2 DEF Served
    <3> QED
      BY <3>1, <3>2
  <2>9. ASSUME NEW d \in Clients \ spoilt
        PROVE  /\ Len(got[d]) <= Len(executed'[d]) /\ Len(executed'[d]) <= nsent[d]
               /\ \A i \in 1 .. Len(executed'[d]) : executed'[d][i] = i
    <3>1. CASE d = c
      BY <2>1, <2>2, <2>7, <3>1 DEF Due
    <3>2. CASE d # c
      BY <2>6, <3>2 DEF Served
    <3> QED
      BY <3>1, <3>2
  <2> HIDE DEF s, c
  <2>10. Served'
    BY <1>1, <2>8, <2>9 DEF Served
  <2> QED
    BY <1>5, <2>2, <2>5, <2>10 DEF c
<1> QED
  BY <1>3, <1>4, ProcessExecutes

\* What is handed over is the answer to the request executed last.
LEMMA WriteRoundServes ==
  ASSUME FRAME_MAX_LEN = m_size, Inv, Replies, OrderInv, HomeInv, TurnInv, TurnInv', Served,
         WriteRound, cur \notin relapsed'
  PROVE  /\ Served'
         /\ Service!Spoil \/ \E c \in Clients \ spoilt : Service!Answer(c)
<1> DEFINE c == owner[cur]
<1>1. /\ UNCHANGED <<nsent, executed, owner, home, relapsed>>
      /\ spoilt' = spoilt /\ cur \notin relapsed
      /\ got' = got \/ \E s : got' = [got EXCEPT ![c] = s]
  BY DEF WriteRound, spoilt
<1>2. /\ cur \in FDs /\ length(writeBuff_'[cur]) \in {0, m_size}
      /\ \A fd \in FDs : fd # cur => writeBuff_'[fd] = writeBuff_[fd]
      /\ \A d \in Clients \ spoilt :
           \/ Len(got'[d]) = Len(got[d])
           \/ /\ d = c /\ length(writeBuff_[cur]) = 1
              /\ Len(got'[d]) = Len(got[d]) + 1
              /\ Due(d, got'[d][Len(got[d]) + 1])
  BY <1>1, WriteRoundGives
<1>3. ASSUME NEW d \in Clients \ spoilt
      PROVE  /\ replied[d] = [i \in 1 .. Len(got[d]) |-> <<d, i>>]
             /\ replied'[d] = [i \in 1 .. Len(got'[d]) |-> <<d, i>>]
  <2>1. \A i \in 1 .. Len(got[d]) : got[d][i].conn = d /\ got[d][i].n = i
    BY DEF TurnInv, Turns
  <2>2. \A i \in 1 .. Len(got'[d]) : got'[d][i].conn = d /\ got'[d][i].n = i
    BY <1>1 DEF TurnInv, Turns
  <2>3. /\ [i \in 1 .. Len(got[d]) |-> <<got[d][i].conn, got[d][i].n>>]
             = [i \in 1 .. Len(got[d]) |-> <<d, i>>]
        /\ [i \in 1 .. Len(got'[d]) |-> <<got'[d][i].conn, got'[d][i].n>>]
             = [i \in 1 .. Len(got'[d]) |-> <<d, i>>]
    BY <2>1, <2>2
  <2> QED
    BY <2>3 DEF replied
<1>4. ASSUME NEW d \in Clients \ spoilt, Len(got'[d]) # Len(got[d])
      PROVE  /\ d = c /\ Len(got'[d]) = Len(got[d]) + 1
             /\ Len(executed[d]) = Len(got[d]) + 1
  <2>1. d = c /\ length(writeBuff_[cur]) = 1 /\ Len(got'[d]) = Len(got[d]) + 1
        /\ nsent[d] = Len(got[d]) + 1
    BY <1>2, <1>4 DEF Due
  <2>2. Len(executed[c]) = nsent[c]
    BY <1>1, <1>2, <2>1 DEF Served
  <2> QED
    BY <2>1, <2>2
<1>5. Served'
  <2>1. ASSUME NEW d \in Clients \ spoilt
        PROVE  /\ Len(got'[d]) <= Len(executed[d]) /\ Len(executed[d]) <= nsent[d]
               /\ \A i \in 1 .. Len(executed[d]) : executed[d][i] = i
    BY <1>4, ServedTypes DEF Served
  <2>2. ASSUME NEW fd \in FDs \ relapsed, length(writeBuff_'[fd]) = 1
        PROVE  Len(executed[owner[fd]]) = nsent[owner[fd]]
    <3>1. CASE fd # cur
      BY <1>2, <2>2, <3>1 DEF Served
    <3>2. CASE fd = cur
      BY <1>2, <2>2, <3>2, SizeAssumption
    <3> QED
      BY <3>1, <3>2
  <2> QED
    BY <1>1, <2>1, <2>2 DEF Served
<1>6. CASE \A d \in Clients \ spoilt : Len(got'[d]) = Len(got[d])
  <2>1. \A d \in Clients \ spoilt : replied'[d] = replied[d]
    BY Zenon, <1>3, <1>6
  <2>2. spoilt \subseteq Clients
    BY DEF spoilt
  <2> QED
    BY <1>1, <1>5, <2>1, <2>2 DEF Service!Spoil
<1>7. CASE \E d \in Clients \ spoilt : Len(got'[d]) # Len(got[d])
  <2>1. /\ c \in Clients \ spoilt /\ Len(got'[c]) = Len(got[c]) + 1
        /\ Len(executed[c]) = Len(got[c]) + 1
    BY <1>4, <1>7
  <2>0. \A d \in Clients : d # c => got'[d] = got[d]
    BY <1>1, TurnTypes
  <2> DEFINE k == Len(got[c])
             r == replied[c]
  <2>2. k \in Nat
    BY <2>1, ServedTypes
  <2>3. r = [i \in 1 .. k |-> <<c, i>>]
    BY <1>3, <2>1
  <2>4. replied'[c] = [i \in 1 .. k + 1 |-> <<c, i>>]
    BY <1>3, <2>1
  <2> HIDE DEF c
  <2>5. \A m \in Nat : LET q == [i \in 1 .. m |-> <<c, i>>]
                       IN  /\ Len(q) = m
                           /\ Append(q, <<c, m + 1>>) = [i \in 1 .. m + 1 |-> <<c, i>>]
    OBVIOUS
  <2>6. Len(r) = k /\ Append(r, <<c, k + 1>>) = replied'[c]
    BY Zenon, <2>2, <2>3, <2>4, <2>5
  <2>7. replied' = [replied EXCEPT ![c] = Append(@, <<c, Len(executed[c])>>)]
    <3>1. /\ replied' = [d \in Clients |-> replied'[d]]
          /\ replied = [d \in Clients |-> replied[d]]
      BY DEF replied
    <3>2. \A d \in Clients : d # c => replied'[d] = replied[d]
      BY <2>0 DEF replied
    <3>3. replied'[c] = Append(replied[c], <<c, Len(executed[c])>>)
      BY <2>1, <2>6
    <3> HIDE DEF r
    <3> QED
      BY <2>1, <3>1, <3>2, <3>3
  <2>8. Len(replied[c]) < Len(executed[c])
    BY <2>1, <2>2, <2>6
  <2>9. Service!Answer(c)
    BY <1>1, <2>7, <2>8 DEF Service!Answer
  <2> QED
    BY <1>5, <2>1, <2>9
<1> QED
  BY <1>5, <1>6, <1>7

LEMMA NextServes ==
  ASSUME ~ Pipelining, FRAME_MAX_LEN = m_size,
         Inv, Replies, OrderInv, HomeInv, TurnInv, TurnInv', Served, [Next]_vars
  PROVE  Served' /\ [Service!RSNext]_Service!rsVars
<1>1. ASSUME Unnoticed PROVE Served' /\ [Service!RSNext]_Service!rsVars
  BY <1>1, OthersServe DEF Service!RSNext
<1>2. CASE \E c \in Clients : Send(c)
  <2> SUFFICES ASSUME NEW c \in Clients, Send(c)
               PROVE  Served' /\ [Service!RSNext]_Service!rsVars
    BY <1>2
  <2>1. CASE c \in spoilt
    BY <1>1, <2>1, SendUnnoticed
  <2>2. CASE c \notin spoilt
    BY <2>2, SendServes DEF Service!RSNext
  <2> QED
    BY <2>1, <2>2
<1>3. CASE Process
  BY <1>1, <1>3, ProcessUnnoticed, ProcessServes DEF Service!RSNext
<1>4. CASE WriteRound
  BY <1>1, <1>4, WriteRoundUnnoticed, WriteRoundServes DEF Service!RSNext
<1>5. CASE ServerStep /\ ~ Process /\ ~ WriteRound
  BY <1>1, <1>5, LoopUnnoticed, DispatchCloseUnnoticed, AcceptUnnoticed, ReadDataUnnoticed,
     ReadEndsUnnoticed DEF ServerStep
<1>6. CASE UNCHANGED vars \/ \E c \in Clients : Connect(c) \/ Shutdown(c) \/ Abort(c)
  BY <1>1, <1>6, LoopUnnoticed
<1> QED
  BY <1>2, <1>3, <1>4, <1>5, <1>6 DEF Next

\* To clients that wait for each answer the server is the RequestService: every
\* request is executed once at most, what the client receives is the answer to the
\* request executed last, and a writeBuff_ that relapses spoils the clients of its
\* descriptor and no others, however many relapse and however long it runs.
THEOREM ServesRequests ==
  ASSUME ~ Pipelining, FRAME_MAX_LEN = m_size
  PROVE  Spec => ImplementsRequestService
<1>1. Init => Replies /\ OrderInv /\ HomeInv /\ TurnInv /\ Served /\ Service!RSInit
  BY InitReplies, InitOrder, InitHome, InitTurns, InitServes
<1>2. Inv /\ Inv' /\ Replies /\ OrderInv /\ HomeInv /\ TurnInv /\ Served /\ [Next]_vars
        => /\ Replies' /\ OrderInv' /\ HomeInv' /\ TurnInv' /\ Served'
           /\ [Service!RSNext]_Service!rsVars
  BY NextReplies, NextOrder, NextHome, NextTurns, NextServes
<1> QED
  BY <1>1, <1>2, InvAlways, PTL DEF Spec, ImplementsRequestService, Service!RSSpec
=============================================================================
