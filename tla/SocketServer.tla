---------------------------- MODULE SocketServer ----------------------------
(***************************************************************************)
(* The reactor of code/server/socketserver.cpp with code/server/epoller    *)
(* and the connection objects of code/app/appManager.h and                 *)
(* code/app/appconn.cpp: one thread that waits for events, accepts, reads, *)
(* handles one frame per read event, and then writes what was appended.    *)
(*                                                                         *)
(* The unit of data, Byte in CBuffer's terms, is a whole frame: a buffer   *)
(* of m_size units and reads of up to FRAME_MAX_LEN units stand for the    *)
(* 256 bytes of both.  Clients (each one TCP connection) act between any   *)
(* two system calls of the server, so a step of the server is at most one  *)
(* read, write, accept or epoll_wait.                                      *)
(***************************************************************************)
EXTENDS CBuffer, FiniteSets

CONSTANTS
  Clients,        \* connections that may be made, each once
  NoClient,       \* the owner of a free descriptor
  FDs,            \* descriptors the process may have for connections
  listenFd_,      \* the listening descriptor
  MAX_FD,         \* the limit init() tests
  MaxReq,         \* requests a client sends at most
  Kinds,          \* what clients send: see FrameAssumption
  Pipelining,     \* whether a client sends before it got its last answer
  CanAbort,       \* whether connections get reset
  MaxGot,         \* how many replies of a client the model remembers
  FRAME_MAX_LEN   \* units one read or write moves at most

ASSUME FDAssumption ==
  /\ FDs \subseteq Nat \ {listenFd_}
  /\ IsFiniteSet(FDs)
  /\ listenFd_ \in Nat
ASSUME ClientAssumption == NoClient \notin Clients
ASSUME BoundAssumption ==
  /\ MAX_FD \in Nat /\ MaxReq \in Nat /\ MaxGot \in Nat
  /\ FRAME_MAX_LEN \in Nat /\ 0 < FRAME_MAX_LEN /\ FRAME_MAX_LEN <= m_size
ASSUME SwitchAssumption ==
  /\ Kinds \subseteq {"ask", "sys", "mute", "junk"}
  /\ Pipelining \in BOOLEAN /\ CanAbort \in BOOLEAN

\* "ask": a frame that is answered.  "sys": answered too, and its handler makes
\* system calls that may fail and change errno (clock_settime, popen, statvfs).
\* "mute": a frame without an answer (type ACK, unknown command).  "junk": bytes
\* that are no frame.  A reply carries the request it answers.
ASSUME FrameAssumption == Byte = [conn : Clients, n : 1 .. MaxReq, kind : Kinds]

VARIABLES
  \* the network and the kernel
  peer,        \* state of each connection at the server's socket
  skerr,       \* its pending socket error
  inq,         \* requests that arrived and were not read
  backlog,     \* connections not accepted yet
  edge,        \* the listening socket has an edge to report (EPOLLET)
  owner,       \* the connection behind each descriptor
  interest,    \* the descriptor in epoll: "none", "armed", "disarmed" (ONESHOT)
  \* the clients
  nsent,       \* requests sent
  got,         \* replies received
  \* the program
  pc,          \* where the thread is
  batch,       \* events of the last epoll_wait still to be handled
  cur,         \* the descriptor being handled (listenFd_ when none is)
  sum,         \* read_'s and write_'s sum
  todo,        \* descriptors DealWrite_ still has to write
  errno,       \* "EAGAIN" or anything else
  fdSet_, isClose_, readBuff_, writeBuff_, userCount,
  \* history
  executed,    \* requests of each client that were executed, in order
  foreign,     \* requests executed for another connection than the sender's
  home,        \* the descriptor each connection was given, listenFd_ before
  relapsed     \* descriptors whose writeBuff_ was once emptied and looked full

kernelVars  == <<peer, skerr, inq, backlog, edge, owner, interest>>
clientVars  == <<nsent, got>>
loopVars    == <<pc, batch, cur, sum, todo, errno>>
connVars    == <<fdSet_, isClose_, readBuff_, writeBuff_, userCount>>
historyVars == <<executed, foreign, home, relapsed>>
vars == <<kernelVars, clientVars, loopVars, connVars, historyVars>>

PeerState == {"off", "est", "fin", "reset", "refused"}
Event     == [fd : FDs \cup {listenFd_}, hup : BOOLEAN, conn : Clients \cup {NoClient}]

Init ==
  /\ peer = [c \in Clients |-> "off"]
  /\ skerr = [c \in Clients |-> "none"]
  /\ inq = [c \in Clients |-> <<>>]
  /\ backlog = <<>>
  /\ edge = FALSE
  /\ owner = [fd \in FDs |-> NoClient]
  /\ interest = [fd \in FDs |-> "none"]
  /\ nsent = [c \in Clients |-> 0]
  /\ got = [c \in Clients |-> <<>>]
  /\ pc = "wait" /\ batch = {} /\ cur = listenFd_ /\ sum = 0 /\ todo = {}
  /\ errno = "other"
  /\ fdSet_ = {}
  /\ isClose_ = [fd \in FDs |-> TRUE]
  /\ readBuff_ = [fd \in FDs |-> NewBuffer]
  /\ writeBuff_ = [fd \in FDs |-> NewBuffer]
  /\ userCount = 0
  /\ executed = [c \in Clients |-> <<>>]
  /\ foreign = {}
  /\ home = [c \in Clients |-> listenFd_]
  /\ relapsed = {}
-----------------------------------------------------------------------------
(* The clients and the network.                                            *)

Connect(c) ==
  /\ peer[c] = "off"
  /\ peer' = [peer EXCEPT ![c] = "est"]
  /\ backlog' = Append(backlog, c)
  /\ edge' = TRUE
  /\ UNCHANGED <<skerr, inq, owner, interest, clientVars, loopVars, connVars, historyVars>>

\* A client without pipelining waits for one reply per request.
Send(c) ==
  /\ peer[c] = "est"
  /\ nsent[c] < MaxReq
  /\ Pipelining \/ Len(got[c]) >= nsent[c]
  /\ nsent' = [nsent EXCEPT ![c] = @ + 1]
  /\ \E k \in Kinds :
       inq' = [inq EXCEPT ![c] = Append(@, [conn |-> c, n |-> nsent[c] + 1, kind |-> k])]
  /\ UNCHANGED <<peer, skerr, backlog, edge, owner, interest, got, loopVars, connVars,
                 historyVars>>

\* The client sends no more but still reads (shutdown, or a close not yet answered).
Shutdown(c) ==
  /\ peer[c] = "est"
  /\ peer' = [peer EXCEPT ![c] = "fin"]
  /\ UNCHANGED <<skerr, inq, backlog, edge, owner, interest, clientVars, loopVars, connVars,
                 historyVars>>

\* A reset arrives.  After a FIN it reads as end of file and writes as EPIPE.
Abort(c) ==
  /\ CanAbort
  /\ peer[c] \in {"est", "fin"}
  /\ peer' = [peer EXCEPT ![c] = "reset"]
  /\ skerr' = [skerr EXCEPT ![c] = IF peer[c] = "est" THEN "ECONNRESET" ELSE "EPIPE"]
  /\ UNCHANGED <<inq, backlog, edge, owner, interest, clientVars, loopVars, connVars,
                 historyVars>>
-----------------------------------------------------------------------------
(* The event loop.                                                         *)

\* Mutant: EPOLLRDHUP is not asked for.
HungUp_ResetOnly(c) == peer[c] = "reset"

\* What EPOLLRDHUP, EPOLLHUP and EPOLLERR report.
HungUp(c) == peer[c] \in {"fin", "reset"}

Ready == {fd \in FDs : /\ interest[fd] = "armed"
                       /\ inq[owner[fd]] # <<>> \/ HungUp(owner[fd])}

\* epoll_wait, which returns after 10 ms at the latest, with every ready event.
\* A connection's event is delivered once (EPOLLONESHOT).
EpollWait ==
  /\ pc = "wait"
  /\ LET conns  == {[fd |-> fd, hup |-> HungUp(owner[fd]), conn |-> owner[fd]] : fd \in Ready}
         listen == {[fd |-> listenFd_, hup |-> FALSE, conn |-> NoClient]}
     IN  batch' = IF edge /\ backlog # <<>> THEN conns \cup listen ELSE conns
  /\ edge' = FALSE
  /\ interest' = [fd \in FDs |-> IF fd \in Ready THEN "disarmed" ELSE interest[fd]]
  /\ pc' = "dispatch"
  /\ UNCHANGED <<peer, skerr, inq, backlog, owner, clientVars, cur, sum, todo, errno, connVars,
                 historyVars>>

\* Mutant: a connection's event is not taken from the batch.
Taken_Again(e) == {f \in batch : f # e \/ e.fd # listenFd_}

\* The batch after event e has been taken from it.
Taken(e) == batch \ {e}

\* Mutant: the descriptor stays in fdSet_.
CloseConn_NotErased(fd) ==
  /\ fdSet_' = fdSet_
  /\ interest' = [interest EXCEPT ![fd] = "none"]
  /\ isClose_' = [isClose_ EXCEPT ![fd] = TRUE]
  /\ owner' = [owner EXCEPT ![fd] = NoClient]
  /\ inq' = [inq EXCEPT ![owner[fd]] = <<>>]
  /\ userCount' = userCount - 1

\* Epoller::DelFd and appManager::Close.  Closing frees the descriptor's number
\* and throws away what was not read.
CloseConn_(fd) ==
  /\ fdSet_' = fdSet_ \ {fd}
  /\ interest' = [interest EXCEPT ![fd] = "none"]
  /\ isClose_' = [isClose_ EXCEPT ![fd] = TRUE]
  /\ owner' = [owner EXCEPT ![fd] = NoClient]
  /\ inq' = [inq EXCEPT ![owner[fd]] = <<>>]
  /\ userCount' = userCount - 1

DispatchListen ==
  /\ pc = "dispatch"
  /\ \E e \in batch : e.fd = listenFd_ /\ batch' = Taken(e)
  /\ pc' = "accept"
  /\ UNCHANGED <<kernelVars, clientVars, cur, sum, todo, errno, connVars, historyVars>>

DispatchClose ==
  /\ pc = "dispatch"
  /\ \E e \in batch : /\ e.fd # listenFd_ /\ e.hup
                      /\ batch' = Taken(e)
                      /\ CloseConn_(e.fd)
  /\ UNCHANGED <<peer, skerr, backlog, edge, clientVars, pc, cur, sum, todo, errno,
                 readBuff_, writeBuff_, historyVars>>

DispatchRead ==
  /\ pc = "dispatch"
  /\ \E e \in batch : /\ e.fd # listenFd_ /\ ~ e.hup
                      /\ batch' = Taken(e)
                      /\ cur' = e.fd
  /\ sum' = 0
  /\ pc' = "read"
  /\ UNCHANGED <<kernelVars, clientVars, todo, errno, connVars, historyVars>>

\* Mutant: the last frame of the buffer is left for the next time.
needWrite_Late(fd) == length(writeBuff_[fd]) - 1

needWrite(fd) == length(writeBuff_[fd])

\* The batch is done: DealWrite_ goes over fdSet_.  Nothing appends to a
\* writeBuff_ while it does, so the descriptors to write are known here.
EndDispatch ==
  /\ pc = "dispatch" /\ batch = {}
  /\ todo' = {fd \in fdSet_ : needWrite(fd) > 0}
  /\ cur' = listenFd_ /\ sum' = 0
  /\ pc' = "write"
  /\ UNCHANGED <<kernelVars, clientVars, batch, errno, connVars, historyVars>>
-----------------------------------------------------------------------------
(* DealListen_ and AddClient_.                                             *)

Free(fd) == owner[fd] = NoClient

\* accept fails: nobody waits, or there is no descriptor (EMFILE).
AcceptFails ==
  /\ pc = "accept"
  /\ \/ backlog = <<>> /\ errno' = "EAGAIN"
     \/ backlog # <<>> /\ (\A fd \in FDs : ~ Free(fd)) /\ errno' = "other"
  /\ pc' = "dispatch"
  /\ UNCHANGED <<kernelVars, clientVars, batch, cur, sum, todo, connVars, historyVars>>

\* Mutant: one accept per event, as for a level-triggered socket.
AfterAccept_Once == "dispatch"

\* The loop goes on while listenEvent_ has EPOLLET, which InitEventMode_ sets.
AfterAccept == "accept"

\* AddClient_ on the lowest free descriptor: a connection over the limit is told
\* so and closed at once; init() leaves userCount and the buffers as they are.
Accept ==
  /\ pc = "accept"
  /\ backlog # <<>>
  /\ \E fd \in FDs :
       /\ Free(fd) /\ \A g \in FDs : Free(g) => fd <= g
       /\ IF userCount >= MAX_FD
          THEN /\ peer' = [peer EXCEPT ![Head(backlog)] = "refused"]
               /\ UNCHANGED <<owner, interest, fdSet_, isClose_, home>>
          ELSE /\ owner' = [owner EXCEPT ![fd] = Head(backlog)]
               /\ interest' = [interest EXCEPT ![fd] = "armed"]
               /\ fdSet_' = fdSet_ \cup {fd}
               /\ isClose_' = [isClose_ EXCEPT ![fd] = FALSE]
               /\ home' = [home EXCEPT ![Head(backlog)] = fd]
               /\ UNCHANGED peer
  /\ backlog' = Tail(backlog)
  /\ pc' = AfterAccept
  /\ UNCHANGED <<skerr, inq, edge, clientVars, batch, cur, sum, todo, errno, readBuff_,
                 writeBuff_, userCount, executed, foreign, relapsed>>
-----------------------------------------------------------------------------
(* DealRead_: read_, then process and re-arm, or CloseConn_.               *)

\* One read() of read_'s loop that returned data.  The socket is blocking, so
\* no read fails with EAGAIN: the loop ends here when errno still says so from
\* the accept that found nobody.  The result of append is ignored.
ReadData ==
  /\ pc = "read"
  /\ LET c == owner[cur]
         n == Lesser(Len(inq[c]), FRAME_MAX_LEN)
     IN  /\ n > 0
         /\ readBuff_' = [readBuff_ EXCEPT ![cur] = append(@, SubSeq(inq[c], 1, n))]
         /\ inq' = [inq EXCEPT ![c] = SubSeq(@, n + 1, Len(@))]
         /\ sum' = sum + n
  /\ pc' = IF errno = "EAGAIN" THEN "process" ELSE "read"
  /\ UNCHANGED <<peer, skerr, backlog, edge, owner, interest, clientVars, batch, cur, todo,
                 errno, fdSet_, isClose_, writeBuff_, userCount, historyVars>>

\* A read() that returned nothing, or failed; on an open connection with nothing
\* to read it does neither and the thread sleeps (no action).
ReadEnds ==
  /\ pc = "read"
  /\ inq[owner[cur]] = <<>>
  /\ HungUp(owner[cur])
  /\ errno' = IF skerr[owner[cur]] = "ECONNRESET" THEN "other" ELSE errno
  /\ skerr' = [skerr EXCEPT ![owner[cur]] = IF @ = "ECONNRESET" THEN "none" ELSE @]
  /\ IF sum <= 0 /\ errno' # "EAGAIN"
     THEN CloseConn_(cur) /\ pc' = "dispatch" /\ cur' = listenFd_
     ELSE pc' = "process" /\ UNCHANGED <<fdSet_, interest, isClose_, owner, inq, userCount, cur>>
  /\ UNCHANGED <<peer, backlog, edge, clientVars, batch, sum, todo, readBuff_, writeBuff_,
                 historyVars>>

\* Mutant: only the junk in front of the frame is popped.
AfterFrame_Kept(b, discard) == pop(b, discard)

\* readBuff_ after a frame behind `discard` units of junk was handled.
AfterFrame(b, discard) == pop(pop(b, discard), 1)

\* Mutant: the descriptor is not armed again.
ModFd_Forgotten(fd) == UNCHANGED interest

ModFd(fd) == interest' = [interest EXCEPT ![fd] = "armed"]

\* frameProcess: the frame is executed and its reply goes to writeBuff_, where
\* append may refuse it unnoticed.
frameProcess(frame) ==
  /\ writeBuff_' = IF frame.kind = "mute" THEN writeBuff_
                   ELSE [writeBuff_ EXCEPT ![cur] = append(@, <<frame>>)]
  /\ errno' \in IF frame.kind = "sys" THEN {errno, "other"} ELSE {errno}
  /\ executed' = [executed EXCEPT ![frame.conn] = Append(@, frame.n)]
  /\ foreign' = IF frame.conn = owner[cur] THEN foreign ELSE foreign \cup {frame}

\* process: getFrameFromBuffer skips what is no frame, at most one frame is
\* handled, and the descriptor is armed again.
Process ==
  /\ pc = "process"
  /\ LET bytes == peek(readBuff_[cur], FRAME_MAX_LEN)
     IN  \E discard \in 0 .. Len(bytes) :
           /\ \A i \in 1 .. discard : bytes[i].kind = "junk"
           /\ \/ /\ discard = Len(bytes)
                 /\ readBuff_' = [readBuff_ EXCEPT ![cur] = pop(@, discard)]
                 /\ UNCHANGED <<writeBuff_, errno, executed, foreign>>
              \/ /\ discard < Len(bytes) /\ bytes[discard + 1].kind # "junk"
                 /\ readBuff_' = [readBuff_ EXCEPT ![cur] = AfterFrame(@, discard)]
                 /\ frameProcess(bytes[discard + 1])
  /\ ModFd(cur)
  /\ pc' = "dispatch" /\ cur' = listenFd_ /\ sum' = 0
  /\ UNCHANGED <<peer, skerr, inq, backlog, edge, owner, clientVars, batch, todo, fdSet_,
                 isClose_, userCount, home, relapsed>>
-----------------------------------------------------------------------------
(* DealWrite_ and write_.                                                  *)

\* DealWrite_ takes the next descriptor with something to write.
WriteBegin ==
  /\ pc = "write" /\ cur = listenFd_
  /\ \E fd \in todo : /\ cur' = fd
                      /\ todo' = todo \ {fd}
                      /\ sum' = needWrite(fd)
  /\ UNCHANGED <<kernelVars, clientVars, pc, batch, errno, connVars, historyVars>>

WriteDone ==
  /\ pc = "write" /\ cur = listenFd_ /\ todo = {}
  /\ pc' = "wait"
  /\ UNCHANGED <<kernelVars, clientVars, batch, cur, sum, todo, errno, connVars, historyVars>>

\* The indices of a buffer that pop has emptied after append had left m_idxw on
\* m_size: its length is m_size again, and all it ever held is to be written.
Relapsed(b) == b.m_idxr = 0 /\ b.m_idxw = m_size

\* One round of write_'s loop: pop, then write() what was popped.  The loop is
\* left when write() returns 0, as it does for the empty round after the last
\* byte, or fails.  What was popped is gone in every case.
WriteRound ==
  /\ pc = "write" /\ cur # listenFd_
  /\ LET c    == owner[cur]
         n    == Lesser(sum, FRAME_MAX_LEN)
         data == peek(writeBuff_[cur], n)
     IN  /\ writeBuff_' = [writeBuff_ EXCEPT ![cur] = pop(@, n)]
         /\ relapsed' = IF Relapsed(writeBuff_'[cur]) THEN relapsed \cup {cur} ELSE relapsed
         /\ \/ /\ peer[c] # "reset"
               /\ got' = [got EXCEPT ![c] = SubSeq(@ \o data, 1, Lesser(MaxGot, Len(@) + n))]
               /\ sum' = sum - n
               /\ cur' = IF n = 0 THEN listenFd_ ELSE cur
               /\ UNCHANGED <<skerr, errno, pc>>
            \/ /\ peer[c] = "reset" /\ skerr[c] = "ECONNRESET"
               /\ skerr' = [skerr EXCEPT ![c] = "none"]
               /\ errno' = "other"
               /\ cur' = listenFd_ /\ sum' = 0
               /\ UNCHANGED <<got, pc>>
            \/ /\ peer[c] = "reset" /\ skerr[c] # "ECONNRESET"   \* SIGPIPE
               /\ pc' = "killed"
               /\ UNCHANGED <<got, skerr, errno, cur, sum>>
  /\ UNCHANGED <<peer, inq, backlog, edge, owner, interest, nsent, batch, todo, fdSet_,
                 isClose_, readBuff_, userCount, executed, foreign, home>>
-----------------------------------------------------------------------------
ServerStep ==
  \/ EpollWait
  \/ DispatchListen \/ DispatchClose \/ DispatchRead \/ EndDispatch
  \/ AcceptFails \/ Accept
  \/ ReadData \/ ReadEnds \/ Process
  \/ WriteBegin \/ WriteDone \/ WriteRound

Next == ServerStep \/ \E c \in Clients : Connect(c) \/ Send(c) \/ Shutdown(c) \/ Abort(c)

Spec == Init /\ [][Next]_vars

\* The server is one thread: while it can take a step it eventually does.
\* Nothing is assumed of clients.
FairSpec == Spec /\ WF_vars(ServerStep)
-----------------------------------------------------------------------------
TypeOK ==
  /\ peer \in [Clients -> PeerState]
  /\ skerr \in [Clients -> {"none", "ECONNRESET", "EPIPE"}]
  /\ inq \in [Clients -> Seq(Byte)]
  /\ backlog \in Seq(Clients)
  /\ edge \in BOOLEAN
  /\ owner \in [FDs -> Clients \cup {NoClient}]
  /\ interest \in [FDs -> {"none", "armed", "disarmed"}]
  /\ nsent \in [Clients -> 0 .. MaxReq]
  /\ got \in [Clients -> Seq(Byte \cup {Uninit})]
  /\ pc \in {"wait", "dispatch", "accept", "read", "process", "write", "killed"}
  /\ batch \subseteq Event
  /\ cur \in FDs \cup {listenFd_}
  /\ sum \in Nat
  /\ todo \subseteq FDs
  /\ errno \in {"EAGAIN", "other"}
  /\ fdSet_ \subseteq FDs
  /\ isClose_ \in [FDs -> BOOLEAN]
  /\ readBuff_ \in [FDs -> Buffer]
  /\ writeBuff_ \in [FDs -> Buffer]
  /\ userCount \in Int
  /\ executed \in [Clients -> Seq(1 .. MaxReq)]
  /\ foreign \subseteq Byte
  /\ home \in [Clients -> FDs \cup {listenFd_}]
  /\ relapsed \subseteq FDs

\* Every connected descriptor is watched: EPOLLONESHOT has disarmed it only
\* while its event waits in the batch or is being handled.  A path through
\* DealRead_ without ModFd or CloseConn_ would leave a client unheard for ever.
Rearmed ==
  \A fd \in FDs :
    /\ (fd \in fdSet_) <=> (owner[fd] # NoClient)
    /\ (fd \in fdSet_) <=> ~ isClose_[fd]
    /\ (interest[fd] = "none") <=> (owner[fd] = NoClient)
    /\ (interest[fd] = "disarmed") <=>
         \/ \E e \in batch : e.fd = fd
         \/ pc \in {"read", "process"} /\ cur = fd

\* An event is handled while the descriptor still belongs to the connection it
\* was reported for, although descriptors are closed and reused in one batch.
BatchFresh ==
  /\ \A e \in batch : e.fd # listenFd_ => owner[e.fd] = e.conn /\ e.conn # NoClient
  /\ \A e, f \in batch : e.fd = f.fd => e = f

\* When the server waits again, every reply of the batch has been handed to the
\* kernel, and no descriptor keeps one for its next owner: a writeBuff_ is empty,
\* or in the one state whose length says otherwise (relapsed).
WritesDrained ==
  pc = "wait" => \A fd \in FDs : IsEmpty(writeBuff_[fd]) \/ Relapsed(writeBuff_[fd])

\* However frames pile up, get dropped by a full readBuff_, wrap around its end
\* or stay in it for the next owner of the descriptor: no request is executed
\* twice and none before an earlier one of its client.
ExecutedInOrderOnce ==
  \A c \in Clients : \A i, j \in 1 .. Len(executed[c]) :
    i < j => executed[c][i] < executed[c][j]

\* Clients that wait for each answer get exactly the answers to their own
\* requests, in order, also on a descriptor others have used before, whose
\* buffers nobody has emptied.  It ends for a descriptor when its writeBuff_
\* relapses: from then on DealWrite_ sends the old replies again every 10 ms,
\* until another is appended, and clients take them for answers.
AnswersExact ==
  \A c \in Clients : home[c] \notin relapsed =>
    \A i \in 1 .. Len(got[c]) : got[c][i].conn = c /\ got[c][i].n = i

\* ... and no request of theirs is executed for another connection, which after
\* a relapse happens: a client that took an old reply for its answer sends its
\* next request early, hangs up and leaves one behind in readBuff_.
Isolation == \A f \in foreign : home[f.conn] \in relapsed

\* Whatever buffers refuse, keep for the next owner of their descriptor or send
\* again after a relapse, and however far ahead clients send: what a client
\* receives are replies to executed requests made on its own descriptor, and
\* never the uninitialised part of an array.
AnswersFromHome ==
  \A c \in Clients : \A i \in 1 .. Len(got[c]) :
    /\ got[c][i] \in Byte
    /\ home[got[c][i].conn] = home[c]
    /\ \E k \in 1 .. Len(executed[got[c][i].conn]) :
         executed[got[c][i].conn][k] = got[c][i].n

\* The connection is in the backlog or has a descriptor.
Open(c) == \/ \E i \in 1 .. Len(backlog) : backlog[i] = c
           \/ \E fd \in FDs : owner[fd] = c

\* Whatever is sent to an open connection is read while it is open, unless the
\* client hangs up: what was sent before the end of the stream may then be thrown
\* away unread, because EPOLLRDHUP is looked at first.
EverythingRead ==
  \A c \in Clients : (inq[c] # <<>> /\ Open(c)) ~>
                      ((inq[c] = <<>> /\ Open(c)) \/ peer[c] # "est")

\* A client that hangs up is let go.
PeerCloseReaped == \A c \in Clients : (peer[c] = "fin") ~> ~ Open(c)

\* A waiting connection is accepted, also when several arrive on one edge.
Waiting(c) == \E i \in 1 .. Len(backlog) : backlog[i] = c
Accepted == \A c \in Clients : Waiting(c) ~> ~ Waiting(c)

\* A request with an answer has arrived and was not read.
Asked(c, n) == \E i \in 1 .. Len(inq[c]) : /\ inq[c][i].n = n
                                           /\ inq[c][i].kind \in {"ask", "sys"}

\* A client that waits for its answer gets it unless it gives up, whatever the
\* others do, hang-ups and relapses of their buffers included.  A relapse of its
\* own descriptor may cost it the answer.
RequestAnswered ==
  \A c \in Clients : \A n \in 1 .. MaxReq :
    Asked(c, n) ~> (Len(got[c]) >= n \/ peer[c] # "est" \/ home[c] \in relapsed)

\* The replies as the service speaks of them: the client and the request.
replied == [c \in Clients |-> [i \in 1 .. Len(got[c]) |-> <<got[c][i].conn, got[c][i].n>>]]

\* The clients on a descriptor whose writeBuff_ has relapsed.
spoilt == {c \in Clients : home[c] \in relapsed}

Service == INSTANCE RequestService WITH
             asked <- nsent, executed <- executed, replies <- replied, spoilt <- spoilt

\* To clients that wait for each answer the server is a RequestService: every
\* request is executed once at most, before its answer and after the last one's,
\* whatever connections, batches and buffers do in between.  The service spoils
\* the clients of a descriptor when its writeBuff_ relapses, and no others.
ImplementsRequestService == Service!RSSpec
=============================================================================
