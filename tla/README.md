# socket-master: TLA+ models, checks and proofs

The program is the server of a hand-held scanner: one process, one thread, a reactor over
epoll that accepts TCP clients, takes command frames from them and writes replies. This
directory holds its verification project. Paths below are relative to `src/`.

## 1. The system

| component | state it keeps | operations | interacts with |
|---|---|---|---|
| `CBuffer` (code/buffer/CBuffer.\*) | an array, a read and a write index | append, appendByte, peek, pop, length, IsEmpty, IsFull | owned twice by every AppConn |
| `SocketServer` (code/server/socketserver.\*) | listening socket, `fdSet_` | Start's loop, DealListen_, DealRead_, DealWrite_, CloseConn_ | calls Epoller and appManager |
| `Epoller` (code/server/epoller.\*) | the epoll descriptor, the last batch of events | AddFd, ModFd, DelFd, Wait | the kernel |
| `appManager` (code/app/appManager.h) | `users_`: a connection object per descriptor number, for ever; `userCount` | init, Close, process, read_, write_, needWrite | forwards to AppConn |
| `AppConn` (code/app/appconn.\*) | descriptor, `isClose_`, `readBuff_`, `writeBuff_` | init, Close, read_, write_, process, frameProcess and the commands | CBuffer, Frame, the system |
| `Frame` (code/app/Frame.h) | the parsed fields of one frame | init, make, ack, size | AppConn |
| `SocketServerProcess`, `process/main.cpp` | the server pointer | start, SIGINT handler | builds and destroys the server |
| `LogManager` (code/log/applog.h) | one spdlog logger with a daily file and the console | getLogger | everybody |
| `Buffer` (code/buffer/buffer.\*) | a vector, a read and a write position | Append, Retrieve, ReadFd, WriteFd, Peek and their like | compiled in, with no caller: CBuffer has taken its place |
| `ThreadPool` (code/pool/threadpool.h) | the task queue, `isClosed`, a mutex and a condition | AddTask, the worker's loop, the destructor | compiled in, with no caller in the running program |
| `StorageRecord` (code/app/StorageRecord.h) | four line states, a configuration | initRecordFile, setTimeMap; getStorageMB | only getStorageMB is called, by AppConn::Toget_capacity |
| `MonitorVedio`, `BatDevice` | | | not part of the program: their includes and constructions are commented out (appManager.h:6-7, 18, 23) |
| `code/log/spdlog` | the open file, the next rotation time, a mutex per sink | info, warn, error, flush | vendored; what the program uses of it and has state is in `DailyLog` and `Lifecycle` |

Calls go one way: `Start` -> `DealX_` -> `appManager` -> `AppConn` -> `CBuffer`. There is no
locking because there is one thread. What makes the program hard is the other side: clients
connect, send, hang up and get reset between any two system calls; descriptors are closed and
given out again within one batch of events; one-shot events must be armed again on every path;
the buffers are small and refuse silently; `errno` carries information between calls that do
not know of each other; and the buffer has a state in which its length is wrong.

What would make each part correct:

* CBuffer: what was accepted comes out once, in order, unaltered; no access leaves the array;
  nothing uninitialised is read.
* Epoller and the loop: no open connection goes unwatched; an event is handled for the
  connection it was reported for; everyone who waits is accepted.
* AppConn: no request is executed twice or out of order; a client gets its own answers; what
  was written to `writeBuff_` is handed over before the loop waits again.
* The server: a client that waits is answered; a client that hangs up is let go.
* The commands: a recording is not stopped before it is saved; what a reply says is what was
  done or seen.
* The log: a message is found in the file of its day; a file that cannot be opened costs
  messages, not the process.
* The process: SIGINT at any instruction ends it, everything is destroyed once and used only
  while it exists, and a process that cannot listen does not stay.
* Buffer: bytes come out once and in order, and it does not grow for ever.

PROJECT.json lists the hazards of this kind at the lines where they bite, each with the properties
that would catch it.

## 2. The modules

| module | what it is |
|---|---|
| `CBuffer` | the loop buffer as operators on a record of its fields; used by the buffer, server and receive modules |
| `ByteQueue` | abstract specification: a bounded queue of bytes, with the one weakness the program's buffer has |
| `CBufferSpec` | one buffer driven by any sequence of calls; its properties; its refinement of `ByteQueue` |
| `MCCBuffer` | the same for TLC |
| `CBufferLemmas` | what each buffer operation returns and preserves, proved for every array size |
| `CBufferProofs` | the theorems about `CBufferSpec` |
| `SocketServer` | the reactor with its connections, the kernel's sockets and the clients |
| `RequestService` | abstract specification: each client's requests, their execution and their answers, one at a time |
| `MCSocketServer` | the same for TLC |
| `SocketServerProofs` | the theorems about `SocketServer` |
| `Receive` | one connection's receive path on bytes: read_, process, getFrameFromBuffer, Frame::init |
| `MCReceive` | the same for TLC |
| `ReceiveProofs` | the theorems about `Receive` |
| `ThreadPool` | the workers, callers and destructor of code/pool/threadpool.h |
| `MCThreadPool` | the same for TLC |
| `ThreadPoolProofs` | the theorems about `ThreadPool` |
| `Buffer` | the growing buffer of code/buffer/buffer.cpp under every sequence of calls |
| `GrowingQueue` | abstract specification: an unbounded queue, with the one call that overwrites it |
| `MCBuffer` | the same for TLC |
| `BufferProofs` | the theorems about `Buffer`, its refinement of `GrowingQueue` included |
| `DailyLog` | the log file: the clock, spdlog's daily file sink and its file |
| `Commands` | extends `DailyLog`: the requests an AppConn carries out, step by step |
| `MCCommands` | the same for TLC |
| `CommandsProofs` | the theorems about `DailyLog` and `Commands` |
| `Lifecycle` | main, the construction of the server, SIGINT at any instruction, exit, and the next process |
| `MCLifecycle` | the same for TLC |
| `LifecycleProofs` | the theorems about `Lifecycle` |

Operators named `X_SomeFault` (such as `pop_Unwrapped`) stand before the operator they vary.
They are slips the code could plausibly have; each is used to see that a property notices.

### CBuffer and CBufferSpec

A buffer is the record `[m_buff, m_idxr, m_idxw]`; `m_size` is a constant. `append`, `peek`,
`pop` and `appendByte` are the functions of CBuffer.cpp with their two-segment copies, and
`freebyte` is computed modulo the number of values of a `uint32_t`. The constructor's
`new char[]` leaves the array uninitialised: `Uninit` is the value of such an element.

The state worth knowing is the *relapse*. `append` does not wrap the write index when the last
byte it stores is the last of the array (line 150): it rests on `m_size`. `pop` does wrap the
read index. When such a buffer is emptied it has `m_idxr = 0` and `m_idxw = m_size`, so
`length()` is `m_size` and everything in the array can be read again. In the server,
`DealWrite_` then sends the 256 bytes in every round of the loop, until an append lets
`m_idxw` wrap. From there `freebyte` is 2^32 - 1, so `append` accepts anything, starting at the
front of the array. `CBufferSpec` keeps `queued`, the bytes accepted and not yet popped, as
history; `Stale` counts the readable bytes in front of them. `ByteQueue` has a `Relapse`
disjunct for it, and nothing else that a queue would not have: the refinement shows that this
is the *only* weakness for chunks shorter than the array. With a chunk as long as the array
(a `read()` of 256 bytes into a relapsed `readBuff_`) accepted bytes can be overwritten; this
is why `AcceptedBytesKept` is stated for `MaxChunk < m_size` and `CBufferReads`, which allows
`MaxChunk = m_size`, checks memory safety only.

The rest on `m_size` has a second consequence. `appendByte` stores first and wraps then, so behind
an `append` that filled the array its store goes to `m_buff[m_size]`. Nothing in the program calls
`appendByte`. `AccessInBounds` names this store as the one access that leaves the array:
`last`, the operation that stored last, is history for it.

### SocketServer

The unit of data is a whole frame (`Byte` of `CBuffer` becomes a set of frames): what the
server's properties tell apart is which request of which client a reply answers, not its
bytes. A frame is answered (`"ask"`), answered by a handler whose system calls may fail and
change `errno` (`"sys"`: cmd_set_time's clock_settime, cmd_ask_info's popen, statvfs), not
answered (`"mute"`: type ACK or an unknown command) or no frame at all (`"junk"`).

One step of the server is at most one system call, so clients interleave with everything:

| action | code |
|---|---|
| `EpollWait` | `epoller_->Wait`; reports every ready descriptor and disarms it (EPOLLONESHOT); reports the listening socket once per edge |
| `DispatchListen`, `DispatchClose`, `DispatchRead`, `EndDispatch` | the body of Start's for loop, in any order of the batch |
| `Accept`, `AcceptFails` | one round of DealListen_ with AddClient_, appManager::init and SendError_ |
| `ReadData`, `ReadEnds` | one `read()` of AppConn::read_ and, at the end, DealRead_'s test and CloseConn_ |
| `Process` | getFrameFromBuffer, frameProcess, the pops and ModFd |
| `WriteBegin`, `WriteRound`, `WriteDone` | DealWrite_ and one round of write_'s loop |
| `Connect`, `Send`, `Shutdown`, `Abort` | clients and the network (external) |

`pc` says where the thread is. A `read()` with nothing to read on an open connection blocks:
then no server action is enabled, as in the program. `"killed"` is the end by SIGPIPE.
`executed`, `foreign`, `home` (the descriptor a connection was given) and `relapsed` (the descriptors
whose `writeBuff_` was once emptied and then looked full) are history.

The relapse is what the properties about answers are stated around. The unit of a buffer is a frame here and a byte
in the code: a `writeBuff_` of 256 bytes relapses as soon as replies of some length end exactly on its last
byte, which equal replies whose length divides 256 do in the first round and others after
some rounds, so a server that runs for long has such descriptors. From then on the loop sends the old replies again every 10 ms,
also to the next client that gets the descriptor, until a reply is appended. `AnswersExact`,
`Isolation`, `RequestAnswered` and `ImplementsRequestService` say what holds for clients of descriptors that have not relapsed,
while others do: a relapse shows on its own descriptor and nowhere else. `AnswersFromHome` says
what holds on every descriptor: replies come from requests that were executed and were
made on this descriptor, by this client or an earlier one.

Abstractions, each of them deliberate:

* A frame arrives whole or not at all. `Receive` has the bytes.
* The send buffer of a socket takes any reply: a short write or a blocking write is not
  modelled. Replies are some tens of bytes, at most 256 per round.
* `accept` fails for want of connections or of descriptors; other errors of it look the same
  to the loop.
* A connection over the limit is told so and closed (`"refused"`); since `userCount` is never
  incremented this needs `MAX_FD` = 0 to happen.
* `errno` is "EAGAIN" or something else. Printing and logging are taken not to change it.
* `MaxGot` bounds how many replies of a client are remembered, as history only.
* A client connects once. Descriptors are reused among clients.

### Receive

A byte is the pair of a message and a position in it, and a message is what `Frame::init` can
tell of it: whether it begins with `S`, what its length field shows, how long it really is,
whether its checksum fits. Noise, damaged frames and the two-digit form of the comment at
`appconn.cpp:246` are such messages. `init` returns a *set* of results, because it reads beyond
the bytes received: it compares `length_` with the number of bytes it has, but a frame is
`length_ + 9` bytes long (`size()`), and `bytes` in `process` is an uninitialised array. So a length
field that is not complete may show anything, and a checksum that was not received may fit.

`Read` is one `read()` per event: `errno` is EAGAIN here, and `SocketServer` has the other case. It
ends wherever `Cuts` allows: between messages, also where `length_ > len` holds with the length
field complete (so that `init` answers FRAME_WAIT), or anywhere. The buffer is the whole
`CBuffer`, wrap-around and relapse included. `executed` has 0 for a command that was executed
although its frame never arrived whole.

Not modelled here: characters below `'0'` in a length field, which make `length_` negative, and
an `S` among the parameters. A damaged frame that shows too great a length makes `init` wait for
bytes that were not sent and blocks the frames behind it; the messages of the run have none.

### ThreadPool

`Lock`, `Take`, `End`, `GiveUp`, `Wait` and `Run` are the worker's loop (threadpool.h:21-32) cut where
the mutex changes hands, and between the test of `isClosed` and the wait, where a flag set
without the mutex would be missed. AddTask and the destructor are two steps each, because they
notify after they have unlocked: the notification may find nobody waiting, or wake a worker for
a task another one has taken. `Spurious` is the return of a wait that nobody notified.
`NoTaskSleptOver` is what makes this correct: while a worker waits, the notifications to come
and the workers about to look are at least as many as the queued tasks. The destructor does not
join its detached workers, so `TaskRuns` and `WorkersEnd` speak of a process that lives on. A call
of AddTask during or after the destructor, and a task that throws, are not modelled.

### Buffer

The state is the vector and its two positions, as in the code; every public function that
changes them is an action, and `MakeSpace_`, `EnsureWriteable` and the two halves of a `ReadFd`
that spills into the array on the stack are operators. The owner keeps the assertions of the
interface (the Makefile leaves them on) and lets no more than `MaxReadable` bytes pile up; the
theorems hold for every such bound. `io` is what the last call handed in or out, and `demand` the most
that ever had to fit at once, as history. `Peek(char*, size_t)` copies in the wrong direction
(buffer.cpp:23): the action `PeekInto` does what it does, and `GrowingQueue` names it
`Overwrite`. Nothing calls it. When `MakeSpace_` grows the vector it keeps the free space
in front of the readable bytes, which is why `GrowthBounded` allows twice the demand.

### DailyLog and Commands

A request is a list of steps (`todo`): a script run by `system()`, `popen`, a look at the disk by
`statvfs`, setting or reading the clock, a call of the logger, the reply. The one thread does them in
order; between any two of them the clock goes on, and others write to the disk. Each can
fail where the code can notice, and where it cannot.

| action | code |
|---|---|
| `cmd_set_info`, `cmd_ask_info`, `cmd_state`, `cmd_set_time`, `ack_` | frameProcess and the function of that name; which steps it will take |
| `system` | one script; the code tells only "could not be started" (-1) from the rest |
| `popen`, `popenFails` | the channel script; its output goes into the global `channle_buffer`, which keeps what it had when there is none |
| `getStorageMB` | the two looks of Toget_capacity and its percentage |
| `setTime`, `setTimeFails`, `gettime` | clock_settime and the `time()` after it |
| `LogBegins` | a call of the logger stamps its message |
| `LogEnds` | daily_file_sink::sink_it_: rotates or not, opens a file or fails to, writes, computes the next rotation time from the clock as it is *then* |
| `BadParameter` | stoi, stod or a missing parameter: an exception nobody catches |
| `Tick`, `Other` | the clock; log messages that belong to no command |

The last reading of the clock is the interesting one: a message stamped before midnight may open its day's
file after midnight, and that file then stays open for the whole next day. The sink's constructor
does the same on a start across midnight: it reads the clock for the file's name, opens the file,
and reads the clock again for the rotation time (`LogInit`). `setTime` can
put the clock before the time the open file was made for. `FiledByDay` says what remains of "a
file per day" under both, and `NoFileNeedsSetBack` what is needed for spdlog to write to no
file: `open` has closed the old file when `fopen` fails, but as the rotation time stays in the past
every later message tries again, unless the clock has been set back.

Abstractions: a tick is a fraction of a day, all days are equally long, only `setTime` sets the clock,
and a call of the logger takes less than a day. The disk has `Total` units, of
which `statvfs` may find any number free, and a megabyte has `MB` of them: getStorageMB cuts what
is free and what is used off to megabytes, each for itself. What a recorder or a script does
is taken from its name (run.sh starts, kill.sh stops, save.sh saves): the scripts are
not in the repository. Several recordings are one.

### Lifecycle

The thread again works through a list of steps, now those of main, of the constructor,
of a round of the loop, of the destructor and of exit. `Handler` may come between any two of them,
and also inside a log call, which holds one mutex after the other (`Lock`, `Unlock`): once per sink to write
and once per sink to flush. It replaces the steps by its own and never goes back, as
`serverCtrlHandler` ends with `exit(0)`. What then matters is which mutex it has interrupted
(`interrupted`), whether there was a server (`server`), and which of the logger, the listening socket
and the server are left. `End` closes what is open, and
`SocketServerProcess` may start again: `recorder` is what survives a process.
The processes a script has started have inherited the listening socket, which is not opened
with SOCK_CLOEXEC, so that a restarted server fails to bind until they end. What old connections leave behind
(TIME_WAIT) is not modelled: InitSocket_ sets SO_REUSEADDR before it binds.

Abstractions: `signal()` blocks SIGINT in its handler and restarts `read()` (glibc), and `system()` ignores
SIGINT while a script runs. Locks inside malloc and stdio, which the handler may have interrupted as
well, are not modelled: `ShutdownEnds` is about the locks of the program and its logger. A round of the loop is reduced
to what it can be interrupted in; `SocketServer` has the rest. Connections are one.
`Dies` stands for every end of the process that runs no destructor: SIGPIPE on a connection
that was reset, and an exception out of a command.

## 3. The runs

Passing runs:

| run | instance | shows |
|---|---|---|
| `CBufferReplies` | array of 5, chunks up to 4, 2 values | `AcceptedBytesKept`, `ImplementsByteQueue`: accepted bytes survive all wraps and relapses |
| `CBufferReads` | array of 4, chunks up to 4, single bytes by `appendByte` | `TypeOK`, `AccessInBounds`, `NothingUninitialised`, with `freebyte` wrapped |
| `ServerLockstep` | 2 clients, 5 requests each, buffers of 3 that wrap and relapse | `AnswersExact`, `Isolation`, `ImplementsRequestService`, and under fairness `RequestAnswered`, `Accepted`; also no deadlock |
| `ServerBurst` | 2 clients, 3 requests sent ahead, junk, failing handlers, resets, buffers of 4 | `TypeOK`, `Rearmed`, `BatchFresh`, `WritesDrained`, `ExecutedInOrderOnce`, `AnswersFromHome` |
| `ServerPipelined` | 2 clients sending ahead, frames without an answer, junk, buffers of 3 | under fairness `EverythingRead`, `PeerCloseReaped` |
| `ReceiveLockstep` | 4 messages of 5 kinds, 32 bytes of buffer, the program's frame layout | `TypeOK`, `FramesKept`, `ExecutedOnce`, and under fairness `FrameExecuted` |
| `ThreadPoolRuns` | 3 workers, 2 callers, 3 tasks, 1 spurious wakeup | `TypeOK`, `EachOnce`, `NoTaskSleptOver`, and under fairness `TaskRuns`, `WorkersEnd` |
| `BufferRuns` | a vector of 2, an array of 2 on the stack, 2 values, up to 4 readable bytes | `TypeOK`, `GrowthBounded`, `ImplementsGrowingQueue` |
| `CommandsRun` | 5 days of 2 ticks, a disk of 6 units of which 2 are a megabyte, 1 channel | `TypeOK`, `FiledByDay`, `NoFileNeedsSetBack`, `CapacityBetween`, `StoppedUnsaved` |
| `LifecycleRun` | 2 sinks, processes one after the other | `TypeOK`, `DeletedOnce`, `NothingGoneUsed`, and under fairness `FailedStartEnds`, `ShutdownEnds` |

Why these bounds are enough for what they are meant to show: an array of 4 or 5 has every
relation of the two indices (equal, before, behind, write index on the array's size) with
chunks that fit in one segment, in two, or not at all; the theorems below then remove the
bound. Two clients and two descriptors give every reuse of a descriptor inside one batch, and
two requests per client every way in which one is left behind the other. In `ServerLockstep` a
round writes all 3 units of a buffer, and 5 requests fill one exactly, relapse it, have old
replies taken for answers, requests sent early because of it, and one of them left in the
`readBuff_` for the next client of the descriptor, where it is executed: `foreign` is not empty
in this run. In `ServerBurst` buffers of 4 take one or two frames at once and refuse three, so
that with 3 requests sent ahead a `readBuff_` holds two frames, drops what came in one
read, keeps a frame for the next owner and relapses.
In `ReceiveLockstep` two frames fill the 32 bytes, so that frames wrap around the end, end on
it (which relapses the buffer), and arrive in up to three pieces behind noise.
In `ThreadPoolRuns` one worker can run, one wait and one wake up at once, and two callers can
have a notification pending each.
In `BufferRuns` appending 3 bytes to a vector of 2 grows it, retrieving makes `MakeSpace_` move
instead, and a read of 4 fills the vector and then the array. Days of two ticks in `CommandsRun` have
a before and an after within a day, which is all that stamping, filing and rotating tell
apart, and five days allow being two days late after a failed open and being set back over several
files. On a disk of six units a megabyte of two cuts off both numbers or neither, the percentage is exact or
rounded, and less than a megabyte can be free at one look and used at the other, which is the 0/0. In `LifecycleRun` two sinks give a
handler that waits for the first mutex at once and one that waits for the second after it has
used the first; the theorems hold for any list of sinks.
`QueuedAtMostArray`, a constraint of `CBufferReads`, stops TLC from following histories longer
than the array; the theorem about the same property has no such limit.

`CHECK_DEADLOCK FALSE` stands where the system may stop: in `ServerBurst` a reset kills the
process and a changed errno lets it sleep for ever; in `CommandsRun` and `LifecycleRun`, where the
process may end or the handler wait for a mutex for ever; and in the runs of CBuffer, Buffer,
Receive and ThreadPool, whose callers and clients may stop at any time.

Runs that end in a violation, each of one statement the repository makes and the code does
not keep (quoted in PROJECT.json under "findings"):

| run | property | what happens |
|---|---|---|
| `ServerBlocked` | `RequestAnswered` | a handler's failed system call replaces EAGAIN; the next read_ sleeps in read() |
| `ReceiveSplit` | `FramesKept` | a frame cut behind the bytes its length field counts is thrown away |

Four more facts have no run of their own, because the passing runs live with them: a drained buffer may have
m_size bytes again (`Relapse` in `ByteQueue`; `CBufferReplies` passes with it, and a queue
without that disjunct is not implemented); an `appendByte` behind an `append` that filled the array
stores past it (the exception in `AccessInBounds`); MAX_FD limits nothing, since `userCount` goes
down when a connection closes and never up; and writing to a connection that was reset ends the process
(`pc = "killed"`, `Dies`).

## 4. Fairness

`FairSpec` of `SocketServer` and `Receive` adds weak fairness of the server's steps as a whole and nothing else. The server is
one thread that the operating system schedules while it can run, and `epoll_wait` returns after
10 ms even without events; which event it takes first is left open, and no fairness is needed for
single actions because a batch is finite and shrinks. Clients are under no obligation: they may
stop at any time, and every liveness property allows for it. A thread asleep in `read()` has
no enabled step, so fairness does not wake it up.

`FairSpec` of `ThreadPool` has weak fairness of every worker, of a pending `notify_one` of every
caller and of the destructor's `notify_all`: threads are scheduled and tasks end. Nobody has to
add a task or to destroy the pool. A mutex is not fair; none is needed, because with finitely
many tasks and spurious wakeups every thread in the way ends up waiting.

`FairSpec` of `Lifecycle` has weak fairness of `Runs`, the steps the processor takes by itself:
what is left of the constructor, of a log call, of a script, of the destructor and of exit. Neither clients nor
processes of a script nor whoever sends SIGINT is obliged to anything; in particular
`ReadReturns` is not fair, so `ShutdownEnds` holds while a client keeps `read()` asleep. A
`Lock` of the mutex the handler has interrupted is never enabled, and no fairness helps
it: the property excludes that one case by name.

## 5. Proofs

All theorems hold for every value of the constants that satisfies the named assumptions; TLAPS
checks them to the last leaf. The assumptions on the buffer are `m_size > 1` (the comment in
CBuffer.h) and a `uint32_t` wider than twice the array.

**The buffer** (`CBufferProofs`, on the lemmas of `CBufferLemmas`).

* `TypeCorrect`: `TypeOK` is inductive by itself once `append`, `pop` and `appendByte` are
  known to return a `Buffer`; the lemmas derive that from the index arithmetic, wrap by wrap.
* `BytesKept`: `AcceptedBytesKept` for every array size, assuming chunks shorter than the array
  and no `appendByte` (this is how `writeBuff_` is used). The property is not inductive: a buffer
  of length `m_size` accepts any append. `KeptInv` adds that such a length only arises by a
  relapse, when nothing is queued.
* `AccessesInBounds`, `NothingUninitialisedRead`: for every use, chunks of the array's length
  included, and owners that use both `append` and `appendByte`. The first follows from the index bounds and `ComesBack`: only
  an append leaves the write index behind the array. The second needs `Written`: every position
  below the write index, or all of them while the indices are out of order, has been stored to.
* `BufferIsByteQueue`: under the hypotheses of `BytesKept` the buffer implements `ByteQueue`. `QueueInv` adds to
  `KeptInv` that what is readable is `Stale` old bytes and then exactly `queued`, and that there are old bytes only
  after a relapse. Each call is then shown to be a step of the queue or a stutter.

**The server** (`SocketServerProofs`). The inductive invariant is
`Inv == TypeOK /\ Rearmed /\ BatchFresh /\ Current /\ ReadBuffersWritten /\ Writing`.
`Rearmed` and `BatchFresh` are not inductive alone: `Current` says that the descriptor being
read or processed has an owner and no event left in the batch (so that re-arming it or closing it
concerns the right connection), `Writing` that
what write_ still has to pop is at most what `writeBuff_` holds, and
`ReadBuffersWritten` that what `peek` takes from a `readBuff_` are frames, without which `Process`
would not be typed. `ServerTyped`, `AlwaysRearmed` and `EventsFresh` follow for every set of
clients and descriptors.

`RepliesWritten` adds `Replies`: outside DealWrite_ every `writeBuff_` is drained or waits to be
written, and inside it everything is drained but the descriptors in `todo` and the one in hand,
whose `sum` is all or nothing of its length. It assumes `FRAME_MAX_LEN = m_size`; both are 256 in
the code (Frame.h:10, CBuffer.h:15), and a round then empties the buffer.

`NeverTwice` is `ExecutedInOrderOnce` for every number of clients, descriptors
and requests and every size of the buffers. A request moves from its client's `inq` to a `readBuff_`
and from there to `executed`, or is lost on the way. `OrderInv` says that what is further on is older
(`ExecOrder`, `QueueOrder`, `BufferOrder`), and that a client's requests are in one `readBuff_` only
(`Homes`): a descriptor keeps its buffer when it changes its owner, so the buffer may hold requests of
several clients, but each client has had one descriptor (`Places`). A relapsed buffer shows executed requests
again. `Unread` does not count them, and `ToRead` is why the code never takes one: an
event without a hang-up comes with data, so `process` is reached only after something was
appended, which in a relapsed buffer replaces everything. The lemmas say what `append` and `pop` do to
the readable sequence; `OrdersRead` and `OrdersProcess` carry the order through the two steps
that move requests.

`AnswersStayHome` is `AnswersFromHome`, without a hypothesis. `HomeInv` follows the place of a request and of its
reply: every descriptor's owner has it as its home (`Placed`), and what is in a descriptor's `readBuff_` or `writeBuff_`,
or was received from it, comes from clients of that home (`RequestsHome`, `RepliesHome`, `ReceivedHome`), and replies only from
requests that were executed. Relapses, refused chunks and handed-down buffers change nothing in that.

`AnswersOwn` and `ClientsIsolated` are `AnswersExact` and `Isolation` for clients that wait for each answer
(`~ Pipelining`) and rounds as long as the buffer (`FRAME_MAX_LEN = m_size`), for every number of clients,
descriptors and requests, every kind of request, resets and relapses included. `ServerLockstep` satisfies
these hypotheses. They are needed: a client that sends ahead may have a chunk refused, and then the next
answer it gets is not to its next request. `TurnInv` says that a client whose descriptor has not relapsed has
at most one request under way, in one place at most: its `inq` (`InQueue`), the `readBuff_` in hand (`InHand`)
or, answered, the `writeBuff_` of its own descriptor (`InAnswer`). A `readBuff_` of a descriptor without a relapse is
otherwise empty or looks full of executed requests, and then the next read replaces what is in it; that is why handing out a
descriptor with its uncleared buffers does no harm there. The clients of relapsed descriptors are
`spoilt`, and nothing is said of their turns. What the proof has to show is that they stay among
themselves: `Unnoticed`, `Unmoved` and `TurnsElsewhere` are the lemmas that a step on one descriptor leaves the turns of the
others as they are, and `NextTurns` puts the steps together.

`ServesRequests` is the refinement under the same hypotheses: the server implements `RequestService`, where a request
is asked, executed and answered in one step each. `Service` maps `asked` to `nsent`, `executed` to itself, `replies` to `replied`,
the clients and numbers on the replies received, and `spoilt` to the clients of relapsed descriptors. `Send` is `Ask`, a `Process` that takes a frame is
`Execute`, a round of write_ that hands an answer over is `Answer`, and every other step is a stutter or a `Spoil`, which is all
that the service allows the spoilt. `Served` is what `TurnInv`
does not say: the requests of a client are executed one by one, none of them left out, and an answer
waiting in a `writeBuff_` is to the last one executed.

**The thread pool** (`ThreadPoolProofs`). `TypedInv` is `TypeOK`, that a running worker has a task, and
`SleepsRightly`: a worker that has decided to wait still sees an empty, open queue, since it holds
the mutex. `TasksNotSleptOver` adds the count of `NoTaskSleptOver`: taking a task takes one awake
worker away, a notification turns into an awake worker, and a worker starts to wait only over
an empty queue. `TasksOnce` follows a task from the queue to its worker to `ran`. All three hold
for every finite set of workers and callers and every number of tasks.

**Buffer** (`BufferProofs`). The lemmas say of each helper what becomes readable (`Adds`, `Same`):
growing and moving change nothing that can be read, writing adds at the end, whatever was there. With them
every action is one of five kinds of step, each shown to keep `Inv == TypeOK /\ GrowthBounded` and to be a step of
`GrowingQueue` or a stutter. `GrowthBounded` is inductive together with
`TypeOK`, because `MakeSpace_` grows only when the free space at both ends together is too
small. `BufferRefines` is the refinement, for every size and every set of bytes.

**The log and the commands** (`CommandsProofs`). `FiledByDay` is about the last message written; to keep
it, one needs to know for the open file which messages it is still open for. `FileOpen` bounds
the rotation time by two days behind the file's, by one unless it was opened late, and keeps
the file from being ahead of the clock and of the message in hand unless the clock was set back. `FileClosed`
says that after a failed open every message rotates. `MessageRecent` bounds the time
between stamp and writing. `StepsInv` enumerates what can be left of a request (`Todos`) and what its earlier
steps have left behind, from which `StoppedUnsaved` follows. Day arithmetic
(`DayIs`, `DayBefore`, `MidnightOfDay`) is proved for every length of day. For `CapacityIsBetween` the percentage,
a rounded quotient of two numbers that both change and are both cut off to megabytes, is shown to be monotone in each
(`PercentMonotone`, from `QuotientIs`, and `MoreFreeLessUsed`); `LooksInv` keeps what the first look saw until the second.

**The receive path** (`ReceiveProofs`). `ReceiveTyped` needs of the buffer only that a read fits into it. The other
two theorems need `Fitting` (what a client lets be under way fits, reads are as long as the
buffer, and they cut the stream between messages or behind the length field of a frame, where init can tell)
and `Recognisable` (a damaged frame shows its damage in its own bytes). `ReceiveLockstep` satisfies both. They are not
for convenience: a cut inside the length field loses a frame (`ReceiveSplit`), and a length field damaged to a
larger number makes init wait for bytes nobody sends. `LiveInv` looks at the stream `Live`: what is readable and
then what is under way, or only the latter while the buffer has relapsed. In it the bytes of a message lie together
and in order (`Stream`), a frame not executed is in it and is the last message (`Kept`), and what
was executed is older than all of it (`Done`). The heart are `GoodStops` and `BadPasses`: getFrameFromBuffer stops
exactly where a frame begins, whatever noise and damaged frames lie before it. `NoFrameLost`
and `ExecutedOnceInOrder` follow for every set of messages and every number of them.

**The process** (`LifecycleProofs`). `Main` and `InHandler` tie the place in the list of steps to what
exists: the server once the constructor is over, the logger from its first use until exit,
the listening socket unless the start failed, and in the handler all that its remaining steps will use. `DeletedOnce`,
`NothingGoneUsed` and the types are kept by it for every list of sinks.

Out of the prover's reach, and left to TLC: liveness under fairness, `ENABLED`, and what a
recursive definition computes (induction over data).

Model-checked only: everything under fairness (`RequestAnswered`, `Accepted`, `EverythingRead` and
`PeerCloseReaped` of the server, `FrameExecuted` of `Receive`, `TaskRuns` and `WorkersEnd` of the pool,
`FailedStartEnds` and `ShutdownEnds` of the process). Every invariant and every action property a passing run checks is also a theorem.

## 6. Plan

1. *(done)* CBuffer, its specification and theorems; SocketServer with Epoller, appManager and
   the connection side of AppConn.
2. *(done)* `Receive`: the receive path byte by byte.
3. *(done)* `ThreadPool` with its theorems.
4. *(done)* `Buffer` with its theorems and its refinement of `GrowingQueue`.
5. *(done)* `DailyLog` and `Commands`: what the requests do to the clock, the disk, the scripts and the
   log, with theorems.
6. *(done)* `Lifecycle`: construction, SIGINT, exit and restart, with theorems.
7. *(done)* `RequestService` (each client's requests are executed and answered once at most, in order), which the
   server in lockstep implements: checked and proved.
8. *(done)* Proofs: `AnswersExact` and `Isolation` of the server; the refinement of `ByteQueue`;
   `FramesKept` and `ExecutedOnce` of `Receive`; `CapacityBetween` of the commands.

Not modelled and why:

* `MonitorVedio` and `BatDevice` are not part of the program: nothing includes or constructs them.
  They would need a recorder's and a battery's behaviour that the repository does not have.
* `StorageRecord` but for getStorageMB: nothing calls it, and it cannot work as it stands. The
  configuration is opened for reading and then written, the comparison of
  `getIndex` is the wrong way round, and the fourth line overwrites the `LINES_FAIL` of the first.
* `Frame::make` and `ack` format a reply; that their length field follows another rule than
  init's is in PROJECT.json. `AppConn::warn` has no caller.
* Of spdlog everything but the daily file sink, the file helper, the logger's error path and the
  sinks' mutexes: formatting has no state the properties speak of, and
  asynchronous logging, the registry and the other sinks are not used. It is by far the largest part of the
  repository's lines.
* Socket set-up errors are one outcome ("error" of `InitSocket_`); the formatting of replies
  changes no state the properties speak of; the three-process branch of process/main.cpp is compiled
  out (`#if 1`).
* Short and blocking writes, a descriptor shortage that leaves connections waiting, and
  damaged length fields that block a connection: see the notes of those hazards in PROJECT.json.
