----------------------------- MODULE Lifecycle -----------------------------
(***************************************************************************)
(* The life of the process: start (code/SocketServerProcess.cpp, the       *)
(* constructor of SocketServer, InitSocket_), the loop as far as it can be *)
(* interrupted, and the end by SIGINT, whose handler runs between any two  *)
(* instructions of the one thread, deletes the server and never returns.   *)
(*                                                                         *)
(* A call of the logger locks and unlocks a mutex for each sink, for       *)
(* writing and again for flushing.  The mutexes are not recursive: a       *)
(* handler that has interrupted a call holding one waits for it for ever.  *)
(*                                                                         *)
(* What the scripts start inherits the listening socket, which is not      *)
(* closed on exec, and keeps it when the server is gone.                   *)
(***************************************************************************)
EXTENDS Naturals, Sequences

CONSTANT Sinks  \* the logger's sinks in order, each with its mutex
ASSUME SinksAssumption == /\ Sinks \in Seq(STRING) /\ Len(Sinks) > 0
                          /\ \A i \in 1 .. Len(Sinks) : Sinks[i] # "none"

VARIABLES
  todo,         \* the steps left of what the thread is doing
  section,      \* how many critical sections of the log call in hand are over
  locked,       \* the log call holds the mutex of its section
  handling,     \* the handler runs
  interrupted,  \* the mutex the interrupted call holds, or "none"
  server,       \* the pointer: "null", "built", "deleted"
  isClose_,
  listenFd_,    \* "open" or "closed"
  connected,    \* some connection is open
  logger,       \* "none", "alive", "destroyed"
  asked,        \* the handler was entered
  bound,        \* what became of InitSocket_: "none", "ok", "inuse", "error"
  misused,      \* history: what was used when it did not exist any more
  alive,        \* the process exists
  recorder      \* processes that a script started exist

log == <<section, locked>>
objects == <<server, isClose_, listenFd_, connected, logger, bound, misused>>
signals == <<handling, interrupted, asked>>
vars == <<todo, log, objects, signals, recorder, alive>>

Init == /\ alive = FALSE /\ todo = <<>> /\ section = 0 /\ locked = FALSE
        /\ handling = FALSE /\ interrupted = "none" /\ asked = FALSE
        /\ server = "null" /\ isClose_ = FALSE /\ listenFd_ = "closed" /\ connected = FALSE
        /\ logger = "none" /\ bound = "none" /\ misused = {}
        /\ recorder = FALSE

\* main, also after an earlier process has ended.
SocketServerProcess ==
  /\ ~ alive /\ alive' = TRUE
  /\ todo' = <<"build", "socket", "log", "assign">>
  /\ section' = 0 /\ locked' = FALSE
  /\ handling' = FALSE /\ interrupted' = "none" /\ asked' = FALSE
  /\ server' = "null" /\ isClose_' = FALSE /\ listenFd_' = "closed" /\ connected' = FALSE
  /\ logger' = "none" /\ bound' = "none" /\ misused' = {}
  /\ UNCHANGED recorder

At(s) == alive /\ todo # <<>> /\ Head(todo) = s

\* The Epoller and the appManager, whose constructor is the first to ask for
\* the logger.
Build == /\ At("build") /\ logger' = "alive" /\ todo' = Tail(todo)
         /\ UNCHANGED <<log, server, isClose_, listenFd_, connected, bound, misused, signals,
                        recorder, alive>>

\* No descriptor for epoll, or a log file that cannot be opened: an assertion
\* or an exception nobody catches.
BuildFails == At("build") /\ alive' = FALSE
              /\ UNCHANGED <<todo, log, objects, signals, recorder>>

\* With SO_REUSEADDR only a socket that listens is in the way of bind, not what
\* old connections leave behind.
InUse == recorder

\* Mutant: the constructor ignores what InitSocket_ returns.
NotToStart_Ignored(result) == FALSE

NotToStart(result) == result # "ok"

\* InitSocket_ closes the socket of a failed start.
InitSocket_ ==
  /\ At("socket")
  /\ bound' \in IF InUse THEN {"inuse", "error"} ELSE {"ok", "error"}
  /\ isClose_' = NotToStart(bound')
  /\ listenFd_' = IF bound' = "ok" THEN "open" ELSE "closed"
  /\ todo' = Tail(todo)
  /\ UNCHANGED <<log, server, connected, logger, misused, signals, recorder, alive>>

\* The constructor returns and Start logs that it starts.
Assign == /\ At("assign") /\ server' = "built"
          /\ todo' = IF isClose_ THEN <<>> ELSE <<"log">>
          /\ UNCHANGED <<log, isClose_, listenFd_, connected, logger, bound, misused, signals,
                         recorder, alive>>

Goes(steps) == /\ alive /\ ~ handling /\ todo = <<>> /\ todo' = steps
               /\ UNCHANGED <<log, signals, recorder, alive>>

\* What a round of the loop may do that can be interrupted.
AddClient_ == /\ ~ isClose_ /\ Goes(<<"log">>) /\ connected' = TRUE
              /\ UNCHANGED <<server, isClose_, listenFd_, logger, bound, misused>>

CloseConn_ == /\ ~ isClose_ /\ Goes(<<"log">>) /\ connected /\ connected' = FALSE
              /\ UNCHANGED <<server, isClose_, listenFd_, logger, bound, misused>>

DealRead_ == /\ ~ isClose_ /\ connected
             /\ \E s \in {"read", "run.sh", "kill.sh"} : Goes(<<s, "log">>)
             /\ UNCHANGED objects

\* Start returns after a failed start, main returns, and exit destroys what is
\* static.
Return == isClose_ /\ Goes(<<"exit", "end">>) /\ UNCHANGED objects

\* read() on a blocking socket; the client has sent something.
ReadReturns == /\ At("read") /\ todo' = Tail(todo)
               /\ UNCHANGED <<log, objects, signals, recorder, alive>>

\* system("run.sh"), system("kill.sh").
Script == /\ \E s \in {"run.sh", "kill.sh"} : At(s) /\ recorder' = (s = "run.sh")
          /\ todo' = Tail(todo)
          /\ UNCHANGED <<log, objects, signals, alive>>
-----------------------------------------------------------------------------
(* A call of the logger, in the loop or in the handler.                     *)

Mutex == Sinks[(section % Len(Sinks)) + 1]

Lock == /\ At("log") /\ ~ locked /\ Mutex # interrupted
        /\ locked' = TRUE
        /\ misused' = IF logger = "alive" THEN misused ELSE misused \cup {"logger"}
        /\ UNCHANGED <<todo, section, server, isClose_, listenFd_, connected, logger, bound,
                       signals, recorder, alive>>

\* Mutant: the loops over the sinks do not end.
NextSection_Unwrapped == section + 1

NextSection == (section + 1) % (2 * Len(Sinks))

\* Every sink writes, then every sink flushes.
Unlock == /\ At("log") /\ locked
          /\ locked' = FALSE
          /\ section' = NextSection
          /\ todo' = IF section' = 0 THEN Tail(todo) ELSE todo
          /\ UNCHANGED <<objects, signals, recorder, alive>>
-----------------------------------------------------------------------------
(* SIGINT.                                                                 *)

\* Mutant: SIGINT is not blocked while its handler runs.
MayInterrupt_Nested == alive /\ ~ (At("run.sh") \/ At("kill.sh"))

\* signal() blocks SIGINT while the handler runs, and it never returns.
\* system() ignores it while a script runs.
MayInterrupt == alive /\ ~ handling /\ ~ (At("run.sh") \/ At("kill.sh"))

\* Mutant: the server is destroyed by exit, after the logger.
Shutdown_Static == <<"exit", "log", "close", "log", "delete", "log", "end">>

\* ~SocketServer, then exit.
Shutdown == <<"log", "close", "log", "delete", "log", "exit", "end">>

\* Mutant: the handler only tells the loop to stop; what it has interrupted
\* goes on.
Handler_SetsFlag ==
  /\ MayInterrupt /\ asked' = TRUE /\ isClose_' = TRUE
  /\ UNCHANGED <<todo, log, handling, interrupted, server, listenFd_, connected, logger, bound,
                 misused, recorder, alive>>

\* serverCtrlHandler, at any instruction.
Handler ==
  /\ MayInterrupt
  /\ handling' = TRUE /\ asked' = TRUE
  /\ interrupted' = IF locked THEN Mutex ELSE "none"
  /\ section' = 0 /\ locked' = FALSE
  /\ todo' = IF server = "null" THEN <<"exit", "end">> ELSE Shutdown
  /\ server' = IF server = "null" THEN "null" ELSE "deleted"
  /\ misused' = IF server = "deleted" THEN misused \cup {"server"} ELSE misused
  /\ UNCHANGED <<isClose_, listenFd_, connected, logger, bound, recorder, alive>>

\* The descriptor's number may be somebody else's after a failed start.
CloseListen ==
  /\ At("close") /\ todo' = Tail(todo) /\ listenFd_' = "closed"
  /\ misused' = IF listenFd_ = "open" THEN misused ELSE misused \cup {"listenFd_"}
  /\ UNCHANGED <<log, server, isClose_, connected, logger, bound, signals, recorder, alive>>

DeleteManager ==
  /\ At("delete") /\ todo' = Tail(todo) /\ connected' = FALSE /\ isClose_' = TRUE
  /\ UNCHANGED <<log, server, listenFd_, logger, bound, misused, signals, recorder, alive>>

\* exit destroys the LogManager.
Exit == /\ At("exit") /\ todo' = Tail(todo)
        /\ logger' = IF logger = "alive" THEN "destroyed" ELSE logger
        /\ UNCHANGED <<log, server, isClose_, listenFd_, connected, bound, misused, signals,
                       recorder, alive>>

End == /\ At("end") /\ alive' = FALSE /\ connected' = FALSE /\ listenFd_' = "closed"
       /\ UNCHANGED <<todo, log, server, isClose_, logger, bound, misused, signals, recorder>>

\* SIGPIPE or an exception in a handler: nothing is destroyed.
Dies == /\ alive /\ ~ handling /\ todo = <<>> /\ connected
        /\ alive' = FALSE /\ connected' = FALSE /\ listenFd_' = "closed"
        /\ UNCHANGED <<todo, log, server, isClose_, logger, bound, misused, signals, recorder>>

\* The processes of the scripts end by themselves.
RecorderEnds == /\ recorder /\ recorder' = FALSE
                /\ UNCHANGED <<todo, log, objects, signals, alive>>

\* What the processor does, as opposed to what others may do.
Runs == \/ Build \/ InitSocket_ \/ Assign \/ Return \/ Script
        \/ Lock \/ Unlock \/ CloseListen \/ DeleteManager \/ Exit \/ End

Next == \/ SocketServerProcess \/ BuildFails \/ Runs
        \/ AddClient_ \/ CloseConn_ \/ DealRead_ \/ ReadReturns
        \/ Dies \/ Handler \/ RecorderEnds

Spec == Init /\ [][Next]_vars
FairSpec == Spec /\ WF_vars(Runs)
-----------------------------------------------------------------------------
TypeOK == /\ todo \in Seq({"build", "socket", "log", "assign", "read", "run.sh", "kill.sh",
                           "close", "delete", "exit", "end"})
          /\ section \in 0 .. 2 * Len(Sinks) - 1
          /\ locked \in BOOLEAN /\ handling \in BOOLEAN
          /\ interrupted \in {Sinks[i] : i \in 1 .. Len(Sinks)} \cup {"none"}
          /\ server \in {"null", "built", "deleted"}
          /\ isClose_ \in BOOLEAN /\ listenFd_ \in {"open", "closed"} /\ connected \in BOOLEAN
          /\ logger \in {"none", "alive", "destroyed"}
          /\ asked \in BOOLEAN /\ bound \in {"none", "ok", "inuse", "error"}
          /\ misused \subseteq {"logger", "listenFd_", "server"}
          /\ alive \in BOOLEAN /\ recorder \in BOOLEAN

\* However often and whenever SIGINT comes, the server is deleted once.
DeletedOnce == "server" \notin misused

\* The handler, the destructor and exit between them use nothing that is gone.
\* The one exception is a SIGINT that comes while a process that could not
\* listen is about to end by itself: the handler then logs to a destroyed
\* logger and closes the listening socket's number once more.
NothingGoneUsed == misused # {} => bound \in {"inuse", "error"}

\* A process that could not listen (its port may be held by what run.sh started
\* under the process before) ends by itself, so that another may be started: it
\* does not stay in its loop without a socket.
FailedStartEnds == (alive /\ bound \in {"inuse", "error"}) ~> (~ alive \/ asked)

\* A SIGINT that is not ignored ends the process, also while read() sleeps,
\* unless it has interrupted a sink that was holding its mutex.
ShutdownEnds == (alive /\ asked /\ interrupted = "none") ~> ~ alive
=============================================================================
