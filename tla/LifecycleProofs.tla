-------------------------- MODULE LifecycleProofs --------------------------
(***************************************************************************)
(* Theorems about the life of the process, for any number of sinks.        *)
(***************************************************************************)
EXTENDS Lifecycle, TLAPS

Build0 == <<"build", "socket", "log", "assign">>
Build1 == <<"socket", "log", "assign">>
Build2 == <<"log", "assign">>
Build3 == <<"assign">>
End0   == <<"exit", "end">>
End1   == <<"end">>
Shut0  == <<"log", "close", "log", "delete", "log", "exit", "end">>
Shut1  == <<"close", "log", "delete", "log", "exit", "end">>
Shut2  == <<"log", "delete", "log", "exit", "end">>
Shut3  == <<"delete", "log", "exit", "end">>
Shut4  == <<"log", "exit", "end">>
Round  == {<<>>, <<"log">>, <<"read", "log">>, <<"run.sh", "log">>, <<"kill.sh", "log">>}

\* What the thread may have left to do, in and out of the handler.
Starting == {Build0, Build1, Build2, Build3}
Flow     == Starting \cup Round \cup {End0, End1}
Handling == {Shut0, Shut1, Shut2, Shut3, Shut4, End0, End1}

Failed == bound \in {"inuse", "error"}

\* Outside the handler: the server exists once the constructor is over, the
\* logger once it was asked for, the listening socket unless the start failed.
Main == ~ handling =>
          /\ todo \in Flow
          /\ server = (IF todo \in Starting THEN "null" ELSE "built")
          /\ bound = "none" <=> todo \in {Build0, Build1}
          /\ isClose_ => Failed
          /\ bound = "ok" => listenFd_ = "open"
          /\ todo \notin {Build0, End1} => logger = "alive"
          /\ todo \in {End0, End1} => Failed

\* In the handler, after a start that succeeded: what is still to be used is
\* there.
InHandler == handling =>
               /\ todo \in Handling
               /\ ~ Failed /\ todo \notin {End0, End1} => logger = "alive"
               /\ ~ Failed /\ todo \in {Shut0, Shut1} => listenFd_ = "open"

\* The types but that of todo.
Typed == /\ section \in 0 .. 2 * Len(Sinks) - 1
         /\ locked \in BOOLEAN /\ handling \in BOOLEAN
         /\ interrupted \in {Sinks[i] : i \in 1 .. Len(Sinks)} \cup {"none"}
         /\ server \in {"null", "built", "deleted"}
         /\ isClose_ \in BOOLEAN /\ listenFd_ \in {"open", "closed"} /\ connected \in BOOLEAN
         /\ logger \in {"none", "alive", "destroyed"}
         /\ asked \in BOOLEAN /\ bound \in {"none", "ok", "inuse", "error"}
         /\ misused \subseteq {"logger", "listenFd_", "server"}
         /\ alive \in BOOLEAN /\ recorder \in BOOLEAN

Inv == /\ Typed /\ todo \in Flow \cup Handling
       /\ alive => Main /\ InHandler
       /\ DeletedOnce /\ NothingGoneUsed

LEMMA TodoTyped ==
  Flow \cup Handling \subseteq
    Seq({"build", "socket", "log", "assign", "read", "run.sh", "kill.sh",
         "close", "delete", "exit", "end"})
BY DEF Flow, Handling, Starting, Round, Build0, Build1, Build2, Build3, End0, End1,
       Shut0, Shut1, Shut2, Shut3, Shut4

LEMMA SinksTyped ==
  /\ Len(Sinks) \in Nat \ {0}
  /\ \A n \in Nat : Sinks[(n % Len(Sinks)) + 1] \in {Sinks[i] : i \in 1 .. Len(Sinks)}
<1>1. Len(Sinks) \in Nat \ {0}
  BY SinksAssumption
<1>2. ASSUME NEW n \in Nat PROVE (n % Len(Sinks)) + 1 \in 1 .. Len(Sinks)
  BY <1>1
<1> QED
  BY <1>1, <1>2

\* What each step leaves.
LEMMA Tails ==
  /\ Tail(Build0) = Build1 /\ Tail(Build1) = Build2 /\ Tail(Build2) = Build3
  /\ Tail(End0) = End1
  /\ Tail(Shut0) = Shut1 /\ Tail(Shut1) = Shut2 /\ Tail(Shut2) = Shut3 /\ Tail(Shut3) = Shut4
  /\ Tail(Shut4) = End0
  /\ Tail(<<"log">>) = <<>> /\ Tail(<<"read", "log">>) = <<"log">>
  /\ Tail(<<"run.sh", "log">>) = <<"log">> /\ Tail(<<"kill.sh", "log">>) = <<"log">>
<1>1. Tail(Build0) = Build1 /\ Tail(Build1) = Build2 /\ Tail(Build2) = Build3
  BY DEF Build0, Build1, Build2, Build3
<1>2. Tail(End0) = End1
  BY DEF End0, End1
<1>3. Tail(Shut0) = Shut1
  BY DEF Shut0, Shut1
<1>4. Tail(Shut1) = Shut2
  BY DEF Shut1, Shut2
<1>5. Tail(Shut2) = Shut3
  BY DEF Shut2, Shut3
<1>6. Tail(Shut3) = Shut4
  BY DEF Shut3, Shut4
<1>7. Tail(Shut4) = End0
  BY DEF Shut4, End0
<1>8. /\ Tail(<<"log">>) = <<>> /\ Tail(<<"read", "log">>) = <<"log">>
      /\ Tail(<<"run.sh", "log">>) = <<"log">> /\ Tail(<<"kill.sh", "log">>) = <<"log">>
  OBVIOUS
<1> QED
  BY <1>1, <1>2, <1>3, <1>4, <1>5, <1>6, <1>7, <1>8

\* The lists of steps differ.
LEMMA Distinct ==
  /\ \A t \in Round \cup {End0, End1} : t \notin Starting
  /\ \A t \in Round : t \notin {End0, End1}
  /\ Build0 \notin {Build1, Build2, Build3} /\ Build1 \notin {Build2, Build3}
  /\ End0 # End1
  /\ Starting \cap {End0, End1} = {}
  /\ {Shut0, Shut1} \cap {Shut2, Shut3, Shut4} = {}
  /\ {Shut0, Shut1, Shut2, Shut3, Shut4} \cap {End0, End1} = {}
BY DEF Round, Starting, Build0, Build1, Build2, Build3, End0, End1, Shut0, Shut1, Shut2, Shut3, Shut4

\* The step in hand tells what is left.
LEMMA Heads ==
  ASSUME NEW t \in Flow \cup Handling, t # <<>>
  PROVE  /\ Head(t) = "build" => t = Build0
         /\ Head(t) = "socket" => t = Build1
         /\ Head(t) = "assign" => t = Build3
         /\ Head(t) = "close" => t = Shut1
         /\ Head(t) = "delete" => t = Shut3
         /\ Head(t) = "exit" => t \in {End0}
         /\ Head(t) = "end" => t = End1
         /\ Head(t) = "read" => t = <<"read", "log">>
         /\ Head(t) = "run.sh" => t = <<"run.sh", "log">>
         /\ Head(t) = "kill.sh" => t = <<"kill.sh", "log">>
         /\ Head(t) = "log" => t \in {Build2, <<"log">>, Shut0, Shut2, Shut4}
<1> USE DEF Flow, Handling, Starting, Round
<1>1. /\ Head(t) = "build" => t = Build0
      /\ Head(t) = "socket" => t = Build1
      /\ Head(t) = "assign" => t = Build3
  BY DEF Build0, Build1, Build2, Build3, End0, End1, Shut0, Shut1, Shut2, Shut3, Shut4
<1>2. /\ Head(t) = "close" => t = Shut1
      /\ Head(t) = "delete" => t = Shut3
      /\ Head(t) = "exit" => t \in {End0}
      /\ Head(t) = "end" => t = End1
  BY DEF Build0, Build1, Build2, Build3, End0, End1, Shut0, Shut1, Shut2, Shut3, Shut4
<1>3. /\ Head(t) = "read" => t = <<"read", "log">>
      /\ Head(t) = "run.sh" => t = <<"run.sh", "log">>
      /\ Head(t) = "kill.sh" => t = <<"kill.sh", "log">>
  BY DEF Build0, Build1, Build2, Build3, End0, End1, Shut0, Shut1, Shut2, Shut3, Shut4
<1>4. Head(t) = "log" => t \in {Build2, <<"log">>, Shut0, Shut2, Shut4}
  BY DEF Build0, Build1, Build2, Build3, End0, End1, Shut0, Shut1, Shut2, Shut3, Shut4
<1> QED
  BY <1>1, <1>2, <1>3, <1>4

\* Where the loop logs, and where the handler does.
LEMMA LogPlaces ==
  ASSUME NEW t \in {Build2, <<"log">>, Shut0, Shut2, Shut4}
  PROVE  /\ t \in Flow => t \in {Build2, <<"log">>}
         /\ t \in Handling => t \in {Shut0, Shut2, Shut4}
BY SMTT(30) DEF Flow, Handling, Starting, Round, Build0, Build1, Build2, Build3, End0, End1,
       Shut0, Shut1, Shut2, Shut3, Shut4

-----------------------------------------------------------------------------
(* Each step preserves the invariant.                                       *)

LEMMA InitInv == Init => Inv
<1> SUFFICES ASSUME Init PROVE Inv
  OBVIOUS
<1>1. 0 \in 0 .. 2 * Len(Sinks) - 1
  BY SinksTyped
<1>2. Typed
  BY <1>1 DEF Init, Typed
<1> QED
  BY <1>2 DEF Init, Inv, Flow, Round, DeletedOnce, NothingGoneUsed

LEMMA ProcessInv ==
  ASSUME Inv, SocketServerProcess
  PROVE  Inv'
<1>1. todo' = Build0 /\ alive' /\ ~ handling'
  BY DEF SocketServerProcess, Build0
<1>2. 0 \in 0 .. 2 * Len(Sinks) - 1
  BY SinksTyped
<1>3. Typed'
  BY <1>2 DEF Inv, SocketServerProcess, Typed
<1>4. Main'
  BY <1>1, Distinct DEF SocketServerProcess, Main, Flow, Starting
<1>5. InHandler' /\ DeletedOnce' /\ NothingGoneUsed'
  BY <1>1 DEF SocketServerProcess, InHandler, DeletedOnce, NothingGoneUsed
<1> QED
  BY <1>1, <1>3, <1>4, <1>5 DEF Inv, Flow, Starting

\* The process has ended.
LEMMA EndInv ==
  ASSUME Inv, ~ alive', Typed', UNCHANGED <<todo, bound, misused>>
  PROVE  Inv'
BY DEF Inv, DeletedOnce, NothingGoneUsed

LEMMA StartInv ==
  ASSUME Inv, Build \/ InitSocket_ \/ Assign
  PROVE  Inv'
<1> USE DEF Inv, Typed
<1>1. CASE Build
  <2>1. todo = Build0 /\ todo' = Build1 /\ alive
    BY <1>1, Heads, Tails DEF Build, At
  <2>2. ~ handling
    BY <2>1, Distinct DEF InHandler, Handling, Starting, Build0, Shut0, Shut1, Shut2, Shut3, Shut4, End0, End1
  <2>3. Main'
    BY <1>1, <2>1, <2>2, Distinct DEF Build, Main, Flow, Starting, signals, Failed
  <2> QED
    BY <1>1, <2>1, <2>2, <2>3 DEF Build, InHandler, Flow, Starting, signals, log,
       DeletedOnce, NothingGoneUsed
<1>2. CASE InitSocket_
  <2>1. todo = Build1 /\ todo' = Build2 /\ alive
    BY <1>2, Heads, Tails DEF InitSocket_, At
  <2>2. ~ handling
    BY <2>1 DEF InHandler, Handling, Build1, Shut0, Shut1, Shut2, Shut3, Shut4, End0, End1
  <2>3. bound' \in {"ok", "inuse", "error"} /\ (isClose_' => bound' \in {"inuse", "error"})
        /\ (bound' = "ok" => listenFd_' = "open") /\ isClose_' \in BOOLEAN
        /\ listenFd_' \in {"open", "closed"}
    BY <1>2 DEF InitSocket_, NotToStart
  <2>4. misused = {}
    BY <2>1, <2>2, Distinct DEF Main, NothingGoneUsed, Starting, Failed
  <2>5. Main'
    BY <1>2, <2>1, <2>2, <2>3, Distinct DEF InitSocket_, Main, Flow, Starting, signals, Failed
  <2> QED
    BY <1>2, <2>1, <2>2, <2>3, <2>4, <2>5 DEF InitSocket_, InHandler, Flow, Starting, signals,
       log, DeletedOnce, NothingGoneUsed
<1>3. CASE Assign
  <2>1. todo = Build3 /\ alive
    BY <1>3, Heads DEF Assign, At
  <2>2. ~ handling
    BY <2>1 DEF InHandler, Handling, Build3, Shut0, Shut1, Shut2, Shut3, Shut4, End0, End1
  <2>3. todo' \in Round /\ server' = "built"
    BY <1>3 DEF Assign, Round
  <2>4. Main'
    BY <1>3, <2>1, <2>2, <2>3, Distinct DEF Assign, Main, Flow, Starting, signals, Failed
  <2> QED
    BY <1>3, <2>1, <2>2, <2>3, <2>4 DEF Assign, InHandler, Flow, signals, log,
       DeletedOnce, NothingGoneUsed
<1> QED
  BY <1>1, <1>2, <1>3

\* A round of the loop begins, or main returns.
LEMMA RoundInv ==
  ASSUME Inv, AddClient_ \/ CloseConn_ \/ DealRead_ \/ Return
  PROVE  Inv'
<1> USE DEF Inv, Typed
<1>1. alive /\ ~ handling /\ todo = <<>> /\ Main
  BY DEF AddClient_, CloseConn_, DealRead_, Return, Goes
<1>2. /\ server = "built" /\ bound # "none" /\ logger = "alive"
      /\ bound = "ok" => listenFd_ = "open"
      /\ isClose_ => Failed
  BY <1>1, Distinct DEF Main, Round, Starting
<1>3. UNCHANGED <<log, signals, recorder, alive, server, isClose_, listenFd_, logger, bound, misused>>
      /\ connected' \in BOOLEAN
  BY DEF AddClient_, CloseConn_, DealRead_, Return, Goes, objects
<1>4. Typed'
  BY <1>3 DEF log, signals
<1>5. CASE todo' \in Round
  <2>1. Main'
    BY <1>1, <1>2, <1>3, <1>5, Distinct DEF Main, Flow, Starting, signals, Failed
  <2> QED
    BY <1>1, <1>3, <1>4, <1>5, <2>1 DEF InHandler, Flow, signals, DeletedOnce, NothingGoneUsed
<1>6. CASE isClose_ /\ todo' = End0
  <2>1. Main'
    BY <1>1, <1>2, <1>3, <1>6, Distinct DEF Main, Flow, Starting, signals, Failed
  <2> QED
    BY <1>1, <1>3, <1>4, <1>6, <2>1 DEF InHandler, Flow, signals, DeletedOnce, NothingGoneUsed
<1> QED
  BY <1>5, <1>6 DEF AddClient_, CloseConn_, DealRead_, Return, Goes, Round, End0

LEMMA ReadScriptInv ==
  ASSUME Inv, ReadReturns \/ Script
  PROVE  Inv'
<1> USE DEF Inv, Typed
<1>1. /\ todo \in {<<"read", "log">>, <<"run.sh", "log">>, <<"kill.sh", "log">>}
      /\ alive /\ todo' = <<"log">>
  BY Heads, Tails, ZenonT(30) DEF ReadReturns, Script, At
<1>2. ~ handling
  BY <1>1 DEF InHandler, Handling, Shut0, Shut1, Shut2, Shut3, Shut4, End0, End1
<1>3. /\ UNCHANGED <<log, objects, signals, alive>>
      /\ recorder' \in BOOLEAN
  BY DEF ReadReturns, Script
<1>4. Typed'
  BY <1>3 DEF log, objects, signals
<1>5. todo \in Round /\ todo' \in Round
  BY <1>1 DEF Round
<1>6. Main'
  BY <1>1, <1>2, <1>3, <1>5, Distinct DEF Main, Flow, Starting, signals, objects, Failed
<1> QED
  BY <1>2, <1>3, <1>4, <1>5, <1>6 DEF InHandler, Flow, signals, objects, DeletedOnce, NothingGoneUsed

LEMMA LockInv ==
  ASSUME Inv, Lock
  PROVE  Inv'
<1> USE DEF Inv, Typed
<1>1. alive /\ todo \in {Build2, <<"log">>, Shut0, Shut2, Shut4}
  BY Heads DEF Lock, At
<1>2. Failed \/ logger = "alive"
  <2>1. CASE handling
    BY <1>1, <2>1, Distinct DEF InHandler, Handling, Build2, Shut0, Shut2, Shut4, End0, End1
  <2>2. CASE ~ handling
    BY <1>1, <2>2, Distinct DEF Main, Build0, Build2, Shut0, Shut2, Shut4, End1
  <2> QED
    BY <2>1, <2>2
<1>3. /\ UNCHANGED <<todo, section, server, isClose_, listenFd_, connected, logger, bound,
                     signals, recorder, alive>>
      /\ locked' = TRUE
      /\ misused' = IF logger = "alive" THEN misused ELSE misused \cup {"logger"}
  BY DEF Lock
<1>4. Typed'
  BY <1>3 DEF signals
<1>5. DeletedOnce' /\ NothingGoneUsed'
  BY <1>2, <1>3 DEF DeletedOnce, NothingGoneUsed, Failed
<1>6. Main' /\ InHandler'
  BY <1>1, <1>3 DEF Main, InHandler, signals, Failed
<1> QED
  BY <1>3, <1>4, <1>5, <1>6

LEMMA UnlockInv ==
  ASSUME Inv, Unlock
  PROVE  Inv'
<1> USE DEF Inv, Typed
<1>1. alive /\ todo \in {Build2, <<"log">>, Shut0, Shut2, Shut4}
  BY Heads DEF Unlock, At
<1>2. /\ UNCHANGED <<objects, signals, recorder, alive>> /\ locked' = FALSE
      /\ section' = NextSection /\ todo' \in {todo, Tail(todo)}
  BY DEF Unlock
<1>3. section' \in 0 .. 2 * Len(Sinks) - 1
  <2>1. Len(Sinks) \in Nat \ {0} /\ section \in Nat
    BY SinksTyped
  <2> QED
    BY <1>2, <2>1 DEF NextSection
<1>4. Typed'
  <2>1. UNCHANGED <<server, isClose_, listenFd_, connected, logger, bound, misused, handling,
                    interrupted, asked, recorder, alive>>
    BY <1>2 DEF objects, signals
  <2>2. locked' \in BOOLEAN
    BY <1>2
  <2> QED
    BY <1>3, <2>1, <2>2
<1>5. CASE todo' = todo
  BY <1>1, <1>2, <1>4, <1>5 DEF Main, InHandler, signals, objects, Failed, DeletedOnce, NothingGoneUsed
<1>6. CASE ~ handling /\ todo' = Tail(todo)
  <2>1. \/ todo = Build2 /\ todo' = Build3
        \/ todo = <<"log">> /\ todo' = <<>>
    BY <1>1, <1>6, Tails, LogPlaces DEF Main
  <2>2. Main'
    BY <1>1, <1>2, <1>6, <2>1, Distinct DEF Main, Flow, Starting, Round, signals, objects, Failed
  <2> QED
    BY <1>2, <1>4, <1>6, <2>2 DEF Main, InHandler, signals, objects, DeletedOnce, NothingGoneUsed
<1>7. CASE handling /\ todo' = Tail(todo)
  <2>1. \/ todo = Shut0 /\ todo' = Shut1
        \/ todo = Shut2 /\ todo' = Shut3
        \/ todo = Shut4 /\ todo' = End0
    BY <1>1, <1>7, Tails, LogPlaces DEF InHandler
  <2>2. InHandler'
    BY <1>1, <1>2, <1>7, <2>1, Distinct DEF InHandler, Handling, signals, objects, Failed
  <2> QED
    BY <1>2, <1>4, <1>7, <2>2 DEF Main, InHandler, signals, objects, DeletedOnce, NothingGoneUsed
<1> QED
  BY <1>2, <1>5, <1>6, <1>7

\* SIGINT: the handler starts with everything it is going to use in place.
LEMMA HandlerInv ==
  ASSUME Inv, Handler
  PROVE  Inv'
<1> USE DEF Inv, Typed
<1>1. /\ alive /\ ~ handling /\ Main /\ alive' /\ handling'
      /\ section' = 0 /\ locked' = FALSE /\ asked' = TRUE
      /\ interrupted' = IF locked THEN Mutex ELSE "none"
      /\ todo' = IF server = "null" THEN End0 ELSE Shut0
      /\ server' = IF server = "null" THEN "null" ELSE "deleted"
      /\ misused' = IF server = "deleted" THEN misused \cup {"server"} ELSE misused
      /\ UNCHANGED <<isClose_, listenFd_, connected, logger, bound, recorder>>
  BY DEF Handler, MayInterrupt, Shutdown, End0, Shut0
<1>2. server # "deleted"
  BY <1>1 DEF Main
<1>3. 0 \in 0 .. 2 * Len(Sinks) - 1
  BY SinksTyped
<1>4. Mutex \in {Sinks[i] : i \in 1 .. Len(Sinks)}
  <2>1. section \in Nat
    BY SinksTyped
  <2> QED
    BY <2>1, SinksTyped DEF Mutex
<1>5. Typed'
  BY <1>1, <1>2, <1>3, <1>4, ZenonT(30)
<1>6. DeletedOnce' /\ NothingGoneUsed'
  BY <1>1, <1>2 DEF DeletedOnce, NothingGoneUsed
<1>7. CASE server = "null"
  BY <1>1, <1>5, <1>6, <1>7, Distinct DEF Main, InHandler, Handling
<1>8. CASE server = "built"
  <2>1. todo \notin Starting /\ bound # "none"
    BY <1>1, <1>8 DEF Main, Starting
  <2>2. ~ Failed => logger = "alive" /\ listenFd_ = "open"
    BY <1>1, <2>1 DEF Main, Starting, Failed
  <2> QED
    BY <1>1, <1>5, <1>6, <1>8, <2>2 DEF Main, InHandler, Handling, Failed
<1> QED
  BY <1>2, <1>7, <1>8

LEMMA DestructorInv ==
  ASSUME Inv, CloseListen \/ DeleteManager
  PROVE  Inv'
<1> USE DEF Inv, Typed
<1>1. CASE CloseListen
  <2>1. todo = Shut1 /\ todo' = Shut2 /\ alive
    BY <1>1, Heads, Tails DEF CloseListen, At
  <2>2. handling
    BY <2>1 DEF Main, Flow, Starting, Round, Build0, Build1, Build2, Build3, End0, End1, Shut1
  <2>3. Failed \/ listenFd_ = "open"
    BY <2>1, <2>2 DEF InHandler
  <2>4. /\ UNCHANGED <<section, locked, server, isClose_, connected, logger, bound, handling,
                       interrupted, asked, recorder, alive>>
        /\ listenFd_' = "closed"
        /\ misused' = IF listenFd_ = "open" THEN misused ELSE misused \cup {"listenFd_"}
    BY <1>1 DEF CloseListen, log, signals
  <2>5. Typed'
    BY <2>4
  <2>6. DeletedOnce' /\ NothingGoneUsed'
    BY <2>3, <2>4 DEF DeletedOnce, NothingGoneUsed, Failed
  <2>7. InHandler'
    BY <2>1, <2>2, <2>4, Distinct DEF InHandler, Handling, Failed
  <2> QED
    BY <2>1, <2>2, <2>4, <2>5, <2>6, <2>7 DEF Main, Handling
<1>2. CASE DeleteManager
  <2>1. todo = Shut3 /\ todo' = Shut4 /\ alive
    BY <1>2, Heads, Tails DEF DeleteManager, At
  <2>2. handling
    BY <2>1 DEF Main, Flow, Starting, Round, Build0, Build1, Build2, Build3, End0, End1, Shut3
  <2>3. /\ UNCHANGED <<section, locked, server, listenFd_, logger, bound, misused, handling,
                       interrupted, asked, recorder, alive>>
        /\ isClose_' = TRUE /\ connected' = FALSE
    BY <1>2 DEF DeleteManager, log, signals
  <2>4. Typed'
    BY <2>3, ZenonT(30)
  <2>5. DeletedOnce' /\ NothingGoneUsed'
    BY <2>3 DEF DeletedOnce, NothingGoneUsed
  <2>6. InHandler'
    BY <2>1, <2>2, <2>3, Distinct DEF InHandler, Handling, Failed
  <2> QED
    BY <2>1, <2>2, <2>3, <2>4, <2>5, <2>6 DEF Main, Handling
<1> QED
  BY <1>1, <1>2

LEMMA ExitInv ==
  ASSUME Inv, Exit
  PROVE  Inv'
<1> USE DEF Inv, Typed
<1>1. todo = End0 /\ todo' = End1 /\ alive
  BY Heads, Tails DEF Exit, At
<1>2. /\ UNCHANGED <<section, locked, server, isClose_, listenFd_, connected, bound, misused,
                     handling, interrupted, asked, recorder, alive>>
      /\ logger' \in {"none", "alive", "destroyed"}
  BY DEF Exit, log, signals
<1>3. Typed'
  BY <1>2
<1>4. DeletedOnce' /\ NothingGoneUsed'
  BY <1>2 DEF DeletedOnce, NothingGoneUsed
<1>5. Main'
  BY <1>1, <1>2, Distinct DEF Main, Flow, Starting, Failed
<1>6. InHandler'
  BY <1>1, <1>2, Distinct DEF InHandler, Handling, Failed
<1> QED
  BY <1>1, <1>2, <1>3, <1>4, <1>5, <1>6 DEF Flow

LEMMA GoneInv ==
  ASSUME Inv, BuildFails \/ Dies \/ End
  PROVE  Inv'
<1> USE DEF Inv, Typed
<1>1. ~ alive' /\ UNCHANGED <<todo, section, locked, server, isClose_, logger, bound, misused,
                              handling, interrupted, asked>>
  BY DEF BuildFails, Dies, End, objects, log, signals
<1>2. /\ recorder' \in BOOLEAN /\ connected' \in BOOLEAN
      /\ listenFd_' \in {"open", "closed"} /\ alive' \in BOOLEAN
  BY DEF BuildFails, Dies, End, objects
<1>3. Typed'
  BY <1>1, <1>2
<1> QED
  BY <1>1, <1>3, EndInv

\* A step of nobody, or of what lies outside the process.
LEMMA OutsideInv ==
  ASSUME Inv, RecorderEnds \/ UNCHANGED vars
  PROVE  Inv'
<1> USE DEF Inv, Typed
<1>1. /\ UNCHANGED <<todo, section, locked, server, isClose_, listenFd_, connected, logger, bound,
                     misused, handling, interrupted, asked, alive>>
      /\ recorder' \in BOOLEAN
  BY DEF RecorderEnds, vars, log, objects, signals
<1>2. Typed'
  BY <1>1
<1> QED
  BY <1>1, <1>2 DEF Main, InHandler, Failed, DeletedOnce, NothingGoneUsed
-----------------------------------------------------------------------------
(* The theorems.                                                            *)

LEMMA NextInv ==
  ASSUME Inv, [Next]_vars
  PROVE  Inv'
BY ProcessInv, StartInv, RoundInv, ReadScriptInv, LockInv, UnlockInv, HandlerInv, DestructorInv,
   ExitInv, GoneInv, OutsideInv DEF Next, Runs

THEOREM Invariant == Spec => []Inv
BY InitInv, NextInv, PTL DEF Spec

\* Types.
THEOREM LifecycleTyped == Spec => []TypeOK
<1>1. Inv => TypeOK
  BY TodoTyped DEF Inv, Typed, TypeOK
<1> QED
  BY <1>1, Invariant, PTL

\* The server is deleted once, whenever SIGINT comes.
THEOREM ServerDeletedOnce == Spec => []DeletedOnce
BY Invariant, PTL DEF Inv

\* Nothing is used when it is gone, unless the start had failed.
THEOREM UsesWhatExists == Spec => []NothingGoneUsed
BY Invariant, PTL DEF Inv
=============================================================================
