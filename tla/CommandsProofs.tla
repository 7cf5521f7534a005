--------------------------- MODULE CommandsProofs ---------------------------
(***************************************************************************)
(* Theorems about the requests and the log file, for every length of day,  *)
(* horizon of the clock, size of disk and set of channels.                 *)
(***************************************************************************)
EXTENDS Commands, TLAPS

LEMMA DayIs ==
  ASSUME NEW t \in Nat
  PROVE  /\ Day(t) \in Nat
         /\ Day(t) * DayLength <= t
         /\ t < (Day(t) + 1) * DayLength
BY DayAssumption, Z3 DEF Day

\* A time before a midnight belongs to an earlier day, and back.
LEMMA DayBefore ==
  ASSUME NEW t \in Nat, NEW d \in Nat
  PROVE  Day(t) < d <=> t < d * DayLength
<1>1. Day(t) \in Nat /\ Day(t) * DayLength <= t /\ t < (Day(t) + 1) * DayLength
  BY DayIs
<1>2. DayLength \in Nat
  BY DayAssumption
<1>3. ASSUME Day(t) < d PROVE t < d * DayLength
  <2>1. (Day(t) + 1) * DayLength <= d * DayLength
    BY <1>1, <1>2, <1>3
  <2> QED
    BY <1>1, <1>2, <2>1
<1>4. ASSUME d <= Day(t) PROVE d * DayLength <= t
  <2>1. d * DayLength <= Day(t) * DayLength
    BY <1>1, <1>2, <1>4
  <2> QED
    BY <1>1, <1>2, <2>1
<1> QED
  BY <1>1, <1>2, <1>3, <1>4

LEMMA MidnightOfDay ==
  ASSUME NEW d \in Nat
  PROVE  d * DayLength \in Nat /\ Day(d * DayLength) = d
<1>1. d * DayLength \in Nat /\ d * DayLength < (d + 1) * DayLength
  BY DayAssumption
<1>2. Day(d * DayLength) < d + 1 /\ ~ (Day(d * DayLength) < d) /\ Day(d * DayLength) \in Nat
  BY <1>1, DayBefore, DayIs
<1> QED
  BY <1>1, <1>2

-----------------------------------------------------------------------------
(* What the clock, the message in hand and the open file have to do with    *)
(* each other.                                                              *)

\* A message in hand was stamped less than a day ago.
MessageRecent == msg # NoMessage => /\ todo # <<>> /\ Head(todo) = "log"
                                    /\ msg <= now /\ now < msg + DayLength

\* The open file is taken for messages of its day, and of the day after when
\* it was opened late; earlier messages come only after the clock was set back.
FileOpen == fd_ => /\ rotation_tp_ <= (filename_ + 2) * DayLength
                   /\ ~ late => rotation_tp_ = (filename_ + 1) * DayLength
                   /\ ~ setBack => filename_ * DayLength <= now
                   /\ ~ setBack /\ msg # NoMessage => filename_ * DayLength <= msg

\* When fopen has failed, every message rotates again.
FileClosed == ~ fd_ /\ ~ setBack => /\ rotation_tp_ <= now
                                    /\ msg # NoMessage => rotation_tp_ <= msg

Inv == /\ LogTypeOK /\ MessageRecent /\ FileOpen /\ FileClosed
       /\ FiledByDay /\ NoFileNeedsSetBack

LEMMA InitInv == Init => Inv
<1> SUFFICES ASSUME Init PROVE Inv
  OBVIOUS
<1> USE DEF Init, LogInit, NoMessage, Filed
<1>0. PICK began \in 0 .. DayLength - 1 :
        now \in began .. began + DayLength - 1 /\ filename_ = Day(began)
  OBVIOUS
<1>1. /\ now \in Nat /\ Day(now) \in Nat /\ now < (Day(now) + 1) * DayLength
      /\ Day(now) * DayLength <= now
  BY <1>0, DayIs, DayAssumption
<1>a. /\ filename_ \in Nat
      /\ filename_ * DayLength <= began /\ began < (filename_ + 1) * DayLength
  BY <1>0, DayIs, DayAssumption
\* The second reading of the clock comes on the same day or on the next one.
<1>b. filename_ * DayLength <= now /\ Day(now) <= filename_ + 1
  <2>1. now < (filename_ + 2) * DayLength
    BY <1>0, <1>a, DayAssumption
  <2>2. Day(now) < filename_ + 2
    BY <1>1, <1>a, <2>1, DayBefore
  <2> QED
    BY <1>0, <1>1, <1>a, <2>2, DayAssumption
<1>2. rotation_tp_ = (Day(now) + 1) * DayLength /\ rotation_tp_ \in Nat
      /\ rotation_tp_ = Day(rotation_tp_) * DayLength
  BY <1>1, MidnightOfDay DEF next_rotation_tp_
<1>3. LogTypeOK
  <2>1. now \in Time
    BY DayAssumption, HorizonAssumption DEF Time
  <2>2. filed \in [day : Nat, file : Nat, late : BOOLEAN, setBack : BOOLEAN]
    BY <1>a
  <2> QED
    BY <1>1, <1>2, <1>a, <2>1, <2>2 DEF LogTypeOK
<1>4. MessageRecent /\ FileClosed /\ FiledByDay /\ NoFileNeedsSetBack
  BY <1>a DEF MessageRecent, FileClosed, FiledByDay, NoFileNeedsSetBack
<1>5. FileOpen
  <2>1. (Day(now) + 1) * DayLength <= (filename_ + 2) * DayLength
    BY <1>1, <1>a, <1>b, DayAssumption
  <2>2. ~ late => Day(now) = filename_
    OBVIOUS
  <2> QED
    BY <1>2, <1>a, <1>b, <2>1, <2>2 DEF FileOpen
<1> QED
  BY <1>3, <1>4, <1>5 DEF Inv

-----------------------------------------------------------------------------
(* The steps that log.                                                      *)

LEMMA TickInv ==
  ASSUME Inv, Tick, UNCHANGED todo
  PROVE  Inv'
<1> USE DEF Inv, LogTypeOK, Tick, Time, NoMessage
<1>1. LogTypeOK' /\ MessageRecent'
  BY HorizonAssumption DEF MessageRecent
<1>2. filename_ * DayLength \in Nat
  BY DayAssumption
<1>3. FileOpen' /\ FileClosed'
  BY <1>2 DEF FileOpen, FileClosed, MessageRecent
<1>4. FiledByDay' /\ NoFileNeedsSetBack'
  BY DEF FiledByDay, NoFileNeedsSetBack
<1> QED
  BY <1>1, <1>3, <1>4

LEMMA StampInv ==
  ASSUME Inv, Stamp, UNCHANGED todo, todo # <<>>, Head(todo) = "log"
  PROVE  Inv'
<1> USE DEF Inv, LogTypeOK, Stamp, Time, NoMessage
<1>1. LogTypeOK' /\ MessageRecent'
  BY DayAssumption, HorizonAssumption DEF MessageRecent
<1>2. FileOpen' /\ FileClosed'
  BY DEF FileOpen, FileClosed
<1>3. FiledByDay' /\ NoFileNeedsSetBack'
  BY DEF FiledByDay, NoFileNeedsSetBack
<1> QED
  BY <1>1, <1>2, <1>3

LEMMA RotateInv ==
  ASSUME Inv, Sink, Rotate, ended = "no"
  PROVE  Inv'
<1> DEFINE d == Day(msg)
<1>1. msg \in Nat /\ now \in Nat /\ msg <= now /\ now < msg + DayLength
  BY HorizonAssumption DEF Inv, LogTypeOK, MessageRecent, Sink, Time, NoMessage
<1>2. d \in Nat /\ d * DayLength <= msg /\ msg < (d + 1) * DayLength
  BY <1>1, DayIs
<1>3. Day(now) \in Nat /\ (Day(now) = d \/ Day(now) = d + 1)
  <2>1. now < (d + 2) * DayLength /\ ~ (now < d * DayLength)
    BY <1>1, <1>2, DayAssumption
  <2>2. Day(now) < d + 2 /\ ~ (Day(now) < d) /\ Day(now) \in Nat
    BY <1>1, <1>2, <2>1, DayBefore, DayIs
  <2> QED
    BY <1>2, <2>2
<1>4. /\ filename_' = d /\ fd_' = TRUE /\ setBack' = FALSE /\ msg' = NoMessage
      /\ rotation_tp_' = (Day(now) + 1) * DayLength
      /\ late' = (Day(now) # d)
      /\ filed' = [day |-> d, file |-> d, late |-> late', setBack |-> FALSE]
      /\ now' = now /\ ended' = ended
  BY DEF Rotate, Sink, next_rotation_tp_, Filed
<1> HIDE DEF d
<1>5. rotation_tp_' \in Nat /\ rotation_tp_' = Day(rotation_tp_') * DayLength
  BY <1>3, <1>4, MidnightOfDay
<1>6. LogTypeOK'
  BY <1>2, <1>4, <1>5 DEF Inv, LogTypeOK, Day
<1>7. MessageRecent' /\ FileClosed' /\ FiledByDay'
  BY <1>2, <1>4 DEF MessageRecent, FileClosed, FiledByDay
<1>8. FileOpen'
  <2>1. rotation_tp_' <= (d + 2) * DayLength
    BY <1>2, <1>3, <1>4, DayAssumption
  <2>2. ~ late' => rotation_tp_' = (d + 1) * DayLength
    BY <1>4
  <2>3. d * DayLength <= now
    BY <1>1, <1>2, DayAssumption
  <2> QED
    BY <1>4, <2>1, <2>2, <2>3 DEF FileOpen
<1>9. NoFileNeedsSetBack'
  BY <1>4 DEF NoFileNeedsSetBack
<1> QED
  BY <1>6, <1>7, <1>8, <1>9 DEF Inv

LEMMA RotateFailsInv ==
  ASSUME Inv, Sink, RotateFails, ended = "no"
  PROVE  Inv'
<1>1. msg \in Nat /\ now \in Nat /\ msg <= now /\ rotation_tp_ \in Nat /\ rotation_tp_ <= msg
  BY HorizonAssumption DEF Inv, LogTypeOK, MessageRecent, Sink, Time, NoMessage, RotateFails, should_rotate
<1>2. Day(msg) \in Nat
  BY <1>1, DayIs
<1>3. LogTypeOK'
  BY <1>2 DEF Inv, LogTypeOK, Sink, RotateFails, Day
<1>4. MessageRecent' /\ FileOpen' /\ FileClosed'
  BY <1>1 DEF Sink, RotateFails, MessageRecent, FileOpen, FileClosed
<1>5. FiledByDay' /\ NoFileNeedsSetBack'
  BY DEF Inv, Sink, RotateFails, FiledByDay, NoFileNeedsSetBack
<1> QED
  BY <1>3, <1>4, <1>5 DEF Inv

LEMMA WriteInv ==
  ASSUME Inv, Sink, Write, ended = "no"
  PROVE  Inv'
<1>1. /\ msg \in Nat /\ now \in Nat /\ msg <= now /\ rotation_tp_ \in Nat
      /\ msg < rotation_tp_ /\ filename_ \in Nat /\ late \in BOOLEAN /\ setBack \in BOOLEAN
  BY HorizonAssumption DEF Inv, LogTypeOK, MessageRecent, Sink, Time, NoMessage, Write, should_rotate
<1>2. Day(msg) \in Nat
  BY <1>1, DayIs
<1>3. /\ msg' = NoMessage /\ now' = now
      /\ UNCHANGED <<filename_, fd_, rotation_tp_, late, setBack>>
  BY DEF Sink, Write
<1>4. MessageRecent' /\ FileOpen' /\ FileClosed'
  BY <1>3 DEF Inv, MessageRecent, FileOpen, FileClosed
<1>5. CASE fd_
  <2>1. /\ filed' = [day |-> Day(msg), file |-> filename_, late |-> late, setBack |-> setBack]
        /\ ended' = ended
    BY <1>5 DEF Write, Filed
  <2>2. LogTypeOK'
    BY <1>1, <1>2, <1>3, <2>1 DEF Inv, LogTypeOK, Day
  <2>3. Day(msg) < filename_ + 2
    <3>1. msg < (filename_ + 2) * DayLength
      BY <1>1, <1>5, DayAssumption DEF Inv, FileOpen
    <3> QED
      BY <1>1, <3>1, DayBefore
  <2>4. ~ late => Day(msg) < filename_ + 1
    <3>1. ~ late => msg < (filename_ + 1) * DayLength
      BY <1>1, <1>5, DayAssumption DEF Inv, FileOpen
    <3> QED
      BY <1>1, <3>1, DayBefore
  <2>5. ~ setBack => ~ (Day(msg) < filename_)
    <3>1. ~ setBack => ~ (msg < filename_ * DayLength)
      BY <1>1, <1>5, DayAssumption DEF Inv, FileOpen, NoMessage
    <3> QED
      BY <1>1, <3>1, DayBefore
  <2>6. FiledByDay'
    BY <1>1, <1>2, <2>1, <2>3, <2>4, <2>5 DEF FiledByDay
  <2>7. NoFileNeedsSetBack'
    BY <2>1 DEF NoFileNeedsSetBack
  <2> QED
    BY <1>4, <2>2, <2>6, <2>7 DEF Inv
<1>6. CASE ~ fd_
  <2>1. filed' = filed /\ ended' = "fwrite(NULL)"
    BY <1>6 DEF Write
  <2>2. LogTypeOK'
    BY <1>3, <2>1 DEF Inv, LogTypeOK, Day
  <2>3. setBack
    BY <1>1, <1>6 DEF Inv, FileClosed, NoMessage
  <2>4. FiledByDay' /\ NoFileNeedsSetBack'
    BY <1>3, <2>1, <2>3 DEF Inv, FiledByDay, NoFileNeedsSetBack
  <2> QED
    BY <1>4, <2>2, <2>4 DEF Inv
<1> QED
  BY <1>5, <1>6

LEMMA SetClockInv ==
  ASSUME Inv, NEW t \in Time, SetClock(t), msg = NoMessage
  PROVE  Inv'
<1>1. /\ now \in Nat /\ t \in Nat /\ now' = t /\ setBack' = (setBack \/ t < now)
      /\ UNCHANGED <<msg, filename_, fd_, rotation_tp_, filed, late, ended>>
      /\ setBack \in BOOLEAN /\ filename_ \in Nat /\ rotation_tp_ \in Nat
  BY HorizonAssumption DEF Inv, LogTypeOK, SetClock, Time
<1>2. LogTypeOK'
  BY <1>1 DEF Inv, LogTypeOK, Day
<1>3. MessageRecent' /\ FiledByDay' /\ NoFileNeedsSetBack'
  BY <1>1 DEF Inv, MessageRecent, FiledByDay, NoFileNeedsSetBack
<1>4. filename_ * DayLength \in Nat
  BY <1>1, DayAssumption
<1>5. ~ setBack' => ~ setBack /\ now <= now'
  <2>1. ~ (t < now) => now <= now'
    BY <1>1
  <2>2. ~ setBack' => ~ setBack /\ ~ (t < now)
    BY <1>1, Zenon
  <2> QED
    BY <2>1, <2>2, Zenon
<1>6. FileOpen'
  BY <1>1, <1>4, <1>5 DEF Inv, FileOpen
<1>7. FileClosed'
  BY <1>1, <1>5 DEF Inv, FileClosed
<1> QED
  BY <1>2, <1>3, <1>6, <1>7 DEF Inv

\* A step that neither logs nor sets the clock, and ends the process at most
\* with an exception or a read from NULL.
LEMMA SilentInv ==
  ASSUME Inv, UNCHANGED <<now, msg, filename_, fd_, rotation_tp_, filed, late, setBack>>,
         ended' \in {ended, "exception", "fgets(NULL)"},
         msg = NoMessage \/ UNCHANGED todo
  PROVE  Inv'
<1>1. LogTypeOK'
  BY DEF Inv, LogTypeOK, Day
<1>2. MessageRecent' /\ FileOpen' /\ FileClosed'
  BY DEF Inv, MessageRecent, FileOpen, FileClosed
<1>3. FiledByDay' /\ NoFileNeedsSetBack'
  BY DEF Inv, FiledByDay, NoFileNeedsSetBack
<1> QED
  BY <1>1, <1>2, <1>3 DEF Inv

-----------------------------------------------------------------------------
(* What is left of a request, and what it has done so far.                  *)

Todos == {<<>>, <<"log">>, <<"answer", "log">>, <<"log", "answer", "log">>,
          <<"run.sh", "log", "answer", "log">>, <<"command", "log", "answer", "log">>,
          <<"save.sh", "kill.sh", "log", "answer", "log">>,
          <<"kill.sh", "log", "answer", "log">>,
          <<"popen", "log", "answer", "log">>,
          <<"free", "used", "log", "answer", "log">>, <<"used", "log", "answer", "log">>,
          <<"settime", "answer", "log">>,
          <<"log", "gettime", "log", "answer", "log">>, <<"gettime", "log", "answer", "log">>}

Looks == 0 .. Total \cup {Failed}
Results == {"ok", "error", "failed"}
At(s) == todo # <<>> /\ Head(todo) = s

\* Types, and what the earlier steps have left for the later ones.
StepsInv == /\ todo \in Todos
            /\ value \in Int
            /\ results \in Seq(Results)
            /\ looks \in Seq(Looks)
            /\ channle_buffer \in Channels \cup {Automatic, Nothing}
            /\ recorder \in {"on", "off"}
            /\ saved \in BOOLEAN
            /\ At("settime") => value \in Time
            /\ At("free") => looks = <<>>
            /\ At("used") => Len(looks) = 1
            /\ At("save.sh") => results = <<>>
            /\ At("kill.sh") => \E r \in Results : results = <<r>> /\ (r = "ok" => saved)

LEMMA TodosTyped ==
  Todos \subseteq Seq({"log", "answer", "run.sh", "save.sh", "kill.sh", "command",
                       "popen", "free", "used", "settime", "gettime"})
BY DEF Todos

\* What is left after a step is again one of these, and some steps follow only
\* certain others.
LEMMA TailOfTodos ==
  ASSUME NEW s \in Todos, s # <<>>
  PROVE  /\ Tail(s) \in Todos
         /\ Tail(s) # <<>> => /\ Head(Tail(s)) \notin {"settime", "free", "save.sh"}
                              /\ Head(Tail(s)) = "used" => Head(s) = "free"
                              /\ Head(Tail(s)) = "kill.sh" => Head(s) = "save.sh"
<1>1. /\ Tail(<<"log">>) = <<>>
      /\ Tail(<<"answer", "log">>) = <<"log">>
      /\ Tail(<<"log", "answer", "log">>) = <<"answer", "log">>
      /\ Tail(<<"run.sh", "log", "answer", "log">>) = <<"log", "answer", "log">>
      /\ Tail(<<"command", "log", "answer", "log">>) = <<"log", "answer", "log">>
  OBVIOUS
<1>2. /\ Tail(<<"save.sh", "kill.sh", "log", "answer", "log">>) = <<"kill.sh", "log", "answer", "log">>
      /\ Tail(<<"kill.sh", "log", "answer", "log">>) = <<"log", "answer", "log">>
      /\ Tail(<<"popen", "log", "answer", "log">>) = <<"log", "answer", "log">>
      /\ Tail(<<"free", "used", "log", "answer", "log">>) = <<"used", "log", "answer", "log">>
      /\ Tail(<<"used", "log", "answer", "log">>) = <<"log", "answer", "log">>
  OBVIOUS
<1>3. /\ Tail(<<"settime", "answer", "log">>) = <<"answer", "log">>
      /\ Tail(<<"log", "gettime", "log", "answer", "log">>) = <<"gettime", "log", "answer", "log">>
      /\ Tail(<<"gettime", "log", "answer", "log">>) = <<"log", "answer", "log">>
  OBVIOUS
<1>4. Tail(s) \in Todos
  BY <1>1, <1>2, <1>3, Zenon DEF Todos
<1>5. Tail(s) # <<>> => Head(Tail(s)) \notin {"settime", "free", "save.sh"}
  BY DEF Todos
<1>6. Tail(s) # <<>> /\ Head(Tail(s)) = "used" => Head(s) = "free"
  BY DEF Todos
<1>7. Tail(s) # <<>> /\ Head(Tail(s)) = "kill.sh" => Head(s) = "save.sh"
  BY DEF Todos
<1> QED
  BY <1>4, <1>5, <1>6, <1>7

LEMMA ScriptsOfTodos ==
  ASSUME NEW t \in 0 .. 5
  PROVE  /\ Scripts(t) \in Todos
         /\ Scripts(t) # <<>> /\ Head(Scripts(t)) \notin {"settime", "free", "used", "kill.sh"}
<1>1. Scripts(t) \in {<<"run.sh", "log", "answer", "log">>, <<"command", "log", "answer", "log">>,
                      <<"save.sh", "kill.sh", "log", "answer", "log">>, <<"log", "answer", "log">>}
  BY DEF Scripts
<1>2. Scripts(t) \in Todos
  BY <1>1, Zenon DEF Todos
<1> QED
  BY <1>1, <1>2

LEMMA StepsInit == Init => StepsInv
BY DEF Init, StepsInv, Todos, At, NoValue, Nothing, Looks, Results

\* The step that begins a request.
LEMMA StartsSteps ==
  ASSUME StepsInv, NEW steps \in Todos, NEW v \in Int, Starts(steps, v),
         steps # <<>> /\ Head(steps) # "kill.sh" /\ Head(steps) # "used",
         Head(steps) = "settime" => v \in Time
  PROVE  StepsInv'
<1>1. results' = <<>> /\ looks' = <<>> /\ todo' = steps /\ value' = v
      /\ UNCHANGED <<channle_buffer, recorder, saved>>
  BY DEF Starts
<1> QED
  BY <1>1 DEF StepsInv, At

\* A step after which the rest is left, and neither looks at the disk nor runs
\* a script.
LEMMA RestSteps ==
  ASSUME StepsInv, NEW s, Step(s), s \notin {"free", "save.sh"}, todo' = Tail(todo),
         value' \in Int, UNCHANGED <<results, looks, recorder, saved>>,
         channle_buffer' \in Channels \cup {Automatic, Nothing}
  PROVE  StepsInv'
<1>1. todo \in Todos /\ todo # <<>> /\ Head(todo) = s
  BY DEF StepsInv, Step
<1>2. /\ todo' \in Todos
      /\ todo' # <<>> => Head(todo') \notin {"settime", "free", "save.sh", "used", "kill.sh"}
  BY <1>1, TailOfTodos
<1> QED
  BY <1>2 DEF StepsInv, At

LEMMA SystemSteps ==
  ASSUME StepsInv, NEW s \in {"run.sh", "save.sh", "kill.sh", "command"},
         NEW result \in Results, system(s, result)
  PROVE  StepsInv'
<1>1. /\ todo \in Todos /\ todo # <<>> /\ Head(todo) = s /\ todo' = Tail(todo)
      /\ results' = Append(results, result) /\ results \in Seq(Results)
      /\ UNCHANGED <<looks, channle_buffer>>
  BY DEF StepsInv, system, Step
<1>2. /\ todo' \in Todos
      /\ todo' # <<>> => Head(todo') \notin {"settime", "free", "save.sh", "used"}
      /\ todo' # <<>> /\ Head(todo') = "kill.sh" => s = "save.sh"
  BY <1>1, TailOfTodos
<1>3. results' \in Seq(Results)
  BY <1>1
<1>4. value' \in {0, 1}
  BY DEF system
<1>5. recorder' \in {"on", "off"}
  BY DEF StepsInv, system
<1>6. saved' \in BOOLEAN
  BY DEF StepsInv, system
<1>7. ASSUME s = "save.sh" PROVE results' = <<result>> /\ (result = "ok" => saved')
  <2>1. results = <<>>
    BY <1>1, <1>7 DEF StepsInv, At
  <2>2. results' = <<result>>
    BY <1>1, <2>1
  <2>3. result = "ok" => saved'
    BY <1>7 DEF system
  <2> QED
    BY <2>2, <2>3
<1>8. At("kill.sh")' => \E r \in Results : results' = <<r>> /\ (r = "ok" => saved')
  BY <1>2, <1>7 DEF At
<1>9. ~ At("settime")' /\ ~ At("free")' /\ ~ At("save.sh")' /\ ~ At("used")'
  BY <1>2 DEF At
<1> QED
  BY <1>1, <1>2, <1>3, <1>4, <1>5, <1>6, <1>8, <1>9 DEF StepsInv

LEMMA MegabytesTyped == \A look \in Looks : Free(look) \in Nat /\ Used(look) \in Nat
<1> SUFFICES ASSUME NEW look \in Looks PROVE Free(look) \in Nat /\ Used(look) \in Nat
  OBVIOUS
<1>1. CASE look = Failed
  BY <1>1 DEF Free, Used
<1>2. CASE look # Failed
  <2>1. look \in Nat /\ Total - look \in Nat /\ MB \in Nat \ {0}
    BY <1>2, TotalAssumption, MBAssumption DEF Looks
  <2>2. \A n \in Nat, d \in Nat \ {0} : n \div d \in Nat
    BY Z3
  <2> QED
    BY <1>2, <2>1, <2>2 DEF Free, Used
<1> QED
  BY <1>1, <1>2

LEMMA CapacitiesTyped ==
  ASSUME NEW f \in Looks, NEW u \in Looks
  PROVE  Capacities(Free(f), Used(u)) \subseteq Int
<1>1. Free(f) \in Nat /\ Used(u) \in Nat
  BY MegabytesTyped
<1>2. CASE Free(f) + Used(u) = 0
  BY <1>2 DEF Capacities
<1>3. CASE Free(f) + Used(u) # 0
  <2>1. 2 * (Free(f) + Used(u)) \in Nat \ {0}
        /\ 200 * Used(u) + Free(f) + Used(u) \in Nat
    BY <1>1, <1>3
  <2> QED
    BY <1>3, <2>1 DEF Capacities, Percent
<1> QED
  BY <1>2, <1>3

LEMMA LookSteps ==
  ASSUME StepsInv, NEW look \in Looks, getStorageMB(look)
  PROVE  StepsInv'
<1>1. /\ todo \in Todos /\ todo # <<>> /\ todo' = Tail(todo)
      /\ looks' = Append(looks, look) /\ looks \in Seq(Looks)
      /\ UNCHANGED <<results, channle_buffer, recorder, saved>>
  BY DEF StepsInv, getStorageMB, Step
<1>2. looks' \in Seq(Looks)
  BY <1>1
<1>3. CASE Step("free") /\ UNCHANGED value
  <2>1. Len(looks') = 1
    BY <1>1, <1>3 DEF StepsInv, At, Step
  <2>2. /\ todo' \in Todos
        /\ todo' # <<>> => Head(todo') \notin {"settime", "free", "save.sh", "kill.sh"}
    BY <1>1, <1>3, TailOfTodos DEF Step
  <2> QED
    BY <1>1, <1>2, <1>3, <2>1, <2>2 DEF StepsInv, At
<1>4. CASE Step("used") /\ value' \in Capacities(Free(looks[1]), Used(look))
  <2>1. looks[1] \in Looks
    BY <1>1, <1>4 DEF StepsInv, At, Step
  <2>2. value' \in Int
    BY <1>4, <2>1, CapacitiesTyped
  <2>3. /\ todo' \in Todos
        /\ todo' # <<>> => Head(todo') \notin {"settime", "free", "save.sh", "used", "kill.sh"}
    BY <1>1, <1>4, TailOfTodos DEF Step
  <2> QED
    BY <1>1, <1>2, <2>2, <2>3 DEF StepsInv, At
<1> QED
  BY <1>3, <1>4 DEF getStorageMB

-----------------------------------------------------------------------------
(* Every step of the program.                                               *)

LEMMA NoMessageUnlessLogging ==
  ASSUME Inv, todo = <<>> \/ Head(todo) # "log"
  PROVE  msg = NoMessage
BY DEF Inv, MessageRecent

LEMMA NextInv ==
  ASSUME Inv, StepsInv, [Next]_vars
  PROVE  Inv'
<1>1. CASE ClockTicks
  BY <1>1, TickInv DEF ClockTicks, cmdVars
<1>2. ASSUME NEW steps, NEW v, Idle, Starts(steps, v) PROVE Inv'
  BY <1>2, NoMessageUnlessLogging, SilentInv DEF Idle, Starts, logVars
<1>3. CASE Other \/ ack_ \/ cmd_ask_info \/ cmd_state
  BY <1>2, <1>3 DEF Other, ack_, cmd_ask_info, cmd_state
<1>4. CASE BadParameter
  BY <1>4, SilentInv DEF BadParameter, cmdVars
<1>5. CASE \E t \in 0 .. 5 : cmd_set_info(t)
  BY <1>2, <1>5 DEF cmd_set_info
<1>6. CASE \E t \in Time : cmd_set_time(t)
  BY <1>2, <1>6 DEF cmd_set_time
<1>7. CASE LogBegins
  BY <1>7, StampInv DEF LogBegins, Step, cmdVars
<1>8. CASE LogEnds
  BY <1>8, RotateInv, RotateFailsInv, WriteInv DEF LogEnds, Step, Sink
<1>9. ASSUME NEW s, s # "log", Step(s) PROVE msg = NoMessage
  BY <1>9, NoMessageUnlessLogging DEF Step
<1>10. ASSUME NEW s, s # "log", Step(s), UNCHANGED logVars PROVE Inv'
  BY <1>9, <1>10, SilentInv DEF logVars
<1>11. CASE \E s \in {"run.sh", "save.sh", "kill.sh", "command"},
               result \in {"ok", "error", "failed"} : system(s, result)
  BY <1>10, <1>11 DEF system
<1>12. CASE \E output \in Channels \cup {Automatic, Nothing} : popen(output)
  BY <1>10, <1>12 DEF popen
<1>13. CASE popenFails
  BY <1>13, SilentInv DEF popenFails, cmdVars
<1>14. CASE \E look \in 0 .. Total \cup {Failed} : getStorageMB(look)
  BY <1>10, <1>14 DEF getStorageMB
<1>15. CASE setTime
  <2>1. msg = NoMessage /\ SetClock(value) /\ value \in Time
    BY <1>9, <1>15 DEF setTime, Step, StepsInv, At
  <2> QED
    BY <2>1, SetClockInv
<1>16. CASE setTimeFails \/ gettime \/ Answer
  BY <1>10, <1>16 DEF setTimeFails, gettime, Answer
<1>17. CASE UNCHANGED vars
  BY <1>17, SilentInv DEF vars, logVars, cmdVars
<1> QED
  BY <1>1, <1>3, <1>4, <1>5, <1>6, <1>7, <1>8, <1>11, <1>12, <1>13, <1>14, <1>15, <1>16, <1>17
     DEF Next

LEMMA NextSteps ==
  ASSUME StepsInv, now \in Time, [Next]_vars
  PROVE  StepsInv'
<1>1. ASSUME UNCHANGED cmdVars PROVE StepsInv'
  BY <1>1 DEF cmdVars, StepsInv, At
<1>2. CASE ClockTicks \/ BadParameter \/ LogBegins \/ popenFails \/ UNCHANGED vars
  BY <1>1, <1>2 DEF ClockTicks, BadParameter, LogBegins, popenFails, vars
<1>3. CASE Other \/ ack_ \/ cmd_ask_info \/ cmd_state
  <2>1. CASE Other
    BY <1>3, <2>1, StartsSteps DEF Other, Todos, NoValue
  <2>2. CASE ack_
    BY <1>3, <2>2, StartsSteps DEF ack_, Todos
  <2>3. CASE cmd_ask_info
    BY <1>3, <2>3, StartsSteps DEF cmd_ask_info, Todos, NoValue
  <2>4. CASE cmd_state
    BY <1>3, <2>4, StartsSteps DEF cmd_state, Todos, NoValue
  <2> QED
    BY <1>3, <2>1, <2>2, <2>3, <2>4
<1>4. CASE \E t \in 0 .. 5 : cmd_set_info(t)
  BY <1>4, StartsSteps, ScriptsOfTodos DEF cmd_set_info
<1>5. CASE \E t \in Time : cmd_set_time(t)
  BY <1>5, StartsSteps DEF cmd_set_time, Todos, Time
<1>6. CASE LogEnds
  BY <1>6, RestSteps DEF LogEnds, StepsInv
<1>7. CASE \E s \in {"run.sh", "save.sh", "kill.sh", "command"},
              result \in {"ok", "error", "failed"} : system(s, result)
  BY <1>7, SystemSteps DEF Results
<1>8. CASE \E output \in Channels \cup {Automatic, Nothing} : popen(output)
  <2>1. PICK output \in Channels \cup {Automatic, Nothing} : popen(output)
    BY <1>8
  <2>2. channle_buffer' \in Channels \cup {Automatic, Nothing}
    BY <2>1 DEF popen, StepsInv
  <2>3. value' \in Int
    BY <2>1, <2>2, ChannelsAssumption DEF popen, Automatic, Nothing
  <2> QED
    BY <2>1, <2>2, <2>3, RestSteps DEF popen
<1>9. CASE \E look \in 0 .. Total \cup {Failed} : getStorageMB(look)
  BY <1>9, LookSteps DEF Looks
<1>10. CASE setTime
  <2>1. todo' = <<"log", "gettime", "log", "answer", "log">>
        /\ UNCHANGED <<results, looks, value, channle_buffer, recorder, saved>>
    BY <1>10 DEF setTime
  <2>2. todo' \in Todos
    BY <2>1, Zenon DEF Todos
  <2> QED
    BY <2>1, <2>2 DEF StepsInv, At
<1>11. CASE setTimeFails \/ gettime \/ Answer
  <2>1. value' \in Int
    BY <1>11 DEF setTimeFails, gettime, Answer, StepsInv, Time, Failed
  <2>2. PICK s \in {"settime", "gettime", "answer"} :
          Step(s) /\ todo' = Tail(todo) /\ UNCHANGED <<results, looks, channle_buffer, recorder, saved>>
    BY <1>11 DEF setTimeFails, gettime, Answer
  <2> QED
    BY <2>1, <2>2, RestSteps DEF StepsInv
<1> QED
  BY <1>2, <1>3, <1>4, <1>5, <1>6, <1>7, <1>8, <1>9, <1>10, <1>11 DEF Next
-----------------------------------------------------------------------------
(* The theorems.                                                            *)

THEOREM Invariant == Spec => [](Inv /\ StepsInv)
<1>1. Inv /\ StepsInv /\ [Next]_vars => (Inv /\ StepsInv)'
  BY NextInv, NextSteps DEF Inv, LogTypeOK
<1> QED
  BY <1>1, InitInv, StepsInit, PTL DEF Spec

\* Types: in particular the time from which a message needs another file is a
\* midnight.
THEOREM CommandsTyped == Spec => []TypeOK
<1>1. Inv /\ StepsInv => TypeOK
  BY TodosTyped DEF Inv, StepsInv, TypeOK, Looks, Results
<1> QED
  BY <1>1, Invariant, PTL

\* Messages are in the file of their day, but for those logged around a
\* midnight or after the clock was set back.
THEOREM MessagesFiledByDay == Spec => []FiledByDay
BY Invariant, PTL DEF Inv

\* Nothing is written to a file that could not be opened, unless the clock was
\* set back since.
THEOREM WritesToOpenFile == Spec => []NoFileNeedsSetBack
BY Invariant, PTL DEF Inv

\* A running recording is stopped unsaved only after its save script failed.
THEOREM StopsSaved == Spec => StoppedUnsaved
<1> DEFINE A == recorder = "on" /\ recorder' = "off" /\ ~ saved => results \in {<<"error">>, <<"failed">>}
<1>1. StepsInv /\ [Next]_vars => [A]_vars
  <2> SUFFICES ASSUME StepsInv, Next, recorder = "on", recorder' = "off", ~ saved
               PROVE  results \in {<<"error">>, <<"failed">>}
    OBVIOUS
  <2>1. PICK s \in {"run.sh", "save.sh", "kill.sh", "command"},
             result \in {"ok", "error", "failed"} : system(s, result)
    BY DEF Next, ClockTicks, Other, ack_, cmd_set_info, cmd_ask_info, cmd_state, cmd_set_time,
           Starts, BadParameter, LogBegins, LogEnds, popen, popenFails, getStorageMB, setTime,
           setTimeFails, gettime, Answer, cmdVars
  <2>2. s = "kill.sh" /\ todo # <<>> /\ Head(todo) = "kill.sh"
    BY <2>1 DEF system, Step
  <2>3. PICK r \in Results : results = <<r>> /\ (r = "ok" => saved)
    BY <2>2 DEF StepsInv, At
  <2> QED
    BY <2>3 DEF Results
<1> QED
  BY <1>1, Invariant, PTL DEF Spec, StoppedUnsaved
-----------------------------------------------------------------------------
(* The answer to a question for the capacity.                               *)

LEMMA TimesMonotone ==
  ASSUME NEW x \in Int, NEW y \in Int, NEW z \in Nat, x <= y
  PROVE  x * z <= y * z
<1>1. (y - x) * z >= 0
  OBVIOUS
<1>2. (y - x) * z = y * z - x * z
  OBVIOUS
<1>3. x * z \in Int /\ y * z \in Int
  OBVIOUS
<1> QED
  BY <1>1, <1>2, <1>3

LEMMA QuotientIs ==
  ASSUME NEW n \in Nat, NEW d \in Nat \ {0}
  PROVE  /\ n \div d \in Nat
         /\ d * (n \div d) <= n
         /\ \A q \in Int : d * q <= n => q <= n \div d
<1>1. n \div d \in Nat /\ d * (n \div d) <= n /\ n < d * (n \div d + 1)
  BY Z3
<1>2. ASSUME NEW q \in Int, d * q <= n, q > n \div d PROVE FALSE
  <2>1. (n \div d + 1) * d <= q * d
    BY <1>1, <1>2, TimesMonotone
  <2> QED
    BY <1>1, <1>2, <2>1
<1> QED
  BY <1>1, <1>2

\* Less free space, more used space, or both: the percentage is no smaller.
LEMMA PercentMonotone ==
  ASSUME NEW f \in Nat, NEW u \in Nat, NEW g \in Nat, NEW v \in Nat,
         f + u > 0, g + v > 0, g <= f, u <= v
  PROVE  Percent(f, u) <= Percent(g, v)
<1> DEFINE q == Percent(f, u)
           k == 2 * q - 1
<1>1. q \in Nat /\ (2 * (f + u)) * q <= 200 * u + f + u
  <2>1. 200 * u + f + u \in Nat /\ 2 * (f + u) \in Nat \ {0}
    OBVIOUS
  <2> HIDE DEF q
  <2> QED
    BY <2>1, QuotientIs DEF Percent, q
<1> HIDE DEF q
<1>2. k \in Int /\ k >= -1
  BY <1>1
<1>3. f * k + u * k <= 200 * u
  <2>1. (2 * (f + u)) * q = f * (2 * q) + u * (2 * q)
    BY <1>1
  <2>2. f * k = f * (2 * q) - f /\ u * k = u * (2 * q) - u
    BY <1>1
  <2>3. f * (2 * q) \in Int /\ u * (2 * q) \in Int
    BY <1>1
  <2> QED
    BY <1>1, <2>1, <2>2, <2>3
<1>4. (2 * (g + v)) * q <= 200 * v + g + v
  <2>1. (2 * (g + v)) * q = g * k + v * k + g + v
    BY <1>1
  <2> HIDE DEF k
  <2>2. /\ f * k \in Int /\ u * k \in Int /\ g * k \in Int /\ v * k \in Int
        /\ f * k = k * f /\ u * k = k * u /\ g * k = k * g /\ v * k = k * v
    BY <1>2
  <2>3. g * k + v * k <= 200 * v
    <3>1. CASE k <= 0
      <4>1. k * g <= 0 * g /\ k * v <= 0 * v
        BY <1>2, <3>1, TimesMonotone
      <4> QED
        BY <2>2, <4>1
    <3>2. CASE k \in 0 .. 200
      <4>1. g * k <= f * k
        BY <3>2, TimesMonotone
      <4>2. u * (200 - k) <= v * (200 - k)
        BY <3>2, TimesMonotone
      <4>3. u * (200 - k) = 200 * u - u * k /\ v * (200 - k) = 200 * v - v * k
        BY <3>2
      <4> QED
        BY <1>3, <2>2, <4>1, <4>2, <4>3
    <3>3. CASE k > 200
      <4>1. 201 * f <= k * f /\ 201 * u <= k * u
        BY <1>2, <3>3, TimesMonotone
      <4> QED
        BY <1>3, <2>2, <4>1
    <3> QED
      BY <1>2, <3>1, <3>2, <3>3
  <2> QED
    BY <2>1, <2>2, <2>3
<1>5. 200 * v + g + v \in Nat /\ 2 * (g + v) \in Nat \ {0}
  OBVIOUS
<1> QED
  BY <1>1, <1>4, <1>5, QuotientIs DEF Percent, q

\* Cutting off what is less than a megabyte keeps the order.
LEMMA MoreFreeLessUsed ==
  ASSUME NEW x \in 0 .. Total, NEW y \in 0 .. Total, x # Failed, y # Failed, x <= y
  PROVE  Free(x) <= Free(y) /\ Used(y) <= Used(x)
<1>1. \A m, n \in Nat : m <= n => m \div MB <= n \div MB
  <2> SUFFICES ASSUME NEW m \in Nat, NEW n \in Nat, m <= n PROVE m \div MB <= n \div MB
    OBVIOUS
  <2>1. m \div MB \in Nat /\ MB * (m \div MB) <= m
    BY MBAssumption, QuotientIs
  <2>2. MB * (m \div MB) <= n
    BY <2>1, MBAssumption
  <2> QED
    BY <2>1, <2>2, MBAssumption, QuotientIs
<1>2. /\ x \in Nat /\ y \in Nat /\ Total - x \in Nat /\ Total - y \in Nat
      /\ Total - y <= Total - x
  BY TotalAssumption
<1> QED
  BY <1>1, <1>2 DEF Free, Used

\* The reply to the second look is still to come, or nothing else has been
\* asked for since.
LooksInv == Len(looks) = 2 =>
              /\ value \in Capacities(Free(looks[1]), Used(looks[2]))
              /\ todo \in {<<>>, <<"log">>, <<"answer", "log">>, <<"log", "answer", "log">>}

LEMMA Appended ==
  ASSUME NEW S, NEW s \in Seq(S), NEW x \in S
  PROVE  /\ \A i \in 1 .. Len(s) : Append(s, x)[i] = s[i]
         /\ Append(s, x)[Len(s) + 1] = x
OBVIOUS

LEMMA AppendSecond ==
  ASSUME NEW S, NEW s \in Seq(S), NEW x \in S, Len(s) = 1
  PROVE  Append(s, x)[1] = s[1] /\ Append(s, x)[2] = x
<1>1. Append(s, x)[Len(s) + 1] = x
  BY Appended
<1>2. \A i \in 1 .. Len(s) : Append(s, x)[i] = s[i]
  BY Appended
<1>3. 1 \in 1 .. Len(s) /\ Len(s) + 1 = 2
  OBVIOUS
<1> QED
  BY <1>1, <1>2, <1>3, Zenon

LEMMA LooksStep ==
  ASSUME StepsInv, LooksInv, [Next]_vars
  PROVE  LooksInv'
<1>1. ASSUME UNCHANGED <<looks, value>>, UNCHANGED todo \/ (todo # <<>> /\ todo' = Tail(todo))
      PROVE  LooksInv'
  <2>1. /\ Tail(<<"log">>) = <<>>
        /\ Tail(<<"answer", "log">>) = <<"log">>
        /\ Tail(<<"log", "answer", "log">>) = <<"answer", "log">>
    OBVIOUS
  <2>2. Len(looks) = 2 =>
          todo' \in {<<>>, <<"log">>, <<"answer", "log">>, <<"log", "answer", "log">>}
    BY <1>1, <2>1, Zenon DEF LooksInv
  <2> QED
    BY <1>1, <2>2 DEF LooksInv
<1>2. ASSUME NEW steps, NEW v, Starts(steps, v) PROVE LooksInv'
  BY <1>2 DEF Starts, LooksInv
<1>3. CASE ClockTicks \/ BadParameter \/ LogBegins \/ popenFails \/ UNCHANGED vars
  BY <1>1, <1>3 DEF ClockTicks, BadParameter, LogBegins, popenFails, cmdVars, vars
<1>4. CASE \/ Other \/ ack_ \/ cmd_ask_info \/ cmd_state
           \/ \E t \in 0 .. 5 : cmd_set_info(t)
           \/ \E t \in Time : cmd_set_time(t)
  BY <1>2, <1>4 DEF Other, ack_, cmd_ask_info, cmd_state, cmd_set_info, cmd_set_time
<1>5. CASE LogEnds \/ Answer
  BY <1>1, <1>5 DEF LogEnds, Answer, Step
<1>6. ASSUME NEW s, Step(s), s \notin {"log", "answer"} PROVE Len(looks) # 2
  BY <1>6 DEF LooksInv, Step
<1>7. ASSUME NEW s, Step(s), s \notin {"log", "answer"}, UNCHANGED looks PROVE LooksInv'
  BY <1>6, <1>7 DEF LooksInv
<1>8. CASE \E s \in {"run.sh", "save.sh", "kill.sh", "command"},
              result \in {"ok", "error", "failed"} : system(s, result)
  BY <1>7, <1>8 DEF system
<1>9. CASE \/ \E output \in Channels \cup {Automatic, Nothing} : popen(output)
           \/ setTime \/ setTimeFails \/ gettime
  BY <1>7, <1>9 DEF popen, setTime, setTimeFails, gettime
<1>10. ASSUME NEW look \in Looks, getStorageMB(look) PROVE LooksInv'
  <2>1. looks \in Seq(Looks) /\ looks' = Append(looks, look)
    BY <1>10 DEF StepsInv, getStorageMB
  <2>2. CASE Step("free")
    BY <2>1, <2>2 DEF StepsInv, At, Step, LooksInv
  <2>3. CASE Step("used") /\ value' \in Capacities(Free(looks[1]), Used(look))
    <3>1. Len(looks) = 1 /\ todo \in Todos /\ todo # <<>> /\ Head(todo) = "used"
      BY <2>3 DEF StepsInv, At, Step
    <3>2. looks'[1] = looks[1] /\ looks'[2] = look
      BY <2>1, <3>1, AppendSecond
    <3>3. todo = <<"used", "log", "answer", "log">>
      BY <3>1 DEF Todos
    <3>4. Tail(<<"used", "log", "answer", "log">>) = <<"log", "answer", "log">>
      OBVIOUS
    <3>5. todo' = <<"log", "answer", "log">>
      BY <1>10, <3>3, <3>4 DEF getStorageMB
    <3> QED
      BY <2>3, <3>2, <3>5, Zenon DEF LooksInv
  <2> QED
    BY <1>10, <2>2, <2>3 DEF getStorageMB
<1> QED
  BY <1>3, <1>4, <1>5, <1>8, <1>9, <1>10 DEF Next, Looks

\* The percentage of Toget_capacity lies between those of its two looks at the
\* disk, whatever is written to the disk or freed between them.
THEOREM CapacityIsBetween == Spec => []CapacityBetween
<1>1. Init => LooksInv
  BY DEF Init, LooksInv
<1>2. StepsInv /\ LooksInv /\ [Next]_vars => LooksInv'
  BY LooksStep
<1>3. StepsInv /\ LooksInv => CapacityBetween
  <2> SUFFICES ASSUME StepsInv, LooksInv, Len(looks) = 2,
                      Failed \notin {looks[1], looks[2]},
                      \A i, j \in 1 .. 2 : i <= j => Free(looks[i]) + Used(looks[j]) > 0
               PROVE  \E i \in 1 .. 2 :
                        LET p(j) == Percent(Free(looks[j]), Used(looks[j]))
                        IN  p(i) <= value /\ value <= p(3 - i)
    BY DEF CapacityBetween
  <2>1. PICK a, b : a = looks[1] /\ b = looks[2]
    OBVIOUS
  <2>2. a \in Looks /\ b \in Looks /\ a # Failed /\ b # Failed
    BY <2>1 DEF StepsInv
  <2>3. a \in 0 .. Total /\ b \in 0 .. Total
    BY <2>2 DEF Looks
  <2>4. /\ Free(a) \in Nat /\ Used(a) \in Nat /\ Free(b) \in Nat /\ Used(b) \in Nat
    BY <2>2, MegabytesTyped
  <2>5. Free(a) + Used(a) > 0 /\ Free(a) + Used(b) > 0 /\ Free(b) + Used(b) > 0
    BY <2>1
  <2>6. value = Percent(Free(a), Used(b))
    <3>1. Free(a) + Used(b) # 0
      BY <2>4, <2>5
    <3> QED
      BY <2>1, <3>1 DEF LooksInv, Capacities
  <2>7. CASE b <= a
    <3>1. Free(b) <= Free(a) /\ Used(a) <= Used(b)
      BY <2>2, <2>3, <2>7, MoreFreeLessUsed
    <3>2. /\ Percent(Free(a), Used(a)) <= Percent(Free(a), Used(b))
          /\ Percent(Free(a), Used(b)) <= Percent(Free(b), Used(b))
      BY <2>4, <2>5, <3>1, PercentMonotone
    <3> QED
      BY <2>1, <2>6, <3>2
  <2>8. CASE a <= b
    <3>1. Free(a) <= Free(b) /\ Used(b) <= Used(a)
      BY <2>2, <2>3, <2>8, MoreFreeLessUsed
    <3>2. /\ Percent(Free(b), Used(b)) <= Percent(Free(a), Used(b))
          /\ Percent(Free(a), Used(b)) <= Percent(Free(a), Used(a))
      BY <2>4, <2>5, <3>1, PercentMonotone
    <3>3. 3 - 2 = 1 /\ 2 \in 1 .. 2
      OBVIOUS
    <3> QED
      BY <2>1, <2>6, <3>2, <3>3
  <2> QED
    BY <2>3, <2>7, <2>8
<1> QED
  BY <1>1, <1>2, <1>3, Invariant, PTL DEF Spec
=============================================================================
