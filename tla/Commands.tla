------------------------------ MODULE Commands ------------------------------
(***************************************************************************)
(* The requests AppConn carries out (code/app/appconn.cpp, frameProcess and *)
(* the cmd_ functions): the scripts that start, save and stop a recording, *)
(* the channel, the disk and the clock, with what they log on the way.     *)
(*                                                                         *)
(* The one thread works through a request as through a list of steps; the  *)
(* clock goes on between them.  The reply itself is SocketServer's matter: *)
(* here it is `value` at the step "answer".                                *)
(***************************************************************************)
EXTENDS DailyLog, Sequences

CONSTANTS
  Total,    \* size of the disk in the unit statvfs is read in
  MB,       \* how many such units a megabyte has
  Channels  \* the channel numbers the script may print

ASSUME TotalAssumption    == Total \in Nat \ {0}
ASSUME MBAssumption       == MB \in Nat \ {0}
ASSUME ChannelsAssumption == Channels \subseteq Nat

VARIABLES
  todo,            \* the steps left of the request in hand
  results,         \* of each script of this request: "ok", "error", "failed"
  looks,           \* of each look at the disk: the free units, or Failed
  value,           \* what the reply will say
  channle_buffer,  \* the last chunk of output the channel script gave, ever
  recorder,        \* the recording processes are "on" or "off"
  saved            \* the running recording's map has been saved

cmdVars == <<todo, results, looks, value, channle_buffer, recorder, saved>>
vars == <<logVars, cmdVars>>

Failed    == -1  \* a statvfs or clock_settime that failed
NoValue   == -1
Nothing   == -1  \* no output
Automatic == -2  \* output that begins with an "a"

Init == /\ LogInit
        /\ todo = <<>>
        /\ results = <<>>
        /\ looks = <<>>
        /\ value = NoValue
        /\ channle_buffer = Nothing
        /\ recorder = "off"
        /\ saved = TRUE

\* Mutant: the recording is stopped before it is saved.
Scripts_KillFirst(t) == CASE t = 1 -> <<"run.sh", "log", "answer", "log">>
                          [] t \in {2, 3} -> <<"kill.sh", "save.sh", "log", "answer", "log">>
                          [] t = 4 -> <<"command", "log", "answer", "log">>
                          [] OTHER -> <<"log", "answer", "log">>

\* The steps of a CMD_SET_INFO; SendCmd logs and appends, and process logs
\* when the frame is done.  save-no-color.sh counts as save.sh.  Power off runs
\* the shell's `command`, not the poweroff.sh it has put together.
Scripts(t) == CASE t = 1 -> <<"run.sh", "log", "answer", "log">>
                [] t \in {2, 3} -> <<"save.sh", "kill.sh", "log", "answer", "log">>
                [] t = 4 -> <<"command", "log", "answer", "log">>
                [] OTHER -> <<"log", "answer", "log">>

Starts(steps, v) == /\ todo' = steps
                    /\ value' = v
                    /\ results' = <<>>
                    /\ looks' = <<>>
                    /\ UNCHANGED <<channle_buffer, recorder, saved, logVars>>

Idle == todo = <<>> /\ ended = "no"

\* Any other message the loop logs: an accept, a close, a discarded byte.
Other == Idle /\ Starts(<<"log">>, NoValue)

\* A request that does nothing else, or asks for what is always "0".
ack_ == Idle /\ Starts(<<"log", "answer", "log">>, 0)

cmd_set_info(t) == Idle /\ Starts(Scripts(t), IF t = 0 THEN 0 ELSE 1)

cmd_ask_info == Idle /\ Starts(<<"popen", "log", "answer", "log">>, NoValue)

cmd_state == Idle /\ Starts(<<"free", "used", "log", "answer", "log">>, NoValue)

cmd_set_time(t) == Idle /\ Starts(<<"settime", "answer", "log">>, t)

\* stoi or stod of a first parameter that is missing or is no number.
BadParameter == /\ Idle
                /\ ended' = "exception"
                /\ UNCHANGED <<now, msg, filename_, fd_, rotation_tp_, filed, late, setBack,
                               cmdVars>>

Step(s) == ended = "no" /\ todo # <<>> /\ Head(todo) = s

LogBegins == Step("log") /\ Stamp /\ UNCHANGED cmdVars

LogEnds == /\ Step("log")
           /\ Sink
           /\ todo' = Tail(todo)
           /\ UNCHANGED <<results, looks, value, channle_buffer, recorder, saved>>

\* system(): only a script that could not be started is told from success, and
\* the reply says what became of the last one.
system(s, result) ==
  /\ Step(s)
  /\ todo' = Tail(todo)
  /\ results' = Append(results, result)
  /\ value' = IF result = "failed" THEN 1 ELSE 0
  /\ recorder' = CASE result = "ok" /\ s = "run.sh" -> "on"
                   [] result = "ok" /\ s = "kill.sh" -> "off"
                   [] OTHER -> recorder
  /\ saved' = CASE result = "ok" /\ s = "run.sh" -> FALSE
                [] result = "ok" /\ s = "save.sh" -> TRUE
                [] OTHER -> saved
  /\ UNCHANGED <<looks, channle_buffer, logVars>>

\* What the script prints last replaces what it printed before, now or at an
\* earlier request; Automatic is answered as 99.
popen(output) ==
  /\ Step("popen")
  /\ todo' = Tail(todo)
  /\ channle_buffer' = IF output = Nothing THEN channle_buffer ELSE output
  /\ value' = IF channle_buffer' = Automatic THEN 99 ELSE channle_buffer'
  /\ UNCHANGED <<results, looks, recorder, saved, logVars>>

\* popen found no process or descriptor to spare; fgets reads from NULL.
popenFails == /\ Step("popen")
              /\ ended' = "fgets(NULL)"
              /\ UNCHANGED <<now, msg, filename_, fd_, rotation_tp_, filed, late, setBack,
                             cmdVars>>

\* getStorageMB: whole megabytes, the rest is cut off; 0 when statvfs fails.
Free(look) == IF look = Failed THEN 0 ELSE look \div MB
Used(look) == IF look = Failed THEN 0 ELSE (Total - look) \div MB

\* std::round of 100 * ut / (fy + ut), the quotient taken as exact.
Percent(fy, ut) == (200 * ut + fy + ut) \div (2 * (fy + ut))

\* Mutant: the percentage of what is free.
Capacities_OfFree(fy, ut) == IF fy + ut = 0 THEN {-21, 0} ELSE {Percent(ut, fy)}

\* 0/0 is no number and its conversion to an int undefined: INT_MIN, of which
\* the reply takes the first three characters, or 0.
Capacities(fy, ut) == IF fy + ut = 0 THEN {-21, 0} ELSE {Percent(fy, ut)}

\* The two looks of Toget_capacity; others write to the disk between them.
getStorageMB(look) ==
  /\ \/ Step("free") /\ UNCHANGED value
     \/ Step("used") /\ value' \in Capacities(Free(looks[1]), Used(look))
  /\ todo' = Tail(todo)
  /\ looks' = Append(looks, look)
  /\ UNCHANGED <<results, channle_buffer, recorder, saved, logVars>>

setTime == /\ Step("settime")
           /\ SetClock(value)
           /\ todo' = <<"log", "gettime", "log", "answer", "log">>
           /\ UNCHANGED <<results, looks, value, channle_buffer, recorder, saved>>

setTimeFails == /\ Step("settime")
                /\ todo' = Tail(todo)
                /\ value' = Failed
                /\ UNCHANGED <<results, looks, channle_buffer, recorder, saved, logVars>>

gettime == /\ Step("gettime")
           /\ todo' = Tail(todo)
           /\ value' = now
           /\ UNCHANGED <<results, looks, channle_buffer, recorder, saved, logVars>>

Answer == /\ Step("answer")
          /\ todo' = Tail(todo)
          /\ UNCHANGED <<results, looks, value, channle_buffer, recorder, saved, logVars>>

ClockTicks == ended = "no" /\ Tick /\ UNCHANGED cmdVars

Next == \/ ClockTicks
        \/ Other \/ ack_ \/ cmd_ask_info \/ cmd_state \/ BadParameter
        \/ \E t \in 0 .. 5 : cmd_set_info(t)
        \/ \E t \in Time : cmd_set_time(t)
        \/ LogBegins \/ LogEnds
        \/ \E s \in {"run.sh", "save.sh", "kill.sh", "command"},
             result \in {"ok", "error", "failed"} : system(s, result)
        \/ \E output \in Channels \cup {Automatic, Nothing} : popen(output)
        \/ popenFails
        \/ \E look \in 0 .. Total \cup {Failed} : getStorageMB(look)
        \/ setTime \/ setTimeFails \/ gettime
        \/ Answer

Spec == Init /\ [][Next]_vars
-----------------------------------------------------------------------------
TypeOK == /\ LogTypeOK
          /\ todo \in Seq({"log", "answer", "run.sh", "save.sh", "kill.sh", "command",
                           "popen", "free", "used", "settime", "gettime"})
          /\ results \in Seq({"ok", "error", "failed"})
          /\ looks \in Seq(0 .. Total \cup {Failed})
          /\ value \in Int
          /\ channle_buffer \in Channels \cup {Automatic, Nothing}
          /\ recorder \in {"on", "off"}
          /\ saved \in BOOLEAN

\* A request stops a running recording whose map is not saved only after the
\* save script of that very request went wrong.  (The reply does not tell: it
\* reports kill.sh.)
StoppedUnsaved ==
  [][recorder = "on" /\ recorder' = "off" /\ ~ saved => results \in {<<"error">>, <<"failed">>}]_vars

\* Toget_capacity looks at the disk twice while others write to it.  The
\* percentage it answers lies between what the two looks alone would give,
\* unless a look fails or there is nothing to divide by: less than a megabyte
\* was free at first and less than one used then, or the disk is that small.
CapacityBetween ==
  /\ Len(looks) = 2
  /\ Failed \notin {looks[1], looks[2]}
  /\ \A i, j \in 1 .. 2 : i <= j => Free(looks[i]) + Used(looks[j]) > 0
  => \E i \in 1 .. 2 : LET p(j) == Percent(Free(looks[j]), Used(looks[j]))
                      IN  p(i) <= value /\ value <= p(3 - i)
=============================================================================
