------------------------------ MODULE DailyLog ------------------------------
(***************************************************************************)
(* The log file: spdlog's daily_file_sink as LogManager (code/log/         *)
(* applog.h) sets it up, with a new file at 0:00 of every day.  A message  *)
(* is stamped when the call begins and filed some time later, while the    *)
(* clock goes on; setTime may also set the clock, forward or back.         *)
(*                                                                         *)
(* Simplifications: one clock tick is a fraction of a day, every day has   *)
(* the same length, and only setTime sets the clock.                       *)
(***************************************************************************)
EXTENDS Integers

CONSTANTS
  DayLength,  \* ticks of a day
  Horizon     \* bound: the last tick of the clock

ASSUME DayAssumption     == DayLength \in Nat \ {0}
ASSUME HorizonAssumption == Horizon \in Nat /\ 2 * DayLength <= Horizon

VARIABLES
  now,           \* CLOCK_REALTIME
  msg,           \* the time stamped on the message being logged, or NoMessage
  filename_,     \* the day in the name of the last file that open was called for
  fd_,           \* whether that file is open
  rotation_tp_,  \* the time from which a message needs another file
  filed,         \* history: the last message written: its day, its file's, and
                 \* what late and setBack were when it was written
  late,          \* history: rotation_tp_ was computed on a later day than filename_
  setBack,       \* history: the clock was set back since open was last called
  ended          \* how the process ended, or "no"

logVars == <<now, msg, filename_, fd_, rotation_tp_, filed, late, setBack, ended>>

NoMessage == -1
Time      == 0 .. Horizon
Day(t)    == t \div DayLength

\* Mutant: a day from now instead of the next midnight.
next_rotation_tp_InADay == now + DayLength

\* The midnight before `now` is never after it: a day is always added.
next_rotation_tp_ == (Day(now) + 1) * DayLength

Filed(day, file, l, back) == [day |-> day, file |-> file, late |-> l, setBack |-> back]

\* LogManager(): the file is named after the day on which the sink's constructor
\* began; opening it may take past midnight, before the clock is read again for
\* the rotation time.
LogInit == /\ \E began \in 0 .. DayLength - 1 :
                /\ now \in began .. began + DayLength - 1
                /\ filename_ = Day(began)
           /\ msg = NoMessage
           /\ fd_ = TRUE
           /\ rotation_tp_ = next_rotation_tp_
           /\ filed = Filed(filename_, filename_, FALSE, FALSE)
           /\ late = (Day(now) # filename_)
           /\ setBack = FALSE
           /\ ended = "no"

\* A call of the logger takes less than a day.
Tick == /\ now < Horizon
        /\ msg # NoMessage => now + 1 < msg + DayLength
        /\ now' = now + 1
        /\ UNCHANGED <<msg, filename_, fd_, rotation_tp_, filed, late, setBack, ended>>

\* clock_settime, in setTime.
SetClock(t) == /\ now' = t
               /\ setBack' = (setBack \/ t < now)
               /\ UNCHANGED <<msg, filename_, fd_, rotation_tp_, filed, late, ended>>

\* logger->info and its like: log_msg takes the time.
Stamp == /\ msg = NoMessage
         /\ msg' = now
         /\ UNCHANGED <<now, filename_, fd_, rotation_tp_, filed, late, setBack, ended>>

\* Mutant: only a message of the very day takes its file.
should_rotate_ByName == Day(msg) > filename_

should_rotate == msg >= rotation_tp_

\* fopen succeeds, the message is written to the file named after its day.
Rotate == /\ should_rotate
          /\ filename_' = Day(msg)
          /\ fd_' = TRUE
          /\ rotation_tp_' = next_rotation_tp_
          /\ late' = (Day(now) # Day(msg))
          /\ setBack' = FALSE
          /\ filed' = Filed(Day(msg), Day(msg), late', FALSE)
          /\ UNCHANGED ended

\* open has closed the old file when fopen fails; the logger catches the
\* exception, the message is lost and the rotation time stays.
RotateFails == /\ should_rotate
               /\ filename_' = Day(msg)
               /\ fd_' = FALSE
               /\ setBack' = FALSE
               /\ UNCHANGED <<rotation_tp_, filed, late, ended>>

\* Without a rotation the message goes to the file that is open; fwrite to no
\* file at all ends the process.
Write == /\ ~ should_rotate
         /\ IF fd_ THEN /\ filed' = Filed(Day(msg), filename_, late, setBack)
                        /\ UNCHANGED ended
                   ELSE /\ ended' = "fwrite(NULL)"
                        /\ UNCHANGED filed
         /\ UNCHANGED <<filename_, fd_, rotation_tp_, late, setBack>>

\* sink_it_ of the file sink, to the end of the call.
Sink == /\ msg # NoMessage
        /\ msg' = NoMessage
        /\ Rotate \/ RotateFails \/ Write
        /\ UNCHANGED now
-----------------------------------------------------------------------------
LogTypeOK == /\ now \in Time
             /\ msg \in Time \cup {NoMessage}
             /\ filename_ \in Nat
             /\ fd_ \in BOOLEAN
             /\ rotation_tp_ \in Nat /\ rotation_tp_ = Day(rotation_tp_) * DayLength  \* a midnight
             /\ filed \in [day : Nat, file : Nat, late : BOOLEAN, setBack : BOOLEAN]
             /\ late \in BOOLEAN
             /\ setBack \in BOOLEAN
             /\ ended \in {"no", "exception", "fgets(NULL)", "fwrite(NULL)"}

\* What "a log file for every day" (applog.h) comes to.  A message is found in
\* the file of its day or of the day before, the latter only when that file
\* was opened across midnight (for a message stamped the day before, or by a
\* constructor that began the day before), so that its rotation time is a day
\* late; it is in a later day's file only if the clock was set back since that
\* file was opened.
FiledByDay == /\ filed.day <= filed.file + 1
              /\ filed.file < filed.day => filed.late
              /\ filed.file > filed.day => filed.setBack

\* After a failed open the next messages try again.  The one way from there
\* into fwrite with no file is a clock that setTime has set back meanwhile.
NoFileNeedsSetBack == ended = "fwrite(NULL)" => setBack
=============================================================================
