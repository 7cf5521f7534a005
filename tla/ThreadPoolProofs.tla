--------------------------- MODULE ThreadPoolProofs ---------------------------
(***************************************************************************)
(* The thread pool for any number of workers, callers and tasks: every     *)
(* task is in one place and runs at most once, and no worker sleeps over   *)
(* one.  The second needs to know that a worker which has decided to wait  *)
(* still holds the mutex over an empty queue.                              *)
(***************************************************************************)
EXTENDS ThreadPool, FiniteSetTheorems, TLAPS

\* What the worker that is about to wait has seen is still so.
SleepsRightly == \A w \in Workers : pc[w] = "sleep" => tasks = <<>> /\ ~ isClosed

\* A worker that runs a task has taken one.
TaskInHand == \A w \in Workers : pc[w] = "run" => task[w] # 0

TypedInv == TypeOK /\ SleepsRightly /\ TaskInHand

-----------------------------------------------------------------------------
(* Types.                                                                  *)

LEMMA InitTyped == Init => TypedInv
<1> SUFFICES ASSUME Init PROVE TypedInv
  OBVIOUS
<1> USE WorkerAssumption DEF Init
<1>1. /\ tasks \in Seq(1 .. MaxTasks) /\ task \in [Workers -> 0 .. MaxTasks]
      /\ added \in 0 .. MaxTasks /\ spurious \in 0 .. MaxSpurious
  OBVIOUS
<1>2. /\ pc \in [Workers -> {"lock", "test", "run", "sleep", "wait", "ended"}]
      /\ caller \in [Callers -> {"out", "notify"}]
  OBVIOUS
<1>3. \A w \in Workers : pc[w] = "lock" /\ mtx # w
  OBVIOUS
<1> QED
  BY <1>1, <1>2, <1>3 DEF TypedInv, TypeOK, SleepsRightly, TaskInHand

LEMMA HeadAndTail ==
  ASSUME NEW S, NEW q \in Seq(S), q # <<>>
  PROVE  /\ Head(q) \in S /\ Tail(q) \in Seq(S)
         /\ Len(q) \in Nat \ {0} /\ Len(Tail(q)) = Len(q) - 1
         /\ Head(q) = q[1]
         /\ \A i \in 1 .. Len(q) - 1 : Tail(q)[i] = q[i + 1]
OBVIOUS

LEMMA WorkerTyped ==
  ASSUME TypedInv, NEW w \in Workers, Worker(w) PROVE TypedInv'
<1> USE WorkerAssumption DEF TypedInv, TypeOK, SleepsRightly, TaskInHand, Goto
<1>1. CASE Lock(w)
  BY <1>1 DEF Lock
<1>2. CASE Take(w)
  <2>1. Head(tasks) \in 1 .. MaxTasks /\ Tail(tasks) \in Seq(1 .. MaxTasks)
    BY <1>2, HeadAndTail DEF Take
  <2>2. task' \in [Workers -> 0 .. MaxTasks]
    BY <1>2, <2>1 DEF Take
  <2>3. /\ pc' \in [Workers -> {"lock", "test", "run", "sleep", "wait", "ended"}]
        /\ \A v \in Workers : pc'[v] = IF v = w THEN "run" ELSE pc[v]
        /\ mtx = w /\ mtx' = "free" /\ tasks' = Tail(tasks)
    BY <1>2 DEF Take, Rest
  <2>4. \A v \in Workers : task'[v] = IF v = w THEN Head(tasks) ELSE task[v]
    BY <1>2 DEF Take
  <2> QED
    BY <1>2, <2>1, <2>2, <2>3, <2>4 DEF Take
<1>3. CASE End(w)
  BY <1>3 DEF End
<1>4. CASE GiveUp(w)
  BY <1>4 DEF GiveUp
<1>5. CASE Wait(w)
  BY <1>5 DEF Wait, Released
<1>6. CASE Run(w)
  <2>1. task[w] \in 1 .. MaxTasks
    BY <1>6 DEF Run
  <2> QED
    BY <1>6, <2>1 DEF Run
<1> QED
  BY <1>1, <1>2, <1>3, <1>4, <1>5, <1>6 DEF Worker

LEMMA UserTyped ==
  ASSUME TypedInv,
         (\E w \in Workers : Spurious(w)) \/ (\E c \in Callers : AddTask(c) \/ AddTaskNotify(c))
           \/ Close \/ CloseNotify
  PROVE  TypedInv'
<1> USE WorkerAssumption DEF TypedInv, TypeOK, SleepsRightly, TaskInHand, Goto
<1>1. ASSUME NEW w \in Workers, Spurious(w) PROVE TypedInv'
  BY <1>1 DEF Spurious
<1>2. ASSUME NEW c \in Callers, AddTask(c) PROVE TypedInv'
  <2>1. tasks' \in Seq(1 .. MaxTasks) /\ added' \in 0 .. MaxTasks
    BY <1>2 DEF AddTask
  <2>2. \A w \in Workers : pc[w] \notin {"test", "sleep"}
    BY <1>2 DEF AddTask
  <2> QED
    BY <1>2, <2>1, <2>2 DEF AddTask
<1>3. ASSUME NEW c \in Callers, AddTaskNotify(c) PROVE TypedInv'
  <2>1. caller' \in [Callers -> {"out", "notify"}]
    BY <1>3 DEF AddTaskNotify
  <2>2. CASE UNCHANGED pc
    BY <1>3, <2>1, <2>2 DEF AddTaskNotify
  <2>3. CASE \E w \in Waiting : Goto(w, "lock")
    <3>1. PICK w \in Waiting : Goto(w, "lock")
      BY <2>3
    <3> QED
      BY <1>3, <2>1, <3>1 DEF AddTaskNotify, Waiting
  <2> QED
    BY <1>3, <2>2, <2>3 DEF AddTaskNotify, notify_one
<1>4. CASE Close
  <2>1. \A w \in Workers : pc[w] \notin {"test", "sleep"}
    BY <1>4 DEF Close, MayClose
  <2> QED
    BY <1>4, <2>1 DEF Close
<1>5. CASE CloseNotify
  <2>1. \A w \in Workers : pc'[w] = pc[w] \/ (pc[w] = "wait" /\ pc'[w] = "lock")
    BY <1>5 DEF CloseNotify, notify_all, Waiting
  <2>2. pc' \in [Workers -> {"lock", "test", "run", "sleep", "wait", "ended"}]
    BY <1>5 DEF CloseNotify, notify_all, Waiting
  <2> QED
    BY <1>5, <2>1, <2>2 DEF CloseNotify
<1> QED
  BY <1>1, <1>2, <1>3, <1>4, <1>5

LEMMA StutterTyped == TypedInv /\ UNCHANGED vars => TypedInv'
BY DEF TypedInv, TypeOK, SleepsRightly, TaskInHand, vars

LEMMA TypedAlways == Spec => []TypedInv
<1>1. TypedInv /\ [Next]_vars => TypedInv'
  BY WorkerTyped, UserTyped, StutterTyped DEF Next
<1> QED
  BY <1>1, InitTyped, PTL DEF Spec

\* Types, and the mutex: whoever looks at the queue holds it.
THEOREM PoolTyped == Spec => []TypeOK
<1>1. TypedInv => TypeOK
  BY DEF TypedInv
<1> QED
  BY <1>1, TypedAlways, PTL

-----------------------------------------------------------------------------
(* No worker sleeps over a task.                                           *)

SleptInv == TypedInv /\ NoTaskSleptOver

LEMMA FiniteGroups ==
  ASSUME NEW S, S = Awake \/ S = Notifying
  PROVE  IsFiniteSet(S) /\ Cardinality(S) \in Nat
<1>1. Awake \in SUBSET Workers /\ Notifying \in SUBSET Callers
  BY DEF Awake, Notifying
<1>2. IsFiniteSet(S)
  BY <1>1, WorkerAssumption, FS_Subset
<1> QED
  BY <1>2, FS_CardinalityType

\* Steps that leave the queue and the notifications and wake nobody up or
\* somebody: the bound stays.
LEMMA MoreAwake ==
  ASSUME SleptInv, TypeOK', UNCHANGED <<tasks, caller>>,
         Awake \subseteq Awake', IsFiniteSet(Awake'), Waiting' \subseteq Waiting
  PROVE  NoTaskSleptOver'
<1>1. Cardinality(Awake) <= Cardinality(Awake') /\ Cardinality(Awake') \in Nat
  BY FS_Subset, FS_CardinalityType
<1>2. Notifying' = Notifying
  BY DEF Notifying
<1>3. /\ Cardinality(Awake) \in Nat /\ Cardinality(Notifying) \in Nat
      /\ Len(tasks) \in Nat
  BY FiniteGroups DEF SleptInv, TypedInv, TypeOK
<1> HIDE DEF Awake, Notifying, Waiting
<1> QED
  BY <1>1, <1>2, <1>3 DEF NoTaskSleptOver, SleptInv

LEMMA WorkerSlept ==
  ASSUME SleptInv, TypedInv', NEW w \in Workers, Worker(w) \/ Spurious(w)
  PROVE  NoTaskSleptOver'
<1>0. /\ pc \in [Workers -> {"lock", "test", "run", "sleep", "wait", "ended"}]
      /\ tasks \in Seq(1 .. MaxTasks)
      /\ Cardinality(Awake) \in Nat /\ Cardinality(Notifying) \in Nat
      /\ IsFiniteSet(Awake)
  BY FiniteGroups DEF SleptInv, TypedInv, TypeOK
<1>1. CASE Lock(w)
  <2>1. Awake' = Awake /\ Waiting' = Waiting
    BY <1>0, <1>1 DEF Lock, Goto, Awake, Waiting
  <2>2. UNCHANGED <<tasks, caller>>
    BY <1>1 DEF Lock
  <2> QED
    BY <1>0, <2>1, <2>2, MoreAwake DEF TypedInv
<1>2. CASE Take(w)
  <2>1. Awake' = Awake \ {w} /\ w \in Awake /\ Waiting' = Waiting /\ Notifying' = Notifying
    BY <1>0, <1>2 DEF Take, Goto, Awake, Waiting, Notifying
  <2>2. Cardinality(Awake') = Cardinality(Awake) - 1
    BY <1>0, <2>1, FS_RemoveElement
  <2>3. Len(tasks') = Len(tasks) - 1 /\ Len(tasks) \in Nat
    BY <1>0, <1>2, HeadAndTail DEF Take, Rest
  <2> QED
    BY <1>0, <2>1, <2>2, <2>3 DEF NoTaskSleptOver, SleptInv
<1>3. CASE End(w) \/ GiveUp(w) \/ Wait(w)
  <2>1. tasks' = <<>>
    BY <1>3 DEF End, MayEnd, GiveUp, Wait, SleptInv, TypedInv, SleepsRightly
  <2>2. IsFiniteSet(Awake') /\ IsFiniteSet(Notifying')
    <3>1. Awake' \in SUBSET Workers /\ Notifying' \in SUBSET Callers
      BY DEF Awake, Notifying
    <3> QED
      BY <3>1, WorkerAssumption, FS_Subset
  <2>3. Cardinality(Awake') \in Nat /\ Cardinality(Notifying') \in Nat
    BY <2>2, FS_CardinalityType
  <2> QED
    BY <2>1, <2>3 DEF NoTaskSleptOver
<1>4. CASE Run(w) \/ Spurious(w)
  <2>1. Awake' = Awake \cup {w} /\ Waiting' \subseteq Waiting
    BY <1>0, <1>4 DEF Run, Spurious, Goto, Awake, Waiting
  <2>2. UNCHANGED <<tasks, caller>>
    BY <1>4 DEF Run, Spurious
  <2>3. IsFiniteSet(Awake') /\ Awake \subseteq Awake'
    BY <1>0, <2>1, FS_AddElement
  <2> QED
    BY <2>1, <2>2, <2>3, MoreAwake DEF TypedInv
<1> QED
  BY <1>1, <1>2, <1>3, <1>4 DEF Worker

LEMMA UserSlept ==
  ASSUME SleptInv, TypedInv', NEW c \in Callers, AddTask(c) \/ AddTaskNotify(c)
  PROVE  NoTaskSleptOver'
<1>0. /\ pc \in [Workers -> {"lock", "test", "run", "sleep", "wait", "ended"}]
      /\ caller \in [Callers -> {"out", "notify"}]
      /\ tasks \in Seq(1 .. MaxTasks) /\ Len(tasks) \in Nat
      /\ Cardinality(Awake) \in Nat /\ Cardinality(Notifying) \in Nat
      /\ IsFiniteSet(Awake) /\ IsFiniteSet(Notifying)
  BY FiniteGroups DEF SleptInv, TypedInv, TypeOK
<1>1. CASE AddTask(c)
  <2>1. /\ Awake' = Awake /\ Waiting' = Waiting
        /\ Notifying' = Notifying \cup {c} /\ c \notin Notifying
    BY <1>0, <1>1 DEF AddTask, Awake, Waiting, Notifying
  <2>2. Cardinality(Notifying') = Cardinality(Notifying) + 1
    BY <1>0, <2>1, FS_AddElement
  <2>3. Len(tasks') = Len(tasks) + 1
    BY <1>0, <1>1 DEF AddTask
  <2> QED
    BY <1>0, <2>1, <2>2, <2>3 DEF NoTaskSleptOver, SleptInv
<1>2. CASE AddTaskNotify(c)
  <2>1. Notifying' = Notifying \ {c} /\ c \in Notifying /\ tasks' = tasks
    BY <1>0, <1>2 DEF AddTaskNotify, Notifying
  <2>2. CASE Waiting = {}
    BY <1>2, <2>2 DEF AddTaskNotify, notify_one, Waiting, NoTaskSleptOver
  <2>3. CASE Waiting # {}
    <3>1. PICK w \in Waiting : Goto(w, "lock")
      BY <1>2, <2>3 DEF AddTaskNotify, notify_one
    <3>2. Awake' = Awake \cup {w} /\ w \notin Awake
      BY <1>0, <3>1 DEF Goto, Awake, Waiting
    <3>3. /\ Cardinality(Awake') = Cardinality(Awake) + 1
          /\ Cardinality(Notifying') = Cardinality(Notifying) - 1
      BY <1>0, <2>1, <3>2, FS_AddElement, FS_RemoveElement
    <3> QED
      BY <1>0, <2>1, <2>3, <3>3 DEF NoTaskSleptOver, SleptInv
  <2> QED
    BY <2>2, <2>3
<1> QED
  BY <1>1, <1>2

\* While a worker waits, every queued task has a notification or a worker to
\* come for it.
THEOREM TasksNotSleptOver == Spec => []NoTaskSleptOver
<1>1. Init => NoTaskSleptOver
  BY DEF Init, NoTaskSleptOver, Waiting
<1>2. SleptInv /\ TypedInv' /\ [Next]_vars => NoTaskSleptOver'
  <2> SUFFICES ASSUME SleptInv, TypedInv', [Next]_vars PROVE NoTaskSleptOver'
    OBVIOUS
  <2>1. CASE Close \/ UNCHANGED vars
    BY <2>1 DEF Close, vars, SleptInv, NoTaskSleptOver, Waiting, Awake, Notifying
  <2>2. CASE CloseNotify
    <3>1. Waiting' = {}
      BY <2>2 DEF CloseNotify, notify_all, Waiting, SleptInv, TypedInv, TypeOK
    <3> QED
      BY <3>1 DEF NoTaskSleptOver
  <2> QED
    BY <2>1, <2>2, WorkerSlept, UserSlept DEF Next
<1> QED
  BY <1>1, <1>2, TypedAlways, PTL DEF Spec, SleptInv
-----------------------------------------------------------------------------
(* Every task is in one place.                                             *)

LEMMA TakeOnce ==
  ASSUME TypedInv, EachOnce, NEW w \in Workers, Take(w) PROVE EachOnce'
<1> DEFINE t == Head(tasks)
<1>0. /\ pc \in [Workers -> {"lock", "test", "run", "sleep", "wait", "ended"}]
      /\ task \in [Workers -> 0 .. MaxTasks]
      /\ tasks \in Seq(1 .. MaxTasks) /\ tasks # <<>>
  BY DEF TypedInv, TypeOK, Take
<1>1. /\ Len(tasks) \in Nat \ {0} /\ t = tasks[1]
      /\ Len(tasks') = Len(tasks) - 1
      /\ \A i \in 1 .. Len(tasks) - 1 : tasks'[i] = tasks[i + 1]
  BY <1>0, HeadAndTail DEF Take, Rest
<1>2. /\ Running' = Running \cup {w} /\ w \notin Running
      /\ task'[w] = t
      /\ \A v \in Running : task'[v] = task[v]
      /\ ran' = ran /\ added' = added
  BY <1>0 DEF Take, Goto, Running
<1> HIDE DEF t
<1>3. \A i \in 1 .. Len(tasks') : i + 1 \in 1 .. Len(tasks) /\ 1 < i + 1 /\ 1 \in 1 .. Len(tasks)
  BY <1>1
<1>4. /\ \A i \in 1 .. Len(tasks') : t < tasks'[i]
      /\ \A i, j \in 1 .. Len(tasks') : i < j => tasks'[i] < tasks'[j]
  <2>1. \A i, j \in 1 .. Len(tasks) : i < j => tasks[i] < tasks[j]
    BY DEF EachOnce
  <2>2. ASSUME NEW i \in 1 .. Len(tasks') PROVE t < tasks'[i]
    BY <1>1, <1>3, <2>1
  <2>3. ASSUME NEW i \in 1 .. Len(tasks'), NEW j \in 1 .. Len(tasks'), i < j
        PROVE  tasks'[i] < tasks'[j]
    <3>1. i + 1 < j + 1 /\ i + 1 \in 1 .. Len(tasks) /\ j + 1 \in 1 .. Len(tasks)
      BY <1>1, <2>3
    <3> QED
      BY <1>1, <2>1, <3>1
  <2> QED
    BY <2>2, <2>3
<1>5. t \notin ran /\ \A v \in Running : task[v] # t
  BY <1>1 DEF EachOnce
<1>6. \A i \in 1 .. Len(tasks') :
        tasks'[i] \notin ran /\ tasks'[i] # t /\ \A v \in Running : task[v] # tasks'[i]
  <2> SUFFICES ASSUME NEW i \in 1 .. Len(tasks')
               PROVE  tasks'[i] \notin ran /\ tasks'[i] # t
                      /\ \A v \in Running : task[v] # tasks'[i]
    OBVIOUS
  <2>1. tasks'[i] = tasks[i + 1] /\ i + 1 \in 1 .. Len(tasks)
    BY <1>1, <1>3
  <2>2. t \in Nat /\ tasks'[i] \in Nat
    <3>1. \A k \in 1 .. Len(tasks) : tasks[k] \in Nat
      BY <1>0, WorkerAssumption
    <3> QED
      BY <1>1, <1>3, <2>1, <3>1
  <2>3. tasks'[i] # t
    BY <1>4, <2>2
  <2> QED
    BY <2>1, <2>3 DEF EachOnce
<1>7. {tasks[i] : i \in 1 .. Len(tasks)} = {t} \cup {tasks'[i] : i \in 1 .. Len(tasks')}
  <2>1. ASSUME NEW i \in 1 .. Len(tasks), i # 1
        PROVE  i - 1 \in 1 .. Len(tasks') /\ tasks'[i - 1] = tasks[i]
    BY <1>1, <2>1
  <2> QED
    BY <1>1, <1>3, <2>1
<1>8. {task'[v] : v \in Running'} = {task[v] : v \in Running} \cup {t}
  BY <1>2
<1>9. ran' \cup {task'[v] : v \in Running'} \cup {tasks'[i] : i \in 1 .. Len(tasks')} = 1 .. added'
  BY <1>2, <1>7, <1>8 DEF EachOnce
<1> QED
  BY <1>2, <1>4, <1>5, <1>6, <1>9 DEF EachOnce

LEMMA RunOnce ==
  ASSUME TypedInv, EachOnce, NEW w \in Workers, Run(w) PROVE EachOnce'
<1>1. pc \in [Workers -> {"lock", "test", "run", "sleep", "wait", "ended"}]
  BY DEF TypedInv, TypeOK
<1>2. /\ Running' = Running \ {w} /\ w \in Running
      /\ ran' = ran \cup {task[w]}
      /\ UNCHANGED <<task, tasks, added>>
  BY <1>1 DEF Run, Goto, Running
<1>3. {task[v] : v \in Running} = {task'[v] : v \in Running'} \cup {task[w]}
  BY <1>2
<1>4. \A v \in Running' : task[v] # task[w]
  BY <1>2 DEF EachOnce
<1>5. \A i \in 1 .. Len(tasks) : tasks[i] \notin ran'
  BY <1>2 DEF EachOnce
<1>6. ran' \cup {task'[v] : v \in Running'} \cup {tasks'[i] : i \in 1 .. Len(tasks')} = 1 .. added'
  BY <1>2, <1>3 DEF EachOnce
<1> QED
  BY <1>2, <1>4, <1>5, <1>6 DEF EachOnce

LEMMA AddOnce ==
  ASSUME TypedInv, EachOnce, NEW c \in Callers, AddTask(c) PROVE EachOnce'
<1> DEFINE n == Len(tasks)
           queued == {tasks[i] : i \in 1 .. n}
<1>1. tasks \in Seq(1 .. MaxTasks) /\ n \in Nat /\ added \in Nat
  BY WorkerAssumption DEF TypedInv, TypeOK
<1>2. /\ Len(tasks') = n + 1 /\ tasks'[n + 1] = added + 1
      /\ \A i \in 1 .. n : tasks'[i] = tasks[i] /\ tasks[i] \in queued
      /\ added' = added + 1
      /\ UNCHANGED <<ran, task, pc>>
  BY <1>1 DEF AddTask
<1>3. Running' = Running
  BY <1>2 DEF Running
<1>4. /\ queued \subseteq 1 .. added /\ ran \subseteq 1 .. added
      /\ \A w \in Running : task[w] \in 1 .. added
  BY DEF EachOnce
<1>5. {tasks'[i] : i \in 1 .. Len(tasks')} = queued \cup {added + 1}
  <2>1. \A i \in 1 .. n + 1 : i \in 1 .. n \/ i = n + 1
    BY <1>1
  <2>2. n + 1 \in 1 .. n + 1 /\ 1 .. n \subseteq 1 .. n + 1
    BY <1>1
  <2> QED
    BY <1>2, <2>1, <2>2
<1> HIDE DEF n, queued
<1>6. \A i, j \in 1 .. n + 1 : i < j => tasks'[i] < tasks'[j]
  <2> SUFFICES ASSUME NEW i \in 1 .. n + 1, NEW j \in 1 .. n + 1, i < j
               PROVE  tasks'[i] < tasks'[j]
    OBVIOUS
  <2>1. i \in 1 .. n
    BY <1>1
  <2>2. CASE j \in 1 .. n
    BY <1>2, <2>1, <2>2 DEF EachOnce, n
  <2>3. CASE j = n + 1
    <3>1. tasks'[i] \in 1 .. added
      BY <1>2, <1>4, <2>1
    <3> QED
      BY <1>1, <1>2, <2>3, <3>1
  <2> QED
    BY <1>1, <2>2, <2>3
<1>7. added + 1 \notin ran /\ \A w \in Running : task[w] # added + 1
  BY <1>1, <1>4
<1>8. \A i \in 1 .. n + 1 : tasks'[i] \notin ran /\ \A w \in Running : task[w] # tasks'[i]
  <2>1. \A i \in 1 .. n : tasks'[i] \notin ran /\ \A w \in Running : task[w] # tasks'[i]
    BY <1>2 DEF EachOnce, n
  <2> QED
    BY <1>1, <1>2, <1>7, <2>1
<1>9. ran \cup {task[w] : w \in Running} \cup (queued \cup {added + 1}) = 1 .. added'
  <2>1. ran \cup {task[w] : w \in Running} \cup queued = 1 .. added
    BY DEF EachOnce, queued, n
  <2>2. 1 .. added + 1 = (1 .. added) \cup {added + 1}
    BY <1>1
  <2> QED
    BY <1>2, <2>1, <2>2
<1> QED
  BY <1>2, <1>3, <1>5, <1>6, <1>8, <1>9 DEF EachOnce

\* A task that was added is queued, with one worker or done, and only one of
\* these: none is lost and none runs twice.
THEOREM TasksOnce == Spec => []EachOnce
<1>1. Init => EachOnce
  BY DEF Init, EachOnce, Running
<1>2. TypedInv /\ EachOnce /\ [Next]_vars => EachOnce'
  <2> SUFFICES ASSUME TypedInv, EachOnce, [Next]_vars PROVE EachOnce'
    OBVIOUS
  <2>1. ASSUME UNCHANGED <<tasks, task, added, ran>>, Running' = Running PROVE EachOnce'
    BY <2>1 DEF EachOnce
  <2>2. pc \in [Workers -> {"lock", "test", "run", "sleep", "wait", "ended"}]
    BY DEF TypedInv, TypeOK
  <2>3. ASSUME NEW w \in Workers, Lock(w) \/ End(w) \/ GiveUp(w) \/ Wait(w) \/ Spurious(w)
        PROVE  EachOnce'
    <3>1. Running' = Running
      BY <2>2, <2>3 DEF Lock, End, GiveUp, Wait, Spurious, Goto, Running
    <3> QED
      BY <2>1, <2>3, <3>1 DEF Lock, End, GiveUp, Wait, Spurious
  <2>4. ASSUME NEW c \in Callers, AddTaskNotify(c) PROVE EachOnce'
    <3>1. Running' = Running
      BY <2>2, <2>4 DEF AddTaskNotify, notify_one, Waiting, Goto, Running
    <3> QED
      BY <2>1, <2>4, <3>1 DEF AddTaskNotify
  <2>5. CASE Close \/ CloseNotify \/ UNCHANGED vars
    <3>1. Running' = Running
      BY <2>2, <2>5 DEF Close, CloseNotify, notify_all, Waiting, Running, vars
    <3> QED
      BY <2>1, <2>5, <3>1 DEF Close, CloseNotify, vars
  <2> QED
    BY <2>3, <2>4, <2>5, TakeOnce, RunOnce, AddOnce DEF Next, Worker
<1> QED
  BY <1>1, <1>2, TypedAlways, PTL DEF Spec
=============================================================================
