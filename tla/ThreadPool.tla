------------------------------ MODULE ThreadPool ------------------------------
(***************************************************************************)
(* The thread pool of code/pool/threadpool.h: detached workers that take   *)
(* tasks from a queue under a mutex and sleep on a condition variable,     *)
(* callers that add tasks, and the destructor.                             *)
(*                                                                         *)
(* AddTask and the destructor notify after they have let go of the mutex,  *)
(* so anything can happen in between.  A critical section of theirs does   *)
(* one thing and is one step, taken while the mutex is free.               *)
(***************************************************************************)
EXTENDS Naturals, Sequences, FiniteSets

CONSTANTS
  Workers,      \* the threadCount threads
  Callers,      \* threads that call AddTask
  MaxTasks,     \* tasks that are added at most
  MaxSpurious   \* how often a wait returns without being notified

ASSUME WorkerAssumption ==
  /\ IsFiniteSet(Workers) /\ IsFiniteSet(Callers)
  /\ MaxTasks \in Nat /\ MaxSpurious \in Nat
  /\ "free" \notin Workers

VARIABLES
  mtx,        \* the worker that holds the mutex, or "free"
  tasks,      \* the queue; a task is named by its place in the order of adding
  isClosed,
  pc,         \* where each worker is
  task,       \* the task each worker took last, 0 at first
  caller,     \* "out" or "notify": between AddTask's unlock and its notify_one
  dtor,       \* the destructor: "before", "notify", "after"
  added,      \* history: how many tasks were added
  ran,        \* history: the tasks that ran to their end
  spurious    \* wakeups that nobody caused

vars == <<mtx, tasks, isClosed, pc, task, caller, dtor, added, ran, spurious>>

Init ==
  /\ mtx = "free" /\ tasks = <<>> /\ isClosed = FALSE
  /\ pc = [w \in Workers |-> "lock"] /\ task = [w \in Workers |-> 0]
  /\ caller = [c \in Callers |-> "out"] /\ dtor = "before"
  /\ added = 0 /\ ran = {} /\ spurious = 0
-----------------------------------------------------------------------------
(* A worker.                                                               *)

Goto(w, label) == pc' = [pc EXCEPT ![w] = label]

Lock(w) ==
  /\ pc[w] = "lock" /\ mtx = "free"
  /\ mtx' = w /\ Goto(w, "test")
  /\ UNCHANGED <<tasks, isClosed, task, caller, dtor, added, ran, spurious>>

\* Mutant: the front of the queue is not popped.
Rest_Kept(q) == q

Rest(q) == Tail(q)

\* A task is taken and the mutex let go for the time it runs.
Take(w) ==
  /\ pc[w] = "test" /\ tasks # <<>>
  /\ task' = [task EXCEPT ![w] = Head(tasks)]
  /\ tasks' = Rest(tasks)
  /\ mtx' = "free" /\ Goto(w, "run")
  /\ UNCHANGED <<isClosed, caller, dtor, added, ran, spurious>>

\* Mutant: a closed pool is left at once.
MayEnd_Closed == isClosed

\* Whether a worker leaves the loop: not before the queue is empty.
MayEnd == tasks = <<>> /\ isClosed

End(w) ==
  /\ pc[w] = "test" /\ MayEnd
  /\ mtx' = "free" /\ Goto(w, "ended")
  /\ UNCHANGED <<tasks, isClosed, task, caller, dtor, added, ran, spurious>>

\* It has seen that there is nothing to do, and is about to wait.
GiveUp(w) ==
  /\ pc[w] = "test" /\ tasks = <<>> /\ ~ isClosed
  /\ Goto(w, "sleep")
  /\ UNCHANGED <<mtx, tasks, isClosed, task, caller, dtor, added, ran, spurious>>

\* Mutant: the mutex stays locked during the wait.
Released_Not == mtx

Released == "free"

\* cond.wait lets go of the mutex and waits in one step.
Wait(w) ==
  /\ pc[w] = "sleep"
  /\ mtx' = Released /\ Goto(w, "wait")
  /\ UNCHANGED <<tasks, isClosed, task, caller, dtor, added, ran, spurious>>

Run(w) ==
  /\ pc[w] = "run"
  /\ ran' = ran \cup {task[w]} /\ Goto(w, "lock")
  /\ UNCHANGED <<mtx, tasks, isClosed, task, caller, dtor, added, spurious>>

\* A wait may return on its own; its worker then needs the mutex again.
Spurious(w) ==
  /\ pc[w] = "wait" /\ spurious < MaxSpurious
  /\ spurious' = spurious + 1 /\ Goto(w, "lock")
  /\ UNCHANGED <<mtx, tasks, isClosed, task, caller, dtor, added, ran>>

Worker(w) == Lock(w) \/ Take(w) \/ End(w) \/ GiveUp(w) \/ Wait(w) \/ Run(w)
-----------------------------------------------------------------------------
(* The pool's users.                                                       *)

Waiting == {w \in Workers : pc[w] = "wait"}

\* Mutant: nobody is woken while somebody is awake.
notify_one_IfAllWait ==
  IF Waiting = Workers THEN \E w \in Waiting : Goto(w, "lock") ELSE UNCHANGED pc

notify_one == IF Waiting = {} THEN UNCHANGED pc ELSE \E w \in Waiting : Goto(w, "lock")

notify_all == pc' = [w \in Workers |-> IF w \in Waiting THEN "lock" ELSE pc[w]]

\* AddTask's critical section: the task goes to the end of the queue.  Nobody
\* calls AddTask on a pool that is being destroyed.
AddTask(c) ==
  /\ caller[c] = "out" /\ dtor = "before" /\ mtx = "free"
  /\ added < MaxTasks
  /\ added' = added + 1
  /\ tasks' = Append(tasks, added + 1)
  /\ caller' = [caller EXCEPT ![c] = "notify"]
  /\ UNCHANGED <<mtx, isClosed, pc, task, dtor, ran, spurious>>

AddTaskNotify(c) ==
  /\ caller[c] = "notify"
  /\ notify_one
  /\ caller' = [caller EXCEPT ![c] = "out"]
  /\ UNCHANGED <<mtx, tasks, isClosed, task, dtor, added, ran, spurious>>

\* Mutant: the flag is set without the mutex.
MayClose_Unlocked == TRUE

MayClose == mtx = "free"

\* ~ThreadPool, once every call of AddTask has returned.
Close ==
  /\ dtor = "before" /\ \A c \in Callers : caller[c] = "out"
  /\ MayClose
  /\ isClosed' = TRUE /\ dtor' = "notify"
  /\ UNCHANGED <<mtx, tasks, pc, task, caller, added, ran, spurious>>

CloseNotify ==
  /\ dtor = "notify"
  /\ notify_all
  /\ dtor' = "after"
  /\ UNCHANGED <<mtx, tasks, isClosed, task, caller, added, ran, spurious>>

Next ==
  \/ \E w \in Workers : Worker(w) \/ Spurious(w)
  \/ \E c \in Callers : AddTask(c) \/ AddTaskNotify(c)
  \/ Close \/ CloseNotify

Spec == Init /\ [][Next]_vars

\* Every thread goes on while it can, and tasks end.  Nobody has to add tasks or
\* to destroy the pool.  The mutex is fought for only finitely often, so no
\* fairness of its own is asked of it.
FairSpec ==
  /\ Spec
  /\ \A w \in Workers : WF_vars(Worker(w))
  /\ \A c \in Callers : WF_vars(AddTaskNotify(c))
  /\ WF_vars(CloseNotify)
-----------------------------------------------------------------------------
TypeOK ==
  /\ mtx \in Workers \cup {"free"}
  /\ tasks \in Seq(1 .. MaxTasks)
  /\ isClosed \in BOOLEAN
  /\ pc \in [Workers -> {"lock", "test", "run", "sleep", "wait", "ended"}]
  /\ task \in [Workers -> 0 .. MaxTasks]
  /\ caller \in [Callers -> {"out", "notify"}]
  /\ dtor \in {"before", "notify", "after"}
  /\ added \in 0 .. MaxTasks
  /\ ran \subseteq 1 .. MaxTasks
  /\ spurious \in 0 .. MaxSpurious
  \* the mutex belongs to the worker that looks at the queue, and to no other
  /\ \A w \in Workers : (mtx = w) <=> pc[w] \in {"test", "sleep"}

\* Every task that was added is in one place: queued, with one worker, or done.
Running == {w \in Workers : pc[w] = "run"}
EachOnce ==
  /\ \A i, j \in 1 .. Len(tasks) : i < j => tasks[i] < tasks[j]
  /\ \A i \in 1 .. Len(tasks) : tasks[i] \notin ran /\ \A w \in Running : task[w] # tasks[i]
  /\ \A w \in Running : task[w] \notin ran
  /\ \A v, w \in Running : task[v] = task[w] => v = w
  /\ ran \cup {task[w] : w \in Running} \cup {tasks[i] : i \in 1 .. Len(tasks)} = 1 .. added

\* No worker sleeps over a queued task: while one waits, there are at least as
\* many notifications to come and workers about to look as there are tasks.
\* (The notifications come late and may wake somebody who finds nothing.)
Awake == {w \in Workers : pc[w] \in {"lock", "test"}}
Notifying == {c \in Callers : caller[c] = "notify"}
NoTaskSleptOver ==
  Waiting # {} => Len(tasks) <= Cardinality(Notifying) + Cardinality(Awake)

\* Every added task runs, also when the pool is destroyed while it is queued.
TaskRuns == \A t \in 1 .. MaxTasks : (added >= t) ~> (t \in ran)

\* After the destructor every worker ends: none misses the flag between its
\* test and its wait.
WorkersEnd == isClosed ~> \A w \in Workers : pc[w] = "ended"
=============================================================================
