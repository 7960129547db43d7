----------------------------- MODULE Threadpool -----------------------------
(***************************************************************************)
(* Util::Threadpool: a fixed set of threads, a task list behind one mutex, *)
(* and two condition variables: m_cdWorkAvail for the threads, m_cdIdle    *)
(* for the owner of the pool, who adds tasks and waits for all of them.    *)
(*                                                                         *)
(* What a thread does while it holds the mutex is one step. A wait gives   *)
(* the mutex up and may also end without a notification.                   *)
(***************************************************************************)
EXTENDS Naturals, Sequences, FiniteSets

CONSTANTS
    Workers,    \* m_threads
    Tasks,      \* what can be run
    NoTask

ASSUME ThreadpoolAssumption == IsFiniteSet(Workers) /\ NoTask \notin Tasks

VARIABLES
    m_tasks,        \* tasks nobody has taken yet
    m_numRunning,   \* how many tasks are being run
    m_terminate,    \* the threads are told to exit
    worker,         \* where each thread is
    task,           \* the task each thread has taken
    owner           \* where the owner of the pool is

poolVars == <<m_tasks, m_numRunning, m_terminate, worker, task, owner>>

\* "top": at the head of the outer loop; "waiting": in m_cdWorkAvail.wait;
\* "woken": that wait is over; "running": the task has not run yet; "ran": it has.
WorkerStates == {"top", "waiting", "woken", "running", "ran", "exited"}

\* "joining" and "waiting": inside JoinAll. "closing" and "closeWaiting": the same,
\* called by the destructor, which goes on to "terminating" and "stopping".
OwnerStates == {"free", "joining", "waiting",
                "closing", "closeWaiting", "terminating", "stopping", "gone"}

Busy(w) == worker[w] \in {"running", "ran"}

Woken(state) == IF state = "waiting" THEN "woken" ELSE state

NotifyIdle ==
    CASE owner = "waiting"      -> "joining"
      [] owner = "closeWaiting" -> "closing"
      [] OTHER                  -> owner

PoolInit ==
    /\ m_tasks = <<>>
    /\ m_numRunning = 0
    /\ m_terminate = FALSE
    /\ worker = [w \in Workers |-> "top"]
    /\ task = [w \in Workers |-> NoTask]
    /\ owner = "free"

-----------------------------------------------------------------------------
(* The threads.                                                            *)

\* The inner loop, entered with `running` tasks being run by others: exit, take
\* the oldest task, or wait for one.
TakeWork(w, running) ==
    \/ /\ m_terminate
       /\ worker' = [worker EXCEPT ![w] = "exited"]
       /\ task' = [task EXCEPT ![w] = NoTask]
       /\ m_numRunning' = running
       /\ UNCHANGED m_tasks
    \/ /\ ~m_terminate
       /\ m_tasks # <<>>
       /\ worker' = [worker EXCEPT ![w] = "running"]
       /\ task' = [task EXCEPT ![w] = Head(m_tasks)]
       /\ m_tasks' = Tail(m_tasks)
       /\ m_numRunning' = running + 1
    \/ /\ ~m_terminate
       /\ m_tasks = <<>>
       /\ worker' = [worker EXCEPT ![w] = "waiting"]
       /\ task' = [task EXCEPT ![w] = NoTask]
       /\ m_numRunning' = running
       /\ UNCHANGED m_tasks

\* The head of the outer loop tells a waiting JoinAll to look again.
LoopHead(w, running) ==
    /\ TakeWork(w, running)
    /\ owner' = IF m_terminate THEN owner ELSE NotifyIdle
    /\ UNCHANGED m_terminate

ThreadStarts(w) == worker[w] = "top" /\ LoopHead(w, m_numRunning)

WorkAvailable(w) ==
    /\ worker[w] = "woken"
    /\ TakeWork(w, m_numRunning)
    /\ UNCHANGED <<m_terminate, owner>>

\* The task runs outside the mutex.
RunTask(w) ==
    /\ worker[w] = "running"
    /\ worker' = [worker EXCEPT ![w] = "ran"]
    /\ UNCHANGED <<m_tasks, m_numRunning, m_terminate, task, owner>>

FinishTask(w) == worker[w] = "ran" /\ LoopHead(w, m_numRunning - 1)

SpuriousWakeup(w) ==
    /\ worker[w] = "waiting"
    /\ worker' = [worker EXCEPT ![w] = "woken"]
    /\ UNCHANGED <<m_tasks, m_numRunning, m_terminate, task, owner>>

-----------------------------------------------------------------------------
(* The owner.                                                              *)

AddTask(t) ==
    /\ owner = "free"
    /\ m_tasks' = Append(m_tasks, t)
    /\ worker' = [w \in Workers |-> Woken(worker[w])]
    /\ UNCHANGED <<m_numRunning, m_terminate, task, owner>>

JoinAll ==
    /\ owner = "free"
    /\ owner' = "joining"
    /\ UNCHANGED <<m_tasks, m_numRunning, m_terminate, worker, task>>

\* Mutant: tasks that have been taken are forgotten.
IdleWhenNoTasks == m_tasks = <<>>

Idle == m_numRunning = 0 /\ m_tasks = <<>>

\* JoinAll looks at the pool, first when it is called and then whenever it wakes.
JoinAllReturns ==
    /\ owner = "joining" /\ Idle
    /\ owner' = "free"
    /\ UNCHANGED <<m_tasks, m_numRunning, m_terminate, worker, task>>

JoinAllWaits ==
    /\ owner \in {"joining", "closing"} /\ ~Idle
    /\ owner' = IF owner = "joining" THEN "waiting" ELSE "closeWaiting"
    /\ UNCHANGED <<m_tasks, m_numRunning, m_terminate, worker, task>>

SpuriousIdle ==
    /\ owner \in {"waiting", "closeWaiting"}
    /\ owner' = NotifyIdle
    /\ UNCHANGED <<m_tasks, m_numRunning, m_terminate, worker, task>>

\* The destructor: JoinAll, then m_terminate, then the threads are joined.
Close ==
    /\ owner = "free"
    /\ owner' = "closing"
    /\ UNCHANGED <<m_tasks, m_numRunning, m_terminate, worker, task>>

Closed ==
    /\ owner = "closing" /\ Idle
    /\ owner' = "terminating"
    /\ UNCHANGED <<m_tasks, m_numRunning, m_terminate, worker, task>>

\* Mutant: the threads that wait for work are not told.
TerminateSilently ==
    /\ owner = "terminating"
    /\ m_terminate' = TRUE
    /\ owner' = "stopping"
    /\ UNCHANGED <<m_tasks, m_numRunning, worker, task>>

Terminate ==
    /\ owner = "terminating"
    /\ m_terminate' = TRUE
    /\ worker' = [w \in Workers |-> Woken(worker[w])]
    /\ owner' = "stopping"
    /\ UNCHANGED <<m_tasks, m_numRunning, task>>

ThreadsJoined ==
    /\ owner = "stopping"
    /\ \A w \in Workers : worker[w] = "exited"
    /\ owner' = "gone"
    /\ UNCHANGED <<m_tasks, m_numRunning, m_terminate, worker, task>>

\* The steps the owner takes by itself once it has called JoinAll or the destructor.
OwnerStep == JoinAllReturns \/ JoinAllWaits \/ Closed \/ Terminate \/ ThreadsJoined

=============================================================================
