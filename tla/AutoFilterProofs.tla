-------------------------- MODULE AutoFilterProofs --------------------------
(***************************************************************************)
(* Proofs about AutoFilter and the thread pool under it, for any number of *)
(* threads, any chunk size and any height.                                 *)
(***************************************************************************)
EXTENDS AutoFilter, Integers, FiniteSetTheorems, SequenceTheorems, TLAPS

BusyWorkers == {w \in Workers : Busy(w)}

-----------------------------------------------------------------------------
(* The inductive invariant.                                                *)

\* m_numRunning counts the threads that hold a task.
Counted == m_numRunning = Cardinality(BusyWorkers)

\* The owner is inside JoinAll exactly when AutoFilter is; between calls there
\* is nothing to do, and the destructor runs between calls.
Phases ==
    /\ owner \in {"joining", "waiting"} <=> phase = "joining"
    /\ phase \in {"inline", "adding", "done"} => owner = "free"
    /\ jobs <= NumSegments(calling.rows)

\* A task that is queued or held belongs to a job of the current call.
Handed ==
    /\ \A k \in 1..Len(m_tasks) : m_tasks[k] < jobs
    /\ \A w \in BusyWorkers : task[w] \in Tasks /\ task[w] < jobs
    /\ phase \notin {"adding", "joining"} => m_tasks = <<>> /\ BusyWorkers = {}

PoolInv == FilterTypeOK /\ Counted /\ Phases /\ Handed

-----------------------------------------------------------------------------
(* Arithmetic of the chunks.                                               *)

\* A taller region has no fewer segments, and each is a task.
LEMMA SegmentsBound ==
    ASSUME NEW rows \in 0..MaxRows
    PROVE  /\ NumSegments(rows) \in Nat
           /\ NumSegments(rows) <= NumSegments(MaxRows)
           /\ \A i \in Nat : i < NumSegments(rows) => i \in Tasks
<1>1. /\ MaxRows \in Nat /\ rows \in Nat /\ rows <= MaxRows /\ ChunkSize \in Nat \ {0}
      /\ Tasks = 0..(MaxRows \div ChunkSize)
  BY AutoFilterAssumption
<1>2. rows \div ChunkSize \in Nat /\ MaxRows \div ChunkSize \in Nat
  BY <1>1
<1>3. rows \div ChunkSize <= MaxRows \div ChunkSize
  BY <1>1
<1> QED BY <1>1, <1>2, <1>3 DEF NumSegments

\* There are finitely many threads, so the count stays in its range.
LEMMA BusyFinite ==
    IsFiniteSet(BusyWorkers) /\ Cardinality(BusyWorkers) \in 0..Cardinality(Workers)
<1>1. BusyWorkers \subseteq Workers /\ IsFiniteSet(Workers)
  BY ThreadpoolAssumption DEF BusyWorkers
<1> QED BY <1>1, FS_Subset, FS_CardinalityType

-----------------------------------------------------------------------------
(* What the pool's critical sections do.                                   *)

\* A thread that stops being busy, or was not, leaves the others busy.
LEMMA Leaves ==
    ASSUME PoolInv, NEW w \in Workers
    PROVE  /\ Cardinality(BusyWorkers \ {w})
                = IF Busy(w) THEN m_numRunning - 1 ELSE m_numRunning
           /\ IsFiniteSet(BusyWorkers \ {w})
<1>1. IsFiniteSet(BusyWorkers) /\ m_numRunning = Cardinality(BusyWorkers)
  BY BusyFinite DEF PoolInv, Counted
<1>2. Cardinality(BusyWorkers \ {w})
        = IF w \in BusyWorkers THEN Cardinality(BusyWorkers) - 1 ELSE Cardinality(BusyWorkers)
  BY <1>1, FS_RemoveElement
<1>3. IsFiniteSet(BusyWorkers \ {w})
  BY <1>1, FS_RemoveElement
<1> QED BY <1>1, <1>2, <1>3 DEF BusyWorkers

\* Whatever a thread finds when it looks for work, the count is right again, and
\* a task it takes comes from the queue.
LEMMA TakeWorkKeeps ==
    ASSUME PoolInv, NEW w \in Workers, NEW running, TakeWork(w, running),
           running = Cardinality(BusyWorkers \ {w})
    PROVE  /\ Counted'
           /\ m_tasks' \in Seq(Tasks)
           /\ worker' \in [Workers -> WorkerStates]
           /\ task' \in [Workers -> Tasks \cup {NoTask}]
           /\ \A k \in 1..Len(m_tasks') : m_tasks'[k] < jobs
           /\ \A v \in BusyWorkers' : task'[v] \in Tasks /\ task'[v] < jobs
           /\ m_tasks = <<>> => m_tasks' = <<>> /\ BusyWorkers' \subseteq BusyWorkers
<1>1. /\ m_tasks \in Seq(Tasks) /\ Len(m_tasks) \in Nat
      /\ worker \in [Workers -> WorkerStates]
      /\ task \in [Workers -> Tasks \cup {NoTask}]
      /\ \A k \in 1..Len(m_tasks) : m_tasks[k] < jobs
      /\ \A v \in BusyWorkers : task[v] \in Tasks /\ task[v] < jobs
  BY LenProperties DEF PoolInv, FilterTypeOK, Handed
<1>2. IsFiniteSet(BusyWorkers \ {w})
  BY Leaves
<1>3. ASSUME NEW state \in WorkerStates \ {"running", "ran"},
             worker' = [worker EXCEPT ![w] = state]
      PROVE  BusyWorkers' = BusyWorkers \ {w}
  BY <1>1, <1>3 DEF BusyWorkers, Busy
<1>4. CASE m_terminate
  <2>1. /\ worker' = [worker EXCEPT ![w] = "exited"] /\ task' = [task EXCEPT ![w] = NoTask]
        /\ m_numRunning' = running /\ m_tasks' = m_tasks
    BY <1>4 DEF TakeWork
  <2>2. BusyWorkers' = BusyWorkers \ {w}
    BY <1>3, <2>1 DEF WorkerStates
  <2>3. Counted'
    BY <2>1, <2>2 DEF Counted
  <2>4. \A v \in BusyWorkers' : task'[v] = task[v]
    BY <1>1, <2>1, <2>2 DEF BusyWorkers
  <2> QED BY <1>1, <2>1, <2>2, <2>3, <2>4 DEF WorkerStates
<1>5. CASE ~m_terminate /\ m_tasks = <<>>
  <2>1. /\ worker' = [worker EXCEPT ![w] = "waiting"] /\ task' = [task EXCEPT ![w] = NoTask]
        /\ m_numRunning' = running /\ m_tasks' = m_tasks
    BY <1>5 DEF TakeWork
  <2>2. BusyWorkers' = BusyWorkers \ {w}
    BY <1>3, <2>1 DEF WorkerStates
  <2>3. Counted'
    BY <2>1, <2>2 DEF Counted
  <2>4. \A v \in BusyWorkers' : task'[v] = task[v]
    BY <1>1, <2>1, <2>2 DEF BusyWorkers
  <2> QED BY <1>1, <2>1, <2>2, <2>3, <2>4 DEF WorkerStates
<1>6. CASE ~m_terminate /\ m_tasks # <<>>
  <2>1. /\ worker' = [worker EXCEPT ![w] = "running"] /\ task' = [task EXCEPT ![w] = Head(m_tasks)]
        /\ m_numRunning' = running + 1 /\ m_tasks' = Tail(m_tasks)
    BY <1>6 DEF TakeWork
  <2>2. BusyWorkers' = (BusyWorkers \ {w}) \cup {w}
    BY <1>1, <2>1 DEF BusyWorkers, Busy
  <2>3. Cardinality((BusyWorkers \ {w}) \cup {w}) = Cardinality(BusyWorkers \ {w}) + 1
    BY <1>2, FS_AddElement
  <2>4. Counted'
    BY <2>1, <2>2, <2>3 DEF Counted
  <2>5. Head(m_tasks) = m_tasks[1] /\ Head(m_tasks) \in Tasks /\ 1 \in 1..Len(m_tasks)
    BY <1>1, <1>6
  <2>6. /\ m_tasks' \in Seq(Tasks) /\ Len(m_tasks') = Len(m_tasks) - 1
        /\ \A k \in 1..Len(m_tasks') : m_tasks'[k] = m_tasks[k + 1]
    BY <1>1, <1>6, <2>1, HeadTailProperties
  <2>7. \A k \in 1..Len(m_tasks') : m_tasks'[k] < jobs
    BY <1>1, <2>6
  <2>8. \A v \in BusyWorkers' : task'[v] = IF v = w THEN m_tasks[1] ELSE task[v]
    BY <1>1, <2>1, <2>5 DEF BusyWorkers
  <2>9. \A v \in BusyWorkers' : task'[v] \in Tasks /\ task'[v] < jobs
    BY <1>1, <2>2, <2>5, <2>8
  <2> QED BY <1>1, <1>6, <2>1, <2>4, <2>5, <2>6, <2>7, <2>9 DEF WorkerStates
<1> QED BY <1>4, <1>5, <1>6

\* Waking the threads that wait for work makes none of them busy.
LEMMA WakingKeeps ==
    ASSUME worker \in [Workers -> WorkerStates],
           worker' = [w \in Workers |-> Woken(worker[w])]
    PROVE  worker' \in [Workers -> WorkerStates] /\ BusyWorkers' = BusyWorkers
<1>1. \A w \in Workers : Woken(worker[w]) \in WorkerStates
  BY DEF Woken, WorkerStates
<1>2. \A w \in Workers : Busy(w)' <=> Busy(w)
  BY DEF Busy, Woken
<1> QED BY <1>1, <1>2 DEF BusyWorkers

\* What NotifyIdle may do to the owner.
LEMMA NotifyKeeps ==
    ASSUME owner \in OwnerStates
    PROVE  /\ NotifyIdle \in OwnerStates
           /\ NotifyIdle \in {"joining", "waiting"} <=> owner \in {"joining", "waiting"}
           /\ owner = "free" => NotifyIdle = "free"
BY DEF NotifyIdle, OwnerStates

-----------------------------------------------------------------------------
(* Each step preserves the invariant.                                      *)

\* No thread is busy before the first call.
LEMMA InitInv == Init => PoolInv
<1> SUFFICES ASSUME Init PROVE PoolInv
  OBVIOUS
<1>1. /\ ChunkSize \in Nat \ {0} /\ MaxRows \in Nat \ {0}
      /\ NumSegments(MaxRows) \in Nat /\ NumSegments(0) \in Nat
  BY SegmentsBound, AutoFilterAssumption
<1>2. BusyWorkers = {} /\ Cardinality({}) = 0
  BY FS_EmptySet DEF Init, PoolInit, BusyWorkers, Busy
<1>3. Cardinality(Workers) \in Nat
  BY ThreadpoolAssumption, FS_CardinalityType
<1>4. m_tasks \in Seq(Tasks) /\ Len(m_tasks) = 0
  BY EmptySeq DEF Init, PoolInit
<1>5. FilterTypeOK
  <2>1. /\ m_numRunning \in 0..Cardinality(Workers) /\ m_terminate \in BOOLEAN
        /\ worker \in [Workers -> WorkerStates]
        /\ task \in [Workers -> Tasks \cup {NoTask}]
        /\ owner \in OwnerStates
    <3>1. m_numRunning \in 0..Cardinality(Workers)
      BY <1>3 DEF Init, PoolInit
    <3>2. m_terminate \in BOOLEAN /\ owner \in OwnerStates
      BY DEF Init, PoolInit, OwnerStates
    <3>3. worker \in [Workers -> WorkerStates] /\ task \in [Workers -> Tasks \cup {NoTask}]
      BY DEF Init, PoolInit, WorkerStates
    <3> QED BY <3>1, <3>2, <3>3
  <2>2. calling \in [mode : Modes \cup {Blank}, rows : 0..MaxRows]
    BY <1>1 DEF Init, NoCall
  <2>3. jobs \in 0..NumSegments(MaxRows)
    BY <1>1 DEF Init
  <2>4. /\ phase \in {"idle", "inline", "adding", "joining", "done"}
        /\ m_mode \in Modes \cup {Blank} /\ dest \in [Rows -> Modes \cup {Blank}]
    BY DEF Init
  <2> QED BY <1>4, <2>1, <2>2, <2>3, <2>4 DEF FilterTypeOK
<1>6. Phases
  BY <1>1 DEF Init, PoolInit, Phases, NoCall
<1>7. Counted /\ Handed
  BY <1>2, <1>4 DEF Init, PoolInit, Counted, Handed
<1> QED BY <1>5, <1>6, <1>7 DEF PoolInv

\* The steps of AutoFilter that do not touch the pool.
LEMMA CallerInv ==
    ASSUME PoolInv,
           \/ \E mode \in Modes, rows \in 1..MaxRows, large \in BOOLEAN : Begin(mode, rows, large)
           \/ RunInline \/ Return
    PROVE  PoolInv'
<1>1. /\ FilterTypeOK /\ Counted /\ Phases /\ Handed
      /\ \A rows \in 0..MaxRows : NumSegments(rows) \in Nat
      /\ NumSegments(MaxRows) \in Nat
  BY SegmentsBound, AutoFilterAssumption DEF PoolInv
<1>2. UNCHANGED poolVars
  BY DEF Begin, RunInline, Return
<1>3. BusyWorkers' = BusyWorkers /\ Counted'
  BY <1>1, <1>2 DEF poolVars, BusyWorkers, Busy, Counted
<1>4. phase \notin {"adding", "joining"} /\ m_tasks = <<>> /\ BusyWorkers = {} /\ owner \in OwnerStates
  BY <1>1 DEF Begin, RunInline, Return, Handed, FilterTypeOK
<1>5. Handed'
  BY <1>2, <1>3, <1>4 DEF poolVars, Handed
<1>6. CASE \E mode \in Modes, rows \in 1..MaxRows, large \in BOOLEAN : Begin(mode, rows, large)
  <2>1. PICK mode \in Modes, rows \in 1..MaxRows, large \in BOOLEAN : Begin(mode, rows, large)
    BY <1>6
  <2>2. /\ calling' = [mode |-> mode, rows |-> rows] /\ m_mode' = mode /\ jobs' = 0
        /\ dest' = [r \in Rows |-> Blank] /\ phase' \in {"adding", "inline"} /\ owner = "free"
    BY <2>1 DEF Begin
  <2>3. rows \in 0..MaxRows
    BY AutoFilterAssumption
  <2>4. Phases'
    BY <1>1, <1>2, <2>2, <2>3 DEF Phases, poolVars, NumSegments
  <2>5. FilterTypeOK'
    BY <1>1, <1>2, <2>2, <2>3 DEF FilterTypeOK, poolVars, NumSegments
  <2> QED BY <1>3, <1>5, <2>4, <2>5 DEF PoolInv
<1>7. CASE RunInline
  <2>1. /\ phase = "inline" /\ phase' = "done" /\ UNCHANGED <<calling, m_mode, jobs>>
        /\ dest' = Filtered(0..(calling.rows - 1))
    BY <1>7 DEF RunInline
  <2>2. dest' \in [Rows -> Modes \cup {Blank}]
    BY <1>1, <2>1 DEF Filtered, FilterTypeOK
  <2>3. FilterTypeOK'
    BY <1>1, <1>2, <2>1, <2>2 DEF FilterTypeOK, poolVars, NumSegments
  <2>4. Phases'
    BY <1>1, <1>2, <2>1 DEF Phases, poolVars, NumSegments
  <2> QED BY <1>3, <1>5, <2>3, <2>4 DEF PoolInv
<1>8. CASE Return
  <2>1. /\ phase = "done" /\ phase' = "idle" /\ calling' = NoCall /\ jobs' = 0
        /\ UNCHANGED <<m_mode, dest>>
    BY <1>8 DEF Return
  <2>2. FilterTypeOK'
    BY <1>1, <1>2, <2>1, AutoFilterAssumption, SMTT(60) DEF FilterTypeOK, poolVars, NoCall, NumSegments
  <2>3. NumSegments(0) \in Nat
    BY <1>1, AutoFilterAssumption
  <2>4. Phases'
    BY <1>1, <1>2, <2>1, <2>3 DEF Phases, poolVars, NoCall, NumSegments
  <2> QED BY <1>3, <1>5, <2>2, <2>4 DEF PoolInv
<1> QED BY <1>6, <1>7, <1>8

\* A job is constructed before the task that refers to it is queued.
LEMMA AddJobInv == ASSUME PoolInv, AddJob PROVE PoolInv'
<1>1. /\ FilterTypeOK /\ Counted /\ Phases /\ Handed
      /\ phase = "adding" /\ owner = "free" /\ jobs < NumSegments(calling.rows) /\ jobs' = jobs + 1
      /\ m_tasks' = Append(m_tasks, jobs)
      /\ worker' = [w \in Workers |-> Woken(worker[w])]
      /\ UNCHANGED <<m_numRunning, m_terminate, task, owner, phase, calling, m_mode, dest>>
  BY DEF PoolInv, AddJob, AddTask
<1>2. worker' \in [Workers -> WorkerStates] /\ BusyWorkers' = BusyWorkers
  BY <1>1, WakingKeeps DEF FilterTypeOK
<1>3. /\ jobs \in Nat /\ jobs \in Tasks /\ calling.rows \in 0..MaxRows
      /\ NumSegments(calling.rows) \in Nat /\ NumSegments(MaxRows) \in Nat
      /\ NumSegments(calling.rows) <= NumSegments(MaxRows)
  <2>1. calling.rows \in 0..MaxRows /\ jobs \in 0..NumSegments(MaxRows) /\ MaxRows \in 0..MaxRows
    BY <1>1, AutoFilterAssumption DEF FilterTypeOK
  <2>2. jobs \in Nat
    BY <2>1, SegmentsBound
  <2> QED BY <1>1, <2>1, <2>2, SegmentsBound
<1>4. /\ m_tasks' \in Seq(Tasks) /\ Len(m_tasks') = Len(m_tasks) + 1 /\ Len(m_tasks) \in Nat
      /\ \A k \in 1..Len(m_tasks) : m_tasks'[k] = m_tasks[k]
      /\ m_tasks'[Len(m_tasks) + 1] = jobs
  BY <1>1, <1>3, AppendProperties, LenProperties DEF FilterTypeOK
<1>5. \A k \in 1..Len(m_tasks') : m_tasks'[k] < jobs'
  <2>1. \A k \in 1..Len(m_tasks) : m_tasks[k] \in Tasks /\ m_tasks[k] < jobs
    BY <1>1, ElementOfSeq DEF Handed, FilterTypeOK
  <2>2. \A t \in Tasks : t \in Int
    BY AutoFilterAssumption
  <2>3. SUFFICES ASSUME NEW k \in 1..Len(m_tasks') PROVE m_tasks'[k] < jobs + 1
    BY <1>1
  <2>4. CASE k = Len(m_tasks) + 1
    BY <1>3, <1>4, <2>4
  <2>5. CASE k \in 1..Len(m_tasks)
    <3>1. m_tasks'[k] = m_tasks[k] /\ m_tasks[k] \in Int /\ m_tasks[k] < jobs
      BY <1>4, <2>1, <2>2, <2>5
    <3>2. jobs \in Nat
      BY <1>3
    <3> QED BY <3>1, <3>2
  <2> QED BY <1>4, <2>4, <2>5
<1>6. \A w \in BusyWorkers' : task'[w] \in Tasks /\ task'[w] < jobs'
  <2>1. \A w \in BusyWorkers : task[w] \in Int /\ task[w] \in Tasks /\ task[w] < jobs
    BY <1>1, AutoFilterAssumption DEF Handed
  <2> QED BY <1>1, <1>2, <1>3, <2>1
<1>7. Handed'
  BY <1>1, <1>5, <1>6 DEF Handed
<1>8. Counted'
  BY <1>1, <1>2 DEF Counted
<1>9. Phases'
  BY <1>1, <1>3 DEF Phases, NumSegments
<1>10. FilterTypeOK'
  <2>1. jobs' \in 0..NumSegments(MaxRows)
    BY <1>1, <1>3
  <2>2. (NumSegments(MaxRows))' = NumSegments(MaxRows)
    BY DEF NumSegments
  <2> QED BY <1>1, <1>2, <1>4, <2>1, <2>2 DEF FilterTypeOK
<1> QED BY <1>7, <1>8, <1>9, <1>10 DEF PoolInv

\* The owner's own steps inside the pool.
LEMMA OwnerInv == ASSUME PoolInv, Join \/ Joined \/ Exit \/ OwnerWaits PROVE PoolInv'
<1>1. /\ FilterTypeOK /\ Counted /\ Phases /\ Handed /\ owner \in OwnerStates
      /\ UNCHANGED <<m_tasks, m_numRunning, task, calling, m_mode, jobs, dest>>
  BY DEF PoolInv, Join, Joined, Exit, OwnerWaits, JoinAll, JoinAllReturns, JoinAllWaits, Close,
         Closed, Terminate, ThreadsJoined, SpuriousIdle, filterVars, FilterTypeOK
<1>2. worker' \in [Workers -> WorkerStates] /\ BusyWorkers' = BusyWorkers /\ m_terminate' \in BOOLEAN
  <2>1. CASE Terminate
    BY <1>1, <2>1, WakingKeeps DEF FilterTypeOK, Terminate
  <2>2. CASE ~Terminate
    <3>1. worker' = worker /\ m_terminate' = m_terminate
      BY <2>2 DEF Join, Joined, Exit, OwnerWaits, JoinAll, JoinAllReturns, JoinAllWaits, Close,
                  Closed, ThreadsJoined, SpuriousIdle
    <3> QED BY <1>1, <3>1 DEF FilterTypeOK, BusyWorkers, Busy
  <2> QED BY <2>1, <2>2
<1>3. Counted'
  BY <1>1, <1>2 DEF Counted
<1>4. (NumSegments(calling.rows))' = NumSegments(calling.rows)
      /\ (NumSegments(MaxRows))' = NumSegments(MaxRows)
  BY <1>1 DEF NumSegments
<1>5. ASSUME owner' \in OwnerStates, phase' \in {"idle", "inline", "adding", "joining", "done"}
      PROVE  FilterTypeOK'
  BY <1>1, <1>2, <1>4, <1>5 DEF FilterTypeOK
<1>6. CASE Join
  <2>1. phase = "adding" /\ phase' = "joining" /\ owner' = "joining"
    BY <1>6 DEF Join, JoinAll
  <2>2. FilterTypeOK'
    BY <1>5, <2>1 DEF OwnerStates
  <2>3. Phases' /\ Handed'
    BY <1>1, <1>2, <1>4, <2>1 DEF Phases, Handed
  <2> QED BY <1>3, <2>2, <2>3 DEF PoolInv
<1>7. CASE Joined
  <2>1. phase = "joining" /\ phase' = "done" /\ owner' = "free" /\ m_numRunning = 0 /\ m_tasks = <<>>
    BY <1>7 DEF Joined, JoinAllReturns, Idle
  <2>2. FilterTypeOK'
    BY <1>5, <2>1 DEF OwnerStates
  <2>3. BusyWorkers = {}
    BY <1>1, <2>1, BusyFinite, FS_EmptySet DEF Counted
  <2>4. Phases' /\ Handed'
    BY <1>1, <1>2, <1>4, <2>1, <2>3 DEF Phases, Handed
  <2> QED BY <1>3, <2>2, <2>4 DEF PoolInv
<1>8. CASE Exit
  <2>1. phase = "idle" /\ phase' = "idle" /\ owner' = "closing"
    BY <1>8 DEF Exit, Close, filterVars
  <2>2. FilterTypeOK'
    BY <1>5, <2>1 DEF OwnerStates
  <2>3. Phases' /\ Handed'
    BY <1>1, <1>2, <1>4, <2>1 DEF Phases, Handed
  <2> QED BY <1>3, <2>2, <2>3 DEF PoolInv
<1>9. CASE OwnerWaits
  <2>1. /\ phase' = phase /\ owner # "free" /\ owner' # "free" /\ owner' \in OwnerStates
        /\ owner' \in {"joining", "waiting"} <=> owner \in {"joining", "waiting"}
    <3>1. CASE JoinAllWaits
      BY <1>9, <3>1 DEF OwnerWaits, JoinAllWaits, OwnerStates, filterVars
    <3>2. CASE SpuriousIdle
      BY <1>9, <3>2 DEF OwnerWaits, SpuriousIdle, NotifyIdle, OwnerStates, filterVars
    <3>3. CASE Closed \/ Terminate \/ ThreadsJoined
      BY <1>9, <3>3 DEF OwnerWaits, Closed, Terminate, ThreadsJoined, OwnerStates, filterVars
    <3> QED BY <1>9, <3>1, <3>2, <3>3 DEF OwnerWaits
  <2>2. FilterTypeOK'
    BY <1>1, <1>5, <2>1 DEF FilterTypeOK
  <2>3. Phases' /\ Handed'
    BY <1>1, <1>2, <1>4, <2>1 DEF Phases, Handed
  <2> QED BY <1>3, <2>2, <2>3 DEF PoolInv
<1> QED BY <1>6, <1>7, <1>8, <1>9

\* The steps of a thread.
LEMMA ThreadInv ==
    ASSUME PoolInv, NEW w \in Workers, RunJob(w) \/ PoolThread(w) \/ Spurious(w)
    PROVE  PoolInv'
<1>1. /\ FilterTypeOK /\ Counted /\ Phases /\ Handed /\ owner \in OwnerStates
      /\ worker \in [Workers -> WorkerStates]
  BY DEF PoolInv, FilterTypeOK
<1>2. (NumSegments(MaxRows))' = NumSegments(MaxRows)
  BY DEF NumSegments
<1>3. CASE RunJob(w)
  <2>1. /\ worker[w] = "running" /\ worker' = [worker EXCEPT ![w] = "ran"]
        /\ UNCHANGED <<m_tasks, m_numRunning, m_terminate, task, owner, phase, calling, m_mode, jobs>>
        /\ dest' = Filtered(JobRows(task[w], calling.rows))
    BY <1>3 DEF RunJob, RunTask
  <2>2. BusyWorkers' = BusyWorkers /\ worker' \in [Workers -> WorkerStates]
    BY <1>1, <2>1 DEF BusyWorkers, Busy, WorkerStates
  <2>3. dest' \in [Rows -> Modes \cup {Blank}]
    BY <1>1, <2>1 DEF Filtered, FilterTypeOK
  <2>4. FilterTypeOK'
    BY <1>1, <1>2, <2>1, <2>2, <2>3 DEF FilterTypeOK
  <2>5. Counted' /\ Phases' /\ Handed'
    BY <1>1, <2>1, <2>2 DEF Counted, Phases, Handed, NumSegments
  <2> QED BY <2>4, <2>5 DEF PoolInv
<1>4. CASE Spurious(w)
  <2>1. /\ worker[w] = "waiting" /\ worker' = [worker EXCEPT ![w] = "woken"]
        /\ UNCHANGED <<m_tasks, m_numRunning, m_terminate, task, owner, phase, calling, m_mode, jobs, dest>>
    BY <1>4 DEF Spurious, SpuriousWakeup, filterVars
  <2>2. BusyWorkers' = BusyWorkers /\ worker' \in [Workers -> WorkerStates]
    BY <1>1, <2>1 DEF BusyWorkers, Busy, WorkerStates
  <2>3. FilterTypeOK'
    BY <1>1, <1>2, <2>1, <2>2 DEF FilterTypeOK
  <2>4. Counted' /\ Phases' /\ Handed'
    BY <1>1, <2>1, <2>2 DEF Counted, Phases, Handed, NumSegments
  <2> QED BY <2>3, <2>4 DEF PoolInv
<1>5. CASE PoolThread(w)
  <2>1. /\ UNCHANGED <<phase, calling, m_mode, jobs, dest, m_terminate>>
        /\ owner' \in {owner, NotifyIdle}
    BY <1>5 DEF PoolThread, ThreadStarts, WorkAvailable, FinishTask, LoopHead, filterVars
  <2>2. PICK running : TakeWork(w, running) /\ running = Cardinality(BusyWorkers \ {w})
    <3>1. CASE ThreadStarts(w)
      <4>1. TakeWork(w, m_numRunning) /\ ~Busy(w)
        BY <3>1 DEF ThreadStarts, LoopHead, Busy
      <4> QED BY <4>1, Leaves
    <3>2. CASE WorkAvailable(w)
      <4>1. TakeWork(w, m_numRunning) /\ ~Busy(w)
        BY <3>2 DEF WorkAvailable, Busy
      <4> QED BY <4>1, Leaves
    <3>3. CASE FinishTask(w)
      <4>1. TakeWork(w, m_numRunning - 1) /\ Busy(w)
        BY <3>3 DEF FinishTask, LoopHead, Busy
      <4> QED BY <4>1, Leaves
    <3> QED BY <1>5, <3>1, <3>2, <3>3 DEF PoolThread
  <2>3. /\ Counted'
        /\ m_tasks' \in Seq(Tasks)
        /\ worker' \in [Workers -> WorkerStates]
        /\ task' \in [Workers -> Tasks \cup {NoTask}]
        /\ \A k \in 1..Len(m_tasks') : m_tasks'[k] < jobs
        /\ \A v \in BusyWorkers' : task'[v] \in Tasks /\ task'[v] < jobs
        /\ m_tasks = <<>> => m_tasks' = <<>> /\ BusyWorkers' \subseteq BusyWorkers
    BY <2>2, TakeWorkKeeps
  <2>4. m_numRunning' \in 0..Cardinality(Workers)
    <3>1. BusyWorkers' \subseteq Workers /\ IsFiniteSet(Workers)
      BY ThreadpoolAssumption DEF BusyWorkers
    <3>2. Cardinality(BusyWorkers') \in Nat /\ Cardinality(BusyWorkers') <= Cardinality(Workers)
          /\ Cardinality(Workers) \in Nat
      BY <3>1, FS_Subset, FS_CardinalityType
    <3> QED BY <2>3, <3>2 DEF Counted
  <2>5. /\ owner' \in OwnerStates
        /\ owner' \in {"joining", "waiting"} <=> owner \in {"joining", "waiting"}
        /\ owner = "free" => owner' = "free"
    BY <1>1, <2>1, NotifyKeeps
  <2>6. FilterTypeOK'
    BY <1>1, <1>2, <2>1, <2>3, <2>4, <2>5 DEF FilterTypeOK
  <2>7. Phases'
    BY <1>1, <2>1, <2>5 DEF Phases, NumSegments
  <2>8. Handed'
    BY <1>1, <2>1, <2>3 DEF Handed
  <2> QED BY <2>3, <2>6, <2>7, <2>8 DEF PoolInv
<1> QED BY <1>3, <1>4, <1>5

\* Every step, and a step that changes nothing, preserves the invariant.
LEMMA NextInv == PoolInv /\ [Next]_vars => PoolInv'
<1> SUFFICES ASSUME PoolInv, [Next]_vars PROVE PoolInv'
  OBVIOUS
<1>1. CASE UNCHANGED vars
  BY <1>1 DEF vars, poolVars, filterVars, PoolInv, FilterTypeOK, Counted, Phases, Handed,
              BusyWorkers, Busy, NumSegments
<1>2. CASE Next
  <2>1. ASSUME NEW w \in Workers, RunJob(w) \/ PoolThread(w) \/ Spurious(w) PROVE PoolInv'
    BY <2>1, ThreadInv
  <2>2. CASE Finished
    BY <1>1, <2>2 DEF Finished
  <2> QED BY <1>2, <2>1, <2>2, CallerInv, AddJobInv, OwnerInv DEF Next
<1> QED BY <1>1, <1>2

-----------------------------------------------------------------------------
(* The theorems.                                                           *)

\* The invariant holds however threads and caller interleave.
THEOREM PoolInvariance == SafetySpec => []PoolInv
<1>1. Init => PoolInv
  BY InitInv
<1>2. PoolInv /\ [Next]_vars => PoolInv'
  BY NextInv
<1> QED BY <1>1, <1>2, PTL DEF SafetySpec

\* The pool and AutoFilter keep their types; in particular m_numRunning never
\* wraps below zero and never exceeds the number of threads.
THEOREM FilterTypeCorrect == SafetySpec => []FilterTypeOK
<1>1. PoolInv => FilterTypeOK
  BY DEF PoolInv
<1> QED BY <1>1, PoolInvariance, PTL

\* No task outlives the call whose jobs it refers to.
THEOREM JobsAreAlive == SafetySpec => []JobsOutliveTasks
<1>1. PoolInv => JobsOutliveTasks
  <2> SUFFICES ASSUME PoolInv PROVE JobsOutliveTasks
    OBVIOUS
  <2>1. m_tasks \in Seq(Tasks) /\ DOMAIN m_tasks = 1..Len(m_tasks)
    BY LenProperties DEF PoolInv, FilterTypeOK
  <2>2. \A k \in DOMAIN m_tasks : phase \in {"adding", "joining"} /\ m_tasks[k] < jobs
    BY <2>1 DEF PoolInv, Handed
  <2>3. \A w \in Workers :
           worker[w] = "running" => phase \in {"adding", "joining"} /\ task[w] < jobs
    BY DEF PoolInv, Handed, BusyWorkers, Busy
  <2> QED BY <2>2, <2>3 DEF JobsOutliveTasks
<1> QED BY <1>1, PoolInvariance, PTL

-----------------------------------------------------------------------------
(* AutoFilter implements Blit, its liveness apart.                         *)

\* Jobs that have not run: not handed out yet, queued, or about to be run.
Unrun ==
    {i \in Nat : i >= jobs}
        \cup {m_tasks[k] : k \in 1..Len(m_tasks)}
        \cup {task[w] : w \in {v \in Workers : worker[v] = "running"}}

\* A row of the region that is still blank belongs to a job that has not run.
RowsPending ==
    \A r \in 0..(calling.rows - 1) :
        \/ dest[r] = calling.mode
        \/ dest[r] = Blank /\ \E i \in Unrun : r \in JobRows(i, calling.rows)

Progress ==
    /\ phase = "idle" => calling = NoCall
    /\ phase # "idle" => /\ calling.mode \in Modes /\ calling.rows \in 1..MaxRows
                         /\ m_mode = calling.mode
    /\ phase = "joining" => jobs = NumSegments(calling.rows)
    /\ phase = "inline" => \A r \in 0..(calling.rows - 1) : dest[r] = Blank
    /\ phase \in {"adding", "joining"} => RowsPending
    /\ phase = "done" => \A r \in 0..(calling.rows - 1) : dest[r] = calling.mode

\* Each row of the region belongs to a job, and no row to a job past the last.
LEMMA RowsOfJobs ==
    ASSUME NEW rows \in 1..MaxRows
    PROVE  /\ \A r \in 0..(rows - 1) : r \in JobRows(r \div ChunkSize, rows) /\ r \div ChunkSize \in Nat
           /\ \A i \in Nat : i >= NumSegments(rows) => JobRows(i, rows) = {}
           /\ \A i \in Nat : JobRows(i, rows) \subseteq 0..(rows - 1)
<1>1. ChunkSize \in Nat \ {0} /\ MaxRows \in Nat /\ rows \in Nat /\ rows <= MaxRows
  BY AutoFilterAssumption
<1>2. ASSUME NEW r \in 0..(rows - 1)
      PROVE  r \in JobRows(r \div ChunkSize, rows) /\ r \div ChunkSize \in Nat
  <2>1. /\ r \div ChunkSize \in Nat
        /\ (r \div ChunkSize) * ChunkSize <= r /\ r < (r \div ChunkSize + 1) * ChunkSize
    BY <1>1
  <2>2. r \in Rows
    BY <1>1 DEF Rows
  <2>3. r < rows
    BY <1>1
  <2> QED BY <2>1, <2>2, <2>3 DEF JobRows
<1>3. ASSUME NEW i \in Nat, i >= NumSegments(rows) PROVE JobRows(i, rows) = {}
  <2>1. rows \div ChunkSize \in Nat /\ rows < (rows \div ChunkSize + 1) * ChunkSize
    BY <1>1
  <2>2. (rows \div ChunkSize + 1) * ChunkSize <= i * ChunkSize
    BY <1>1, <1>3, <2>1 DEF NumSegments
  <2>3. \A r \in Rows : r \in Nat
    BY <1>1 DEF Rows
  <2>4. rows < i * ChunkSize /\ i * ChunkSize \in Nat
    BY <1>1, <2>1, <2>2
  <2> QED BY <1>1, <2>3, <2>4 DEF JobRows
<1>4. \A i \in Nat : JobRows(i, rows) \subseteq 0..(rows - 1)
  BY <1>1 DEF JobRows, Rows
<1> QED BY <1>2, <1>3, <1>4

\* Nothing is asked for and nothing is written before the first call.
LEMMA InitRefines == Init => Progress /\ Service!Init
BY DEF Init, Progress, NoCall, Rows, Service!Init, Service!NoCall, Service!Rows

\* Handing out a job, or passing it from the queue to a thread, keeps it unrun.
LEMMA PoolKeepsUnrun ==
    ASSUME PoolInv, NEW w \in Workers, PoolThread(w) \/ Spurious(w)
    PROVE  Unrun \subseteq Unrun'
<1>1. /\ m_tasks \in Seq(Tasks) /\ Len(m_tasks) \in Nat /\ jobs' = jobs
      /\ worker \in [Workers -> WorkerStates] /\ task \in [Workers -> Tasks \cup {NoTask}]
  BY LenProperties
     DEF PoolInv, FilterTypeOK, PoolThread, Spurious, filterVars
<1>2. CASE Spurious(w)
  BY <1>1, <1>2 DEF Spurious, SpuriousWakeup, Unrun
<1>3. CASE PoolThread(w)
  <2>1. PICK running : TakeWork(w, running)
    BY <1>3 DEF PoolThread, ThreadStarts, WorkAvailable, FinishTask, LoopHead
  <2>2. worker[w] # "running"
    BY <1>3 DEF PoolThread, ThreadStarts, WorkAvailable, FinishTask
  <2>3. CASE m_tasks' = m_tasks
    <3>1. \A v \in Workers : worker[v] = "running" => worker'[v] = "running" /\ task'[v] = task[v]
      BY <1>1, <2>1, <2>2 DEF TakeWork
    <3> QED BY <1>1, <2>3, <3>1 DEF Unrun
  <2>4. CASE /\ m_tasks # <<>> /\ m_tasks' = Tail(m_tasks)
             /\ worker' = [worker EXCEPT ![w] = "running"]
             /\ task' = [task EXCEPT ![w] = Head(m_tasks)]
    <3>1. \A v \in Workers : worker[v] = "running" => worker'[v] = "running" /\ task'[v] = task[v]
      BY <1>1, <2>2, <2>4
    <3>2. worker'[w] = "running" /\ task'[w] = m_tasks[1]
      BY <1>1, <2>4
    <3>3. /\ Len(m_tasks') = Len(m_tasks) - 1
          /\ \A k \in 1..Len(m_tasks') : m_tasks'[k] = m_tasks[k + 1]
      BY <1>1, <2>4, HeadTailProperties
    <3>4. ASSUME NEW k \in 1..Len(m_tasks) PROVE m_tasks[k] \in Unrun'
      <4>1. CASE k = 1
        BY <3>2, <4>1 DEF Unrun
      <4>2. CASE k # 1
        <5>1. k - 1 \in 1..Len(m_tasks') /\ (k - 1) + 1 = k
          BY <1>1, <3>3, <4>2
        <5>2. m_tasks'[k - 1] = m_tasks[k]
          BY <3>3, <5>1
        <5> QED BY <5>1, <5>2 DEF Unrun
      <4> QED BY <4>1, <4>2
    <3> QED BY <1>1, <3>1, <3>4 DEF Unrun
  <2> QED BY <2>1, <2>3, <2>4 DEF TakeWork
<1> QED BY <1>2, <1>3

\* A step that leaves AutoFilter's variables alone and no job unrun is a stutter.
LEMMA PoolStepRefines ==
    ASSUME PoolInv, Progress, UNCHANGED <<phase, calling, m_mode, jobs, dest>>,
           Unrun \subseteq Unrun'
    PROVE  Progress' /\ UNCHANGED <<calling, dest>>
<1>1. RowsPending => RowsPending'
  BY DEF RowsPending, JobRows
<1> QED BY <1>1 DEF Progress, NumSegments

\* A job writes rows of its own region, with the mode of its own call.
LEMMA RunJobRefines ==
    ASSUME PoolInv, Progress, NEW w \in Workers, RunJob(w)
    PROVE  Progress' /\ Service!Write
<1>1. /\ worker[w] = "running" /\ worker' = [worker EXCEPT ![w] = "ran"]
      /\ UNCHANGED <<m_tasks, task, phase, calling, m_mode, jobs>>
      /\ dest' = Filtered(JobRows(task[w], calling.rows))
  BY DEF RunJob, RunTask
<1>2. /\ phase \in {"adding", "joining"} /\ task[w] \in Nat
  <2>1. w \in BusyWorkers
    BY <1>1 DEF BusyWorkers, Busy
  <2> QED BY <2>1, AutoFilterAssumption DEF PoolInv, Handed
<1>3. /\ calling.mode \in Modes /\ calling.rows \in 1..MaxRows /\ m_mode = calling.mode /\ RowsPending
      /\ calling.mode # Blank
  BY <1>2, AutoFilterAssumption DEF Progress
<1>4. /\ JobRows(task[w], calling.rows) \subseteq 0..(calling.rows - 1)
      /\ 0..(calling.rows - 1) \subseteq Rows
  <2>1. JobRows(task[w], calling.rows) \subseteq 0..(calling.rows - 1)
    BY <1>3, AutoFilterAssumption DEF JobRows, Rows
  <2>2. 0..(calling.rows - 1) \subseteq Rows
    BY <1>3, AutoFilterAssumption DEF Rows
  <2> QED BY <2>1, <2>2
<1>5. \A i \in Unrun : i # task[w] => i \in Unrun'
  BY <1>1 DEF Unrun, PoolInv, FilterTypeOK
<1>6. \A r \in Rows : dest'[r] = IF r \in JobRows(task[w], calling.rows) THEN calling.mode ELSE dest[r]
  BY <1>1, <1>3 DEF Filtered
<1>7. RowsPending'
  <2>1. SUFFICES ASSUME NEW r \in 0..(calling.rows - 1)
                 PROVE  \/ dest'[r] = calling.mode
                        \/ dest'[r] = Blank /\ \E i \in Unrun' : r \in JobRows(i, calling.rows)
    BY <1>1 DEF RowsPending, JobRows
  <2>2. CASE r \in JobRows(task[w], calling.rows)
    BY <1>4, <1>6, <2>2
  <2>3. CASE r \notin JobRows(task[w], calling.rows)
    <3>1. dest'[r] = dest[r]
      BY <1>4, <1>6, <2>3
    <3> QED BY <1>3, <1>5, <2>3, <3>1 DEF RowsPending
  <2> QED BY <2>2, <2>3
<1>8. Progress'
  BY <1>1, <1>2, <1>7 DEF Progress, NumSegments
<1>9. Service!Write
  <2> DEFINE written == {r \in JobRows(task[w], calling.rows) : dest[r] = Blank}
  <2>1. written \in SUBSET {r \in 0..(calling.rows - 1) : dest[r] = Blank}
    BY <1>4
  <2>2. \A r \in Rows : dest'[r] = IF r \in written THEN calling.mode ELSE dest[r]
    BY <1>3, <1>4, <1>6 DEF RowsPending
  <2>3. dest' = [r \in Rows |-> IF r \in written THEN calling.mode ELSE dest[r]]
    BY <1>1, <2>2 DEF Filtered
  <2>4. calling # NoCall
    BY <1>3, AutoFilterAssumption DEF NoCall
  <2> HIDE DEF written
  <2> QED BY <1>1, <2>1, <2>3, <2>4 DEF Service!Write, Service!NoCall, Service!Rows, NoCall, Rows
<1> QED BY <1>8, <1>9

\* The caller's own steps: the call, an inline filter, handing out jobs, joining
\* them, and the return.
LEMMA CallerRefines ==
    ASSUME PoolInv, Progress,
           \/ \E mode \in Modes, rows \in 1..MaxRows, large \in BOOLEAN : Begin(mode, rows, large)
           \/ RunInline \/ AddJob \/ Join \/ Joined \/ Return
    PROVE  Progress' /\ [Service!Next]_(Service!blitVars)
<1>1. CASE \E mode \in Modes, rows \in 1..MaxRows, large \in BOOLEAN : Begin(mode, rows, large)
  <2>1. PICK mode \in Modes, rows \in 1..MaxRows, large \in BOOLEAN : Begin(mode, rows, large)
    BY <1>1
  <2>2. /\ phase = "idle" /\ calling' = [mode |-> mode, rows |-> rows] /\ m_mode' = mode /\ jobs' = 0
        /\ dest' = [r \in Rows |-> Blank] /\ phase' \in {"adding", "inline"}
    BY <2>1 DEF Begin
  <2>3. \A r \in 0..(rows - 1) : r \in Rows /\ dest'[r] = Blank
    BY <2>2, AutoFilterAssumption DEF Rows
  <2>4. RowsPending'
    <3>1. SUFFICES ASSUME NEW r \in 0..(rows - 1)
                   PROVE  dest'[r] = Blank /\ \E i \in Unrun' : r \in JobRows(i, rows)
      BY <2>2 DEF RowsPending, JobRows, Rows
    <3>2. r \div ChunkSize \in Nat /\ r \in JobRows(r \div ChunkSize, rows)
      BY RowsOfJobs
    <3>3. r \div ChunkSize \in Unrun'
      BY <2>2, <3>2 DEF Unrun
    <3> QED BY <2>3, <3>2, <3>3
  <2>5. Progress'
    BY <2>2, <2>3, <2>4 DEF Progress
  <2>6. Service!Call
    BY <2>2 DEF Progress, Service!Call, Service!NoCall, Service!Rows, NoCall, Rows
  <2> QED BY <2>5, <2>6 DEF Service!Next
<1>2. CASE RunInline
  <2>1. /\ phase = "inline" /\ phase' = "done" /\ UNCHANGED <<calling, m_mode, jobs>>
        /\ dest' = Filtered(0..(calling.rows - 1))
    BY <1>2 DEF RunInline
  <2>2. /\ calling.mode \in Modes /\ calling.rows \in 1..MaxRows /\ m_mode = calling.mode
        /\ \A r \in 0..(calling.rows - 1) : dest[r] = Blank
    BY <2>1 DEF Progress
  <2>3. 0..(calling.rows - 1) \subseteq Rows
    BY <2>2, AutoFilterAssumption DEF Rows
  <2>4. Progress'
    BY <2>1, <2>2, <2>3 DEF Progress, Filtered
  <2>5. calling # NoCall
    BY <2>2, AutoFilterAssumption DEF NoCall
  <2>6. 0..(calling.rows - 1) \in SUBSET {r \in 0..(calling.rows - 1) : dest[r] = Blank}
    BY <2>2
  <2>7. Service!Write
    BY <2>1, <2>2, <2>5, <2>6
       DEF Service!Write, Service!NoCall, Service!Rows, NoCall, Rows, Filtered
  <2> QED BY <2>4, <2>7 DEF Service!Next
<1>3. CASE AddJob
  <2>1. /\ phase = "adding" /\ jobs' = jobs + 1 /\ m_tasks' = Append(m_tasks, jobs)
        /\ worker' = [w \in Workers |-> Woken(worker[w])]
        /\ UNCHANGED <<task, phase, calling, m_mode, dest>>
    BY <1>3 DEF AddJob, AddTask
  <2>2. m_tasks \in Seq(Tasks) /\ jobs \in Nat /\ jobs \in Tasks
    <3>1. jobs < NumSegments(calling.rows) /\ calling.rows \in 0..MaxRows
      BY <1>3, <2>1 DEF AddJob, PoolInv, FilterTypeOK
    <3>2. MaxRows \in 0..MaxRows /\ jobs \in 0..NumSegments(MaxRows)
      BY AutoFilterAssumption DEF PoolInv, FilterTypeOK
    <3>3. jobs \in Nat
      BY <3>2, SegmentsBound
    <3> QED BY <3>1, <3>3, SegmentsBound DEF PoolInv, FilterTypeOK
  <2>3. /\ Len(m_tasks) \in Nat /\ Len(m_tasks') = Len(m_tasks) + 1
        /\ \A k \in 1..Len(m_tasks) : m_tasks'[k] = m_tasks[k]
        /\ m_tasks'[Len(m_tasks) + 1] = jobs
    BY <2>1, <2>2, AppendProperties, LenProperties
  <2>4. \A w \in Workers : worker[w] = "running" => worker'[w] = "running"
    BY <2>1 DEF Woken
  <2>5. Unrun \subseteq Unrun'
    <3>1. SUFFICES ASSUME NEW i \in Unrun PROVE i \in Unrun'
      OBVIOUS
    <3>2. CASE i \in Nat /\ i >= jobs + 1
      BY <2>1, <3>2 DEF Unrun
    <3>3. CASE i = jobs
      <4>1. Len(m_tasks) + 1 \in 1..Len(m_tasks')
        BY <2>3
      <4> QED BY <2>3, <3>3, <4>1 DEF Unrun
    <3>4. CASE i \in {m_tasks[k] : k \in 1..Len(m_tasks)}
      <4>1. \A k \in 1..Len(m_tasks) : k \in 1..Len(m_tasks')
        BY <2>3
      <4> QED BY <2>3, <3>4, <4>1 DEF Unrun
    <3>5. CASE i \in {task[w] : w \in {v \in Workers : worker[v] = "running"}}
      BY <2>1, <2>4, <3>5 DEF Unrun
    <3> QED BY <2>2, <3>2, <3>3, <3>4, <3>5 DEF Unrun
  <2>6. RowsPending'
    BY <2>1, <2>5 DEF Progress, RowsPending, JobRows
  <2>7. Progress'
    BY <2>1, <2>6 DEF Progress
  <2> QED BY <2>1, <2>7 DEF Service!blitVars
<1>4. CASE Join
  <2>1. /\ phase = "adding" /\ phase' = "joining" /\ jobs = NumSegments(calling.rows)
        /\ UNCHANGED <<calling, m_mode, jobs, dest, m_tasks, worker, task>>
    BY <1>4 DEF Join, JoinAll, PoolInv, Phases
  <2>2. RowsPending' /\ (NumSegments(calling.rows))' = NumSegments(calling.rows)
    BY <2>1 DEF Progress, RowsPending, JobRows, Unrun, NumSegments
  <2>3. Progress'
    BY <2>1, <2>2 DEF Progress
  <2> QED BY <2>1, <2>3 DEF Service!blitVars
<1>5. CASE Joined
  <2>1. /\ phase = "joining" /\ phase' = "done" /\ m_tasks = <<>> /\ m_numRunning = 0
        /\ UNCHANGED <<calling, m_mode, jobs, dest>>
    BY <1>5 DEF Joined, JoinAllReturns, Idle
  <2>2. BusyWorkers = {}
    BY <2>1, BusyFinite, FS_EmptySet DEF PoolInv, Counted
  <2>3. /\ calling.rows \in 1..MaxRows /\ jobs = NumSegments(calling.rows) /\ RowsPending
    BY <2>1 DEF Progress
  <2>4. \A i \in Unrun : i \in Nat /\ i >= NumSegments(calling.rows)
    BY <2>1, <2>2, <2>3 DEF Unrun, BusyWorkers, Busy
  <2>5. \A r \in 0..(calling.rows - 1) : dest[r] = calling.mode
    BY <2>3, <2>4, RowsOfJobs DEF RowsPending
  <2>6. Progress'
    BY <2>1, <2>5 DEF Progress
  <2> QED BY <2>1, <2>6 DEF Service!blitVars
<1>6. CASE Return
  <2>1. phase = "done" /\ phase' = "idle" /\ calling' = NoCall /\ dest' = dest
    BY <1>6 DEF Return
  <2>2. /\ calling.mode \in Modes /\ calling.rows \in 1..MaxRows
        /\ \A r \in 0..(calling.rows - 1) : dest[r] = calling.mode
    BY <2>1 DEF Progress
  <2>3. calling # NoCall
    BY <2>2, AutoFilterAssumption DEF NoCall
  <2>4. Service!Return
    BY <2>1, <2>2, <2>3 DEF Service!Return, Service!NoCall, NoCall
  <2>5. Progress'
    BY <2>1 DEF Progress
  <2> QED BY <2>4, <2>5 DEF Service!Next
<1> QED BY <1>1, <1>2, <1>3, <1>4, <1>5, <1>6

\* Every step is a step of Blit or changes nothing Blit sees.
LEMMA NextRefines ==
    PoolInv /\ Progress /\ [Next]_vars => Progress' /\ [Service!Next]_(Service!blitVars)
<1> SUFFICES ASSUME PoolInv, Progress, [Next]_vars
             PROVE  Progress' /\ [Service!Next]_(Service!blitVars)
  OBVIOUS
<1>1. ASSUME NEW w \in Workers, RunJob(w)
      PROVE  Progress' /\ [Service!Next]_(Service!blitVars)
  BY <1>1, RunJobRefines DEF Service!Next
<1>2. ASSUME NEW w \in Workers, PoolThread(w) \/ Spurious(w)
      PROVE  Progress' /\ [Service!Next]_(Service!blitVars)
  <2>1. UNCHANGED <<phase, calling, m_mode, jobs, dest>>
    BY <1>2 DEF PoolThread, Spurious, filterVars
  <2> QED BY <1>2, <2>1, PoolKeepsUnrun, PoolStepRefines DEF Service!blitVars
<1>3. ASSUME \/ Exit \/ OwnerWaits
             \/ UNCHANGED vars
      PROVE  Progress' /\ [Service!Next]_(Service!blitVars)
  <2>1. UNCHANGED <<phase, calling, m_mode, jobs, dest, m_tasks, task>>
    BY <1>3 DEF Exit, OwnerWaits, Close, JoinAllWaits, SpuriousIdle, Closed, Terminate,
                ThreadsJoined, filterVars, poolVars, vars
  <2>2. \A w \in Workers : worker[w] = "running" => worker'[w] = "running"
    <3>1. worker' = worker \/ worker' = [w \in Workers |-> Woken(worker[w])]
      BY <1>3 DEF Exit, OwnerWaits, Close, JoinAllWaits, SpuriousIdle, Closed, Terminate,
                  ThreadsJoined, poolVars, vars
    <3> QED BY <3>1 DEF Woken
  <2>3. Unrun \subseteq Unrun'
    BY <2>1, <2>2 DEF Unrun
  <2> QED BY <2>1, <2>3, PoolStepRefines DEF Service!blitVars
<1> QED BY <1>1, <1>2, <1>3, CallerRefines DEF Next, Finished

\* AutoFilter does what Blit says, step by step: a call filters every row of its
\* region with its own mode, and nothing else, before it returns.
THEOREM FiltersSafely == SafetySpec => Service!Init /\ [][Service!Next]_(Service!blitVars)
<1>1. Init => PoolInv /\ Progress /\ Service!Init
  BY InitInv, InitRefines
<1>2. PoolInv /\ Progress /\ [Next]_vars
        => PoolInv' /\ Progress' /\ [Service!Next]_(Service!blitVars)
  BY NextInv, NextRefines
<1> QED BY <1>1, <1>2, PTL DEF SafetySpec

=============================================================================
