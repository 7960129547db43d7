----------------------------- MODULE AutoFilter -----------------------------
(***************************************************************************)
(* Filter::Scale::AutoFilter: a region of the destination is cut into      *)
(* chunks of rows, one FilterJob each, run by the thread pool; small       *)
(* regions and unscaled copies are done by the caller itself. The jobs     *)
(* live in a vector on the caller's stack that the tasks hold by           *)
(* reference, and read their mode and source from static members.          *)
(*                                                                         *)
(* The pool is created by the first call and destroyed with the program.   *)
(* Filtering a row is abstracted to recording the mode it was done with.   *)
(***************************************************************************)
EXTENDS Threadpool

CONSTANTS
    Modes,
    Blank,          \* a row nobody has written
    ChunkSize,      \* FilterJob::ChunkSize
    MaxRows         \* bound of the model: tallest region

ASSUME AutoFilterAssumption ==
    /\ ChunkSize \in Nat \ {0}
    /\ MaxRows \in Nat \ {0}
    /\ Blank \notin Modes
    /\ Tasks = 0..(MaxRows \div ChunkSize)    \* a task is the number of its job

VARIABLES
    phase,          \* where AutoFilter is
    calling,        \* its arguments: mode and height of the region
    m_mode,         \* FilterJob::m_mode, a static
    jobs,           \* how many of the call's jobs exist
    dest            \* the destination: the mode each row was filtered with

filterVars == <<phase, calling, m_mode, jobs, dest>>
vars == <<poolVars, filterVars>>

Service == INSTANCE Blit

Rows == 0..(MaxRows - 1)

NoCall == [mode |-> Blank, rows |-> 0]

\* Mutant: a last chunk that is not full is forgotten.
NumFullSegments(rows) == rows \div ChunkSize

\* num_segments: when the height is a multiple of the chunk size, the last one
\* is empty.
NumSegments(rows) == rows \div ChunkSize + 1

\* FilterJob::Construct: the rows of the destination that job i filters.
JobRows(i, rows) ==
    {r \in Rows : i * ChunkSize <= r /\ r < (i + 1) * ChunkSize /\ r < rows}

Filtered(rows) == [r \in Rows |-> IF r \in rows THEN m_mode ELSE dest[r]]

-----------------------------------------------------------------------------
(* The caller, who also is the owner of the pool.                          *)

\* The arguments are good and the region is not empty; SetSource. `large`: scaled,
\* wider than MinimumChunkWidth and taller than a chunk.
Begin(mode, rows, large) ==
    /\ phase = "idle" /\ owner = "free"
    /\ large => rows > ChunkSize
    /\ calling' = [mode |-> mode, rows |-> rows]
    /\ m_mode' = mode
    /\ jobs' = 0
    /\ dest' = [r \in Rows |-> Blank]
    /\ phase' = IF large THEN "adding" ELSE "inline"
    /\ UNCHANGED poolVars

\* DirectCopy, or a single job on the caller's own thread.
RunInline ==
    /\ phase = "inline"
    /\ dest' = Filtered(0..(calling.rows - 1))
    /\ phase' = "done"
    /\ UNCHANGED <<poolVars, calling, m_mode, jobs>>

AddJob ==
    /\ phase = "adding" /\ jobs < NumSegments(calling.rows)
    /\ AddTask(jobs)
    /\ jobs' = jobs + 1
    /\ UNCHANGED <<phase, calling, m_mode, dest>>

Join ==
    /\ phase = "adding" /\ jobs = NumSegments(calling.rows)
    /\ JoinAll
    /\ phase' = "joining"
    /\ UNCHANGED <<calling, m_mode, jobs, dest>>

Joined ==
    /\ phase = "joining"
    /\ JoinAllReturns
    /\ phase' = "done"
    /\ UNCHANGED <<calling, m_mode, jobs, dest>>

\* The vector of jobs and the destination go out of scope.
Return ==
    /\ phase = "done"
    /\ phase' = "idle"
    /\ calling' = NoCall
    /\ jobs' = 0
    /\ UNCHANGED <<poolVars, m_mode, dest>>

\* The program exits: the static pool is destroyed.
Exit == phase = "idle" /\ Close /\ UNCHANGED filterVars

\* The rest of what the owner does inside the pool.
OwnerWaits ==
    /\ JoinAllWaits \/ SpuriousIdle \/ Closed \/ Terminate \/ ThreadsJoined
    /\ UNCHANGED filterVars

-----------------------------------------------------------------------------
(* The threads of the pool.                                                *)

\* FilterJob::Run, with the job's own rows and the static mode.
RunJob(w) ==
    /\ RunTask(w)
    /\ dest' = Filtered(JobRows(task[w], calling.rows))
    /\ UNCHANGED <<phase, calling, m_mode, jobs>>

PoolThread(w) ==
    /\ ThreadStarts(w) \/ WorkAvailable(w) \/ FinishTask(w)
    /\ UNCHANGED filterVars

Spurious(w) == SpuriousWakeup(w) /\ UNCHANGED filterVars

Finished == owner = "gone" /\ UNCHANGED vars

-----------------------------------------------------------------------------

Init ==
    /\ PoolInit
    /\ phase = "idle"
    /\ calling = NoCall
    /\ m_mode = Blank
    /\ jobs = 0
    /\ dest = [r \in Rows |-> Blank]

CallerStep == RunInline \/ AddJob \/ Join \/ Joined \/ Return
                \/ (OwnerStep /\ UNCHANGED filterVars /\ ~JoinAllReturns)

ThreadStep(w) == RunJob(w) \/ PoolThread(w)

Next ==
    \/ \E mode \in Modes, rows \in 1..MaxRows, large \in BOOLEAN : Begin(mode, rows, large)
    \/ RunInline \/ AddJob \/ Join \/ Joined \/ Return \/ Exit \/ OwnerWaits
    \/ \E w \in Workers : RunJob(w) \/ PoolThread(w) \/ Spurious(w)
    \/ Finished

SafetySpec == Init /\ [][Next]_vars

\* Every thread is scheduled; nothing is assumed about calls or spurious wakeups.
Spec == SafetySpec /\ WF_vars(CallerStep) /\ \A w \in Workers : WF_vars(ThreadStep(w))

-----------------------------------------------------------------------------
(* Properties.                                                             *)

FilterTypeOK ==
    /\ m_tasks \in Seq(Tasks)
    /\ m_numRunning \in 0..Cardinality(Workers)
    /\ m_terminate \in BOOLEAN
    /\ worker \in [Workers -> WorkerStates]
    /\ task \in [Workers -> Tasks \cup {NoTask}]
    /\ owner \in OwnerStates
    /\ phase \in {"idle", "inline", "adding", "joining", "done"}
    /\ calling \in [mode : Modes \cup {Blank}, rows : 0..MaxRows]
    /\ m_mode \in Modes \cup {Blank}
    /\ jobs \in 0..NumSegments(MaxRows)
    /\ dest \in [Rows -> Modes \cup {Blank}]

\* A task is `[&jobs, i]`: as long as one is queued or about to run, the call
\* whose stack holds the vector has not returned and job i is constructed.
JobsOutliveTasks ==
    /\ \A k \in DOMAIN m_tasks : phase \in {"adding", "joining"} /\ m_tasks[k] < jobs
    /\ \A w \in Workers :
           worker[w] = "running" => phase \in {"adding", "joining"} /\ task[w] < jobs

\* Every row of the region is filtered, with the mode of this call, before
\* AutoFilter returns; no thread writes later, or outside the region; and the
\* call returns: no wakeup is lost between the pool's two conditions.
FiltersTheRegion == Service!Spec

\* The destructor gets all threads to exit, wherever they wait.
PoolShutsDown == (owner = "closing") ~> (owner = "gone")

=============================================================================
