----------------------------- MODULE ImageCache -----------------------------
(***************************************************************************)
(* The image cache: the main thread running Img::Cacher and the Viewer     *)
(* handlers around it, Img::ImageQueue and Img::BackgroundProcessor        *)
(* between the threads, and Img::DecoderWorkerThread with its WorkList.    *)
(*                                                                         *)
(* The list, the position and the request list change as in Cacher, whose  *)
(* actions are used here as they are; this module adds when the main       *)
(* thread hands over to the worker and waits for it. A step is a critical  *)
(* section of m_mxWorkList or of the queue's mutex, or a piece of code     *)
(* that touches nothing shared.                                            *)
(***************************************************************************)
EXTENDS Cacher, WorkList

CONSTANT Limits     \* the memory limits that can be set

ASSUME CacheAssumption == Limits \subseteq Nat

VARIABLES
    m_state,            \* DecoderWorkerThread::m_state
    worker,             \* where the worker thread is
    m_package,          \* the image of m_package.Loader, or NoImage
    packages,           \* WorkList::m_workPackages
    m_memoryLimit,      \* the limit in force
    m_newMemoryLimit,   \* the limit from the next rebuild on
    finished,           \* Image::isFinished of every image
    main,               \* where the main thread is
    pending,            \* the call that waits for the worker
    shown,              \* ViewPort::m_image, or NoImage
    filling             \* FillCacher is running: the viewport keeps its image

workerVars == <<m_state, worker, m_package, packages, m_memoryLimit, finished>>
viewVars == <<shown, filling>>
vars == <<cacherVars, workerVars, m_newMemoryLimit, main, pending, viewVars>>

NoCall == [call |-> "none"]
RemoveCall(i) == [call |-> "remove", index |-> i]
ClearCall == [call |-> "clear"]

\* The package of an image, changed by Op.
Changed(ps, image, Op(_)) ==
    [k \in DOMAIN ps |-> IF ps[k].image = image THEN Op(ps[k]) ELSE ps[k]]

-----------------------------------------------------------------------------
(* DecoderWorkerThread, called from the main thread.                       *)

\* notify_all on m_cdGotWork: a waiting worker runs again.
GotWork == IF worker = "waiting" THEN "running" ELSE worker

\* Mutant: the sleeping worker is not told.
UpdateSilently ==
    IF m_state = "Stopped" THEN UNCHANGED <<m_state, packages, worker>>
    ELSE /\ m_state' = "Updating"
         /\ packages' = Changed(packages, m_package, Abort)
         /\ UNCHANGED worker

\* Update, up to the point where it returns or waits for m_cdUpdated.
Update ==
    IF m_state = "Stopped" THEN UNCHANGED <<m_state, packages, worker>>
    ELSE /\ m_state' = "Updating"
         /\ packages' = Changed(packages, m_package, Abort)
         /\ worker' = GotWork

\* Update(false), after which the Viewer shows what is now the current image.
UpdateAndShow ==
    /\ main = "update"
    /\ Update
    /\ main' = "idle"
    /\ shown' = IF filling THEN shown ELSE CurrentImage
    /\ UNCHANGED <<cacherVars, m_package, m_memoryLimit, finished, m_newMemoryLimit,
                   pending, filling>>

\* Mutant: the call does not wait for the worker.
AfterUpdateNoWait == "woken"

\* Update(true) waits, unless the worker has stopped.
AfterUpdate == IF m_state = "Stopped" THEN "woken" ELSE "waiting"

UpdateAndWait ==
    /\ main = "updateWait"
    /\ Update
    /\ main' = AfterUpdate
    /\ UNCHANGED <<cacherVars, m_package, m_memoryLimit, finished, m_newMemoryLimit,
                   pending, viewVars>>

-----------------------------------------------------------------------------
(* The main thread: the user, the folder monitor's events, the settings.   *)

\* A Cacher operation that ends in apply_priorities: CacheImage replaces the
\* request list and calls Update(false).
Caching(Operation) ==
    /\ main = "idle"
    /\ Operation
    /\ main' = "update"
    /\ UNCHANGED <<workerVars, m_newMemoryLimit, pending, shown>>

AddFile(name, image) ==
    Caching(image # shown /\ AddImageLast(name, image)) /\ UNCHANGED filling

SortFiles(files) == Caching(Sort(files)) /\ UNCHANGED filling

Browse ==
    /\ Caching(NextImage \/ PreviousImage \/ LastImage)
    /\ ~filling
    /\ UNCHANGED filling

\* Also the end of SetImageLocation, which shows the file it was given or else
\* the first one.
Open == /\ Caching(FirstImage \/ \E i \in 0..(Count - 1) : GotoImage(i))
        /\ filling' = FALSE

\* Mutant: the image stays in the request list.
RequestStays(q, image) == q

\* ImageQueue::RemoveImage
WithoutRequest(q, image) ==
    LET firsts == {k \in DOMAIN q :
                     /\ q[k].image = image
                     /\ \A j \in 1..(k - 1) : q[j].image # image}
    IN  IF firsts = {} THEN q ELSE RemoveAt(q, CHOOSE k \in firsts : TRUE)

\* RemoveImageIndex and RemoveCurrentImage, up to the wait for the worker.
RemoveFile(i) ==
    /\ main = "idle" /\ ~filling
    /\ i < Count
    /\ queue' = WithoutRequest(queue, At(m_files, i).image)
    /\ pending' = RemoveCall(i)
    /\ main' = "updateWait"
    /\ UNCHANGED <<m_files, m_index, m_wentForward, m_wrapAround, workerVars,
                   m_newMemoryLimit, viewVars>>

\* Clear, up to the wait: as the first step of SetImageLocation (refill), or
\* when the monitored folder was deleted; then nothing is shown any more.
ClearFiles(refill) ==
    /\ main = "idle" /\ ~filling
    /\ queue' = <<>>
    /\ pending' = ClearCall
    /\ main' = "updateWait"
    /\ filling' = refill
    /\ shown' = IF refill THEN shown ELSE NoImage
    /\ UNCHANGED <<m_files, m_index, m_wentForward, m_wrapAround, workerVars,
                   m_newMemoryLimit>>

\* The rest of the call, once the worker has updated.
FinishRemove ==
    /\ main = "woken" /\ pending.call = "remove"
    /\ RemoveImageIndex(pending.index)
    /\ main' = "update"
    /\ pending' = NoCall
    /\ UNCHANGED <<workerVars, m_newMemoryLimit, viewVars>>

FinishClear ==
    /\ main = "woken" /\ pending.call = "clear"
    /\ Clear
    /\ main' = "idle"
    /\ pending' = NoCall
    /\ UNCHANGED <<workerVars, m_newMemoryLimit, viewVars>>

\* Cacher::MemoryLimit: the worker updates for the new limit, then the current
\* images are requested again.
SetLimit(limit) ==
    /\ main = "idle" /\ ~filling
    /\ m_newMemoryLimit' = limit
    /\ main' = "limit"
    /\ UNCHANGED <<cacherVars, workerVars, pending, viewVars>>

UpdateLimit ==
    /\ main = "limit"
    /\ Update
    /\ main' = "request"
    /\ UNCHANGED <<cacherVars, m_package, m_memoryLimit, finished, m_newMemoryLimit,
                   pending, viewVars>>

RequestAgain ==
    /\ main = "request"
    /\ \E wrap \in BOOLEAN : SettingsChanged(wrap)
    /\ main' = "update"
    /\ UNCHANGED <<workerVars, m_newMemoryLimit, pending, viewVars>>

\* Stop: the destructor of BackgroundProcessor terminates the worker and joins.
Stop ==
    /\ main = "idle" /\ ~filling
    /\ m_state' = "Terminating"
    /\ packages' = Changed(packages, m_package, Abort)
    /\ worker' = GotWork
    /\ main' = "join"
    /\ UNCHANGED <<cacherVars, m_package, m_memoryLimit, finished, m_newMemoryLimit,
                   pending, viewVars>>

\* join returns; the WorkList goes, and deallocates the images it still has.
Join ==
    /\ main = "join" /\ worker = "exited"
    /\ m_state' = "Stopped"
    /\ packages' = <<>>
    /\ finished' = [i \in Images |-> finished[i] /\ i \notin ImagesOf(packages)]
    /\ main' = "closed"
    /\ UNCHANGED <<cacherVars, worker, m_package, m_memoryLimit, m_newMemoryLimit,
                   pending, viewVars>>

-----------------------------------------------------------------------------
(* The worker thread.                                                      *)

\* What the worker does once FetchPackage has answered in state StRunning.
WorkOn(image) ==
    /\ worker' = IF image = NoImage THEN "waiting" ELSE "loading"
    /\ m_package' = image

\* Mutant: the main thread is not told that the update is done.
UpdatedSilently == main

\* notify_all on m_cdUpdated
Updated == IF main = "waiting" THEN "woken" ELSE main

\* The critical section when an update is due: PerformUpdate, then back to
\* FetchPackage without giving up the mutex.
WorkerUpdate ==
    /\ worker = "running" /\ m_state = "Updating"
    /\ m_memoryLimit' = m_newMemoryLimit
    /\ \E rebuilt \in {Rebuild(packages, queue, m_newMemoryLimit)} :
        /\ packages' = rebuilt
        /\ finished' = [i \in Images |->
                            finished[i] /\ i \notin Deallocated(packages, rebuilt)]
        /\ \E image \in {FetchPackage(rebuilt, m_newMemoryLimit)} : WorkOn(image)
    /\ m_state' = "Running"
    /\ main' = Updated
    /\ UNCHANGED <<cacherVars, m_newMemoryLimit, pending, viewVars>>

\* The critical section when there is nothing but work to fetch.
WorkerFetch ==
    /\ worker = "running" /\ m_state = "Running"
    /\ \E image \in {FetchPackage(packages, m_memoryLimit)} :
        /\ worker' = IF image = NoImage THEN "waiting" ELSE "loading"
        /\ m_package' = IF image = NoImage THEN m_package ELSE image
    /\ UNCHANGED <<cacherVars, m_state, packages, m_memoryLimit, finished,
                   m_newMemoryLimit, main, pending, viewVars>>

\* The critical section when the thread is to end.
WorkerExit ==
    /\ worker = "running" /\ m_state = "Terminating"
    /\ m_state' = "Stopped"
    /\ worker' = "exited"
    /\ UNCHANGED <<cacherVars, m_package, packages, m_memoryLimit, finished,
                   m_newMemoryLimit, main, pending, viewVars>>

\* processImage, outside the mutex: one call of Load.
WorkerLoad ==
    /\ worker = "loading"
    /\ \E k \in DOMAIN packages : packages[k].image = m_package /\
        \E result \in Load(packages[k]) :
            /\ packages' = [packages EXCEPT ![k] = result.loader]
            /\ finished' = [finished EXCEPT ![m_package] = @ \/ result.finish]
    /\ worker' = "returning"
    /\ UNCHANGED <<cacherVars, m_state, m_package, m_memoryLimit, m_newMemoryLimit,
                   main, pending, viewVars>>

\* ReturnPackage, outside the mutex too.
WorkerReturn ==
    /\ worker = "returning"
    /\ packages' = Changed(packages, m_package, ResetAbort)
    /\ worker' = "running"
    /\ UNCHANGED <<cacherVars, m_state, m_package, m_memoryLimit, finished,
                   m_newMemoryLimit, main, pending, viewVars>>

-----------------------------------------------------------------------------

Init ==
    /\ CacherInit
    /\ m_state = "Running"
    /\ worker = "running"
    /\ m_package = NoImage
    /\ packages = <<>>
    /\ m_memoryLimit = 0
    /\ m_newMemoryLimit = 0
    /\ finished = [i \in Images |-> FALSE]
    /\ main = "idle"
    /\ pending = NoCall
    /\ shown = NoImage
    /\ filling = FALSE

\* What the user, the folder monitor and the settings may ask for at any time.
UserStep ==
    \/ \E name \in Names, image \in Images : AddFile(name, image)
    \/ \E files \in Reorderings(m_files) : SortFiles(files)
    \/ Browse
    \/ Open
    \/ \E i \in 0..(Count - 1) : RemoveFile(i)
    \/ \E refill \in BOOLEAN : ClearFiles(refill)
    \/ \E limit \in Limits : SetLimit(limit)
    \/ Stop

\* What the main thread does on its own, to finish a call.
MainStep ==
    \/ UpdateAndShow
    \/ UpdateAndWait
    \/ FinishRemove
    \/ FinishClear
    \/ UpdateLimit
    \/ RequestAgain
    \/ Join

WorkerStep ==
    \/ WorkerUpdate
    \/ WorkerFetch
    \/ WorkerExit
    \/ WorkerLoad
    \/ WorkerReturn

Next == UserStep \/ MainStep \/ WorkerStep

\* Where each thread can take a step. (These are ENABLED MainStep and ENABLED
\* WorkerStep, read off the guards: TLC takes long to evaluate those.)
MainReady ==
    \/ main \in {"update", "updateWait", "woken", "limit", "request"}
    \/ main = "join" /\ worker = "exited"

WorkerReady == worker \in {"running", "loading", "returning"}

\* Weak fairness of MainStep and of WorkerStep: both threads are scheduled,
\* every codec call returns, and the mutexes are held for a moment only.
\* Nothing makes the user do anything.
Fairness ==
    /\ []<>~MainReady \/ []<><<MainStep>>_vars
    /\ []<>~WorkerReady \/ []<><<WorkerStep>>_vars

Spec == Init /\ [][Next]_vars /\ Fairness

-----------------------------------------------------------------------------
(* Properties.                                                             *)

\* The worker never holds an image the main thread has freed: RemoveImage and
\* Reset wait for m_cdUpdated before the FileEntry that owns the image goes.
NoDanglingLoader == ImagesOf(packages) \subseteq ImagesOf(m_files)

\* The image a loader fills belongs to the file the loader reads. An address
\* that is allocated again must not find the loader of its previous owner.
LoaderServesItsFile ==
    \A k \in DOMAIN packages, j \in DOMAIN m_files :
        packages[k].image = m_files[j].image => packages[k].filename = m_files[j].name

\* What the packages with pixels (or being given some) are estimated to need.
MemoryHeld == Total([k \in DOMAIN packages |-> HeldBy(packages[k])], Len(packages))

\* Eviction (against what is loaded, at a rebuild) and loading (against what
\* comes before, at any time) count differently and may both use up the limit;
\* together they stay within twice the limit, or one image beyond the limit
\* when "at least ONE image" is loaded whatever it needs.
MemoryBudget ==
    \/ MemoryHeld <= 2 * m_memoryLimit
    \/ \E k \in DOMAIN packages :
            MemoryHeld <= m_memoryLimit + MemoryRequirements(packages[k])

\* The image on the screen is not taken away: once it is finished it stays so,
\* through every rebuild and eviction, until the user removes it, moves away
\* from it or closes the program.
KeepsShown ==
    LET removing == \/ pending = ClearCall
                    \/ pending = RemoveCall(m_index)
    IN  /\ shown # NoImage /\ CurrentImage = shown /\ finished[shown]
        /\ CurrentImage' = shown
        /\ ~removing /\ main' # "closed"
        => finished'[shown]

ShownStaysFinished == [][KeepsShown]_vars

\* The user leaves the program alone, with every call returned.
LeftAlone == main = "idle" /\ ~filling

\* Left alone, the program ends up with the image shown loaded, or known to be
\* corrupt: no abort is left standing, no wakeup is lost, and the memory limit
\* never keeps the image shown from being loaded.
ShownIsLoaded ==
    shown # NoImage =>
        \E k \in DOMAIN packages : packages[k].image = shown /\ ~IsLoad(packages[k])

ShownEventuallyLoaded == <>[]LeftAlone => <>[]ShownIsLoaded

\* Left alone, the worker goes to sleep: it does not load, evict and load
\* again, nor try a corrupt image forever.
WorkerComesToRest == <>[]LeftAlone => <>[](worker = "waiting")

\* No call into the cache hangs: the worker answers every Update(true), and
\* joins when it is told to stop.
EveryCallReturns == main \notin {"idle", "closed"} ~> main \in {"idle", "closed"}

\* The decoder keeps the promises of DecoderService.
Service == INSTANCE DecoderService WITH
    requested <- ImagesOf(queue) \ {NoImage},
    held      <- ImagesOf(packages),
    open      <- main \notin {"join", "closed"}

ImplementsService == Service!Spec

=============================================================================
