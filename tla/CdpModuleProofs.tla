-------------------------- MODULE CdpModuleProofs --------------------------
(***************************************************************************)
(* Proofs about CdpModule, for any number of CPUs, of reading processes    *)
(* and of neighbours: the order of loading and unloading and the lock keep *)
(* the users of the list apart.  Nothing about the list itself is needed   *)
(* for that; what NeighborListProofs has of it then holds in the module.   *)
(***************************************************************************)
EXTENDS CdpModule, NeighborListProofs

Handlers == {"none"} \union RxPhases \union TimerPhases

\* The values of the variables the proofs look at.
KernelTypes ==
  /\ work \in [Cpus -> Handlers]
  /\ reading \in [Procs -> [file : 0..3, cpu : Cpus \union {NULL},
                            at : ReaderPhases]]

\* Nobody is at work on the list unless somebody holds the write lock.
LockedOps == writer = NULL => op = "idle"

\* Only the end of unloading closes the list.
ClosedLast == life # "live" => phase \in {"clean", "free", "gone"}

Unregistered == {"proc", "timer", "snap", "unproc", "clean", "free", "gone"}

\* While the SNAP handler is not registered no frame is being handled; when it
\* is just unregistered, no new one arrives.
FramesGone ==
  /\ phase \in Unregistered \union {"drain"} => snap = "none"
  /\ phase \in Unregistered => \A c \in Cpus : work[c] \notin RxPhases

\* Who reads a file is counted among its users, and at the end there are none.
FilesGone ==
  /\ phase \in {"clean", "free", "gone"} =>
       files = 0 /\ \A p \in Procs : reading[p].file = 0
  /\ files \in 0..3 /\ (phase = "proc" => files < 3)
  /\ \A p \in Procs : reading[p].at # "out" => reading[p].file > 0

Waits(p) == reading[p].at \in {"spin", "holding", "parsing"}

\* A process at the lock has a CPU of its own, whose interrupts are off and on
\* which no softirq is.
OwnCpu ==
  /\ \A p \in Procs : Waits(p) =>
       reading[p].cpu \in irqOff /\ work[reading[p].cpu] = "none"
  /\ \A p, q \in Procs : Waits(p) /\ Waits(q) /\ p # q =>
       reading[p].cpu # reading[q].cpu

\* The inductive invariant.
KernelInv ==
  /\ KernelTypes
  /\ LockedOps
  /\ ClosedLast
  /\ FramesGone
  /\ FilesGone
  /\ OwnCpu
  /\ TimerAlive

-----------------------------------------------------------------------------
(* Steps of the list.                                                      *)

\* Neither recording a frame nor purging closes the list.
LEMMA ListStepsKeepLife ==
  ASSUME \/ \E id \in Identities, f \in Frames : StartLookup(id, f)
         \/ LookupNext \/ LookupHit \/ CreateNoMemory
         \/ \E n \in Neighbors : CreatePartial(n) \/ Create(n)
         \/ ReadClock \/ StartPurge \/ PurgeKeep \/ PurgeExpired \/ EndPurge
         \/ Tick
  PROVE  life' = life
  BY DEF StartLookup, LookupNext, LookupHit, CreateNoMemory, CreatePartial,
         Create, ReadClock, StartPurge, PurgeKeep, PurgeExpired, EndPurge, Tick,
         listVars

LEMMA KernelInvInit == ModuleInit => KernelInv
  BY DEF ModuleInit, Init, KernelInv, KernelTypes, LockedOps, ClosedLast,
         FramesGone, FilesGone, OwnCpu, TimerAlive, Waits, NotReading, Handlers,
         ReaderPhases, RxPhases, TimerPhases, Unregistered

\* The list's variables do not matter to the invariant but for life and op.
LEMMA WorkKeeps ==
  ASSUME KernelInv, NEW c \in Cpus, NEW w \in Handlers,
         work' = [work EXCEPT ![c] = w], work[c] # "none" \/ c \notin irqOff,
         UNCHANGED <<phase, files, snap, readers, reading, irqOff>>,
         phase \in Unregistered => w \notin RxPhases,
         life' = life,
         pending \/ (\E d \in Cpus : work[d] \in TimerPhases) =>
           pending' \/ (\E d \in Cpus : work'[d] \in TimerPhases)
  PROVE  /\ KernelTypes' /\ ClosedLast' /\ FramesGone' /\ FilesGone'
         /\ OwnCpu' /\ TimerAlive'
<1>1. KernelTypes'
  BY DEF KernelInv, KernelTypes
<1>2. \A d \in Cpus : work'[d] = IF d = c THEN w ELSE work[d]
  BY DEF KernelInv, KernelTypes
<1>3. ClosedLast' /\ FilesGone' /\ TimerAlive'
  BY DEF KernelInv, ClosedLast, FilesGone, TimerAlive
<1>4. FramesGone'
  BY <1>2 DEF KernelInv, FramesGone
<1>5. OwnCpu'
  <2>1. \A p \in Procs : Waits(p)' <=> Waits(p)
    BY DEF Waits
  <2>2. ASSUME NEW p \in Procs, Waits(p)
        PROVE  reading[p].cpu \in irqOff /\ work'[reading[p].cpu] = "none"
    <3>1. reading[p].cpu \in irqOff /\ work[reading[p].cpu] = "none"
      BY <2>2 DEF KernelInv, OwnCpu
    <3>2. reading[p].cpu # c
      BY <3>1
    <3> QED
      BY <3>1, <3>2 DEF KernelInv, KernelTypes
  <2> QED
    BY <2>1, <2>2 DEF KernelInv, OwnCpu
<1> QED
  BY <1>1, <1>3, <1>4, <1>5
-----------------------------------------------------------------------------
(* Frames and the timer.                                                   *)

LEMMA HandlersAre ==
  ASSUME KernelInv, NEW c \in Cpus
  PROVE  /\ work[c] \in RxPhases => phase \notin Unregistered
         /\ {"none", "rx wait", "rx locked", "timer wait", "timer locked",
             "timer transmit", "timer rearm"} = Handlers
         /\ c # NULL
  BY CpusAssumption DEF KernelInv, FramesGone, Handlers, RxPhases, TimerPhases

\* What work leaves alone when the list alone has changed.
LEMMA ListOnlyKeeps ==
  ASSUME KernelInv, UNCHANGED kernelVars, life' = life, op' = op \/ writer # NULL
  PROVE  KernelInv'
  BY DEF KernelInv, kernelVars, KernelTypes, LockedOps, ClosedLast, FramesGone,
         FilesGone, OwnCpu, TimerAlive, Waits

LEMMA ReceiveKeeps ==
  ASSUME KernelInv, NEW c \in Cpus, FrameArrives(c) \/ ReceiveWork(c)
  PROVE  KernelInv'
<1> USE HandlersAre
<1>1. CASE FrameArrives(c)
  <2>1. life' = life /\ op' = op /\ writer' = writer
    BY <1>1 DEF FrameArrives, vars, listVars, opVars
  <2>2. phase \notin Unregistered
    BY <1>1 DEF FrameArrives, KernelInv, FramesGone
  <2>3. \A d \in Cpus : d # c => work'[d] = work[d]
    BY <1>1 DEF FrameArrives, KernelInv, KernelTypes
  <2>4. /\ KernelTypes' /\ ClosedLast' /\ FramesGone' /\ FilesGone'
        /\ OwnCpu' /\ TimerAlive'
    BY <1>1, <2>1, <2>2, <2>3, WorkKeeps DEF FrameArrives, SoftirqStarts, TimerPhases
  <2> QED
    BY <2>1, <2>4 DEF KernelInv, LockedOps
<1>2. CASE ReceiveLock(c)
  <2>1. life' = life /\ writer' # NULL
    BY <1>2, ListStepsKeepLife DEF ReceiveLock, LockWrite
  <2>2. phase \notin Unregistered
    BY <1>2 DEF ReceiveLock, RxPhases
  <2>3. \A d \in Cpus : d # c => work'[d] = work[d]
    BY <1>2 DEF ReceiveLock, KernelInv, KernelTypes
  <2>4. /\ KernelTypes' /\ ClosedLast' /\ FramesGone' /\ FilesGone'
        /\ OwnCpu' /\ TimerAlive'
    BY <1>2, <2>1, <2>2, <2>3, WorkKeeps DEF ReceiveLock, TimerPhases
  <2> QED
    BY <2>1, <2>4 DEF KernelInv, LockedOps
<1>3. CASE ReceiveSearch(c)
  BY <1>3, ListStepsKeepLife, ListOnlyKeeps DEF ReceiveSearch, LookupNext
<1>4. CASE ReceiveFinish(c)
  <2>1. life' = life /\ op' = "idle"
    BY <1>4, ListStepsKeepLife
       DEF ReceiveFinish, LookupHit, CreateNoMemory, CreatePartial, Create,
           EndReceive
  <2>3. \A d \in Cpus : d # c => work'[d] = work[d]
    BY <1>4 DEF ReceiveFinish, KernelInv, KernelTypes
  <2>4. /\ KernelTypes' /\ ClosedLast' /\ FramesGone' /\ FilesGone'
        /\ OwnCpu' /\ TimerAlive'
    BY <1>4, <2>1, <2>3, WorkKeeps DEF ReceiveFinish, RxPhases, TimerPhases
  <2> QED
    BY <2>1, <2>4 DEF KernelInv, LockedOps
<1> QED
  BY <1>1, <1>2, <1>3, <1>4 DEF ReceiveWork

LEMMA TimerKeeps ==
  ASSUME KernelInv, NEW c \in Cpus, TimerExpires(c) \/ TimerWork(c)
  PROVE  KernelInv'
<1> USE HandlersAre
<1> DEFINE Rest == /\ KernelTypes' /\ ClosedLast' /\ FramesGone' /\ FilesGone'
                   /\ OwnCpu' /\ TimerAlive'
<1>1. CASE TimerExpires(c)
  <2>1. life' = life /\ op' = op /\ writer' = writer
    BY <1>1, ListStepsKeepLife DEF TimerExpires, ReadClock, opVars
  <2>2. work'[c] \in TimerPhases
    BY <1>1 DEF TimerExpires, KernelInv, KernelTypes, TimerPhases
  <2>3. Rest
    BY <1>1, <2>1, <2>2, WorkKeeps DEF TimerExpires, SoftirqStarts, RxPhases
  <2> QED
    BY <2>1, <2>3 DEF KernelInv, LockedOps
<1>2. CASE TimerLock(c)
  <2>1. life' = life /\ writer' # NULL
    BY <1>2, ListStepsKeepLife DEF TimerLock, LockWrite
  <2>2. work'[c] \in TimerPhases
    BY <1>2 DEF TimerLock, KernelInv, KernelTypes, TimerPhases
  <2>3. Rest
    BY <1>2, <2>1, <2>2, WorkKeeps DEF TimerLock, RxPhases
  <2> QED
    BY <2>1, <2>3 DEF KernelInv, LockedOps
<1>3. CASE TimerPurge(c)
  BY <1>3, ListStepsKeepLife, ListOnlyKeeps DEF TimerPurge, PurgeKeep, PurgeExpired
<1>4. CASE TimerUnlock(c)
  <2>1. life' = life /\ op' = "idle"
    BY <1>4, ListStepsKeepLife DEF TimerUnlock, EndPurge
  <2>2. PICK w \in {"timer transmit", "timer rearm"} :
          work' = [work EXCEPT ![c] = w]
    BY <1>4 DEF TimerUnlock
  <2>3. work'[c] \in TimerPhases
    BY <2>2 DEF KernelInv, KernelTypes, TimerPhases
  <2>4. Rest
    BY <1>4, <2>1, <2>2, <2>3, WorkKeeps DEF TimerUnlock, RxPhases
  <2> QED
    BY <2>1, <2>4 DEF KernelInv, LockedOps
<1>5. CASE TimerTransmit(c)
  <2>1. life' = life /\ op' = op /\ writer' = writer
    BY <1>5 DEF TimerTransmit, vars, listVars, opVars
  <2>2. work'[c] \in TimerPhases
    BY <1>5 DEF TimerTransmit, KernelInv, KernelTypes, TimerPhases
  <2>3. Rest
    BY <1>5, <2>1, <2>2, WorkKeeps DEF TimerTransmit, RxPhases
  <2> QED
    BY <2>1, <2>3 DEF KernelInv, LockedOps
<1>6. CASE TimerRearm(c)
  <2>1. life' = life /\ op' = op /\ writer' = writer
    BY <1>6 DEF TimerRearm, vars, listVars, opVars
  <2>2. Rest
    BY <1>6, <2>1, WorkKeeps DEF TimerRearm, RxPhases
  <2> QED
    BY <2>1, <2>2 DEF KernelInv, LockedOps
<1> QED
  BY <1>1, <1>2, <1>3, <1>4, <1>5, <1>6 DEF TimerWork
-----------------------------------------------------------------------------
(* Processes that read.                                                    *)

\* What a process that reads leaves alone.
LEMMA ReaderKeeps ==
  ASSUME KernelInv, KernelTypes', FilesGone', OwnCpu',
         UNCHANGED <<vars, phase, snap, pending, work, writer>>
  PROVE  KernelInv'
  BY DEF KernelInv, LockedOps, ClosedLast, FramesGone, TimerAlive, vars, listVars,
         opVars

LEMMA ReadBeginKeeps ==
  ASSUME KernelInv, NEW p \in Procs, NEW f \in Files, NEW c \in Cpus,
         ReadBegin(p, f, c)
  PROVE  KernelInv'
<1> USE DEF ReadBegin
<1>1. KernelTypes'
  BY DEF KernelInv, KernelTypes, Files, ReaderPhases
<1>2. /\ reading'[p] = [file |-> f, cpu |-> c, at |-> "in"]
      /\ \A q \in Procs : q # p => reading'[q] = reading[q]
  BY DEF KernelInv, KernelTypes
<1>3. FilesGone'
  <2>1. f > 0 /\ f <= files /\ files \in 0..3
    BY DEF KernelInv, FilesGone, Files
  <2>2. phase \notin {"clean", "free", "gone"}
    BY <2>1 DEF KernelInv, FilesGone, Files
  <2> QED
    BY <1>2, <2>1, <2>2 DEF KernelInv, FilesGone
<1>4. OwnCpu'
  <2>1. \A q \in Procs : Waits(q)' => q # p /\ Waits(q) /\ reading'[q] = reading[q]
    BY <1>2 DEF Waits
  <2> QED
    BY <2>1 DEF KernelInv, OwnCpu
<1> QED
  BY <1>1, <1>3, <1>4, ReaderKeeps

LEMMA ReadStepKeeps ==
  ASSUME KernelInv, NEW p \in Procs,
         \/ SeqStart(p) \/ SeqLocked(p) \/ SeqLockedDies(p)
         \/ ShowNeverEnds(p) \/ SeqStop(p) \/ ReadEnd(p)
  PROVE  KernelInv'
<1> USE DEF ReaderPhases
<1>1. CASE SeqStart(p)
  <2> USE <1>1 DEF SeqStart
  <2>1. KernelTypes'
    BY DEF KernelInv, KernelTypes
  <2>2. /\ reading'[p] = [reading[p] EXCEPT !.at = "spin"]
        /\ reading'[p].cpu = reading[p].cpu /\ reading'[p].file = reading[p].file
        /\ \A q \in Procs : q # p => reading'[q] = reading[q]
    BY DEF KernelInv, KernelTypes
  <2>3. FilesGone'
    BY <2>2 DEF KernelInv, FilesGone
  <2>4. \A q \in Procs : Waits(q)' => q = p \/ Waits(q)
    BY <2>2 DEF Waits
  <2>5. \A q \in Procs : q # p /\ Waits(q) => reading[q].cpu # reading[p].cpu
    BY DEF KernelInv, OwnCpu, ProcessRuns
  <2>6. OwnCpu'
    BY <2>2, <2>4, <2>5 DEF KernelInv, OwnCpu, ProcessRuns
  <2> QED
    BY <2>1, <2>3, <2>6, ReaderKeeps
<1>2. CASE SeqLocked(p) \/ ShowNeverEnds(p)
  <2> USE <1>2 DEF SeqLocked, ShowNeverEnds
  <2>1. KernelTypes'
    BY DEF KernelInv, KernelTypes
  <2>2. \A q \in Procs : /\ reading'[q].cpu = reading[q].cpu
                         /\ reading'[q].file = reading[q].file
                         /\ Waits(q)' <=> Waits(q)
                         /\ reading'[q].at # "out" => reading[q].at # "out"
    BY DEF KernelInv, KernelTypes, Waits
  <2>3. FilesGone'
    BY <2>2 DEF KernelInv, FilesGone
  <2>4. OwnCpu'
    BY <2>2 DEF KernelInv, OwnCpu
  <2> QED
    BY <2>1, <2>3, <2>4, ReaderKeeps
<1>3. CASE SeqStop(p) \/ SeqLockedDies(p)
  <2> USE <1>3 DEF SeqStop, SeqLockedDies
  <2>1. KernelTypes'
    BY DEF KernelInv, KernelTypes
  <2>2. \A q \in Procs : /\ reading'[q].cpu = reading[q].cpu
                         /\ reading'[q].file = reading[q].file
                         /\ Waits(q)' => Waits(q) /\ q # p
                         /\ reading'[q].at # "out" => reading[q].at # "out"
    BY DEF KernelInv, KernelTypes, Waits
  <2>3. FilesGone'
    BY <2>2 DEF KernelInv, FilesGone
  <2>4. Waits(p)
    BY DEF Waits
  <2>5. OwnCpu'
    BY <2>2, <2>4 DEF KernelInv, OwnCpu
  <2> QED
    BY <2>1, <2>3, <2>5, ReaderKeeps
<1>4. CASE ReadEnd(p)
  <2> USE <1>4 DEF ReadEnd
  <2>1. KernelTypes'
    BY DEF KernelInv, KernelTypes, NotReading
  <2>2. /\ reading'[p] = NotReading
        /\ \A q \in Procs : q # p => reading'[q] = reading[q]
    BY DEF KernelInv, KernelTypes
  <2>3. FilesGone'
    BY <2>2 DEF KernelInv, FilesGone, NotReading
  <2>4. \A q \in Procs : Waits(q)' => Waits(q) /\ q # p
    BY <2>2 DEF Waits, NotReading
  <2>5. OwnCpu'
    BY <2>2, <2>4 DEF KernelInv, OwnCpu
  <2> QED
    BY <2>1, <2>3, <2>5, ReaderKeeps
<1> QED
  BY <1>1, <1>2, <1>3, <1>4

-----------------------------------------------------------------------------
(* Loading and unloading.                                                  *)

\* What loading and unloading leave alone.
LEMMA LoaderKeeps ==
  ASSUME KernelInv, ClosedLast', FramesGone', FilesGone', TimerAlive',
         UNCHANGED handlerVars, op' = op
  PROVE  KernelInv'
  BY DEF KernelInv, KernelTypes, LockedOps, OwnCpu, Waits, handlerVars

LEMMA LoadingKeeps ==
  ASSUME KernelInv, Loading \/ Unload
  PROVE  KernelInv'
<1> USE DEF KernelInv, ClosedLast, FramesGone, FilesGone, TimerAlive,
        Unregistered, handlerVars, vars, listVars, opVars
<1>1. CASE CreateFile
  BY <1>1, LoaderKeeps DEF CreateFile
<1>2. CASE CreateFileFails
  BY <1>2, LoaderKeeps DEF CreateFileFails
<1>3. CASE ArmTimer
  BY <1>3, LoaderKeeps DEF ArmTimer
<1>4. CASE RegisterSnap
  BY <1>4, LoaderKeeps DEF RegisterSnap
<1>5. CASE RegisterSnapFails
  BY <1>5, LoaderKeeps DEF RegisterSnapFails
<1>6. CASE JoinMulticast
  BY <1>6, LoaderKeeps DEF JoinMulticast
<1>7. CASE Unload
  BY <1>7, LoaderKeeps DEF Unload
<1> QED
  BY <1>1, <1>2, <1>3, <1>4, <1>5, <1>6, <1>7 DEF Loading

LEMMA UnloadingKeeps ==
  ASSUME KernelInv, Unloading
  PROVE  KernelInv'
<1> USE DEF KernelInv, ClosedLast, FramesGone, FilesGone, TimerAlive,
        Unregistered, handlerVars, vars, listVars, opVars
<1>1. CASE DelTimer
  BY <1>1, LoaderKeeps DEF DelTimer
<1>2. CASE LeaveMulticast
  BY <1>2, LoaderKeeps DEF LeaveMulticast
<1>3. CASE UnregisterSnap
  BY <1>3, LoaderKeeps DEF UnregisterSnap
<1>4. CASE SnapDrained
  BY <1>4, LoaderKeeps DEF SnapDrained
<1>5. CASE RemoveFile
  BY <1>5, LoaderKeeps DEF RemoveFile
<1>6. CASE StartClean
  <2>1. \A p \in Procs : reading[p].file = 0
    BY <1>6 DEF StartClean, RemovedFilesUnused, KernelTypes
  <2> QED
    BY <1>6, <2>1, LoaderKeeps DEF StartClean, CloseList
<1>7. CASE CleanList
  <2>1. life' = life /\ op' = op
    BY <1>7 DEF CleanList, CleanStep
  <2> QED
    BY <1>7, <2>1, ListOnlyKeeps DEF CleanList
<1>8. CASE FreeList
  BY <1>8, LoaderKeeps DEF FreeList, DeleteList
<1>9. CASE FreeStrings
  BY <1>9, LoaderKeeps DEF FreeStrings
<1> QED
  BY <1>1, <1>2, <1>3, <1>4, <1>5, <1>6, <1>7, <1>8, <1>9 DEF Unloading
-----------------------------------------------------------------------------
(* What is known of every behaviour.                                       *)

LEMMA KernelInvStep == KernelInv /\ [ModuleNext]_allVars => KernelInv'
<1> SUFFICES ASSUME KernelInv, [ModuleNext]_allVars PROVE KernelInv'
  OBVIOUS
<1>1. CASE \E c \in Cpus : FrameArrives(c) \/ ReceiveWork(c)
  BY <1>1, ReceiveKeeps
<1>2. CASE \E c \in Cpus : TimerExpires(c) \/ TimerWork(c)
  BY <1>2, TimerKeeps
<1>3. CASE \E p \in Procs, f \in Files, c \in Cpus : ReadBegin(p, f, c)
  BY <1>3, ReadBeginKeeps
<1>4. CASE \E p \in Procs : SeqStart(p) \/ ReadWork(p) \/ ShowNeverEnds(p) \/ ReadEnd(p)
  BY <1>4, ReadStepKeeps DEF ReadWork
<1>5. CASE Loading \/ Unload \/ Unloading
  BY <1>5, LoadingKeeps, UnloadingKeeps
<1>6. CASE ClockTick
  BY <1>6, ListStepsKeepLife, ListOnlyKeeps DEF ClockTick, Tick, opVars
<1>7. CASE UNCHANGED allVars
  BY <1>7, ListOnlyKeeps DEF allVars, vars, listVars, opVars
<1>8. CASE DeviceChange
  BY <1>8
     DEF DeviceChange, KernelInv, KernelTypes, LockedOps, ClosedLast, FramesGone,
         FilesGone, OwnCpu, TimerAlive, Waits, vars, listVars, opVars
<1> QED
  BY <1>1, <1>2, <1>3, <1>4, <1>5, <1>6, <1>7, <1>8 DEF ModuleNext

LEMMA KernelInvHolds == ModuleSpec => []KernelInv
  BY KernelInvInit, KernelInvStep, PTL DEF ModuleSpec

\* What the invariant gives.
LEMMA KernelCorrect ==
  ModuleSpec => [](UsersGoneBeforeClean /\ NoSpinOverHolder /\ TimerAlive)
<1>1. KernelInv => UsersGoneBeforeClean /\ NoSpinOverHolder /\ TimerAlive
  <2> SUFFICES ASSUME KernelInv
               PROVE  UsersGoneBeforeClean /\ NoSpinOverHolder /\ TimerAlive
    OBVIOUS
  <2>1. UsersGoneBeforeClean
    <3> SUFFICES ASSUME life # "live"
                 PROVE  /\ \A c \in Cpus : work[c] \notin RxPhases
                        /\ \A p \in Procs : reading[p].at = "out"
      BY DEF UsersGoneBeforeClean
    <3>1. phase \in {"clean", "free", "gone"}
      BY DEF KernelInv, ClosedLast
    <3> QED
      BY <3>1 DEF KernelInv, FramesGone, FilesGone, Unregistered
  <2>2. NoSpinOverHolder
    BY DEF KernelInv, OwnCpu, Waits, NoSpinOverHolder
  <2> QED
    BY <2>1, <2>2 DEF KernelInv
<1> QED
  BY <1>1, KernelInvHolds, PTL

\* When the list is emptied every frame and every reader is gone, on any number
\* of CPUs: cdp_module_exit unregisters what uses the list before it frees it.
THEOREM UsersGone == ModuleSpec => []UsersGoneBeforeClean
BY KernelCorrect, PTL

\* No softirq ever runs on a CPU whose process holds the lock or waits for it,
\* so no CPU spins for ever (cdp_seq_start and cdp_timer_event_handler).
THEOREM NobodySpins == ModuleSpec => []NoSpinOverHolder
BY KernelCorrect, PTL

\* The timer goes on until it is disarmed: every run of cdp_timer_event_handler
\* arms it again, until cdp_module_exit.
THEOREM TimerGoesOn == ModuleSpec => []TimerAlive
BY KernelCorrect, PTL

-----------------------------------------------------------------------------
(* The lock.                                                               *)

\* Whoever is past taking the write lock holds it, alone, and does to the list
\* what it took it for; who reads holds the read lock, and then nobody writes.
LockExcludes ==
  /\ \A c \in Cpus : work[c] \in {"rx locked", "timer locked"} <=> writer = c
  /\ readers = {p \in Procs : HoldsLock(p)}
  /\ writer # NULL => readers = {}
  /\ op = "lookup" <=> \E c \in Cpus : work[c] = "rx locked"
  /\ op = "purge" <=> \E c \in Cpus : work[c] = "timer locked"
  /\ op \in {"idle", "lookup", "purge"}

LockedPhases == {"rx locked", "timer locked"}

LockInv == KernelTypes /\ LockExcludes

\* Without the lock before and after.
LEMMA UnlockedKeeps ==
  ASSUME LockInv, NEW c \in Cpus, NEW w \in Handlers,
         work' = [work EXCEPT ![c] = w],
         work[c] \notin LockedPhases, w \notin LockedPhases,
         UNCHANGED <<writer, readers, reading, op>>
  PROVE  LockExcludes'
<1>1. \A d \in Cpus : work'[d] = IF d = c THEN w ELSE work[d]
  BY DEF LockInv, KernelTypes
<1> QED
  BY <1>1 DEF LockInv, LockExcludes, HoldsLock, LockedPhases

\* The lock is free, so nobody is past taking it; c takes it for o.
LEMMA LockTaken ==
  ASSUME LockInv, NEW c \in Cpus, LockWrite(c), UNCHANGED <<readers, reading>>,
         NEW w \in {"rx locked", "timer locked"}, work' = [work EXCEPT ![c] = w],
         op' = IF w = "rx locked" THEN "lookup" ELSE "purge"
  PROVE  LockExcludes'
<1>1. \A d \in Cpus : work'[d] = IF d = c THEN w ELSE work[d]
  BY DEF LockInv, KernelTypes
<1>2. writer' = c /\ readers' = {} /\ c # NULL /\ readers = {}
  BY CpusAssumption DEF LockWrite, WriteFree
<1>3. \A d \in Cpus : work[d] \notin {"rx locked", "timer locked"}
  BY CpusAssumption DEF LockInv, LockExcludes, LockWrite, WriteFree
<1> QED
  BY <1>1, <1>2, <1>3 DEF LockInv, LockExcludes, HoldsLock

\* The holder lets the lock go.
LEMMA LockDropped ==
  ASSUME LockInv, NEW c \in Cpus, UnlockWrite(c), UNCHANGED <<readers, reading>>,
         NEW w \in Handlers, work' = [work EXCEPT ![c] = w],
         w \notin LockedPhases, op' = "idle"
  PROVE  LockExcludes'
<1>1. \A d \in Cpus : work'[d] = IF d = c THEN w ELSE work[d]
  BY DEF LockInv, KernelTypes
<1>2. \A d \in Cpus : d # c => work[d] \notin {"rx locked", "timer locked"}
  BY DEF LockInv, LockExcludes, UnlockWrite
<1>3. writer' = NULL /\ \A d \in Cpus : d # NULL
  BY CpusAssumption DEF UnlockWrite
<1> QED
  BY <1>1, <1>2, <1>3 DEF LockInv, LockExcludes, HoldsLock, LockedPhases

LEMMA HandlersLock ==
  ASSUME LockInv, NEW c \in Cpus,
         FrameArrives(c) \/ ReceiveWork(c) \/ TimerExpires(c) \/ TimerWork(c)
  PROVE  LockExcludes'
<1>0. {"none", "rx wait", "rx locked", "timer wait", "timer locked",
       "timer transmit", "timer rearm"} = Handlers
  BY DEF Handlers, RxPhases, TimerPhases
<1>1. CASE FrameArrives(c)
  <2>1. op' = op
    BY <1>1 DEF FrameArrives, vars, opVars
  <2> QED
    BY <1>0, <1>1, <2>1, UnlockedKeeps DEF FrameArrives, SoftirqStarts, LockedPhases
<1>2. CASE ReceiveLock(c)
  <2>1. op' = "lookup"
    BY <1>2 DEF ReceiveLock, StartLookup
  <2> QED
    BY <1>2, <2>1, LockTaken DEF ReceiveLock
<1>3. CASE ReceiveSearch(c) \/ TimerPurge(c)
  <2>1. op' = op
    BY <1>3 DEF ReceiveSearch, TimerPurge, LookupNext, PurgeKeep, PurgeExpired
  <2> QED
    BY <1>3, <2>1
       DEF ReceiveSearch, TimerPurge, kernelVars, LockInv, LockExcludes, HoldsLock
<1>4. CASE ReceiveFinish(c)
  <2>1. op' = "idle"
    BY <1>4
       DEF ReceiveFinish, LookupHit, CreateNoMemory, CreatePartial, Create, EndReceive
  <2> QED
    BY <1>0, <1>4, <2>1, LockDropped DEF ReceiveFinish, LockedPhases
<1>5. CASE TimerExpires(c)
  <2>1. op' = op
    BY <1>5 DEF TimerExpires, ReadClock, opVars
  <2> QED
    BY <1>0, <1>5, <2>1, UnlockedKeeps DEF TimerExpires, SoftirqStarts, LockedPhases
<1>6. CASE TimerLock(c)
  <2>1. op' = "purge"
    BY <1>6 DEF TimerLock, StartPurge
  <2> QED
    BY <1>6, <2>1, LockTaken DEF TimerLock
<1>7. CASE TimerUnlock(c)
  <2>1. op' = "idle"
    BY <1>7 DEF TimerUnlock, EndPurge
  <2>2. PICK w \in {"timer transmit", "timer rearm"} : work' = [work EXCEPT ![c] = w]
    BY <1>7 DEF TimerUnlock
  <2> QED
    BY <1>0, <1>7, <2>1, <2>2, LockDropped DEF TimerUnlock, LockedPhases
<1>8. CASE TimerTransmit(c)
  <2>1. op' = op
    BY <1>8 DEF TimerTransmit, vars, opVars
  <2> QED
    BY <1>0, <1>8, <2>1, UnlockedKeeps DEF TimerTransmit, LockedPhases
<1>9. CASE TimerRearm(c)
  <2>1. op' = op
    BY <1>9 DEF TimerRearm, vars, opVars
  <2> QED
    BY <1>0, <1>9, <2>1, UnlockedKeeps DEF TimerRearm, LockedPhases
<1> QED
  BY <1>1, <1>2, <1>3, <1>4, <1>5, <1>6, <1>7, <1>8, <1>9 DEF ReceiveWork, TimerWork

LEMMA ReadersLock ==
  ASSUME LockInv, NEW p \in Procs,
         \/ \E f \in Files, c \in Cpus : ReadBegin(p, f, c)
         \/ SeqStart(p) \/ SeqLocked(p) \/ SeqLockedDies(p)
         \/ ShowNeverEnds(p) \/ SeqStop(p) \/ ReadEnd(p)
  PROVE  LockExcludes'
<1> USE DEF HoldsLock
<1>1. op' = op /\ work' = work /\ writer' = writer
  BY DEF ReadBegin, SeqStart, SeqLocked, SeqLockedDies, ShowNeverEnds, SeqStop,
         ReadEnd, vars, opVars
<1>2. \A q \in Procs : q # p => reading'[q] = reading[q]
  BY DEF LockInv, KernelTypes, ReadBegin, SeqStart, SeqLocked, SeqLockedDies,
         ShowNeverEnds, SeqStop, ReadEnd
<1>3. CASE (\E f \in Files, c \in Cpus : ReadBegin(p, f, c)) \/ SeqStart(p) \/ ReadEnd(p)
  <2>1. readers' = readers /\ ~HoldsLock(p) /\ ~HoldsLock(p)'
    BY <1>3 DEF LockInv, KernelTypes, ReadBegin, SeqStart, ReadEnd, NotReading
  <2> QED
    BY <1>1, <1>2, <2>1 DEF LockInv, LockExcludes
<1>4. CASE SeqLocked(p) \/ SeqLockedDies(p)
  <2>1. readers' = readers \union {p} /\ HoldsLock(p)' /\ writer = NULL
    BY <1>4 DEF LockInv, KernelTypes, SeqLocked, SeqLockedDies, ReadFree
  <2> QED
    BY <1>1, <1>2, <2>1 DEF LockInv, LockExcludes
<1>5. CASE SeqStop(p)
  <2>1. readers' = readers \ {p} /\ reading'[p].at = "in"
    BY <1>5 DEF LockInv, KernelTypes, SeqStop
  <2> QED
    BY <1>1, <1>2, <2>1 DEF LockInv, LockExcludes
<1>6. CASE ShowNeverEnds(p)
  <2>1. readers' = readers /\ HoldsLock(p) /\ HoldsLock(p)'
    BY <1>6 DEF LockInv, KernelTypes, ShowNeverEnds
  <2> QED
    BY <1>1, <1>2, <2>1 DEF LockInv, LockExcludes
<1> QED
  BY <1>3, <1>4, <1>5, <1>6

LEMMA LockStep == LockInv /\ [ModuleNext]_allVars => LockExcludes'
<1> SUFFICES ASSUME LockInv, [ModuleNext]_allVars
             PROVE  LockExcludes'
  OBVIOUS
<1>1. CASE \E c \in Cpus : \/ FrameArrives(c) \/ ReceiveWork(c)
                           \/ TimerExpires(c) \/ TimerWork(c)
  BY <1>1, HandlersLock
<1>2. CASE \E p \in Procs : \/ \E f \in Files, c \in Cpus : ReadBegin(p, f, c)
                            \/ SeqStart(p) \/ ReadWork(p) \/ ShowNeverEnds(p)
                            \/ ReadEnd(p)
  BY <1>2, ReadersLock DEF ReadWork
<1>3. CASE \/ Loading \/ Unload \/ Unloading \/ DeviceChange \/ ClockTick
           \/ UNCHANGED allVars
  <2>1. UNCHANGED <<op, work, writer, readers, reading>>
    BY <1>3
       DEF Loading, CreateFile, CreateFileFails, ArmTimer, RegisterSnap,
           RegisterSnapFails, JoinMulticast, Unload, Unloading, DelTimer,
           LeaveMulticast, UnregisterSnap, SnapDrained, RemoveFile, StartClean,
           CloseList, CleanList, CleanStep, FreeList, DeleteList, FreeStrings,
           DeviceChange, ClockTick, Tick, allVars, vars, opVars, kernelVars,
           handlerVars
  <2> QED
    BY <2>1 DEF LockInv, LockExcludes, HoldsLock
<1> QED
  BY <1>1, <1>2, <1>3 DEF ModuleNext

\* The lock does what it is for: on any number of CPUs, one softirq at most is
\* past taking it for writing, then no process reads, and what is done to the
\* list is what its holder took it for (cdp_receive, cdp_timer_event_handler,
\* cdp_seq_start).
THEOREM LockHeldByOne == ModuleSpec => []LockExcludes
<1>1. ModuleInit => LockExcludes
  BY CpusAssumption DEF ModuleInit, Init, LockExcludes, NotReading, HoldsLock
<1>2. KernelInv /\ LockExcludes /\ [ModuleNext]_allVars => LockExcludes'
  BY LockStep DEF LockInv, KernelInv
<1> QED
  BY <1>1, <1>2, KernelInvHolds, PTL DEF ModuleSpec

\* What is left of the users of the list when it is emptied without the lock: the
\* timer's handler and nobody else (cdp_module.c:227).
THEOREM OnlyTheTimerMeetsUnloading ==
  ModuleSpec =>
    [](life # "live" =>
         /\ readers = {} /\ op # "lookup"
         /\ op # "idle" => writer # NULL /\ work[writer] = "timer locked")
<1>1. KernelInv /\ LockExcludes /\ UsersGoneBeforeClean =>
        (life # "live" =>
           /\ readers = {} /\ op # "lookup"
           /\ op # "idle" => writer # NULL /\ work[writer] = "timer locked")
  <2> SUFFICES ASSUME KernelInv, LockExcludes, UsersGoneBeforeClean, life # "live"
               PROVE  /\ readers = {} /\ op # "lookup"
                      /\ op # "idle" => writer # NULL /\ work[writer] = "timer locked"
    OBVIOUS
  <2>1. op # "lookup"
    BY DEF LockExcludes, UsersGoneBeforeClean, RxPhases
  <2>2. readers = {}
    <3>1. \A p \in Procs : ~HoldsLock(p)
      BY DEF UsersGoneBeforeClean, HoldsLock
    <3> QED
      BY <3>1 DEF LockExcludes
  <2>3. op # "idle" => writer # NULL /\ work[writer] = "timer locked"
    BY <2>1, CpusAssumption DEF LockExcludes
  <2> QED
    BY <2>1, <2>2, <2>3
<1> QED
  BY <1>1, KernelInvHolds, LockHeldByOne, UsersGone, PTL

-----------------------------------------------------------------------------
(* The timer's readings of the clock, and types.                           *)

TimerRuns == \E c \in Cpus : work[c] \in TimerPhases

\* One handler runs at a time; its reading of the clock is there as long as it
\* runs, and the purge compares the entries with that one.
TimerInv ==
  /\ \A c, d \in Cpus :
       work[c] \in TimerPhases /\ work[d] \in TimerPhases => c = d
  /\ IF TimerRuns THEN now \in 0..MaxTime ELSE now = NULL
  /\ stamp = IF \E c \in Cpus : work[c] \in {"timer wait", "timer locked"}
             THEN now ELSE NULL

\* Neither before nor after is c in the timer's handler.
LEMMA NoTimerWork ==
  ASSUME KernelTypes, TimerInv, NEW c \in Cpus, NEW w \in Handlers,
         work' = [work EXCEPT ![c] = w],
         work[c] \notin TimerPhases, w \notin TimerPhases,
         UNCHANGED <<now, stamp>>
  PROVE  TimerInv'
<1>1. \A d \in Cpus : work'[d] = IF d = c THEN w ELSE work[d]
  BY DEF KernelTypes
<1>2. TimerRuns' <=> TimerRuns
  BY <1>1 DEF TimerRuns
<1>3. \A d \in Cpus : work[d] \in {"timer wait", "timer locked"} => work[d] \in TimerPhases
  BY DEF TimerPhases
<1>4. w \notin {"timer wait", "timer locked"}
  BY DEF TimerPhases
<1>5. (\E d \in Cpus : work'[d] \in {"timer wait", "timer locked"})
        <=> \E d \in Cpus : work[d] \in {"timer wait", "timer locked"}
  BY <1>1, <1>3, <1>4
<1> QED
  BY <1>1, <1>2, <1>5 DEF TimerInv

\* The handler on c goes on, or ends.
LEMMA TimerGoesTo ==
  ASSUME KernelTypes, TimerInv, NEW c \in Cpus, NEW w \in Handlers,
         work' = [work EXCEPT ![c] = w], work[c] \in TimerPhases,
         IF w \in TimerPhases THEN now' = now ELSE now' = NULL,
         IF w \in {"timer wait", "timer locked"} THEN stamp' = now ELSE stamp' = NULL
  PROVE  TimerInv'
<1>1. \A d \in Cpus : work'[d] = IF d = c THEN w ELSE work[d]
  BY DEF KernelTypes
<1>2. \A d \in Cpus : d # c => work'[d] \notin TimerPhases
  BY <1>1 DEF TimerInv
<1>3. {"timer wait", "timer locked"} \subseteq TimerPhases
  BY DEF TimerPhases
<1>4. now \in 0..MaxTime
  BY DEF TimerInv, TimerRuns
<1>5. (TimerRuns' <=> w \in TimerPhases)
  BY <1>1, <1>2 DEF TimerRuns
<1>6. (\E d \in Cpus : work'[d] \in {"timer wait", "timer locked"})
        <=> w \in {"timer wait", "timer locked"}
  BY <1>1, <1>2, <1>3
<1>7. \A d, e \in Cpus : work'[d] \in TimerPhases /\ work'[e] \in TimerPhases => d = e
  BY <1>2
<1>8. now' = now \/ now' = NULL
  OBVIOUS
<1>9. IF TimerRuns' THEN now' \in 0..MaxTime ELSE now' = NULL
  BY <1>4, <1>5
<1>10. stamp' = IF \E d \in Cpus : work'[d] \in {"timer wait", "timer locked"}
                THEN now' ELSE NULL
  BY <1>3, <1>6
<1> QED
  BY <1>7, <1>9, <1>10 DEF TimerInv

LEMMA TimerStep ==
  ASSUME KernelTypes, TypeOK, TimerInv, [ModuleNext]_allVars
  PROVE  TimerInv'
<1>0. {"none", "rx wait", "rx locked", "timer wait", "timer locked",
       "timer transmit", "timer rearm"} = Handlers
  BY DEF Handlers, RxPhases, TimerPhases
<1>1. ASSUME NEW c \in Cpus, FrameArrives(c) \/ ReceiveWork(c)
      PROVE  TimerInv'
  <2>1. UNCHANGED <<now, stamp>>
    BY <1>1
       DEF FrameArrives, ReceiveWork, ReceiveLock, StartLookup, ReceiveSearch,
           LookupNext, ReceiveFinish, LookupHit, CreateNoMemory, CreatePartial,
           Create, vars, kernelVars
  <2>2. CASE ReceiveSearch(c)
    BY <2>1, <2>2 DEF ReceiveSearch, kernelVars, TimerInv, TimerRuns
  <2>3. CASE FrameArrives(c)
    BY <1>0, <2>1, <2>3, NoTimerWork DEF FrameArrives, SoftirqStarts, TimerPhases
  <2>4. CASE ReceiveLock(c)
    BY <1>0, <2>1, <2>4, NoTimerWork DEF ReceiveLock, TimerPhases
  <2>5. CASE ReceiveFinish(c)
    BY <1>0, <2>1, <2>5, NoTimerWork DEF ReceiveFinish, TimerPhases
  <2> QED
    BY <1>1, <2>2, <2>3, <2>4, <2>5 DEF ReceiveWork
<1>2. ASSUME NEW c \in Cpus, TimerExpires(c)
      PROVE  TimerInv'
  <2>1. /\ \A d \in Cpus : work[d] \notin TimerPhases
        /\ stamp' = clock /\ now' = clock /\ work' = [work EXCEPT ![c] = "timer wait"]
    BY <1>2 DEF TimerExpires, ReadClock
  <2>2. \A d \in Cpus : work'[d] = IF d = c THEN "timer wait" ELSE work[d]
    BY <2>1 DEF KernelTypes
  <2>3. clock \in 0..MaxTime
    BY DEF TypeOK
  <2> QED
    BY <2>1, <2>2, <2>3 DEF TimerInv, TimerRuns, TimerPhases
<1>3. ASSUME NEW c \in Cpus, TimerWork(c)
      PROVE  TimerInv'
  <2>1. \A d \in Cpus : work[d] \in {"timer wait", "timer locked"} => stamp = now
    BY DEF TimerInv
  <2>2. \A d \in Cpus : work[d] \in {"timer transmit", "timer rearm"} => stamp = NULL
    BY DEF TimerInv, TimerPhases
  <2>3. CASE TimerLock(c)
    <3>1. stamp' = stamp
      BY <2>3 DEF TimerLock, StartPurge
    <3> QED
      BY <1>0, <2>1, <2>3, <3>1, TimerGoesTo DEF TimerLock, TimerPhases
  <2>4. CASE TimerPurge(c)
    <3>1. stamp' = stamp
      BY <2>4 DEF TimerPurge, PurgeKeep, PurgeExpired
    <3> QED
      BY <2>4, <3>1 DEF TimerPurge, kernelVars, TimerInv, TimerRuns
  <2>5. CASE TimerUnlock(c)
    <3>1. stamp' = NULL
      BY <2>5 DEF TimerUnlock, EndPurge
    <3>2. PICK w \in {"timer transmit", "timer rearm"} : work' = [work EXCEPT ![c] = w]
      BY <2>5 DEF TimerUnlock
    <3> QED
      BY <1>0, <2>5, <3>1, <3>2, TimerGoesTo DEF TimerUnlock, TimerPhases
  <2>6. CASE TimerTransmit(c)
    <3>1. stamp' = stamp
      BY <2>6 DEF TimerTransmit, vars
    <3> QED
      BY <1>0, <2>2, <2>6, <3>1, TimerGoesTo DEF TimerTransmit, TimerPhases
  <2>7. CASE TimerRearm(c)
    <3>1. stamp' = stamp
      BY <2>7 DEF TimerRearm, vars
    <3> QED
      BY <1>0, <2>2, <2>7, <3>1, TimerGoesTo DEF TimerRearm, TimerPhases
  <2> QED
    BY <1>3, <2>3, <2>4, <2>5, <2>6, <2>7 DEF TimerWork
<1>4. CASE (\E p \in Procs : \/ \E f \in Files, c \in Cpus : ReadBegin(p, f, c)
                             \/ SeqStart(p) \/ ReadWork(p) \/ ShowNeverEnds(p)
             \/ ReadEnd(p))
           \/ Loading \/ Unload \/ Unloading \/ DeviceChange \/ ClockTick
           \/ UNCHANGED allVars
  <2>1. UNCHANGED <<work, now, stamp>>
    BY <1>4
       DEF ReadBegin, SeqStart, ReadWork, SeqLocked, SeqLockedDies,
           ShowNeverEnds, SeqStop, ReadEnd, DeviceChange, Loading, CreateFile, CreateFileFails, ArmTimer, RegisterSnap, RegisterSnapFails,
           JoinMulticast, Unload, Unloading, DelTimer, LeaveMulticast,
           UnregisterSnap, SnapDrained, RemoveFile, StartClean, CloseList,
           CleanList, CleanStep, FreeList, DeleteList, FreeStrings, ClockTick,
           Tick, allVars, vars, kernelVars, handlerVars
  <2> QED
    BY <2>1 DEF TimerInv, TimerRuns
<1> QED
  BY <1>1, <1>2, <1>3, <1>4 DEF ModuleNext

\* What the module does to the list, the lock and the order of unloading left out
\* of account.
LEMMA AnyListStep ==
  ASSUME [ModuleNext]_allVars
  PROVE  \/ [Next]_vars \/ ReadClock \/ StartPurge \/ CloseList
         \/ \E id \in Identities, f \in Frames : StartLookup(id, f)
BY DEF ModuleNext, FrameArrives, ReceiveWork, ReceiveLock, ReceiveSearch,
       ReceiveFinish, TimerExpires, TimerWork, TimerLock, TimerPurge, TimerUnlock,
       TimerTransmit, TimerRearm, ReadBegin, SeqStart, ReadWork, SeqLocked,
       SeqLockedDies, ShowNeverEnds, SeqStop, ReadEnd, DeviceChange, Loading, CreateFile, CreateFileFails, ArmTimer,
       RegisterSnap, RegisterSnapFails, JoinMulticast, Unload, Unloading, DelTimer,
       LeaveMulticast, UnregisterSnap, SnapDrained, RemoveFile, StartClean,
       CleanList, FreeList, FreeStrings, ClockTick, Next, Receive, Purge, Clean,
       allVars

LEMMA ListTypes ==
  ASSUME TypeOK, [ModuleNext]_allVars
  PROVE  TypeOK'
<1>1. CASE [Next]_vars
  BY <1>1, TypeStep
<1>2. CASE ReadClock
  BY <1>2 DEF ReadClock, TypeOK, heapVars, listVars, opVars
<1>3. CASE StartPurge
  BY <1>3 DEF StartPurge, TypeOK, heapVars, listVars
<1>4. CASE CloseList
  BY <1>4 DEF CloseList, TypeOK, heapVars, opVars
<1>5. ASSUME NEW id \in Identities, NEW f \in Frames, StartLookup(id, f)
      PROVE  TypeOK'
  BY <1>5 DEF StartLookup, TypeOK, Request, heapVars, listVars
<1> QED
  BY <1>1, <1>2, <1>3, <1>4, <1>5, AnyListStep

\* The variables of the kernel that the other invariants say nothing of; a process
\* that reads has a CPU.
OtherTypes ==
  /\ phase \in {"proc", "timer", "snap", "multicast", "loaded", "del timer",
                "leave multicast", "unsnap", "drain", "unproc", "clean",
                "free", "gone"}
  /\ snap \in {"none", "registered"}
  /\ multicast \in BOOLEAN /\ pending \in BOOLEAN
  /\ writer \in Cpus \union {NULL}
  /\ irqOff \subseteq Cpus
  /\ lastTransmit \in Int
  /\ strings \in {"there", "freed"}
  /\ devLeaked \in BOOLEAN /\ devChange \in {"none", "waits", "holds"}
  /\ \A p \in Procs : reading[p].at # "out" => reading[p].cpu \in Cpus

LEMMA OtherTypesStep ==
  ASSUME KernelTypes, TimerInv, OtherTypes, [ModuleNext]_allVars
  PROVE  OtherTypes'
<1>1. ASSUME NEW c \in Cpus,
             FrameArrives(c) \/ ReceiveWork(c) \/ TimerExpires(c) \/ TimerWork(c)
      PROVE  OtherTypes'
  <2>1. /\ UNCHANGED <<phase, snap, multicast, irqOff, strings, reading, devChange>>
        /\ devLeaked' \in {devLeaked, TRUE}
    BY <1>1
       DEF FrameArrives, ReceiveWork, ReceiveLock, ReceiveSearch, ReceiveFinish,
           TimerExpires, TimerWork, TimerLock, TimerPurge, TimerUnlock,
           TimerTransmit, TimerRearm, kernelVars, deviceVars
  <2>2. pending' \in BOOLEAN /\ writer' \in Cpus \union {NULL}
    BY <1>1
       DEF OtherTypes, FrameArrives, ReceiveWork, ReceiveLock, ReceiveSearch,
           ReceiveFinish, TimerExpires, TimerWork, TimerLock, TimerPurge,
           TimerUnlock, TimerTransmit, TimerRearm, LockWrite, UnlockWrite, kernelVars
  <2>3. lastTransmit' \in Int
    <3>1. CASE TimerTransmit(c)
      <4>1. now \in 0..MaxTime
        BY <3>1 DEF TimerTransmit, TimerInv, TimerRuns, TimerPhases
      <4>2. 0..MaxTime \subseteq Int
        OBVIOUS
      <4>3. lastTransmit' = now
        BY <3>1 DEF TimerTransmit
      <4> QED
        BY <4>1, <4>2, <4>3
    <3>2. CASE ~TimerTransmit(c)
      <4>1. lastTransmit' = lastTransmit
        BY <1>1, <3>2
           DEF FrameArrives, ReceiveWork, ReceiveLock, ReceiveSearch, ReceiveFinish,
               TimerExpires, TimerWork, TimerLock, TimerPurge, TimerUnlock,
               TimerRearm, kernelVars
      <4> QED
        BY <4>1 DEF OtherTypes
    <3> QED
      BY <3>1, <3>2
  <2> QED
    BY <2>1, <2>2, <2>3 DEF OtherTypes
<1>2. ASSUME NEW p \in Procs,
             \/ \E f \in Files, c \in Cpus : ReadBegin(p, f, c)
             \/ SeqStart(p) \/ ReadWork(p) \/ ShowNeverEnds(p)
             \/ ReadEnd(p)
      PROVE  OtherTypes'
  <2>1. UNCHANGED <<phase, snap, multicast, pending, writer, lastTransmit, strings,
                    deviceVars>>
    BY <1>2
       DEF ReadBegin, SeqStart, ReadWork, SeqLocked, SeqLockedDies, ShowNeverEnds,
           SeqStop, ReadEnd, deviceVars
  <2>2. \A q \in Procs : reading'[q].at # "out" => reading'[q].cpu \in Cpus
    <3> SUFFICES ASSUME NEW q \in Procs, reading'[q].at # "out"
                 PROVE  reading'[q].cpu \in Cpus
      OBVIOUS
    <3>1. CASE q # p
      <4>1. reading'[q] = reading[q]
        BY <1>2, <3>1
           DEF KernelTypes, ReadBegin, SeqStart, ReadWork, SeqLocked,
               SeqLockedDies, ShowNeverEnds, SeqStop, ReadEnd
      <4> QED
        BY <4>1 DEF OtherTypes
    <3>2. CASE q = p
      <4>1. CASE \E f \in Files, c \in Cpus : ReadBegin(p, f, c)
        BY <3>2, <4>1 DEF KernelTypes, ReadBegin
      <4>2. CASE SeqStart(p) \/ ReadWork(p) \/ ShowNeverEnds(p)
        <5>1. reading'[p].cpu = reading[p].cpu /\ reading[p].at # "out"
          BY <4>2
             DEF KernelTypes, SeqStart, ReadWork, SeqLocked, SeqLockedDies,
                 ShowNeverEnds, SeqStop
        <5> QED
          BY <3>2, <5>1 DEF OtherTypes
      <4>3. CASE ReadEnd(p)
        BY <3>2, <4>3 DEF KernelTypes, ReadEnd, NotReading
      <4> QED
        BY <1>2, <4>1, <4>2, <4>3
    <3> QED
      BY <3>1, <3>2
  <2>3. irqOff' \subseteq Cpus
    <3>1. CASE SeqStart(p)
      BY <3>1 DEF OtherTypes, SeqStart
    <3>2. CASE ~SeqStart(p)
      <4>1. irqOff' \subseteq irqOff
        BY <1>2, <3>2
           DEF ReadBegin, ReadWork, SeqLocked, SeqLockedDies, ShowNeverEnds, SeqStop,
               ReadEnd
      <4> QED
        BY <4>1 DEF OtherTypes
    <3> QED
      BY <3>1, <3>2
  <2> QED
    BY <2>1, <2>2, <2>3 DEF OtherTypes, deviceVars
<1>3. CASE Loading \/ Unload \/ Unloading
  <2>1. UNCHANGED <<writer, irqOff, lastTransmit, reading, deviceVars>>
    BY <1>3
       DEF Loading, CreateFile, CreateFileFails, ArmTimer, RegisterSnap,
           RegisterSnapFails, JoinMulticast, Unload, Unloading, DelTimer,
           LeaveMulticast, UnregisterSnap, SnapDrained, RemoveFile, StartClean,
           CleanList, FreeList, FreeStrings, kernelVars, handlerVars
  <2>2. /\ phase' \in {"proc", "timer", "snap", "multicast", "loaded", "del timer",
                        "leave multicast", "unsnap", "drain", "unproc", "clean",
                        "free", "gone"}
        /\ snap' \in {"none", "registered"} /\ strings' \in {"there", "freed"}
        /\ multicast' \in BOOLEAN /\ pending' \in BOOLEAN
    BY <1>3
       DEF OtherTypes, Loading, CreateFile, CreateFileFails, ArmTimer, RegisterSnap,
           RegisterSnapFails, JoinMulticast, Unload, Unloading, DelTimer,
           LeaveMulticast, UnregisterSnap, SnapDrained, RemoveFile, StartClean,
           CleanList, FreeList, FreeStrings, kernelVars
  <2> QED
    BY <2>1, <2>2 DEF OtherTypes, deviceVars
<1>4. CASE DeviceChange \/ ClockTick \/ UNCHANGED allVars
  BY <1>4
     DEF OtherTypes, DeviceChange, DeviceChangeBegins, DeviceChangeLocks,
         DeviceChangeEnds, ClockTick, allVars, kernelVars, deviceVars
<1> QED
  BY <1>1, <1>2, <1>3, <1>4 DEF ModuleNext

\* Every variable of the module keeps its type, whatever the CPUs do, also when
\* the list is used while it is emptied: no handler finds the clock unread
\* (cdp_timer_event_handler) and no process waits without a CPU.
THEOREM ModuleTypeCorrect == ModuleSpec => []ModuleTypeOK
<1>1. ModuleInit => TypeOK /\ TimerInv /\ OtherTypes
  <2> SUFFICES ASSUME ModuleInit PROVE TypeOK /\ TimerInv /\ OtherTypes
    OBVIOUS
  <2>1. TypeOK
    BY ListInit DEF ModuleInit, ListInv
  <2>2. TimerInv
    BY DEF ModuleInit, Init, TimerInv, TimerRuns, TimerPhases
  <2>3. lastTransmit = -TransmitInterval
    BY DEF ModuleInit
  <2>4. lastTransmit \in Int
    BY <2>3, IntervalAssumption
  <2>5. \A p \in Procs : reading[p].at = "out"
    BY DEF ModuleInit, NotReading
  <2>6. OtherTypes
    BY <2>4, <2>5 DEF ModuleInit, OtherTypes
  <2> QED
    BY <2>1, <2>2, <2>6
<1>2. KernelInv /\ TypeOK /\ TimerInv /\ OtherTypes /\ [ModuleNext]_allVars
        => TypeOK' /\ TimerInv' /\ OtherTypes'
  BY ListTypes, TimerStep, OtherTypesStep DEF KernelInv
<1>3. KernelInv /\ LockExcludes /\ TypeOK /\ TimerInv /\ OtherTypes => ModuleTypeOK
  BY DEF KernelInv, KernelTypes, Handlers, FilesGone, LockExcludes, TimerInv,
         OtherTypes, ModuleTypeOK
<1> QED
  BY <1>1, <1>2, <1>3, KernelInvHolds, LockHeldByOne, PTL DEF ModuleSpec

-----------------------------------------------------------------------------
(* What the list does while the module is loaded.                          *)

\* Whoever works on the list while it is open does a step of NeighborList.
LEMMA LockedStep ==
  ASSUME KernelInv, [ModuleNext]_allVars, life' = "live"
  PROVE  [Next]_vars
<1> SUFFICES ASSUME ModuleNext
             PROVE  Next \/ UNCHANGED vars
  BY DEF allVars
<1>1. ASSUME NEW c \in Cpus, FrameArrives(c) \/ ReceiveWork(c)
      PROVE  Next \/ UNCHANGED vars
  <2>1. CASE FrameArrives(c)
    BY <2>1 DEF FrameArrives
  <2>2. CASE ReceiveLock(c)
    <3>1. op = "idle"
      BY <2>2 DEF ReceiveLock, LockWrite, WriteFree, KernelInv, LockedOps
    <3>2. life = "live"
      BY <2>2, ListStepsKeepLife DEF ReceiveLock
    <3> QED
      BY <2>2, <3>1, <3>2 DEF ReceiveLock, BeginReceive, Receive, Next
  <2>3. CASE ReceiveSearch(c)
    BY <2>3 DEF ReceiveSearch, Receive, Next
  <2>4. CASE ReceiveFinish(c)
    BY <2>4 DEF ReceiveFinish, Receive, Next
  <2> QED
    BY <1>1, <2>1, <2>2, <2>3, <2>4 DEF ReceiveWork
<1>2. ASSUME NEW c \in Cpus, TimerExpires(c) \/ TimerWork(c)
      PROVE  Next \/ UNCHANGED vars
  <2>1. CASE TimerExpires(c)
    <3>1. life = "live"
      BY <2>1, ListStepsKeepLife DEF TimerExpires
    <3> QED
      BY <2>1, <3>1 DEF TimerExpires, TimerFires, Purge, Next
  <2>2. CASE TimerLock(c)
    <3>1. op = "idle"
      BY <2>2 DEF TimerLock, LockWrite, WriteFree, KernelInv, LockedOps
    <3>2. life = "live"
      BY <2>2, ListStepsKeepLife DEF TimerLock
    <3> QED
      BY <2>2, <3>1, <3>2 DEF TimerLock, BeginPurge, Purge, Next
  <2>3. CASE TimerPurge(c) \/ TimerUnlock(c)
    BY <2>3 DEF TimerPurge, TimerUnlock, Purge, Next
  <2>4. CASE TimerTransmit(c) \/ TimerRearm(c)
    BY <2>4 DEF TimerTransmit, TimerRearm
  <2> QED
    BY <1>2, <2>1, <2>2, <2>3, <2>4 DEF TimerWork
<1>3. ASSUME NEW p \in Procs,
             \/ \E f \in Files, c \in Cpus : ReadBegin(p, f, c)
             \/ SeqStart(p) \/ ReadWork(p) \/ ShowNeverEnds(p)
             \/ ReadEnd(p)
      PROVE  UNCHANGED vars
  BY <1>3
     DEF ReadBegin, SeqStart, ReadWork, SeqLocked, SeqLockedDies, ShowNeverEnds,
         SeqStop, ReadEnd
<1>4. CASE Loading \/ Unload
  BY <1>4
     DEF Loading, CreateFile, CreateFileFails, ArmTimer, RegisterSnap,
         RegisterSnapFails, JoinMulticast, Unload
<1>5. CASE Unloading
  BY <1>5
     DEF Unloading, DelTimer, LeaveMulticast, UnregisterSnap, SnapDrained,
         RemoveFile, StartClean, CloseList, CleanList, CleanStep, FreeList,
         DeleteList, FreeStrings
<1>6. CASE DeviceChange \/ ClockTick
  BY <1>6 DEF DeviceChange, ClockTick, Next
<1> QED
  BY <1>1, <1>2, <1>3, <1>4, <1>5, <1>6 DEF ModuleNext

\* The write lock gives the list one user at a time: whatever the CPUs do while
\* the module is loaded is a behaviour of the list as NeighborList has it
\* (the locking of cdp_receive, cdp_timer_event_handler and cdp_seq_start).
THEOREM LockSerialises == ModuleSpec => ListStepsWhileLoaded
<1>1. KernelInv /\ [ModuleNext]_allVars => [life' = "live" => [Next]_vars]_allVars
  BY LockedStep
<1> QED
  BY <1>1, KernelInvHolds, PTL DEF ModuleSpec, ListStepsWhileLoaded

\* A list that is closed is not opened again.
LEMMA StaysClosed ==
  ASSUME [Next]_vars, life' = "live"
  PROVE  life = "live"
BY ListStepsKeepLife
   DEF Next, Receive, Purge, Clean, BeginReceive, TimerFires, BeginPurge,
       BeginClean, CloseList, CleanStep, DeleteList, vars, listVars

\* The list is closed by unloading and by nothing else.
LEMMA LiveSteps ==
  ASSUME [ModuleNext]_allVars, life = "live", life' # "live"
  PROVE  CloseList
BY AnyListStep, ListStepsKeepLife
   DEF ReadClock, StartPurge, StartLookup, Next, Receive, Purge, Clean,
       BeginReceive, TimerFires, BeginPurge, BeginClean, CleanStep, DeleteList,
       Tick, vars, listVars

\* What is true of the list while the module is loaded.
ListSound == life = "live" => ListInv /\ OrderInv

LEMMA ListSoundHolds == ModuleSpec => []ListSound
<1>1. ModuleInit => ListSound
  BY ListInit, OrderInit DEF ModuleInit, ListSound
<1>2. KernelInv /\ ListSound /\ [ModuleNext]_allVars => ListSound'
  <2> SUFFICES ASSUME KernelInv, ListSound, [ModuleNext]_allVars, life' = "live"
               PROVE  ListInv' /\ OrderInv'
    BY DEF ListSound
  <2>1. [Next]_vars /\ life = "live"
    BY LockedStep, StaysClosed
  <2>2. ListInv /\ OrderInv
    BY <2>1 DEF ListSound
  <2> QED
    BY <2>1, <2>2, ListStep, OrderStep
<1> QED
  BY <1>1, <1>2, KernelInvHolds, PTL DEF ModuleSpec

\* Whatever the CPUs and the processes do while the module is loaded, the links,
\* the ends and the counter of the list agree, no entry is listed that was
\* deleted, and no two have the same identity (cdp_neighbor.c under the lock of
\* cdp_receive and cdp_timer_event_handler).
THEOREM ListSoundWhileLoaded ==
  ModuleSpec => [](life = "live" => ListInv /\ UniqueIdentity)
<1>1. ListSound => (life = "live" => ListInv /\ UniqueIdentity)
  BY DEF ListSound, OrderInv
<1> QED
  BY <1>1, ListSoundHolds, PTL

\* While the module is loaded, what all users of the list do is what a table of
\* neighbours does: an entry is recorded, expires, or nothing changes; an entry
\* goes in no step but one that found its time to be over (cdp_receive,
\* cdp_timer_event_handler).
TableWhileLoaded ==
  [][life' = "live" =>
       /\ [Table!Next]_(Table!vars)
       /\ \A n \in Listed : n \notin Listed' => IsExpired(n, clock)]_allVars

THEOREM ModuleIsTable == ModuleSpec => TableWhileLoaded
<1>1. KernelInv /\ ListSound /\ [ModuleNext]_allVars
        => [life' = "live" =>
              /\ [Table!Next]_(Table!vars)
              /\ \A n \in Listed : n \notin Listed' => IsExpired(n, clock)]_allVars
  <2> SUFFICES ASSUME KernelInv, ListSound, [ModuleNext]_allVars, life' = "live"
               PROVE  /\ [Table!Next]_(Table!vars)
                      /\ \A n \in Listed : n \notin Listed' => IsExpired(n, clock)
    OBVIOUS
  <2>1. [Next]_vars /\ life = "live"
    BY LockedStep, StaysClosed
  <2>2. ListInv /\ OrderInv
    BY <2>1 DEF ListSound
  <2>3. [Table!Next]_(Table!vars)
    BY <2>1, <2>2, TableStep
  <2>4. \A n \in Listed : n \notin Listed' => IsExpired(n, clock)
    BY <2>1, <2>2, LeaveStep
  <2> QED
    BY <2>3, <2>4
<1> QED
  BY <1>1, ListSoundHolds, KernelInvHolds, PTL DEF ModuleSpec, TableWhileLoaded

\* An entry goes because its time was over and for no other reason, as long as
\* the module is loaded (cdp_neighbor_cleanup under the lock of the timer's
\* handler).
THEOREM OnlyExpiredLeaveModule == ModuleSpec => OnlyExpiredLeave
<1>1. KernelInv /\ ListSound /\ [ModuleNext]_allVars
        => [life = "live" =>
              \A n \in Listed : n \notin Listed' => IsExpired(n, clock)]_vars
  <2> SUFFICES ASSUME KernelInv, ListSound, [ModuleNext]_allVars, life = "live",
                      NEW n \in Listed, n \notin Listed'
               PROVE  IsExpired(n, clock)
    OBVIOUS
  <2>1. CASE life' = "live"
    <3>1. [Next]_vars /\ ListInv
      BY <2>1, LockedStep DEF ListSound
    <3> QED
      BY <3>1, LeaveStep
  <2>2. CASE life' # "live"
    <3>1. CloseList
      BY <2>2, LiveSteps
    <3>2. Listed' = Listed
      BY <3>1 DEF CloseList, Listed, heapVars
    <3> QED
      BY <3>2
  <2> QED
    BY <2>1, <2>2
<1> QED
  BY <1>1, ListSoundHolds, KernelInvHolds, PTL DEF ModuleSpec, OnlyExpiredLeave

\* No entry is left with the hold time of an earlier frame, whichever CPU the
\* frames arrive on and whatever the timer's handler and unloading do between
\* them (cdp_receive).
THEOREM NeverInheritedModule == ModuleSpec => HoldIsOfFrame
<1> DEFINE LookupsLive == life # "live" => op # "lookup"
<1>1. ModuleSpec => []LookupsLive
  <2>1. (life # "live" =>
           /\ readers = {} /\ op # "lookup"
           /\ op # "idle" => writer # NULL /\ work[writer] = "timer locked")
          => LookupsLive
    OBVIOUS
  <2> QED
    BY <2>1, OnlyTheTimerMeetsUnloading, PTL
<1>2. KernelInv /\ ListSound /\ LookupsLive /\ [ModuleNext]_allVars
        => [\A n \in Neighbors :
              op = "lookup" /\ op' = "idle" /\ item = n =>
                LET f == req.frame
                IN  IF f.length = 0 THEN HoldTime(n)' = HoldTime(n)
                    ELSE HoldTime(n)' \in {0} \union (IF f.length < 2 THEN {}
                                                      ELSE {f.hold})]_vars
  <2> SUFFICES ASSUME KernelInv, ListSound, LookupsLive, [ModuleNext]_allVars,
                      NEW n \in Neighbors, op = "lookup", op' = "idle", item = n
               PROVE  LET f == req.frame
                      IN  IF f.length = 0 THEN HoldTime(n)' = HoldTime(n)
                          ELSE HoldTime(n)' \in {0} \union (IF f.length < 2 THEN {}
                                                            ELSE {f.hold})
    OBVIOUS
  <2>1. life = "live"
    OBVIOUS
  <2>2. life' = "live"
    <3>1. CASE CloseList
      BY <3>1 DEF CloseList, opVars
    <3>2. CASE ~CloseList
      BY <2>1, <3>2, LiveSteps
    <3> QED
      BY <3>1, <3>2
  <2>3. [Next]_vars /\ TypeOK
    BY <2>1, <2>2, LockedStep DEF ListSound, ListInv
  <2> QED
    BY <2>3, HoldStep
<1> QED
  BY <1>1, <1>2, ListSoundHolds, KernelInvHolds, PTL DEF ModuleSpec, HoldIsOfFrame

-----------------------------------------------------------------------------
(* A reader that is lost.                                                  *)

\* Who died with the lock or parses for ever is never anywhere else.
LEMMA LostStays ==
  ASSUME KernelTypes, [ModuleNext]_allVars, NEW p \in Procs,
         reading[p].at \in {"parsing", "dead"}
  PROVE  reading'[p] = reading[p]
BY DEF KernelTypes, ModuleNext, FrameArrives, ReceiveWork, ReceiveLock, ReceiveSearch,
       ReceiveFinish, TimerExpires, TimerWork, TimerLock, TimerPurge, TimerUnlock,
       TimerTransmit, TimerRearm, ReadBegin, SeqStart, ReadWork, SeqLocked,
       SeqLockedDies, ShowNeverEnds, SeqStop, ReadEnd, DeviceChange, Loading,
       CreateFile, CreateFileFails, ArmTimer, RegisterSnap, RegisterSnapFails,
       JoinMulticast, Unload, Unloading, DelTimer, LeaveMulticast, UnregisterSnap,
       SnapDrained, RemoveFile, StartClean, CleanList, FreeList, FreeStrings,
       ClockTick, allVars, kernelVars, handlerVars

\* Unloading closes the list when nobody reads any more.
LEMMA ClosedByStartClean ==
  ASSUME [ModuleNext]_allVars, life = "live", life' # "live"
  PROVE  files = 0 /\ RemovedFilesUnused
BY ListStepsKeepLife
   DEF ModuleNext, FrameArrives, ReceiveWork, ReceiveLock, ReceiveSearch,
       ReceiveFinish, TimerExpires, TimerWork, TimerLock, TimerPurge, TimerUnlock,
       TimerTransmit, TimerRearm, ReadBegin, SeqStart, ReadWork, SeqLocked,
       SeqLockedDies, ShowNeverEnds, SeqStop, ReadEnd, DeviceChange, Loading,
       CreateFile, CreateFileFails, ArmTimer, RegisterSnap, RegisterSnapFails,
       JoinMulticast, Unload, Unloading, DelTimer, LeaveMulticast, UnregisterSnap,
       SnapDrained, RemoveFile, StartClean, CleanList, CleanStep, FreeList,
       DeleteList, FreeStrings, ClockTick, allVars, vars, listVars

\* One reader of /proc/net/cdp that never gives the read lock back, because it died
\* where the lock had just been taken (cdp_proc.c:33) or parses a frame with a TLV
\* of no length (cdp_proc_json.c:423), is lost for good, and everybody with it: no
\* frame is recorded from then on, no entry expires, and the list is never closed,
\* so that the module is never unloaded.
LostForGood ==
  [][LockLost => LockLost' /\ life = "live" /\ UNCHANGED <<heapVars, listVars>>]_allVars

THEOREM LostReaderStopsAll == ModuleSpec => LostForGood
<1>1. KernelInv /\ LockExcludes /\ [ModuleNext]_allVars
        => [LockLost => /\ LockLost' /\ life = "live"
                        /\ UNCHANGED <<heapVars, listVars>>]_allVars
  <2> SUFFICES ASSUME KernelInv, LockExcludes, [ModuleNext]_allVars, LockLost
               PROVE  LockLost' /\ life = "live" /\ UNCHANGED <<heapVars, listVars>>
    OBVIOUS
  <2>1. PICK p \in Procs : reading[p].at \in {"parsing", "dead"}
    BY DEF LockLost
  <2>2. reading'[p] = reading[p]
    BY <2>1, LostStays DEF KernelInv
  <2>3. LockLost'
    BY <2>1, <2>2 DEF LockLost
  <2>4. p \in readers
    BY <2>1 DEF LockExcludes, HoldsLock
  <2>5. op = "idle"
    BY <2>4 DEF LockExcludes, KernelInv, LockedOps
  <2>6. reading[p].file > 0 /\ reading[p].file \in 0..3
    BY <2>1 DEF KernelInv, FilesGone, KernelTypes
  <2>7. life = "live"
    BY <2>6 DEF KernelInv, ClosedLast, FilesGone
  <2>8. life' = "live"
    BY <2>6, <2>7, ClosedByStartClean DEF RemovedFilesUnused
  <2>9. [Next]_vars
    BY <2>8, LockedStep
  <2>10. UNCHANGED <<heapVars, listVars>>
    BY <2>5, <2>7, <2>8, <2>9
       DEF Next, Receive, BeginReceive, StartLookup, LookupNext, LookupHit,
           CreateNoMemory, CreatePartial, Create, Purge, TimerFires, ReadClock,
           BeginPurge, StartPurge, PurgeKeep, PurgeExpired, EndPurge, Clean,
           BeginClean, CloseList, CleanStep, DeleteList, Tick, vars
  <2> QED
    BY <2>3, <2>7, <2>10
<1> QED
  BY <1>1, KernelInvHolds, LockHeldByOne, PTL DEF ModuleSpec, LostForGood
=============================================================================
