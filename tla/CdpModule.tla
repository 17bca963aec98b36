----------------------------- MODULE CdpModule -----------------------------
(***************************************************************************)
(* The kernel module around the neighbour list: module/cdp_module.c,       *)
(* module/cdp_receive.c and the locking of module/cdp_proc.c.  Frames and  *)
(* the timer are handled in softirqs, on any CPU, under the write lock;    *)
(* processes read the /proc files under the read lock, batch by batch, and *)
(* load and unload the module.  The list of network devices has a lock of  *)
(* its own, dev_base_lock, which the timer and the loader take to read it  *)
(* and the kernel to change it.                                            *)
(*                                                                         *)
(* A softirq suspends the process of its CPU and is not itself suspended;  *)
(* it does not start on a CPU whose interrupts are off.  The list is that  *)
(* of NeighborList; its operations are steps of whoever performs them.     *)
(***************************************************************************)
EXTENDS NeighborList

CONSTANTS
  Cpus,
  Procs,             \* processes that read /proc/net/cdp
  Endless,           \* the frames with a TLV that states a length of zero
  TransmitInterval   \* seconds between transmissions

ASSUME CpusAssumption == NULL \notin Cpus /\ Cpus # {}
ASSUME IntervalAssumption == TransmitInterval \in Nat

\* Such a frame has room for its own header and that of the TLV.
ASSUME EndlessAssumption == Endless \subseteq {f \in Frames : f.length >= 8}

VARIABLES
  phase,        \* how far the module is loaded or unloaded
  files,        \* /proc/net/cdp: the first so many of Files exist
  snap,         \* cdp_snap_datalink_protocol: "none", "registered"
  multicast,    \* whether the interfaces let the CDP address through
  pending,      \* whether cdp_timer is armed
  work,         \* the softirq on each CPU, "none" or how far it is
  writer,       \* the CPU that holds the write lock, or NULL
  readers,      \* the processes that hold the read lock
  reading,      \* per process: the /proc file it reads, CPU, progress
  irqOff,       \* the CPUs whose interrupts a process turned off
  now,          \* the timer handler's now
  lastTransmit, \* last_frame_transmitted
  strings,      \* the version and device id: "there" or "freed"
  devLeaked,    \* whether dev_base_lock was left held for reading
  devChange     \* who changes the list of devices: "none", "waits" for that
                \* lock or "holds" it

deviceVars == <<devLeaked, devChange>>
kernelVars == <<phase, files, snap, multicast, pending, work, writer, readers,
                reading, irqOff, now, lastTransmit, strings, deviceVars>>
allVars == <<vars, kernelVars>>

\* The files in the order cdp_proc_init creates them: summary, detail, json.
Files == 1..3
NotReading == [file |-> 0, cpu |-> NULL, at |-> "out"]

\* In "parsing" the parse of a frame goes on for ever; "dead" is a process that
\* died with the lock.
ReaderPhases == {"out", "in", "spin", "holding", "parsing", "dead"}

RxPhases == {"rx wait", "rx locked"}
TimerPhases == {"timer wait", "timer locked", "timer transmit", "timer rearm"}

ModuleTypeOK ==
  /\ TypeOK
  /\ phase \in {"proc", "timer", "snap", "multicast", "loaded", "del timer",
                "leave multicast", "unsnap", "drain", "unproc", "clean",
                "free", "gone"}
  /\ files \in 0..3
  /\ snap \in {"none", "registered"}
  /\ multicast \in BOOLEAN /\ pending \in BOOLEAN
  /\ work \in [Cpus -> {"none"} \union RxPhases \union TimerPhases]
  /\ writer \in Cpus \union {NULL}
  /\ readers \subseteq Procs
  /\ reading \in [Procs -> [file : 0..3, cpu : Cpus \union {NULL},
                            at : ReaderPhases]]
  /\ irqOff \subseteq Cpus
  /\ now \in 0..MaxTime \union {NULL}
  /\ lastTransmit \in Int
  /\ strings \in {"there", "freed"}
  /\ devLeaked \in BOOLEAN /\ devChange \in {"none", "waits", "holds"}

\* The strings and the list have been made; cdp_module_init goes on with the
\* /proc files.  The time of day is far beyond the interval, so that the first
\* timer transmits.
ModuleInit ==
  /\ Init
  /\ phase = "proc" /\ files = 0 /\ snap = "none" /\ multicast = FALSE
  /\ pending = FALSE
  /\ work = [c \in Cpus |-> "none"]
  /\ writer = NULL /\ readers = {}
  /\ reading = [p \in Procs |-> NotReading]
  /\ irqOff = {}
  /\ now = NULL /\ lastTransmit = -TransmitInterval /\ strings = "there"
  /\ devLeaked = FALSE /\ devChange = "none"

-----------------------------------------------------------------------------
(* The lock and the CPUs.                                                  *)

WriteFree == writer = NULL /\ readers = {}
ReadFree == writer = NULL

\* p holds the read lock.
HoldsLock(p) == reading[p].at \in {"holding", "parsing", "dead"}

\* A process runs on c: no softirq is there and no lock is held there.
ProcessRuns(c) == work[c] = "none" /\ c \notin irqOff

SoftirqStarts(c) ==
  /\ work[c] = "none" /\ c \notin irqOff
  /\ phase # "gone"

LockWrite(c) == WriteFree /\ writer' = c
UnlockWrite(c) == writer = c /\ writer' = NULL

-----------------------------------------------------------------------------
(* cdp_receive.                                                            *)

\* The SNAP layer hands a frame to the handler it has registered.
FrameArrives(c) ==
  /\ snap = "registered"
  /\ SoftirqStarts(c)
  /\ work' = [work EXCEPT ![c] = "rx wait"]
  /\ UNCHANGED <<vars, phase, files, snap, multicast, pending, writer, readers,
                 reading, irqOff, now, lastTransmit, strings, deviceVars>>

\* Frames that share the lock with each other, as with a read lock.
MutReceiveReadLock(c) ==
  /\ work[c] = "rx wait"
  /\ \A d \in Cpus : work[d] \in TimerPhases => writer # d
  /\ writer' = c
  /\ \E id \in Identities, f \in Frames : StartLookup(id, f)
  /\ work' = [work EXCEPT ![c] = "rx locked"]
  /\ UNCHANGED <<phase, files, snap, multicast, pending, readers, reading,
                 irqOff, now, lastTransmit, strings, deviceVars>>

ReceiveLock(c) ==
  /\ work[c] = "rx wait"
  /\ LockWrite(c)
  /\ \E id \in Identities, f \in Frames : StartLookup(id, f)
  /\ work' = [work EXCEPT ![c] = "rx locked"]
  /\ UNCHANGED <<phase, files, snap, multicast, pending, readers, reading,
                 irqOff, now, lastTransmit, strings, deviceVars>>

ReceiveSearch(c) ==
  /\ work[c] = "rx locked"
  /\ LookupNext
  /\ UNCHANGED kernelVars

\* The entry is found or made, the frame is recorded, and the lock is dropped.
ReceiveFinish(c) ==
  /\ work[c] = "rx locked"
  /\ \/ LookupHit
     \/ CreateNoMemory
     \/ \E n \in Neighbors : CreatePartial(n) \/ Create(n)
  /\ UnlockWrite(c)
  /\ work' = [work EXCEPT ![c] = "none"]
  /\ UNCHANGED <<phase, files, snap, multicast, pending, readers, reading,
                 irqOff, now, lastTransmit, strings, deviceVars>>

-----------------------------------------------------------------------------
(* cdp_timer_event_handler.                                                *)

\* A timer is disarmed before its handler runs; a handler never runs twice at
\* a time.
TimerExpires(c) ==
  /\ pending /\ SoftirqStarts(c)
  /\ \A d \in Cpus : work[d] \notin TimerPhases
  /\ ReadClock
  /\ now' = clock
  /\ pending' = FALSE
  /\ work' = [work EXCEPT ![c] = "timer wait"]
  /\ UNCHANGED <<phase, files, snap, multicast, writer, readers, reading, irqOff,
                 lastTransmit, strings, deviceVars>>

TimerLock(c) ==
  /\ work[c] = "timer wait"
  /\ LockWrite(c)
  /\ StartPurge
  /\ work' = [work EXCEPT ![c] = "timer locked"]
  /\ UNCHANGED <<phase, files, snap, multicast, pending, readers, reading,
                 irqOff, now, lastTransmit, strings, deviceVars>>

TimerPurge(c) ==
  /\ work[c] = "timer locked"
  /\ PurgeKeep \/ PurgeExpired
  /\ UNCHANGED kernelVars

TimerUnlock(c) ==
  /\ work[c] = "timer locked"
  /\ EndPurge
  /\ UnlockWrite(c)
  /\ work' = [work EXCEPT ![c] = IF now - lastTransmit >= TransmitInterval
                                 THEN "timer transmit" ELSE "timer rearm"]
  /\ UNCHANGED <<phase, files, snap, multicast, pending, readers, reading,
                 irqOff, now, lastTransmit, strings, deviceVars>>

\* cdp_transmit_packets waits for whoever changes the list of devices, but in a
\* softirq not for one that waits as well.  When it fails it leaves the lock held;
\* the outcome is not looked at.
TimerTransmit(c) ==
  /\ work[c] = "timer transmit"
  /\ devChange # "holds"
  /\ devLeaked' \in {devLeaked, TRUE}
  /\ lastTransmit' = now
  /\ work' = [work EXCEPT ![c] = "timer rearm"]
  /\ UNCHANGED <<vars, phase, files, snap, multicast, pending, writer, readers,
                 reading, irqOff, now, strings, devChange>>

MutTimerRearmOnlyLoaded(c) ==
  /\ work[c] = "timer rearm"
  /\ pending' = (lastTransmit # now)
  /\ now' = NULL
  /\ work' = [work EXCEPT ![c] = "none"]
  /\ UNCHANGED <<vars, phase, files, snap, multicast, writer, readers, reading,
                 irqOff, lastTransmit, strings, deviceVars>>

\* The timer is armed again, whether or not the module is being unloaded.
TimerRearm(c) ==
  /\ work[c] = "timer rearm"
  /\ pending' = TRUE
  /\ now' = NULL
  /\ work' = [work EXCEPT ![c] = "none"]
  /\ UNCHANGED <<vars, phase, files, snap, multicast, writer, readers, reading,
                 irqOff, lastTransmit, strings, deviceVars>>

-----------------------------------------------------------------------------
(* One read of a file of /proc/net/cdp: each batch of entries is read      *)
(* between cdp_seq_start and cdp_seq_stop.                                 *)

ReadBegin(p, f, c) ==
  /\ reading[p].at = "out" /\ f <= files /\ ProcessRuns(c)
  /\ reading' = [reading EXCEPT ![p] = [file |-> f, cpu |-> c, at |-> "in"]]
  /\ UNCHANGED <<vars, phase, files, snap, multicast, pending, work, writer,
                 readers, irqOff, now, lastTransmit, strings, deviceVars>>

MutSeqStartIrqsOn(p) ==
  LET c == reading[p].cpu
  IN  /\ reading[p].at = "in" /\ ProcessRuns(c)
      /\ reading' = [reading EXCEPT ![p].at = "spin"]
      /\ UNCHANGED <<vars, phase, files, snap, multicast, pending, work, writer,
                     readers, irqOff, now, lastTransmit, strings, deviceVars>>

\* read_lock_irqsave turns interrupts off before it waits for the lock.
SeqStart(p) ==
  LET c == reading[p].cpu
  IN  /\ reading[p].at = "in" /\ ProcessRuns(c)
      /\ reading' = [reading EXCEPT ![p].at = "spin"]
      /\ irqOff' = irqOff \union {c}
      /\ UNCHANGED <<vars, phase, files, snap, multicast, pending, work, writer,
                     readers, now, lastTransmit, strings, deviceVars>>

SeqLocked(p) ==
  /\ reading[p].at = "spin" /\ work[reading[p].cpu] = "none"
  /\ ReadFree
  /\ readers' = readers \union {p}
  /\ reading' = [reading EXCEPT ![p].at = "holding"]
  /\ UNCHANGED <<vars, phase, files, snap, multicast, pending, work, writer,
                 irqOff, now, lastTransmit, strings, deviceVars>>

\* The state of the interrupts is stored when the lock is held, in memory whose
\* allocation was not checked: if it failed the process dies there.  Its CPU goes
\* on with others; the lock and the file stay its own.
SeqLockedDies(p) ==
  /\ reading[p].at = "spin" /\ work[reading[p].cpu] = "none"
  /\ ReadFree
  /\ readers' = readers \union {p}
  /\ irqOff' = irqOff \ {reading[p].cpu}
  /\ reading' = [reading EXCEPT ![p].at = "dead"]
  /\ UNCHANGED <<vars, phase, files, snap, multicast, pending, work, writer,
                 now, lastTransmit, strings, deviceVars>>

\* Every file parses the frame of an entry it shows.
ParseNeverEnds(n) ==
  frame[n].present /\ [length |-> frame[n].length, hold |-> frame[n].hold] \in Endless

\* An entry is shown whose frame cdp_parse_packet does not get to the end of.
ShowNeverEnds(p) ==
  /\ reading[p].at = "holding" /\ work[reading[p].cpu] = "none"
  /\ \E n \in Listed : ParseNeverEnds(n)
  /\ reading' = [reading EXCEPT ![p].at = "parsing"]
  /\ UNCHANGED <<vars, phase, files, snap, multicast, pending, work, writer,
                 readers, irqOff, now, lastTransmit, strings, deviceVars>>

SeqStop(p) ==
  /\ reading[p].at = "holding" /\ work[reading[p].cpu] = "none"
  /\ readers' = readers \ {p}
  /\ irqOff' = irqOff \ {reading[p].cpu}
  /\ reading' = [reading EXCEPT ![p].at = "in"]
  /\ UNCHANGED <<vars, phase, files, snap, multicast, pending, work, writer,
                 now, lastTransmit, strings, deviceVars>>

ReadEnd(p) ==
  /\ reading[p].at = "in" /\ ProcessRuns(reading[p].cpu)
  /\ reading' = [reading EXCEPT ![p] = NotReading]
  /\ UNCHANGED <<vars, phase, files, snap, multicast, pending, work, writer,
                 readers, irqOff, now, lastTransmit, strings, deviceVars>>

-----------------------------------------------------------------------------
(* cdp_module_init and cdp_module_exit, run by a process on any CPU.       *)

LoaderRuns == \E c \in Cpus : ProcessRuns(c)

\* The part of the kernel that loading and unloading leave alone.
handlerVars == <<work, writer, readers, reading, irqOff, now, lastTransmit,
                 deviceVars>>

\* In these phases the loader is in the queue of dev_base_lock.  A process that
\* reads the list of devices waits for whoever was before it to change the list,
\* also for one that only waits.
LoaderQueues == phase \in {"multicast", "leave multicast"}
DevicesFree == devChange = "none"

CreateFile ==
  /\ phase = "proc" /\ LoaderRuns
  /\ files' = files + 1
  /\ phase' = IF files + 1 = 3 THEN "timer" ELSE "proc"
  /\ UNCHANGED <<vars, snap, multicast, pending, strings, handlerVars>>

\* proc_mkdir or proc_create fails: what was created is removed again.
CreateFileFails ==
  /\ phase = "proc" /\ LoaderRuns
  /\ phase' = "unproc"
  /\ UNCHANGED <<vars, files, snap, multicast, pending, strings, handlerVars>>

ArmTimer ==
  /\ phase = "timer" /\ LoaderRuns
  /\ pending' = TRUE
  /\ phase' = "snap"
  /\ UNCHANGED <<vars, files, snap, multicast, strings, handlerVars>>

RegisterSnap ==
  /\ phase = "snap" /\ LoaderRuns
  /\ snap' = "registered"
  /\ phase' = "multicast"
  /\ UNCHANGED <<vars, files, multicast, pending, strings, handlerVars>>

\* The timer is disarmed; a handler that is running is not waited for.
RegisterSnapFails ==
  /\ phase = "snap" /\ LoaderRuns
  /\ pending' = FALSE
  /\ phase' = "unproc"
  /\ UNCHANGED <<vars, files, snap, multicast, strings, handlerVars>>

JoinMulticast ==
  /\ phase = "multicast" /\ LoaderRuns /\ DevicesFree
  /\ multicast' = TRUE
  /\ phase' = "loaded"
  /\ UNCHANGED <<vars, files, snap, pending, strings, handlerVars>>

Unload ==
  /\ phase = "loaded" /\ LoaderRuns
  /\ phase' = "del timer"
  /\ UNCHANGED <<vars, files, snap, multicast, pending, strings, handlerVars>>

\* del_timer, not del_timer_sync.
DelTimer ==
  /\ phase = "del timer" /\ LoaderRuns
  /\ pending' = FALSE
  /\ phase' = "leave multicast"
  /\ UNCHANGED <<vars, files, snap, multicast, strings, handlerVars>>

LeaveMulticast ==
  /\ phase = "leave multicast" /\ LoaderRuns /\ DevicesFree
  /\ multicast' = FALSE
  /\ phase' = "unsnap"
  /\ UNCHANGED <<vars, files, snap, pending, strings, handlerVars>>

\* unregister_snap_client unlinks the handler, then waits for the CPUs that
\* may still be in it.
UnregisterSnap ==
  /\ phase = "unsnap" /\ LoaderRuns
  /\ snap' = "none"
  /\ phase' = "drain"
  /\ UNCHANGED <<vars, files, multicast, pending, strings, handlerVars>>

SnapDrained ==
  /\ phase = "drain" /\ LoaderRuns
  /\ \A c \in Cpus : work[c] \notin RxPhases
  /\ phase' = "unproc"
  /\ UNCHANGED <<vars, files, snap, multicast, pending, strings, handlerVars>>

\* remove_proc_entry: nobody finds the file any more, and who reads it is
\* waited for before the next one is removed.
RemovedFilesUnused == \A p \in Procs : reading[p].file <= files

RemoveFile ==
  /\ phase = "unproc" /\ LoaderRuns
  /\ files > 0 /\ RemovedFilesUnused
  /\ files' = files - 1
  /\ UNCHANGED <<vars, phase, snap, multicast, pending, strings, handlerVars>>

\* The list goes first and the files after it.
MutStartClean ==
  /\ phase = "unproc" /\ LoaderRuns
  /\ phase' = "clean"
  /\ CloseList
  /\ UNCHANGED <<files, snap, multicast, pending, strings, handlerVars>>

StartClean ==
  /\ phase = "unproc" /\ LoaderRuns
  /\ files = 0 /\ RemovedFilesUnused
  /\ phase' = "clean"
  /\ CloseList
  /\ UNCHANGED <<files, snap, multicast, pending, strings, handlerVars>>

\* The list is emptied and freed without the lock.
CleanList ==
  /\ phase = "clean" /\ LoaderRuns
  /\ CleanStep
  /\ UNCHANGED kernelVars

FreeList ==
  /\ phase = "clean" /\ LoaderRuns
  /\ DeleteList
  /\ phase' = "free"
  /\ UNCHANGED <<files, snap, multicast, pending, strings, handlerVars>>

FreeStrings ==
  /\ phase = "free" /\ LoaderRuns
  /\ strings' = "freed"
  /\ phase' = "gone"
  /\ UNCHANGED <<vars, files, snap, multicast, pending, handlerVars>>

-----------------------------------------------------------------------------
(* Somebody else, on a CPU of its own, changes the list of devices.        *)

\* Who comes after the loader is behind it, and not seen until it was served.
DeviceChangeBegins ==
  /\ devChange = "none" /\ ~LoaderQueues
  /\ devChange' = "waits"

DeviceChangeLocks ==
  /\ devChange = "waits" /\ ~devLeaked
  /\ devChange' = "holds"

DeviceChangeEnds ==
  /\ devChange = "holds"
  /\ devChange' = "none"

DeviceChange ==
  /\ DeviceChangeBegins \/ DeviceChangeLocks \/ DeviceChangeEnds
  /\ UNCHANGED <<vars, phase, files, snap, multicast, pending, strings, work, writer,
                 readers, reading, irqOff, now, lastTransmit, devLeaked>>

-----------------------------------------------------------------------------

ClockTick == Tick /\ phase # "gone" /\ UNCHANGED kernelVars

ReceiveWork(c) == ReceiveLock(c) \/ ReceiveSearch(c) \/ ReceiveFinish(c)

TimerWork(c) ==
  \/ TimerLock(c) \/ TimerPurge(c) \/ TimerUnlock(c)
  \/ TimerTransmit(c) \/ TimerRearm(c)

ReadWork(p) == SeqLocked(p) \/ SeqLockedDies(p) \/ SeqStop(p)

Loading ==
  \/ CreateFile \/ CreateFileFails \/ ArmTimer \/ RegisterSnap
  \/ RegisterSnapFails \/ JoinMulticast

Unloading ==
  \/ DelTimer \/ LeaveMulticast \/ UnregisterSnap \/ SnapDrained
  \/ RemoveFile \/ StartClean \/ CleanList \/ FreeList \/ FreeStrings

ModuleNext ==
  \/ \E c \in Cpus : FrameArrives(c) \/ ReceiveWork(c)
  \/ \E c \in Cpus : TimerExpires(c) \/ TimerWork(c)
  \/ \E p \in Procs, f \in Files, c \in Cpus : ReadBegin(p, f, c)
  \/ \E p \in Procs : SeqStart(p) \/ ReadWork(p) \/ ShowNeverEnds(p) \/ ReadEnd(p)
  \/ Loading \/ Unload \/ Unloading
  \/ DeviceChange
  \/ ClockTick

ModuleSpec == ModuleInit /\ [][ModuleNext]_allVars

\* A softirq runs to its end, a process that holds or waits for the lock has
\* its CPU, and the queued lock serves who waits.  Processes get a CPU again
\* and again, for softirqs under load are handed to a thread.  Who holds the lock
\* gives it back unless it died or its parse never ends, and who changes the list
\* of devices does so when that lock is free.  Nothing obliges a frame to arrive,
\* a process to read, devices to change, or the module to be unloaded.
ModuleFairness ==
  /\ \A c \in Cpus : SF_allVars(ReceiveWork(c) \/ TimerWork(c))
  /\ \A p \in Procs : SF_allVars(ReadWork(p)) /\ SF_allVars(ReadEnd(p))
  /\ SF_allVars(\E c \in Cpus : TimerExpires(c))
  /\ SF_allVars(Unloading)
  /\ WF_allVars(DeviceChange /\ devChange # "none")

FairModuleSpec == ModuleSpec /\ ModuleFairness

-----------------------------------------------------------------------------
(* Properties.                                                             *)

\* Until unloading begins to empty the list, every step that touches the list
\* is a step of NeighborList, which lets one user at a time at it: the lock
\* gives what cdp_neighbor.c needs.
ListStepsWhileLoaded == [][life' = "live" => [Next]_vars]_allVars

\* Neither a frame nor a reader of /proc ever meets the list while it is being
\* freed or after: unregistering the handlers comes first and is waited for.
UsersGoneBeforeClean ==
  life # "live" =>
    /\ \A c \in Cpus : work[c] \notin RxPhases
    /\ \A p \in Procs : reading[p].at = "out"

\* No softirq ever runs on the CPU of a process that holds the lock or waits
\* for it: spinning there would be for ever.  (One that died is not on any.)
NoSpinOverHolder ==
  \A p \in Procs : reading[p].at \in {"spin", "holding", "parsing"} =>
    work[reading[p].cpu] = "none"

\* Once armed, the timer is armed or its handler is at work until unloading
\* disarms it: no path through the handler forgets to arm it again.
TimerAlive ==
  phase \in {"snap", "multicast", "loaded", "del timer"} =>
    pending \/ \E c \in Cpus : work[c] \in TimerPhases

\* A reader that never gives the lock back: it died, or parses a frame with a
\* TLV of no length.
LockLost == \E p \in Procs : reading[p].at \in {"parsing", "dead"}

\* A failed transmission left dev_base_lock held, and somebody waits to change
\* the list of devices: whoever wants to read it waits behind.
DevicesLost == devLeaked /\ devChange = "waits"

\* An unload that has begun gets as far as emptying the list, whoever holds or
\* waits for the two locks and however often, unless one of them is lost in one of
\* these three ways: there is no other that it waits for without end.
UnloadDrains ==
  (phase = "del timer") ~> (life # "live" \/ LockLost \/ DevicesLost)

-----------------------------------------------------------------------------
(* What the header says of the lock and the code does not do.              *)

\* "A read/write spin-lock for controlling access to cdp_neighbors"
\* (cdp_module.h:22): while the list is emptied nobody else works on it.
LockControlsAccess == life # "live" => op = "idle"
=============================================================================
