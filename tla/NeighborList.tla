---------------------------- MODULE NeighborList ---------------------------
(***************************************************************************)
(* The doubly linked list of CDP neighbours, libcdp/cdp_neighbor.c, driven *)
(* the way the kernel module drives it: frames are recorded by             *)
(* module/cdp_receive.c, a one-second timer purges the expired entries     *)
(* (module/cdp_module.c), and unloading the module empties the list.       *)
(*                                                                         *)
(* Pointers are functions: next[n], prev[n] are the fields of the struct   *)
(* n, head and tail those of the list.  A loop over the list is one action *)
(* per iteration.  Recording a frame and purging run under the write lock, *)
(* which op # "idle" stands for; CdpModule models the lock itself.         *)
(*                                                                         *)
(* An operator whose name begins with Mut is a mistake the definition      *)
(* below it could have contained; no specification uses it.  PROJECT.json  *)
(* says which property each one breaks.                                    *)
(***************************************************************************)
EXTENDS Integers, FiniteSets

CONSTANTS
  Neighbors,    \* the structs cdp_neighbor that memory has room for
  Identities,   \* (interface name, MAC address) pairs frames come from
  Frames,       \* frames received: their length, their hold time byte
  MaxTime,      \* bound on the clock
  NULL

ASSUME NullAssumption == NULL \notin Neighbors \union Identities \union Nat
ASSUME FramesAssumption == Frames \subseteq [length : Nat, hold : 0..255]
ASSUME MaxTimeAssumption == MaxTime \in Nat

VARIABLES
  allocated,    \* structs got from the allocator and not given back
  released,     \* structs that cdp_neighbor_delete has run on
  head, tail, count,          \* struct cdp_neighbor_list
  next, prev,                 \* struct cdp_neighbor: the links,
  ident,                      \*   device_name with remote_mac,
  receivedAt,                 \*   received_at,
  frame,                      \*   frame_buffer, its size and its length
  integrity,    \* "corrupt" once a branch that logs a corruption is taken
  life,         \* the list: "live", "cleaning", "deleted" (freed)
  op,           \* what the holder of the write lock does
  item,         \* its loop variable
  req,          \* the frame being recorded
  stamp,        \* the timer's now, read before it takes the lock
  clock         \* the time of day, in seconds

heapVars == <<allocated, released, next, prev, ident, receivedAt, frame>>
listVars == <<head, tail, count, integrity, life>>
opVars == <<op, item, req>>
vars == <<heapVars, listVars, opVars, stamp, clock>>

Pointer == Neighbors \union {NULL}
Request == [id : Identities, frame : Frames]
HoldTimes == {0} \union {f.hold : f \in Frames}
Buffer == [present : BOOLEAN, size : Nat, length : Nat, hold : HoldTimes]

NoBuffer == [present |-> FALSE, size |-> 0, length |-> 0, hold |-> 0]

TypeOK ==
  /\ allocated \subseteq Neighbors
  /\ released \subseteq Neighbors
  /\ head \in Pointer /\ tail \in Pointer /\ count \in Int
  /\ next \in [Neighbors -> Pointer]
  /\ prev \in [Neighbors -> Pointer]
  /\ ident \in [Neighbors -> Identities \union {NULL}]
  /\ receivedAt \in [Neighbors -> 0..MaxTime]
  /\ frame \in [Neighbors -> Buffer]
  /\ integrity \in {"ok", "corrupt"}
  /\ life \in {"live", "cleaning", "deleted"}
  /\ op \in {"idle", "lookup", "purge"}
  /\ item \in Pointer
  /\ req \in Request \union {NULL}
  /\ op = "lookup" => req \in Request
  /\ stamp \in 0..MaxTime \union {NULL}
  /\ clock \in 0..MaxTime

\* cdp_neighbor_list_new, called once by cdp_module_init.
Init ==
  /\ allocated = {} /\ released = {}
  /\ head = NULL /\ tail = NULL /\ count = 0
  /\ next = [n \in Neighbors |-> NULL]
  /\ prev = [n \in Neighbors |-> NULL]
  /\ ident = [n \in Neighbors |-> NULL]
  /\ receivedAt = [n \in Neighbors |-> 0]
  /\ frame = [n \in Neighbors |-> NoBuffer]
  /\ integrity = "ok" /\ life = "live"
  /\ op = "idle" /\ item = NULL /\ req = NULL
  /\ stamp = NULL /\ clock = 0

-----------------------------------------------------------------------------
(* One struct.                                                             *)

\* cdp_neighbor_new: a struct that was never used, for none is given back.
NewNeighbor(n) == n \notin allocated /\ allocated' = allocated \union {n}

\* cdp_neighbor_delete frees the name, the address and the frame buffer, and
\* not the struct.
DeleteNeighbor(n) == released' = released \union {n}

\* set_device_type, _set_device_name and _set_remote_mac on a new struct.
SetIdentity(n, id) == ident' = [ident EXCEPT ![n] = id]

\* device_name_equals and remote_mac_equals.
SameIdentity(n, id) == ident[n] = id

MutHoldTimeNoLength(n) ==
  IF frame[n].present /\ frame[n].size >= 4 THEN frame[n].hold ELSE 0

\* The hold time is byte 1 of the stored frame; 0 when there is none to read.
HoldTime(n) ==
  IF frame[n].present /\ frame[n].size >= 4 /\ frame[n].length >= 2
  THEN frame[n].hold ELSE 0

\* An entry expires one second before its hold time is over.
\* The clock here is set by nobody, so that the difference fits the int it is cut
\* to; WallClock has one that anybody may set.
IsExpired(n, now) == (now - receivedAt[n]) + 1 >= HoldTime(n)

NoBufferButSize(old) == [NoBuffer EXCEPT !.size = old.size]

FitBuffer(old, f) ==
  IF old.present /\ old.size < f.length THEN NoBuffer ELSE old

\* What cdp_neighbor_set_frame_buffer takes for a sound buffer.
BufferOk(b) == ~b.present => b.size = 0 /\ b.length = 0

\* The buffer after a frame was copied into it, or after the copy failed:
\* memory may be short.
StoreFrame(old, f, memory) ==
  LET kept == FitBuffer(old, f)
      room == IF ~kept.present /\ BufferOk(kept) /\ memory
              THEN [present |-> TRUE, size |-> f.length, length |-> 0, hold |-> 0]
              ELSE kept
  IN  IF f.length = 0 THEN old
      ELSE IF ~room.present \/ room.size < f.length THEN room
      ELSE [present |-> TRUE, size |-> room.size, length |-> f.length,
            hold |-> IF f.length >= 2 THEN f.hold ELSE room.hold]

MutRefreshIfStored(n) ==
  \E memory \in BOOLEAN :
    LET stored == StoreFrame(frame[n], req.frame, memory)
    IN  /\ receivedAt' = [receivedAt EXCEPT
                            ![n] = IF stored = frame[n] THEN @ ELSE clock]
        /\ frame' = [frame EXCEPT ![n] = stored]
        /\ UNCHANGED integrity

\* What cdp_receive does with the entry it found or made: the results of
\* cdp_neighbor_set_received_at and _set_frame_buffer are not looked at.
Refresh(n) ==
  \E memory \in BOOLEAN :
    /\ receivedAt' = [receivedAt EXCEPT ![n] = clock]
    /\ frame' = [frame EXCEPT ![n] = StoreFrame(@, req.frame, memory)]
    /\ integrity' = IF req.frame.length = 0 \/ BufferOk(FitBuffer(frame[n], req.frame))
                    THEN integrity ELSE "corrupt"

-----------------------------------------------------------------------------
(* The links.                                                              *)

Listed == {n \in Neighbors : head = n \/ prev[n] # NULL}

\* Whether cdp_neighbor_list_append finds the list and the item sound.
AppendOk(n) ==
  /\ next[n] = NULL /\ prev[n] = NULL
  /\ IF tail = NULL THEN head = NULL ELSE next[tail] = NULL

MutAppendNoPrev(n) ==
  /\ head' = IF tail = NULL THEN n ELSE head
  /\ count' = IF tail = NULL THEN count + 1 ELSE count
  /\ next' = [m \in Neighbors |-> IF m = tail THEN n ELSE next[m]]
  /\ tail' = n
  /\ UNCHANGED prev

\* count is only kept when the list was empty.
AppendItem(n) ==
  /\ head' = IF tail = NULL THEN n ELSE head
  /\ count' = IF tail = NULL THEN count + 1 ELSE count
  /\ next' = [m \in Neighbors |-> IF m = tail THEN n ELSE next[m]]
  /\ prev' = [prev EXCEPT ![n] = tail]
  /\ tail' = n

PrevSideOk(n) == IF prev[n] = NULL THEN head = n ELSE next[prev[n]] = n
NextSideOk(n) == IF next[n] = NULL THEN tail = n ELSE prev[next[n]] = n
RemoveOk(n) == PrevSideOk(n) /\ NextSideOk(n)

\* The side of prev is unlinked before the side of next is examined, so a
\* failure of the second check leaves the item half removed.
RemoveItem(n) ==
  LET first == PrevSideOk(n)
      both  == RemoveOk(n)
  IN  /\ head' = IF first /\ prev[n] = NULL THEN next[n] ELSE head
      /\ tail' = IF both /\ next[n] = NULL THEN prev[n] ELSE tail
      /\ next' = [m \in Neighbors |-> IF both /\ m = n THEN NULL
                                      ELSE IF first /\ m = prev[n] THEN next[n]
                                      ELSE next[m]]
      /\ prev' = [m \in Neighbors |-> IF both /\ m = n THEN NULL
                                      ELSE IF both /\ m = next[n] THEN prev[n]
                                      ELSE prev[m]]
      /\ integrity' = IF both THEN integrity ELSE "corrupt"

\* An entry at the head that has a predecessor is reported and bypassed.
TakeFirst ==
  LET n == head
  IN  /\ head' = IF prev[n] = NULL THEN next[n] ELSE head
      /\ tail' = IF next[n] = NULL THEN prev[n] ELSE tail
      /\ next' = [m \in Neighbors |-> IF m = n THEN NULL
                                      ELSE IF m = prev[n] THEN next[n]
                                      ELSE next[m]]
      /\ prev' = [m \in Neighbors |-> IF m = n THEN NULL
                                      ELSE IF m = next[n] THEN prev[n]
                                      ELSE prev[m]]
      /\ integrity' = IF prev[n] = NULL THEN integrity ELSE "corrupt"
      /\ count' = count - 1

-----------------------------------------------------------------------------
(* Recording a frame: cdp_receive under the write lock.                    *)

MutStartLookupPastHead(id, f) ==
  /\ op' = "lookup"
  /\ req' = [id |-> id, frame |-> f]
  /\ item' = IF head = NULL THEN NULL ELSE next[head]
  /\ UNCHANGED <<heapVars, listVars, stamp, clock>>

\* What follows taking the lock; CdpModule says when the lock is taken.
StartLookup(id, f) ==
  /\ op' = "lookup"
  /\ req' = [id |-> id, frame |-> f]
  /\ item' = head
  /\ UNCHANGED <<heapVars, listVars, stamp, clock>>

BeginReceive(id, f) == op = "idle" /\ life = "live" /\ StartLookup(id, f)

LookupNext ==
  /\ op = "lookup" /\ item # NULL /\ ~SameIdentity(item, req.id)
  /\ item' = next[item]
  /\ UNCHANGED <<heapVars, listVars, op, req, stamp, clock>>

EndReceive == op' = "idle" /\ item' = NULL /\ req' = NULL

LookupHit ==
  /\ op = "lookup" /\ item # NULL /\ SameIdentity(item, req.id)
  /\ Refresh(item)
  /\ EndReceive
  /\ UNCHANGED <<allocated, released, next, prev, ident, head, tail, count, life,
                 stamp, clock>>

\* No entry and no memory for one: the frame is dropped.
CreateNoMemory ==
  /\ op = "lookup" /\ item = NULL
  /\ EndReceive
  /\ UNCHANGED <<heapVars, listVars, stamp, clock>>

\* A struct was got, but not the copy of the name or of the address:
\* cdp_neighbor_delete frees what the struct holds and keeps the struct.
CreatePartial(n) ==
  /\ op = "lookup" /\ item = NULL
  /\ NewNeighbor(n)
  /\ DeleteNeighbor(n)
  /\ EndReceive
  /\ UNCHANGED <<next, prev, ident, receivedAt, frame, listVars, stamp, clock>>

Create(n) ==
  /\ op = "lookup" /\ item = NULL
  /\ NewNeighbor(n)
  /\ SetIdentity(n, req.id)
  /\ IF AppendOk(n)
     THEN /\ AppendItem(n)
          /\ Refresh(n)
          /\ UNCHANGED released
     ELSE /\ integrity' = "corrupt"
          /\ DeleteNeighbor(n)
          /\ UNCHANGED <<next, prev, head, tail, count, receivedAt, frame>>
  /\ EndReceive
  /\ UNCHANGED <<life, stamp, clock>>

-----------------------------------------------------------------------------
(* Purging: cdp_timer_event_handler and                                    *)
(* cdp_neighbor_list_purge_expired_neighbors.                              *)

\* The timer fires and reads the clock before it has the lock.
ReadClock ==
  /\ stamp = NULL
  /\ stamp' = clock
  /\ UNCHANGED <<heapVars, listVars, opVars, clock>>

TimerFires == life = "live" /\ ReadClock

MutStartPurgePastHead ==
  /\ stamp # NULL
  /\ op' = "purge"
  /\ item' = IF head = NULL THEN NULL ELSE next[head]
  /\ UNCHANGED <<heapVars, listVars, req, stamp, clock>>

StartPurge ==
  /\ stamp # NULL
  /\ op' = "purge"
  /\ item' = head
  /\ UNCHANGED <<heapVars, listVars, req, stamp, clock>>

BeginPurge == op = "idle" /\ life = "live" /\ StartPurge

PurgeKeep ==
  /\ op = "purge" /\ item # NULL /\ ~IsExpired(item, stamp)
  /\ item' = next[item]
  /\ UNCHANGED <<heapVars, listVars, op, req, stamp, clock>>

MutPurgeExpiredEarly ==
  /\ op = "purge" /\ item # NULL
  /\ IsExpired(item, stamp + 1)
  /\ RemoveItem(item)
  /\ DeleteNeighbor(item)
  /\ item' = IF prev[item] = NULL THEN NULL ELSE next'[prev[item]]
  /\ UNCHANGED <<allocated, ident, receivedAt, frame, count, life, op, req,
                 stamp, clock>>

\* The walk resumes behind the predecessor of the entry it removed: where
\* there is none, it is over.
PurgeExpired ==
  /\ op = "purge" /\ item # NULL /\ IsExpired(item, stamp)
  /\ RemoveItem(item)
  /\ IF RemoveOk(item)
     THEN /\ DeleteNeighbor(item)
          /\ item' = IF prev[item] = NULL THEN NULL ELSE next'[prev[item]]
     ELSE item' = NULL /\ UNCHANGED released
  /\ UNCHANGED <<allocated, ident, receivedAt, frame, count, life, op, req,
                 stamp, clock>>

EndPurge ==
  /\ op = "purge" /\ item = NULL
  /\ op' = "idle"
  /\ stamp' = NULL
  /\ UNCHANGED <<heapVars, listVars, item, req, clock>>

-----------------------------------------------------------------------------
(* Unloading: cdp_neighbor_list_clean_and_delete.                          *)

CloseList ==
  /\ life = "live"
  /\ life' = "cleaning"
  /\ UNCHANGED <<heapVars, head, tail, count, integrity, opVars, stamp, clock>>

\* cdp_module_exit takes it that nobody uses the list any more.
BeginClean == op = "idle" /\ stamp = NULL /\ CloseList

MutCleanStepByCount ==
  /\ life = "cleaning" /\ head # NULL /\ count > 0
  /\ TakeFirst
  /\ DeleteNeighbor(head)
  /\ UNCHANGED <<allocated, ident, receivedAt, frame, life, opVars, stamp, clock>>

CleanStep ==
  /\ life = "cleaning" /\ head # NULL
  /\ TakeFirst
  /\ DeleteNeighbor(head)
  /\ UNCHANGED <<allocated, ident, receivedAt, frame, life, opVars, stamp, clock>>

DeleteList ==
  /\ life = "cleaning" /\ head = NULL
  /\ life' = "deleted"
  /\ UNCHANGED <<heapVars, head, tail, count, integrity, opVars, stamp, clock>>

Tick ==
  /\ clock < MaxTime
  /\ clock' = clock + 1
  /\ UNCHANGED <<heapVars, listVars, opVars, stamp>>

Receive ==
  \/ \E id \in Identities, f \in Frames : BeginReceive(id, f)
  \/ LookupNext
  \/ LookupHit
  \/ CreateNoMemory
  \/ \E n \in Neighbors : CreatePartial(n)
  \/ \E n \in Neighbors : Create(n)

Purge == TimerFires \/ BeginPurge \/ PurgeKeep \/ PurgeExpired \/ EndPurge

Clean == BeginClean \/ CleanStep \/ DeleteList

Next == Receive \/ Purge \/ Clean \/ Tick

Spec == Init /\ [][Next]_vars

\* The timer is periodic and its handler, like the receive handler, runs to
\* its end on its CPU.  The write lock is a queued one: a handler that waits
\* for it gets it, however many frames arrive, hence SF for BeginPurge: as long as
\* readers give the lock back.  CdpModule has those that do not.
Fairness ==
  /\ WF_vars(LookupNext \/ LookupHit \/ CreateNoMemory)
  /\ WF_vars(TimerFires)
  /\ SF_vars(BeginPurge)
  /\ WF_vars(PurgeKeep \/ PurgeExpired \/ EndPurge)
  /\ WF_vars(CleanStep \/ DeleteList)

FairSpec == Spec /\ Fairness

-----------------------------------------------------------------------------
(* Properties.                                                             *)

\* None of the branches of cdp_neighbor.c that report a corrupt list or a
\* corrupt frame buffer is ever taken.
NoCorruption == integrity = "ok"

\* Two entries of the list never have the same interface and address, so a
\* lookup that stops at its first match misses nothing.
UniqueIdentity ==
  \A m, n \in Listed : ident[m] = ident[n] => m = n

\* cdp_neighbor_delete never runs on an entry the list still reaches, so that
\* no walk reads a name, an address or a frame that was freed.
NoDanglingEntry == Listed \subseteq allocated \ released

\* The links of neighbouring structs agree with each other and with the ends
\* of the list, and a struct outside the list has no links: what every check
\* in append, remove_item and take_first relies on.
Linked ==
  /\ (head = NULL) <=> (tail = NULL)
  /\ head # NULL => prev[head] = NULL
  /\ tail # NULL => tail \in Listed /\ next[tail] = NULL
  /\ \A n \in Listed :
       /\ IF next[n] = NULL THEN n = tail ELSE prev[next[n]] = n
       /\ prev[n] # NULL => next[prev[n]] = n /\ prev[n] \in Listed
  /\ \A n \in Neighbors \ Listed : next[n] = NULL /\ prev[n] = NULL

\* pos numbers the entries in the order of the list: head has the lowest and
\* tail the highest number, and next leads to the next higher one.
Ordered(pos) ==
  /\ \A m, n \in Listed : pos[m] = pos[n] => m = n
  /\ \A n \in Listed :
       /\ head # NULL /\ pos[head] <= pos[n]
       /\ tail # NULL /\ pos[n] <= pos[tail]
  /\ \A n \in Listed : next[n] # NULL =>
       /\ pos[n] < pos[next[n]]
       /\ \A m \in Listed : pos[m] < pos[next[n]] => pos[m] <= pos[n]

\* A lookup that has come as far as item has passed every entry before it,
\* and none of those has the identity it looks for.
Searched(pos) ==
  op = "lookup" =>
    \A m \in Listed : item = NULL \/ pos[m] < pos[item] => ident[m] # req.id

\* The counter never falls behind so far that a list with entries looks empty
\* to a reader that starts at index 0.
CountCoversHead == life = "live" /\ head # NULL => count >= 1

\* Who may run when, and what a walk stands on: the list is emptied by the
\* last user only, a purge works with a clock reading of the past, and the
\* loop variable points into the list.
Turns ==
  /\ life # "live" => op = "idle" /\ stamp = NULL
  /\ op = "purge" => stamp # NULL
  /\ stamp # NULL => stamp <= clock
  /\ op # "idle" /\ item # NULL => item \in Listed

\* Only structs that exist are deleted, a buffer without memory has no size,
\* and while the list is in use the counter is not negative.
Accounts ==
  /\ released \subseteq allocated
  /\ \A n \in Neighbors : BufferOk(frame[n])
  /\ life = "live" => count >= 0

\* The inductive invariant: what the checks for corruption, the walks and the
\* deletions rely on.
ListInv ==
  /\ TypeOK
  /\ Linked
  /\ NoDanglingEntry
  /\ Turns
  /\ Accounts
  /\ NoCorruption
  /\ CountCoversHead

\* While the module is loaded, an entry leaves the list only because its hold
\* time is over, whatever was recorded between the timer's reading of the
\* clock and its walk, and however the walk goes on after a removal.
OnlyExpiredLeave ==
  [][life = "live" =>
       \A n \in Listed : n \notin Listed' => IsExpired(n, clock)]_vars

\* A recorded frame never inherits the hold time of the frame before it: the
\* byte that is read belongs to the new frame, or there is nothing to read.
\* An empty payload changes nothing but the time.
HoldIsOfFrame ==
  [][\A n \in Neighbors :
       op = "lookup" /\ op' = "idle" /\ item = n =>
         LET f == req.frame
         IN  IF f.length = 0 THEN HoldTime(n)' = HoldTime(n)
             ELSE HoldTime(n)' \in {0} \union (IF f.length < 2 THEN {} ELSE {f.hold})]_vars

\* An entry that expired leaves the list or is heard again, even though a
\* purge may stop before it has seen the whole list.
ExpiredLeave ==
  \A n \in Neighbors :
    (n \in Listed /\ IsExpired(n, clock))
      ~> ~(n \in Listed /\ IsExpired(n, clock))

\* Unloading the module ends: the list is emptied and freed.
CleanEnds == (life = "cleaning") ~> (life = "deleted")

-----------------------------------------------------------------------------
(* The table of entries the list stands for.                               *)

EntryOf(n) == [id |-> ident[n], at |-> receivedAt[n], hold |-> HoldTime(n)]

Table == INSTANCE NeighborTable WITH
  table <- {EntryOf(n) : n \in Listed},
  closed <- IF life = "live" THEN "no" ELSE "yes"

\* Seen as a table of entries, the list only ever records, expires and, on
\* unloading, drops entries, one per step, and has one entry per identity.
TableSpec == Table!Spec

\* The entry k steps from the head, for those who walk the list.
Reached[k \in Nat] ==
  IF k = 0 THEN head
  ELSE IF Reached[k - 1] = NULL THEN NULL ELSE next[Reached[k - 1]]

-----------------------------------------------------------------------------
(* What the header says of the list and the code does not do.              *)

\* "Destructor, this deletes all the child items in the list as well."
\* (cdp_neighbor.h:148): the struct of no entry is left when the list is gone.  A
\* struct that was never given an identity was never in it.
NothingLeaks == life = "deleted" => \A n \in allocated : ident[n] = NULL
=============================================================================
