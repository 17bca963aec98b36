--------------------------- MODULE NeighborTable ---------------------------
(***************************************************************************)
(* What the neighbour list of the CDP module promises to the code that     *)
(* uses it, with no list, no pointer and no memory in it: a table with at  *)
(* most one entry per identity (the interface a frame arrived on and the   *)
(* MAC address it came from).  An entry says when the neighbour was last   *)
(* heard and how long it asked to be remembered.                           *)
(*                                                                         *)
(* NeighborList implements this specification (libcdp/cdp_neighbor.c).     *)
(***************************************************************************)
EXTENDS Integers

CONSTANTS
  Identities,   \* (interface, MAC address) pairs a frame may come from
  HoldTimes,    \* hold times, in seconds; 0 when no hold time is known
  MaxTime       \* bound on the clock

VARIABLES
  table,        \* the set of entries
  clock,        \* the time of day, in seconds
  closed        \* "no", or "yes" once the module is being unloaded

vars == <<table, clock, closed>>

Entry == [id : Identities, at : 0..MaxTime, hold : HoldTimes]

TypeOK ==
  /\ table \in SUBSET Entry
  /\ clock \in 0..MaxTime
  /\ closed \in {"no", "yes"}

Init ==
  /\ table = {}
  /\ clock = 0
  /\ closed = "no"

Without(id) == {e \in table : e.id # id}

\* The module's own test: an entry is dropped a second early, see
\* cdp_neighbor_is_expired.
Stale(e, t) == t - e.at + 1 >= e.hold

\* A frame from id is recorded: the entry of id, old or new, is as of now.
Hear(id, hold) ==
  /\ closed = "no"
  /\ table' = Without(id) \union {[id |-> id, at |-> clock, hold |-> hold]}
  /\ UNCHANGED <<clock, closed>>

\* An entry leaves because its hold time is over, for no other reason.
Expire(e) ==
  /\ closed = "no"
  /\ e \in table
  /\ Stale(e, clock)
  /\ table' = table \ {e}
  /\ UNCHANGED <<clock, closed>>

Close ==
  /\ closed = "no"
  /\ closed' = "yes"
  /\ UNCHANGED <<table, clock>>

\* Once the table is closed its entries are dropped, stale or not.
Drop(e) ==
  /\ closed = "yes"
  /\ e \in table
  /\ table' = table \ {e}
  /\ UNCHANGED <<clock, closed>>

Tick ==
  /\ clock < MaxTime
  /\ clock' = clock + 1
  /\ UNCHANGED <<table, closed>>

Next ==
  \/ \E id \in Identities, hold \in HoldTimes : Hear(id, hold)
  \/ \E e \in table : Expire(e) \/ Drop(e)
  \/ Close
  \/ Tick

Spec == Init /\ [][Next]_vars

=============================================================================
