------------------------------ MODULE WallClock -----------------------------
(***************************************************************************)
(* What the timer (module/cdp_module.c) makes of the time of day, which    *)
(* may be set back or forward at any moment: when it transmits, and when   *)
(* an entry expires (libcdp/cdp_neighbor.c).  The timer itself is driven   *)
(* by jiffies, which nobody sets.  An event reads the clock and uses it in *)
(* one step here; NeighborList has what comes between.                     *)
(*                                                                         *)
(* For transmitting, the difference of two times is multiplied as a signed *)
(* number and compared as an unsigned one; both wrap at Modulus, which is  *)
(* 2^32 on a machine of 32 bits.  For expiring, it is cut to an int, which *)
(* the kernel lets wrap at IntLimit.                                       *)
(*                                                                         *)
(* The entry is one of a list.  A purge that finds the first of the list   *)
(* expired removes that one and ends; one that does not gets to them all.  *)
(***************************************************************************)
EXTENDS Integers

CONSTANTS
  Interval,  \* seconds between two transmissions, 5 in the code
  Scale,     \* what a second is multiplied by, 1000 in the code
  Modulus,   \* where numbers wrap
  Hold,      \* the hold time of the entry
  IntLimit,  \* beyond the largest int, 2^31
  MaxDelay,  \* bounds the seconds between two timer events
  MaxAhead,  \* bounds the entries in front of the entry
  MaxTime    \* bounds the time of day

ASSUME ClockAssumption ==
  /\ Interval \in Nat \ {0} /\ Scale \in Nat \ {0} /\ Modulus \in Nat
  /\ MaxDelay \in Nat \ {0} /\ MaxAhead \in Nat /\ MaxTime \in Nat
  /\ Modulus >= (Interval + MaxDelay) * Scale
  /\ Hold \in Nat /\ IntLimit \in Nat /\ Hold < IntLimit

Time == 0..MaxTime

VARIABLES
  now,       \* the time of day
  since,     \* how many seconds have passed since the last timer event
  last,      \* last_frame_transmitted
  set,       \* the clock was set since then
  quiet,     \* seconds from then, or from the setting, to the last timer event
  known,     \* the neighbour is in the list
  ahead,     \* how many entries are in front of it
  heard,     \* the time of day of its last frame
  age,       \* how many seconds have passed since then
  forward,   \* by how much the clock was set forward since then
  back,      \* and by how much back
  missed     \* timer events since then, or since a purge got to the entry

sentVars == <<last, set, quiet>>
knownVars == <<known, ahead, heard, age, forward, back, missed>>
clockVars == <<now, since, sentVars, knownVars>>

ClockTypeOK ==
  /\ now \in Time /\ last \in Time /\ heard \in Time
  /\ since \in 0..MaxDelay /\ set \in BOOLEAN /\ quiet \in Nat
  /\ known \in BOOLEAN /\ ahead \in 0..MaxAhead /\ missed \in 0..MaxAhead
  /\ age \in Nat /\ forward \in Nat /\ back \in Nat

\* The module begins with a transmission at the beginning of time.
ClockInit ==
  /\ now \in Time /\ since = 0
  /\ last = 0 /\ set = TRUE /\ quiet = 0
  /\ known = FALSE /\ heard = 0 /\ ahead = 0
  /\ age = 0 /\ forward = 0 /\ back = 0 /\ missed = 0

-----------------------------------------------------------------------------

\* The numbers are compared as signed ones.
MutDue(time) == (time - last) * Scale >= Interval * Scale

Due(time) == ((time - last) * Scale) % Modulus >= Interval * Scale

\* The value of an int.
Wrapped(x) == ((x + IntLimit) % (2 * IntLimit)) - IntLimit

\* A second too late.
MutExpired(time) == Wrapped(time - heard) >= Hold

\* A second too early.
MutExpiredEarly(time) == Wrapped(time - heard + 2) >= Hold

\* cdp_neighbor_is_expired.  The difference and its successor are both ints.
Expired(time) == Wrapped(Wrapped(time - heard) + 1) >= Hold

Forget ==
  /\ known' = FALSE /\ heard' = 0 /\ ahead' = 0
  /\ age' = 0 /\ forward' = 0 /\ back' = 0 /\ missed' = 0

\* The first of the list is another one, and expired: the purge ends with it.
PurgeEndsAhead ==
  /\ known /\ ahead > 0
  /\ ahead' = ahead - 1
  /\ missed' = missed + 1
  /\ UNCHANGED <<known, heard, age, forward, back>>

\* The first stays, or is the entry itself; those between may go.
PurgeGetsThere ==
  /\ known
  /\ IF Expired(now)
       THEN Forget
       ELSE /\ ahead' \in IF ahead = 0 THEN {0} ELSE 1..ahead
            /\ missed' = 0
            /\ UNCHANGED <<known, heard, age, forward, back>>

PurgeOthers == ~known /\ UNCHANGED knownVars

\* The list is purged before the timer transmits.
Transmission ==
  IF Due(now)
    THEN last' = now /\ set' = FALSE /\ quiet' = 0
    ELSE quiet' = quiet + since /\ UNCHANGED <<last, set>>

\* cdp_timer_event_handler.
TimerEvent ==
  /\ PurgeEndsAhead \/ PurgeGetsThere \/ PurgeOthers
  /\ Transmission
  /\ since' = 0
  /\ now' = now

\* A second passes.
SecondPasses ==
  /\ since < MaxDelay /\ now < MaxTime
  /\ since' = since + 1
  /\ now' = now + 1
  /\ age' = IF known THEN age + 1 ELSE 0
  /\ UNCHANGED <<sentVars, known, ahead, heard, forward, back, missed>>

\* cdp_receive, a frame of the neighbour.  A new entry is the last of the list.
Hear ==
  /\ known' = TRUE
  /\ ahead' \in IF known THEN {ahead} ELSE 0..MaxAhead
  /\ heard' = now /\ age' = 0 /\ forward' = 0 /\ back' = 0 /\ missed' = 0
  /\ UNCHANGED <<now, since, sentVars>>

\* Somebody sets the clock.  MaxTime bounds how far, while the entry is known.
SetClock ==
  \E time \in Time :
    /\ now' = time
    /\ set' = TRUE /\ quiet' = 0
    /\ forward' = IF known /\ time > now THEN forward + (time - now) ELSE forward
    /\ back' = IF known /\ time < now THEN back + (now - time) ELSE back
    /\ forward' + back' <= MaxTime
    /\ UNCHANGED <<since, last, known, ahead, heard, age, missed>>

ClockNext == TimerEvent \/ SecondPasses \/ Hear \/ SetClock

ClockSpec == ClockInit /\ [][ClockNext]_clockVars

-----------------------------------------------------------------------------
(* Properties.                                                             *)

\* However the clock was set, and even when the product wraps, the timer is quiet
\* for less than the interval and, if the clock was set since it last transmitted,
\* one more delay: a clock set back may just come to the last transmission again.
NeverSilent == quiet < Interval + (IF set THEN MaxDelay ELSE 0)

\* What an entry may have left of its time: the purges that ended in front of it
\* and the delays since, no more of those than there were entries in front.
Overdue == missed * MaxDelay + since

\* An entry outlives its hold time by as much as the clock was set back and as is
\* overdue, and no longer; with a clock set forward that far that the difference no
\* longer fits an int, for longer.
KeptAtMost ==
  known =>
    /\ missed + ahead <= MaxAhead
    /\ \/ age <= Overdue
       \/ age + 1 < Hold + back + Overdue
       \/ age + forward + 1 >= IntLimit

\* An entry goes before its hold time is nearly over only if the clock was set
\* forward, and no earlier than that accounts for, or was set back that far that
\* the difference no longer fits an int.
GoneNotBefore ==
  [][known /\ ~known' =>
       \/ age + 1 + forward >= Hold
       \/ back > age + 1 + forward + IntLimit]_clockVars
=============================================================================
