----------------------------- MODULE UnitsProofs ----------------------------
(***************************************************************************)
(* Theorems about the parts of Units that ProcContentsProofs leaves, and   *)
(* about all of them together.                                             *)
(*                                                                         *)
(* WallClock, for every interval, hold time and modulus: what is known of  *)
(* the timer whatever is done to the clock.                                *)
(*                                                                         *)
(* ModuleLoad, for names of any length set any number of times: how long   *)
(* the strings are and how much room they have; and that every way out of  *)
(* loading gives back what was obtained, in order.                         *)
(*                                                                         *)
(* Checksum, by which a frame is told that arrived as it was sent: for     *)
(* bytes of any size and frames of any length that two carries are enough  *)
(* for.                                                                    *)
(***************************************************************************)
EXTENDS Units, ProcContentsProofs

-----------------------------------------------------------------------------
(* The timer and the time of day.                                          *)

\* What the last timer event found on the clock since the transmission.
Elapsed == (((now - since) - last) * Scale) % Modulus

\* As long as the clock is not set, the times of the events are what has passed.
\* Once it was set, what an event found was not enough, and all that has passed but
\* for the delay of the first event is in it.
SentAccounted ==
  IF ~set
    THEN now - last = quiet + since
    ELSE quiet # 0 => /\ Elapsed < Interval * Scale
                      /\ (quiet - MaxDelay) * Scale <= Elapsed

\* The time of the entry is its age, and what was done to the clock.
HeardAccounted == known => now - heard = age + forward - back

\* The inductive invariant.
ClockInv ==
  ClockTypeOK /\ SentAccounted /\ NeverSilent /\ HeardAccounted /\ KeptAtMost

-----------------------------------------------------------------------------
(* Arithmetic.                                                             *)

\* A remainder grows with the number as long as it stays below the modulus.
LEMMA RemainderGrows ==
  ASSUME NEW a \in Int, NEW b \in Nat, NEW m \in Nat \ {0},
         (a % m) + b < m
  PROVE  (a + b) % m = (a % m) + b
<1> DEFINE q == a \div m
           r == a % m
<1>1. q \in Int /\ r \in Nat /\ r < m /\ a = m * q + r
  BY SMT
<1>2. a + b = m * q + (r + b) /\ r + b \in Nat /\ r + b < m
  BY <1>1
<1> QED
  BY <1>1, <1>2, SMT

\* Multiplication by the scale keeps the order.
LEMMA ScaledOrder ==
  ASSUME NEW a \in Int, NEW b \in Int, NEW s \in Nat \ {0}, a * s < b * s
  PROVE  a < b
<1> SUFFICES ASSUME b <= a PROVE FALSE
  OBVIOUS
<1>1. a = b + (a - b) /\ a - b \in Nat
  OBVIOUS
<1>2. PICK d \in Nat : a = b + d
  BY <1>1
<1>3. a * s = b * s + d * s /\ d * s >= 0
  BY <1>2, SMT
<1> QED
  BY <1>3

\* The bounds on their own.
LEMMA Bounds ==
  /\ Interval \in Nat /\ Interval > 0 /\ MaxDelay \in Nat /\ MaxDelay > 0
  /\ MaxAhead \in Nat /\ MaxTime \in Nat
  /\ Hold \in Nat /\ IntLimit \in Nat /\ Hold < IntLimit
BY ClockAssumption

\* There is room for two transmissions' worth of quiet below the modulus.
LEMMA ModulusPositive == Modulus \in Nat \ {0}
<1>1. Interval + MaxDelay \in Nat \ {0} /\ Scale \in Nat \ {0}
  BY ClockAssumption
<1>2. (Interval + MaxDelay) * Scale > 0
  BY <1>1, SMT
<1> QED
  BY <1>2, ClockAssumption

\* What is below the modulus is its own remainder.
LEMMA SmallRemainder ==
  ASSUME NEW m \in Nat \ {0}, NEW a \in Nat, a < m
  PROVE  a % m = a
<1>1. a = m * (a \div m) + (a % m) /\ a % m \in 0..(m - 1) /\ a \div m \in Int
  BY SMT
<1> DEFINE q == a \div m
<1>2. q = 0
  <2>1. q >= 1 => m * q >= m
    BY <1>1, SMT
  <2>2. q <= -1 => m * q <= -m
    BY <1>1, SMT
  <2> QED
    BY <1>1, <2>1, <2>2
<1> QED
  BY <1>1, <1>2

\* An int that fits keeps its value.
LEMMA WrappedFits ==
  ASSUME NEW x \in Int, -IntLimit <= x, x < IntLimit
  PROVE  Wrapped(x) = x
<1>1. 2 * IntLimit \in Nat \ {0} /\ x + IntLimit \in Nat /\ x + IntLimit < 2 * IntLimit
  BY ClockAssumption
<1>2. (x + IntLimit) % (2 * IntLimit) = x + IntLimit
  BY <1>1, SmallRemainder
<1> QED
  BY <1>2, ClockAssumption DEF Wrapped

\* The first int that does not fit.
LEMMA WrappedUp ==
  /\ Wrapped(-IntLimit - 1) = IntLimit - 1
  /\ Wrapped(IntLimit) = -IntLimit
<1> DEFINE m == 2 * IntLimit
<1>1. m \in Nat \ {0} /\ IntLimit \in Nat \ {0}
  BY ClockAssumption
<1>2. (-1) % m = m - 1
  <2>1. -1 = m * ((-1) \div m) + ((-1) % m) /\ (-1) % m \in 0..(m - 1)
        /\ (-1) \div m \in Int
    BY <1>1, SMT
  <2> DEFINE q == (-1) \div m
  <2>2. q >= 0 => m * q >= 0
    BY <1>1, <2>1, SMT
  <2>3. q <= -2 => m * q <= -(m + m)
    BY <1>1, <2>1, SMT
  <2>4. q = -1
    BY <1>1, <2>1, <2>2, <2>3
  <2> QED
    BY <1>1, <2>1, <2>4
<1>3. m % m = 0
  <2>1. m = m * (m \div m) + (m % m) /\ m % m \in 0..(m - 1) /\ m \div m \in Int
    BY <1>1, SMT
  <2> DEFINE q == m \div m
  <2>2. q <= 0 => m * q <= 0
    BY <1>1, <2>1, SMT
  <2>3. q >= 2 => m * q >= m + m
    BY <1>1, <2>1, SMT
  <2>4. q = 1
    BY <1>1, <2>1, <2>2, <2>3
  <2> QED
    BY <1>1, <2>1, <2>4
<1>4. (-IntLimit - 1) + IntLimit = -1 /\ IntLimit + IntLimit = m
  BY <1>1
<1>5. Wrapped(-IntLimit - 1) = (m - 1) - IntLimit /\ Wrapped(IntLimit) = 0 - IntLimit
  BY <1>2, <1>3, <1>4 DEF Wrapped
<1> QED
  BY <1>1, <1>5

\* What an entry that is expired, or is not, says of its time.
LEMMA ExpiredMeans ==
  ASSUME NEW time \in Int, heard \in Int
  PROVE  /\ Expired(time) => \/ time - heard + 1 >= Hold
                             \/ time - heard + 1 < -IntLimit
         /\ ~Expired(time) => \/ time - heard + 1 < Hold
                              \/ time - heard + 1 >= IntLimit
<1> DEFINE x == time - heard
<1>1. x \in Int /\ Hold \in Nat /\ IntLimit \in Nat /\ Hold < IntLimit
  BY ClockAssumption
<1>2. ASSUME -IntLimit <= x + 1, x + 1 < IntLimit
      PROVE  Wrapped(Wrapped(x) + 1) = x + 1
  <2>1. CASE -IntLimit <= x
    BY <1>1, <1>2, <2>1, WrappedFits
  <2>2. CASE x < -IntLimit
    <3>1. x = -IntLimit - 1
      BY <1>1, <1>2, <2>2
    <3>2. Wrapped(x) + 1 = IntLimit
      BY <1>1, <3>1, WrappedUp
    <3> QED
      BY <1>1, <3>1, <3>2, WrappedUp
  <2> QED
    BY <1>1, <2>1, <2>2
<1>3. Expired(time) <=> Wrapped(Wrapped(x) + 1) >= Hold
  BY DEF Expired
<1> HIDE DEF x
<1>4. /\ Expired(time) => x + 1 >= Hold \/ x + 1 < -IntLimit
      /\ ~Expired(time) => x + 1 < Hold \/ x + 1 >= IntLimit
  BY <1>1, <1>2, <1>3
<1> QED
  BY <1>4 DEF x

\* One more quiet event after the clock was set.
LEMMA QuietStep ==
  ASSUME ClockTypeOK, SentAccounted, set, ~Due(now)
  PROVE  LET later == ((now - last) * Scale) % Modulus
         IN  later < Interval * Scale /\ ((quiet + since) - MaxDelay) * Scale <= later
<1> DEFINE later == ((now - last) * Scale) % Modulus
           d == ((now - since) - last) * Scale
<1> USE ClockAssumption, ModulusPositive
<1>1. /\ now \in Int /\ last \in Int /\ quiet \in Nat /\ since \in Nat
      /\ since <= MaxDelay
  BY DEF ClockTypeOK, Time
<1>2. d \in Int /\ since * Scale \in Nat /\ (now - last) * Scale = d + since * Scale
  BY <1>1, SMT
<1>3. later \in Nat /\ later < Interval * Scale
  BY <1>1, <1>2, SMT DEF Due
<1>4. CASE quiet = 0
  <2>1. (since - MaxDelay) * Scale <= 0
    BY <1>1, SMT
  <2>2. (quiet + since) - MaxDelay = since - MaxDelay
    BY <1>1, <1>4
  <2>3. (since - MaxDelay) * Scale \in Int
    BY <1>1, SMT
  <2> QED
    BY <1>3, <2>1, <2>2, <2>3
<1>5. CASE quiet # 0
  <2>1. Elapsed = d % Modulus /\ Elapsed < Interval * Scale
        /\ (quiet - MaxDelay) * Scale <= Elapsed
    BY <1>5 DEF SentAccounted, Elapsed
  <2>2. since * Scale <= MaxDelay * Scale
    BY <1>1, SMT
  <2>3. (Interval + MaxDelay) * Scale = Interval * Scale + MaxDelay * Scale
    BY SMT
  <2>4. Elapsed \in Nat /\ Elapsed + since * Scale < Modulus
    BY <1>2, <2>1, <2>2, <2>3, SMT
  <2>5. later = Elapsed + since * Scale
    <3>1. (d + since * Scale) % Modulus = (d % Modulus) + since * Scale
      BY <1>2, <2>1, <2>4, RemainderGrows
    <3> QED
      BY <1>2, <2>1, <3>1
  <2>6. ((quiet + since) - MaxDelay) * Scale = (quiet - MaxDelay) * Scale + since * Scale
    BY <1>1, SMT
  <2>7. (quiet - MaxDelay) * Scale \in Int
    BY <1>1, SMT
  <2> QED
    BY <1>2, <1>3, <2>1, <2>4, <2>5, <2>6, <2>7
<1> QED
  BY <1>4, <1>5

\* As long as the clock is not set, the product does not come to the modulus.
LEMMA QuietUnset ==
  ASSUME ClockTypeOK, SentAccounted, NeverSilent, ~set, ~Due(now)
  PROVE  quiet + since < Interval
<1> USE ClockAssumption, ModulusPositive
<1>1. /\ quiet \in Nat /\ since \in Nat /\ since <= MaxDelay /\ quiet < Interval
      /\ now - last = quiet + since
  BY DEF ClockTypeOK, SentAccounted, NeverSilent
<1> DEFINE p == (quiet + since) * Scale
<1>2. p \in Nat /\ p < Modulus
  <2>1. quiet + since < Interval + MaxDelay /\ quiet + since \in Nat
    BY <1>1
  <2>2. p \in Nat /\ p < (Interval + MaxDelay) * Scale
    BY <2>1, SMT
  <2> QED
    BY <2>2, SMT
<1>3. p % Modulus = p
  BY <1>2, SmallRemainder
<1>4. p < Interval * Scale
  BY <1>1, <1>2, <1>3, SMT DEF Due
<1> QED
  BY <1>1, <1>4, ScaledOrder

\* What is below a sum is below a larger one.
LEMMA KeptLonger ==
  ASSUME NEW a \in Nat, NEW h \in Nat, NEW b \in Nat, NEW c \in Nat,
         NEW o \in Nat, NEW p \in Nat, c >= b, p >= o, a + 1 < h + b + o
  PROVE  a + 1 < h + c + p
OBVIOUS

\* The time of an entry when the clock is set from n to t.
LEMMA SetAccounts ==
  ASSUME NEW n \in Int, NEW h \in Int, NEW t \in Int, NEW a \in Int,
         NEW f \in Int, NEW b \in Int, NEW g \in Int, NEW c \in Int,
         n - h = a + f - b, g - c = (f - b) + (t - n)
  PROVE  t - h = a + g - c
OBVIOUS

\* Those in front when a purge has passed them, and when none was missed.
LEMMA FewerAhead ==
  ASSUME NEW m \in Nat, NEW a \in 0..m, NEW k \in IF a = 0 THEN {0} ELSE 1..a
  PROVE  k \in 0..m
OBVIOUS

LEMMA NoneMissed ==
  ASSUME NEW m \in Nat, NEW a \in 0..m, NEW z \in Nat, z = 0
  PROVE  z + a <= m /\ z \in 0..m
OBVIOUS

-----------------------------------------------------------------------------
(* The invariant.                                                          *)

LEMMA ClockInvInit == ClockInit => ClockInv
<1> SUFFICES ASSUME ClockInit PROVE ClockInv
  OBVIOUS
<1>1. set \in BOOLEAN /\ known \in BOOLEAN
  BY Zenon DEF ClockInit
<1>2. /\ now \in Time /\ last \in Time /\ heard \in Time /\ since \in 0..MaxDelay
      /\ quiet \in Nat /\ ahead \in 0..MaxAhead /\ missed \in 0..MaxAhead
      /\ age \in Nat /\ forward \in Nat /\ back \in Nat
  BY ClockAssumption DEF ClockInit, Time
<1>3. SentAccounted /\ HeardAccounted /\ KeptAtMost
  BY DEF ClockInit, SentAccounted, HeardAccounted, KeptAtMost
<1>4. NeverSilent
  <2>1. set /\ quiet = 0
    BY DEF ClockInit
  <2>2. 0 < Interval + MaxDelay
    BY ClockAssumption
  <2> QED
    BY <2>1, <2>2 DEF NeverSilent
<1> QED
  BY <1>1, <1>2, <1>3, <1>4 DEF ClockInv, ClockTypeOK

LEMMA TransmissionKeeps ==
  ASSUME ClockInv, Transmission, since' = 0, now' = now
  PROVE  /\ last' \in Time /\ set' \in BOOLEAN /\ quiet' \in Nat
         /\ SentAccounted' /\ NeverSilent'
<1> USE ClockAssumption
<1>1. ClockTypeOK /\ SentAccounted /\ NeverSilent
  BY DEF ClockInv
<1>2. last' \in Time /\ set' \in BOOLEAN /\ quiet' \in Nat
  <2>1. last' \in Time
    BY <1>1 DEF ClockTypeOK, Transmission
  <2>2. set' \in BOOLEAN
    BY <1>1, Zenon DEF ClockTypeOK, Transmission
  <2>3. quiet \in Nat /\ since \in Nat
    BY <1>1 DEF ClockTypeOK
  <2>4. quiet' \in Nat
    BY <2>3 DEF Transmission
  <2> QED
    BY <2>1, <2>2, <2>4
<1>3. CASE Due(now)
  <2>1. last' = now /\ ~set' /\ quiet' = 0
    BY <1>3 DEF Transmission
  <2>2. now \in Int
    BY <1>1 DEF ClockTypeOK, Time
  <2>3. now' - last' = quiet' + since'
    BY <2>1, <2>2
  <2>4. SentAccounted'
    BY <2>1, <2>3 DEF SentAccounted
  <2>5. NeverSilent'
    BY <2>1 DEF NeverSilent
  <2> QED
    BY <1>2, <2>4, <2>5
<1>4. CASE ~Due(now)
  <2>1. quiet' = quiet + since /\ last' = last /\ set' = set
    BY <1>4 DEF Transmission
  <2>2. quiet \in Nat /\ since \in Nat /\ now \in Int /\ last \in Int
    BY <1>1 DEF ClockTypeOK, Time
  <2>3. CASE ~set
    <3>1. quiet + since < Interval
      BY <1>1, <1>4, <2>3, QuietUnset
    <3>2. now - last = quiet + since
      BY <1>1, <2>3 DEF SentAccounted
    <3> QED
      BY <1>2, <2>1, <2>2, <2>3, <3>1, <3>2 DEF SentAccounted, NeverSilent
  <2>4. CASE set
    <3>1. (now' - since') - last' = now - last
      BY <2>1, <2>2
    <3>2. Elapsed' = ((now - last) * Scale) % Modulus
      BY <3>1 DEF Elapsed
    <3>3. Elapsed' < Interval * Scale /\ (quiet' - MaxDelay) * Scale <= Elapsed'
      BY <1>1, <1>4, <2>1, <2>4, <3>2, QuietStep
    <3>4. (quiet' - MaxDelay) * Scale < Interval * Scale
      <4>1. Elapsed' \in Int
        BY <2>2, <3>2, ModulusPositive, SMT
      <4>2. (quiet' - MaxDelay) * Scale \in Int /\ Interval * Scale \in Int
        BY <1>2, SMT
      <4> QED
        BY <3>3, <4>1, <4>2
    <3>5. quiet' - MaxDelay < Interval
      <4>1. quiet' \in Nat
        BY <2>1, <2>2
      <4>2. quiet' - MaxDelay \in Int /\ Interval \in Int /\ Scale \in Nat \ {0}
        BY <4>1
      <4> QED
        BY <3>4, <4>2, ScaledOrder
    <3> QED
      BY <1>2, <2>1, <2>4, <3>3, <3>5 DEF SentAccounted, NeverSilent
  <2> QED
    BY <2>3, <2>4
<1> QED
  BY <1>2, <1>3, <1>4

\* A purge that does not get to the entry leaves it overdue by one more delay.
LEMMA PurgeKeeps ==
  ASSUME ClockInv, PurgeEndsAhead \/ PurgeGetsThere \/ PurgeOthers,
         since' = 0, now' = now
  PROVE  /\ heard' \in Time /\ known' \in BOOLEAN /\ ahead' \in 0..MaxAhead
         /\ missed' \in 0..MaxAhead
         /\ age' \in Nat /\ forward' \in Nat /\ back' \in Nat
         /\ HeardAccounted' /\ KeptAtMost'
<1> USE Bounds
<1>1. ClockTypeOK /\ HeardAccounted /\ KeptAtMost
  BY DEF ClockInv
<1>2. CASE PurgeEndsAhead
  <2>1. /\ missed + ahead <= MaxAhead
        /\ age <= Overdue \/ age + 1 < Hold + back + Overdue \/ age + forward + 1 >= IntLimit
    BY <1>1, <1>2 DEF PurgeEndsAhead, KeptAtMost
  <2>2. Overdue <= Overdue' /\ Overdue \in Nat /\ Overdue' \in Nat
    <3>1. /\ missed \in Nat /\ since \in Nat /\ since <= MaxDelay
          /\ missed' = missed + 1
      BY <1>1, <1>2 DEF PurgeEndsAhead, ClockTypeOK
    <3>2. (missed + 1) * MaxDelay = missed * MaxDelay + MaxDelay
          /\ missed * MaxDelay \in Nat
      BY <3>1, SMT
    <3> QED
      BY <3>1, <3>2 DEF Overdue
  <2>3. /\ known /\ known' = known /\ heard' = heard /\ age' = age /\ forward' = forward
        /\ back' = back /\ ahead' = ahead - 1 /\ missed' = missed + 1 /\ ahead > 0
    BY <1>2 DEF PurgeEndsAhead
  <2>4. /\ heard \in Time /\ ahead \in 0..MaxAhead /\ missed \in 0..MaxAhead
        /\ age \in Nat /\ forward \in Nat /\ back \in Nat /\ known \in BOOLEAN
    BY <1>1 DEF ClockTypeOK
  <2>5. missed' + ahead' <= MaxAhead /\ missed' \in 0..MaxAhead /\ ahead' \in 0..MaxAhead
    BY <2>1, <2>3, <2>4
  <2>6. \/ age' <= Overdue' \/ age' + 1 < Hold + back' + Overdue'
        \/ age' + forward' + 1 >= IntLimit
    <3>1. /\ age' = age /\ forward' = forward /\ back' = back
          /\ age \in Nat /\ forward \in Nat /\ back \in Nat
      BY <2>3, <2>4
    <3>2. age + 1 < Hold + back + Overdue => age + 1 < Hold + back + Overdue'
      <4> HIDE DEF Overdue
      <4>1. back >= back /\ Hold \in Nat
        BY <3>1
      <4> QED
        BY <2>2, <3>1, <4>1, KeptLonger
    <3>3. age <= Overdue => age <= Overdue'
      BY <2>2, <3>1
    <3> QED
      BY <2>1, <3>1, <3>2, <3>3
  <2>7. HeardAccounted'
    BY <1>1, <2>3 DEF HeardAccounted
  <2> QED
    BY <2>3, <2>4, <2>5, <2>6, <2>7 DEF KeptAtMost
<1>3. CASE PurgeGetsThere /\ Expired(now)
  <2>1. /\ known' = FALSE /\ heard' = 0 /\ ahead' = 0
        /\ age' = 0 /\ forward' = 0 /\ back' = 0 /\ missed' = 0
    BY <1>3 DEF PurgeGetsThere, Forget
  <2>2. HeardAccounted' /\ KeptAtMost' /\ known' \in BOOLEAN
    BY <2>1, Zenon DEF HeardAccounted, KeptAtMost
  <2>3. heard' \in Time /\ ahead' \in 0..MaxAhead /\ missed' \in 0..MaxAhead
    BY <2>1 DEF Time
  <2> QED
    BY <2>1, <2>2, <2>3
<1>4. CASE PurgeGetsThere /\ ~Expired(now)
  <2>1. /\ known /\ known' = known /\ heard' = heard /\ age' = age /\ forward' = forward
        /\ back' = back /\ ahead' \in (IF ahead = 0 THEN {0} ELSE 1..ahead) /\ missed' = 0
    BY <1>4 DEF PurgeGetsThere
  <2>2. /\ heard \in Time /\ ahead \in 0..MaxAhead /\ missed \in 0..MaxAhead
        /\ age \in Nat /\ forward \in Nat /\ back \in Nat /\ known \in BOOLEAN
        /\ now \in Int /\ heard \in Int
    BY <1>1 DEF ClockTypeOK, Time
  <2>3. ahead' \in 0..MaxAhead /\ missed' + ahead' <= MaxAhead /\ missed' \in 0..MaxAhead
    <3>1. ahead' \in (IF ahead = 0 THEN {0} ELSE 1..ahead) /\ missed' = 0
      BY <2>1
    <3>2. ahead' \in 0..MaxAhead
      BY <2>2, <3>1, FewerAhead
    <3>3. missed' \in Nat
      BY <3>1
    <3> QED
      BY <3>1, <3>2, <3>3, NoneMissed
  <2>4. now - heard = age + forward - back
    BY <1>1, <2>1 DEF HeardAccounted
  <2>5. now - heard + 1 < Hold \/ now - heard + 1 >= IntLimit
    BY <1>4, <2>2, ExpiredMeans
  <2>6. age + 1 < Hold + back \/ age + forward + 1 >= IntLimit
    BY <2>2, <2>4, <2>5
  <2>7. Overdue' = 0
    BY <2>1 DEF Overdue
  <2>8. \/ age' + 1 < Hold + back' + Overdue' \/ age' + forward' + 1 >= IntLimit
    BY <2>1, <2>2, <2>6, <2>7
  <2>9. HeardAccounted'
    BY <2>1, <2>4 DEF HeardAccounted
  <2> QED
    BY <2>1, <2>2, <2>3, <2>8, <2>9 DEF KeptAtMost
<1>5. CASE PurgeOthers
  BY <1>1, <1>5 DEF PurgeOthers, knownVars, ClockTypeOK, HeardAccounted, KeptAtMost
<1> QED
  BY <1>2, <1>3, <1>4, <1>5

LEMMA TimerEventKeeps ==
  ASSUME ClockInv, TimerEvent
  PROVE  ClockInv'
<1>1. since' = 0 /\ now' = now /\ Transmission
  BY DEF TimerEvent
<1>2. /\ last' \in Time /\ set' \in BOOLEAN /\ quiet' \in Nat
      /\ SentAccounted' /\ NeverSilent'
  BY <1>1, TransmissionKeeps
<1>3. /\ heard' \in Time /\ known' \in BOOLEAN /\ ahead' \in 0..MaxAhead
      /\ missed' \in 0..MaxAhead
      /\ age' \in Nat /\ forward' \in Nat /\ back' \in Nat
      /\ HeardAccounted' /\ KeptAtMost'
  BY <1>1, PurgeKeeps DEF TimerEvent
<1>4. now' \in Time /\ since' \in 0..MaxDelay
  BY <1>1, Bounds DEF ClockInv, ClockTypeOK
<1> QED
  BY <1>2, <1>3, <1>4 DEF ClockInv, ClockTypeOK

LEMMA SecondPassesKeeps ==
  ASSUME ClockInv, SecondPasses
  PROVE  ClockInv'
<1> USE Bounds
<1>1. ClockTypeOK /\ SentAccounted /\ NeverSilent /\ HeardAccounted /\ KeptAtMost
  BY DEF ClockInv
<1>2. /\ since < MaxDelay /\ now < MaxTime /\ since' = since + 1 /\ now' = now + 1
      /\ age' = (IF known THEN age + 1 ELSE 0)
      /\ last' = last /\ set' = set /\ quiet' = quiet
      /\ known' = known /\ ahead' = ahead /\ heard' = heard /\ forward' = forward
      /\ back' = back /\ missed' = missed
  BY DEF SecondPasses, sentVars
<1>3. ClockTypeOK'
  BY <1>1, <1>2 DEF ClockTypeOK, Time
<1>4. /\ now \in Int /\ since \in Nat /\ last \in Int /\ heard \in Int /\ quiet \in Nat
      /\ age \in Nat /\ forward \in Nat /\ back \in Nat /\ missed \in Nat
  BY <1>1 DEF ClockTypeOK, Time
<1>5. SentAccounted' /\ NeverSilent'
  <2>1. now' - since' = now - since
    BY <1>2, <1>4
  <2>2. Elapsed' = Elapsed
    BY <1>2, <2>1 DEF Elapsed
  <2>3. now - last = quiet + since => now' - last' = quiet' + since'
    BY <1>2, <1>4
  <2> QED
    BY <1>1, <1>2, <2>2, <2>3 DEF SentAccounted, NeverSilent
<1>6. HeardAccounted'
  BY <1>1, <1>2, <1>4 DEF HeardAccounted
<1>7. KeptAtMost'
  <2> SUFFICES ASSUME known PROVE KeptAtMost'
    BY <1>2 DEF KeptAtMost
  <2>1. Overdue \in Nat /\ Overdue' = Overdue + 1
    <3>1. missed * MaxDelay \in Nat
      BY <1>4, SMT
    <3> QED
      BY <1>2, <1>4, <3>1 DEF Overdue
  <2>2. age' = age + 1
    BY <1>2
  <2> HIDE DEF Overdue
  <2> QED
    BY <1>1, <1>2, <1>4, <2>1, <2>2 DEF KeptAtMost
<1> QED
  BY <1>3, <1>5, <1>6, <1>7 DEF ClockInv

LEMMA HearKeeps ==
  ASSUME ClockInv, Hear
  PROVE  ClockInv'
<1> USE Bounds
<1>1. /\ now' = now /\ since' = since /\ last' = last /\ set' = set /\ quiet' = quiet
      /\ known' = TRUE /\ heard' = now /\ age' = 0 /\ forward' = 0 /\ back' = 0
      /\ missed' = 0 /\ ahead' \in (IF known THEN {ahead} ELSE 0..MaxAhead)
  BY DEF Hear, sentVars
<1>2. ClockTypeOK' /\ ahead' \in 0..MaxAhead
  BY <1>1 DEF ClockInv, ClockTypeOK
<1>3. HeardAccounted'
  BY <1>1 DEF ClockInv, ClockTypeOK, HeardAccounted, Time
<1>4. SentAccounted' /\ NeverSilent'
  BY <1>1 DEF ClockInv, SentAccounted, NeverSilent, Elapsed
<1>5. KeptAtMost'
  <2>1. since \in Nat
    BY DEF ClockInv, ClockTypeOK
  <2>2. missed' * MaxDelay = 0 /\ since' = since
    BY <1>1
  <2>3. age' <= Overdue'
    BY <1>1, <2>1, <2>2 DEF Overdue
  <2>4. missed' + ahead' <= MaxAhead
    <3>1. missed' \in Nat /\ missed' = 0
      BY <1>1
    <3> QED
      BY <1>2, <3>1, NoneMissed
  <2> QED
    BY <2>3, <2>4 DEF KeptAtMost
<1> QED
  BY <1>2, <1>3, <1>4, <1>5 DEF ClockInv

LEMMA SetClockKeeps ==
  ASSUME ClockInv, SetClock
  PROVE  ClockInv'
<1> USE Bounds
<1>1. PICK time \in Time :
        /\ now' = time /\ set' = TRUE /\ quiet' = 0
        /\ forward' = IF known /\ time > now THEN forward + (time - now) ELSE forward
        /\ back' = IF known /\ time < now THEN back + (now - time) ELSE back
        /\ since' = since /\ last' = last /\ known' = known /\ ahead' = ahead
        /\ heard' = heard /\ age' = age /\ missed' = missed
  BY DEF SetClock
<1>2. /\ now \in Nat /\ age \in Nat /\ forward \in Nat /\ back \in Nat
      /\ heard \in Nat /\ time \in Nat /\ missed \in Nat /\ since \in Nat
  BY <1>1 DEF ClockInv, ClockTypeOK, Time
<1>3. /\ forward' \in Nat /\ back' \in Nat /\ back' >= back /\ forward' >= forward
      /\ known => forward' - back' = (forward - back) + (time - now)
  BY <1>1, <1>2
<1>4. ClockTypeOK'
  BY <1>1, <1>3 DEF ClockInv, ClockTypeOK
<1>5. HeardAccounted'
  <2> SUFFICES ASSUME known PROVE HeardAccounted'
    BY <1>1 DEF HeardAccounted
  <2>1. now - heard = age + forward - back
    BY DEF ClockInv, HeardAccounted
  <2>2. time - heard = age + forward' - back'
    <3>1. forward' \in Nat /\ back' \in Nat
      BY <1>3
    <3>2. forward' - back' = (forward - back) + (time - now)
      BY <1>3
    <3>3. /\ now \in Int /\ heard \in Int /\ time \in Int /\ age \in Int /\ forward \in Int
          /\ back \in Int /\ forward' \in Int /\ back' \in Int
      BY <1>2, <3>1
    <3> DEFINE g == forward'
               b == back'
    <3>4. /\ g \in Int /\ b \in Int /\ now \in Int /\ heard \in Int /\ time \in Int
          /\ age \in Int /\ forward \in Int /\ back \in Int
      BY <3>3
    <3>5. g - b = (forward - back) + (time - now)
      BY <3>2
    <3> HIDE DEF g, b
    <3>6. time - heard = age + g - b
      BY <2>1, <3>4, <3>5, SetAccounts
    <3> QED
      BY <3>6 DEF g, b
  <2> QED
    BY <1>1, <2>2 DEF HeardAccounted
<1>6. KeptAtMost'
  <2>1. Overdue' = Overdue /\ Overdue \in Nat
    <3>1. missed * MaxDelay \in Nat
      BY <1>2, SMT
    <3> QED
      BY <1>1, <1>2, <3>1 DEF Overdue
  <2> HIDE DEF Overdue
  <2> QED
    BY <1>1, <1>2, <1>3, <2>1 DEF ClockInv, KeptAtMost
<1>7. SentAccounted' /\ NeverSilent'
  BY <1>1 DEF SentAccounted, NeverSilent
<1> QED
  BY <1>4, <1>5, <1>6, <1>7 DEF ClockInv

LEMMA StutterKeepsClock ==
  ASSUME ClockInv, UNCHANGED clockVars
  PROVE  ClockInv'
  BY DEF ClockInv, clockVars, sentVars, knownVars, ClockTypeOK, SentAccounted,
         NeverSilent, HeardAccounted, KeptAtMost, Overdue, Elapsed

LEMMA ClockInvStep == ClockInv /\ [ClockNext]_clockVars => ClockInv'
  BY TimerEventKeeps, SecondPassesKeeps, HearKeeps, SetClockKeeps, StutterKeepsClock
  DEF ClockNext

LEMMA ClockInvHolds == ClockSpec => []ClockInv
  BY ClockInvInit, ClockInvStep, PTL DEF ClockSpec

-----------------------------------------------------------------------------
(* What is known of every behaviour.                                       *)

\* What the invariant gives.
LEMMA ClockCorrect == ClockSpec => [](NeverSilent /\ KeptAtMost)
<1>1. ClockInv => NeverSilent /\ KeptAtMost
  BY DEF ClockInv
<1> QED
  BY <1>1, ClockInvHolds, PTL

\* Whatever the clock is set to, and wherever the product wraps, the timer goes on
\* transmitting (cdp_timer_event_handler).
THEOREM TimerTransmits == ClockSpec => []NeverSilent
BY ClockCorrect, PTL

\* An entry outlives its hold time by no more than the clock was set back and the
\* purges that ended in front of it account for, with a clock set forward so far
\* that an int does not hold it left out; and no more purges end in front of an
\* entry than entries were there (cdp_neighbor_is_expired,
\* cdp_neighbor_list_purge_expired_neighbors).
THEOREM EntriesGo == ClockSpec => []KeptAtMost
BY ClockCorrect, PTL

\* An entry goes early only by as much as the clock was set forward, or when it was
\* set back so far that an int does not hold it (cdp_neighbor_is_expired).
THEOREM EntriesStayTheirTime ==
  ClockSpec => GoneNotBefore
<1>1. ClockInv /\ [ClockNext]_clockVars
        => [known /\ ~known' =>
              \/ age + 1 + forward >= Hold
              \/ back > age + 1 + forward + IntLimit]_clockVars
  <2> SUFFICES ASSUME ClockInv, ClockNext, known, ~known'
               PROVE  \/ age + 1 + forward >= Hold
                      \/ back > age + 1 + forward + IntLimit
    OBVIOUS
  <2>1. Expired(now)
    BY DEF ClockNext, TimerEvent, PurgeEndsAhead, PurgeGetsThere, PurgeOthers,
           SecondPasses, Hear, SetClock, knownVars
  <2>2. /\ now \in Int /\ heard \in Int /\ age \in Nat /\ forward \in Nat
        /\ back \in Nat /\ Hold \in Nat /\ IntLimit \in Nat
    BY ClockAssumption DEF ClockInv, ClockTypeOK, Time
  <2>3. now - heard = age + forward - back
    BY DEF ClockInv, HeardAccounted
  <2>4. now - heard + 1 >= Hold \/ now - heard + 1 < -IntLimit
    BY <2>1, <2>2, ExpiredMeans
  <2> QED
    BY <2>2, <2>3, <2>4
<1> QED
  BY <1>1, ClockInvHolds, PTL DEF ClockSpec, GoneNotBefore

-----------------------------------------------------------------------------
(* The strings.                                                            *)

\* What is still to be written, at every step, fits in the room and what the
\* names grew by since they were measured.
RoomAccounted ==
  /\ making = "measured" => node + domain + 1 <= deviceUsed + grown
  /\ making = "allocated" => node + domain + 2 <= deviceRoom + grown
  /\ making = "node" => deviceUsed + domain + 1 <= deviceRoom + grown
  /\ making = "dot" => deviceUsed + domain <= deviceRoom + grown
  /\ making = "both" => deviceUsed <= deviceRoom + grown

\* What is written, at every step, is the names that nobody has set.
NamesWhole ==
  settings = 0 =>
    /\ making = "node" => deviceUsed = node + 1
    /\ making = "dot" => domain # 0 /\ deviceUsed = node + 2

\* The inductive invariant: the type of the strings, with the rooms that are known.
StringsInv ==
  /\ StringsTypeOK
  /\ making \in {"allocated", "node", "dot", "both"} => deviceRoom \in Nat
  /\ VersionWhole /\ RoomAccounted
  /\ NamesWhole /\ DeviceWhole

-----------------------------------------------------------------------------

LEMMA StringsInvInit == StringsInit => StringsInv
  BY StringsAssumption
     DEF StringsInit, StringsInv, StringsTypeOK, Lengths, VersionWhole,
         RoomAccounted, NamesWhole, DeviceWhole

\* The buffer of the version string is never too small.
LEMMA NeverCut ==
  ASSUME StringsTypeOK
  PROVE  Formatted \in Nat /\ Kept = Formatted
  BY StringsAssumption DEF StringsTypeOK, Lengths, Formatted, Kept, WorkBuffer

LEMMA MakeVersionKeeps ==
  ASSUME StringsInv, MakeVersion \/ MakeVersionFails
  PROVE  StringsInv'
<1>1. CASE MakeVersion
  <2>1. Formatted \in Nat /\ Kept = Formatted
    BY NeverCut DEF StringsInv
  <2>2. /\ versionRoom' \in Nat /\ versionUsed' = versionRoom'
        /\ making' = "device" /\ UNCHANGED <<uts, deviceVars>>
    BY <1>1, <2>1 DEF MakeVersion
  <2> QED
    BY <2>2
       DEF StringsInv, StringsTypeOK, Lengths, VersionWhole, RoomAccounted, uts,
           deviceVars, NamesWhole, DeviceWhole
<1>2. CASE MakeVersionFails
  BY <1>2
     DEF MakeVersionFails, StringsInv, StringsTypeOK, Lengths, VersionWhole,
         RoomAccounted, uts, versionVars, deviceVars, NamesWhole, DeviceWhole
<1> QED
  BY <1>1, <1>2

LEMMA MeasureKeeps ==
  ASSUME StringsInv, MeasureDevice
  PROVE  StringsInv'
<1>1. /\ node \in Nat /\ domain \in Nat /\ making' = "measured" /\ grown' = 0
      /\ node' = node /\ domain' = domain
  BY StringsAssumption
     DEF StringsInv, StringsTypeOK, Lengths, MeasureDevice, uts
<1>2. deviceUsed' \in Nat /\ node + domain + 1 <= deviceUsed'
  BY <1>1 DEF MeasureDevice, Measured
<1> QED
  BY <1>1, <1>2
     DEF MeasureDevice, StringsInv, StringsTypeOK, Lengths, VersionWhole,
         RoomAccounted, uts, versionVars, NamesWhole, DeviceWhole

LEMMA DeviceKeeps ==
  ASSUME StringsInv,
         AllocateDevice \/ AllocateDeviceFails \/ CopyNode \/ AppendDot
           \/ AppendDomain
  PROVE  StringsInv'
<1> USE StringsAssumption DEF StringsInv, StringsTypeOK, Lengths, VersionWhole,
        RoomAccounted, uts, versionVars, NamesWhole, DeviceWhole
<1>1. CASE AllocateDevice
  BY <1>1 DEF AllocateDevice
<1>2. CASE AllocateDeviceFails
  BY <1>2 DEF AllocateDeviceFails
<1>3. CASE CopyNode
  BY <1>3 DEF CopyNode
<1>4. CASE AppendDot
  BY <1>4 DEF AppendDot
<1>5. CASE AppendDomain
  BY <1>5 DEF AppendDomain
<1> QED
  BY <1>1, <1>2, <1>3, <1>4, <1>5

\* What fits goes on fitting when it grows by no more than the room does.
LEMMA MoreRoom ==
  ASSUME NEW a \in Nat, NEW b \in Nat, NEW c \in Nat, NEW d \in Nat,
         NEW r \in Nat, NEW g \in Nat, NEW h \in Nat, NEW k \in Nat
  PROVE  /\ c + d + g <= a + b + h /\ a + b + k <= r + g => c + d + k <= r + h
         /\ d + g <= b + h /\ a + b + k <= r + g => a + d + k <= r + h
         /\ d + g <= b + h /\ a + b <= r + g => a + d <= r + h
         /\ g <= h /\ a <= r + g => a <= r + h
  OBVIOUS

LEMMA SetNamesKeeps ==
  ASSUME StringsInv, SetNames
  PROVE  StringsInv'
<1>1. PICK length \in Lengths :
        \/ /\ node' = length /\ domain' = domain
           /\ grown' = grown + Growth(node, length)
        \/ /\ domain' = length /\ node' = node
           /\ grown' = grown + Growth(domain, length)
  BY DEF SetNames
<1>2. /\ node \in Nat /\ domain \in Nat /\ grown \in Nat /\ length \in Nat
      /\ deviceUsed \in Nat
  BY StringsAssumption DEF StringsInv, StringsTypeOK, Lengths
<1>3. /\ node' \in Lengths /\ domain' \in Lengths /\ grown' \in Nat
      /\ node' + domain' + grown <= node + domain + grown'
      /\ domain' + grown <= domain + grown' /\ grown <= grown'
  BY <1>1, <1>2 DEF Growth, StringsInv, StringsTypeOK
<1>4. /\ settings' \in 0..MaxSettings
      /\ UNCHANGED <<version, release, making, versionVars, deviceRoom, deviceUsed>>
  BY StringsAssumption DEF SetNames, StringsInv, StringsTypeOK
<1>5. StringsTypeOK' /\ VersionWhole'
      /\ (making' \in {"allocated", "node", "dot", "both"} => deviceRoom' \in Nat)
  BY <1>3, <1>4 DEF StringsInv, StringsTypeOK, VersionWhole, versionVars
<1>6. RoomAccounted'
  <2>1. making' = making /\ deviceRoom' = deviceRoom /\ deviceUsed' = deviceUsed
    BY <1>4
  <2>2. node' \in Nat /\ domain' \in Nat
    BY <1>1, <1>2
  <2>3. CASE making = "measured"
    <3>1. node + domain + 1 <= deviceUsed + grown
      BY <2>3 DEF StringsInv, RoomAccounted
    <3>2. node' + domain' + 1 <= deviceUsed + grown'
      <4> DEFINE n == node'
                 d == domain'
                 g == grown'
      <4>1. n \in Nat /\ d \in Nat /\ g \in Nat /\ n + d + grown <= node + domain + g
        BY <1>3, <2>2
      <4> HIDE DEF n, d, g
      <4>2. n + d + 1 <= deviceUsed + g
        BY <1>2, <3>1, <4>1, MoreRoom
      <4> QED
        BY <4>2 DEF n, d, g
    <3> QED
      BY <2>1, <2>3, <3>2 DEF RoomAccounted
  <2>4. CASE making \in {"allocated", "node", "dot", "both"}
    <3>1. deviceRoom \in Nat
      BY <2>4 DEF StringsInv
    <3>2. /\ making = "allocated" => node + domain + 2 <= deviceRoom + grown
          /\ making = "node" => deviceUsed + domain + 1 <= deviceRoom + grown
          /\ making = "dot" => deviceUsed + domain <= deviceRoom + grown
          /\ making = "both" => deviceUsed <= deviceRoom + grown
      BY DEF StringsInv, RoomAccounted
    <3>3. /\ making = "allocated" => node' + domain' + 2 <= deviceRoom + grown'
          /\ making = "node" => deviceUsed + domain' + 1 <= deviceRoom + grown'
          /\ making = "dot" => deviceUsed + domain' <= deviceRoom + grown'
          /\ making = "both" => deviceUsed <= deviceRoom + grown'
      <4> DEFINE n == node'
                 d == domain'
                 g == grown'
      <4>1. /\ n \in Nat /\ d \in Nat /\ g \in Nat
            /\ n + d + grown <= node + domain + g
            /\ d + grown <= domain + g /\ grown <= g
        BY <1>3, <2>2
      <4> HIDE DEF n, d, g
      <4>2. making = "allocated" => n + d + 2 <= deviceRoom + g
        BY <1>2, <3>1, <3>2, <4>1, MoreRoom
      <4>3. making = "node" => deviceUsed + d + 1 <= deviceRoom + g
        BY <1>2, <3>1, <3>2, <4>1, MoreRoom
      <4>4. making = "dot" => deviceUsed + d <= deviceRoom + g
        BY <1>2, <3>1, <3>2, <4>1, MoreRoom
      <4>5. making = "both" => deviceUsed <= deviceRoom + g
        BY <1>2, <3>1, <3>2, <4>1, MoreRoom
      <4> QED
        BY <4>2, <4>3, <4>4, <4>5 DEF n, d, g
    <3> QED
      BY <2>1, <2>4, <3>3 DEF RoomAccounted
  <2> QED
    BY <2>1, <2>3, <2>4 DEF RoomAccounted
<1>7. NamesWhole' /\ DeviceWhole'
  <2>1. settings' # 0
    BY StringsAssumption DEF SetNames, StringsInv, StringsTypeOK
  <2> QED
    BY <2>1 DEF NamesWhole, DeviceWhole
<1> QED
  BY <1>5, <1>6, <1>7 DEF StringsInv

LEMMA StringsInvStep == StringsInv /\ [LoadNext]_moduleVars => StringsInv'
<1> SUFFICES ASSUME StringsInv, [LoadNext]_moduleVars PROVE StringsInv'
  OBVIOUS
<1>1. CASE UNCHANGED stringVars
  BY <1>1
     DEF stringVars, uts, versionVars, deviceVars, StringsInv, StringsTypeOK,
         VersionWhole, RoomAccounted, NamesWhole, DeviceWhole
<1>2. CASE LoadVersion
  BY <1>2, MakeVersionKeeps DEF LoadVersion
<1>3. CASE LoadDevice
  BY <1>3, MeasureKeeps, DeviceKeeps DEF LoadDevice
<1>4. CASE NamesChange
  BY <1>4, SetNamesKeeps DEF NamesChange
<1> QED
  BY <1>1, <1>2, <1>3, <1>4
     DEF LoadNext, LoadList, LoadProc, LoadTimer, LoadSnap, Unload, GiveNext,
         moduleVars

-----------------------------------------------------------------------------
(* What is known of every behaviour.                                       *)

\* The version string is never cut, the device id never outgrows its room by
\* more than the names grew while it was made, and it is whole if nobody set them
\* (generate_cdp_software_version_string, generate_cdp_device_id_string).
THEOREM StringsFit == LoadSpec => []StringsHold
<1>1. LoadInit => StringsInv
  BY StringsInvInit DEF LoadInit
<1>2. StringsInv => StringsHold
  <2> SUFFICES ASSUME StringsInv
               PROVE  StringsHold
    OBVIOUS
  <2>1. /\ deviceUsed \in Nat /\ domain \in Nat /\ grown \in Nat
        /\ making \in {"node", "dot", "both"} => deviceRoom \in Nat
    BY StringsAssumption DEF StringsInv, StringsTypeOK, Lengths
  <2> QED
    BY <2>1 DEF StringsInv, RoomAccounted, OutgrownOnlyByNames, StringsHold
<1> QED
  BY <1>1, <1>2, StringsInvStep, PTL DEF LoadSpec

-----------------------------------------------------------------------------
(* What is held: loading obtains one thing after another, and every way    *)
(* out of it gives back what was obtained, users before what they use.     *)

LoadStages ==
  {"version", "device", "list", "cdp", "summary", "detail", "json", "timer",
   "snap", "loaded"}

\* The place of a stage, and of the thing it obtains.
Place(s) ==
  CASE s = "version" -> 0 [] s = "device" -> 1 [] s = "list" -> 2
    [] s = "cdp" -> 3 [] s = "summary" -> 4 [] s = "detail" -> 5
    [] s = "json" -> 6 [] s = "timer" -> 7 [] s = "snap" -> 8
    [] OTHER -> 9

In(thing, seq) == \E k \in 1..Len(seq) : seq[k] = thing

\* What is held at a phase: all that the stages before it obtained, or what is
\* still to be given back.
Has(thing) ==
  \/ phase \in LoadStages /\ Place(thing) < Place(phase)
  \/ /\ phase = "device" /\ thing = "device"
     /\ making \in {"allocated", "node", "dot"}
  \/ phase = "giving" /\ In(thing, giving)

\* What a thing uses.
Uses(thing) ==
  IF thing \in {"summary", "detail", "json"} THEN {"list", "cdp"}
  ELSE IF thing = "timer" THEN {"list", "version", "device"}
  ELSE IF thing = "snap" THEN {"list"}
  ELSE {}

\* Nothing is given back twice, nor before those who use it.
Orderly(seq) ==
  /\ \A j, k \in 1..Len(seq) : seq[j] = seq[k] => j = k
  /\ \A j \in 1..Len(seq) : \A needed \in Uses(seq[j]) :
       \E k \in (j + 1)..Len(seq) : seq[k] = needed

\* The inductive invariant.
HeldInv ==
  /\ phase \in LoadStages \union {"giving", "gone"}
  /\ held \in [Things -> {0, 1}]
  /\ \A thing \in Things : held[thing] = 1 <=> Has(thing)
  /\ giving \in Seq(Things)
  /\ phase = "giving" => Orderly(giving)

LEMMA ProcIs ==
  /\ DOMAIN Proc = {1, 2, 3, 4} /\ Len(Proc) = 4
  /\ Proc[1] = "cdp" /\ Proc[2] = "summary"
  /\ Proc[3] = "detail" /\ Proc[4] = "json"
  BY DEF Proc

LEMMA ThingsAre ==
  Things = {"version", "device", "list", "timer", "snap", "cdp", "summary",
            "detail", "json"}
<1>1. {Proc[nth] : nth \in DOMAIN Proc} = {"cdp", "summary", "detail", "json"}
  BY ProcIs
<1> QED
  BY <1>1 DEF Things

\* The files, the list and the strings, of a cdp_proc_init that made n of Proc.
LEMMA ProcWay ==
  ASSUME NEW n \in 0..4
  PROVE  LET seq == ProcBackwards(n) \o ListAndStrings
         IN  /\ seq \in Seq(Things) /\ Len(seq) = n + 3
             /\ \A k \in 1..n : seq[k] = Proc[n + 1 - k]
             /\ seq[n + 1] = "list" /\ seq[n + 2] = "version"
             /\ seq[n + 3] = "device"
<1>1. \A k \in 1..n : n + 1 - k \in {1, 2, 3, 4}
  OBVIOUS
<1>2. \A k \in 1..n : Proc[n + 1 - k] \in Things
  BY <1>1, ProcIs, ThingsAre
<1>3. ProcBackwards(n) \in Seq(Things) /\ Len(ProcBackwards(n)) = n
  BY <1>2, SMT DEF ProcBackwards
<1>4. \A k \in 1..n : ProcBackwards(n)[k] = Proc[n + 1 - k]
  BY DEF ProcBackwards
<1>5. /\ ListAndStrings \in Seq(Things) /\ Len(ListAndStrings) = 3
      /\ ListAndStrings[1] = "list" /\ ListAndStrings[2] = "version"
      /\ ListAndStrings[3] = "device"
  BY ThingsAre DEF ListAndStrings
<1> DEFINE seq == ProcBackwards(n) \o ListAndStrings
<1>6. /\ seq \in Seq(Things) /\ Len(seq) = n + 3
      /\ \A k \in 1..(n + 3) :
           seq[k] = IF k <= n THEN ProcBackwards(n)[k] ELSE ListAndStrings[k - n]
  <2> DEFINE a == ProcBackwards(n)
             b == ListAndStrings
  <2>1. a \in Seq(Things) /\ b \in Seq(Things) /\ Len(a) = n /\ Len(b) = 3
    BY <1>3, <1>5
  <2> HIDE DEF a, b
  <2>2. /\ a \o b \in Seq(Things) /\ Len(a \o b) = Len(a) + Len(b)
        /\ \A nth \in 1..(Len(a) + Len(b)) :
             (a \o b)[nth] = IF nth <= Len(a) THEN a[nth] ELSE b[nth - Len(a)]
    BY <2>1, ConcatProperties
  <2> QED
    BY <2>1, <2>2 DEF a, b
<1>7. seq[n + 1] = "list" /\ seq[n + 2] = "version" /\ seq[n + 3] = "device"
  BY <1>5, <1>6
<1>8. \A k \in 1..n : seq[k] = Proc[n + 1 - k]
  BY <1>4, <1>6
<1> QED
  BY <1>6, <1>7, <1>8

LEMMA PlacesAre ==
  /\ \A thing \in Things : Place(thing) \in 0..8
  /\ \A s, t \in Things : Place(s) = Place(t) => s = t
  /\ \A k \in 1..4 : Place(Proc[k]) = k + 2
<1>1. \A k \in 1..4 : Place(Proc[k]) = k + 2
  BY ProcIs DEF Place
<1>2. /\ Place("version") = 0 /\ Place("device") = 1 /\ Place("list") = 2
      /\ Place("cdp") = 3 /\ Place("summary") = 4 /\ Place("detail") = 5
      /\ Place("json") = 6 /\ Place("timer") = 7 /\ Place("snap") = 8
  BY DEF Place
<1> QED
  BY <1>1, <1>2, ThingsAre

\* What each of them uses comes after it.
LEMMA ProcWayOrderly ==
  ASSUME NEW n \in 0..4
  PROVE  LET seq == ProcBackwards(n) \o ListAndStrings
         IN  /\ Orderly(seq)
             /\ \A thing \in Things : In(thing, seq) <=> Place(thing) < n + 3
<1> DEFINE seq == ProcBackwards(n) \o ListAndStrings
<1>1. /\ seq \in Seq(Things) /\ Len(seq) = n + 3
      /\ \A k \in 1..n : seq[k] = Proc[n + 1 - k]
      /\ seq[n + 1] = "list" /\ seq[n + 2] = "version" /\ seq[n + 3] = "device"
  BY ProcWay
<1> HIDE DEF seq
<1>2. \A k \in 1..(n + 3) : seq[k] \in Things
  BY <1>1
<1>3. \A k \in 1..n : Place(seq[k]) = n + 3 - k
  BY <1>1, PlacesAre
<1>4. Place(seq[n + 1]) = 2 /\ Place(seq[n + 2]) = 0 /\ Place(seq[n + 3]) = 1
  BY <1>1 DEF Place
<1>5. \A j, k \in 1..(n + 3) : seq[j] = seq[k] => j = k
  <2> SUFFICES ASSUME NEW j \in 1..(n + 3), NEW k \in 1..(n + 3),
                      Place(seq[j]) = Place(seq[k])
               PROVE  j = k
    OBVIOUS
  <2>1. \A m \in 1..(n + 3) : m \in 1..n \/ m = n + 1 \/ m = n + 2 \/ m = n + 3
    OBVIOUS
  <2> QED
    BY <1>3, <1>4, <2>1
<1>6. \A thing \in Things : In(thing, seq) <=> Place(thing) < n + 3
  <2> TAKE thing \in Things
  <2>1. ASSUME NEW k \in 1..(n + 3) PROVE Place(seq[k]) < n + 3
    <3>1. k \in 1..n \/ k = n + 1 \/ k = n + 2 \/ k = n + 3
      OBVIOUS
    <3> QED
      BY <1>3, <1>4, <3>1
  <2>2. ASSUME Place(thing) < n + 3
        PROVE  \E k \in 1..(n + 3) : Place(seq[k]) = Place(thing)
    <3>1. Place(thing) \in 0..8
      BY PlacesAre
    <3>2. CASE Place(thing) \in {0, 1, 2}
      BY <1>4, <3>2
    <3>3. CASE Place(thing) > 2
      <4>1. n + 3 - Place(thing) \in 1..n
        BY <2>2, <3>1, <3>3
      <4> QED
        BY <1>3, <3>1, <4>1
    <3> QED
      BY <3>1, <3>2, <3>3
  <2> QED
    BY <1>1, <1>2, <2>1, <2>2, PlacesAre DEF In
<1>7. ASSUME NEW j \in 1..(n + 3), NEW needed \in Uses(seq[j])
      PROVE  \E k \in (j + 1)..(n + 3) : seq[k] = needed
  <2>1. seq[j] \in {"summary", "detail", "json"} /\ needed \in {"list", "cdp"}
    <3>1. j \in 1..n \/ seq[j] \in {"list", "version", "device"}
      BY <1>1
    <3>2. seq[j] \in {"list", "version", "device", "cdp", "summary", "detail", "json"}
      <4>1. ASSUME j \in 1..n PROVE seq[j] \in {"cdp", "summary", "detail", "json"}
        <5>1. n + 1 - j \in {1, 2, 3, 4}
          BY <4>1
        <5> QED
          BY <1>1, <4>1, <5>1, ProcIs
      <4> QED
        BY <3>1, <4>1
    <3> QED
      BY <3>2 DEF Uses
  <2>2. Place(seq[j]) > 3
    BY <2>1 DEF Place
  <2>3. j \in 1..n /\ j < n
    <3>1. j \in 1..n \/ j = n + 1 \/ j = n + 2 \/ j = n + 3
      OBVIOUS
    <3> QED
      BY <1>3, <1>4, <2>2, <3>1
  <2>4. seq[n] = "cdp"
    BY <1>1, <2>3, ProcIs
  <2> QED
    BY <1>1, <2>1, <2>3, <2>4
<1>8. Orderly(seq)
  BY <1>1, <1>5, <1>7 DEF Orderly
<1> QED
  BY <1>6, <1>8 DEF seq

LEMMA AllProc ==
  /\ ProcBackwards(4) \in Seq(Things) /\ Len(ProcBackwards(4)) = 4
  /\ ProcBackwards(4)[1] = "json" /\ ProcBackwards(4)[2] = "detail"
  /\ ProcBackwards(4)[3] = "summary" /\ ProcBackwards(4)[4] = "cdp"
<1>1. \A k \in 1..4 : 4 + 1 - k \in {1, 2, 3, 4}
  OBVIOUS
<1>2. \A k \in 1..4 : Proc[4 + 1 - k] \in Things
  BY <1>1, ProcIs, ThingsAre
<1>3. ProcBackwards(4) \in Seq(Things) /\ Len(ProcBackwards(4)) = 4
  BY <1>2, SMT DEF ProcBackwards
<1>4. \A k \in 1..4 : ProcBackwards(4)[k] = Proc[4 + 1 - k]
  BY DEF ProcBackwards
<1>5. /\ ProcBackwards(4)[1] = Proc[4] /\ ProcBackwards(4)[2] = Proc[3]
      /\ ProcBackwards(4)[3] = Proc[2] /\ ProcBackwards(4)[4] = Proc[1]
  BY <1>4
<1> QED
  BY <1>3, <1>5, ProcIs

\* Three sequences, one after the other.
LEMMA ThreeParts ==
  ASSUME NEW a \in Seq(Things), NEW b \in Seq(Things), NEW c \in Seq(Things)
  PROVE  /\ (a \o b) \o c \in Seq(Things)
         /\ Len((a \o b) \o c) = Len(a) + Len(b) + Len(c)
         /\ \A k \in 1..Len(a) : ((a \o b) \o c)[k] = a[k]
         /\ \A k \in 1..Len(b) : ((a \o b) \o c)[Len(a) + k] = b[k]
         /\ \A k \in 1..Len(c) : ((a \o b) \o c)[Len(a) + Len(b) + k] = c[k]
<1>1. Len(a) \in Nat /\ Len(b) \in Nat /\ Len(c) \in Nat
  OBVIOUS
<1> DEFINE d == a \o b
<1>2. /\ d \in Seq(Things) /\ Len(d) = Len(a) + Len(b)
      /\ \A k \in 1..(Len(a) + Len(b)) :
           d[k] = IF k <= Len(a) THEN a[k] ELSE b[k - Len(a)]
  BY ConcatProperties
<1> HIDE DEF d
<1> DEFINE seq == d \o c
<1>3. /\ d \o c \in Seq(Things) /\ Len(d \o c) = Len(d) + Len(c)
      /\ \A k \in 1..(Len(d) + Len(c)) :
           (d \o c)[k] = IF k <= Len(d) THEN d[k] ELSE c[k - Len(d)]
  <2>1. d \in Seq(Things)
    BY <1>2
  <2> QED
    BY <2>1, ConcatProperties
<1>4. /\ seq \in Seq(Things) /\ Len(seq) = Len(d) + Len(c)
      /\ \A k \in 1..(Len(d) + Len(c)) :
           seq[k] = IF k <= Len(d) THEN d[k] ELSE c[k - Len(d)]
  BY <1>3
<1> HIDE DEF seq
<1>5. \A k \in 1..Len(a) : seq[k] = a[k]
  BY <1>1, <1>2, <1>4
<1>6. \A k \in 1..Len(b) : seq[Len(a) + k] = b[k]
  <2> TAKE k \in 1..Len(b)
  <2>1. /\ Len(a) + k \in 1..(Len(a) + Len(b)) /\ ~(Len(a) + k <= Len(a))
        /\ (Len(a) + k) - Len(a) = k
        /\ Len(a) + k \in 1..(Len(d) + Len(c)) /\ Len(a) + k <= Len(d)
    BY <1>1, <1>2
  <2> QED
    BY <1>2, <1>4, <2>1
<1>7. \A k \in 1..Len(c) : seq[Len(a) + Len(b) + k] = c[k]
  <2> TAKE k \in 1..Len(c)
  <2>1. /\ Len(a) + Len(b) + k \in 1..(Len(d) + Len(c))
        /\ ~(Len(a) + Len(b) + k <= Len(d))
        /\ (Len(a) + Len(b) + k) - Len(d) = k
    BY <1>1, <1>2
  <2> QED
    BY <1>4, <2>1
<1>8. Len(seq) = Len(a) + Len(b) + Len(c)
  BY <1>1, <1>2, <1>4
<1> QED
  BY <1>4, <1>5, <1>6, <1>7, <1>8 DEF seq, d

LEMMA TimerWayOrderly ==
  LET seq == <<"timer">> \o ProcBackwards(4) \o ListAndStrings
  IN  /\ seq \in Seq(Things) /\ Orderly(seq)
      /\ \A thing \in Things : In(thing, seq) <=> Place(thing) < 8
<1> DEFINE seq == <<"timer">> \o ProcBackwards(4) \o ListAndStrings
<1>1. /\ <<"timer">> \in Seq(Things) /\ Len(<<"timer">>) = 1
      /\ <<"timer">>[1] = "timer"
  BY ThingsAre
<1>2. /\ ListAndStrings \in Seq(Things) /\ Len(ListAndStrings) = 3
      /\ ListAndStrings[1] = "list" /\ ListAndStrings[2] = "version"
      /\ ListAndStrings[3] = "device"
  BY ThingsAre DEF ListAndStrings
<1>3. /\ seq \in Seq(Things) /\ Len(seq) = 8
      /\ seq[1] = "timer" /\ seq[2] = "json" /\ seq[3] = "detail"
      /\ seq[4] = "summary" /\ seq[5] = "cdp" /\ seq[6] = "list"
      /\ seq[7] = "version" /\ seq[8] = "device"
  <2> DEFINE a == <<"timer">>
             b == ProcBackwards(4)
             c == ListAndStrings
  <2>1. /\ a \in Seq(Things) /\ b \in Seq(Things) /\ c \in Seq(Things)
        /\ Len(a) = 1 /\ Len(b) = 4 /\ Len(c) = 3 /\ a[1] = "timer"
        /\ b[1] = "json" /\ b[2] = "detail" /\ b[3] = "summary" /\ b[4] = "cdp"
        /\ c[1] = "list" /\ c[2] = "version" /\ c[3] = "device"
    BY <1>1, <1>2, AllProc
  <2>2. seq = (a \o b) \o c
    OBVIOUS
  <2> HIDE DEF a, b, c, seq
  <2>3. /\ (a \o b) \o c \in Seq(Things)
        /\ Len((a \o b) \o c) = Len(a) + Len(b) + Len(c)
        /\ \A k \in 1..Len(a) : ((a \o b) \o c)[k] = a[k]
        /\ \A k \in 1..Len(b) : ((a \o b) \o c)[Len(a) + k] = b[k]
        /\ \A k \in 1..Len(c) : ((a \o b) \o c)[Len(a) + Len(b) + k] = c[k]
    BY <2>1, ThreeParts, Zenon
  <2> QED
    BY <2>1, <2>2, <2>3
<1> HIDE DEF seq
<1>4. \A j, k \in 1..8 : seq[j] = seq[k] => j = k
  BY <1>3
<1>5. \A j \in 1..8 : \A needed \in Uses(seq[j]) : \E k \in (j + 1)..8 : seq[k] = needed
  BY <1>3 DEF Uses
<1>6. \A thing \in Things : In(thing, seq) <=> Place(thing) < 8
  BY <1>3, ThingsAre DEF In, Place
<1>7. Orderly(seq)
  BY <1>3, <1>4, <1>5 DEF Orderly
<1> QED
  BY <1>3, <1>6, <1>7 DEF seq

LEMMA UnloadingOrderly ==
  /\ Unloading \in Seq(Things) /\ Orderly(Unloading)
  /\ \A thing \in Things : In(thing, Unloading)
<1>1. /\ Unloading \in Seq(Things) /\ Len(Unloading) = 9
      /\ Unloading[1] = "timer" /\ Unloading[2] = "snap" /\ Unloading[3] = "json"
      /\ Unloading[4] = "detail" /\ Unloading[5] = "summary"
      /\ Unloading[6] = "cdp" /\ Unloading[7] = "list"
      /\ Unloading[8] = "device" /\ Unloading[9] = "version"
  <2> DEFINE a == <<"timer", "snap">>
             b == ProcBackwards(4)
             c == <<"list", "device", "version">>
  <2>1. /\ a \in Seq(Things) /\ c \in Seq(Things) /\ Len(a) = 2 /\ Len(c) = 3
        /\ a[1] = "timer" /\ a[2] = "snap"
        /\ c[1] = "list" /\ c[2] = "device" /\ c[3] = "version"
    BY ThingsAre
  <2>2. /\ b \in Seq(Things) /\ Len(b) = 4
        /\ b[1] = "json" /\ b[2] = "detail" /\ b[3] = "summary" /\ b[4] = "cdp"
    BY AllProc
  <2>3. Unloading = (a \o b) \o c
    BY DEF Unloading
  <2> HIDE DEF a, b, c
  <2>4. /\ (a \o b) \o c \in Seq(Things)
        /\ Len((a \o b) \o c) = Len(a) + Len(b) + Len(c)
        /\ \A k \in 1..Len(a) : ((a \o b) \o c)[k] = a[k]
        /\ \A k \in 1..Len(b) : ((a \o b) \o c)[Len(a) + k] = b[k]
        /\ \A k \in 1..Len(c) : ((a \o b) \o c)[Len(a) + Len(b) + k] = c[k]
    <3>1. a \in Seq(Things) /\ b \in Seq(Things) /\ c \in Seq(Things)
      BY <2>1, <2>2
    <3> QED
      BY <3>1, ThreeParts, Zenon
  <2>5. /\ Unloading \in Seq(Things) /\ Len(Unloading) = 9
        /\ Unloading[1] = a[1] /\ Unloading[2] = a[2]
    BY <2>1, <2>2, <2>3, <2>4
  <2>6. /\ Unloading[3] = b[1] /\ Unloading[4] = b[2]
        /\ Unloading[5] = b[3] /\ Unloading[6] = b[4]
    <3>1. \A k \in 1..4 : Unloading[2 + k] = b[k]
      BY <2>1, <2>2, <2>3, <2>4
    <3>2. /\ Unloading[2 + 1] = b[1] /\ Unloading[2 + 2] = b[2]
          /\ Unloading[2 + 3] = b[3] /\ Unloading[2 + 4] = b[4]
      BY <3>1
    <3> QED
      BY <3>2
  <2>7. /\ Unloading[7] = c[1] /\ Unloading[8] = c[2] /\ Unloading[9] = c[3]
    <3>1. \A k \in 1..3 : Unloading[2 + 4 + k] = c[k]
      BY <2>1, <2>2, <2>3, <2>4
    <3>2. /\ Unloading[2 + 4 + 1] = c[1] /\ Unloading[2 + 4 + 2] = c[2]
          /\ Unloading[2 + 4 + 3] = c[3]
      BY <3>1
    <3> QED
      BY <3>2
  <2> QED
    BY <2>1, <2>2, <2>5, <2>6, <2>7
<1>2. \A j, k \in 1..9 : Unloading[j] = Unloading[k] => j = k
  BY <1>1
<1>3. \A j \in 1..9 : \A needed \in Uses(Unloading[j]) :
        \E k \in (j + 1)..9 : Unloading[k] = needed
  BY <1>1 DEF Uses
<1>4. \A thing \in Things : In(thing, Unloading)
  BY <1>1, ThingsAre DEF In
<1> QED
  BY <1>1, <1>2, <1>3, <1>4 DEF Orderly

-----------------------------------------------------------------------------
(* Every step keeps it.                                                    *)

LEMMA StagePlaces ==
  /\ Place("version") = 0 /\ Place("device") = 1 /\ Place("list") = 2
  /\ Place("cdp") = 3 /\ Place("summary") = 4 /\ Place("detail") = 5
  /\ Place("json") = 6 /\ Place("timer") = 7 /\ Place("snap") = 8
  /\ Place("loaded") = 9
  BY DEF Place

\* The thing of a stage is obtained, and loading goes on to the next stage.
LEMMA ObtainKeeps ==
  ASSUME HeldInv, NEW thing \in Things, phase = thing, thing # "device",
         Obtain(thing), phase' \in LoadStages, Place(phase') = Place(phase) + 1,
         phase' = "device" => making' = "device", giving' \in Seq(Things)
  PROVE  HeldInv'
<1>1. /\ held \in [Things -> {0, 1}]
      /\ \A other \in Things : held[other] = 1 <=> Place(other) < Place(thing)
  <2>1. phase \in LoadStages /\ phase # "giving" /\ phase # "device"
    BY ThingsAre DEF LoadStages
  <2> QED
    BY <2>1 DEF HeldInv, Has
<1>2. Place(thing) \in 0..8 /\ \A other \in Things : Place(other) \in 0..8
  BY PlacesAre
<1>3. held[thing] = 0
  BY <1>1, <1>2
<1>4. held' = [held EXCEPT ![thing] = 1]
  BY <1>1, <1>3 DEF Obtain
<1>5. \A other \in Things : held'[other] = 1 <=> Place(other) < Place(phase')
  <2>1. \A other \in Things : Place(other) = Place(thing) => other = thing
    BY PlacesAre
  <2>2. \A other \in Things :
          held'[other] = 1 <=> other = thing \/ Place(other) < Place(thing)
    BY <1>1, <1>4
  <2>3. \A other \in Things :
          Place(other) < Place(phase')
            <=> Place(other) = Place(thing) \/ Place(other) < Place(thing)
    BY <1>2
  <2> QED
    BY <2>1, <2>2, <2>3
<1>6. \A other \in Things : Has(other)' <=> Place(other) < Place(phase')
  <2>1. phase' # "giving"
    BY DEF LoadStages
  <2> QED
    BY <2>1 DEF Has
<1>7. held' \in [Things -> {0, 1}]
  BY <1>1, <1>4
<1>8. phase' # "giving"
  BY DEF LoadStages
<1> QED
  BY <1>5, <1>6, <1>7, <1>8 DEF HeldInv

\* A way out gives back what is held, no more and no less.
LEMMA GiveBackKeeps ==
  ASSUME HeldInv, NEW things \in Seq(Things), Orderly(things),
         \A thing \in Things : In(thing, things) <=> Has(thing),
         GiveBack(things)
  PROVE  HeldInv'
<1>1. phase' = "giving" /\ giving' = things /\ held' = held
  BY DEF GiveBack
<1>2. \A thing \in Things : Has(thing)' <=> In(thing, things)
  BY <1>1 DEF Has, LoadStages, In
<1>3. Orderly(giving)'
  BY <1>1 DEF Orderly, Uses
<1> QED
  BY <1>1, <1>2, <1>3 DEF HeldInv

LEMMA HeadAndTail ==
  ASSUME NEW seq \in Seq(Things), seq # <<>>, Orderly(seq)
  PROVE  /\ Head(seq) \in Things /\ Tail(seq) \in Seq(Things)
         /\ Orderly(Tail(seq)) /\ ~In(Head(seq), Tail(seq))
         /\ \A thing \in Things :
              In(thing, seq) <=> thing = Head(seq) \/ In(thing, Tail(seq))
<1>1. /\ Len(seq) \in Nat /\ Len(seq) >= 1
      /\ Head(seq) = seq[1] /\ Head(seq) \in Things
      /\ Tail(seq) \in Seq(Things) /\ Len(Tail(seq)) = Len(seq) - 1
      /\ \A k \in 1..(Len(seq) - 1) : Tail(seq)[k] = seq[k + 1]
  BY HeadTailProperties
<1> DEFINE n == Len(seq)
           t == Tail(seq)
<1>2. /\ n \in Nat /\ n >= 1 /\ Len(t) = n - 1
      /\ \A k \in 1..(n - 1) : t[k] = seq[k + 1]
  BY <1>1
<1>3. /\ \A j, k \in 1..n : seq[j] = seq[k] => j = k
      /\ \A j \in 1..n : \A needed \in Uses(seq[j]) :
           \E k \in (j + 1)..n : seq[k] = needed
  BY DEF Orderly
<1> HIDE DEF n, t
<1>4. \A j, k \in 1..(n - 1) : t[j] = t[k] => j = k
  <2> TAKE j, k \in 1..(n - 1)
  <2>1. j + 1 \in 1..n /\ k + 1 \in 1..n /\ (j + 1 = k + 1 => j = k)
    BY <1>2
  <2> QED
    BY <1>2, <1>3, <2>1
<1>5. ASSUME NEW j \in 1..(n - 1), NEW needed \in Uses(t[j])
      PROVE  \E k \in (j + 1)..(n - 1) : t[k] = needed
  <2>1. j + 1 \in 1..n /\ needed \in Uses(seq[j + 1])
    BY <1>2, <1>5
  <2>2. PICK m \in ((j + 1) + 1)..n : seq[m] = needed
    BY <1>3, <2>1
  <2>3. m - 1 \in (j + 1)..(n - 1) /\ m - 1 \in 1..(n - 1) /\ (m - 1) + 1 = m
    BY <1>2, <2>2
  <2> QED
    BY <1>2, <2>2, <2>3
<1>6. ASSUME NEW thing
      PROVE  In(thing, seq) <=> thing = seq[1] \/ In(thing, t)
  <2>1. ASSUME NEW k \in 1..n PROVE k = 1 \/ (k - 1 \in 1..(n - 1) /\ (k - 1) + 1 = k)
    BY <1>2
  <2>2. ASSUME NEW k \in 1..(n - 1) PROVE k + 1 \in 1..n
    BY <1>2
  <2>3. 1 \in 1..n
    BY <1>2
  <2>4. In(thing, seq) <=> \E k \in 1..n : seq[k] = thing
    BY DEF In, n
  <2>5. In(thing, t) <=> \E k \in 1..(n - 1) : t[k] = thing
    BY <1>2 DEF In
  <2>6. ASSUME NEW k \in 1..n, seq[k] = thing
        PROVE  thing = seq[1] \/ \E nth \in 1..(n - 1) : t[nth] = thing
    BY <1>2, <2>1, <2>6
  <2>7. ASSUME NEW k \in 1..(n - 1), t[k] = thing
        PROVE  \E nth \in 1..n : seq[nth] = thing
    BY <1>2, <2>2, <2>7
  <2> QED
    BY <2>3, <2>4, <2>5, <2>6, <2>7
<1>7. ~In(seq[1], t)
  <2> SUFFICES ASSUME NEW k \in 1..(n - 1), t[k] = seq[1]
               PROVE  FALSE
    BY <1>2 DEF In
  <2>1. k + 1 \in 1..n /\ 1 \in 1..n /\ k + 1 # 1
    BY <1>2
  <2> QED
    BY <1>2, <1>3, <2>1
<1>8. Orderly(t)
  BY <1>2, <1>4, <1>5 DEF Orderly
<1> QED
  BY <1>1, <1>6, <1>7, <1>8 DEF t

LEMMA GiveNextKeeps == ASSUME HeldInv, GiveNext PROVE HeldInv'
<1>1. /\ phase = "giving" /\ giving \in Seq(Things) /\ Orderly(giving)
      /\ held \in [Things -> {0, 1}]
      /\ \A thing \in Things : held[thing] = 1 <=> In(thing, giving)
  BY DEF HeldInv, GiveNext, Has, LoadStages
<1>2. CASE giving = <<>>
  <2>1. phase' = "gone" /\ held' = held /\ giving' = giving
    BY <1>2 DEF GiveNext
  <2>2. \A thing \in Things : ~In(thing, giving)
    BY <1>2 DEF In
  <2>3. \A thing : ~Has(thing)'
    BY <2>1 DEF Has, LoadStages
  <2> QED
    BY <1>1, <2>1, <2>2, <2>3 DEF HeldInv
<1>3. CASE giving # <<>>
  <2>1. /\ held' = [held EXCEPT ![Head(giving)] = @ - 1]
        /\ giving' = Tail(giving) /\ phase' = "giving"
    BY <1>1, <1>3 DEF GiveNext
  <2>2. /\ Head(giving) \in Things /\ Tail(giving) \in Seq(Things)
        /\ Orderly(Tail(giving)) /\ ~In(Head(giving), Tail(giving))
        /\ \A thing \in Things :
             In(thing, giving) <=> thing = Head(giving) \/ In(thing, Tail(giving))
    BY <1>1, <1>3, HeadAndTail
  <2>3. held' = [held EXCEPT ![Head(giving)] = 0]
    <3>1. held[Head(giving)] = 1
      BY <1>1, <2>2
    <3>2. held[Head(giving)] - 1 = 0
      BY <3>1
    <3> QED
      BY <2>1, <3>2
  <2>4. /\ held' \in [Things -> {0, 1}]
        /\ \A thing \in Things : held'[thing] = 1 <=> In(thing, Tail(giving))
    <3>1. held' \in [Things -> {0, 1}]
      BY <1>1, <2>3
    <3>2. \A thing \in Things :
            held'[thing] = IF thing = Head(giving) THEN 0 ELSE held[thing]
      BY <1>1, <2>3
    <3> QED
      BY <1>1, <2>2, <3>1, <3>2
  <2>5. \A thing : Has(thing)' <=> In(thing, Tail(giving))
    BY <2>1 DEF Has, LoadStages, In
  <2>6. Orderly(giving)'
    BY <2>1, <2>2 DEF Orderly, Uses
  <2> QED
    BY <2>1, <2>2, <2>4, <2>5, <2>6 DEF HeldInv
<1> QED
  BY <1>2, <1>3

LEMMA HeldInvInit == LoadInit => HeldInv
<1> SUFFICES ASSUME LoadInit PROVE HeldInv
  OBVIOUS
<1>1. phase = "version" /\ giving = <<>> /\ held = [thing \in Things |-> 0]
  BY DEF LoadInit
<1>2. \A thing \in Things : ~Has(thing)
  BY <1>1, PlacesAre, StagePlaces DEF Has
<1> QED
  BY <1>1, <1>2 DEF HeldInv, LoadStages

\* What is held depends on no name, and on how far the device id is only while it
\* is made.
LEMMA HasStays ==
  ASSUME HeldInv, UNCHANGED loadVars,
         phase = "device" => (making' \in {"allocated", "node", "dot"}
                               <=> making \in {"allocated", "node", "dot"})
  PROVE  HeldInv'
<1>1. phase' = phase /\ held' = held /\ giving' = giving
  BY DEF loadVars
<1>2. \A thing : Has(thing)' <=> Has(thing)
  BY <1>1 DEF Has, In
<1>3. Orderly(giving)' <=> Orderly(giving)
  BY <1>1 DEF Orderly, Uses
<1> QED
  BY <1>1, <1>2, <1>3 DEF HeldInv

LEMMA Short ==
  /\ <<>> \in Seq(Things) /\ Orderly(<<>>)
  /\ <<"version">> \in Seq(Things) /\ Orderly(<<"version">>)
  /\ <<"version", "device">> \in Seq(Things) /\ Orderly(<<"version", "device">>)
  /\ \A thing : /\ ~In(thing, <<>>)
                /\ In(thing, <<"version">>) <=> thing = "version"
                /\ In(thing, <<"version", "device">>)
                     <=> thing = "version" \/ thing = "device"
<1>1. Uses("version") = {} /\ Uses("device") = {}
  BY DEF Uses
<1>2. <<>> \in Seq(Things) /\ Orderly(<<>>) /\ \A thing : ~In(thing, <<>>)
  BY DEF Orderly, In
<1>3. /\ <<"version">> \in Seq(Things) /\ Orderly(<<"version">>)
      /\ \A thing : In(thing, <<"version">>) <=> thing = "version"
  BY <1>1, ThingsAre DEF Orderly, In
<1>4. /\ <<"version", "device">> \in Seq(Things)
      /\ Orderly(<<"version", "device">>)
      /\ \A thing : In(thing, <<"version", "device">>)
                      <=> thing = "version" \/ thing = "device"
  BY <1>1, ThingsAre DEF Orderly, In
<1> QED
  BY <1>2, <1>3, <1>4

LEMMA LoadVersionKeeps == ASSUME HeldInv, LoadVersion PROVE HeldInv'
<1>1. phase = "version" /\ "version" \in Things
  BY ThingsAre DEF LoadVersion
<1>2. CASE MakeVersion /\ Obtain("version") /\ phase' = "device" /\ giving' = <<>>
  <2>1. making' = "device" /\ giving' \in Seq(Things)
    BY <1>2 DEF MakeVersion
  <2>2. phase' \in LoadStages /\ Place(phase') = Place(phase) + 1
    BY <1>1, <1>2, StagePlaces DEF LoadStages
  <2> QED
    BY <1>1, <1>2, <2>1, <2>2, ObtainKeeps
<1>3. CASE GiveBack(<<>>)
  <2>1. \A thing \in Things : ~Has(thing)
    BY <1>1, PlacesAre, StagePlaces DEF Has
  <2> QED
    BY <1>3, <2>1, Short, GiveBackKeeps
<1> QED
  BY <1>2, <1>3 DEF LoadVersion

LEMMA LoadDeviceKeeps == ASSUME HeldInv, LoadDevice PROVE HeldInv'
<1>1. /\ phase = "device" /\ "device" \in Things /\ "version" \in Things
      /\ phase \in LoadStages /\ phase # "giving"
      /\ held \in [Things -> {0, 1}] /\ giving \in Seq(Things)
  BY ThingsAre DEF LoadDevice, HeldInv, LoadStages
<1>2. \A thing \in Things : Place(thing) < 1 <=> thing = "version"
  BY PlacesAre, StagePlaces, ThingsAre
<1>3. \A thing \in Things : held[thing] = 1
        <=> \/ thing = "version"
            \/ thing = "device" /\ making \in {"allocated", "node", "dot"}
  BY <1>1, <1>2, StagePlaces DEF HeldInv, Has
<1>4. CASE \/ MeasureDevice /\ UNCHANGED loadVars
           \/ CopyNode /\ UNCHANGED loadVars
           \/ AppendDot /\ domain # 0 /\ UNCHANGED loadVars
  <2>1. making' \in {"allocated", "node", "dot"}
          <=> making \in {"allocated", "node", "dot"}
    BY <1>4 DEF MeasureDevice, CopyNode, AppendDot
  <2> QED
    BY <1>4, <2>1, HasStays
<1>5. CASE AllocateDevice /\ Obtain("device") /\ UNCHANGED <<phase, giving>>
  <2>1. making = "measured" /\ making' = "allocated"
    BY <1>5 DEF AllocateDevice
  <2>2. held["device"] = 0
    BY <1>1, <1>3, <2>1
  <2>3. held' = [held EXCEPT !["device"] = 1]
    BY <1>1, <1>5, <2>2 DEF Obtain
  <2>4. \A thing \in Things : held'[thing] = 1 <=> thing = "version" \/ thing = "device"
    BY <1>1, <1>3, <2>1, <2>3
  <2>5. \A thing \in Things : Has(thing)' <=> thing = "version" \/ thing = "device"
    BY <1>1, <1>2, <1>5, <2>1, StagePlaces DEF Has
  <2> QED
    BY <1>1, <1>5, <2>3, <2>4, <2>5 DEF HeldInv
<1>6. CASE AllocateDeviceFails /\ GiveBack(<<"version">>)
  <2>1. making = "measured"
    BY <1>6 DEF AllocateDeviceFails
  <2>2. \A thing \in Things : Has(thing) <=> thing = "version"
    BY <1>1, <1>2, <2>1, StagePlaces DEF Has
  <2> QED
    BY <1>6, <2>2, Short, GiveBackKeeps
<1>7. CASE /\ AppendDomain \/ (AppendDot /\ domain = 0)
           /\ phase' = "list" /\ UNCHANGED <<held, giving>>
  <2>1. making \in {"allocated", "node", "dot"}
    BY <1>7 DEF AppendDomain, AppendDot
  <2>2. \A thing \in Things : Place(thing) < 2 <=> thing = "version" \/ thing = "device"
    BY PlacesAre, StagePlaces, ThingsAre
  <2>3. \A thing \in Things : Has(thing)' <=> thing = "version" \/ thing = "device"
    BY <1>7, <2>2, StagePlaces DEF Has, LoadStages
  <2>4. phase' \in LoadStages /\ phase' # "giving"
    BY <1>7 DEF LoadStages
  <2> QED
    BY <1>1, <1>3, <1>7, <2>1, <2>3, <2>4 DEF HeldInv
<1> QED
  BY <1>4, <1>5, <1>6, <1>7 DEF LoadDevice

LEMMA LoadListKeeps == ASSUME HeldInv, LoadList PROVE HeldInv'
<1>1. phase = "list" /\ "list" \in Things
  BY ThingsAre DEF LoadList
<1>2. CASE Obtain("list") /\ phase' = Proc[1] /\ UNCHANGED giving
  <2>1. phase' = "cdp" /\ giving' \in Seq(Things)
    BY <1>2, ProcIs DEF HeldInv
  <2>2. phase' \in LoadStages /\ Place(phase') = Place(phase) + 1
    BY <1>1, <2>1, StagePlaces DEF LoadStages
  <2> QED
    BY <1>1, <1>2, <2>1, <2>2, ObtainKeeps
<1>3. CASE GiveBack(<<"version", "device">>)
  <2>1. \A thing \in Things : Place(thing) < 2 <=> thing = "version" \/ thing = "device"
    BY PlacesAre, StagePlaces, ThingsAre
  <2>2. \A thing \in Things : Has(thing) <=> thing = "version" \/ thing = "device"
    BY <1>1, <2>1, StagePlaces DEF Has, LoadStages
  <2> QED
    BY <1>3, <2>2, Short, GiveBackKeeps
<1> QED
  BY <1>1, <1>2, <1>3 DEF LoadList

LEMMA LoadProcKeeps == ASSUME HeldInv, LoadProc PROVE HeldInv'
<1>1. PICK nth \in DOMAIN Proc :
        /\ phase = Proc[nth]
        /\ \/ /\ Obtain(Proc[nth]) /\ UNCHANGED giving
              /\ phase' = IF nth = Len(Proc) THEN "timer" ELSE Proc[nth + 1]
           \/ GiveBack(ProcBackwards(nth - 1) \o ListAndStrings)
  BY DEF LoadProc
<1>2. /\ nth \in {1, 2, 3, 4} /\ Proc[nth] \in Things /\ Proc[nth] # "device"
      /\ Place(Proc[nth]) = nth + 2
  BY <1>1, ProcIs, ThingsAre, PlacesAre
<1>3. CASE /\ Obtain(Proc[nth]) /\ UNCHANGED giving
           /\ phase' = IF nth = Len(Proc) THEN "timer" ELSE Proc[nth + 1]
  <2>1. giving' \in Seq(Things)
    BY <1>3 DEF HeldInv
  <2>2. phase' \in {"summary", "detail", "json", "timer"} /\ Place(phase') = nth + 3
    BY <1>2, <1>3, ProcIs, StagePlaces
  <2>3. phase' \in LoadStages /\ Place(phase') = Place(phase) + 1
    BY <1>1, <1>2, <2>2 DEF LoadStages
  <2> QED
    BY <1>1, <1>2, <1>3, <2>1, <2>2, <2>3, ObtainKeeps
<1>4. CASE GiveBack(ProcBackwards(nth - 1) \o ListAndStrings)
  <2> DEFINE seq == ProcBackwards(nth - 1) \o ListAndStrings
  <2>1. nth - 1 \in 0..4 /\ (nth - 1) + 3 = nth + 2
    BY <1>2
  <2>2. seq \in Seq(Things)
    BY <2>1, ProcWay
  <2>3. Orderly(seq) /\ \A thing \in Things : In(thing, seq) <=> Place(thing) < (nth - 1) + 3
    BY <2>1, ProcWayOrderly
  <2>4. \A thing \in Things : In(thing, seq) <=> Place(thing) < nth + 2
    BY <2>1, <2>3
  <2>5. GiveBack(seq)
    BY <1>4
  <2> HIDE DEF seq
  <2>6. phase \in LoadStages /\ phase # "giving" /\ phase # "device"
    BY <1>1, <1>2, ProcIs DEF LoadStages
  <2>7. \A thing \in Things : Has(thing) <=> Place(thing) < nth + 2
    BY <1>1, <1>2, <2>6 DEF Has
  <2> QED
    BY <2>2, <2>3, <2>4, <2>5, <2>7, GiveBackKeeps
<1> QED
  BY <1>1, <1>3, <1>4

LEMMA LoadSnapKeeps == ASSUME HeldInv, LoadTimer \/ LoadSnap PROVE HeldInv'
<1>1. CASE LoadTimer
  <2>1. /\ phase = "timer" /\ "timer" \in Things /\ phase' = "snap"
        /\ giving' \in Seq(Things) /\ Obtain("timer")
    BY <1>1, ThingsAre DEF LoadTimer, HeldInv
  <2>2. phase' \in LoadStages /\ Place(phase') = Place(phase) + 1
    BY <2>1, StagePlaces DEF LoadStages
  <2> QED
    BY <2>1, <2>2, ObtainKeeps
<1>2. CASE LoadSnap
  <2>1. phase = "snap" /\ "snap" \in Things
    BY <1>2, ThingsAre DEF LoadSnap
  <2>2. CASE Obtain("snap") /\ phase' = "loaded" /\ UNCHANGED giving
    <3>1. giving' \in Seq(Things)
      BY <2>2 DEF HeldInv
    <3>2. phase' \in LoadStages /\ Place(phase') = Place(phase) + 1
      BY <2>1, <2>2, StagePlaces DEF LoadStages
    <3> QED
      BY <2>1, <2>2, <3>1, <3>2, ObtainKeeps
  <2>3. CASE GiveBack(<<"timer">> \o ProcBackwards(4) \o ListAndStrings)
    <3> DEFINE seq == <<"timer">> \o ProcBackwards(4) \o ListAndStrings
    <3>1. /\ seq \in Seq(Things) /\ Orderly(seq) /\ GiveBack(seq)
          /\ \A thing \in Things : In(thing, seq) <=> Place(thing) < 8
      BY <2>3, TimerWayOrderly
    <3> HIDE DEF seq
    <3>2. \A thing \in Things : Has(thing) <=> Place(thing) < 8
      BY <2>1, StagePlaces DEF Has, LoadStages
    <3> QED
      BY <3>1, <3>2, GiveBackKeeps
  <2> QED
    BY <1>2, <2>2, <2>3 DEF LoadSnap
<1> QED
  BY <1>1, <1>2

LEMMA UnloadKeeps == ASSUME HeldInv, Unload PROVE HeldInv'
<1>1. phase = "loaded" /\ GiveBack(Unloading)
  BY DEF Unload
<1>2. \A thing \in Things : Has(thing)
  BY <1>1, PlacesAre, StagePlaces DEF Has, LoadStages
<1> QED
  BY <1>1, <1>2, UnloadingOrderly, GiveBackKeeps

LEMMA HeldInvStep == HeldInv /\ [LoadNext]_moduleVars => HeldInv'
<1> SUFFICES ASSUME HeldInv, [LoadNext]_moduleVars PROVE HeldInv'
  OBVIOUS
<1>1. CASE UNCHANGED moduleVars
  <2>1. UNCHANGED loadVars /\ making' = making
    BY <1>1 DEF moduleVars, stringVars
  <2> QED
    BY <2>1, HasStays
<1>2. CASE NamesChange
  <2>1. UNCHANGED loadVars /\ making' = making
    BY <1>2 DEF NamesChange, SetNames
  <2> QED
    BY <2>1, HasStays
<1> QED
  BY <1>1, <1>2, LoadVersionKeeps, LoadDeviceKeeps, LoadListKeeps, LoadProcKeeps,
     LoadSnapKeeps, UnloadKeeps, GiveNextKeeps DEF LoadNext

\* What a held thing uses is held.
LEMMA UsedIsHeld ==
  ASSUME HeldInv, NEW thing \in Things, NEW needed \in Uses(thing), held[thing] = 1
  PROVE  needed \in Things /\ held[needed] = 1
<1>1. needed \in Things /\ Has(thing)
  BY ThingsAre DEF HeldInv, Uses
<1>2. CASE phase \in LoadStages /\ Place(thing) < Place(phase)
  <2>1. Place(needed) < Place(thing)
    BY StagePlaces, ThingsAre DEF Uses
  <2>2. Place(phase) \in 0..9
    BY <1>2, StagePlaces DEF LoadStages
  <2>3. Place(needed) < Place(phase)
    BY <1>1, <1>2, <2>1, <2>2, PlacesAre
  <2> QED
    BY <1>1, <1>2, <2>3 DEF HeldInv, Has
<1>3. CASE thing = "device"
  BY <1>3 DEF Uses
<1>4. CASE phase = "giving" /\ In(thing, giving)
  <2>1. PICK j \in 1..Len(giving) : giving[j] = thing
    BY <1>4 DEF In
  <2>2. PICK k \in (j + 1)..Len(giving) : giving[k] = needed
    BY <1>4, <2>1 DEF HeldInv, Orderly
  <2>3. k \in 1..Len(giving)
    BY <2>1, <2>2 DEF HeldInv
  <2>4. In(needed, giving)
    BY <2>2, <2>3 DEF In
  <2> QED
    BY <1>1, <1>4, <2>4 DEF HeldInv, Has
<1> QED
  BY <1>1, <1>2, <1>3, <1>4 DEF Has

LEMMA HeldInvGives == HeldInv => GivenBack /\ UsersGoFirst
<1> SUFFICES ASSUME HeldInv PROVE GivenBack /\ UsersGoFirst
  OBVIOUS
<1>1. \A thing \in Things : held[thing] \in {0, 1}
  BY DEF HeldInv
<1>2. ASSUME phase = "gone" PROVE \A thing \in Things : held[thing] = 0
  BY <1>1, <1>2 DEF HeldInv, Has, LoadStages
<1>3. /\ held["snap"] \in {0, 1} /\ held["timer"] \in {0, 1}
      /\ held["summary"] \in {0, 1} /\ held["detail"] \in {0, 1}
      /\ held["json"] \in {0, 1}
  BY <1>1, ThingsAre
<1>4. \A thing \in Things : held[thing] = 1 =>
        \A needed \in Uses(thing) : held[needed] = 1
  BY UsedIsHeld
<1>5. /\ held["snap"] = 1 => held["list"] = 1
      /\ held["timer"] = 1 =>
           held["list"] = 1 /\ held["version"] = 1 /\ held["device"] = 1
      /\ held["summary"] = 1 => held["list"] = 1 /\ held["cdp"] = 1
      /\ held["detail"] = 1 => held["list"] = 1 /\ held["cdp"] = 1
      /\ held["json"] = 1 => held["list"] = 1 /\ held["cdp"] = 1
  BY <1>4, ThingsAre DEF Uses
<1> QED
  BY <1>1, <1>2, <1>3, <1>5 DEF GivenBack, UsersGoFirst

\* What the invariant gives.
LEMMA LoadCorrect == LoadSpec => [](GivenBack /\ UsersGoFirst)
<1>1. LoadInit => HeldInv
  BY HeldInvInit
<1> QED
  BY <1>1, HeldInvStep, HeldInvGives, PTL DEF LoadSpec

\* However loading ends, and after unloading, everything obtained is given back
\* once (cdp_module_init, cdp_proc_init, cdp_module_exit).
THEOREM LoadingGivesBack == LoadSpec => []GivenBack
BY LoadCorrect, PTL

\* Nothing is given back while something held still uses it, wherever loading
\* fails (cdp_module_init, cdp_proc_init, cdp_module_exit).
THEOREM UsersGivenBackFirst == LoadSpec => []UsersGoFirst
BY LoadCorrect, PTL

-----------------------------------------------------------------------------
(* The checksum: what its sum and its carries come to.                     *)

\* What Total adds up, from the first number to the last.
LEMMA TotalInOrder ==
  ASSUME NEW n \in Nat, NEW val \in [1..n -> Nat]
  PROVE  \E h : Running(h, n, val) /\ h[n] = Total(val)
<1> DEFINE D == 1..n
           pick == [s \in SUBSET D |-> CHOOSE x \in s : TRUE]
           Eq(f) == f = [s \in SUBSET D |->
                           IF s = {} THEN 0
                           ELSE val[CHOOSE x \in s : TRUE] + f[s \ {CHOOSE x \in s : TRUE}]]
           total == CHOOSE f : Eq(f)
<1>1. Total(val) = total[D]
  <2>1. DOMAIN val = D
    OBVIOUS
  <2>2. Total(val) =
          (CHOOSE f : f = [s \in SUBSET DOMAIN val |->
              IF s = {} THEN 0
              ELSE val[CHOOSE x \in s : TRUE] + f[s \ {CHOOSE x \in s : TRUE}]])[DOMAIN val]
    BY DEF Total, MapThenSumSet, MapThenFoldSet
  <2> QED
    BY <2>1, <2>2
<1>2. \A s \in SUBSET D : s # {} => (CHOOSE x \in s : TRUE) \in s
  OBVIOUS
<1>3. Addable(D, val, pick)
  <2>1. IsFiniteSet(D)
    BY FS_Interval
  <2>2. \A s \in SUBSET D : s # {} => pick[s] \in s
    BY <1>2
  <2> HIDE DEF pick
  <2> QED
    BY <2>1, <2>2 DEF Addable
<1>4. PICK f \in [SUBSET D -> Nat] : Adds(f, D, val, pick)
  <2> HIDE DEF D, pick
  <2> QED
    BY <1>3, AddsUp, Zenon
<1>5. Eq(f)
  BY <1>4 DEF Adds
<1>6. Eq(total)
  <2> HIDE DEF Eq
  <2> QED
    BY <1>5
<1>7. Adds(total, D, val, pick)
  <2>1. \A s \in SUBSET D :
          total[s] = IF s = {} THEN 0
                     ELSE val[CHOOSE x \in s : TRUE] + total[s \ {CHOOSE x \in s : TRUE}]
    BY <1>6
  <2> HIDE DEF total
  <2> QED
    BY <2>1 DEF Adds
<1> HIDE DEF total, pick
<1>8. Addable(1..n, val, pick) /\ Adds(total, 1..n, val, pick)
  BY <1>3, <1>7
<1> HIDE DEF D
<1>9. \E h : Running(h, n, val) /\ h[n] = total[1..n]
  BY <1>8, InOrder, Zenon
<1> QED
  BY <1>1, <1>9 DEF D

\* A word is more than a byte.
LEMMA Numbers ==
  /\ Base \in Nat /\ Base >= 2 /\ Word \in Nat /\ Word = Base * Base
  /\ Word >= 4 /\ Word > Base
BY ChecksumAssumption DEF Word

\* What adding the carries makes of a sum that is not too large: the same, but for
\* a multiple of the largest word, and a word, nothing only of nothing.
LEMMA FoldedIs ==
  ASSUME NEW sum \in Nat, sum < Word * Word
  PROVE  /\ Folded(sum) \in 0..(Word - 1)
         /\ \E k \in Nat : sum = (Word - 1) * k + Folded(sum)
         /\ sum = 0 <=> Folded(sum) = 0
<1> DEFINE a == sum \div Word
           b == sum % Word
           once == b + a
           c == once \div Word
           d == once % Word
<1>0. Word \in Nat /\ Word > 0
  BY Numbers
<1>1. /\ a \in Nat /\ b \in 0..(Word - 1) /\ sum = Word * a + b
  BY <1>0, Division
<1>2. once \in Nat
  BY <1>1, Numbers
<1>3. /\ c \in Nat /\ d \in 0..(Word - 1) /\ once = Word * c + d
  <2> HIDE DEF once
  <2> QED
    BY <1>0, <1>2, Division
<1>4. Folded(sum) = d + c
  BY DEF Folded
<1> HIDE DEF c, d
<1>5. a < Word
  <2> SUFFICES ASSUME a >= Word PROVE FALSE
    BY <1>1, Numbers
  <2> HIDE DEF a, b
  <2>1. Word * a >= Word * Word
    BY <1>1, Numbers
  <2> QED
    BY <1>1, <2>1, Numbers
<1>6. once = a + b
  BY <1>1, Numbers
<1> HIDE DEF a, b, once
<1>7. once <= 2 * Word - 2
  BY <1>1, <1>5, <1>6, Numbers
<1>8. c = 0 \/ (c = 1 /\ d <= Word - 2)
  <2>1. c < 2
    <3> SUFFICES ASSUME c >= 2 PROVE FALSE
      BY <1>3
    <3>1. Word * c >= Word * 2
      BY <1>3, Numbers
    <3> QED
      BY <1>3, <1>7, <3>1, Numbers
  <2>2. CASE c = 1
    <3>1. once = Word + d
      BY <1>3, <2>2, Numbers
    <3> QED
      BY <1>3, <1>7, <2>2, <3>1, Numbers
  <2> QED
    BY <1>3, <2>1, <2>2
<1>9. Folded(sum) \in 0..(Word - 1)
  BY <1>3, <1>4, <1>8, Numbers
<1>10. sum = (Word - 1) * (a + c) + Folded(sum)
  <2>1. sum = (Word - 1) * a + once
    BY <1>1, <1>6, Numbers
  <2>2. once = (Word - 1) * c + (c + d)
    BY <1>3, Numbers
  <2>3. (Word - 1) * (a + c) = (Word - 1) * a + (Word - 1) * c
    BY <1>1, <1>3, Numbers
  <2> QED
    BY <1>1, <1>3, <1>4, <2>1, <2>2, <2>3, Numbers
<1>11. sum = 0 => Folded(sum) = 0
  <2> SUFFICES ASSUME sum = 0 PROVE d + c = 0
    BY <1>4
  <2>1. a = 0 /\ b = 0
    <3>1. Word * a \in Nat
      BY <1>1, Numbers
    <3>2. Word * a = 0 /\ b = 0
      BY <1>1, <3>1, Numbers
    <3> QED
      BY <1>1, <3>2, Numbers
  <2>2. once = 0
    BY <1>6, <2>1
  <2>3. c # 1
    BY <1>3, <2>2, Numbers
  <2> QED
    BY <1>3, <1>8, <2>2, <2>3, Numbers
<1>12. Folded(sum) = 0 => sum = 0
  <2> SUFFICES ASSUME d + c = 0 PROVE sum = 0
    BY <1>4
  <2>1. c = 0 /\ d = 0
    BY <1>3
  <2>2. once = 0
    BY <1>3, <2>1, Numbers
  <2>3. a = 0 /\ b = 0
    BY <1>1, <1>6, <2>2
  <2> QED
    BY <1>1, <2>3, Numbers
<1> QED
  <2>1. a + c \in Nat
    BY <1>1, <1>3
  <2> QED
    BY <1>9, <1>10, <1>11, <1>12, <2>1

\* A word is its two bytes.
LEMMA BytesOf ==
  ASSUME NEW word \in 0..(Word - 1)
  PROVE  /\ HighByte(word) \in Byte /\ LowByte(word) \in Byte
         /\ word = Base * HighByte(word) + LowByte(word)
<1> DEFINE hi == word \div Base
           lo == word % Base
<1>1. hi \in Nat /\ lo \in 0..(Base - 1) /\ word = Base * hi + lo
  BY Numbers, Division
<1> HIDE DEF hi, lo
<1>2. hi < Base
  <2> SUFFICES ASSUME hi >= Base PROVE FALSE
    BY <1>1, Numbers
  <2>1. Base * hi >= Base * Base
    BY <1>1, Numbers
  <2> QED
    BY <1>1, <2>1, Numbers
<1> QED
  BY <1>1, <1>2, Numbers DEF hi, lo, HighByte, LowByte, Byte

\* Turning the bytes of a word around makes a word of it, the other way round.
LEMMA Flipped ==
  ASSUME NEW word \in 0..(Word - 1)
  PROVE  /\ Flip16(word) \in 0..(Word - 1)
         /\ HighByte(Flip16(word)) = LowByte(word)
         /\ LowByte(Flip16(word)) = HighByte(word)
         /\ Flip16(word) = 0 <=> word = 0
<1> DEFINE hi == HighByte(word)
           lo == LowByte(word)
           flipped == Base * lo + hi
<1>1. hi \in 0..(Base - 1) /\ lo \in 0..(Base - 1) /\ word = Base * hi + lo
  BY BytesOf DEF Byte
<1>2. Flip16(word) = flipped
  <2>1. Flip16(word) = hi + lo * Base
    BY DEF Flip16, HighByte, LowByte
  <2> HIDE DEF hi, lo
  <2> QED
    BY <1>1, <2>1, Numbers
<1> HIDE DEF hi, lo
<1>3. flipped \in 0..(Word - 1)
  <2>1. Base * lo <= Base * (Base - 1)
    BY <1>1, Numbers
  <2>2. Base * (Base - 1) = Word - Base
    BY Numbers
  <2>3. Base * lo \in Nat
    BY <1>1, Numbers
  <2> QED
    BY <1>1, <2>1, <2>2, <2>3, Numbers
<1>4. flipped \div Base = lo /\ flipped % Base = hi
  <2>1. lo \in Nat /\ Base > 0
    BY <1>1, Numbers
  <2> QED
    BY <1>1, <2>1, Numbers, Quotient
<1>5. flipped = 0 <=> lo = 0 /\ hi = 0
  BY <1>1, Numbers
<1>6. word = 0 <=> lo = 0 /\ hi = 0
  BY <1>1, Numbers
<1> QED
  BY <1>2, <1>3, <1>4, <1>5, <1>6 DEF HighByte, LowByte, hi, lo

\* A weighed byte is less than a word.
LEMMA WeighedType ==
  ASSUME NEW bytes \in Seq(Byte)
  PROVE  /\ Len(bytes) \in Nat /\ bytes \in [1..Len(bytes) -> Byte]
         /\ Weighed(bytes) \in [1..Len(bytes) -> Nat]
         /\ \A nth \in 1..Len(bytes) : Weighed(bytes)[nth] <= Word - Base
<1>1. Len(bytes) \in Nat /\ bytes \in [1..Len(bytes) -> Byte]
  BY LenProperties
<1>2. ASSUME NEW byte \in Byte
      PROVE  byte \in Nat /\ byte * Base \in Nat /\ byte * Base <= Word - Base /\ byte <= Word - Base
  <2>1. byte \in Nat /\ byte <= Base - 1 /\ byte * Base \in Nat
    BY Numbers DEF Byte
  <2>2. byte * Base <= (Base - 1) * Base
    BY <2>1, Numbers
  <2>3. (Base - 1) * Base = Word - Base
    BY Numbers
  <2>4. byte <= byte * Base
    BY <2>1, Numbers
  <2> QED
    BY <2>1, <2>2, <2>3, <2>4, Numbers
<1>3. ASSUME NEW nth \in 1..Len(bytes)
      PROVE  Weighed(bytes)[nth] \in Nat /\ Weighed(bytes)[nth] <= Word - Base
  <2>1. bytes[nth] \in Byte
    BY <1>1
  <2>2. Weighed(bytes)[nth] = IF nth % 2 = 0 THEN bytes[nth] ELSE bytes[nth] * Base
    BY DEF Weighed
  <2> QED
    BY <1>2, <2>1, <2>2
<1>4. Weighed(bytes) \in [1..Len(bytes) -> Nat]
  <2>1. \A nth \in 1..Len(bytes) : Weighed(bytes)[nth] \in Nat
    BY <1>3
  <2> QED
    BY <2>1 DEF Weighed
<1> QED
  BY <1>1, <1>3, <1>4

\* ByteSum adds the bytes up from the first to the last.
LEMMA ByteSumInOrder ==
  ASSUME NEW bytes \in Seq(Byte)
  PROVE  \E h : Running(h, Len(bytes), Weighed(bytes)) /\ h[Len(bytes)] = ByteSum(bytes)
<1> DEFINE n == Len(bytes)
           val == Weighed(bytes)
<1>1. n \in Nat /\ val \in [1..n -> Nat]
  BY WeighedType
<1> HIDE DEF n, val
<1>2. \E h : Running(h, n, val) /\ h[n] = Total(val)
  BY <1>1, TotalInOrder, Zenon
<1> QED
  BY <1>2 DEF n, val, ByteSum

\* The sum of a frame is too small for a third carry.
LEMMA ByteSumBound ==
  ASSUME NEW bytes \in Seq(Byte), Len(bytes) <= Word
  PROVE  ByteSum(bytes) \in Nat /\ ByteSum(bytes) < Word * Word
<1> DEFINE n == Len(bytes)
           val == Weighed(bytes)
           most == Word - Base
<1>1. /\ n \in Nat /\ val \in [1..n -> Nat]
      /\ \A nth \in 1..n : val[nth] \in Nat /\ val[nth] <= most
  BY WeighedType
<1>2. PICK h : Running(h, n, val) /\ h[n] = ByteSum(bytes)
  BY ByteSumInOrder
<1>3. most \in Nat /\ most < Word /\ Word \in Nat /\ Word > 0
  BY Numbers
<1>4. n <= Word
  OBVIOUS
<1> HIDE DEF n, val, most
<1> DEFINE T == {k \in Nat : k <= n => h[k] <= most * k}
<1>5. 0 \in T
  BY <1>2, <1>3 DEF Running
<1>6. ASSUME NEW k \in Nat, k \in T
      PROVE  k + 1 \in T
  <2> SUFFICES ASSUME k + 1 <= n PROVE h[k + 1] <= most * (k + 1)
    OBVIOUS
  <2>1. h[k] <= most * k /\ k + 1 \in 1..n /\ k \in 0..n /\ (k + 1) - 1 = k
    BY <1>1, <1>6
  <2>2. h[k + 1] = h[k] + val[k + 1] /\ h[k] \in Nat /\ val[k + 1] <= most /\ val[k + 1] \in Nat
    BY <1>1, <1>2, <2>1 DEF Running
  <2>3. most * (k + 1) = most * k + most /\ most * k \in Nat
    BY <1>3
  <2> QED
    BY <1>3, <2>1, <2>2, <2>3
<1> HIDE DEF T
<1>7. Nat \subseteq T
  BY <1>5, <1>6, SetInduction
<1>8. h[n] \in Nat /\ h[n] <= most * n
  BY <1>1, <1>2, <1>7 DEF T, Running
<1>9. most * n <= most * Word /\ most * Word < Word * Word /\ most * n \in Nat
  BY <1>1, <1>3, <1>4
<1> QED
  BY <1>2, <1>3, <1>8, <1>9

\* The words of a frame add up to what its bytes do.
LEMMA WordsAddUp ==
  ASSUME NEW bytes \in Seq(Byte)
  PROVE  Total(Words(bytes)) = ByteSum(bytes)
<1> DEFINE n == Len(bytes)
           padded == IF n % 2 = 0 THEN bytes ELSE Append(bytes, 0)
           pairs == Len(padded) \div 2
           val == Weighed(bytes)
           word == Words(bytes)
<1>1. /\ n \in Nat /\ bytes \in [1..n -> Byte] /\ val \in [1..n -> Nat]
      /\ \A nth \in 1..n : val[nth] = IF nth % 2 = 0 THEN bytes[nth] ELSE bytes[nth] * Base
  BY WeighedType DEF Weighed
<1>2. 0 \in Byte /\ Byte \subseteq Nat /\ Base \in Nat
  BY Numbers DEF Byte
<1>3. /\ padded \in Seq(Byte) /\ Len(padded) \in Nat
      /\ Len(padded) = IF n % 2 = 0 THEN n ELSE n + 1
      /\ \A nth \in 1..n : padded[nth] = bytes[nth]
      /\ n % 2 # 0 => padded[n + 1] = 0
  <2>1. CASE n % 2 = 0
    BY <1>1, <2>1
  <2>2. CASE n % 2 # 0
    <3>1. /\ Append(bytes, 0) \in Seq(Byte) /\ Len(Append(bytes, 0)) = n + 1
          /\ \A nth \in 1..n : Append(bytes, 0)[nth] = bytes[nth]
          /\ Append(bytes, 0)[n + 1] = 0
      BY <1>2, AppendProperties
    <3> QED
      BY <1>1, <2>2, <3>1
  <2> QED
    BY <2>1, <2>2
<1>4. word = [nth \in 1..pairs |-> padded[2 * nth - 1] * Base + padded[2 * nth]]
  BY DEF Words
<1> HIDE DEF padded
<1>5. pairs \in Nat /\ Len(padded) = 2 * pairs
  <2>1. \A x \in Nat : x % 2 # 0 => (x + 1) % 2 = 0
    OBVIOUS
  <2>2. Len(padded) % 2 = 0
    BY <1>1, <1>3, <2>1
  <2>3. \A x \in Nat : x % 2 = 0 => x \div 2 \in Nat /\ x = 2 * (x \div 2)
    OBVIOUS
  <2> QED
    BY <1>3, <2>2, <2>3
<1>6. \A nth \in 1..pairs : /\ 2 * nth \in 1..Len(padded) /\ 2 * nth - 1 \in 1..n
                         /\ padded[2 * nth] \in Nat /\ padded[2 * nth - 1] \in Nat
  <2> TAKE nth \in 1..pairs
  <2>1. 2 * nth \in 1..Len(padded) /\ 2 * nth - 1 \in 1..Len(padded)
    BY <1>5
  <2>2. padded \in [1..Len(padded) -> Byte]
    BY <1>3, LenProperties
  <2>3. 2 * nth - 1 \in 1..n
    BY <1>1, <1>3, <2>1
  <2> QED
    BY <1>2, <2>1, <2>2, <2>3
<1>7. \A nth \in 1..pairs : word[nth] \in Nat /\ word[nth] = padded[2 * nth - 1] * Base + padded[2 * nth]
  <2> TAKE nth \in 1..pairs
  <2>1. word[nth] = padded[2 * nth - 1] * Base + padded[2 * nth]
    BY <1>4
  <2>2. padded[2 * nth] \in Nat /\ padded[2 * nth - 1] \in Nat
    BY <1>6
  <2>3. \A x, y \in Nat : x * Base + y \in Nat
    BY <1>2
  <2> QED
    BY <2>1, <2>2, <2>3
<1>8. word \in [1..pairs -> Nat]
  <2>1. DOMAIN word = 1..pairs
    BY <1>4
  <2> QED
    BY <1>4, <1>7
<1> HIDE DEF word, pairs, val
<1>9. PICK h : Running(h, n, val) /\ h[n] = ByteSum(bytes)
  BY ByteSumInOrder DEF val
<1>10. PICK g : Running(g, pairs, word) /\ g[pairs] = Total(word)
  BY <1>5, <1>8, TotalInOrder, Zenon
<1> HIDE DEF n
<1> DEFINE T == {j \in Nat : j <= pairs /\ 2 * j <= n => g[j] = h[2 * j]}
<1>11. 0 \in T
  BY <1>9, <1>10 DEF Running
<1>12. ASSUME NEW j \in Nat, j \in T
       PROVE  j + 1 \in T
  <2> SUFFICES ASSUME j + 1 <= pairs, 2 * (j + 1) <= n PROVE g[j + 1] = h[2 * (j + 1)]
    OBVIOUS
  <2> DEFINE lo == 2 * (j + 1)
             hi == 2 * (j + 1) - 1
  <2>1. /\ j + 1 \in 1..pairs /\ (j + 1) - 1 = j /\ lo \in 1..n /\ hi \in 1..n
        /\ lo - 1 = hi /\ hi - 1 = 2 * j /\ lo % 2 = 0 /\ hi % 2 # 0 /\ 2 * j \in 0..n
    BY <1>1, <1>5
  <2>2. g[j] = h[2 * j]
    BY <1>1, <1>5, <1>12, <2>1
  <2>3. g[j + 1] = g[j] + word[j + 1] /\ word[j + 1] = padded[hi] * Base + padded[lo]
    BY <1>7, <1>10, <2>1 DEF Running
  <2>4. padded[hi] = bytes[hi] /\ padded[lo] = bytes[lo] /\ bytes[hi] \in Nat /\ bytes[lo] \in Nat
    BY <1>1, <1>2, <1>3, <2>1
  <2>5. val[hi] = bytes[hi] * Base /\ val[lo] = bytes[lo]
    BY <1>1, <2>1
  <2>6. h[hi] = h[2 * j] + val[hi] /\ h[lo] = h[hi] + val[lo]
    <3>1. \A k \in 1..n : h[k] = h[k - 1] + val[k]
      BY <1>9 DEF Running
    <3> HIDE DEF lo, hi
    <3> QED
      BY <2>1, <3>1
  <2>7. h[2 * j] \in Nat
    BY <1>9, <2>1 DEF Running
  <2> HIDE DEF lo, hi
  <2>8. bytes[hi] * Base \in Nat
    BY <1>2, <2>4
  <2>9. g[j + 1] = h[lo]
    BY <2>2, <2>3, <2>4, <2>5, <2>6, <2>7, <2>8
  <2> QED
    BY <2>9 DEF lo
<1> HIDE DEF T
<1>13. Nat \subseteq T
  BY <1>11, <1>12, SetInduction
<1>14. CASE n % 2 = 0
  <2>1. n = 2 * pairs
    BY <1>3, <1>5, <1>14
  <2>2. g[pairs] = h[n]
    BY <1>5, <1>13, <2>1 DEF T
  <2> QED
    BY <1>9, <1>10, <2>2 DEF word
<1>15. CASE n % 2 # 0
  <2>1. n + 1 = 2 * pairs
    BY <1>3, <1>5, <1>15
  <2>2. /\ pairs - 1 \in Nat /\ 2 * (pairs - 1) = n - 1 /\ pairs \in 1..pairs /\ n \in 1..n
        /\ n - 1 \in 0..n /\ 2 * pairs - 1 = n /\ pairs - 1 <= pairs /\ n - 1 <= n
    BY <1>1, <1>5, <2>1
  <2>3. g[pairs - 1] = h[n - 1]
    <3>1. pairs - 1 \in T
      BY <1>13, <2>2
    <3> QED
      BY <2>2, <3>1 DEF T
  <2>4. g[pairs] = g[pairs - 1] + word[pairs] /\ h[n] = h[n - 1] + val[n]
    BY <1>9, <1>10, <2>2 DEF Running
  <2>5. word[pairs] = padded[n] * Base + padded[n + 1]
    BY <1>7, <2>1, <2>2
  <2>6. padded[n] = bytes[n] /\ padded[n + 1] = 0 /\ val[n] = bytes[n] * Base /\ bytes[n] \in Nat
    BY <1>1, <1>2, <1>3, <1>15, <2>2
  <2>7. word[pairs] = val[n]
    <3>1. bytes[n] * Base \in Nat
      BY <1>2, <2>6
    <3> QED
      BY <2>5, <2>6, <3>1
  <2>8. g[pairs] = h[n]
    BY <2>3, <2>4, <2>7
  <2> QED
    BY <1>9, <1>10, <2>8 DEF word
<1> QED
  BY <1>14, <1>15

\* What a byte that changes does to the sum.
Shift(nth, from, to) == IF nth % 2 = 0 THEN to - from ELSE (to - from) * Base

LEMMA ByteSumShifts ==
  ASSUME NEW bytes \in Seq(Byte), NEW nth \in 1..Len(bytes), NEW byte \in Byte
  PROVE  /\ [bytes EXCEPT ![nth] = byte] \in Seq(Byte)
         /\ Len([bytes EXCEPT ![nth] = byte]) = Len(bytes)
         /\ ByteSum([bytes EXCEPT ![nth] = byte]) = ByteSum(bytes) + Shift(nth, bytes[nth], byte)
<1> DEFINE n == Len(bytes)
           new == [bytes EXCEPT ![nth] = byte]
           val == Weighed(bytes)
           other == Weighed(new)
           by == Shift(nth, bytes[nth], byte)
<1>1. new \in Seq(Byte) /\ Len(new) = n
  BY ExceptSeq
<1>2. /\ n \in Nat /\ bytes \in [1..n -> Byte] /\ val \in [1..n -> Nat]
  BY WeighedType
<1>3. other \in [1..n -> Nat]
  BY <1>1, WeighedType
<1>4. \A k \in 1..n : new[k] = IF k = nth THEN byte ELSE bytes[k]
  BY <1>2
<1>5. Byte \subseteq Nat /\ Base \in Nat
  BY Numbers DEF Byte
<1>6. by \in Int
  <2>1. bytes[nth] \in Nat /\ byte \in Nat
    BY <1>2, <1>5
  <2>2. (byte - bytes[nth]) * Base \in Int
    BY <1>5, <2>1
  <2> QED
    BY <2>1, <2>2 DEF Shift
<1> HIDE DEF new
<1>7. \A k \in 1..n : k # nth => other[k] = val[k]
  BY <1>1, <1>4 DEF Weighed
<1>8. other[nth] = val[nth] + by
  <2>1. /\ val[nth] = IF nth % 2 = 0 THEN bytes[nth] ELSE bytes[nth] * Base
        /\ other[nth] = IF nth % 2 = 0 THEN byte ELSE byte * Base
    BY <1>1, <1>4 DEF Weighed
  <2>2. bytes[nth] \in Nat /\ byte \in Nat
    BY <1>2, <1>5
  <2>3. byte * Base = bytes[nth] * Base + (byte - bytes[nth]) * Base
    BY <1>5, <2>2
  <2> QED
    BY <2>1, <2>2, <2>3 DEF Shift
<1>9. PICK h : Running(h, n, val) /\ h[n] = ByteSum(bytes)
  BY ByteSumInOrder
<1>10. PICK g : Running(g, n, other) /\ g[n] = ByteSum(new)
  <2>1. \E g : Running(g, Len(new), other) /\ g[Len(new)] = ByteSum(new)
    BY <1>1, ByteSumInOrder
  <2> QED
    BY <1>1, <2>1
<1> HIDE DEF val, other, by
<1>11. nth \in 1..n
  OBVIOUS
<1> HIDE DEF n
<1> DEFINE T == {k \in Nat : k <= n => g[k] = h[k] + (IF k < nth THEN 0 ELSE by)}
<1>12. 0 \in T
  BY <1>9, <1>10, <1>11 DEF Running
<1>13. ASSUME NEW k \in Nat, k \in T
       PROVE  k + 1 \in T
  <2> SUFFICES ASSUME k + 1 <= n
               PROVE  g[k + 1] = h[k + 1] + (IF k + 1 < nth THEN 0 ELSE by)
    OBVIOUS
  <2>1. k + 1 \in 1..n /\ (k + 1) - 1 = k /\ k \in 0..n /\ k <= n
    BY <1>2
  <2>2. g[k] = h[k] + (IF k < nth THEN 0 ELSE by)
    BY <1>13, <2>1
  <2>3. g[k + 1] = g[k] + other[k + 1] /\ h[k + 1] = h[k] + val[k + 1]
    BY <1>9, <1>10, <2>1 DEF Running
  <2>4. h[k] \in Nat /\ val[k + 1] \in Nat
    BY <1>2, <1>9, <2>1 DEF Running
  <2>5. CASE k + 1 = nth
    <3>1. other[k + 1] = val[k + 1] + by
      BY <1>8, <2>5
    <3> QED
      BY <1>6, <1>11, <2>2, <2>3, <2>4, <2>5, <3>1
  <2>6. CASE k + 1 # nth
    <3>1. other[k + 1] = val[k + 1]
      BY <1>7, <2>1, <2>6
    <3> QED
      BY <1>6, <1>11, <2>2, <2>3, <2>4, <2>6, <3>1
  <2> QED
    BY <2>5, <2>6
<1> HIDE DEF T
<1>14. Nat \subseteq T
  BY <1>12, <1>13, SetInduction
<1>15. g[n] = h[n] + by
  BY <1>2, <1>11, <1>14 DEF T
<1> QED
  BY <1>1, <1>9, <1>10, <1>15 DEF new, by, n

-----------------------------------------------------------------------------
(* The checksum: which frames have a good one.                             *)

\* The words of a frame that the Internet checksum takes.
Good(bytes) ==
  ByteSum(bytes) > 0 /\ \E k \in Nat : ByteSum(bytes) = (Word - 1) * k

\* A multiple is what division leaves nothing of.
LEMMA GoodDivides ==
  ASSUME NEW bytes, ByteSum(bytes) \in Nat
  PROVE  Good(bytes) <=> ByteSum(bytes) > 0 /\ ByteSum(bytes) % (Word - 1) = 0
<1> DEFINE s == ByteSum(bytes)
           m == Word - 1
<1>1. m \in Nat /\ m > 0 /\ s \in Nat
  BY Numbers
<1> HIDE DEF s, m
<1>2. ASSUME s % m = 0
      PROVE  \E k \in Nat : s = m * k
  <2> DEFINE q == s \div m
  <2>1. q \in Nat /\ s = m * q + (s % m)
    BY <1>1, Division
  <2> HIDE DEF q
  <2>2. m * q \in Nat
    BY <1>1, <2>1
  <2>3. s = m * q
    BY <1>2, <2>1, <2>2
  <2> QED
    BY <2>1, <2>3
<1>3. ASSUME NEW k \in Nat, s = m * k
      PROVE  s % m = 0
  <2>1. 0 \in 0..(m - 1) /\ m * k + 0 = m * k
    BY <1>1
  <2>2. (m * k + 0) % m = 0
    BY <1>1, <2>1, Quotient
  <2> QED
    BY <1>3, <2>1, <2>2
<1> QED
  BY <1>2, <1>3 DEF Good, s, m

\* ip_compute_csum gives nothing of such words only.
LEMMA CsumZero ==
  ASSUME NEW bytes \in Seq(Byte), Len(bytes) <= Word
  PROVE  ComputeCsum(bytes) = 0 <=> Good(bytes)
<1> DEFINE s == ByteSum(bytes)
           f == Folded(s)
           m == Word - 1
<1>1. s \in Nat /\ s < Word * Word
  BY ByteSumBound
<1>2. f \in 0..m /\ (s = 0 <=> f = 0)
  BY <1>1, FoldedIs
<1>3. PICK k \in Nat : s = m * k + f
  BY <1>1, FoldedIs
<1>4. m \in Nat /\ m > 0 /\ Word \in Nat /\ Word = m + 1
  BY Numbers
<1>5. ComputeCsum(bytes) = Flip16(m - f)
  <2>1. ComputeCsum(bytes) = Flip16(m - (f % Word))
    BY DEF ComputeCsum
  <2> HIDE DEF f, m
  <2>2. f % Word = f
    BY <1>2, <1>4
  <2> QED
    BY <2>1, <2>2
<1>6. m - f \in 0..(Word - 1)
  BY <1>2, <1>4
<1> HIDE DEF s, f, m
<1>7. ComputeCsum(bytes) = 0 <=> f = m
  <2>1. Flip16(m - f) = 0 <=> m - f = 0
    BY <1>6, Flipped
  <2> QED
    BY <1>2, <1>4, <1>5, <2>1
<1>8. ASSUME f = m
      PROVE  s > 0 /\ \E j \in Nat : s = m * j
  <2>1. m * (k + 1) = m * k + m /\ k + 1 \in Nat
    BY <1>4
  <2>2. s = m * (k + 1)
    BY <1>3, <1>8, <2>1
  <2>3. s # 0
    BY <1>2, <1>4, <1>8
  <2> QED
    BY <1>1, <2>1, <2>2, <2>3
<1>9. ASSUME s > 0, NEW j \in Nat, s = m * j
      PROVE  f = m
  <2> SUFFICES ASSUME f # m PROVE FALSE
    OBVIOUS
  <2>1. f \in Int /\ f # 0 /\ -m < f /\ f < m
    BY <1>1, <1>2, <1>4, <1>9
  <2>2. m * j = m * k + f
    BY <1>3, <1>9
  <2> QED
    BY <1>4, <2>1, <2>2, NoMultiple
<1> QED
  BY <1>7, <1>8, <1>9 DEF Good, s, m


\* The frame with its checksum in the placeholder is such.
LEMMA InjectedGood ==
  ASSUME NEW bytes \in Seq(Byte), Len(bytes) <= Word, Len(bytes) >= Placeholder + 2,
         bytes[Placeholder + 1] = 0, bytes[Placeholder + 2] = 0,
         NEW sent, sent = [bytes EXCEPT
                             ![Placeholder + 1] = LowByte(ComputeCsum(bytes)),
                             ![Placeholder + 2] = HighByte(ComputeCsum(bytes))]
  PROVE  sent \in Seq(Byte) /\ Len(sent) = Len(bytes) /\ Good(sent)
<1> DEFINE s == ByteSum(bytes)
           f == Folded(s)
           m == Word - 1
           csum == ComputeCsum(bytes)
           lo == LowByte(csum)
           hi == HighByte(csum)
           half == [bytes EXCEPT ![3] = lo]
           total == ByteSum(sent)
<1>1. s \in Nat /\ s < Word * Word
  BY ByteSumBound
<1>2. f \in 0..m /\ (s = 0 <=> f = 0)
  BY <1>1, FoldedIs
<1>3. PICK k \in Nat : s = m * k + f
  BY <1>1, FoldedIs
<1>4. m \in Nat /\ m > 0 /\ Word \in Nat /\ Word = m + 1 /\ Base \in Nat
  BY Numbers
<1>5. csum = Flip16(m - f)
  <2>1. csum = Flip16(m - (f % Word))
    BY DEF ComputeCsum
  <2> HIDE DEF f, m, csum
  <2>2. f % Word = f
    BY <1>2, <1>4
  <2> QED
    BY <2>1, <2>2
<1>6. m - f \in 0..(Word - 1)
  BY <1>2, <1>4
<1>7. lo \in Byte /\ hi \in Byte
  <2>1. csum \in 0..(Word - 1)
    BY <1>5, <1>6, Flipped
  <2> HIDE DEF csum
  <2> QED
    BY <2>1, BytesOf
<1>8. m - f = Base * lo + hi
  <2>1. lo = HighByte(m - f) /\ hi = LowByte(m - f)
    BY <1>5, <1>6, Flipped
  <2> HIDE DEF lo, hi, m, f
  <2> QED
    BY <1>4, <1>6, <2>1, BytesOf
<1>9. Byte \subseteq Nat
  BY Numbers DEF Byte
<1> HIDE DEF csum, lo, hi, s, f, m
<1>10. Len(bytes) \in Nat /\ 3 \in 1..Len(bytes) /\ 4 \in 1..Len(bytes) /\ bytes[3] = 0 /\ bytes[4] = 0
  BY LenProperties DEF Placeholder
<1>11. bytes \in [1..Len(bytes) -> Byte]
  BY LenProperties
<1>12. half \in Seq(Byte) /\ Len(half) = Len(bytes) /\ ByteSum(half) = s + Shift(3, 0, lo)
  BY <1>7, <1>10, ByteSumShifts DEF s
<1>13. half[4] = 0
  BY <1>10, <1>11
<1>14. sent = [half EXCEPT ![4] = hi]
  <2>1. sent = [bytes EXCEPT ![3] = lo, ![4] = hi]
    BY DEF Placeholder, lo, hi, csum
  <2> QED
    BY <2>1
<1> HIDE DEF half
<1>15. sent \in Seq(Byte) /\ Len(sent) = Len(bytes) /\ total = ByteSum(half) + Shift(4, 0, hi)
  <2>1. 4 \in 1..Len(half) /\ half \in Seq(Byte) /\ hi \in Byte
    BY <1>7, <1>10, <1>12
  <2>2. /\ [half EXCEPT ![4] = hi] \in Seq(Byte) /\ Len([half EXCEPT ![4] = hi]) = Len(half)
        /\ ByteSum([half EXCEPT ![4] = hi]) = ByteSum(half) + Shift(4, half[4], hi)
    BY <2>1, ByteSumShifts
  <2> QED
    BY <1>12, <1>13, <1>14, <2>2
<1> HIDE DEF total
<1>16. Shift(3, 0, lo) = Base * lo /\ Shift(4, 0, hi) = hi /\ Base * lo \in Nat /\ lo \in Nat /\ hi \in Nat
  <2>1. lo \in Nat /\ hi \in Nat
    BY <1>7, <1>9
  <2>2. lo - 0 = lo /\ hi - 0 = hi /\ lo * Base = Base * lo /\ Base * lo \in Nat
    BY <1>4, <2>1
  <2>3. 3 % 2 # 0 /\ 4 % 2 = 0
    OBVIOUS
  <2> QED
    BY <2>1, <2>2, <2>3 DEF Shift
<1>17. total = s + (m - f)
  BY <1>1, <1>8, <1>12, <1>15, <1>16
<1>18. total = m * (k + 1)
  <2>1. m * (k + 1) = m * k + m /\ m * k \in Nat
    BY <1>4
  <2> QED
    BY <1>2, <1>3, <1>4, <1>17, <2>1
<1>19. total > 0
  BY <1>1, <1>2, <1>4, <1>17
<1>20. k + 1 \in Nat
  OBVIOUS
<1> QED
  BY <1>15, <1>18, <1>19, <1>20 DEF Good, m, total

\* One byte that changes makes of such a frame another.
LEMMA ChangedBad ==
  ASSUME NEW bytes \in Seq(Byte), Len(bytes) <= Word, Good(bytes),
         NEW nth \in 1..Len(bytes), NEW byte \in Byte, byte # bytes[nth]
  PROVE  ~Good([bytes EXCEPT ![nth] = byte])
<1> DEFINE new == [bytes EXCEPT ![nth] = byte]
           m == Word - 1
           d == Shift(nth, bytes[nth], byte)
<1>1. ByteSum(new) = ByteSum(bytes) + d
  BY ByteSumShifts
<1>2. PICK k \in Nat : ByteSum(bytes) = m * k
  BY DEF Good
<1>3. bytes[nth] \in 0..(Base - 1) /\ byte \in 0..(Base - 1)
  BY LenProperties DEF Byte
<1>4. m \in Nat /\ Base \in Nat /\ Base >= 2 /\ m = Base * Base - 1
  BY Numbers
<1>5. d \in Int /\ d # 0 /\ -m < d /\ d < m
  <2> DEFINE change == byte - bytes[nth]
  <2>1. change \in Int /\ change # 0 /\ -Base < change /\ change < Base
    BY <1>3, <1>4
  <2> HIDE DEF change, m
  <2>2. d = IF nth % 2 = 0 THEN change ELSE change * Base
    BY DEF Shift, change
  <2>3. Base < m
    <3>1. Base * Base >= 2 * Base
      BY <1>4
    <3> QED
      BY <1>4, <3>1
  <2>4. change * Base \in Int /\ change * Base # 0
    BY <1>4, <2>1
  <2>5. change * Base <= (Base - 1) * Base /\ (1 - Base) * Base <= change * Base
    BY <1>4, <2>1
  <2>6. (Base - 1) * Base = Base * Base - Base /\ (1 - Base) * Base = Base - Base * Base
    BY <1>4
  <2> QED
    BY <1>4, <2>1, <2>2, <2>3, <2>4, <2>5, <2>6
<1>6. SUFFICES ASSUME NEW j \in Nat, ByteSum(new) = m * j
               PROVE  FALSE
  BY DEF Good
<1>7. m * j = m * k + d
  BY <1>1, <1>2, <1>6
<1> HIDE DEF m, d, new
<1> QED
  BY <1>4, <1>5, <1>7, NoMultiple

\* What is true of the frame and of the verdict.
ChecksumInv ==
  /\ ChecksumTypeOK
  /\ state = "write" =>
       /\ verdict = "none"
       /\ \A nth \in {Placeholder + 1, Placeholder + 2} : nth <= Len(frame) => frame[nth] = 0
  /\ state = "sent" => Good(frame)
  /\ state = "changed" => ~Good(frame)
  /\ verdict # "none" => (verdict = "valid" <=> Good(frame))

\* Every step keeps that.
LEMMA ChecksumInductive ==
  ChecksumInv /\ [ChecksumNext]_checksumVars => ChecksumInv'
<1> SUFFICES ASSUME ChecksumInv, [ChecksumNext]_checksumVars PROVE ChecksumInv'
  OBVIOUS
<1>1. frame \in Seq(Byte) /\ Len(frame) \in Nat /\ Len(frame) <= MaxLength /\ Len(frame) <= Word
  BY LenProperties, ChecksumAssumption DEF ChecksumInv, ChecksumTypeOK, Word
<1>2. CASE PutByte
  <2>1. PICK byte \in (IF Len(frame) \in {Placeholder, Placeholder + 1} THEN {0} ELSE Byte) :
          frame' = Append(frame, byte)
    BY <1>2 DEF PutByte
  <2>2. byte \in Byte
    BY <2>1, Numbers DEF Byte
  <2>3. /\ frame' \in Seq(Byte) /\ Len(frame') = Len(frame) + 1
        /\ \A nth \in 1..Len(frame) : frame'[nth] = frame[nth]
        /\ frame'[Len(frame) + 1] = byte
    BY <1>1, <2>1, <2>2, AppendProperties
  <2>4. ASSUME NEW nth \in {Placeholder + 1, Placeholder + 2}, nth <= Len(frame')
        PROVE  frame'[nth] = 0
    <3>1. CASE nth <= Len(frame)
      <4>1. frame[nth] = 0 /\ nth \in 1..Len(frame)
        BY <1>1, <1>2, <2>4, <3>1 DEF ChecksumInv, PutByte, Placeholder
      <4> QED
        BY <2>3, <4>1
    <3>2. CASE nth = Len(frame) + 1
      <4>1. Len(frame) \in {Placeholder, Placeholder + 1}
        <5>1. nth = 3 \/ nth = 4
          BY DEF Placeholder
        <5>2. Len(frame) = 2 \/ Len(frame) = 3
          <6> DEFINE l == Len(frame)
          <6>1. l \in Nat /\ (l + 1 = 3 \/ l + 1 = 4)
            BY <1>1, <3>2, <5>1
          <6> HIDE DEF l
          <6>2. l = 2 \/ l = 3
            BY <6>1
          <6> QED
            BY <6>2 DEF l
        <5> QED
          BY <5>2 DEF Placeholder
      <4> QED
        BY <2>1, <2>3, <3>2, <4>1
    <3> QED
      BY <1>1, <2>3, <2>4, <3>1, <3>2 DEF Placeholder
  <2> QED
    <3>1. state = "write" /\ verdict = "none" /\ UNCHANGED <<state, verdict>>
      BY <1>2 DEF ChecksumInv, PutByte
    <3>2. ChecksumTypeOK'
      BY <1>1, <1>2, <2>3, <3>1, ChecksumAssumption DEF ChecksumTypeOK, PutByte
    <3> QED
      BY <2>4, <3>1, <3>2 DEF ChecksumInv
<1>3. CASE InjectChecksum
  <2>1. /\ Len(frame) >= Placeholder + 2 /\ frame[Placeholder + 1] = 0 /\ frame[Placeholder + 2] = 0
    BY <1>1, <1>3 DEF ChecksumInv, InjectChecksum, Placeholder
  <2>2. frame' = [frame EXCEPT ![Placeholder + 1] = LowByte(ComputeCsum(frame)),
                               ![Placeholder + 2] = HighByte(ComputeCsum(frame))]
    BY <1>3 DEF InjectChecksum, Injected
  <2>3. frame' \in Seq(Byte) /\ Len(frame') = Len(frame) /\ Good(frame')
    BY <1>1, <2>1, <2>2, InjectedGood
  <2> QED
    BY <1>1, <1>3, <2>3 DEF ChecksumInv, ChecksumTypeOK, InjectChecksum
<1>4. CASE ChangeByte
  <2>1. PICK nth \in 1..Len(frame), byte \in Byte :
          byte # frame[nth] /\ frame' = [frame EXCEPT ![nth] = byte]
    BY <1>4 DEF ChangeByte
  <2>2. frame' \in Seq(Byte) /\ Len(frame') = Len(frame)
    BY <1>1, <2>1, ExceptSeq
  <2>3. ~Good(frame')
    BY <1>1, <1>4, <2>1, ChangedBad DEF ChecksumInv, ChangeByte
  <2> QED
    BY <1>1, <1>4, <2>2, <2>3 DEF ChecksumInv, ChecksumTypeOK, ChangeByte
<1>5. CASE Validate
  <2>1. verdict' = IF Good(frame) THEN "valid" ELSE "invalid"
    BY <1>1, <1>5, CsumZero DEF Validate
  <2>2. Good(frame') <=> Good(frame)
    BY <1>5 DEF Validate
  <2> QED
    BY <1>5, <2>1, <2>2 DEF ChecksumInv, ChecksumTypeOK, Validate
<1>6. CASE UNCHANGED checksumVars
  <2>1. Good(frame') <=> Good(frame)
    BY <1>6 DEF checksumVars
  <2> QED
    BY <1>6, <2>1 DEF ChecksumInv, ChecksumTypeOK, checksumVars
<1> QED
  BY <1>2, <1>3, <1>4, <1>5, <1>6 DEF ChecksumNext

\* The properties follow.
LEMMA ChecksumInvHolds == ChecksumInv => ChecksumHolds
<1> SUFFICES ASSUME ChecksumInv PROVE ChecksumHolds
  OBVIOUS
<1>1. frame \in Seq(Byte) /\ Len(frame) <= Word
  BY ChecksumAssumption, LenProperties DEF ChecksumInv, ChecksumTypeOK, Word
<1>2. Total(Words(frame)) = ByteSum(frame) /\ ByteSum(frame) \in Nat
  BY <1>1, WordsAddUp, ByteSumBound
<1>3. Good(frame) <=> Total(Words(frame)) > 0 /\ Total(Words(frame)) % (Word - 1) = 0
  BY <1>2, GoodDivides
<1>4. VerdictIsInternets
  BY <1>3 DEF ChecksumInv, VerdictIsInternets
<1>5. SentIsValid /\ ChangeIsSeen
  BY DEF ChecksumInv, ChecksumTypeOK, SentIsValid, ChangeIsSeen
<1> QED
  BY <1>4, <1>5 DEF ChecksumHolds

LEMMA ChecksumInvAlways == ChecksumSpec => []ChecksumInv
<1>1. ChecksumInit => ChecksumInv
  <2> SUFFICES ASSUME ChecksumInit PROVE ChecksumInv
    OBVIOUS
  <2>1. frame \in Seq(Byte) /\ Len(frame) = 0 /\ Len(frame) <= MaxLength
    BY EmptySeq, ChecksumAssumption DEF ChecksumInit
  <2> QED
    BY <2>1 DEF ChecksumInit, ChecksumInv, ChecksumTypeOK, Placeholder
<1> QED
  BY <1>1, ChecksumInductive, PTL DEF ChecksumSpec

\* Writer and reader agree on the checksum of every frame, one of an odd length
\* too, a byte that changes on the way is seen, and the checksum is the one of
\* the Internet protocols: stream_writer_inject_checksum and
\* stream_reader_validate_checksum with the ip_compute_csum of checksum.h.
THEOREM ChecksumAgrees == ChecksumSpec => []ChecksumHolds
BY ChecksumInvAlways, ChecksumInvHolds, PTL

-----------------------------------------------------------------------------
(* All of them together.                                                   *)

\* What holds of the string, where none is shown as well.
StringInv == EscapeInv /\ source \in Sources

LEMMA StringInvInit == EscapeInit \/ EscapeOver => StringInv
<1>1. EscapeInit => StringInv
  BY EscapeStart DEF StringInv, EscapeInit
<1>2. ASSUME EscapeOver
      PROVE  StringInv
  <2>1. /\ source = <<>> /\ out = <<>> /\ read = 0 /\ used = 1 /\ first = 0
        /\ size = FirstSize /\ stage = "done"
    BY <1>2 DEF EscapeOver
  <2>2. /\ <<>> \in Seq(Character) /\ <<>> \in Seq(Output) /\ Len(<<>>) = 0
        /\ FirstSize \in Nat \ {0} /\ 1 \in 0..FirstSize /\ <<>> \in Sources
    BY EmptySeq, EscapeAssumption, UnitsAssumption
  <2>3. SubSeq(source, 1, 0) = <<>>
    BY <2>1, <2>2, SubSeqProperties, EmptySeq
  <2>4. ReadBack
    BY <2>1, <2>3, DecodeNone, KeepNone DEF ReadBack, Unread
  <2>5. Buffered
    BY <2>1, <2>2 DEF Buffered
  <2> QED
    BY <2>1, <2>2, <2>4, <2>5 DEF EscapeInv, StringInv
<1> QED
  BY <1>1, <1>2

LEMMA StringInvStep ==
  ASSUME StringInv, [EscapeNext]_escapeVars
  PROVE  StringInv'
<1>1. source' = source
  BY DEF EscapeNext, OpenString, EscapeChar, NoRoom, SkipReturn, PlainChar, EndEscape,
         CloseString, ShowAgain, Shown, escapeVars
<1> QED
  BY <1>1, EscapeStep DEF StringInv

LEMMA StringTyped == StringInv => EscapeTypeOK
BY DEF StringInv, EscapeInv, EscapeTypeOK

\* A step of one of the parts leaves the others as they are.
LEMMA PartsStep ==
  ASSUME [UnitsNext]_unitsVars
  PROVE  /\ [ChecksumNext]_checksumVars /\ [PrinterNext]_printerVars
         /\ [EscapeNext]_escapeVars /\ [EntryNext]_entryVars
         /\ [ClockNext]_clockVars /\ [LoadNext]_moduleVars
<1> USE DEF checksumVars, printerVars, escapeVars, entryVars, clockVars, moduleVars
<1>1. CASE ChecksumPart
  BY <1>1 DEF ChecksumPart
<1>2. CASE AddressPart
  BY <1>2 DEF AddressPart
<1>3. CASE StringPart
  BY <1>3 DEF StringPart
<1>4. CASE EntryPart
  BY <1>4 DEF EntryPart
<1>5. CASE ClockPart
  BY <1>5 DEF ClockPart
<1>6. CASE LoadPart
  BY <1>6 DEF LoadPart
<1>7. CASE UNCHANGED unitsVars
  BY <1>7 DEF unitsVars
<1> QED
  BY <1>1, <1>2, <1>3, <1>4, <1>5, <1>6, <1>7 DEF UnitsNext

\* What is proved of a part alone holds of it in Units.
THEOREM PartsKeepTheirSpecifications ==
  UnitsSpec => ChecksumSpec /\ PrinterSpec /\ EntrySpec /\ ClockSpec /\ LoadSpec
<1>1. UnitsInit => ChecksumInit /\ PrinterInit /\ EntryInit /\ ClockInit /\ LoadInit
  BY DEF UnitsInit
<1>2. [UnitsNext]_unitsVars
        => /\ [ChecksumNext]_checksumVars /\ [PrinterNext]_printerVars
           /\ [EntryNext]_entryVars /\ [ClockNext]_clockVars /\ [LoadNext]_moduleVars
  BY PartsStep
<1> QED
  BY <1>1, <1>2, PTL
  DEF UnitsSpec, ChecksumSpec, PrinterSpec, EntrySpec, ClockSpec, LoadSpec

\* Strings are kept whole in Units too, that in which none is shown included.
LEMMA StringsInUnits == UnitsSpec => []StringInv
<1>1. UnitsInit => StringInv
  BY StringInvInit DEF UnitsInit
<1>2. StringInv /\ [UnitsNext]_unitsVars => StringInv'
  BY StringInvStep, PartsStep
<1> QED
  BY <1>1, <1>2, PTL DEF UnitsSpec

\* The types of all the parts, whatever the constants are: what is printed of an
\* address is hextets and colons, of a string bytes that JSON may have, of an entry
\* tokens, and the numbers the timer and loading count with are in their ranges.
THEOREM UnitsTypeCorrect == UnitsSpec => []UnitsTypeOK
<1>1. ChecksumInv => ChecksumTypeOK
  BY DEF ChecksumInv
<1>2. ClockInv => ClockTypeOK
  BY DEF ClockInv
<1>3. LoadSpec => []LoadTypeOK
  <2>1. LoadInit => StringsInv /\ HeldInv
    BY StringsInvInit, HeldInvInit DEF LoadInit
  <2>2. StringsInv /\ HeldInv => LoadTypeOK
    <3> SUFFICES ASSUME StringsInv, HeldInv PROVE LoadTypeOK
      OBVIOUS
    <3>1. phase \in Phases
      BY DEF HeldInv, Phases, Things, LoadStages, Proc
    <3>2. held \in [Things -> Int]
      <4>1. held \in [Things -> {0, 1}]
        BY DEF HeldInv
      <4> QED
        BY <4>1
    <3> QED
      BY <3>1, <3>2 DEF LoadTypeOK, StringsInv, HeldInv
  <2> QED
    BY <2>1, <2>2, StringsInvStep, HeldInvStep, PTL DEF LoadSpec
<1>4. ChecksumTypeOK /\ PrinterTypeOK /\ EscapeTypeOK /\ EntryTypeOK /\ ClockTypeOK /\ LoadTypeOK
        => UnitsTypeOK
  BY DEF UnitsTypeOK
<1>5. UnitsSpec => []StringInv
  BY StringsInUnits
<1> QED
  BY <1>1, <1>2, <1>3, <1>4, <1>5, StringTyped, PartsKeepTheirSpecifications,
     ChecksumInvAlways, PrinterTypeCorrect, EntryTypeCorrect, ClockInvHolds, PTL

\* What holds of the parts holds of them together, for every value of the
\* constants: the frame's checksum, what is printed of addresses, strings and
\* entries, the timer, the two strings, and what loading gives back.
THEOREM UnitsCorrect ==
  UnitsSpec => /\ [](/\ ChecksumHolds /\ FoundLongest /\ InnerRunsDenote
                     /\ StringKept /\ SeparatedRight /\ NeverSilent /\ KeptAtMost
                     /\ StringsHold /\ GivenBack /\ UsersGoFirst)
               /\ GoneNotBefore
<1>1. StringInv => StringKept
  BY EscapeInvImplies DEF StringInv
<1> QED
  BY <1>1, StringsInUnits, PartsKeepTheirSpecifications, ChecksumAgrees,
     SearchFindsLongest, InnerRunsReadBack, EntryIsJson, TimerTransmits, EntriesGo,
     EntriesStayTheirTime, StringsFit, LoadingGivesBack, UsersGivenBackFirst, PTL
=============================================================================
