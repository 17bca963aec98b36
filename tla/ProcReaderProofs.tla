--------------------------- MODULE ProcReaderProofs -------------------------
(***************************************************************************)
(* Theorems about ProcReader, for any number of structs, identities and    *)
(* frames, any bound on the clock, and batches of any size: what a process *)
(* is given while the list changes between its batches.                    *)
(***************************************************************************)
EXTENDS ProcReader, NeighborListProofs, Induction, SequenceTheorems

-----------------------------------------------------------------------------
(* The walk from the head.                                                 *)

\* What the walk from the head is.
Walk ==
  /\ Reached \in [Nat -> Pointer] /\ Reached[0] = head
  /\ \A k \in Nat :
       Reached[k + 1] = IF Reached[k] = NULL THEN NULL ELSE next[Reached[k]]

LEMMA ReachedIs == TypeOK => Walk
<1> SUFFICES ASSUME TypeOK PROVE Walk
  OBVIOUS
<1> DEFINE step == [p \in Pointer |-> IF p = NULL THEN NULL ELSE next[p]]
           Eq(f) == f = [k \in Nat |-> IF k = 0 THEN head
                           ELSE IF f[k - 1] = NULL THEN NULL ELSE next[f[k - 1]]]
<1>1. step \in [Pointer -> Pointer] /\ head \in Pointer
  BY NullAssumption DEF TypeOK, Pointer
<1>2. PICK f \in [Nat -> Pointer] :
        f[0] = head /\ \A n \in Nat : f[n + 1] = step[f[n]]
  <2> HIDE DEF step
  <2> QED
    BY <1>1, Recursion
<1>3. Eq(f)
  <2>1. \A k \in Nat : f[k] = IF k = 0 THEN head
                              ELSE IF f[k - 1] = NULL THEN NULL ELSE next[f[k - 1]]
    <3> TAKE k \in Nat
    <3>1. CASE k = 0
      BY <1>2, <3>1
    <3>2. CASE k # 0
      <4>1. k - 1 \in Nat /\ (k - 1) + 1 = k
        BY <3>2
      <4>2. f[k] = step[f[k - 1]] /\ f[k - 1] \in Pointer
        BY <1>2, <4>1
      <4> QED
        BY <3>2, <4>2
    <3> QED
      BY <3>1, <3>2
  <2> QED
    BY <2>1
<1>4. Eq(Reached)
  <2>1. Reached = CHOOSE g : Eq(g)
    BY DEF Reached
  <2> HIDE DEF Eq
  <2> QED
    BY <1>3, <2>1
<1>5. \A k \in Nat : Reached[k] = IF k = 0 THEN head
        ELSE IF Reached[k - 1] = NULL THEN NULL ELSE next[Reached[k - 1]]
  BY <1>4
<1>6. Reached[0] = head
  BY <1>5
<1>7. ASSUME NEW k \in Nat
      PROVE Reached[k + 1] = IF Reached[k] = NULL THEN NULL ELSE next[Reached[k]]
  <2>1. k + 1 \in Nat /\ k + 1 # 0 /\ (k + 1) - 1 = k
    OBVIOUS
  <2> QED
    BY <1>5, <2>1
<1>8. \A k \in Nat : Reached[k] \in Pointer
  <2> DEFINE T == {k \in Nat : Reached[k] \in Pointer}
  <2>1. 0 \in T
    BY <1>1, <1>6
  <2>2. ASSUME NEW k \in Nat, k \in T PROVE k + 1 \in T
    BY <1>1, <1>7, <2>2 DEF TypeOK, Pointer
  <2> HIDE DEF T
  <2>3. Nat \subseteq T
    BY <2>1, <2>2, SetInduction
  <2> QED
    BY <2>3 DEF T
<1> QED
  <2>1. Reached = [k \in Nat |-> Reached[k]]
    BY <1>4
  <2> QED
    BY <1>6, <1>7, <1>8, <2>1 DEF Walk

LEMMA ReachedIsNext == TypeOK' => Walk'
  BY ReachedIs, PTL

\* It meets entries of the list only.
LEMMA WalkListed ==
  ASSUME TypeOK, Linked
  PROVE  \A k \in Nat : Reached[k] # NULL => Reached[k] \in Listed
<1> USE NullAssumption
<1>1. Walk
  BY ReachedIs
<1> DEFINE T == {k \in Nat : Reached[k] # NULL => Reached[k] \in Listed}
<1>2. 0 \in T
  BY <1>1 DEF Walk, Listed, TypeOK, Pointer
<1>3. ASSUME NEW k \in Nat, k \in T
      PROVE  k + 1 \in T
  <2> SUFFICES ASSUME Reached[k + 1] # NULL PROVE Reached[k + 1] \in Listed
    OBVIOUS
  <2>1. Reached[k] # NULL /\ Reached[k + 1] = next[Reached[k]]
    BY <1>1 DEF Walk
  <2>2. Reached[k] \in Listed /\ next[Reached[k]] \in Neighbors
    BY <1>3, <2>1 DEF Listed, TypeOK, Pointer
  <2>3. prev[next[Reached[k]]] = Reached[k]
    BY <2>1, <2>2 DEF Linked
  <2> QED
    BY <2>1, <2>2, <2>3 DEF Listed
<1> HIDE DEF T
<1>4. Nat \subseteq T
  BY <1>2, <1>3, SetInduction
<1> QED
  BY <1>4 DEF T

\* It goes up in the order of the list.
LEMMA WalkOrdered ==
  ASSUME TypeOK, Linked, NEW num \in Numbering, Ordered(num)
  PROVE  \A k \in Nat : Reached[k + 1] # NULL =>
           Reached[k] # NULL /\ num[Reached[k]] < num[Reached[k + 1]]
<1> TAKE k \in Nat
<1> HAVE Reached[k + 1] # NULL
<1>1. Reached[k] # NULL /\ Reached[k + 1] = next[Reached[k]]
  BY ReachedIs DEF Walk
<1>2. Reached[k] \in Listed
  BY <1>1, WalkListed
<1> QED
  BY <1>1, <1>2 DEF Ordered

LEMMA WalkHigher ==
  ASSUME TypeOK, Linked, NEW num \in Numbering, Ordered(num), NEW i \in Nat
  PROVE  \A d \in Nat : Reached[i + 1 + d] # NULL =>
           Reached[i] # NULL /\ num[Reached[i]] < num[Reached[i + 1 + d]]
<1> DEFINE T == {d \in Nat : Reached[i + 1 + d] # NULL =>
                   Reached[i] # NULL /\ num[Reached[i]] < num[Reached[i + 1 + d]]}
<1>1. 0 \in T
  <2>1. i + 1 + 0 = i + 1
    OBVIOUS
  <2> QED
    BY <2>1, WalkOrdered
<1>2. ASSUME NEW d \in Nat, d \in T
      PROVE  d + 1 \in T
  <2>1. i + 1 + (d + 1) = (i + 1 + d) + 1 /\ i + 1 + d \in Nat
    OBVIOUS
  <2> SUFFICES ASSUME Reached[(i + 1 + d) + 1] # NULL
               PROVE  /\ Reached[i] # NULL
                      /\ num[Reached[i]] < num[Reached[(i + 1 + d) + 1]]
    BY <2>1
  <2>2. /\ Reached[i + 1 + d] # NULL
        /\ num[Reached[i + 1 + d]] < num[Reached[(i + 1 + d) + 1]]
    BY <2>1, WalkOrdered
  <2>3. Reached[i] # NULL /\ num[Reached[i]] < num[Reached[i + 1 + d]]
    BY <1>2, <2>2
  <2>4. /\ num[Reached[i]] \in Nat /\ num[Reached[i + 1 + d]] \in Nat
        /\ num[Reached[(i + 1 + d) + 1]] \in Nat
    BY <2>1, <2>2, <2>3, WalkListed DEF Numbering, Listed
  <2> QED
    BY <2>2, <2>3, <2>4
<1> HIDE DEF T
<1>3. Nat \subseteq T
  BY <1>1, <1>2, SetInduction
<1> QED
  BY <1>3 DEF T

\* So it meets no entry twice.
LEMMA WalkOnce ==
  ASSUME ListInv, OrderInv, NEW i \in Nat, NEW j \in Nat,
         Reached[i] = Reached[j], Reached[i] # NULL
  PROVE  i = j
<1>1. PICK num \in Numbering : Ordered(num)
  BY DEF OrderInv
<1>2. TypeOK /\ Linked
  BY DEF ListInv
<1>3. num[Reached[i]] \in Nat
  BY <1>2, WalkListed DEF Numbering, Listed
<1>4. ASSUME NEW k \in Nat, NEW m \in Nat, k < m, Reached[m] # NULL
      PROVE  num[Reached[k]] < num[Reached[m]]
  <2>1. m - (k + 1) \in Nat /\ k + 1 + (m - (k + 1)) = m
    BY <1>4
  <2> QED
    BY <1>1, <1>2, <1>4, <2>1, WalkHigher
<1>5. ~(i < j) /\ ~(j < i)
  BY <1>3, <1>4
<1> QED
  BY <1>5

-----------------------------------------------------------------------------
(* The walk when the list changes.                                         *)

\* Entries keep their places when one is appended.
LEMMA AppendPlaces ==
  ASSUME TypeOK, Linked, TypeOK', NEW n \in Neighbors \ Listed, AppendItem(n)
  PROVE  \A k \in Nat : Reached[k] # NULL => Reached'[k] = Reached[k]
<1> USE NullAssumption
<1>1. Walk /\ Walk'
  BY ReachedIs, ReachedIsNext
<1> DEFINE T == {k \in Nat : Reached[k] # NULL => Reached'[k] = Reached[k]}
<1>2. 0 \in T
  BY <1>1 DEF Walk, AppendItem, Linked
<1>3. ASSUME NEW k \in Nat, k \in T
      PROVE  k + 1 \in T
  <2> SUFFICES ASSUME Reached[k + 1] # NULL PROVE Reached'[k + 1] = Reached[k + 1]
    OBVIOUS
  <2>1. Reached[k] # NULL /\ Reached[k + 1] = next[Reached[k]]
    BY <1>1 DEF Walk
  <2>2. Reached[k] \in Neighbors /\ Reached'[k] = Reached[k]
    BY <1>1, <1>3, <2>1 DEF Walk, Pointer
  <2>3. Reached[k] # tail
    BY <2>1 DEF Linked
  <2>4. next'[Reached[k]] = next[Reached[k]]
    BY <2>2, <2>3 DEF AppendItem
  <2> QED
    BY <1>1, <2>1, <2>2, <2>4 DEF Walk
<1> HIDE DEF T
<1>4. Nat \subseteq T
  BY <1>2, <1>3, SetInduction
<1> QED
  BY <1>4 DEF T

\* Those behind an entry move up one place when it is removed.
LEMMA RemovePlaces ==
  ASSUME TypeOK, Linked, TypeOK', NEW n \in Listed, RemoveItem(n),
         NEW num \in Numbering, Ordered(num)
  PROVE  \A k \in Nat : Reached[k] # NULL /\ Reached[k] # n =>
           \E j \in 0..k : Reached'[j] = Reached[k]
<1> USE NullAssumption
<1>1. Walk /\ Walk'
  BY ReachedIs, ReachedIsNext
<1>2. /\ head' = IF prev[n] = NULL THEN next[n] ELSE head
      /\ \A m \in Listed \ {n} : next'[m] = IF m = prev[n] THEN next[n] ELSE next[m]
      /\ prev[n] = NULL => head = n
      /\ prev[n] # NULL => prev[n] \in Listed /\ next[prev[n]] = n
      /\ next[n] # NULL => next[n] \in Listed /\ prev[next[n]] = n
  BY DEF RemoveItem, RemoveOk, PrevSideOk, NextSideOk, Linked, Listed, TypeOK, Pointer
<1>3. \A m \in Listed : num[m] \in Nat
  BY DEF Numbering, Listed
<1> DEFINE Same(k) == Reached[k] # n /\ Reached'[k] = Reached[k]
           Moved(k) == /\ Reached'[k] = Reached[k + 1]
                       /\ Reached[k + 1] # NULL => num[n] < num[Reached[k + 1]]
           T == {k \in Nat : Same(k) \/ Moved(k)}
<1>4. 0 \in T
  <2>1. Reached[0] = head /\ Reached'[0] = head' /\ Reached[0 + 1] = Reached[1]
    BY <1>1 DEF Walk
  <2>2. CASE prev[n] = NULL
    <3>1. Reached[1] = next[n] /\ head' = next[n]
      <4>1. Reached[0 + 1] = next[n]
        BY <1>1, <1>2, <2>1, <2>2 DEF Walk, Listed
      <4> QED
        BY <1>2, <2>2, <4>1
    <3>2. next[n] # NULL => num[n] < num[next[n]]
      BY DEF Ordered
    <3> QED
      BY <2>1, <3>1, <3>2
  <2>3. CASE prev[n] # NULL
    <3>1. head # n
      BY <2>3 DEF Linked, Listed
    <3> QED
      BY <1>2, <2>1, <2>3, <3>1
  <2> QED
    BY <2>2, <2>3
<1>5. ASSUME NEW k \in Nat, k \in T
      PROVE  k + 1 \in T
  <2>1. /\ k + 1 \in Nat
        /\ Reached[k + 1] = IF Reached[k] = NULL THEN NULL ELSE next[Reached[k]]
        /\ Reached'[k + 1] = IF Reached'[k] = NULL THEN NULL ELSE next'[Reached'[k]]
        /\ Reached[(k + 1) + 1] = IF Reached[k + 1] = NULL THEN NULL
                                  ELSE next[Reached[k + 1]]
    BY <1>1 DEF Walk
  <2>2. CASE Same(k)
    <3>1. CASE Reached[k] = NULL
      BY <2>1, <2>2, <3>1 DEF Listed
    <3>2. CASE Reached[k] # NULL
      <4>1. Reached[k] \in Listed \ {n}
        BY <2>2, <3>2, WalkListed
      <4>2. CASE Reached[k] = prev[n]
        <5>1. Reached[k + 1] = n /\ Reached'[k + 1] = next[n]
          BY <1>2, <2>1, <2>2, <3>2, <4>1, <4>2
        <5>2. Reached[(k + 1) + 1] = next[n]
          BY <2>1, <5>1 DEF Listed
        <5>3. next[n] # NULL => num[n] < num[next[n]]
          BY DEF Ordered
        <5> QED
          BY <2>1, <5>1, <5>2, <5>3
      <4>3. CASE Reached[k] # prev[n]
        <5>1. Reached'[k + 1] = Reached[k + 1]
          BY <1>2, <2>1, <2>2, <3>2, <4>1, <4>3
        <5>2. Reached[k + 1] # n
          <6>1. ASSUME next[Reached[k]] = n PROVE FALSE
            <7>1. prev[n] = Reached[k]
              BY <4>1, <6>1 DEF Linked, Listed
            <7> QED
              BY <4>3, <7>1
          <6> QED
            BY <2>1, <3>2, <6>1
        <5> QED
          BY <2>1, <5>1, <5>2
      <4> QED
        BY <4>2, <4>3
    <3> QED
      BY <3>1, <3>2
  <2>3. CASE Moved(k)
    <3>1. CASE Reached[k + 1] = NULL
      BY <2>1, <2>3, <3>1
    <3>2. CASE Reached[k + 1] # NULL
      <4> DEFINE m == Reached[k + 1]
      <4>1. m \in Listed /\ num[n] < num[m]
        BY <2>1, <2>3, <3>2, WalkListed
      <4>2. m # n /\ m # prev[n]
        <5>1. m # n
          BY <1>3, <4>1
        <5>2. ASSUME m = prev[n] PROVE FALSE
          <6>1. next[m] = n /\ num[m] < num[n]
            BY <1>2, <4>1, <5>2 DEF Ordered, Listed
          <6> QED
            BY <1>3, <4>1, <6>1
        <5> QED
          BY <5>1, <5>2
      <4>3. next'[m] = next[m]
        BY <1>2, <4>1, <4>2
      <4>4. Reached'[k + 1] = next[m] /\ Reached[(k + 1) + 1] = next[m]
        BY <2>1, <2>3, <3>2, <4>3
      <4>5. next[m] # NULL => num[n] < num[next[m]]
        <5> HAVE next[m] # NULL
        <5>1. num[m] < num[next[m]]
          BY <4>1 DEF Ordered
        <5>2. next[m] \in Listed
          BY <4>1 DEF Linked, Listed, TypeOK, Pointer
        <5> HIDE DEF m
        <5> QED
          BY <1>3, <4>1, <5>1, <5>2
      <4> QED
        BY <2>1, <4>4, <4>5
    <3> QED
      BY <3>1, <3>2
  <2> QED
    BY <1>5, <2>2, <2>3
<1>6. Nat \subseteq T
  <2> HIDE DEF T
  <2> QED
    BY <1>4, <1>5, SetInduction
<1>7. SUFFICES ASSUME NEW k \in Nat, Reached[k] # NULL, Reached[k] # n
               PROVE  \E j \in 0..k : Reached'[j] = Reached[k]
  OBVIOUS
<1>8. CASE k = 0
  <2>1. Same(0) \/ Moved(0)
    BY <1>6
  <2>2. head # n => Reached'[0] = Reached[0]
    BY <1>1, <1>2 DEF Walk
  <2> QED
    BY <1>1, <1>7, <1>8, <2>2 DEF Walk
<1>9. CASE k # 0
  <2>1. k \in T /\ k - 1 \in T /\ (k - 1) + 1 = k /\ k - 1 \in Nat
    BY <1>6, <1>9
  <2>2. CASE Same(k)
    BY <2>2
  <2>3. CASE Moved(k - 1)
    BY <2>1, <2>3
  <2>4. CASE Same(k - 1) /\ Moved(k)
    <3>1. /\ Reached[k - 1] # NULL /\ Reached[k] = next[Reached[k - 1]]
          /\ Reached'[k] = next'[Reached[k - 1]]
      BY <1>1, <1>7, <2>1, <2>4 DEF Walk
    <3>2. Reached[k - 1] \in Listed \ {n}
      BY <2>1, <2>4, <3>1, WalkListed
    <3>3. Reached[k - 1] # prev[n]
      BY <1>2, <1>7, <3>1
    <3> QED
      BY <1>2, <3>1, <3>2, <3>3
  <2> QED
    BY <2>1, <2>2, <2>3, <2>4
<1> QED
  BY <1>8, <1>9

\* What the list does behind a reader: no entry that was ever made is made again,
\* and each that stays is found at its place or before it.
LEMMA ListWorkPlaces ==
  ASSUME ListInv, OrderInv, TypeOK', Receive \/ Purge \/ Tick
  PROVE  /\ allocated \subseteq allocated'
         /\ \A m \in allocated : m \in Listed' => m \in Listed
         /\ \A k \in Nat : Reached[k] \in Listed' =>
              \E j \in 0..k : Reached'[j] = Reached[k]
<1> USE NullAssumption DEF ListInv
<1>1. ASSUME NEW n \in Neighbors, Create(n)
      PROVE  /\ allocated \subseteq allocated'
             /\ \A m \in allocated : m \in Listed' => m \in Listed
             /\ \A k \in Nat : Reached[k] \in Listed' =>
                  \E j \in 0..k : Reached'[j] = Reached[k]
  <2>1. n \notin allocated /\ allocated' = allocated \union {n}
    BY <1>1 DEF Create, NewNeighbor, SetIdentity, DeleteNeighbor
  <2>2. n \in Neighbors \ Listed
    BY <2>1 DEF NoDanglingEntry
  <2>3. AppendItem(n)
    BY <1>1, <2>2 DEF Create, NewNeighbor, SetIdentity, DeleteNeighbor, AppendOk, Linked
  <2>4. Listed' = Listed \union {n}
    BY <2>2, <2>3, AppendEffect
  <2>5. \A k \in Nat : Reached[k] # NULL => Reached'[k] = Reached[k]
    BY <2>2, <2>3, AppendPlaces
  <2>6. \A k \in Nat : Reached[k] \in Listed' => Reached[k] # NULL /\ k \in 0..k
    BY DEF Listed
  <2> QED
    BY <2>1, <2>4, <2>5, <2>6
<1>2. ASSUME PurgeExpired
      PROVE  /\ allocated \subseteq allocated'
             /\ \A m \in allocated : m \in Listed' => m \in Listed
             /\ \A k \in Nat : Reached[k] \in Listed' =>
                  \E j \in 0..k : Reached'[j] = Reached[k]
  <2>1. item \in Listed /\ RemoveItem(item) /\ allocated' = allocated
    BY <1>2 DEF PurgeExpired, DeleteNeighbor, Turns
  <2>2. Listed' = Listed \ {item}
    BY <2>1, RemoveEffect
  <2>3. PICK num \in Numbering : Ordered(num)
    BY DEF OrderInv
  <2>4. \A k \in Nat : Reached[k] # NULL /\ Reached[k] # item =>
          \E j \in 0..k : Reached'[j] = Reached[k]
    BY <2>1, <2>3, RemovePlaces
  <2>5. \A k \in Nat : Reached[k] \in Listed' => Reached[k] # NULL /\ Reached[k] # item
    BY <2>2 DEF Listed
  <2> QED
    BY <2>1, <2>2, <2>4, <2>5
<1>3. ASSUME UNCHANGED <<head, next, prev>>, allocated \subseteq allocated'
      PROVE  /\ allocated \subseteq allocated'
             /\ \A m \in allocated : m \in Listed' => m \in Listed
             /\ \A k \in Nat : Reached[k] \in Listed' =>
                  \E j \in 0..k : Reached'[j] = Reached[k]
  <2>1. Listed' = Listed
    BY <1>3 DEF Listed
  <2>2. Reached' = Reached
    BY <1>3 DEF Reached
  <2>3. \A k \in Nat : k \in 0..k
    OBVIOUS
  <2> QED
    BY <1>3, <2>1, <2>2, <2>3
<1>4. CASE \/ \E id \in Identities, f \in Frames : BeginReceive(id, f)
           \/ LookupNext \/ LookupHit \/ CreateNoMemory
           \/ \E n \in Neighbors : CreatePartial(n)
           \/ TimerFires \/ BeginPurge \/ PurgeKeep \/ EndPurge \/ Tick
  <2>1. UNCHANGED <<head, next, prev>> /\ allocated \subseteq allocated'
    BY <1>4 DEF BeginReceive, StartLookup, LookupNext, LookupHit, CreateNoMemory,
       CreatePartial, NewNeighbor, SameIdentity, TimerFires, ReadClock, BeginPurge,
       StartPurge, PurgeKeep, EndPurge, Tick, heapVars, listVars, opVars
  <2> QED
    BY <1>3, <2>1
<1> QED
  BY <1>1, <1>2, <1>4 DEF Receive, Purge

-----------------------------------------------------------------------------
(* The document.                                                           *)

\* Showing an entry puts one piece at the end of what is given.
LEMMA OneMore ==
  ASSUME doc \in Seq(Piece), batch \in Seq(Piece), NEW piece \in Piece,
         doc' = doc, batch' = Append(batch, piece)
  PROVE  /\ Given \in Seq(Piece) /\ Len(Given)' = Len(Given) + 1
         /\ Given' \in Seq(Piece) /\ Given'[Len(Given) + 1] = piece
         /\ \A i \in 1..Len(Given) : Given'[i] = Given[i]
         /\ batch' \in Seq(Piece) /\ batch' # <<>> /\ Given' # <<>>
<1>1. /\ Len(doc) \in Nat /\ Len(batch) \in Nat
      /\ batch' \in Seq(Piece) /\ Len(batch') = Len(batch) + 1
      /\ batch'[Len(batch) + 1] = piece
      /\ \A i \in 1..Len(batch) : batch'[i] = batch[i]
  BY AppendProperties
<1>2. /\ doc \o batch \in Seq(Piece) /\ Len(doc \o batch) = Len(doc) + Len(batch)
      /\ \A i \in 1..(Len(doc) + Len(batch)) :
           (doc \o batch)[i] = IF i <= Len(doc) THEN doc[i] ELSE batch[i - Len(doc)]
  BY ConcatProperties
<1>3. /\ doc \o batch' \in Seq(Piece) /\ Len(doc \o batch') = Len(doc) + Len(batch')
      /\ \A i \in 1..(Len(doc) + Len(batch')) :
           (doc \o batch')[i] = IF i <= Len(doc) THEN doc[i] ELSE batch'[i - Len(doc)]
  BY <1>1, ConcatProperties
<1>4. Given = doc \o batch /\ Given' = doc \o batch'
  BY DEF Given
<1>5. (doc \o batch')[Len(doc) + Len(batch) + 1] = piece
  <2>1. /\ Len(doc) + Len(batch) + 1 \in 1..(Len(doc) + Len(batch'))
        /\ ~(Len(doc) + Len(batch) + 1 <= Len(doc))
        /\ (Len(doc) + Len(batch) + 1) - Len(doc) = Len(batch) + 1
    BY <1>1
  <2> QED
    BY <1>1, <1>3, <2>1
<1>6. \A i \in 1..(Len(doc) + Len(batch)) : (doc \o batch')[i] = (doc \o batch)[i]
  <2> TAKE i \in 1..(Len(doc) + Len(batch))
  <2>1. i \in 1..(Len(doc) + Len(batch')) /\ (~(i <= Len(doc)) => i - Len(doc) \in 1..Len(batch))
    BY <1>1
  <2> QED
    BY <1>1, <1>2, <1>3, <2>1
<1>7. Len(doc \o batch') > 0 /\ Len(batch') > 0
  BY <1>1, <1>3
<1>8. Len(doc \o batch') = Len(doc \o batch) + 1
  BY <1>1, <1>2, <1>3
<1> QED
  BY <1>1, <1>2, <1>3, <1>4, <1>5, <1>6, <1>7, <1>8

-----------------------------------------------------------------------------
(* The inductive invariant.                                                *)

\* Who holds what, and where a batch is.
ReaderTurns ==
  /\ Holding => op = "idle"
  /\ (at = "fill") <=> (batch # <<>>)
  /\ ~Holding => cur = NULL
  /\ at = "fill" => cur # NULL

\* The index that is shown next.
Bound == IF at = "fill" THEN pos + 1 ELSE pos

\* What was given and is still in the list is before that index, and what was
\* given and is not does not come back.
Placed ==
  \A i \in DOMAIN Given :
    /\ Given[i].entry \in allocated
    /\ Given[i].entry \in Listed => \E k \in 0..(Bound - 1) : Reached[k] = Given[i].entry

\* Nothing was given at index 0 only.
Begun == (Given = <<>>) <=> (Bound = 0)

ReaderInv ==
  /\ ListInv /\ OrderInv /\ ReaderTypeOK
  /\ ReaderTurns /\ IndexIsPlace
  /\ Placed /\ Begun /\ ShownOnce /\ OpenedFirst

LEMMA ReaderInvInit == ReaderInit => ReaderInv
<1> SUFFICES ASSUME ReaderInit PROVE ReaderInv
  OBVIOUS
<1>1. /\ at = "idle" /\ pos = 0 /\ cur = NULL /\ batch = <<>> /\ doc = <<>> /\ Init
  BY DEF ReaderInit
<1>2. ListInv /\ OrderInv /\ TypeOK
  BY <1>1, ListInit, OrderInit DEF ListInv
<1>3. Given = <<>>
  BY <1>1 DEF Given
<1>4. ReaderTypeOK
  BY <1>1, <1>2 DEF ReaderTypeOK, Pointer
<1>5. ReaderTurns /\ IndexIsPlace /\ Begun
  BY <1>1, <1>3 DEF ReaderTurns, IndexIsPlace, Holding, Begun, Bound
<1>6. Placed /\ ShownOnce /\ OpenedFirst
  BY <1>3 DEF Placed, ShownOnce, OpenedFirst
<1> QED
  BY <1>2, <1>4, <1>5, <1>6 DEF ReaderInv

\* What a reading process leaves alone.
LEMMA ListStays ==
  ASSUME ListInv, OrderInv, UNCHANGED vars
  PROVE  /\ ListInv' /\ OrderInv' /\ TypeOK' /\ Reached' = Reached
         /\ Listed' = Listed /\ allocated' = allocated /\ head' = head /\ op' = op
<1>1. ListInv' /\ OrderInv'
  BY ListStep, OrderStep
<1> QED
  BY <1>1 DEF ListInv, vars, heapVars, listVars, opVars, Reached, Listed

LEMMA UpTo ==
  ASSUME NEW i \in Nat, NEW j \in Nat, i <= j
  PROVE  0..(i - 1) \subseteq 0..(j - 1)
OBVIOUS

\* Nothing more is given, and the index does not go down.
LEMMA NothingShown ==
  ASSUME ReaderInv, UNCHANGED vars, Given' = Given, Bound' \in Nat, Bound <= Bound',
         Given = <<>> => Bound' = 0
  PROVE  Placed' /\ Begun' /\ ShownOnce' /\ OpenedFirst'
<1>1. Reached' = Reached /\ Listed' = Listed /\ allocated' = allocated
  BY ListStays DEF ReaderInv
<1>2. Bound \in Nat /\ Bound' \in Nat
  <2>1. pos \in Nat
    BY DEF ReaderInv, ReaderTypeOK
  <2>2. Bound \in Nat
    BY <2>1 DEF Bound
  <2> QED
    BY <2>2
<1>3. 0..(Bound - 1) \subseteq 0..(Bound' - 1)
  BY <1>2, UpTo
<1>4. Placed'
  BY <1>1, <1>3 DEF Placed, ReaderInv
<1>5. Begun'
  BY <1>2 DEF Begun, ReaderInv
<1> QED
  BY <1>4, <1>5 DEF ShownOnce, OpenedFirst, ReaderInv

\* An entry is shown at the index that is next.
LEMMA EntryShown ==
  ASSUME ReaderInv, UNCHANGED vars, NEW n \in Listed, Reached[Bound] = n,
         NEW parsed \in BOOLEAN, doc' = doc,
         batch' = Append(batch, Shows(n, parsed)), Bound' = Bound + 1
  PROVE  /\ Placed' /\ Begun' /\ ShownOnce' /\ OpenedFirst'
         /\ batch' \in Seq(Piece) /\ batch' # <<>>
<1> DEFINE piece == Shows(n, parsed)
           last == Len(Given) + 1
<1>1. /\ piece \in Piece /\ piece.entry = n /\ (piece.open <=> n = head)
  BY DEF Shows, Piece, Listed
<1> HIDE DEF piece
<1>2. /\ Given \in Seq(Piece) /\ Len(Given)' = last /\ Given' \in Seq(Piece)
      /\ Given'[last] = piece /\ \A i \in 1..Len(Given) : Given'[i] = Given[i]
      /\ batch' \in Seq(Piece) /\ batch' # <<>> /\ Given' # <<>>
  BY <1>1, OneMore DEF ReaderInv, ReaderTypeOK, piece
<1>3. /\ DOMAIN Given = 1..Len(Given) /\ DOMAIN Given' = 1..last /\ Len(Given) \in Nat
      /\ \A i \in 1..last : i \in 1..Len(Given) \/ i = last
  BY <1>2
<1>4. Reached' = Reached /\ Listed' = Listed /\ allocated' = allocated /\ head' = head
  BY ListStays DEF ReaderInv
<1>5. Bound \in Nat
  BY DEF Bound, ReaderInv, ReaderTypeOK
<1>6. \A k \in Nat : Reached[k] = n => k = Bound
  BY <1>5, WalkOnce, NullAssumption DEF ReaderInv, Listed
<1>7. \A i \in 1..Len(Given) : Given[i].entry # n
  BY <1>3, <1>5, <1>6 DEF Placed, ReaderInv
<1>8. n \in allocated
  BY DEF ReaderInv, ListInv, NoDanglingEntry
<1>9. Placed'
  <2> SUFFICES ASSUME NEW i \in 1..last
               PROVE  /\ Given'[i].entry \in allocated
                      /\ Given'[i].entry \in Listed =>
                           \E k \in 0..Bound : Reached[k] = Given'[i].entry
    BY <1>3, <1>4, <1>5 DEF Placed
  <2>1. CASE i = last
    BY <1>1, <1>2, <1>5, <1>8, <2>1
  <2>2. CASE i \in 1..Len(Given)
    <3>1. 0..(Bound - 1) \subseteq 0..Bound
      BY <1>5
    <3> QED
      BY <1>2, <1>3, <2>2, <3>1 DEF Placed, ReaderInv
  <2> QED
    BY <1>3, <2>1, <2>2
<1>10. ShownOnce'
  <2> SUFFICES ASSUME NEW i \in 1..last, NEW j \in 1..last,
                      Given'[i].entry = Given'[j].entry
               PROVE  i = j
    BY <1>3 DEF ShownOnce
  <2> QED
    BY <1>1, <1>2, <1>3, <1>7 DEF ShownOnce, ReaderInv
<1>11. n = head <=> Bound = 0
  <2>1. Reached[0] = head
    BY ReachedIs DEF Walk, ReaderInv, ListInv
  <2>2. 0 \in Nat
    OBVIOUS
  <2> QED
    BY <1>6, <2>1, <2>2
<1>12. Bound = 0 <=> Len(Given) = 0
  <2>1. Given = <<>> <=> Len(Given) = 0
    BY <1>2, EmptySeq
  <2> QED
    BY <2>1 DEF ReaderInv, Begun
<1>13. OpenedFirst'
  <2> SUFFICES ASSUME NEW i \in 1..last
               PROVE  Given'[i].open <=> i = 1
    BY <1>3 DEF OpenedFirst
  <2>1. CASE i = last
    BY <1>1, <1>2, <1>3, <1>11, <1>12, <2>1
  <2>2. CASE i \in 1..Len(Given)
    BY <1>2, <1>3, <2>2 DEF OpenedFirst, ReaderInv
  <2> QED
    BY <1>3, <2>1, <2>2
<1>14. Begun'
  BY <1>2, <1>5 DEF Begun
<1> QED
  BY <1>2, <1>9, <1>10, <1>13, <1>14
-----------------------------------------------------------------------------
(* The reader's steps.                                                     *)

\* What a step that shows nothing has to keep.
LEMMA QuietStep ==
  ASSUME ReaderInv, UNCHANGED vars, Given' = Given, batch' \in Seq(Piece),
         doc' \in Seq(Piece), at' \in {"idle", "first", "fill", "end", "dead"}, pos' \in Nat,
         cur' \in Pointer, ReaderTurns', IndexIsPlace', Bound' \in Nat, Bound <= Bound',
         Given = <<>> => Bound' = 0
  PROVE  ReaderInv'
<1>1. ListInv' /\ OrderInv' /\ TypeOK'
  BY ListStays DEF ReaderInv
<1>2. Placed' /\ Begun' /\ ShownOnce' /\ OpenedFirst'
  BY NothingShown
<1>3. ReaderTypeOK'
  BY <1>1 DEF ReaderTypeOK
<1> QED
  BY <1>1, <1>2, <1>3 DEF ReaderInv

\* The facts the steps start from.
LEMMA Facts ==
  ASSUME ReaderInv
  PROVE  /\ TypeOK /\ Linked /\ Walk /\ pos \in Nat /\ cur \in Pointer
         /\ batch \in Seq(Piece) /\ doc \in Seq(Piece) /\ Bound \in Nat
         /\ at \in {"idle", "first", "fill", "end", "dead"}
         /\ \A k \in Nat : Reached[k] # NULL => Reached[k] \in Listed
         /\ Listed \subseteq Pointer /\ NULL \notin Listed
         /\ at # "fill" => batch = <<>> /\ Bound = pos
         /\ at = "fill" => batch # <<>> /\ Bound = pos + 1
<1>1. TypeOK /\ Linked
  BY DEF ReaderInv, ListInv
<1>2. Walk /\ \A k \in Nat : Reached[k] # NULL => Reached[k] \in Listed
  BY <1>1, ReachedIs, WalkListed
<1>3. Listed \subseteq Pointer /\ NULL \notin Listed
  BY NullAssumption DEF Listed, Pointer
<1>4. /\ pos \in Nat /\ cur \in Pointer /\ batch \in Seq(Piece) /\ doc \in Seq(Piece)
      /\ at \in {"idle", "first", "fill", "end", "dead"}
  BY DEF ReaderInv, ReaderTypeOK
<1>5. at = "fill" <=> batch # <<>>
  BY DEF ReaderInv, ReaderTurns
<1>6. Bound \in Nat /\ (at = "fill" => Bound = pos + 1) /\ (at # "fill" => Bound = pos)
  BY <1>4 DEF Bound
<1> QED
  BY <1>1, <1>2, <1>3, <1>4, <1>5, <1>6

\* One further on in the walk.
LEMMA Further ==
  ASSUME ReaderInv, Holding, cur # NULL
  PROVE  /\ cur \in Listed /\ Reached[pos] = cur
         /\ SeqNext(cur, pos).entry = Reached[pos + 1]
         /\ SeqNext(cur, pos).index = pos + 1
         /\ pos + 1 \in Nat /\ Reached[pos + 1] \in Pointer
<1>1. cur \in Listed /\ Reached[pos] = cur
  BY DEF ReaderInv, IndexIsPlace
<1>2. Walk /\ pos \in Nat
  BY Facts
<1>3. Reached[pos + 1] = next[cur] /\ pos + 1 \in Nat
  BY <1>1, <1>2 DEF Walk
<1> QED
  BY <1>1, <1>2, <1>3 DEF SeqNext, Walk

LEMMA StartBatchStep ==
  ASSUME ReaderInv, StartBatch
  PROVE  ReaderInv'
<1>1. /\ at = "idle" /\ op = "idle" /\ cur' = GetByIndex(pos) /\ at' = "first"
      /\ UNCHANGED vars /\ pos' = pos /\ batch' = batch /\ doc' = doc
  BY DEF StartBatch
<1>2. Reached' = Reached /\ Listed' = Listed /\ op' = op
  BY <1>1, ListStays DEF ReaderInv
<1>3. cur' \in Pointer /\ (cur' # NULL => cur' = Reached[pos])
  BY <1>1, Facts DEF GetByIndex, Walk, Pointer
<1>4. IndexIsPlace'
  BY <1>1, <1>2, <1>3, Facts DEF IndexIsPlace
<1>5. ReaderTurns'
  BY <1>1, <1>2, Facts DEF ReaderTurns, Holding
<1>6. Given' = Given
  BY <1>1 DEF Given
<1>7. Bound' = pos /\ Bound = pos
  BY <1>1 DEF Bound
<1>8. Given = <<>> => Bound = 0
  BY DEF ReaderInv, Begun
<1> QED
  BY <1>1, <1>3, <1>4, <1>5, <1>6, <1>7, <1>8, Facts, QuietStep

LEMMA StartBatchDiesStep ==
  ASSUME ReaderInv, StartBatchDies
  PROVE  ReaderInv'
<1>1. /\ at = "idle" /\ op = "idle" /\ at' = "dead" /\ cur = NULL
      /\ UNCHANGED vars /\ pos' = pos /\ cur' = cur /\ batch' = batch /\ doc' = doc
  BY DEF StartBatchDies, ReaderInv, ReaderTurns, Holding
<1>2. op' = op
  BY <1>1, ListStays DEF ReaderInv
<1>3. IndexIsPlace' /\ ReaderTurns'
  BY <1>1, <1>2, Facts DEF ReaderTurns, IndexIsPlace, Holding
<1>4. Given' = Given
  BY <1>1 DEF Given
<1>5. Bound' = pos /\ Bound = pos
  BY <1>1 DEF Bound
<1>6. Given = <<>> => Bound = 0
  BY DEF ReaderInv, Begun
<1> QED
  BY <1>1, <1>3, <1>4, <1>5, <1>6, Facts, QuietStep

LEMMA EndOfFileStep ==
  ASSUME ReaderInv, EndOfFile
  PROVE  ReaderInv'
<1>1. /\ at = "first" /\ cur = NULL /\ at' = "end"
      /\ UNCHANGED vars /\ pos' = pos /\ cur' = cur /\ batch' = batch /\ doc' = doc
  BY DEF EndOfFile
<1>2. IndexIsPlace' /\ ReaderTurns'
  BY <1>1, Facts DEF ReaderTurns, IndexIsPlace, Holding
<1>3. Given' = Given
  BY <1>1 DEF Given
<1>4. Bound' = pos /\ Bound = pos
  BY <1>1 DEF Bound
<1>5. Given = <<>> => Bound = 0
  BY DEF ReaderInv, Begun
<1> QED
  BY <1>1, <1>2, <1>3, <1>4, <1>5, Facts, QuietStep

\* The first entry of the document prints its bracket, so it is not passed over.
LEMMA SkipSilentStep ==
  ASSUME ReaderInv, SkipSilent
  PROVE  ReaderInv'
<1>1. /\ at = "first" /\ cur # NULL /\ UNCHANGED vars /\ at' = at /\ batch' = batch
      /\ doc' = doc /\ Holding
      /\ cur' = SeqNext(cur, pos).entry /\ pos' = SeqNext(cur, pos).index
  BY DEF SkipSilent, Holding
<1>2. /\ cur \in Listed /\ Reached[pos] = cur /\ cur' = Reached[pos + 1]
      /\ pos' = pos + 1 /\ pos' \in Nat /\ cur' \in Pointer
  BY <1>1, Further
<1>3. Reached' = Reached /\ Listed' = Listed /\ op' = op
  BY <1>1, ListStays DEF ReaderInv
<1>4. cur # head
  BY DEF SkipSilent, Shows, Prints
<1>5. pos # 0
  BY <1>2, <1>4, Facts DEF Walk
<1>6. Bound = pos /\ Bound' = pos + 1
  BY <1>1, <1>2 DEF Bound
<1>7. Given # <<>>
  BY <1>5, <1>6 DEF ReaderInv, Begun
<1>8. IndexIsPlace'
  BY <1>2, <1>3, Facts DEF IndexIsPlace
<1>9. ReaderTurns'
  BY <1>1, <1>3, Facts DEF ReaderInv, ReaderTurns, Holding
<1>10. Given' = Given
  BY <1>1 DEF Given
<1>11. Bound' \in Nat /\ Bound <= Bound'
  BY <1>6, Facts
<1> QED
  BY <1>1, <1>2, <1>7, <1>8, <1>9, <1>10, <1>11, Facts, QuietStep

LEMMA GrowBufferStep ==
  ASSUME ReaderInv, GrowBuffer
  PROVE  ReaderInv'
<1>1. /\ at = "first" /\ at' = "idle" /\ cur' = NULL
      /\ UNCHANGED vars /\ pos' = pos /\ batch' = batch /\ doc' = doc
  BY DEF GrowBuffer
<1>2. IndexIsPlace' /\ ReaderTurns'
  BY <1>1, Facts DEF ReaderTurns, IndexIsPlace, Holding
<1>3. Given' = Given
  BY <1>1 DEF Given
<1>4. Bound' = pos /\ Bound = pos
  BY <1>1 DEF Bound
<1>5. Given = <<>> => Bound = 0
  BY DEF ReaderInv, Begun
<1> QED
  BY <1>1, <1>2, <1>3, <1>4, <1>5, Facts, QuietStep DEF Pointer

LEMMA ShowFirstStep ==
  ASSUME ReaderInv, ShowFirst
  PROVE  ReaderInv'
<1>1. /\ at = "first" /\ cur # NULL /\ at' = "fill" /\ Holding
      /\ UNCHANGED vars /\ pos' = pos /\ cur' = cur /\ doc' = doc
  BY DEF ShowFirst, Holding
<1>2. PICK parsed \in BOOLEAN : batch' = <<Shows(cur, parsed)>>
  BY DEF ShowFirst
<1>3. /\ cur \in Listed /\ Reached[Bound] = cur /\ batch = <<>>
      /\ Bound = pos /\ Bound' = Bound + 1
  BY <1>1, Further, Facts DEF Bound
<1>4. batch' = Append(batch, Shows(cur, parsed))
  BY <1>2, <1>3
<1>5. /\ Placed' /\ Begun' /\ ShownOnce' /\ OpenedFirst'
      /\ batch' \in Seq(Piece) /\ batch' # <<>>
  BY <1>1, <1>3, <1>4, EntryShown
<1>6. /\ ListInv' /\ OrderInv' /\ TypeOK' /\ Reached' = Reached
      /\ Listed' = Listed /\ op' = op
  BY <1>1, ListStays DEF ReaderInv
<1>7. ReaderTypeOK'
  BY <1>1, <1>5, <1>6, Facts DEF ReaderTypeOK
<1>8. ReaderTurns'
  BY <1>1, <1>5, <1>6 DEF ReaderInv, ReaderTurns, Holding
<1>9. IndexIsPlace'
  BY <1>1, <1>3, <1>6 DEF IndexIsPlace
<1> QED
  BY <1>5, <1>6, <1>7, <1>8, <1>9 DEF ReaderInv

LEMMA ShowNextStep ==
  ASSUME ReaderInv, ShowNext
  PROVE  ReaderInv'
<1> DEFINE n == SeqNext(cur, pos).entry
<1>1. /\ at = "fill" /\ n # NULL /\ at' = at /\ Holding
      /\ cur' = n /\ pos' = SeqNext(cur, pos).index /\ UNCHANGED vars /\ doc' = doc
  BY DEF ShowNext, Holding
<1>2. PICK parsed \in BOOLEAN :
        batch' = IF Prints(Shows(n, parsed)) THEN Append(batch, Shows(n, parsed)) ELSE batch
  BY DEF ShowNext
<1> HIDE DEF n
<1>3. cur # NULL
  BY <1>1 DEF ReaderInv, ReaderTurns
<1>4. /\ n = Reached[pos + 1] /\ pos' = pos + 1 /\ pos + 1 \in Nat /\ n \in Pointer
  BY <1>1, <1>3, Further DEF n
<1>5. /\ n \in Listed /\ Bound = pos + 1 /\ Reached[Bound] = n
  BY <1>1, <1>4, Facts
<1>6. Bound' = Bound + 1
  BY <1>1, <1>4, <1>5 DEF Bound
<1>7. /\ ListInv' /\ OrderInv' /\ TypeOK' /\ Reached' = Reached
      /\ Listed' = Listed /\ op' = op
  BY <1>1, ListStays DEF ReaderInv
<1>8. IndexIsPlace'
  BY <1>1, <1>4, <1>5, <1>7 DEF IndexIsPlace
<1>9. CASE Prints(Shows(n, parsed))
  <2>1. batch' = Append(batch, Shows(n, parsed))
    BY <1>2, <1>9
  <2>2. /\ Placed' /\ Begun' /\ ShownOnce' /\ OpenedFirst'
        /\ batch' \in Seq(Piece) /\ batch' # <<>>
    BY <1>1, <1>5, <1>6, <2>1, EntryShown
  <2>3. ReaderTypeOK'
    BY <1>1, <1>4, <1>7, <2>2, Facts DEF ReaderTypeOK
  <2>4. ReaderTurns'
    BY <1>1, <1>7, <2>2 DEF ReaderInv, ReaderTurns, Holding
  <2> QED
    BY <1>7, <1>8, <2>2, <2>3, <2>4 DEF ReaderInv
<1>10. CASE ~Prints(Shows(n, parsed))
  <2>1. batch' = batch
    BY <1>2, <1>10
  <2>2. Given' = Given
    BY <1>1, <2>1 DEF Given
  <2>3. ReaderTurns'
    BY <1>1, <1>7, <2>1 DEF ReaderInv, ReaderTurns, Holding
  <2>4. Bound \in Nat /\ pos \in Nat
    BY Facts
  <2>5. Bound' \in Nat /\ Bound <= Bound' /\ Bound # 0
    BY <1>5, <1>6, <2>4
  <2>6. Given # <<>>
    BY <2>5 DEF ReaderInv, Begun
  <2> QED
    BY <1>1, <1>4, <1>8, <2>1, <2>2, <2>3, <2>5, <2>6, Facts, QuietStep
<1> QED
  BY <1>9, <1>10

LEMMA EndBatchStep ==
  ASSUME ReaderInv, EndBatch
  PROVE  ReaderInv'
<1>1. /\ at = "fill" /\ at' = "idle" /\ doc' = doc \o batch /\ batch' = <<>>
      /\ pos' = pos + 1 /\ cur' = NULL /\ UNCHANGED vars
  BY DEF EndBatch
<1>2. IndexIsPlace' /\ ReaderTurns'
  BY <1>1 DEF ReaderTurns, IndexIsPlace, Holding
<1>3. doc' \in Seq(Piece) /\ batch' \in Seq(Piece)
  BY <1>1, Facts, ConcatProperties
<1>4. doc' \o <<>> = doc'
  BY <1>3, ConcatEmptySeq
<1>5. Given' = Given
  BY <1>1, <1>4 DEF Given
<1>6. Bound = pos + 1 /\ Bound' = pos + 1 /\ Bound \in Nat /\ pos + 1 \in Nat
  BY <1>1, Facts DEF Bound
<1>7. Given = <<>> => Bound = 0
  BY DEF ReaderInv, Begun
<1> QED
  BY <1>1, <1>2, <1>3, <1>5, <1>6, <1>7, QuietStep DEF Pointer

LEMMA ReopenStep ==
  ASSUME ReaderInv, Reopen
  PROVE  ReaderInv'
<1>1. /\ at = "end" /\ at' = "idle" /\ pos' = 0 /\ doc' = <<>> /\ batch = <<>>
      /\ UNCHANGED vars /\ cur' = cur /\ batch' = batch
  BY Facts DEF Reopen
<1>2. ListInv' /\ OrderInv' /\ TypeOK'
  BY <1>1, ListStays DEF ReaderInv
<1>3. IndexIsPlace' /\ ReaderTurns'
  BY <1>1 DEF ReaderInv, ReaderTurns, IndexIsPlace, Holding
<1>4. Given' = <<>>
  BY <1>1 DEF Given
<1>5. Bound' = 0
  BY <1>1 DEF Bound
<1>6. ReaderTypeOK'
  BY <1>1, <1>2, Facts DEF ReaderTypeOK
<1>7. Placed' /\ Begun' /\ ShownOnce' /\ OpenedFirst'
  BY <1>4, <1>5 DEF Placed, Begun, ShownOnce, OpenedFirst
<1> QED
  BY <1>2, <1>3, <1>6, <1>7 DEF ReaderInv

-----------------------------------------------------------------------------
(* The list's steps between two batches.                                   *)

\* While the process reads, only the clock and the timer's reading of it change.
LEMMA ListWaits ==
  ASSUME op = "idle", op' = "idle", Receive \/ Purge \/ Tick
  PROVE  Reached' = Reached /\ Listed' = Listed
<1>1. TimerFires \/ Tick
  BY DEF Receive, Purge, BeginReceive, StartLookup, LookupNext, LookupHit,
     CreateNoMemory, CreatePartial, Create, BeginPurge, StartPurge, PurgeKeep,
     PurgeExpired, EndPurge
<1>2. UNCHANGED <<head, next, prev>>
  BY <1>1 DEF TimerFires, ReadClock, Tick, heapVars, listVars
<1> QED
  BY <1>2 DEF Reached, Listed

LEMMA ListWorkStep ==
  ASSUME ReaderInv, ListWork
  PROVE  ReaderInv'
<1>1. /\ Receive \/ Purge \/ Tick
      /\ Holding => op' = "idle"
      /\ at' = at /\ pos' = pos /\ cur' = cur /\ batch' = batch /\ doc' = doc
  BY DEF ListWork, readerVars
<1>2. ListInv' /\ OrderInv' /\ TypeOK'
  <2>1. [Next]_vars
    BY <1>1 DEF Next
  <2>2. ListInv' /\ OrderInv'
    BY <2>1, ListStep, OrderStep DEF ReaderInv
  <2> QED
    BY <2>2 DEF ListInv
<1>3. /\ Given' = Given /\ Bound' = Bound /\ (Holding' <=> Holding)
  BY <1>1 DEF Given, Bound, Holding
<1>4. ReaderTypeOK'
  BY <1>1, <1>2, Facts DEF ReaderTypeOK
<1>5. ReaderTurns'
  BY <1>1 DEF ReaderInv, ReaderTurns, Holding
<1>6. IndexIsPlace'
  <2> SUFFICES ASSUME Holding, cur # NULL
               PROVE  cur \in Listed' /\ Reached'[pos] = cur
    BY <1>1, <1>3 DEF IndexIsPlace
  <2>1. op = "idle" /\ op' = "idle"
    BY <1>1 DEF ReaderInv, ReaderTurns
  <2>2. Reached' = Reached /\ Listed' = Listed
    BY <1>1, <2>1, ListWaits
  <2> QED
    BY <2>2, Further
<1>7. /\ allocated \subseteq allocated'
      /\ \A m \in allocated : m \in Listed' => m \in Listed
      /\ \A k \in Nat : Reached[k] \in Listed' =>
           \E j \in 0..k : Reached'[j] = Reached[k]
  BY <1>1, <1>2, ListWorkPlaces DEF ReaderInv
<1>8. Placed'
  <2> SUFFICES ASSUME NEW i \in DOMAIN Given
               PROVE  /\ Given[i].entry \in allocated'
                      /\ Given[i].entry \in Listed' =>
                           \E k \in 0..(Bound - 1) : Reached'[k] = Given[i].entry
    BY <1>3 DEF Placed
  <2>1. /\ Given[i].entry \in allocated
        /\ Given[i].entry \in Listed => \E k \in 0..(Bound - 1) : Reached[k] = Given[i].entry
    BY DEF ReaderInv, Placed
  <2> SUFFICES ASSUME Given[i].entry \in Listed'
               PROVE  \E k \in 0..(Bound - 1) : Reached'[k] = Given[i].entry
    BY <1>7, <2>1
  <2>2. PICK k \in 0..(Bound - 1) : Reached[k] = Given[i].entry
    BY <1>7, <2>1
  <2>3. k \in Nat /\ Bound \in Nat
    BY Facts
  <2>4. PICK j \in 0..k : Reached'[j] = Reached[k]
    BY <1>7, <2>2, <2>3
  <2>5. j \in 0..(Bound - 1)
    BY <2>3
  <2> QED
    BY <2>2, <2>4, <2>5
<1>9. Begun' /\ ShownOnce' /\ OpenedFirst'
  BY <1>3 DEF ReaderInv, Begun, ShownOnce, OpenedFirst
<1> QED
  BY <1>2, <1>4, <1>5, <1>6, <1>8, <1>9 DEF ReaderInv

LEMMA ReaderStep ==
  ASSUME ReaderInv, [ReaderNext]_procVars
  PROVE  ReaderInv'
<1>1. CASE UNCHANGED procVars
  <2>1. /\ UNCHANGED vars /\ at' = at /\ pos' = pos /\ cur' = cur /\ batch' = batch
        /\ doc' = doc
    BY <1>1 DEF procVars, readerVars
  <2>2. Given' = Given /\ Bound' = Bound
    BY <2>1 DEF Given, Bound
  <2>3. /\ Reached' = Reached /\ Listed' = Listed /\ op' = op
    BY <2>1, ListStays DEF ReaderInv
  <2>4. IndexIsPlace' /\ ReaderTurns'
    BY <2>1, <2>3 DEF ReaderInv, ReaderTurns, IndexIsPlace, Holding
  <2>5. (Given = <<>> => Bound = 0) /\ Bound <= Bound
    BY Facts DEF ReaderInv, Begun
  <2> QED
    BY <2>1, <2>2, <2>4, <2>5, Facts, QuietStep
<1>2. CASE Read
  BY <1>2, StartBatchStep, StartBatchDiesStep, EndOfFileStep, SkipSilentStep,
     ShowFirstStep, GrowBufferStep, ShowNextStep, EndBatchStep, ReopenStep DEF Read
<1>3. CASE ListWork
  BY <1>3, ListWorkStep
<1> QED
  BY <1>1, <1>2, <1>3 DEF ReaderNext

LEMMA ReaderCorrect == ReaderSpec => []ReaderInv
<1>1. ReaderInv /\ [ReaderNext]_procVars => ReaderInv'
  BY ReaderStep
<1> QED
  BY <1>1, ReaderInvInit, PTL DEF ReaderSpec

-----------------------------------------------------------------------------
(* The closing bracket.                                                    *)

\* Once the tail is shown the iterator is there.
ClosingInv ==
  /\ ClosedWithTail
  /\ \A i \in DOMAIN batch : batch[i].entry = tail => cur = tail

\* A step that begins or ends a batch leaves none.
LEMMA NoBatchCloses ==
  ASSUME batch' = <<>>
  PROVE  ClosingInv'
BY DEF ClosingInv, ClosedWithTail

LEMMA ShowFirstCloses ==
  ASSUME ReaderInv, ShowFirst
  PROVE  ClosingInv'
<1>1. PICK parsed \in BOOLEAN : batch' = <<Shows(cur, parsed)>>
  BY DEF ShowFirst
<1>2. tail' = tail /\ cur' = cur
  BY DEF ShowFirst, vars, listVars
<1>3. /\ Shows(cur, parsed).entry = cur
      /\ Shows(cur, parsed).close <=> Shows(cur, parsed).body /\ cur = tail
  BY DEF Shows
<1> DEFINE piece == Shows(cur, parsed)
<1> HIDE DEF piece
<1>4. DOMAIN batch' = {1} /\ batch'[1] = piece /\ Len(batch') = 1
  BY <1>1 DEF piece
<1>5. piece.entry = cur /\ (piece.close <=> piece.body /\ cur = tail)
  BY <1>3 DEF piece
<1> QED
  BY <1>2, <1>4, <1>5 DEF ClosingInv, ClosedWithTail

\* Behind the entry the iterator goes on from there is another, so that entry is
\* not the tail, and the tail was not shown.
LEMMA ShowNextCloses ==
  ASSUME ReaderInv, ClosingInv, ShowNext
  PROVE  ClosingInv'
<1> DEFINE n == SeqNext(cur, pos).entry
<1>1. n # NULL /\ cur' = n /\ tail' = tail /\ at = "fill"
  BY DEF ShowNext, vars, listVars
<1>2. PICK parsed \in BOOLEAN :
        batch' = IF Prints(Shows(n, parsed)) THEN Append(batch, Shows(n, parsed)) ELSE batch
  BY DEF ShowNext
<1>3. cur \in Listed /\ next[cur] = n
  BY <1>1, Further DEF ReaderInv, ReaderTurns, Holding, SeqNext
<1>4. cur # tail
  BY <1>1, <1>3, Facts, NullAssumption DEF Linked, Listed
<1>5. \A i \in DOMAIN batch : batch[i].entry # tail /\ ~batch[i].close
  BY <1>4 DEF ClosingInv, ClosedWithTail
<1>6. batch \in Seq(Piece)
  BY Facts
<1> DEFINE piece == Shows(n, parsed)
<1>7. /\ piece \in Piece /\ piece.entry = n
      /\ piece.close <=> piece.body /\ n = tail
  <2>1. n \in Neighbors
    BY <1>1, <1>3, Facts DEF Linked, Listed, TypeOK, Pointer
  <2> QED
    BY <2>1 DEF Shows, Piece
<1> HIDE DEF n, piece
<1>8. CASE Prints(piece)
  <2>1. batch' = Append(batch, piece)
    BY <1>2, <1>8 DEF piece
  <2>2. /\ Len(batch) \in Nat /\ DOMAIN batch = 1..Len(batch)
        /\ Len(batch') = Len(batch) + 1 /\ DOMAIN batch' = 1..(Len(batch) + 1)
        /\ batch'[Len(batch) + 1] = piece
        /\ \A i \in 1..Len(batch) : batch'[i] = batch[i]
    BY <1>6, <1>7, <2>1, AppendProperties
  <2>3. \A i \in DOMAIN batch' : i = Len(batch') \/ i \in DOMAIN batch
    BY <2>2
  <2> QED
    BY <1>1, <1>5, <1>7, <2>2, <2>3 DEF ClosingInv, ClosedWithTail
<1>9. CASE ~Prints(piece)
  BY <1>1, <1>2, <1>5, <1>9 DEF ClosingInv, ClosedWithTail, piece
<1> QED
  BY <1>8, <1>9

LEMMA ListWorkCloses ==
  ASSUME ReaderInv, ClosingInv, ListWork
  PROVE  ClosingInv'
<1>1. batch' = batch /\ cur' = cur
  BY DEF ListWork, readerVars
<1>2. CASE Holding
  <2>1. op = "idle" /\ op' = "idle"
    BY <1>2 DEF ListWork, ReaderInv, ReaderTurns
  <2>2. tail' = tail
    BY <2>1
       DEF ListWork, Receive, Purge, BeginReceive, StartLookup, LookupNext, LookupHit,
           CreateNoMemory, CreatePartial, Create, TimerFires, ReadClock, BeginPurge,
           StartPurge, PurgeKeep, PurgeExpired, EndPurge, Tick, listVars
  <2> QED
    BY <1>1, <2>2 DEF ClosingInv, ClosedWithTail
<1>3. CASE ~Holding
  BY <1>1, <1>3, NoBatchCloses DEF ReaderInv, ReaderTurns, Holding
<1> QED
  BY <1>2, <1>3

LEMMA ClosingStep == ReaderInv /\ ClosingInv /\ [ReaderNext]_procVars => ClosingInv'
<1> SUFFICES ASSUME ReaderInv, ClosingInv, [ReaderNext]_procVars
             PROVE  ClosingInv'
  OBVIOUS
<1>1. CASE StartBatch \/ StartBatchDies \/ EndOfFile \/ SkipSilent \/ GrowBuffer \/ Reopen
  <2>1. batch' = batch /\ at # "fill"
    BY <1>1 DEF StartBatch, StartBatchDies, EndOfFile, SkipSilent, GrowBuffer, Reopen
  <2> QED
    BY <2>1, NoBatchCloses DEF ReaderInv, ReaderTurns
<1>2. CASE EndBatch
  BY <1>2, NoBatchCloses DEF EndBatch
<1>3. CASE ShowFirst
  BY <1>3, ShowFirstCloses
<1>4. CASE ShowNext
  BY <1>4, ShowNextCloses
<1>5. CASE ListWork
  BY <1>5, ListWorkCloses
<1>6. CASE UNCHANGED procVars
  BY <1>6 DEF ClosingInv, ClosedWithTail, procVars, readerVars, vars, listVars
<1> QED
  BY <1>1, <1>2, <1>3, <1>4, <1>5, <1>6 DEF ReaderNext, Read

-----------------------------------------------------------------------------
(* What follows from it.                                                   *)

\* The iterator and the document have their types: cdp_proc_seq_start and
\* cdp_proc_seq_next return an entry or NULL whatever the list does.
THEOREM ReaderTypeCorrect == ReaderSpec => []ReaderTypeOK
<1>1. ReaderInv => ReaderTypeOK
  BY DEF ReaderInv
<1> QED
  BY <1>1, ReaderCorrect, PTL

\* Between opening the file and its end a process is never given an entry
\* twice: purges only move entries to lower indices, which the position of
\* cdp_proc_seq_start has passed, and new entries come last.
THEOREM NeverShownTwice == ReaderSpec => []ShownOnce
<1>1. ReaderInv => ShownOnce
  BY DEF ReaderInv
<1> QED
  BY <1>1, ReaderCorrect, PTL

\* cdp_seq_json_show prints the opening bracket first and only once, whatever
\* becomes the head between two batches; within a batch it prints the closing
\* bracket with the tail, and nothing after it.
THEOREM BracketsWhereTheyGo == ReaderSpec => []BracketsPlaced
<1>1. ReaderInit => ClosingInv
  BY DEF ReaderInit, ClosingInv, ClosedWithTail
<1>2. ReaderInv /\ ClosingInv => BracketsPlaced
  BY DEF ReaderInv, ClosingInv, BracketsPlaced
<1> QED
  BY <1>1, <1>2, ClosingStep, ReaderCorrect, PTL DEF ReaderSpec

\* While the read lock is held the iterator's index is its entry's place in
\* the list, counted from the head as cdp_neighbor_list_get_by_index counts.
THEOREM IndexStaysPlace == ReaderSpec => []IndexIsPlace
<1>1. ReaderInv => IndexIsPlace
  BY DEF ReaderInv
<1> QED
  BY <1>1, ReaderCorrect, PTL

\* Whatever a process reads, and however its batches fall between frames and
\* purges, the list does what it does without it (cdp_proc.c changes nothing).
THEOREM ReadingLeavesList == ReaderSpec => Spec
<1>1. ReaderInit => Init
  BY DEF ReaderInit
<1>2. [ReaderNext]_procVars => [Next]_vars
  BY DEF ReaderNext, Read, StartBatch, StartBatchDies, EndOfFile, SkipSilent,
         ShowFirst, GrowBuffer, ShowNext, EndBatch, Reopen, ListWork, Next, procVars
<1> QED
  BY <1>1, <1>2, PTL DEF ReaderSpec, Spec

\* So what NeighborListProofs has of the list holds next to a reader: it is a
\* table of neighbours, only expired entries leave it, and a frame keeps its own
\* hold time.
THEOREM ReadersSeeTable ==
  ReaderSpec => TableSpec /\ OnlyExpiredLeave /\ HoldIsOfFrame
BY ReadingLeavesList, ListImplementsTable, OnlyExpiredEverLeave, NeverInherited, PTL
=============================================================================
