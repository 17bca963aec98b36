------------------------- MODULE NeighborListProofs ------------------------
(***************************************************************************)
(* Theorems about NeighborList, for any number of structs, identities and  *)
(* frames and any bound on the clock.                                      *)
(***************************************************************************)
EXTENDS NeighborList, TLAPS

-----------------------------------------------------------------------------
(* Types.                                                                  *)

\* Hold times are numbers of seconds.
LEMMA HoldTimesType ==
  (\A h \in HoldTimes : h \in Nat) /\ 0 \in HoldTimes /\ NoBuffer \in Buffer
  BY FramesAssumption DEF HoldTimes, NoBuffer, Buffer

\* A buffer stays a buffer, whatever frame is stored and whether or not there
\* is memory for it.
LEMMA StoreFrameType ==
  ASSUME NEW old \in Buffer, NEW f \in Frames, NEW memory \in BOOLEAN
  PROVE  StoreFrame(old, f, memory) \in Buffer
<1>1. f.length \in Nat /\ f.hold \in HoldTimes /\ 0 \in HoldTimes
  BY FramesAssumption DEF HoldTimes
<1>2. FitBuffer(old, f) \in Buffer
  BY HoldTimesType DEF FitBuffer
<1>. DEFINE kept == FitBuffer(old, f)
            fresh == [present |-> TRUE, size |-> f.length, length |-> 0, hold |-> 0]
            room == IF ~kept.present /\ BufferOk(kept) /\ memory THEN fresh ELSE kept
<1>3. room \in Buffer
  <2>1. fresh \in Buffer
    BY <1>1 DEF Buffer
  <2>. HIDE DEF fresh, kept
  <2>. QED
    BY <1>2, <2>1 DEF kept
<1>. HIDE DEF room
<1>4. [present |-> TRUE, size |-> room.size, length |-> f.length,
       hold |-> IF f.length >= 2 THEN f.hold ELSE room.hold] \in Buffer
  BY <1>1, <1>3 DEF Buffer
<1>. QED
  BY <1>3, <1>4 DEF StoreFrame, room

\* Refreshing an entry keeps the types of what it writes.
LEMMA RefreshType ==
  ASSUME TypeOK, op = "lookup", NEW n \in Neighbors, Refresh(n)
  PROVE  /\ receivedAt' \in [Neighbors -> 0..MaxTime]
         /\ frame' \in [Neighbors -> Buffer]
         /\ integrity' \in {"ok", "corrupt"}
<1>1. req.frame \in Frames
  BY DEF TypeOK, Request
<1>2. PICK memory \in BOOLEAN :
        frame' = [frame EXCEPT ![n] = StoreFrame(@, req.frame, memory)]
  BY DEF Refresh
<1>3. StoreFrame(frame[n], req.frame, memory) \in Buffer
  BY <1>1, StoreFrameType DEF TypeOK
<1>4. frame' \in [Neighbors -> Buffer]
  BY <1>2, <1>3 DEF TypeOK
<1>5. receivedAt' \in [Neighbors -> 0..MaxTime]
  BY DEF Refresh, TypeOK
<1>6. integrity' \in {"ok", "corrupt"}
  BY DEF Refresh, TypeOK
<1>. QED
  BY <1>4, <1>5, <1>6

\* The three operations on the links keep them pointers.
LEMMA LinkTypes ==
  ASSUME TypeOK, NEW n \in Neighbors,
         \/ AppendItem(n)
         \/ RemoveItem(n)
         \/ TakeFirst /\ head = n
  PROVE  /\ head' \in Pointer /\ tail' \in Pointer
         /\ next' \in [Neighbors -> Pointer]
         /\ prev' \in [Neighbors -> Pointer]
<1>1. CASE AppendItem(n)
  BY <1>1 DEF AppendItem, TypeOK, Pointer
<1>2. CASE RemoveItem(n)
  BY <1>2 DEF RemoveItem, TypeOK, Pointer
<1>3. CASE TakeFirst /\ head = n
  BY <1>3 DEF TakeFirst, TypeOK, Pointer
<1>. QED
  BY <1>1, <1>2, <1>3

\* No step breaks a type.
LEMMA TypeStep ==
  ASSUME TypeOK, [Next]_vars
  PROVE  TypeOK'
<1>1. ASSUME NEW id \in Identities, NEW f \in Frames, BeginReceive(id, f)
      PROVE  TypeOK'
  BY <1>1, NullAssumption DEF BeginReceive, StartLookup, TypeOK, Pointer, Request, heapVars, listVars
<1>2. CASE LookupNext
  BY <1>2 DEF LookupNext, SameIdentity, TypeOK, Pointer, heapVars, listVars
<1>3. CASE LookupHit
  <2>1. item \in Neighbors
    BY <1>3 DEF LookupHit, SameIdentity, TypeOK, Pointer
  <2>2. /\ receivedAt' \in [Neighbors -> 0..MaxTime]
        /\ frame' \in [Neighbors -> Buffer]
        /\ integrity' \in {"ok", "corrupt"}
    BY <1>3, <2>1, RefreshType DEF LookupHit, SameIdentity
  <2>. QED
    BY <1>3, <2>2 DEF LookupHit, SameIdentity, EndReceive, TypeOK, Pointer
<1>4. CASE CreateNoMemory
  BY <1>4 DEF CreateNoMemory, EndReceive, TypeOK, Pointer, heapVars, listVars
<1>5. ASSUME NEW n \in Neighbors, CreatePartial(n)
      PROVE  TypeOK'
  BY <1>5 DEF CreatePartial, NewNeighbor, DeleteNeighbor, EndReceive, TypeOK, Pointer, listVars
<1>6. ASSUME NEW n \in Neighbors, Create(n)
      PROVE  TypeOK'
  <2>1. ident' \in [Neighbors -> Identities \union {NULL}]
    BY <1>6 DEF Create, NewNeighbor, SetIdentity, DeleteNeighbor, TypeOK, Request
  <2>2. CASE AppendOk(n)
    <3>1. /\ receivedAt' \in [Neighbors -> 0..MaxTime]
          /\ frame' \in [Neighbors -> Buffer]
          /\ integrity' \in {"ok", "corrupt"}
      BY <1>6, <2>2, RefreshType DEF Create, NewNeighbor, SetIdentity, DeleteNeighbor
    <3>2. /\ head' \in Pointer /\ tail' \in Pointer
          /\ next' \in [Neighbors -> Pointer]
          /\ prev' \in [Neighbors -> Pointer]
      BY <1>6, <2>2, LinkTypes DEF Create, NewNeighbor, SetIdentity, DeleteNeighbor
    <3>3. count' \in Int
      BY <1>6, <2>2 DEF Create, AppendItem, NewNeighbor, TypeOK
    <3>. QED
      BY <1>6, <2>1, <2>2, <3>1, <3>2, <3>3 DEF Create, NewNeighbor, SetIdentity, DeleteNeighbor, EndReceive, TypeOK, Pointer
  <2>3. CASE ~AppendOk(n)
    BY <1>6, <2>1, <2>3 DEF Create, NewNeighbor, SetIdentity, DeleteNeighbor, EndReceive, TypeOK, Pointer
  <2>. QED
    BY <2>2, <2>3
<1>7. CASE TimerFires
  BY <1>7 DEF TimerFires, ReadClock, TypeOK, heapVars, listVars, opVars
<1>8. CASE BeginPurge
  BY <1>8 DEF BeginPurge, StartPurge, TypeOK, heapVars, listVars
<1>9. CASE PurgeKeep
  BY <1>9 DEF PurgeKeep, TypeOK, Pointer, heapVars, listVars
<1>10. CASE PurgeExpired
  <2>1. item \in Neighbors /\ RemoveItem(item)
    BY <1>10 DEF PurgeExpired, DeleteNeighbor, TypeOK, Pointer
  <2>2. /\ head' \in Pointer /\ tail' \in Pointer
        /\ next' \in [Neighbors -> Pointer]
        /\ prev' \in [Neighbors -> Pointer]
    BY <2>1, LinkTypes
  <2>3. item' \in Pointer
    BY <1>10, <2>1, <2>2 DEF PurgeExpired, DeleteNeighbor, TypeOK, Pointer
  <2>4. integrity' \in {"ok", "corrupt"}
    BY <2>1 DEF RemoveItem, TypeOK
  <2>5. released' \subseteq Neighbors
    BY <1>10, <2>1 DEF PurgeExpired, DeleteNeighbor, TypeOK
  <2>. QED
    BY <1>10, <2>2, <2>3, <2>5, <2>2, <2>3, <2>4 DEF PurgeExpired, DeleteNeighbor, TypeOK
<1>11. CASE EndPurge
  BY <1>11 DEF EndPurge, TypeOK, heapVars, listVars
<1>12. CASE BeginClean
  BY <1>12 DEF BeginClean, CloseList, TypeOK, heapVars, opVars
<1>13. CASE CleanStep
  <2>1. head \in Neighbors /\ TakeFirst
    BY <1>13 DEF CleanStep, DeleteNeighbor, TypeOK, Pointer
  <2>2. /\ head' \in Pointer /\ tail' \in Pointer
        /\ next' \in [Neighbors -> Pointer]
        /\ prev' \in [Neighbors -> Pointer]
    BY <2>1, LinkTypes
  <2>3. integrity' \in {"ok", "corrupt"} /\ count' \in Int
    BY <2>1 DEF TakeFirst, TypeOK
  <2>. QED
    BY <1>13, <2>1, <2>2, <2>3 DEF CleanStep, DeleteNeighbor, TypeOK, opVars
<1>14. CASE DeleteList
  BY <1>14 DEF DeleteList, TypeOK, heapVars, opVars
<1>15. CASE Tick
  BY <1>15, MaxTimeAssumption DEF Tick, TypeOK, heapVars, listVars, opVars
<1>16. CASE UNCHANGED vars
  BY <1>16 DEF vars, TypeOK, heapVars, listVars, opVars
<1>. QED
  BY <1>1, <1>2, <1>3, <1>4, <1>5, <1>6, <1>7, <1>8, <1>9, <1>10, <1>11,
     <1>12, <1>13, <1>14, <1>15, <1>16 DEF Next, Receive, Purge, Clean

\* Every variable keeps its type.
THEOREM TypeCorrect == Spec => []TypeOK
<1>1. Init => TypeOK
  BY HoldTimesType, MaxTimeAssumption DEF Init, TypeOK, Pointer
<1>2. TypeOK /\ [Next]_vars => TypeOK'
  BY TypeStep
<1>. QED
  BY <1>1, <1>2, PTL DEF Spec

-----------------------------------------------------------------------------
(* The operations on the links.                                            *)

\* A struct outside a sound list can be appended, and the list stays sound.
LEMMA AppendEffect ==
  ASSUME TypeOK, Linked, NEW n \in Neighbors \ Listed, AppendItem(n)
  PROVE  AppendOk(n) /\ Linked' /\ Listed' = Listed \union {n}
<1>. USE NullAssumption
<1>1. AppendOk(n)
  BY DEF AppendOk, Linked
<1>2. Listed' = Listed \union {n}
  BY DEF Listed, AppendItem, Linked, TypeOK, Pointer
<1>3. Linked'
  BY <1>2 DEF Linked, Listed, AppendItem, TypeOK, Pointer
<1>. QED
  BY <1>1, <1>2, <1>3

\* Removing an entry of a sound list passes both checks of the code, unlinks
\* that entry and no other, and the list stays sound.
LEMMA RemoveEffect ==
  ASSUME TypeOK, Linked, NEW n \in Listed, RemoveItem(n)
  PROVE  /\ Linked' /\ Listed' = Listed \ {n}
         /\ integrity' = integrity /\ RemoveOk(n)
         /\ prev[n] # NULL => next'[prev[n]] \in Listed' \union {NULL}
<1>. USE NullAssumption
<1>1. RemoveOk(n) /\ PrevSideOk(n)
  BY DEF RemoveOk, PrevSideOk, NextSideOk, Linked, Listed
<1>2. /\ integrity' = integrity
      /\ head' = IF prev[n] = NULL THEN next[n] ELSE head
      /\ tail' = IF next[n] = NULL THEN prev[n] ELSE tail
      /\ next' = [m \in Neighbors |-> IF m = n THEN NULL
                                      ELSE IF m = prev[n] THEN next[n] ELSE next[m]]
      /\ prev' = [m \in Neighbors |-> IF m = n THEN NULL
                                      ELSE IF m = next[n] THEN prev[n] ELSE prev[m]]
  BY <1>1 DEF RemoveItem
<1>3. Listed' = Listed \ {n}
  BY <1>2 DEF Listed, Linked, TypeOK, Pointer
<1>4. Linked'
  BY <1>2, <1>3 DEF Linked, Listed, TypeOK, Pointer
<1>5. prev[n] # NULL => next'[prev[n]] \in Listed' \union {NULL}
  BY <1>2, <1>3 DEF Linked, Listed, TypeOK, Pointer
<1>. QED
  BY <1>1, <1>2, <1>3, <1>4, <1>5

\* Taking the first entry of a sound list finds no predecessor and leaves a
\* sound list without that entry.
LEMMA TakeFirstEffect ==
  ASSUME TypeOK, Linked, head # NULL, TakeFirst
  PROVE  Linked' /\ Listed' = Listed \ {head} /\ integrity' = integrity
<1>. USE NullAssumption
<1>1. head \in Neighbors /\ head \in Listed /\ prev[head] = NULL
  BY DEF Linked, Listed, TypeOK, Pointer
<1>2. /\ integrity' = integrity
      /\ head' = next[head]
      /\ tail' = IF next[head] = NULL THEN NULL ELSE tail
      /\ next' = [m \in Neighbors |-> IF m = head THEN NULL ELSE next[m]]
      /\ prev' = [m \in Neighbors |-> IF m = head THEN NULL
                                      ELSE IF m = next[head] THEN NULL ELSE prev[m]]
  BY <1>1 DEF TakeFirst
<1>3. Listed' = Listed \ {head}
  BY <1>1, <1>2 DEF Listed, Linked, TypeOK, Pointer
<1>4. Linked'
  BY <1>1, <1>2, <1>3 DEF Linked, Listed, TypeOK, Pointer
<1>. QED
  BY <1>2, <1>3, <1>4

-----------------------------------------------------------------------------
(* The inductive invariant.                                                *)

\* Storing a frame keeps the buffer sound, so the checks of
\* cdp_neighbor_set_frame_buffer never fire, and touches no link.
LEMMA RefreshEffect ==
  ASSUME TypeOK, Accounts, NoCorruption, NEW n \in Neighbors, Refresh(n)
  PROVE  NoCorruption' /\ \A m \in Neighbors : BufferOk(frame'[m])
<1>1. BufferOk(frame[n]) /\ BufferOk(NoBuffer)
  BY DEF Accounts, BufferOk, NoBuffer
<1>2. BufferOk(FitBuffer(frame[n], req.frame))
  BY <1>1 DEF FitBuffer
<1>3. integrity' = "ok"
  BY <1>2 DEF Refresh, NoCorruption
<1>4. PICK memory \in BOOLEAN :
        frame' = [frame EXCEPT ![n] = StoreFrame(@, req.frame, memory)]
  BY DEF Refresh
<1>5. BufferOk(StoreFrame(frame[n], req.frame, memory))
  <2>. DEFINE f == req.frame
              kept == FitBuffer(frame[n], f)
              fresh == [present |-> TRUE, size |-> f.length, length |-> 0, hold |-> 0]
              room == IF ~kept.present /\ BufferOk(kept) /\ memory THEN fresh ELSE kept
  <2>1. BufferOk(fresh)
    BY DEF BufferOk
  <2>2. BufferOk(room)
    <3>. HIDE DEF fresh, kept
    <3>. QED
      BY <1>2, <2>1 DEF kept
  <2>3. CASE f.length = 0
    BY <1>1, <2>3 DEF StoreFrame
  <2>4. CASE f.length # 0 /\ (~room.present \/ room.size < f.length)
    <3>1. StoreFrame(frame[n], f, memory) = room
      BY <2>4 DEF StoreFrame
    <3>. HIDE DEF room, f
    <3>. QED
      BY <2>2, <3>1 DEF f
  <2>5. CASE f.length # 0 /\ ~(~room.present \/ room.size < f.length)
    <3>1. StoreFrame(frame[n], f, memory).present = TRUE
      BY <2>5 DEF StoreFrame
    <3>. QED
      BY <3>1 DEF BufferOk
  <2>. QED
    BY <2>3, <2>4, <2>5
<1>. QED
  BY <1>3, <1>4, <1>5 DEF NoCorruption, TypeOK, Accounts

\* The invariant holds initially: the list is empty.
LEMMA ListInit == Init => ListInv
<1>. SUFFICES ASSUME Init PROVE ListInv
  OBVIOUS
<1>1. TypeOK
  BY HoldTimesType, MaxTimeAssumption DEF Init, TypeOK, Pointer
<1>2. Linked /\ NoDanglingEntry
  BY NullAssumption DEF Init, Linked, NoDanglingEntry, Listed
<1>3. Accounts
  BY DEF Init, Accounts, BufferOk, NoBuffer
<1>. QED
  BY <1>1, <1>2, <1>3 DEF Init, ListInv, Turns, NoCorruption, CountCoversHead

\* The invariant is kept by every step.
LEMMA ListStep ==
  ASSUME ListInv, [Next]_vars
  PROVE  ListInv'
<1>. USE NullAssumption DEF ListInv
<1>0. TypeOK'
  BY TypeStep
<1>1. ASSUME NEW id \in Identities, NEW f \in Frames, BeginReceive(id, f)
      PROVE  ListInv'
  <2>1. Listed' = Listed /\ Linked'
    BY <1>1 DEF BeginReceive, StartLookup, Listed, Linked, heapVars, listVars
  <2>2. NoDanglingEntry' /\ Accounts' /\ NoCorruption' /\ CountCoversHead'
    BY <1>1, <2>1 DEF BeginReceive, StartLookup, NoDanglingEntry, Accounts, NoCorruption,
       CountCoversHead, heapVars, listVars
  <2>3. Turns'
    BY <1>1, <2>1 DEF BeginReceive, StartLookup, Turns, Listed, TypeOK, Pointer, heapVars, listVars
  <2>. QED
    BY <1>0, <2>1, <2>2, <2>3
<1>2. CASE LookupNext
  <2>1. Listed' = Listed /\ Linked'
    BY <1>2 DEF LookupNext, SameIdentity, Listed, Linked, heapVars, listVars
  <2>2. NoDanglingEntry' /\ Accounts' /\ NoCorruption' /\ CountCoversHead'
    BY <1>2, <2>1 DEF LookupNext, SameIdentity, NoDanglingEntry, Accounts, NoCorruption,
       CountCoversHead, heapVars, listVars
  <2>3. next[item] # NULL => next[item] \in Listed
    BY <1>2 DEF LookupNext, SameIdentity, Turns, Linked, Listed, TypeOK, Pointer
  <2>4. Turns'
    BY <1>2, <2>1, <2>3 DEF LookupNext, SameIdentity, Turns, heapVars, listVars
  <2>. QED
    BY <1>0, <2>1, <2>2, <2>4
<1>3. CASE LookupHit
  <2>1. Listed' = Listed /\ Linked'
    BY <1>3 DEF LookupHit, SameIdentity, Listed, Linked
  <2>2. NoCorruption' /\ \A m \in Neighbors : BufferOk(frame'[m])
    BY <1>3, RefreshEffect DEF LookupHit, SameIdentity, TypeOK, Pointer
  <2>3. NoDanglingEntry' /\ CountCoversHead' /\ Turns' /\ Accounts'
    BY <1>3, <2>1, <2>2 DEF LookupHit, SameIdentity, EndReceive, NoDanglingEntry, CountCoversHead,
       Turns, Accounts
  <2>. QED
    BY <1>0, <2>1, <2>2, <2>3
<1>4. CASE CreateNoMemory
  <2>1. Listed' = Listed /\ Linked'
    BY <1>4 DEF CreateNoMemory, Listed, Linked, heapVars, listVars
  <2>. QED
    BY <1>0, <1>4, <2>1 DEF CreateNoMemory, EndReceive, NoDanglingEntry, Accounts,
       NoCorruption, CountCoversHead, Turns, heapVars, listVars
<1>5. ASSUME NEW n \in Neighbors, CreatePartial(n)
      PROVE  ListInv'
  <2>1. Listed' = Listed /\ Linked'
    BY <1>5 DEF CreatePartial, NewNeighbor, DeleteNeighbor, Listed, Linked, listVars
  <2>2. NoDanglingEntry'
    BY <1>5, <2>1 DEF CreatePartial, NewNeighbor, DeleteNeighbor, NoDanglingEntry
  <2>. QED
    BY <1>0, <1>5, <2>1, <2>2 DEF CreatePartial, NewNeighbor, DeleteNeighbor, EndReceive, Accounts,
       NoCorruption, CountCoversHead, Turns, listVars
<1>6. ASSUME NEW n \in Neighbors, Create(n)
      PROVE  ListInv'
  <2>1. n \in Neighbors \ Listed /\ n \notin released
    BY <1>6 DEF Create, NewNeighbor, SetIdentity, DeleteNeighbor, NoDanglingEntry, Accounts
  <2>2. AppendOk(n)
    BY <2>1 DEF AppendOk, Linked
  <2>3. AppendItem(n) /\ Refresh(n) /\ UNCHANGED released
    BY <1>6, <2>2 DEF Create, NewNeighbor, SetIdentity, DeleteNeighbor
  <2>4. Linked' /\ Listed' = Listed \union {n}
    BY <2>1, <2>3, AppendEffect
  <2>5. NoCorruption' /\ \A m \in Neighbors : BufferOk(frame'[m])
    BY <1>6, <2>3, RefreshEffect
  <2>6. NoDanglingEntry'
    BY <1>6, <2>1, <2>3, <2>4 DEF Create, NewNeighbor, SetIdentity, DeleteNeighbor, NoDanglingEntry
  <2>7. Accounts' /\ CountCoversHead'
    BY <1>6, <2>3, <2>5 DEF Create, AppendItem, NewNeighbor, Accounts, CountCoversHead, Linked, TypeOK
  <2>8. Turns'
    BY <1>6 DEF Create, NewNeighbor, SetIdentity, DeleteNeighbor, EndReceive, Turns
  <2>. QED
    BY <1>0, <2>4, <2>5, <2>6, <2>7, <2>8
<1>7. CASE TimerFires
  <2>1. Listed' = Listed /\ Linked'
    BY <1>7 DEF TimerFires, ReadClock, Listed, Linked, heapVars, listVars
  <2>. QED
    BY <1>0, <1>7, <2>1 DEF TimerFires, ReadClock, NoDanglingEntry, Accounts, NoCorruption,
       CountCoversHead, Turns, TypeOK, heapVars, listVars, opVars
<1>8. CASE BeginPurge
  <2>1. Listed' = Listed /\ Linked'
    BY <1>8 DEF BeginPurge, StartPurge, Listed, Linked, heapVars, listVars
  <2>2. head # NULL => head \in Listed
    BY DEF Listed, TypeOK, Pointer
  <2>. QED
    BY <1>0, <1>8, <2>1, <2>2 DEF BeginPurge, StartPurge, NoDanglingEntry, Accounts, NoCorruption,
       CountCoversHead, Turns, heapVars, listVars
<1>9. CASE PurgeKeep
  <2>1. Listed' = Listed /\ Linked'
    BY <1>9 DEF PurgeKeep, Listed, Linked, heapVars, listVars
  <2>2. next[item] # NULL => next[item] \in Listed
    BY <1>9 DEF PurgeKeep, Turns, Linked, Listed, TypeOK, Pointer
  <2>. QED
    BY <1>0, <1>9, <2>1, <2>2 DEF PurgeKeep, NoDanglingEntry, Accounts, NoCorruption,
       CountCoversHead, Turns, heapVars, listVars
<1>10. CASE PurgeExpired
  <2>1. item \in Listed /\ RemoveItem(item)
    BY <1>10 DEF PurgeExpired, DeleteNeighbor, Turns
  <2>2. /\ Linked' /\ Listed' = Listed \ {item}
        /\ integrity' = integrity /\ RemoveOk(item)
        /\ prev[item] # NULL => next'[prev[item]] \in Listed' \union {NULL}
    BY <2>1, RemoveEffect
  <2>3. NoCorruption' /\ NoDanglingEntry'
    BY <1>10, <2>2 DEF PurgeExpired, DeleteNeighbor, NoCorruption, NoDanglingEntry
  <2>4. Accounts'
    BY <1>10, <2>1, <2>2 DEF PurgeExpired, DeleteNeighbor, Accounts, NoDanglingEntry
  <2>5. head' # NULL => head # NULL
    BY <2>1 DEF RemoveItem, PrevSideOk, Listed
  <2>6. CountCoversHead'
    BY <1>10, <2>5 DEF PurgeExpired, DeleteNeighbor, CountCoversHead
  <2>7. Turns'
    BY <1>10, <2>2, <2>3 DEF PurgeExpired, DeleteNeighbor, Turns, NoCorruption
  <2>. QED
    BY <1>0, <2>2, <2>3, <2>4, <2>6, <2>7
<1>11. CASE EndPurge
  <2>1. Listed' = Listed /\ Linked'
    BY <1>11 DEF EndPurge, Listed, Linked, heapVars, listVars
  <2>. QED
    BY <1>0, <1>11, <2>1 DEF EndPurge, NoDanglingEntry, Accounts, NoCorruption,
       CountCoversHead, Turns, heapVars, listVars
<1>12. CASE BeginClean
  <2>1. Listed' = Listed /\ Linked'
    BY <1>12 DEF BeginClean, CloseList, Listed, Linked, heapVars
  <2>. QED
    BY <1>0, <1>12, <2>1 DEF BeginClean, CloseList, NoDanglingEntry, Accounts, NoCorruption,
       CountCoversHead, Turns, heapVars, opVars
<1>13. CASE CleanStep
  <2>1. Linked' /\ Listed' = Listed \ {head} /\ integrity' = integrity
    BY <1>13, TakeFirstEffect DEF CleanStep, DeleteNeighbor
  <2>2. head \in Listed
    BY <1>13 DEF CleanStep, DeleteNeighbor, Listed, TypeOK, Pointer
  <2>3. NoDanglingEntry' /\ Accounts'
    BY <1>13, <2>1, <2>2 DEF CleanStep, DeleteNeighbor, NoDanglingEntry, Accounts
  <2>. QED
    BY <1>0, <1>13, <2>1, <2>3 DEF CleanStep, DeleteNeighbor, NoCorruption, CountCoversHead, Turns, opVars
<1>14. CASE DeleteList
  <2>1. Listed' = Listed /\ Linked'
    BY <1>14 DEF DeleteList, Listed, Linked, heapVars
  <2>. QED
    BY <1>0, <1>14, <2>1 DEF DeleteList, NoDanglingEntry, Accounts, NoCorruption,
       CountCoversHead, Turns, heapVars, opVars
<1>15. CASE Tick
  <2>1. Listed' = Listed /\ Linked'
    BY <1>15 DEF Tick, Listed, Linked, heapVars, listVars
  <2>2. Turns'
    BY <1>15, <2>1, MaxTimeAssumption DEF Tick, Turns, TypeOK, opVars, listVars
  <2>. QED
    BY <1>0, <1>15, <2>1, <2>2 DEF Tick, NoDanglingEntry, Accounts, NoCorruption,
       CountCoversHead, heapVars, listVars, opVars
<1>16. CASE UNCHANGED vars
  <2>1. Listed' = Listed /\ Linked'
    BY <1>16 DEF vars, Listed, Linked, heapVars, listVars
  <2>. QED
    BY <1>0, <1>16, <2>1 DEF vars, NoDanglingEntry, Accounts, NoCorruption,
       CountCoversHead, Turns, heapVars, listVars, opVars
<1>. QED
  BY <1>1, <1>2, <1>3, <1>4, <1>5, <1>6, <1>7, <1>8, <1>9, <1>10, <1>11,
     <1>12, <1>13, <1>14, <1>15, <1>16 DEF Next, Receive, Purge, Clean

\* The list, its entries and its walks are sound in every reachable state.
THEOREM ListCorrect == Spec => []ListInv
<1>1. ListInv /\ [Next]_vars => ListInv'
  BY ListStep
<1>. QED
  BY ListInit, <1>1, PTL DEF Spec

-----------------------------------------------------------------------------
(* What follows from it.                                                   *)

\* No branch that reports a corrupt list or frame buffer is ever taken.
THEOREM NeverCorrupt == Spec => []NoCorruption
<1>1. ListInv => NoCorruption
  BY DEF ListInv
<1>. QED
  BY ListCorrect, <1>1, PTL

\* No walk ever meets an entry whose name, address or frame were freed.
THEOREM NeverDangling == Spec => []NoDanglingEntry
<1>1. ListInv => NoDanglingEntry
  BY DEF ListInv
<1>. QED
  BY ListCorrect, <1>1, PTL

\* A step that takes an entry off the live list found it expired.
LEMMA LeaveStep ==
  ASSUME ListInv, [Next]_vars, life = "live", NEW n \in Listed, n \notin Listed'
  PROVE  IsExpired(n, clock)
<1>. USE NullAssumption DEF ListInv
<1>1. CASE PurgeExpired
  <2>1. item \in Listed /\ RemoveItem(item)
    BY <1>1 DEF PurgeExpired, DeleteNeighbor, Turns
  <2>2. n = item
    BY <2>1, RemoveEffect
  <2>3. IsExpired(n, stamp) /\ stamp \in 0..MaxTime /\ stamp <= clock
    BY <1>1, <2>2 DEF PurgeExpired, DeleteNeighbor, Turns, TypeOK
  <2>4. frame[n] \in Buffer
    BY DEF TypeOK, Listed
  <2>5. HoldTime(n) \in HoldTimes
    BY <2>4, HoldTimesType DEF HoldTime, Buffer
  <2>6. HoldTime(n) \in Int
    BY <2>5, HoldTimesType
  <2>. QED
    BY <2>3, <2>6, MaxTimeAssumption DEF IsExpired, TypeOK, Listed
<1>2. ASSUME NEW m \in Neighbors, Create(m)
      PROVE  FALSE
  <2>1. m \in Neighbors \ Listed
    BY <1>2 DEF Create, NewNeighbor, SetIdentity, DeleteNeighbor, NoDanglingEntry, Accounts
  <2>2. AppendOk(m)
    BY <2>1 DEF AppendOk, Linked
  <2>. QED
    BY <1>2, <2>1, <2>2, AppendEffect DEF Create, NewNeighbor, SetIdentity, DeleteNeighbor
<1>3. CASE UNCHANGED <<head, prev>>
  BY <1>3 DEF Listed
<1>. QED
  BY <1>1, <1>2, <1>3 DEF Next, Receive, Purge, Clean, BeginReceive, StartLookup, ReadClock,
     StartPurge, CloseList, LookupNext,
     LookupHit, CreateNoMemory, CreatePartial, TimerFires, BeginPurge, PurgeKeep,
     EndPurge, BeginClean, CleanStep, DeleteList, Tick, vars, heapVars, listVars

\* While the module is loaded, only expired entries leave the list.
THEOREM OnlyExpiredEverLeave == Spec => OnlyExpiredLeave
<1>1. ListInv /\ [Next]_vars =>
        [life = "live" => \A n \in Listed : n \notin Listed' => IsExpired(n, clock)]_vars
  BY LeaveStep
<1>. QED
  BY ListCorrect, <1>1, PTL DEF Spec, OnlyExpiredLeave

-----------------------------------------------------------------------------
(* The hold time of a recorded frame.                                      *)

\* Storing a frame changes nothing if it is empty; afterwards the buffer is
\* either missing or holds this frame, and no byte of the frame before it is
\* taken for the hold time.
LEMMA StoredFrame ==
  ASSUME NEW old \in Buffer, NEW f \in Frames, NEW memory \in BOOLEAN,
         f.length # 0
  PROVE  LET b == StoreFrame(old, f, memory)
         IN  b.present => b.length = f.length /\ (f.length >= 2 => b.hold = f.hold)
<1> DEFINE kept == FitBuffer(old, f)
           room == IF ~kept.present /\ BufferOk(kept) /\ memory
                   THEN [present |-> TRUE, size |-> f.length, length |-> 0, hold |-> 0]
                   ELSE kept
<1>1. f.length \in Nat /\ old.size \in Nat /\ old.present \in BOOLEAN
  BY FramesAssumption DEF Buffer
<1>2. room.present => room.size \in Nat /\ ~(room.size < f.length)
  BY <1>1 DEF FitBuffer, NoBuffer
<1>3. CASE room.present
  <2>1. StoreFrame(old, f, memory) =
          [present |-> TRUE, size |-> room.size, length |-> f.length,
           hold |-> IF f.length >= 2 THEN f.hold ELSE room.hold]
    BY <1>2, <1>3 DEF StoreFrame
  <2> HIDE DEF room
  <2> QED
    BY <2>1
<1>4. CASE ~room.present
  <2>1. StoreFrame(old, f, memory) = room
    BY <1>4 DEF StoreFrame
  <2> QED
    BY <1>4, <2>1
<1> QED
  BY <1>3, <1>4

\* Only the step that found the entry ends a lookup at it.
LEMMA HoldStep ==
  ASSUME TypeOK, [Next]_vars, NEW n \in Neighbors,
         op = "lookup", op' = "idle", item = n
  PROVE  LET f == req.frame
         IN  IF f.length = 0 THEN HoldTime(n)' = HoldTime(n)
             ELSE HoldTime(n)' \in {0} \union (IF f.length < 2 THEN {} ELSE {f.hold})
<1>1. item # NULL
  BY NullAssumption
<1>2. LookupHit
  BY <1>1
     DEF Next, Receive, Purge, Clean, BeginReceive, StartLookup, LookupNext,
         CreateNoMemory, CreatePartial, Create, TimerFires, ReadClock, BeginPurge,
         StartPurge, PurgeKeep, PurgeExpired, EndPurge, BeginClean, CloseList,
         CleanStep, DeleteList, Tick, vars, opVars
<1>3. frame \in [Neighbors -> Buffer] /\ req.frame \in Frames
  BY DEF TypeOK, Request
<1>4. PICK memory \in BOOLEAN :
        frame' = [frame EXCEPT ![n] = StoreFrame(@, req.frame, memory)]
  BY <1>2 DEF LookupHit, Refresh
<1>5. frame'[n] = StoreFrame(frame[n], req.frame, memory)
  BY <1>3, <1>4
<1>6. CASE req.frame.length = 0
  BY <1>5, <1>6 DEF StoreFrame, HoldTime
<1>7. CASE req.frame.length # 0
  <2>1. frame[n] \in Buffer
    BY <1>3
  <2>2. frame'[n].present =>
          /\ frame'[n].length = req.frame.length
          /\ req.frame.length >= 2 => frame'[n].hold = req.frame.hold
    BY <1>3, <1>5, <1>7, <2>1, StoredFrame
  <2>3. req.frame.length \in Nat
    BY <1>3, FramesAssumption
  <2> QED
    BY <1>7, <2>2, <2>3 DEF HoldTime
<1> QED
  BY <1>6, <1>7

\* A recorded frame never inherits the hold time of the frame before it
\* (cdp_neighbor_set_frame_buffer, cdp_neighbor_get_hold_time).
THEOREM NeverInherited == Spec => HoldIsOfFrame
<1>1. TypeOK /\ [Next]_vars =>
        [\A n \in Neighbors :
           op = "lookup" /\ op' = "idle" /\ item = n =>
             LET f == req.frame
             IN  IF f.length = 0 THEN HoldTime(n)' = HoldTime(n)
                 ELSE HoldTime(n)' \in
                        {0} \union (IF f.length < 2 THEN {} ELSE {f.hold})]_vars
  BY HoldStep
<1>. QED
  BY TypeCorrect, <1>1, PTL DEF Spec, HoldIsOfFrame

-----------------------------------------------------------------------------
(* One entry per identity.  The list is finite and has no cycle because its *)
(* entries can be numbered in its order; with such a numbering, a lookup    *)
(* that reaches the end has passed every entry.                             *)

Numbering == [Neighbors -> Nat]

OrderInv ==
  /\ UniqueIdentity
  /\ \E pos \in Numbering : Ordered(pos) /\ Searched(pos)

\* An appended entry gets the next number.
LEMMA AppendOrder ==
  ASSUME TypeOK, Linked, NEW n \in Neighbors \ Listed, AppendItem(n),
         NEW pos \in Numbering, Ordered(pos)
  PROVE  \E pos2 \in Numbering : Ordered(pos2)'
<1>. USE NullAssumption DEF Numbering
<1>. DEFINE last == IF tail = NULL THEN 0 ELSE pos[tail] + 1
            pos2 == [pos EXCEPT ![n] = last]
<1>1. Linked' /\ Listed' = Listed \union {n}
  BY AppendEffect
<1>2. Listed \subseteq Neighbors /\ (tail # NULL => tail \in Listed)
  BY DEF Listed, Linked
<1>3. last \in Nat
  BY <1>2
<1>4. pos2 \in Numbering
  BY <1>3
<1>5. \A m \in Listed : pos2[m] = pos[m] /\ pos2[m] < pos2[n]
  BY <1>2, <1>3 DEF Ordered
<1>6. pos2[n] \in Nat /\ \A m \in Listed : pos2[m] \in Nat
  BY <1>4, <1>2
<1>. HIDE DEF pos2, last
<1>7. \A k, m \in Listed' : pos2[k] = pos2[m] => k = m
  BY <1>1, <1>5, <1>6 DEF Ordered
<1>8. \A m \in Listed' : head' # NULL /\ pos2[head'] <= pos2[m]
                        /\ tail' # NULL /\ pos2[m] <= pos2[tail']
  <2>1. tail' = n /\ n # NULL
    BY DEF AppendItem
  <2>2. CASE tail = NULL
    BY <1>1, <1>5, <1>6, <2>1, <2>2 DEF Ordered, AppendItem, Linked
  <2>3. CASE tail # NULL
    BY <1>1, <1>2, <1>5, <1>6, <2>1, <2>3 DEF Ordered, AppendItem, Linked, Listed, TypeOK, Pointer
  <2>. QED
    BY <2>2, <2>3
<1>9. ASSUME NEW m \in Listed', next'[m] # NULL
      PROVE  /\ pos2[m] < pos2[next'[m]]
             /\ \A k \in Listed' : pos2[k] < pos2[next'[m]] => pos2[k] <= pos2[m]
  <2>1. m \in Listed
    BY <1>1, <1>9 DEF AppendItem, Linked
  <2>2. CASE m = tail
    <3>1. next'[m] = n
      BY <1>2, <2>2, <2>1 DEF AppendItem
    <3>. QED
      BY <1>1, <1>5, <1>6, <2>1, <2>2, <3>1 DEF Ordered
  <2>3. CASE m # tail
    <3>1. next'[m] = next[m] /\ next[m] \in Listed
      BY <1>2, <1>9, <2>1, <2>3 DEF AppendItem, Linked, Listed, TypeOK, Pointer
    <3>. QED
      BY <1>1, <1>5, <1>6, <1>9, <2>1, <3>1 DEF Ordered
  <2>. QED
    BY <2>2, <2>3
<1>. QED
  BY <1>4, <1>7, <1>8, <1>9 DEF Ordered

\* The numbers of the other entries stay right when one is removed.
LEMMA RemoveOrder ==
  ASSUME TypeOK, Linked, NEW n \in Listed, RemoveItem(n),
         NEW pos \in Numbering, Ordered(pos)
  PROVE  Ordered(pos)'
<1>. USE NullAssumption DEF Numbering
<1>1. Listed' = Listed \ {n}
  BY RemoveEffect
<1>2. /\ head' = IF prev[n] = NULL THEN next[n] ELSE head
      /\ tail' = IF next[n] = NULL THEN prev[n] ELSE tail
      /\ \A m \in Listed' : next'[m] = IF m = prev[n] THEN next[n] ELSE next[m]
  BY <1>1 DEF RemoveItem, RemoveOk, PrevSideOk, NextSideOk, Linked, Listed
<1>3. /\ \A m \in Listed : pos[m] \in Nat
      /\ \A m \in Listed : next[m] # NULL => next[m] \in Listed /\ prev[next[m]] = m
      /\ prev[n] = NULL => head = n
      /\ prev[n] # NULL => prev[n] \in Listed /\ next[prev[n]] = n
      /\ next[n] = NULL => tail = n
      /\ head # NULL => head \in Listed
      /\ tail # NULL => tail \in Listed
  BY DEF Linked, Listed, TypeOK, Pointer
<1>4. \A k, m \in Listed' : pos[k] = pos[m] => k = m
  BY <1>1 DEF Ordered
<1>5. \A m \in Listed' : head' # NULL /\ pos[head'] <= pos[m]
                        /\ tail' # NULL /\ pos[m] <= pos[tail']
  BY <1>1, <1>2, <1>3 DEF Ordered
<1>6. ASSUME NEW m \in Listed', next'[m] # NULL
      PROVE  /\ pos[m] < pos[next'[m]]
             /\ \A k \in Listed' : pos[k] < pos[next'[m]] => pos[k] <= pos[m]
  <2>1. CASE m = prev[n]
    <3>1. m \in Listed /\ next[m] = n /\ next[n] # NULL /\ next[n] \in Listed
          /\ next'[m] = next[n]
      BY <1>1, <1>2, <1>3, <1>6, <2>1 DEF Listed
    <3>2. pos[m] < pos[n] /\ pos[n] < pos[next[n]]
      BY <3>1, NullAssumption DEF Ordered, Listed
    <3>3. pos[m] < pos[next[n]]
      BY <3>1, <3>2, <1>3
    <3>4. ASSUME NEW k \in Listed', pos[k] < pos[next[n]]
          PROVE  pos[k] <= pos[m]
      <4>1. k \in Listed /\ k # n
        BY <1>1
      <4>2. pos[k] <= pos[n] /\ pos[k] # pos[n]
        BY <3>1, <3>4, <4>1 DEF Ordered
      <4>3. pos[k] < pos[next[m]]
        BY <1>3, <3>1, <4>1, <4>2
      <4>. QED
        BY <3>1, <4>1, <4>3 DEF Ordered, Listed
    <3>. QED
      BY <3>1, <3>3, <3>4
  <2>2. CASE m # prev[n]
    BY <1>1, <1>2, <1>3, <1>6, <2>2 DEF Ordered
  <2>. QED
    BY <2>1, <2>2
<1>. QED
  BY <1>4, <1>5, <1>6 DEF Ordered

\* Taking the first entry is removing it.
LEMMA TakeFirstOrder ==
  ASSUME TypeOK, Linked, head # NULL, TakeFirst,
         NEW pos \in Numbering, Ordered(pos)
  PROVE  Ordered(pos)'
<1>. USE NullAssumption DEF Numbering
<1>1. Listed' = Listed \ {head}
  BY TakeFirstEffect
<1>2. /\ head \in Listed /\ prev[head] = NULL
      /\ \A m \in Listed : pos[m] \in Nat
      /\ \A m \in Listed : next[m] # NULL => next[m] \in Listed /\ prev[next[m]] = m
      /\ next[head] = NULL => tail = head
      /\ tail # NULL => tail \in Listed
  BY DEF Linked, Listed, TypeOK, Pointer
<1>3. /\ head' = next[head]
      /\ tail' = IF next[head] = NULL THEN NULL ELSE tail
      /\ \A m \in Listed' : next'[m] = next[m]
  BY <1>1, <1>2 DEF TakeFirst, Listed
<1>4. \A k, m \in Listed' : pos[k] = pos[m] => k = m
  BY <1>1 DEF Ordered
<1>5. \A m \in Listed' : head' # NULL /\ pos[head'] <= pos[m]
                        /\ tail' # NULL /\ pos[m] <= pos[tail']
  BY <1>1, <1>2, <1>3 DEF Ordered
<1>6. ASSUME NEW m \in Listed', next'[m] # NULL
      PROVE  /\ pos[m] < pos[next'[m]]
             /\ \A k \in Listed' : pos[k] < pos[next'[m]] => pos[k] <= pos[m]
  BY <1>1, <1>2, <1>3, <1>6 DEF Ordered
<1>. QED
  BY <1>4, <1>5, <1>6 DEF Ordered

LEMMA OrderInit == Init => OrderInv
<1>. SUFFICES ASSUME Init PROVE OrderInv
  OBVIOUS
<1>1. Listed = {}
  BY NullAssumption DEF Init, Listed
<1>. DEFINE pos == [n \in Neighbors |-> 0]
<1>2. pos \in Numbering /\ Ordered(pos) /\ Searched(pos)
  BY <1>1 DEF Numbering, Ordered, Searched
<1>. QED
  BY <1>1, <1>2 DEF OrderInv, UniqueIdentity

\* Steps that leave the links and the identities alone, and do not move a
\* lookup, keep the order.
LEMMA OrderStutter ==
  ASSUME OrderInv, UNCHANGED <<head, tail, next, prev, ident>>,
         op' = "lookup" => op = "lookup" /\ UNCHANGED <<item, req>>
  PROVE  OrderInv'
<1>1. PICK pos \in Numbering : Ordered(pos) /\ Searched(pos)
  BY DEF OrderInv
<1>2. Listed' = Listed
  BY DEF Listed
<1>3. Ordered(pos)' /\ Searched(pos)'
  BY <1>1, <1>2 DEF Ordered, Searched
<1>4. UniqueIdentity'
  BY <1>2 DEF OrderInv, UniqueIdentity
<1>. QED
  BY <1>3, <1>4 DEF OrderInv

LEMMA OrderStep ==
  ASSUME ListInv, OrderInv, [Next]_vars
  PROVE  OrderInv'
<1>. USE NullAssumption DEF ListInv
<1>0. PICK pos \in Numbering : Ordered(pos) /\ Searched(pos)
  BY DEF OrderInv
<1>. DEFINE Links == <<head, tail, next, prev, ident>>
<1>1. ASSUME NEW id \in Identities, NEW f \in Frames, BeginReceive(id, f)
      PROVE  OrderInv'
  <2>1. Listed' = Listed /\ UNCHANGED Links
    BY <1>1 DEF BeginReceive, StartLookup, Listed, heapVars, listVars
  <2>2. Ordered(pos)' /\ UniqueIdentity'
    BY <1>0, <2>1 DEF Ordered, OrderInv, UniqueIdentity
  <2>3. \A m \in Listed : head # NULL /\ ~(pos[m] < pos[head])
    <3>. SUFFICES ASSUME NEW m \in Listed PROVE head # NULL /\ ~(pos[m] < pos[head])
      OBVIOUS
    <3>1. head # NULL /\ pos[head] <= pos[m]
      BY <1>0 DEF Ordered
    <3>2. pos[head] \in Nat /\ pos[m] \in Nat
      BY <3>1 DEF Numbering, Listed, TypeOK, Pointer
    <3>. QED
      BY <3>1, <3>2
  <2>4. Searched(pos)'
    BY <1>1, <2>1, <2>3 DEF Searched, BeginReceive, StartLookup
  <2>. QED
    BY <2>2, <2>4 DEF OrderInv
<1>2. CASE LookupNext
  <2>1. Listed' = Listed /\ UNCHANGED Links
    BY <1>2 DEF LookupNext, SameIdentity, Listed, heapVars, listVars
  <2>2. Ordered(pos)' /\ UniqueIdentity'
    BY <1>0, <2>1 DEF Ordered, OrderInv, UniqueIdentity
  <2>3. item \in Listed /\ ident[item] # req.id
    BY <1>2 DEF LookupNext, SameIdentity, Turns
  <2>4. ASSUME NEW m \in Listed, next[item] = NULL \/ pos[m] < pos[next[item]]
        PROVE  ident[m] # req.id
    <3>1. pos[m] \in Nat /\ pos[item] \in Nat
      BY <2>3 DEF Numbering, Listed
    <3>2. pos[m] <= pos[item]
      BY <1>0, <2>3, <2>4 DEF Ordered, Linked
    <3>3. pos[m] = pos[item] => m = item
      BY <1>0, <2>3 DEF Ordered
    <3>4. CASE pos[m] < pos[item]
      BY <1>0, <1>2, <3>4 DEF Searched, LookupNext, SameIdentity
    <3>. QED
      BY <2>3, <3>1, <3>2, <3>3, <3>4
  <2>5. Searched(pos)'
    BY <1>2, <2>1, <2>4 DEF Searched, LookupNext, SameIdentity
  <2>. QED
    BY <2>2, <2>5 DEF OrderInv
<1>3. CASE LookupHit
  BY <1>3, OrderStutter DEF LookupHit, SameIdentity, EndReceive
<1>4. CASE CreateNoMemory
  BY <1>4, OrderStutter DEF CreateNoMemory, EndReceive, heapVars, listVars
<1>5. ASSUME NEW n \in Neighbors, CreatePartial(n)
      PROVE  OrderInv'
  BY <1>5, OrderStutter DEF CreatePartial, NewNeighbor, DeleteNeighbor, EndReceive, listVars
<1>6. ASSUME NEW n \in Neighbors, Create(n)
      PROVE  OrderInv'
  <2>1. n \in Neighbors \ Listed
    BY <1>6 DEF Create, NewNeighbor, SetIdentity, DeleteNeighbor, NoDanglingEntry
  <2>2. AppendOk(n)
    BY <2>1 DEF AppendOk, Linked
  <2>3. AppendItem(n) /\ op' = "idle"
    BY <1>6, <2>2 DEF Create, NewNeighbor, SetIdentity, DeleteNeighbor, EndReceive
  <2>4. Listed' = Listed \union {n}
    BY <2>1, <2>3, AppendEffect
  <2>5. \E pos2 \in Numbering : Ordered(pos2)'
    BY <1>0, <2>1, <2>3, AppendOrder
  <2>6. \A m \in Listed : ident[m] # req.id
    BY <1>0, <1>6 DEF Create, NewNeighbor, SetIdentity, DeleteNeighbor, Searched
  <2>7. \A m \in Listed' : ident'[m] = IF m = n THEN req.id ELSE ident[m]
    BY <1>6, <2>4 DEF Create, NewNeighbor, SetIdentity, DeleteNeighbor, TypeOK, Listed
  <2>8. UniqueIdentity'
    BY <2>1, <2>4, <2>6, <2>7 DEF UniqueIdentity, OrderInv
  <2>. QED
    BY <2>3, <2>5, <2>8 DEF OrderInv, Searched
<1>7. CASE TimerFires
  BY <1>7, OrderStutter DEF TimerFires, ReadClock, heapVars, listVars, opVars
<1>8. CASE BeginPurge
  BY <1>8, OrderStutter DEF BeginPurge, StartPurge, heapVars, listVars
<1>9. CASE PurgeKeep
  BY <1>9, OrderStutter DEF PurgeKeep, heapVars, listVars
<1>10. CASE PurgeExpired
  <2>1. item \in Listed /\ RemoveItem(item)
    BY <1>10 DEF PurgeExpired, DeleteNeighbor, Turns
  <2>2. Ordered(pos)'
    BY <1>0, <2>1, RemoveOrder
  <2>3. Listed' = Listed \ {item}
    BY <2>1, RemoveEffect
  <2>4. UniqueIdentity' /\ Searched(pos)'
    BY <1>10, <2>3 DEF PurgeExpired, DeleteNeighbor, UniqueIdentity, OrderInv, Searched
  <2>. QED
    BY <2>2, <2>4 DEF OrderInv
<1>11. CASE EndPurge
  BY <1>11, OrderStutter DEF EndPurge, heapVars, listVars
<1>12. CASE BeginClean
  BY <1>12, OrderStutter DEF BeginClean, CloseList, heapVars, opVars
<1>13. CASE CleanStep
  <2>1. Ordered(pos)'
    BY <1>0, <1>13, TakeFirstOrder DEF CleanStep, DeleteNeighbor
  <2>2. Listed' = Listed \ {head}
    BY <1>13, TakeFirstEffect DEF CleanStep, DeleteNeighbor
  <2>3. UniqueIdentity' /\ Searched(pos)'
    BY <1>13, <2>2 DEF CleanStep, DeleteNeighbor, UniqueIdentity, OrderInv, Searched, Turns, opVars
  <2>. QED
    BY <2>1, <2>3 DEF OrderInv
<1>14. CASE DeleteList
  BY <1>14, OrderStutter DEF DeleteList, heapVars, opVars
<1>15. CASE Tick
  BY <1>15, OrderStutter DEF Tick, heapVars, listVars, opVars
<1>16. CASE UNCHANGED vars
  BY <1>16, OrderStutter DEF vars, heapVars, listVars, opVars
<1>. QED
  BY <1>1, <1>2, <1>3, <1>4, <1>5, <1>6, <1>7, <1>8, <1>9, <1>10, <1>11,
     <1>12, <1>13, <1>14, <1>15, <1>16 DEF Next, Receive, Purge, Clean

\* Two entries never have the same identity.
THEOREM AlwaysUnique == Spec => []UniqueIdentity
<1>1. ListInv /\ OrderInv /\ [Next]_vars => OrderInv'
  BY OrderStep
<1>2. OrderInv => UniqueIdentity
  BY DEF OrderInv
<1>. QED
  BY OrderInit, ListCorrect, <1>1, <1>2, PTL DEF Spec

-----------------------------------------------------------------------------
(* The list implements the table.                                          *)

Entries == {EntryOf(n) : n \in Listed}

\* Entries of different structs are different, whatever else they say.
LEMMA EntriesDiffer ==
  ASSUME UniqueIdentity, NEW m \in Listed, NEW n \in Listed,
         EntryOf(m).id = EntryOf(n).id
  PROVE  m = n
BY DEF UniqueIdentity, EntryOf

\* A step that leaves alone what the entries say leaves the table alone.
LEMMA SameEntries ==
  ASSUME UNCHANGED <<head, prev, ident, receivedAt, frame>>
  PROVE  Entries' = Entries
BY DEF Entries, EntryOf, HoldTime, Listed

\* Taking a struct off the list takes its entry off the table.
LEMMA FewerEntries ==
  ASSUME UniqueIdentity, NEW n \in Listed, Listed' = Listed \ {n},
         UNCHANGED <<ident, receivedAt, frame>>
  PROVE  Entries' = Entries \ {EntryOf(n)}
<1>1. \A m \in Listed : EntryOf(m)' = EntryOf(m)
  BY DEF EntryOf, HoldTime
<1>2. \A m \in Listed : EntryOf(m) = EntryOf(n) => m = n
  BY EntriesDiffer
<1>3. Entries' = {EntryOf(m) : m \in Listed \ {n}}
  BY <1>1 DEF Entries
<1>. HIDE DEF EntryOf
<1>. QED
  BY <1>2, <1>3 DEF Entries

\* Recording a frame replaces the entry of its sender.
LEMMA HeardEntry ==
  ASSUME TypeOK, op = "lookup", NEW n \in Neighbors, Refresh(n),
         Listed' = Listed \union {n}, ident'[n] = req.id,
         \A m \in Listed \ {n} : ident'[m] = ident[m] /\ ident[m] # req.id,
         n \in Listed => ident[n] = req.id
  PROVE  /\ Entries' = {e \in Entries : e.id # req.id}
              \union {[id |-> req.id, at |-> clock, hold |-> HoldTime(n)']}
         /\ HoldTime(n)' \in HoldTimes
<1>1. \A m \in Listed \ {n} : EntryOf(m)' = EntryOf(m)
  BY DEF EntryOf, HoldTime, Refresh, Listed, TypeOK
<1>2. EntryOf(n)' = [id |-> req.id, at |-> clock, hold |-> HoldTime(n)']
  BY DEF EntryOf, Refresh, TypeOK
<1>3. \A m \in Listed : EntryOf(m).id # req.id <=> m # n
  BY DEF EntryOf
<1>4. Entries' = {EntryOf(m) : m \in Listed \ {n}} \union {EntryOf(n)'}
  BY <1>1 DEF Entries
<1>5. {e \in Entries : e.id # req.id} = {EntryOf(m) : m \in Listed \ {n}}
  <2>. HIDE DEF EntryOf
  <2>. QED
    BY <1>3 DEF Entries
<1>6. frame'[n] \in Buffer
  BY RefreshType
<1>7. HoldTime(n)' \in HoldTimes
  BY <1>6 DEF HoldTime, Buffer, HoldTimes
<1>. QED
  BY <1>2, <1>4, <1>5, <1>7

LEMMA TableInit == Init => Table!Init
<1>. SUFFICES ASSUME Init PROVE Table!Init
  OBVIOUS
<1>1. Listed = {}
  BY NullAssumption DEF Init, Listed
<1>. QED
  BY <1>1 DEF Init, Table!Init

\* Every step of the list is one step of the table or none.
LEMMA TableStep ==
  ASSUME ListInv, OrderInv, [Next]_vars
  PROVE  [Table!Next]_(Table!vars)
<1>. USE NullAssumption DEF ListInv, OrderInv
<1>a. ASSUME Entries' = Entries, UNCHANGED <<clock, life>>
      PROVE  [Table!Next]_(Table!vars)
  BY <1>a DEF Table!vars, Entries
<1>b. ASSUME UNCHANGED <<head, prev, ident, receivedAt, frame, clock, life>>
      PROVE  [Table!Next]_(Table!vars)
  BY <1>a, <1>b, SameEntries
<1>1. ASSUME NEW id \in Identities, NEW f \in Frames, BeginReceive(id, f)
      PROVE  [Table!Next]_(Table!vars)
  BY <1>1, <1>b DEF BeginReceive, StartLookup, heapVars, listVars
<1>2. CASE LookupNext
  BY <1>2, <1>b DEF LookupNext, SameIdentity, heapVars, listVars
<1>3. CASE LookupHit
  <2>1. PICK n \in Listed : n = item
    BY <1>3 DEF LookupHit, SameIdentity, Turns
  <2>2. n \in Neighbors /\ ident[n] = req.id /\ Refresh(n) /\ op = "lookup"
    BY <1>3, <2>1 DEF LookupHit, SameIdentity, Listed
  <2>3. Listed' = Listed /\ ident' = ident /\ clock' = clock /\ life' = life
    BY <1>3 DEF LookupHit, SameIdentity, Listed
  <2>4. \A m \in Listed \ {n} : ident[m] # req.id
    BY <2>2 DEF UniqueIdentity
  <2>5. /\ Entries' = {e \in Entries : e.id # req.id}
              \union {[id |-> req.id, at |-> clock, hold |-> HoldTime(n)']}
        /\ HoldTime(n)' \in HoldTimes
    BY <2>2, <2>3, <2>4, HeardEntry
  <2>6. life = "live" /\ req.id \in Identities
    BY <2>2 DEF Turns, TypeOK, Request
  <2>7. Table!Hear(req.id, HoldTime(n)')
    BY <2>3, <2>5, <2>6 DEF Table!Hear, Table!Without, Entries
  <2>. QED
    BY <2>5, <2>6, <2>7 DEF Table!Next
<1>4. CASE CreateNoMemory
  BY <1>4, <1>b DEF CreateNoMemory, heapVars, listVars
<1>5. ASSUME NEW n \in Neighbors, CreatePartial(n)
      PROVE  [Table!Next]_(Table!vars)
  BY <1>5, <1>b DEF CreatePartial, NewNeighbor, DeleteNeighbor, listVars
<1>6. ASSUME NEW n \in Neighbors, Create(n)
      PROVE  [Table!Next]_(Table!vars)
  <2>1. n \in Neighbors \ Listed
    BY <1>6 DEF Create, NewNeighbor, SetIdentity, DeleteNeighbor, NoDanglingEntry
  <2>2. AppendOk(n)
    BY <2>1 DEF AppendOk, Linked
  <2>3. /\ AppendItem(n) /\ Refresh(n) /\ op = "lookup" /\ item = NULL
        /\ clock' = clock /\ life' = life
    BY <1>6, <2>2 DEF Create, NewNeighbor, SetIdentity, DeleteNeighbor
  <2>4. Listed' = Listed \union {n}
    BY <2>1, <2>3, AppendEffect
  <2>5. ident'[n] = req.id /\ \A m \in Listed \ {n} : ident'[m] = ident[m]
    BY <1>6 DEF Create, NewNeighbor, SetIdentity, DeleteNeighbor, TypeOK, Listed
  <2>6. \A m \in Listed \ {n} : ident[m] # req.id
    BY <2>3 DEF Searched
  <2>7. /\ Entries' = {e \in Entries : e.id # req.id}
              \union {[id |-> req.id, at |-> clock, hold |-> HoldTime(n)']}
        /\ HoldTime(n)' \in HoldTimes
    BY <2>1, <2>3, <2>4, <2>5, <2>6, HeardEntry
  <2>8. life = "live" /\ req.id \in Identities
    BY <2>3 DEF Turns, TypeOK, Request
  <2>9. Table!Hear(req.id, HoldTime(n)')
    BY <2>3, <2>7, <2>8 DEF Table!Hear, Table!Without, Entries
  <2>. QED
    BY <2>7, <2>8, <2>9 DEF Table!Next
<1>7. CASE TimerFires
  BY <1>7, <1>b DEF TimerFires, ReadClock, heapVars, listVars
<1>8. CASE BeginPurge
  BY <1>8, <1>b DEF BeginPurge, StartPurge, heapVars, listVars
<1>9. CASE PurgeKeep
  BY <1>9, <1>b DEF PurgeKeep, heapVars, listVars
<1>10. CASE PurgeExpired
  <2>1. item \in Listed /\ RemoveItem(item) /\ life = "live"
    BY <1>10 DEF PurgeExpired, DeleteNeighbor, Turns
  <2>2. Listed' = Listed \ {item}
    BY <2>1, RemoveEffect
  <2>3. UNCHANGED <<ident, receivedAt, frame, clock, life>>
    BY <1>10 DEF PurgeExpired, DeleteNeighbor
  <2>4. Entries' = Entries \ {EntryOf(item)}
    BY <2>1, <2>2, <2>3, FewerEntries
  <2>5. IsExpired(item, clock)
    BY <2>1, <2>2, LeaveStep
  <2>6. Table!Expire(EntryOf(item))
    <3>1. EntryOf(item) \in Entries
      BY <2>1 DEF Entries
    <3>2. Table!Stale(EntryOf(item), clock)
      BY <2>5 DEF Table!Stale, IsExpired, EntryOf
    <3>. QED
      BY <2>1, <2>3, <2>4, <3>1, <3>2 DEF Table!Expire, Entries
  <2>. QED
    BY <2>1, <2>6 DEF Table!Next, Entries
<1>11. CASE EndPurge
  BY <1>11, <1>b DEF EndPurge, heapVars, listVars
<1>12. CASE BeginClean
  <2>1. Entries' = Entries
    BY <1>12, SameEntries DEF BeginClean, CloseList, heapVars
  <2>2. Table!Close
    BY <1>12, <2>1 DEF BeginClean, CloseList, Table!Close, Entries
  <2>. QED
    BY <2>2 DEF Table!Next
<1>13. CASE CleanStep
  <2>1. head \in Listed
    BY <1>13 DEF CleanStep, DeleteNeighbor, Listed, TypeOK, Pointer
  <2>2. Listed' = Listed \ {head}
    BY <1>13, TakeFirstEffect DEF CleanStep, DeleteNeighbor
  <2>3. UNCHANGED <<ident, receivedAt, frame, clock, life>> /\ life = "cleaning"
    BY <1>13 DEF CleanStep, DeleteNeighbor
  <2>4. Entries' = Entries \ {EntryOf(head)}
    BY <2>1, <2>2, <2>3, FewerEntries
  <2>5. Table!Drop(EntryOf(head))
    BY <2>1, <2>3, <2>4 DEF Table!Drop, Entries
  <2>. QED
    BY <2>1, <2>5 DEF Table!Next, Entries
<1>14. CASE DeleteList
  <2>1. Entries' = Entries
    BY <1>14, SameEntries DEF DeleteList, heapVars
  <2>. QED
    BY <1>14, <2>1 DEF DeleteList, Table!vars, Entries
<1>15. CASE Tick
  <2>1. Entries' = Entries
    BY <1>15, SameEntries DEF Tick, heapVars, listVars
  <2>2. Table!Tick
    BY <1>15, <2>1 DEF Tick, Table!Tick, Entries, listVars
  <2>. QED
    BY <2>2 DEF Table!Next
<1>16. CASE UNCHANGED vars
  BY <1>16, <1>b DEF vars, heapVars, listVars
<1>. QED
  BY <1>1, <1>2, <1>3, <1>4, <1>5, <1>6, <1>7, <1>8, <1>9, <1>10, <1>11,
     <1>12, <1>13, <1>14, <1>15, <1>16 DEF Next, Receive, Purge, Clean

\* The list with its pointers, its counter and its loops implements the table.
THEOREM ListImplementsTable == Spec => TableSpec
<1>1. ListInv /\ OrderInv /\ [Next]_vars => [Table!Next]_(Table!vars)
  BY TableStep
<1>2. ListInv /\ OrderInv /\ [Next]_vars => OrderInv'
  BY OrderStep
<1>. QED
  BY TableInit, OrderInit, ListCorrect, <1>1, <1>2, PTL DEF Spec, TableSpec, Table!Spec
=============================================================================
