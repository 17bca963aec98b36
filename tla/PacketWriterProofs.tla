------------------------- MODULE PacketWriterProofs -------------------------
(***************************************************************************)
(* Theorems about Transmit, for any number of devices, of addresses and of *)
(* rounds, and about PacketWriter, for buffers of any length, strings of   *)
(* any lengths and any number of addresses.                                *)
(***************************************************************************)
EXTENDS PacketWriter, SequenceTheorems, TLAPS

-----------------------------------------------------------------------------
(* Transmit.                                                               *)

Stages == {"collect", "fill", "build", "send"}

\* A packet is made for an Ethernet device that has a carrier, with a buffer
\* of its own.
OnePacket ==
  /\ at \in Stages => dev \in Ethernet /\ dev \in up /\ skb[dev] = "owned"
  /\ \A d \in Devices : skb[d] = "owned" => at \in Stages /\ d = dev
  /\ \A d \in Devices : skb[d] # "corrupt"

\* The walk has seen the devices before dev, and in the middle of a packet dev.
SeenSoFar ==
  /\ \A d \in up : d <= dev
  /\ at = "walk" => \A d \in up : d < dev

\* Every device behind the walk was served, unless the round gave up.
Served ==
  at # "idle" \/ result = "ok" =>
    \A d \in up \cap Ethernet : d < dev => skb[d] = "sent"

ArrayInUse == at \notin {"fill", "build"} => slots = 0

\* A round holds the lock once; the others are those that gave up.
LockCounted ==
  /\ readers <= rounds
  /\ at # "idle" => readers > 0

TransmitInv ==
  /\ TransmitTypeOK
  /\ OnePacket
  /\ SeenSoFar
  /\ Served
  /\ ArrayInUse
  /\ LockCounted

\* The invariant gives what the runs check.
LEMMA TransmitInvImplies == TransmitInv => BuffersSpent /\ ServedOnSuccess
<1> SUFFICES ASSUME TransmitInv PROVE BuffersSpent /\ ServedOnSuccess
  OBVIOUS
<1>1. filled <= slots
  BY DevicesAssumption DEF TransmitInv, TransmitTypeOK
<1> QED
  BY <1>1
     DEF TransmitInv, OnePacket, Served, ArrayInUse, Stages, BuffersSpent,
         ServedOnSuccess

\* Before the first round there is nothing to hold.
LEMMA TransmitInitInv == TransmitInit => TransmitInv
BY DevicesAssumption
DEF TransmitInit, TransmitInv, TransmitTypeOK, OnePacket, SeenSoFar, Served,
    ArrayInUse, LockCounted, Stages, BufferState, Devices

\* The walk itself keeps the invariant.
LEMMA WalkKeepsInv ==
  ASSUME TransmitInv,
         StartRound \/ NoCarrier \/ OtherDevice \/ EndRound
  PROVE  TransmitInv'
<1> USE DevicesAssumption
<1> USE DEF TransmitInv, TransmitTypeOK, OnePacket, SeenSoFar, Served,
            ArrayInUse, LockCounted, Stages, BufferState, Devices
<1>1. CASE StartRound
  BY <1>1 DEF StartRound
<1>2. CASE NoCarrier
  BY <1>2 DEF NoCarrier, GoOn
<1>3. CASE OtherDevice
  BY <1>3 DEF OtherDevice, GoOn, GiveUp, GiveUpFor
<1>4. CASE EndRound
  BY <1>4 DEF EndRound
<1> QED BY <1>1, <1>2, <1>3, <1>4

\* So does each stage of a packet, whether it succeeds or fails.
LEMMA PacketKeepsInv ==
  ASSUME TransmitInv, TransmitPacket
  PROVE  TransmitInv'
<1> USE DevicesAssumption
<1> USE DEF TransmitInv, TransmitTypeOK, OnePacket, SeenSoFar, Served,
            ArrayInUse, LockCounted, Stages, BufferState, Devices, Proceed,
            GoOn, GiveUp, GiveUpFor, FreeBuffer, DeleteArray
<1>1. CASE AllocBuffer
  BY <1>1 DEF AllocBuffer
<1>2. CASE NoAddresses
  BY <1>2 DEF NoAddresses
<1>3. CASE CountAddresses
  BY <1>3 DEF CountAddresses
<1>4. CASE CopyAddress
  BY <1>4 DEF CopyAddress, SlotFree
<1>5. CASE CopyFails
  BY <1>5 DEF CopyFails
<1>6. CASE EndCopy
  BY <1>6 DEF EndCopy
<1>7. CASE Build
  BY <1>7 DEF Build
<1>8. CASE BuildFails
  BY <1>8 DEF BuildFails
<1>9. CASE Send
  BY <1>9 DEF Send
<1> QED
  BY <1>1, <1>2, <1>3, <1>4, <1>5, <1>6, <1>7, <1>8, <1>9 DEF TransmitPacket

\* What the invariant gives.
LEMMA TransmitCorrect ==
  TransmitSpec => [](TransmitTypeOK /\ BuffersSpent /\ ServedOnSuccess)
<1>1. TransmitInv /\ UNCHANGED transmitVars => TransmitInv'
  BY DEF TransmitInv, TransmitTypeOK, OnePacket, SeenSoFar, Served, ArrayInUse,
         LockCounted, transmitVars
<1>2. TransmitInv /\ [TransmitNext]_transmitVars => TransmitInv'
  BY <1>1, WalkKeepsInv, PacketKeepsInv DEF TransmitNext
<1>3. TransmitInv => TransmitTypeOK /\ BuffersSpent /\ ServedOnSuccess
  BY TransmitInvImplies DEF TransmitInv
<1> QED BY <1>2, <1>3, TransmitInitInv, PTL DEF TransmitSpec

\* In every round of every walk over the devices, whatever fails, no packet
\* buffer is lost or freed twice and no slot is written past the end of the
\* array (cdp_transmit_packets).
THEOREM BuffersOnce == TransmitSpec => []BuffersSpent
BY TransmitCorrect, PTL

\* When a walk of cdp_transmit_packets reports success, every Ethernet device
\* with a carrier was served.
THEOREM SuccessServes == TransmitSpec => []ServedOnSuccess
BY TransmitCorrect, PTL

-----------------------------------------------------------------------------
(* PacketWriter.                                                           *)

\* A number that fits in a word is not changed when it is cut to one.
LEMMA WordKeeps == ASSUME NEW n \in 0..(Word - 1) PROVE n % Word = n
BY WriterAssumption, SMT

\* A call is in progress only while Transmit is at "build".
CallInBuild ==
  /\ step # "none" => at = "build"
  /\ step = "none" => live = {} /\ copies = 0
  /\ step \in {"none", "fields"} => copies = 0
  /\ step \in {"array", "write", "items"} => "array" \in live
  /\ "writer" \in live => step \in {"write", "items"}

\* How far a call has got.
Progress ==
  /\ step \in {"fields", "array"} => wire = <<>> /\ item = 0
  /\ step \in {"fields", "array"} => copied <= slots
  /\ step \in {"write", "items"} => copied = slots
  /\ step = "items" => Len(wire) = 6 /\ item <= slots
  /\ step = "write" /\ Len(wire) < 6 => item = 0
  /\ step = "write" /\ Len(wire) >= 6 => item = slots
  /\ step = "items" \/ (step = "write" /\ Len(wire) >= 6) =>
       slots > 0 /\ filled = slots
  /\ at = "send" => Len(wire) = 7 /\ item = copied /\ item > 0

\* The TLVs written are the first ones, and each starts where the one before
\* it ends.
WireInv ==
  /\ Len(wire) <= 7
  /\ \A i \in 1..Len(wire) : wire[i].tlv = Order[i]
  /\ \A i \in 1..(Len(wire) - 1) :
       wire[i + 1].start = wire[i].start + wire[i].stated
  /\ (step = "write" \/ at = "send") /\ wire # <<>> =>
       pos = wire[Len(wire)].start + wire[Len(wire)].stated
  /\ step = "items" =>
       /\ pos = wire[6].start + 8 + AddressBytes(item)
       /\ wire[6].stated = (8 + AddressBytes(slots)) % Word

WriterInv ==
  /\ WriterTypeOK
  /\ CallInBuild
  /\ Progress
  /\ WireInv
  /\ pos <= Room

\* The first TLV follows the header, and none states less than its own header.
\* That of the addresses does so from when it is complete, for its length may have
\* been cut before.
HeadersInv ==
  /\ step \in {"fields", "array"} => pos = 0
  /\ step = "write" /\ wire = <<>> => pos = 4
  /\ wire # <<>> => wire[1].start = 4
  /\ \A i \in 1..Len(wire) : i # 6 => wire[i].stated >= 4
  /\ (step = "write" \/ at = "send") /\ Len(wire) >= 6 => wire[6].stated >= 4

\* The invariant gives what the runs check.
LEMMA WriterInvImplies ==
  WriterInv /\ HeadersInv
    => NeverPastRoom /\ LengthsTrue /\ NothingKept /\ SentWhole
<1> SUFFICES ASSUME WriterInv, HeadersInv
             PROVE NeverPastRoom /\ LengthsTrue /\ NothingKept /\ SentWhole
  OBVIOUS
<1>1. NeverPastRoom /\ NothingKept
  BY DEF WriterInv, NeverPastRoom, NothingKept, CallInBuild
<1>4. LengthsTrue
  <2>1. at = "send" => Len(wire) >= 6
    <3>1. at = "send" => Len(wire) = 7
      BY DEF WriterInv, Progress
    <3> QED BY <3>1
  <2>2. at = "send" => \A i \in 1..Len(wire) : wire[i].stated >= 4
    BY <2>1 DEF HeadersInv
  <2> QED
    BY <2>2 DEF WriterInv, WireInv, HeadersInv, LengthsTrue
<1>2. ASSUME at = "send" PROVE [i \in 1..Len(wire) |-> wire[i].tlv] = Order
  <2>1. Len(wire) = 7
    BY <1>2 DEF WriterInv, Progress
  <2>2. Order = [i \in 1..7 |-> Order[i]]
    BY DEF Order
  <2>3. [i \in 1..7 |-> wire[i].tlv] = [i \in 1..7 |-> Order[i]]
    BY <2>1 DEF WriterInv, WireInv
  <2> QED BY <2>1, <2>2, <2>3
<1>3. SentWhole
  BY <1>2 DEF WriterInv, Progress, SentWhole
<1> QED BY <1>1, <1>3, <1>4

\* Outside of the call there is nothing to keep track of.
LEMMA WriterInitInv == WriterInit => WriterInv
BY WriterAssumption
DEF WriterInit, TransmitInit, WriterInv, WriterTypeOK, CallInBuild, Progress,
    WireInv, Strings, Fields, Order, PacketBlocks

\* The bytes of addresses are a number that grows with theirs.
LEMMA AddressBytesGrow ==
  ASSUME v4 \in Nat, NEW n \in Nat
  PROVE  /\ AddressBytes(n) \in Nat
         /\ AddressBytes(n + 1) - AddressBytes(n) \in {9, 28}
         /\ AddressBytes(0) = 0
BY DEF AddressBytes

\* Until the packet is handed over, the walk over the devices does not touch
\* the writer, and no call is in progress.
LEMMA AroundKeepsInv ==
  ASSUME WriterInv, AroundPacket, UNCHANGED writerVars
  PROVE  WriterInv'
<1>1. at # "build" /\ at' # "send"
  BY DEF AroundPacket, StartRound, NoCarrier, OtherDevice, EndRound,
         AllocBuffer, NoAddresses, CountAddresses, CopyAddress, CopyFails,
         EndCopy, Send, GoOn, GiveUp, GiveUpFor, Proceed
<1>2. step = "none"
  BY <1>1 DEF WriterInv, CallInBuild
<1> QED
  BY <1>1, <1>2
  DEF WriterInv, WriterTypeOK, CallInBuild, Progress, WireInv, writerVars,
      AddressBytes

\* A call that gives up leaves nothing.
LEMMA AbandonKeepsInv ==
  ASSUME WriterInv, TransmitInv, NEW others,
         step \in {"write", "items"} => "writer" \in others,
         Abandon(others)
  PROVE  WriterInv'
<1>1. at' # "send" /\ step' = "none"
  BY DEF Abandon, BuildFails, GiveUp, GiveUpFor
<1>2. live' = {} /\ copies' = 0
  BY DEF Abandon, DeletePacketAnd, WriterInv, WriterTypeOK, CallInBuild
<1> QED
  BY <1>1, <1>2
  DEF WriterInv, WriterTypeOK, CallInBuild, Progress, WireInv, Abandon,
      AddressBytes

\* The steps that fill the packet keep the invariant.
LEMMA FillKeepsInv ==
  ASSUME WriterInv, TransmitInv,
         NewPacket \/ SetField \/ ProvisionArray \/ CopySlot
  PROVE  WriterInv'
<1> USE DEF WriterInv, CallInBuild, Progress, WireInv, AddressBytes
<1>1. CASE NewPacket
  BY <1>1, WriterAssumption
  DEF NewPacket, TransmitInv, TransmitTypeOK, WriterTypeOK, Fields,
      PacketBlocks, transmitVars
<1>2. CASE SetField
  <2>1. set + 1 \in 1..Len(Fields) /\ Fields[set + 1] # "writer"
    BY <1>2 DEF SetField, WriterTypeOK, Fields
  <2>2. WriterTypeOK'
    BY <1>2, <2>1 DEF SetField, WriterTypeOK, PacketBlocks
  <2> QED
    BY <1>2, <2>1, <2>2 DEF SetField, transmitVars
<1>3. CASE ProvisionArray
  <2>1. WriterTypeOK'
    BY <1>3 DEF ProvisionArray, WriterTypeOK, PacketBlocks
  <2> QED
    BY <1>3, <2>1 DEF ProvisionArray, transmitVars
<1>4. CASE CopySlot
  <2>1. WriterTypeOK'
    BY <1>4 DEF CopySlot, WriterTypeOK
  <2>2. slots \in Nat
    BY DevicesAssumption DEF TransmitInv, TransmitTypeOK
  <2>3. copied' <= slots'
    BY <1>4, <2>2 DEF CopySlot, WriterTypeOK, transmitVars
  <2> QED
    BY <1>4, <2>1, <2>3 DEF CopySlot, transmitVars
<1> QED BY <1>1, <1>2, <1>3, <1>4

\* What is put fits, for the writer is not past its end.
LEMMA PutFits ==
  ASSUME WriterTypeOK, pos <= Room, NEW n \in Nat, Put(n)
  PROVE  pos' \in Nat /\ pos' = pos + n /\ pos' <= Room /\ pos' < Word
BY WriterAssumption DEF WriterTypeOK, Put, Need

\* The numbers in the state, and in what was written.
LEMMA Numbers ==
  ASSUME WriterTypeOK, TransmitInv
  PROVE  /\ slots \in Nat /\ filled \in Nat /\ v4 \in Nat
         /\ item \in Nat /\ pos \in Nat /\ copied \in Nat
         /\ wire \in Seq(WireTlv)
         /\ Len(wire) \in Nat
         /\ \A i \in 1..Len(wire) :
              wire[i] \in WireTlv /\ wire[i].start \in Nat /\ wire[i].stated \in Nat
<1>1. /\ slots \in Nat /\ filled \in Nat /\ v4 \in Nat
      /\ item \in Nat /\ pos \in Nat /\ copied \in Nat
      /\ wire \in Seq(WireTlv)
  BY DevicesAssumption DEF WriterTypeOK, TransmitInv, TransmitTypeOK
<1>2. Len(wire) \in Nat /\ \A i \in 1..Len(wire) : wire[i] \in WireTlv
  BY <1>1
<1>3. \A t \in WireTlv : t.start \in Nat /\ t.stated \in Nat
  BY WriterAssumption DEF WireTlv
<1> QED BY <1>1, <1>2, <1>3

\* The header, the TLVs and the addresses keep the invariant.
LEMMA WriteKeepsInv ==
  ASSUME WriterInv, TransmitInv,
         StartWriting \/ WriteTlv \/ WriteItem \/ EndItems
  PROVE  WriterInv'
<1>1. /\ WriterTypeOK
      /\ slots \in Nat /\ filled \in Nat /\ v4 \in Nat
      /\ item \in Nat /\ pos \in Nat /\ copied \in Nat
      /\ wire \in Seq(WireTlv) /\ Len(wire) \in Nat
      /\ \A i \in 1..Len(wire) :
           wire[i] \in WireTlv /\ wire[i].start \in Nat /\ wire[i].stated \in Nat
  BY Numbers DEF WriterInv
<1> USE DEF WriterInv, CallInBuild, Progress
<1>2. CASE StartWriting
  <2>1. pos' \in Nat /\ pos' <= Room
    BY <1>1, <1>2, PutFits DEF StartWriting
  <2>2. WriterTypeOK'
    BY <1>1, <1>2, <2>1 DEF StartWriting, WriterTypeOK
  <2>3. WireInv'
    BY <1>1, <1>2 DEF StartWriting, WireInv, transmitVars
  <2> QED
    BY <1>1, <1>2, <2>1, <2>2, <2>3 DEF StartWriting, transmitVars
<1>3. CASE WriteTlv
  <2> DEFINE n == Len(wire) + 1
             new == [tlv |-> Tlv, start |-> pos, stated |-> Stated(Tlv)]
  <2>1. wire' = Append(wire, new) /\ n \in 1..7 /\ Tlv = Order[n]
    <3>1. Len(wire) < 7
      BY <1>3 DEF WriteTlv, Order
    <3> QED BY <1>1, <1>3, <3>1 DEF WriteTlv, Tlv
  <2>2. /\ TlvSize(Tlv) \in Nat
        /\ Tlv = "Addresses" <=> n = 6
        /\ Tlv = "Addresses" => TlvSize(Tlv) = 8
    <3>1. \A s \in Strings : text[s] \in Nat
      BY <1>1, WriterAssumption DEF WriterTypeOK
    <3> QED BY <2>1, <3>1 DEF TlvSize, Strings, Order
  <2>3. pos' \in Nat /\ pos' = pos + TlvSize(Tlv) /\ pos' <= Room /\ pos' < Word
    BY <1>1, <1>3, <2>2, PutFits DEF WriteTlv
  <2>4. /\ Stated(Tlv) \in 0..(Word - 1)
        /\ n # 6 => Stated(Tlv) = TlvSize(Tlv)
        /\ n = 6 => Stated(Tlv) = (8 + AddressBytes(slots)) % Word
    <3>1. CASE n = 6
      <4>1. Stated(Tlv) = (8 + AddressBytes(slots)) % Word
        BY <2>2, <3>1 DEF Stated
      <4>2. AddressBytes(slots) \in Nat
        BY <1>1, AddressBytesGrow DEF WriterTypeOK
      <4> QED BY <3>1, <4>1, <4>2, WriterAssumption
    <3>2. CASE n # 6
      <4>1. TlvSize(Tlv) \in 0..(Word - 1)
        BY <1>1, <2>2, <2>3, WriterAssumption DEF WriterTypeOK
      <4>2. Stated(Tlv) = TlvSize(Tlv) % Word
        BY <2>2, <3>2 DEF Stated
      <4> QED BY <3>2, <4>1, <4>2, WordKeeps
    <3> QED BY <3>1, <3>2
  <2>5. /\ Len(wire') = n
        /\ wire'[n] = new
        /\ \A i \in 1..(n - 1) : wire'[i] = wire[i]
        /\ wire' # <<>>
    BY <1>1, <2>1
  <2>6. WriterTypeOK'
    <3>1. new \in WireTlv
      BY <1>1, <2>1, <2>4 DEF WireTlv, Order
    <3> QED
      BY <1>1, <1>3, <2>1, <2>3, <3>1 DEF WriteTlv, WriterTypeOK
  <2>7. step' = IF n = 6 THEN "items" ELSE "write"
    BY <1>3, <2>2 DEF WriteTlv
  <2>8. n >= 6 => slots > 0 /\ filled = slots
    BY <1>1, <1>3, <2>2 DEF WriteTlv, Writable, WriterTypeOK
  <2>9. n <= 6 => item = 0
    BY <1>1, <1>3 DEF WriteTlv, WriterTypeOK
  <2>10. WireInv'
    <3>1. \A i \in 1..n : wire'[i].tlv = Order[i]
      <4>1. \A i \in 1..(n - 1) : wire[i].tlv = Order[i]
        BY <1>1 DEF WireInv
      <4> QED BY <2>1, <2>5, <4>1
    <3>2. \A i \in 1..(n - 1) :
            wire'[i + 1].start = wire'[i].start + wire'[i].stated
      <4> TAKE i \in 1..(n - 1)
      <4>1. CASE i = n - 1
        <5>1. pos = wire[i].start + wire[i].stated
          BY <1>1, <1>3, <4>1 DEF WireInv, WriteTlv
        <5> QED BY <1>1, <2>1, <2>5, <4>1, <5>1
      <4>2. CASE i # n - 1
        <5>1. i \in 1..(Len(wire) - 1) /\ i \in 1..(n - 1) /\ i + 1 \in 1..(n - 1)
          BY <1>1, <2>1, <4>2
        <5>2. wire[i + 1].start = wire[i].start + wire[i].stated
          BY <5>1 DEF WireInv
        <5> QED BY <2>5, <5>1, <5>2
      <4> QED BY <4>1, <4>2
    <3>3. step' = "write" => pos' = wire'[n].start + wire'[n].stated
      BY <2>1, <2>3, <2>4, <2>5, <2>7
    <3>4. step' = "items" =>
            /\ pos' = wire'[6].start + 8 + AddressBytes(item)
            /\ wire'[6].stated = (8 + AddressBytes(slots)) % Word
      <4>1. AddressBytes(0) = 0
        BY <1>1, AddressBytesGrow
      <4>2. SUFFICES ASSUME n = 6
                     PROVE /\ pos' = wire'[6].start + 8 + AddressBytes(item)
                           /\ wire'[6].stated = (8 + AddressBytes(slots)) % Word
        BY <2>7
      <4>3. wire'[6].start = pos /\ wire'[6].stated = (8 + AddressBytes(slots)) % Word
        BY <2>4, <2>5, <4>2
      <4>4. item = 0 /\ TlvSize(Tlv) = 8
        BY <2>2, <2>9, <4>2
      <4> QED BY <1>1, <2>3, <4>1, <4>3, <4>4
    <3>5. at' # "send" /\ UNCHANGED <<item, slots, v4>>
      BY <1>3 DEF WriteTlv, transmitVars
    <3> QED
      <4>1. (AddressBytes(item) = AddressBytes(item)') /\ (AddressBytes(slots) = AddressBytes(slots)')
        BY <3>5 DEF AddressBytes
      <4>2. step' \in {"write", "items"}
        BY <2>7
      <4>3. /\ Len(wire') <= 7 /\ wire' # <<>>
            /\ \A i \in 1..Len(wire') : wire'[i].tlv = Order[i]
            /\ \A i \in 1..(Len(wire') - 1) :
                 wire'[i + 1].start = wire'[i].start + wire'[i].stated
        BY <2>1, <2>5, <3>1, <3>2
      <4>4. (step' = "write" \/ at' = "send") =>
              pos' = wire'[Len(wire')].start + wire'[Len(wire')].stated
        BY <2>5, <3>3, <3>5
      <4>5. step' = "items" =>
              /\ pos' = wire'[6].start + 8 + AddressBytes(item)'
              /\ wire'[6].stated = (8 + AddressBytes(slots)') % Word
        BY <3>4, <4>1
      <4> QED BY <4>3, <4>4, <4>5 DEF WireInv
  <2> QED
    <3>1. CallInBuild'
      BY <1>3, <2>7 DEF WriteTlv, transmitVars
    <3>2. Progress'
      BY <1>1, <1>3, <2>1, <2>5, <2>7, <2>8, <2>9 DEF WriteTlv, transmitVars
    <3> QED BY <2>3, <2>6, <2>10, <3>1, <3>2
<1>4. CASE WriteItem
  <2>1. ItemSize \in Nat /\ AddressBytes(item + 1) = AddressBytes(item) + ItemSize
    <3>1. AddressBytes(item) \in Nat /\ AddressBytes(item + 1) - AddressBytes(item) \in {9, 28}
      BY <1>1, AddressBytesGrow
    <3>2. AddressBytes(item + 1) \in Nat
      <4>1. v4 \in Nat /\ item + 1 \in Nat
        BY <1>1
      <4> QED BY <4>1, AddressBytesGrow
    <3>3. \A a, b \in Nat : b - a \in {9, 28} => b - a \in Nat /\ b = a + (b - a)
      OBVIOUS
    <3> QED BY <3>1, <3>2, <3>3 DEF ItemSize
  <2>2. pos' \in Nat /\ pos' = pos + ItemSize /\ pos' <= Room
    BY <1>1, <1>4, <2>1, PutFits DEF WriteItem
  <2>3. /\ item' = item + 1 /\ item' <= slots /\ item' \in Nat
        /\ UNCHANGED <<transmitVars, step, text, v4, set, copied, copies, live,
                       wire>>
    BY <1>1, <1>4 DEF WriteItem, WriterTypeOK
  <2>4. WriterTypeOK'
    BY <1>1, <2>2, <2>3 DEF WriterTypeOK
  <2>5. WireInv'
    <3>1. pos' = wire[6].start + 8 + AddressBytes(item + 1)
      <4>1. wire[6].start \in Nat
        <5>1. Len(wire) = 6
          BY <1>4 DEF WriteItem
        <5>2. 6 \in 1..Len(wire)
          BY <5>1
        <5> QED BY <1>1, <5>2
      <4>2. pos = wire[6].start + 8 + AddressBytes(item)
        BY <1>4 DEF WriteItem, WireInv
      <4>3. AddressBytes(item) \in Nat
        BY <1>1, AddressBytesGrow
      <4> QED BY <2>1, <2>2, <4>1, <4>2, <4>3
    <3>2. AddressBytes(item)' = AddressBytes(item + 1)
      BY <2>3 DEF AddressBytes
    <3>3. step' = "items" /\ at' = "build"
      BY <1>4, <2>3 DEF WriteItem, transmitVars
    <3> QED
      BY <2>3, <3>1, <3>2, <3>3 DEF WireInv, transmitVars, AddressBytes
  <2> QED
    BY <1>1, <1>4, <2>2, <2>3, <2>4, <2>5 DEF WriteItem, transmitVars
<1>5. CASE EndItems
  <2>1. WriterTypeOK'
    BY <1>1, <1>5 DEF EndItems, WriterTypeOK
  <2>2. pos = wire[6].start + wire[6].stated /\ Len(wire) = 6
    <3>1. wire[6].start \in Nat
      <4>1. Len(wire) = 6
        BY <1>5 DEF EndItems
      <4>2. 6 \in 1..Len(wire)
        BY <4>1
      <4> QED BY <1>1, <4>2
    <3>2. /\ AddressBytes(slots) \in Nat
          /\ pos = wire[6].start + (8 + AddressBytes(slots))
      <4>1. AddressBytes(slots) \in Nat
        BY <1>1, AddressBytesGrow
      <4>2. pos = wire[6].start + 8 + AddressBytes(slots)
        BY <1>5 DEF EndItems, WireInv
      <4> QED BY <3>1, <4>1, <4>2
    <3>3. 8 + AddressBytes(slots) \in 0..(Word - 1)
      BY <1>1, <3>1, <3>2, WriterAssumption
    <3>4. (8 + AddressBytes(slots)) % Word = 8 + AddressBytes(slots)
      BY <3>3, WordKeeps
    <3>5. wire[6].stated = (8 + AddressBytes(slots)) % Word
      BY <1>5 DEF EndItems, WireInv
    <3> QED BY <1>5, <3>2, <3>4, <3>5 DEF EndItems
  <2>3. WireInv'
    BY <1>1, <1>5, <2>2 DEF EndItems, WireInv, WriterTypeOK, transmitVars
  <2> QED
    BY <1>1, <1>5, <2>1, <2>2, <2>3 DEF EndItems, transmitVars
<1> QED BY <1>2, <1>3, <1>4, <1>5

\* A packet that is complete is handed over.
LEMMA EndKeepsInv ==
  ASSUME WriterInv, EndWriting
  PROVE  WriterInv' /\ Build
<1>1. /\ Len(wire) = 7
      /\ at = "build" /\ at' = "send" /\ step = "write" /\ step' = "none"
      /\ UNCHANGED <<wire, pos, item, copied, v4, text, set>>
  BY DEF WriterInv, CallInBuild, EndWriting, AllWritten, Order, Proceed
<1>2. filled = slots /\ item = copied /\ item > 0
  BY <1>1 DEF WriterInv, Progress
<1>3. Build
  BY <1>1, <1>2 DEF EndWriting, Build
<1>4. live' = {} /\ copies' = 0
  BY <1>1 DEF EndWriting, DeletePacketAnd, WriterInv, WriterTypeOK, CallInBuild
<1>5. WriterTypeOK'
  BY <1>1, <1>4 DEF WriterInv, WriterTypeOK
<1>6. CallInBuild' /\ Progress'
  BY <1>1, <1>2, <1>4 DEF CallInBuild, Progress
<1>7. WireInv'
  BY <1>1 DEF WriterInv, WireInv
<1> QED BY <1>1, <1>3, <1>5, <1>6, <1>7 DEF WriterInv

\* A step of the call that is not its last is none of Transmit's.
LEMMA StepsRefine ==
  ASSUME WriterInv, TransmitInv, WriterNext
  PROVE  WriterInv' /\ [TransmitNext]_transmitVars
<1>1. CASE AroundPacket /\ UNCHANGED writerVars
  <2>1. TransmitNext
    BY <1>1 DEF AroundPacket, TransmitNext, TransmitPacket
  <2> QED BY <1>1, <2>1, AroundKeepsInv
<1>2. CASE NewPacket \/ SetField \/ ProvisionArray \/ CopySlot
  BY <1>2, FillKeepsInv DEF NewPacket, SetField, ProvisionArray, CopySlot
<1>3. CASE StartWriting \/ WriteTlv \/ WriteItem \/ EndItems
  BY <1>3, WriteKeepsInv DEF StartWriting, WriteTlv, WriteItem, EndItems
<1>4. CASE NewPacketFails
  <2>1. BuildFails /\ UNCHANGED writerVars /\ step = "none" /\ at' # "send"
    BY <1>4 DEF NewPacketFails, BuildFails, GiveUp, GiveUpFor
  <2> QED
    BY <2>1 DEF TransmitNext, TransmitPacket, writerVars, WriterInv,
                WriterTypeOK, CallInBuild, Progress, WireInv, AddressBytes
<1>5. CASE SetFieldFails \/ ProvisionArrayFails \/ CopySlotFails
           \/ StartWritingFails
  <2>1. Abandon({}) /\ step \notin {"write", "items"}
    BY <1>5 DEF SetFieldFails, ProvisionArrayFails, CopySlotFails,
                StartWritingFails
  <2>2. WriterInv'
    BY <2>1, AbandonKeepsInv
  <2> QED BY <2>1, <2>2 DEF Abandon, TransmitNext, TransmitPacket
<1>6. CASE WriteTlvFails \/ WriteItemFails
  <2>1. Abandon({"writer"})
    BY <1>6 DEF WriteTlvFails, WriteItemFails
  <2>2. WriterInv'
    BY <2>1, AbandonKeepsInv
  <2> QED BY <2>1, <2>2 DEF Abandon, TransmitNext, TransmitPacket
<1>7. CASE EndWriting
  BY <1>7, EndKeepsInv DEF TransmitNext, TransmitPacket
<1> QED
  BY <1>1, <1>2, <1>3, <1>4, <1>5, <1>6, <1>7 DEF WriterNext, CreatePacket

\* A step of the writer, or none, keeps both invariants and is a step of
\* Transmit, or none.
LEMMA WriterStep ==
  ASSUME WriterInv, TransmitInv, [WriterNext]_buildVars
  PROVE  WriterInv' /\ TransmitInv' /\ [TransmitNext]_transmitVars
<1>1. CASE WriterNext
  <2>1. WriterInv' /\ [TransmitNext]_transmitVars
    BY <1>1, StepsRefine
  <2>2. CASE TransmitNext
    BY <2>1, <2>2, WalkKeepsInv, PacketKeepsInv DEF TransmitNext
  <2>3. CASE UNCHANGED transmitVars
    BY <2>1, <2>3
    DEF TransmitInv, TransmitTypeOK, OnePacket, SeenSoFar, Served, ArrayInUse,
        LockCounted, transmitVars
  <2> QED BY <2>1, <2>2, <2>3
<1>2. CASE UNCHANGED buildVars
  BY <1>2
  DEF buildVars, writerVars, transmitVars, WriterInv, WriterTypeOK,
      CallInBuild, Progress, WireInv, AddressBytes, TransmitInv,
      TransmitTypeOK, OnePacket, SeenSoFar, Served, ArrayInUse, LockCounted
<1> QED BY <1>1, <1>2

\* The header and the first TLV keep their places, and each TLV states what was
\* written of it.
LEMMA HeadersStep ==
  ASSUME WriterInv, WriterInv', TransmitInv, HeadersInv, [WriterNext]_buildVars
  PROVE  HeadersInv'
<1>1. /\ WriterTypeOK /\ pos \in Nat /\ wire \in Seq(WireTlv) /\ Len(wire) \in Nat
      /\ item \in Nat /\ v4 \in Nat
      /\ \A i \in 1..Len(wire) : wire[i].start \in Nat /\ wire[i].stated \in Nat
  BY Numbers DEF WriterInv
<1>2. CASE AroundPacket /\ UNCHANGED writerVars
  <2>1. at # "build" /\ at' # "send"
    BY <1>2
    DEF AroundPacket, StartRound, NoCarrier, OtherDevice, EndRound, AllocBuffer,
        NoAddresses, CountAddresses, CopyAddress, CopyFails, EndCopy, Send, GoOn,
        GiveUp, GiveUpFor, Proceed
  <2>2. step = "none" /\ UNCHANGED <<step, wire, pos>>
    BY <1>2, <2>1 DEF WriterInv, CallInBuild, writerVars
  <2> QED
    BY <2>1, <2>2 DEF HeadersInv
<1>3. ASSUME NEW others, Abandon(others)
      PROVE  HeadersInv'
  <2>1. at' # "send" /\ step' = "none" /\ UNCHANGED <<wire, pos>>
    BY <1>3 DEF Abandon, BuildFails, GiveUp, GiveUpFor
  <2> QED
    BY <2>1 DEF HeadersInv
<1>4. CASE NewPacketFails
  <2>1. at' # "send" /\ step = "none" /\ UNCHANGED <<step, wire, pos>>
    BY <1>4 DEF NewPacketFails, BuildFails, GiveUp, GiveUpFor, writerVars
  <2> QED
    BY <2>1 DEF HeadersInv
<1>5. CASE NewPacket
  <2>1. pos' = 0 /\ wire' = <<>> /\ step' = "fields" /\ at' # "send"
    BY <1>5 DEF NewPacket, transmitVars
  <2> QED
    BY <2>1 DEF HeadersInv
<1>6. CASE SetField \/ ProvisionArray \/ CopySlot
  <2>1. /\ step \in {"fields", "array"} /\ step' \in {"fields", "array"}
        /\ UNCHANGED <<at, wire, pos>>
    BY <1>6 DEF SetField, ProvisionArray, CopySlot, transmitVars
  <2>2. at # "send"
    BY <2>1 DEF WriterInv, CallInBuild
  <2> QED
    BY <2>1, <2>2 DEF HeadersInv
<1>7. CASE StartWriting
  <2>1. pos = 0 /\ pos' = pos + 4 /\ step' = "write" /\ wire = <<>> /\ wire' = wire
    BY <1>7 DEF StartWriting, Put, HeadersInv, WriterInv, Progress
  <2> QED
    BY <2>1 DEF HeadersInv
<1>8. CASE WriteTlv
  <2> DEFINE n == Len(wire) + 1
             new == [tlv |-> Tlv, start |-> pos, stated |-> Stated(Tlv)]
  <2>1. /\ wire' = Append(wire, new) /\ step = "write" /\ n \in 1..7 /\ Tlv = Order[n]
        /\ at' # "send" /\ pos' = pos + TlvSize(Tlv)
        /\ step' = IF Tlv = "Addresses" THEN "items" ELSE "write"
    BY <1>1, <1>8 DEF WriteTlv, Put, Order, Tlv, WriterInv, CallInBuild, transmitVars
  <2>2. TlvSize(Tlv) \in Nat /\ TlvSize(Tlv) >= 4 /\ (Tlv = "Addresses" <=> n = 6)
    <3>1. \A s \in Strings : text[s] \in Nat
      BY <1>1, WriterAssumption DEF WriterTypeOK
    <3> QED
      BY <2>1, <3>1 DEF TlvSize, Strings, Order
  <2>3. /\ Len(wire') = n /\ wire' # <<>> /\ wire'[n].start = pos
        /\ \A i \in 1..(n - 1) : wire'[i] = wire[i]
    BY <1>1, <2>1
  <2> HIDE DEF n, new
  <2>4. n = Len(wire) + 1
    BY DEF n
  <2>5. wire'[1].start = 4
    <3>1. CASE n = 1
      <4>1. wire = <<>>
        BY <1>1, <2>4, <3>1, EmptySeq
      <4>2. pos = 4
        BY <2>1, <4>1 DEF HeadersInv
      <4> QED
        BY <2>3, <3>1, <4>2
    <3>2. CASE n # 1
      <4>1. 1 \in 1..(n - 1) /\ wire # <<>>
        BY <1>1, <2>1, <2>4, <3>2
      <4> QED
        BY <2>3, <4>1 DEF HeadersInv
    <3> QED
      BY <3>1, <3>2
  <2>6. n # 6 => wire'[n].stated >= 4
    <3> SUFFICES ASSUME n # 6 PROVE wire'[n].stated >= 4
      OBVIOUS
    <3>1. step' = "write" /\ pos' = wire'[n].start + wire'[n].stated
      BY <2>1, <2>2, <2>3 DEF WriterInv, WireInv
    <3>2. wire'[n].stated \in Nat
      <4>1. wire' \in Seq(WireTlv) /\ n \in 1..Len(wire')
        BY <2>1, <2>3 DEF WriterInv, WriterTypeOK
      <4>2. wire'[n] \in WireTlv
        BY <4>1
      <4> QED
        BY <4>2, WriterAssumption DEF WireTlv
    <3> QED
      BY <1>1, <2>1, <2>2, <2>3, <3>1, <3>2
  <2>7. \A i \in 1..n : i # 6 => wire'[i].stated >= 4
    <3> TAKE i \in 1..n
    <3>1. i = n \/ (i \in 1..(n - 1) /\ i \in 1..Len(wire))
      BY <1>1, <2>1, <2>4
    <3> QED
      BY <2>3, <2>6, <3>1 DEF HeadersInv
  <2>8. step' = "write" /\ n >= 6 => wire'[6].stated >= 4
    <3> SUFFICES ASSUME step' = "write", n >= 6 PROVE wire'[6].stated >= 4
      OBVIOUS
    <3>1. n = 7 /\ 6 \in 1..(n - 1) /\ Len(wire) >= 6
      BY <1>1, <2>1, <2>2, <2>4
    <3> QED
      BY <2>1, <2>3, <3>1 DEF HeadersInv
  <2> QED
    BY <2>1, <2>3, <2>5, <2>7, <2>8 DEF HeadersInv
<1>9. CASE WriteItem
  <2>1. step' = "items" /\ at' # "send" /\ wire' = wire
    BY <1>9 DEF WriteItem, WriterInv, CallInBuild, transmitVars
  <2> QED
    BY <2>1 DEF HeadersInv
<1>10. CASE EndItems
  <2>1. /\ step = "items" /\ step' = "write" /\ Len(wire) = 6 /\ 6 \in 1..Len(wire)
        /\ wire # <<>> /\ UNCHANGED <<wire, pos, at, item, v4>>
    <3>1. Len(wire) = 6
      BY <1>10 DEF EndItems, WriterInv, Progress
    <3>2. wire # <<>>
      BY <3>1
    <3> QED
      BY <1>10, <3>1, <3>2 DEF EndItems, transmitVars
  <2>2. pos = wire[6].start + 8 + AddressBytes(item)
    BY <2>1 DEF WriterInv, WireInv
  <2>3. pos = wire[6].start + wire[6].stated
    BY <2>1 DEF WriterInv, WireInv
  <2>4. AddressBytes(item) \in Nat /\ wire[6].start \in Nat /\ wire[6].stated \in Nat
    BY <1>1, <2>1, AddressBytesGrow
  <2>5. wire[6].stated >= 4
    BY <2>2, <2>3, <2>4
  <2> QED
    BY <2>1, <2>5 DEF HeadersInv
<1>11. CASE EndWriting
  <2>1. step = "write" /\ step' = "none" /\ Len(wire) = 7 /\ wire' = wire
    BY <1>11 DEF EndWriting, AllWritten, Order
  <2> QED
    BY <2>1 DEF HeadersInv
<1>12. CASE UNCHANGED buildVars
  BY <1>12 DEF buildVars, transmitVars, writerVars, HeadersInv
<1>13. CASE \/ SetFieldFails \/ ProvisionArrayFails \/ CopySlotFails
            \/ StartWritingFails \/ WriteTlvFails \/ WriteItemFails
  BY <1>3, <1>13 DEF SetFieldFails, ProvisionArrayFails, CopySlotFails,
     StartWritingFails, WriteTlvFails, WriteItemFails
<1> QED
  BY <1>2, <1>4, <1>5, <1>6, <1>7, <1>8, <1>9, <1>10, <1>11, <1>12, <1>13
  DEF WriterNext, CreatePacket

\* What the invariants give.
LEMMA WriterCorrect ==
  WriterSpec => [](NeverPastRoom /\ LengthsTrue /\ NothingKept /\ SentWhole)
<1>1. WriterInit => WriterInv /\ TransmitInv /\ HeadersInv
  <2>1. WriterInit => HeadersInv
    BY DEF WriterInit, TransmitInit, HeadersInv
  <2> QED
    BY <2>1, WriterInitInv, TransmitInitInv DEF WriterInit
<1>2. WriterInv /\ TransmitInv /\ HeadersInv /\ [WriterNext]_buildVars
        => (WriterInv /\ TransmitInv /\ HeadersInv)'
  BY WriterStep, HeadersStep
<1> QED BY <1>1, <1>2, WriterInvImplies, PTL DEF WriterSpec

\* For strings and addresses of any number and length, nothing is written past
\* the length the builder was told (the checks of the stream writer).
THEOREM InsideRoom == WriterSpec => []NeverPastRoom
BY WriterCorrect, PTL

\* Every TLV states its true length, for any buffer that is shorter than a
\* length of 16 bits can say: a reader that goes on by the stated lengths, as
\* cdp_parse_packet does, finds every TLV of cdp_packet_write_tlvs and the end.
THEOREM LengthsStated == WriterSpec => []LengthsTrue
BY WriterCorrect, PTL

\* Nothing the builder made is left when it returns, on any path.
THEOREM BuilderKeepsNothing == WriterSpec => []NothingKept
BY WriterCorrect, PTL

\* What cdp_transmit_packets sends is a packet with all of its TLVs in their
\* order.
THEOREM OnlyWholeSent == WriterSpec => []SentWhole
BY WriterCorrect, PTL

\* The packet builder, step by step, does what Transmit says it does at once:
\* it succeeds only for an array without an empty slot, and every failure
\* makes the round give up.
THEOREM WriterImplementsTransmit == WriterSpec => TransmitSpec
<1>1. WriterInit => WriterInv /\ TransmitInv /\ TransmitInit
  BY WriterInitInv, TransmitInitInv DEF WriterInit
<1>2. WriterInv /\ TransmitInv /\ [WriterNext]_buildVars
        => (WriterInv /\ TransmitInv)' /\ [TransmitNext]_transmitVars
  BY WriterStep
<1> QED BY <1>1, <1>2, PTL DEF WriterSpec, TransmitSpec

\* So the buffers are spent once and success means every device was served with
\* the builder taken step by step too (cdp_transmit_packets).
THEOREM BuilderServes == WriterSpec => [](BuffersSpent /\ ServedOnSuccess)
BY WriterImplementsTransmit, TransmitCorrect, PTL
=============================================================================
