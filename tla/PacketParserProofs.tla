------------------------- MODULE PacketParserProofs ------------------------
(***************************************************************************)
(* Theorems about PacketParser, for frames of any length, any stated       *)
(* lengths and any number of addresses.                                    *)
(***************************************************************************)
EXTENDS PacketParser, SequenceTheorems, FiniteSetTheorems, TLAPS

\* The packet exists while a frame is parsed, and has nothing before and after.
PacketThere ==
  /\ at \in {"loop", "value", "items", "advance", "done"} => have
  /\ at = "start" => ~have
  /\ ~have => fields = {} /\ \A t \in ArrayTlvs : arrays[t] = NoArray

\* An array is there to be filled, and only that one is not whole.
Filling ==
  /\ at = "items" => tlv.type \in ArrayTlvs /\ arrays[tlv.type].made
  /\ \A t \in ArrayTlvs : arrays[t].filled <= arrays[t].count
  /\ at \in {"loop", "value", "advance", "done"} =>
       \A t \in ArrayTlvs : arrays[t].filled = arrays[t].count
  /\ at = "items" =>
       \A t \in ArrayTlvs \ {tlv.type} : arrays[t].filled = arrays[t].count

ParserInv ==
  /\ ParserTypeOK
  /\ NeverPastEnd
  /\ IsFiniteSet(fields)
  /\ BlocksAccounted
  /\ PacketThere
  /\ Filling
  /\ LostOnlyBy

-----------------------------------------------------------------------------
(* Counting blocks.                                                        *)

\* Setting a field adds a block unless there was one.
LEMMA AddField ==
  ASSUME IsFiniteSet(fields), NEW t
  PROVE  /\ IsFiniteSet(fields \union {t})
         /\ Cardinality(fields \union {t}) = Cardinality(fields) + 1 - OldField(t)
         /\ Cardinality(fields) \in Nat
         /\ OldField(t) \in Int
BY FS_CardinalityType, FS_AddElement DEF OldField

\* Resetting a field takes its block away.
LEMMA DropField ==
  ASSUME IsFiniteSet(fields), NEW t
  PROVE  /\ IsFiniteSet(fields \ {t})
         /\ Cardinality(fields \ {t}) = Cardinality(fields) - OldField(t)
BY FS_CardinalityType, FS_RemoveElement DEF OldField

\* An array that is not there, and one that was just made, are arrays.
LEMMA NoArrayType ==
  /\ NoArray \in AnArray
  /\ \A n \in Nat : ArrayOf(n) \in AnArray
BY DEF NoArray, ArrayOf, AnArray

\* The blocks of an array are a number.
LEMMA ArrayBlocksType ==
  ASSUME NEW t, NEW a \in AnArray
  PROVE  ArrayBlocks(t, a) \in Nat
BY DEF ArrayBlocks, AnArray

\* Changing one array changes the blocks by the difference.
LEMMA ArraysUpdate ==
  ASSUME arrays \in [ArrayTlvs -> AnArray],
         NEW t \in ArrayTlvs, NEW a \in AnArray
  PROVE  /\ ArraysBlocks(arrays) \in Nat
         /\ ArraysBlocks([arrays EXCEPT ![t] = a]) =
              ArraysBlocks(arrays) - ArrayBlocks(t, arrays[t]) + ArrayBlocks(t, a)
<1> DEFINE B(u) == ArrayBlocks(u, arrays[u])
<1>1. \A u \in ArrayTlvs : B(u) \in Nat
  BY ArrayBlocksType
<1>2. ArrayBlocks(t, a) \in Nat
  BY ArrayBlocksType
<1>3. /\ "Addresses" \in ArrayTlvs /\ "ManagementAddresses" \in ArrayTlvs
      /\ "ODRPrefixes" \in ArrayTlvs
      /\ t = "Addresses" \/ t = "ManagementAddresses" \/ t = "ODRPrefixes"
  BY DEF ArrayTlvs, AddressTlvs
<1>4. ArraysBlocks(arrays) =
        B("Addresses") + B("ManagementAddresses") + B("ODRPrefixes")
  BY DEF ArraysBlocks
<1> HIDE DEF B
<1>5. ArraysBlocks(arrays) \in Nat
  BY <1>1, <1>3, <1>4
<1>6. \A u \in ArrayTlvs :
        ArrayBlocks(u, [arrays EXCEPT ![t] = a][u]) =
          IF u = t THEN ArrayBlocks(t, a) ELSE B(u)
  BY DEF B
<1>7. ArraysBlocks([arrays EXCEPT ![t] = a]) =
          (IF "Addresses" = t THEN ArrayBlocks(t, a) ELSE B("Addresses"))
        + (IF "ManagementAddresses" = t THEN ArrayBlocks(t, a)
           ELSE B("ManagementAddresses"))
        + (IF "ODRPrefixes" = t THEN ArrayBlocks(t, a) ELSE B("ODRPrefixes"))
  BY <1>3, <1>6 DEF ArraysBlocks
<1>8. ArraysBlocks([arrays EXCEPT ![t] = a]) =
        ArraysBlocks(arrays) - B(t) + ArrayBlocks(t, a)
  BY <1>1, <1>2, <1>3, <1>4, <1>7
<1> QED BY <1>5, <1>8 DEF B

\* While a packet is there, the parser has as many blocks as the packet.
LEMMA PacketBlocksType ==
  ASSUME ParserInv
  PROVE  /\ Cardinality(fields) \in Nat
         /\ ArraysBlocks(arrays) \in Nat
         /\ have => live = 1 + Cardinality(fields) + ArraysBlocks(arrays)
<1>1. Cardinality(fields) \in Nat
  BY FS_CardinalityType DEF ParserInv
<1>2. arrays \in [ArrayTlvs -> AnArray] /\ NoArray \in AnArray
  BY NoArrayType DEF ParserInv, ParserTypeOK
<1>3. "Addresses" \in ArrayTlvs
  BY DEF ArrayTlvs, AddressTlvs
<1>4. ArraysBlocks(arrays) \in Nat
  BY <1>2, <1>3, ArraysUpdate
<1> QED BY <1>1, <1>4 DEF ParserInv, BlocksAccounted, PacketBlocks

-----------------------------------------------------------------------------
(* Failing.                                                                *)

\* A packet that is deleted leaves nothing, and nothing has its type.
LEMMA NothingTyped ==
  ASSUME ParserTypeOK,
         at' \in {"failed", "end"}, live' = 0, have' = FALSE, fields' = {},
         arrays' = [t \in ArrayTlvs |-> NoArray],
         length' = length, pos' = pos, tlv' = tlv
  PROVE  ParserTypeOK'
<1>1. (have \in BOOLEAN)'
  OBVIOUS
<1>2. (arrays \in [ArrayTlvs -> AnArray])'
  BY NoArrayType
<1> QED BY <1>1, <1>2 DEF ParserTypeOK

\* A parse that fails and deletes its packet has nothing left.
LEMMA FailAfterKeepsInv ==
  ASSUME ParserInv,
         NEW freed \in Int, NEW fs, NEW as,
         PacketBlocks(fs, as) \in Int,
         live = freed + PacketBlocks(fs, as),
         FailAfter(freed, fs, as),
         UNCHANGED <<length, pos, tlv>>
  PROVE  ParserInv'
<1> DEFINE n == PacketBlocks(fs, as)
<1>0. n \in Int /\ live' = (freed + n) - freed - n
  BY DEF FailAfter
<1> HIDE DEF n
<1>1. /\ at' = "failed" /\ have' = FALSE /\ fields' = {}
      /\ arrays' = [t \in ArrayTlvs |-> NoArray]
      /\ length' = length /\ pos' = pos /\ tlv' = tlv
  BY DEF FailAfter, NoPacket
<1>6. live' = 0
  <2>1. \A a, b \in Int : (a + b) - a - b = 0
    OBVIOUS
  <2> QED BY <1>0, <2>1, Zenon
<1>2. ParserTypeOK'
  BY <1>1, <1>6, NothingTyped DEF ParserInv
<1>3. IsFiniteSet(fields')
  BY <1>1, FS_EmptySet
<1>4. NeverPastEnd' /\ BlocksAccounted' /\ LostOnlyBy'
  BY <1>1, <1>6 DEF ParserInv, NeverPastEnd, BlocksAccounted, LostOnlyBy
<1>5. PacketThere' /\ Filling'
  BY <1>1 DEF PacketThere, Filling, NoArray
<1> QED BY <1>2, <1>3, <1>4, <1>5 DEF ParserInv

\* So does one that fails while nothing was freed before.
LEMMA FailKeepsInv ==
  ASSUME ParserInv, have, Fail, UNCHANGED <<length, pos, tlv>>
  PROVE  ParserInv'
<1>1. PacketBlocks(fields, arrays) \in Int
      /\ live = 0 + PacketBlocks(fields, arrays)
  BY PacketBlocksType DEF PacketBlocks
<1>2. FailAfter(0, fields, arrays)
  BY DEF Fail
<1> QED BY <1>1, <1>2, FailAfterKeepsInv

\* A packet that is lost keeps its blocks.
LEMMA LoseKeepsInv ==
  ASSUME ParserInv, have, FailAndLose, UNCHANGED <<length, pos, tlv>>,
         tlv.type \in ScalarTlvs \union {"ClusterManagementProtocol"}
  PROVE  ParserInv'
BY DEF FailAndLose, ParserInv, ParserTypeOK, NeverPastEnd, BlocksAccounted,
       PacketThere, Filling, LostOnlyBy

-----------------------------------------------------------------------------
(* The steps.                                                              *)

\* Before the parse there is nothing.
LEMMA ParserInitInv == ParserInit => ParserInv
<1> SUFFICES ASSUME ParserInit PROVE ParserInv
  OBVIOUS
<1>1. ParserTypeOK
  <2>1. tlv \in ATlv
    BY DEF ParserInit, ATlv, AllTlvs
  <2>2. have \in BOOLEAN
    BY DEF ParserInit
  <2>3. arrays \in [ArrayTlvs -> AnArray]
    BY NoArrayType DEF ParserInit
  <2> QED BY <2>1, <2>2, <2>3 DEF ParserInit, ParserTypeOK
<1>2. IsFiniteSet(fields)
  BY FS_EmptySet DEF ParserInit
<1>3. NeverPastEnd /\ BlocksAccounted /\ LostOnlyBy
  BY ParserAssumption
  DEF ParserInit, NeverPastEnd, BlocksAccounted, LostOnlyBy
<1>4. PacketThere /\ Filling
  BY DEF ParserInit, PacketThere, Filling, NoArray
<1> QED BY <1>1, <1>2, <1>3, <1>4 DEF ParserInv

\* The steps of the loop between two values.
LEMMA LoopKeepsInv ==
  ASSUME ParserInv,
         ReadHeader \/ ReadTlv \/ ReadTlvFails \/ Advance \/ Finish \/ DeletePacket
  PROVE  ParserInv'
<1>1. length \in Nat /\ pos \in Nat /\ pos <= length
  BY ParserAssumption DEF ParserInv, ParserTypeOK, NeverPastEnd
<1>2. CASE ReadHeader
  <2>1. /\ fields = {} /\ \A t \in ArrayTlvs : arrays[t] = NoArray
        /\ ~have /\ live = 0
    BY <1>2 DEF ReadHeader, ParserInv, PacketThere, BlocksAccounted
  <2>2. /\ Cardinality(fields) = 0
        /\ ArraysBlocks(arrays) = 0
    BY <2>1, FS_EmptySet
    DEF ArraysBlocks, ArrayBlocks, NoArray, ArrayTlvs, AddressTlvs
  <2>3. BlocksAccounted'
    BY <1>2, <2>1, <2>2 DEF ReadHeader, BlocksAccounted, PacketBlocks
  <2>4. ParserTypeOK'
    <3>1. have' \in BOOLEAN
      BY <1>2 DEF ReadHeader, ParserInv, ParserTypeOK
    <3> QED BY <1>2, <3>1 DEF ReadHeader, ParserInv, ParserTypeOK
  <2>6. NeverPastEnd' /\ LostOnlyBy' /\ IsFiniteSet(fields')
    BY <1>1, <1>2, <2>1, FS_EmptySet
    DEF ReadHeader, Need, Remaining, NeverPastEnd, LostOnlyBy
  <2>5. PacketThere' /\ Filling'
    BY <1>2, <2>1 DEF ReadHeader, PacketThere, Filling, NoArray
  <2> QED BY <2>3, <2>4, <2>5, <2>6 DEF ParserInv
<1>3. CASE ReadTlv
  <2>1. tlv' \in ATlv
    BY <1>1, <1>3, ParserAssumption DEF ReadTlv, ATlv
  <2>4. ParserTypeOK' /\ NeverPastEnd'
    BY <1>1, <1>3, <2>1
    DEF ReadTlv, Need, Remaining, ParserInv, ParserTypeOK, NeverPastEnd
  <2>2. BlocksAccounted' /\ PacketThere' /\ Filling' /\ LostOnlyBy'
    BY <1>3
    DEF ReadTlv, ParserInv, BlocksAccounted, PacketThere, Filling, LostOnlyBy
  <2>3. IsFiniteSet(fields')
    BY <1>3 DEF ReadTlv, ParserInv
  <2> QED BY <2>2, <2>3, <2>4 DEF ParserInv
<1>4. CASE ReadTlvFails
  <2>1. have
    BY <1>4 DEF ReadTlvFails, ParserInv, PacketThere
  <2> QED BY <1>4, <2>1, FailKeepsInv DEF ReadTlvFails
<1>5. CASE Advance
  <2>4. tlv.start \in Nat /\ tlv.length \in Nat
    BY DEF ParserInv, ParserTypeOK, ATlv
  <2>1. ParserTypeOK' /\ NeverPastEnd'
    BY <1>1, <1>5, <2>4
    DEF Advance, Positioned, ParserInv, ParserTypeOK, NeverPastEnd
  <2>2. BlocksAccounted' /\ PacketThere' /\ Filling' /\ LostOnlyBy'
    BY <1>5
    DEF Advance, ParserInv, BlocksAccounted, PacketThere, Filling, LostOnlyBy
  <2>3. IsFiniteSet(fields')
    BY <1>5 DEF Advance, ParserInv
  <2> QED BY <2>1, <2>2, <2>3 DEF ParserInv
<1>6. CASE Finish
  BY <1>6 DEF Finish, ParserInv, ParserTypeOK, NeverPastEnd, BlocksAccounted,
              PacketThere, Filling, LostOnlyBy
<1>7. CASE DeletePacket
  <2>1. have
    BY <1>7 DEF DeletePacket, ParserInv, PacketThere
  <2>2. /\ at' = "end" /\ live' = 0 /\ have' = FALSE /\ fields' = {}
        /\ arrays' = [t \in ArrayTlvs |-> NoArray]
        /\ length' = length /\ pos' = pos /\ tlv' = tlv
    BY <1>7, <2>1, PacketBlocksType DEF DeletePacket, NoPacket, PacketBlocks
  <2>5. ParserTypeOK'
    BY <2>2, NothingTyped DEF ParserInv
  <2>3. NeverPastEnd' /\ BlocksAccounted' /\ LostOnlyBy'
    BY <2>2
    DEF ParserInv, NeverPastEnd, BlocksAccounted, LostOnlyBy
  <2>4. PacketThere' /\ Filling' /\ IsFiniteSet(fields')
    BY <2>2, FS_EmptySet DEF PacketThere, Filling, NoArray
  <2> QED BY <2>3, <2>4, <2>5 DEF ParserInv
<1> QED BY <1>2, <1>3, <1>4, <1>5, <1>6, <1>7

\* A value that is one field is read: the field is set, and no array changes.
LEMMA FieldKeepsInv ==
  ASSUME ParserInv, at = "value",
         NEW n \in Nat, Need(n), Consume(n),
         NEW t \in FieldTlvs, SetField(t),
         UNCHANGED <<length, tlv>>
  PROVE  ParserInv'
<1>1. length \in Nat /\ pos \in Nat /\ have \in BOOLEAN
  BY ParserAssumption DEF ParserInv, ParserTypeOK
<1>2. /\ IsFiniteSet(fields')
      /\ Cardinality(fields') = Cardinality(fields) + 1 - OldField(t)
      /\ OldField(t) \in Int
  BY AddField DEF ParserInv, SetField
<1>3. have /\ have' = have /\ arrays' = arrays
  BY DEF ParserInv, PacketThere, SetField
<1>4. ParserTypeOK'
  <2>1. have' \in BOOLEAN
    BY <1>1, <1>3
  <2>2. live' \in Int
    BY <1>2 DEF SetField, ParserInv, ParserTypeOK
  <2>3. fields' \subseteq FieldTlvs
    BY DEF SetField, ParserInv, ParserTypeOK
  <2>4. pos' \in Nat /\ at' = "advance"
    BY <1>1 DEF Consume
  <2> QED BY <1>3, <2>1, <2>2, <2>3, <2>4 DEF ParserInv, ParserTypeOK
<1>5. NeverPastEnd'
  BY <1>1 DEF Need, Remaining, Consume, NeverPastEnd
<1>6. BlocksAccounted'
  <2>1. live = 1 + Cardinality(fields) + ArraysBlocks(arrays)
    BY <1>3, PacketBlocksType
  <2>2. live' = 1 + Cardinality(fields') + ArraysBlocks(arrays)
    BY <1>2, <2>1, PacketBlocksType DEF SetField
  <2> QED BY <1>3, <2>2 DEF BlocksAccounted, PacketBlocks
<1>7. PacketThere' /\ Filling' /\ LostOnlyBy'
  BY <1>3 DEF Consume, ParserInv, PacketThere, Filling, LostOnlyBy
<1> QED BY <1>2, <1>4, <1>5, <1>6, <1>7 DEF ParserInv

\* A value that is not kept takes only room.
LEMMA SkipKeepsInv ==
  ASSUME ParserInv, at = "value", at' = "advance",
         pos' \in Nat, pos' <= length,
         UNCHANGED <<length, tlv, have, fields, arrays, live>>
  PROVE  ParserInv'
<1>1. have' \in BOOLEAN
  BY DEF ParserInv, ParserTypeOK
<1>2. ParserTypeOK' /\ NeverPastEnd'
  BY <1>1 DEF ParserInv, ParserTypeOK, NeverPastEnd
<1>3. BlocksAccounted' /\ PacketThere' /\ Filling' /\ LostOnlyBy'
  BY DEF ParserInv, BlocksAccounted, PacketThere, Filling, LostOnlyBy
<1> QED BY <1>2, <1>3 DEF ParserInv

\* A new array is empty, and its predecessor's blocks are gone.
LEMMA ProvisionKeepsInv ==
  ASSUME ParserInv, at = "value", tlv.type \in ArrayTlvs,
         NEW n \in Nat, Provision(n), at' = "items",
         pos' \in Nat, pos' <= length,
         UNCHANGED <<length, tlv, have, fields>>
  PROVE  ParserInv'
<1>1. have /\ have \in BOOLEAN /\ arrays \in [ArrayTlvs -> AnArray]
  BY DEF ParserInv, ParserTypeOK, PacketThere
<1>2. ArrayOf(n) \in AnArray
  BY NoArrayType
<1>3. /\ arrays' \in [ArrayTlvs -> AnArray]
      /\ \A t \in ArrayTlvs :
           arrays'[t] = IF t = tlv.type THEN ArrayOf(n) ELSE arrays[t]
  BY <1>1, <1>2 DEF Provision
<1>4. /\ ArraysBlocks(arrays) \in Nat
      /\ ArraysBlocks(arrays') =
           ArraysBlocks(arrays) - ArrayBlocks(tlv.type, Old)
             + ArrayBlocks(tlv.type, ArrayOf(n))
  BY <1>1, <1>2, ArraysUpdate DEF Provision, Old
<1>5. /\ ArrayBlocks(tlv.type, Old) \in Nat
      /\ ArrayBlocks(tlv.type, ArrayOf(n)) = 2
  <2>1. Old \in AnArray
    BY <1>1 DEF Old
  <2>2. ArrayBlocks(tlv.type, Old) \in Nat
    BY <2>1, ArrayBlocksType
  <2> QED BY <2>2 DEF ArrayBlocks, ArrayOf
<1>6. live' = 1 + Cardinality(fields) + ArraysBlocks(arrays')
  BY <1>1, <1>4, <1>5, PacketBlocksType DEF Provision
<1>7. ParserTypeOK' /\ NeverPastEnd'
  <2>1. have' \in BOOLEAN
    BY <1>1
  <2>2. live' \in Int
    BY <1>5 DEF Provision, ParserInv, ParserTypeOK
  <2> QED BY <1>3, <2>1, <2>2 DEF ParserInv, ParserTypeOK, NeverPastEnd
<1>8. BlocksAccounted'
  BY <1>1, <1>6 DEF BlocksAccounted, PacketBlocks
<1>9. PacketThere' /\ Filling' /\ LostOnlyBy'
  BY <1>1, <1>3 DEF ParserInv, PacketThere, Filling, LostOnlyBy, ArrayOf
<1> QED BY <1>7, <1>8, <1>9 DEF ParserInv

\* The steps that read a value.
LEMMA ValueKeepsInv ==
  ASSUME ParserInv, ReadValue
  PROVE  ParserInv'
<1>1. at = "value" /\ have
  BY DEF ReadValue, StringValue, StringFails, StringNotKept, ScalarValue,
         ScalarFails, ScalarLost, DuplexValue, UnknownValue, RecordValue,
         RecordFails, AddressesValue, PrefixesValue, AddressesTooShort,
         ProvisionFails, ParserInv, PacketThere
<1>2. /\ length \in Nat /\ pos \in Nat /\ pos <= length
      /\ tlv.length \in Nat
      /\ arrays \in [ArrayTlvs -> AnArray]
  BY ParserAssumption DEF ParserInv, ParserTypeOK, NeverPastEnd, ATlv
<1>3. StringTlvs \union ScalarTlvs \union RecordTlvs \subseteq FieldTlvs
  BY DEF FieldTlvs
<1>4. CASE StringValue
  <2>1. tlv.length - 4 \in Nat
    BY <1>2, <1>4 DEF StringValue, StringFits
  <2> QED BY <1>1, <1>3, <1>4, <2>1, FieldKeepsInv DEF StringValue, StringFits
<1>5. CASE StringFails
  BY <1>1, <1>5, FailKeepsInv DEF StringFails
<1>6. CASE StringNotKept
  <2> DEFINE fs == fields \ {tlv.type}
  <2>1. Cardinality(fs) = Cardinality(fields) - OldField(tlv.type)
    BY DropField DEF ParserInv
  <2>2. OldField(tlv.type) \in Int /\ Cardinality(fields) \in Nat
    BY AddField DEF ParserInv
  <2>3. ArraysBlocks(arrays) \in Nat
        /\ live = 1 + Cardinality(fields) + ArraysBlocks(arrays)
    BY <1>1, PacketBlocksType
  <2> HIDE DEF fs
  <2>4. /\ PacketBlocks(fs, arrays) \in Int
        /\ live = OldField(tlv.type) + PacketBlocks(fs, arrays)
    BY <2>1, <2>2, <2>3 DEF PacketBlocks
  <2>5. FailAfter(OldField(tlv.type), fs, arrays) /\ UNCHANGED <<length, pos, tlv>>
    BY <1>6 DEF StringNotKept, fs
  <2> QED BY <2>2, <2>4, <2>5, FailAfterKeepsInv
<1>7. CASE ScalarValue
  <2>1. ScalarSize(tlv.type) \in Nat
    BY DEF ScalarSize
  <2> QED BY <1>1, <1>3, <1>7, <2>1, FieldKeepsInv DEF ScalarValue
<1>8. CASE ScalarFails
  BY <1>1, <1>8, FailKeepsInv DEF ScalarFails
<1>9. CASE ScalarLost
  BY <1>1, <1>9, LoseKeepsInv DEF ScalarLost
<1>10. CASE DuplexValue
  <2>1. CASE Need(1)
    <3>1. /\ at' = "advance" /\ pos' = pos + 1
          /\ UNCHANGED <<length, tlv, have, fields, arrays, live>>
      BY <1>10, <2>1 DEF DuplexValue, Consume
    <3>2. pos' \in Nat /\ pos' <= length
      BY <1>2, <2>1, <3>1 DEF Need, Remaining
    <3> QED BY <1>1, <3>1, <3>2, SkipKeepsInv
  <2>2. CASE ~Need(1)
    BY <1>1, <1>10, <2>2, FailKeepsInv DEF DuplexValue
  <2> QED BY <2>1, <2>2
<1>11. CASE UnknownValue
  BY <1>1, <1>2, <1>11, SkipKeepsInv DEF UnknownValue
<1>12. CASE RecordValue
  <2>1. RecordSize(tlv.type) \in Nat
    BY DEF RecordSize
  <2> QED BY <1>1, <1>3, <1>12, <2>1, FieldKeepsInv DEF RecordValue
<1>13. CASE RecordFails
  <2>1. CASE tlv.type = "PowerAvailable"
    BY <1>1, <1>13, <2>1, FailKeepsInv DEF RecordFails
  <2>2. CASE tlv.type # "PowerAvailable"
    BY <1>1, <1>13, <2>2, LoseKeepsInv DEF RecordFails, RecordTlvs
  <2> QED BY <2>1, <2>2
<1>14. CASE AddressesValue
  <2>1. tlv.type \in ArrayTlvs /\ pos' \in Nat /\ pos' <= length
    BY <1>2, <1>14 DEF AddressesValue, Need, Remaining, ArrayTlvs
  <2>2. PICK n \in 0..MaxCount : Provision(n)
    BY <1>14 DEF AddressesValue
  <2>3. n \in Nat
    BY ParserAssumption
  <2> QED BY <1>1, <1>14, <2>1, <2>2, <2>3, ProvisionKeepsInv DEF AddressesValue
<1>15. CASE PrefixesValue
  <2>1. PrefixCount \in Nat
    BY <1>2 DEF PrefixCount
  <2>2. tlv.type \in ArrayTlvs /\ pos' = pos
    BY <1>15 DEF PrefixesValue, ArrayTlvs
  <2> QED BY <1>1, <1>2, <1>15, <2>1, <2>2, ProvisionKeepsInv DEF PrefixesValue
<1>16. CASE AddressesTooShort
  BY <1>1, <1>16, FailKeepsInv DEF AddressesTooShort
<1>17. CASE ProvisionFails
  <2> DEFINE as == [arrays EXCEPT ![tlv.type] = NoArray]
             freed == ArrayBlocks(tlv.type, Old)
  <2>1. tlv.type \in ArrayTlvs /\ FailAfter(freed, fields, as)
        /\ UNCHANGED <<length, pos, tlv>>
    BY <1>17 DEF ProvisionFails
  <2>2. Old \in AnArray
    BY <1>2, <2>1 DEF Old
  <2>3. freed \in Nat
    BY <2>2, ArrayBlocksType
  <2>4. ArraysBlocks(as) = ArraysBlocks(arrays) - freed
    <3>1. ArrayBlocks(tlv.type, NoArray) = 0
      BY DEF ArrayBlocks, NoArray
    <3>2. ArraysBlocks(as) = ArraysBlocks(arrays) - freed
                               + ArrayBlocks(tlv.type, NoArray)
          /\ ArraysBlocks(arrays) \in Nat
      BY <1>2, <2>1, NoArrayType, ArraysUpdate DEF Old
    <3> HIDE DEF freed, as
    <3> QED BY <2>3, <3>1, <3>2
  <2>5. /\ ArraysBlocks(arrays) \in Nat /\ Cardinality(fields) \in Nat
        /\ live = 1 + Cardinality(fields) + ArraysBlocks(arrays)
    BY <1>1, PacketBlocksType
  <2> HIDE DEF freed, as
  <2>6. /\ PacketBlocks(fields, as) \in Int
        /\ live = freed + PacketBlocks(fields, as)
    BY <2>3, <2>4, <2>5 DEF PacketBlocks
  <2>7. freed \in Int
    BY <2>3
  <2> QED BY <2>1, <2>6, <2>7, FailAfterKeepsInv
<1> QED
  BY <1>4, <1>5, <1>6, <1>7, <1>8, <1>9, <1>10, <1>11, <1>12, <1>13, <1>14,
     <1>15, <1>16, <1>17 DEF ReadValue

\* The steps that fill an array.
LEMMA ItemsKeepInv ==
  ASSUME ParserInv, ReadItems
  PROVE  ParserInv'
<1>1. /\ at = "items" /\ have /\ have \in BOOLEAN
      /\ tlv.type \in ArrayTlvs /\ arrays[tlv.type].made
      /\ length \in Nat /\ pos \in Nat /\ pos <= length
      /\ arrays \in [ArrayTlvs -> AnArray]
  BY ParserAssumption
  DEF ReadItems, ReadItem, ReadItemFails, EndItems, ParserInv, ParserTypeOK,
      NeverPastEnd, PacketThere, Filling
<1>2. CASE ReadItem
  <2> DEFINE t == tlv.type
             a == [arrays[t] EXCEPT !.filled = @ + 1]
             more == IF t = "ODRPrefixes" THEN 2 ELSE 1
  <2>1. /\ arrays' = [arrays EXCEPT ![t] = a]
        /\ live' = live + more
        /\ at' = at /\ UNCHANGED <<length, tlv, have, fields>>
    BY <1>2 DEF ReadItem
  <2>2. /\ a \in AnArray
        /\ arrays[t].count \in Nat /\ arrays[t].filled \in Nat
        /\ arrays[t].filled < arrays[t].count
        /\ a.filled = arrays[t].filled + 1 /\ a.count = arrays[t].count
        /\ a.made
    BY <1>1, <1>2 DEF AnArray, ReadItem, ItemsLeft, Old
  <2>3. /\ ArrayBlocks(t, arrays[t]) \in Nat
        /\ ArrayBlocks(t, a) = ArrayBlocks(t, arrays[t]) + more
    BY <1>1, <2>2 DEF ArrayBlocks
  <2>4. /\ ArraysBlocks(arrays) \in Nat
        /\ ArraysBlocks(arrays') =
             ArraysBlocks(arrays) - ArrayBlocks(t, arrays[t]) + ArrayBlocks(t, a)
    BY <1>1, <2>1, <2>2, ArraysUpdate
  <2>5. /\ arrays' \in [ArrayTlvs -> AnArray]
        /\ \A u \in ArrayTlvs : arrays'[u] = IF u = t THEN a ELSE arrays[u]
    BY <1>1, <2>1, <2>2
  <2>6. PICK n \in ItemSizes : Need(n) /\ pos' = pos + n
    BY <1>2 DEF ReadItem
  <2>7. n \in Nat
    BY DEF ItemSizes, AddressSizes
  <2>8. pos' \in Nat /\ pos' <= length
    BY <1>1, <2>6, <2>7 DEF Need, Remaining
  <2>9. more \in Nat
    OBVIOUS
  <2> HIDE DEF t, a, more
  <2>10. BlocksAccounted'
    BY <1>1, <2>1, <2>3, <2>4, <2>9, PacketBlocksType
    DEF BlocksAccounted, PacketBlocks
  <2>11. ParserTypeOK' /\ NeverPastEnd'
    <3>1. have' \in BOOLEAN
      BY <1>1, <2>1
    <3>2. live' \in Int
      BY <2>1, <2>9 DEF ParserInv, ParserTypeOK
    <3> QED BY <2>1, <2>5, <2>8, <3>1, <3>2 DEF ParserInv, ParserTypeOK, NeverPastEnd
  <2>12. PacketThere' /\ LostOnlyBy'
    BY <1>1, <2>1 DEF PacketThere, LostOnlyBy
  <2>13. Filling'
    BY <1>1, <2>1, <2>2, <2>5 DEF ParserInv, Filling, t
  <2>14. IsFiniteSet(fields')
    BY <2>1 DEF ParserInv
  <2> QED BY <2>10, <2>11, <2>12, <2>13, <2>14 DEF ParserInv
<1>3. CASE ReadItemFails
  BY <1>1, <1>3, FailKeepsInv DEF ReadItemFails
<1>4. CASE EndItems
  <2>1. /\ at' = "advance" /\ UNCHANGED <<length, pos, tlv, have, fields, arrays, live>>
        /\ ~(arrays[tlv.type].filled < arrays[tlv.type].count)
    BY <1>4 DEF EndItems, ItemsLeft, Old
  <2>2. have' \in BOOLEAN
    BY <1>1, <2>1
  <2>3. ParserTypeOK' /\ NeverPastEnd'
    BY <2>1, <2>2 DEF ParserInv, ParserTypeOK, NeverPastEnd
  <2>4. \A t \in ArrayTlvs : arrays[t].filled = arrays[t].count
    <3>1. \A t \in ArrayTlvs : arrays[t].filled \in Nat /\ arrays[t].count \in Nat
      BY <1>1 DEF AnArray
    <3> QED BY <1>1, <2>1, <3>1 DEF ParserInv, Filling
  <2>5. BlocksAccounted' /\ PacketThere' /\ LostOnlyBy'
    BY <1>1, <2>1 DEF ParserInv, BlocksAccounted, PacketThere, LostOnlyBy
  <2>6. Filling'
    BY <2>1, <2>4 DEF ParserInv, Filling
  <2> QED BY <2>1, <2>3, <2>5, <2>6 DEF ParserInv
<1> QED BY <1>2, <1>3, <1>4 DEF ReadItems

\* Every step keeps the invariant.
LEMMA StepKeepsInv == ParserInv /\ [ParserNext]_parserVars => ParserInv'
<1>1. ParserInv /\ ParserNext => ParserInv'
  BY LoopKeepsInv, ValueKeepsInv, ItemsKeepInv DEF ParserNext
<1>2. ParserInv /\ UNCHANGED parserVars => ParserInv'
  BY DEF parserVars, ParserInv, ParserTypeOK, NeverPastEnd, BlocksAccounted,
         PacketThere, Filling, LostOnlyBy
<1> QED BY <1>1, <1>2

-----------------------------------------------------------------------------

\* What the invariant gives.
LEMMA ParserCorrect ==
  ParserSpec =>
    [](ParserTypeOK /\ NeverPastEnd /\ BlocksAccounted /\ LostOnlyBy /\ ArraysWhole)
<1>1. ParserInit => ParserInv
  BY ParserInitInv
<1>2. ParserInv =>
        ParserTypeOK /\ NeverPastEnd /\ BlocksAccounted /\ LostOnlyBy /\ ArraysWhole
  BY DEF ParserInv, Filling, ArraysWhole
<1> QED BY <1>1, <1>2, StepKeepsInv, PTL DEF ParserSpec

\* For every frame, with any stated lengths: the reader stays within it (the
\* checks of stream_reader_get8 and the others, and of cdp_parse_packet).
THEOREM ReaderInFrame == ParserSpec => []NeverPastEnd
BY ParserCorrect, PTL

\* Every block that cdp_parse_packet allocates is in the packet it returns, is
\* freed, or is lost with a packet, whatever fails.
THEOREM BlocksInPacketOrFreed == ParserSpec => []BlocksAccounted
BY ParserCorrect, PTL

\* A packet is lost on the paths that return without deleting it, and on no
\* other path of cdp_parse_packet.
THEOREM LostOnKnownPaths == ParserSpec => []LostOnlyBy
BY ParserCorrect, PTL

\* Whatever fails while an array is filled, no array with an empty slot is left
\* in a packet (the loops of cdp_parse_packet that fill the arrays).
THEOREM ArraysFilled == ParserSpec => []ArraysWhole
BY ParserCorrect, PTL

\* What is read of a TLV lies behind its start.
TlvBehind == at \in {"value", "items", "advance"} => tlv.start < pos

\* No step goes back behind the start of the TLV it is in.
LEMMA BehindKept ==
  ASSUME ParserInv, TlvBehind, ParserNext
  PROVE  TlvBehind'
<1>1. pos \in Nat /\ tlv.start \in Nat /\ tlv.length \in Nat
  BY DEF ParserInv, ParserTypeOK, ATlv
<1>2. CASE ReadTlv
  BY <1>1, <1>2 DEF ReadTlv, TlvBehind
<1>3. CASE ReadValue
  <2>1. CASE StringValue
    BY <1>1, <2>1 DEF StringValue, StringFits, Consume, TlvBehind
  <2>2. CASE ScalarValue \/ RecordValue
    <3>1. ScalarSize(tlv.type) \in Nat /\ RecordSize(tlv.type) \in Nat
      BY DEF ScalarSize, RecordSize
    <3> QED BY <1>1, <2>2, <3>1 DEF ScalarValue, RecordValue, Consume, TlvBehind
  <2>3. CASE DuplexValue \/ UnknownValue
    BY <1>1, <2>3
    DEF DuplexValue, UnknownValue, Consume, Fail, FailAfter, TlvBehind
  <2>4. CASE AddressesValue \/ PrefixesValue
    BY <1>1, <2>4 DEF AddressesValue, PrefixesValue, TlvBehind
  <2>5. CASE \/ StringFails \/ StringNotKept \/ ScalarFails \/ ScalarLost
             \/ RecordFails \/ AddressesTooShort \/ ProvisionFails
    BY <2>5
    DEF StringFails, StringNotKept, ScalarFails, ScalarLost, RecordFails,
        AddressesTooShort, ProvisionFails, Fail, FailAfter, FailAndLose, TlvBehind
  <2> QED BY <1>3, <2>1, <2>2, <2>3, <2>4, <2>5 DEF ReadValue
<1>4. CASE ReadItems
  <2>1. CASE ReadItem
    <3>1. PICK n \in ItemSizes : pos' = pos + n
      BY <2>1 DEF ReadItem
    <3>2. n \in Nat
      BY DEF ItemSizes, AddressSizes
    <3> QED BY <1>1, <2>1, <3>1, <3>2 DEF ReadItem, TlvBehind
  <2>2. CASE ReadItemFails \/ EndItems
    BY <2>2 DEF ReadItemFails, EndItems, Fail, FailAfter, TlvBehind
  <2> QED BY <1>4, <2>1, <2>2 DEF ReadItems
<1>5. CASE ReadHeader \/ ReadTlvFails \/ Advance \/ Finish \/ DeletePacket
  BY <1>5
  DEF ReadHeader, ReadTlvFails, Advance, Finish, DeletePacket, Fail, FailAfter,
      TlvBehind
<1> QED BY <1>2, <1>3, <1>4, <1>5 DEF ParserNext

\* For every frame, each TLV moves the reader on, unless it states a length of
\* zero: only such a frame can keep the loop of cdp_parse_packet going.
THEOREM ParserProgress == ParserSpec => TlvProgress
<1>1. ParserInit => TlvBehind
  BY DEF ParserInit, TlvBehind
<1>2. ParserInv /\ TlvBehind /\ [ParserNext]_parserVars => TlvBehind'
  BY BehindKept DEF parserVars, TlvBehind
<1>3. ParserInv /\ TlvBehind /\ [ParserNext]_parserVars =>
        [at = "advance" => pos' > tlv.start \/ tlv.length = 0]_parserVars
  <2> SUFFICES ASSUME ParserInv, TlvBehind, ParserNext, at = "advance",
                      tlv.length # 0
               PROVE  pos' > tlv.start
    OBVIOUS
  <2>1. pos \in Nat /\ tlv.start \in Nat /\ tlv.length \in Nat
    BY DEF ParserInv, ParserTypeOK, ATlv
  <2>2. Advance
    BY DEF ParserNext, ReadHeader, ReadTlv, ReadTlvFails, ReadValue, ReadItems,
           Finish, DeletePacket, StringValue, StringFails, StringNotKept,
           ScalarValue, ScalarFails, ScalarLost, DuplexValue, UnknownValue,
           RecordValue, RecordFails, AddressesValue, PrefixesValue,
           AddressesTooShort, ProvisionFails, ReadItem, ReadItemFails, EndItems
  <2> QED BY <2>1, <2>2 DEF Advance, Positioned, TlvBehind
<1> QED
  BY <1>1, <1>2, <1>3, ParserInitInv, StepKeepsInv, PTL DEF ParserSpec, TlvProgress
=============================================================================
