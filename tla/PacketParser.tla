---------------------------- MODULE PacketParser ---------------------------
(***************************************************************************)
(* cdp_parse_packet (libcdp/cdp_packet_parser.c) with the stream reader    *)
(* below it and the packet it fills: where in the frame it is, and which   *)
(* blocks of memory it has.                                                *)
(*                                                                         *)
(* What a frame contains is a choice at each read.  A choice stands for    *)
(* the bytes at that place, so a frame that is read twice at a place, after *)
(* a step back, may differ: that only adds behaviours.  A read that fails  *)
(* ends the parse, so several reads in a row are one of their total size.  *)
(***************************************************************************)
EXTENDS Integers, FiniteSets

CONSTANTS
  Lengths,       \* lengths of frames
  Tlvs,          \* the types of TLV that occur
  StatedLengths, \* lengths a TLV may state about itself
  MaxCount       \* bounds the addresses a TLV may announce

StringTlvs == {"DeviceId", "PortId", "SoftwareVersion", "Platform",
               "VtpManagementDomain", "StartupNativeVlan"}
ScalarTlvs == {"Capabilities", "NativeVlan", "TrustBitmap", "UntrustedPortCoS"}
RecordTlvs == {"ClusterManagementProtocol", "PowerAvailable"}
AddressTlvs == {"Addresses", "ManagementAddresses"}
ArrayTlvs == AddressTlvs \union {"ODRPrefixes"}
FieldTlvs == StringTlvs \union ScalarTlvs \union RecordTlvs
AllTlvs == FieldTlvs \union ArrayTlvs \union {"Duplex", "Unknown"}

ASSUME ParserAssumption ==
  /\ Lengths \subseteq Nat \ {0}
  /\ Tlvs \subseteq AllTlvs
  /\ StatedLengths \subseteq Nat
  /\ MaxCount \in Nat

VARIABLES
  at,      \* "start", "loop", "value", "items", "advance", "done", "failed", "end"
  length,  \* of the frame
  pos,     \* the stream reader's position
  tlv,     \* the TLV being read: its type, its stated length, where it starts
  have,    \* the packet exists
  fields,  \* its fields that are not NULL
  arrays,  \* its arrays
  live     \* blocks of memory the parser and the packet have

parserVars == <<at, length, pos, tlv, have, fields, arrays, live>>

NoArray == [made |-> FALSE, count |-> 0, filled |-> 0]
ArrayOf(n) == [made |-> TRUE, count |-> n, filled |-> 0]

AnArray == [made : BOOLEAN, count : Nat, filled : Nat]
ATlv == [type : AllTlvs, length : Nat, start : Nat]

ParserTypeOK ==
  /\ at \in {"start", "loop", "value", "items", "advance", "done", "failed", "end"}
  /\ length \in Lengths
  /\ pos \in Nat
  /\ tlv \in ATlv
  /\ have \in BOOLEAN
  /\ fields \subseteq FieldTlvs
  /\ arrays \in [ArrayTlvs -> AnArray]
  /\ live \in Int

ParserInit ==
  /\ at = "start"
  /\ length \in Lengths
  /\ pos = 0
  /\ tlv = [type |-> "Unknown", length |-> 0, start |-> 0]
  /\ have = FALSE /\ fields = {} /\ arrays = [t \in ArrayTlvs |-> NoArray]
  /\ live = 0

-----------------------------------------------------------------------------
(* The stream reader.                                                      *)

Remaining == length - pos

\* One byte too few is asked for.
MutNeed(n) == Remaining + 1 >= n

Need(n) == Remaining >= n

\* A position past the end is refused, and the reader stays where it is.
Positioned(p) == IF p > length THEN pos ELSE p

-----------------------------------------------------------------------------
(* The packet's memory.                                                    *)

\* An array is its container and its slots; an address is one block, a prefix
\* is two.
ArrayBlocks(t, a) ==
  IF ~a.made THEN 0
  ELSE 2 + (IF t = "ODRPrefixes" THEN 2 * a.filled ELSE a.filled)

ArraysBlocks(as) ==
  ArrayBlocks("Addresses", as["Addresses"])
    + ArrayBlocks("ManagementAddresses", as["ManagementAddresses"])
    + ArrayBlocks("ODRPrefixes", as["ODRPrefixes"])

\* What cdp_packet_delete frees of a packet with these fields and arrays.
PacketBlocks(fs, as) == 1 + Cardinality(fs) + ArraysBlocks(as)

OldField(t) == IF t \in fields THEN 1 ELSE 0

NoPacket ==
  have' = FALSE /\ fields' = {} /\ arrays' = [t \in ArrayTlvs |-> NoArray]

\* The parse fails and the packet, of which fs and as are left and before which
\* freed blocks were freed, is deleted.
FailAfter(freed, fs, as) ==
  /\ at' = "failed"
  /\ live' = live - freed - PacketBlocks(fs, as)
  /\ NoPacket

Fail == FailAfter(0, fields, arrays)

\* The parse fails and the packet is not deleted.
FailAndLose == at' = "failed" /\ UNCHANGED <<have, fields, arrays, live>>

\* The strings and records: what was there is freed, what is new is owned.
SetField(t) ==
  /\ fields' = fields \union {t}
  /\ live' = live - OldField(t) + 1
  /\ UNCHANGED <<have, arrays>>

Consume(n) == pos' = pos + n /\ at' = "advance"

-----------------------------------------------------------------------------
(* The loop.                                                               *)

\* Version, hold time and checksum, and a new packet.
ReadHeader ==
  /\ at = "start"
  /\ \/ /\ at' = "failed"
        /\ UNCHANGED <<pos, have, live>>
     \/ /\ Need(4)
        /\ at' = "loop" /\ pos' = pos + 4
        /\ have' = TRUE /\ live' = live + 1
  /\ UNCHANGED <<length, tlv, fields, arrays>>

ReadTlv ==
  /\ at = "loop" /\ Need(4)
  /\ \E t \in Tlvs, n \in StatedLengths :
       tlv' = [type |-> t, length |-> n, start |-> pos]
  /\ pos' = pos + 4
  /\ at' = "value"
  /\ UNCHANGED <<length, have, fields, arrays, live>>

\* The rest of the frame is too short for another TLV.
ReadTlvFails ==
  /\ at = "loop" /\ Remaining \in 1..3
  /\ Fail
  /\ UNCHANGED <<length, pos, tlv>>

\* The stated length is taken for a position.
MutAdvance ==
  /\ at = "advance"
  /\ pos' = Positioned(tlv.length)
  /\ at' = "loop"
  /\ UNCHANGED <<length, tlv, have, fields, arrays, live>>

\* Whatever the value took, the next TLV begins where the stated length says,
\* if that is in the frame.
Advance ==
  /\ at = "advance"
  /\ pos' = Positioned(tlv.start + tlv.length)
  /\ at' = "loop"
  /\ UNCHANGED <<length, tlv, have, fields, arrays, live>>

Finish ==
  /\ at = "loop" /\ Remaining = 0
  /\ at' = "done"
  /\ UNCHANGED <<length, pos, tlv, have, fields, arrays, live>>

\* The caller is done with the packet.
DeletePacket ==
  /\ at = "done"
  /\ live' = live - PacketBlocks(fields, arrays)
  /\ NoPacket
  /\ at' = "end"
  /\ UNCHANGED <<length, pos, tlv>>

-----------------------------------------------------------------------------
(* The values.                                                             *)

\* A string of the stated length, less the header; a stated length below that
\* wraps around and is more than any frame has.
StringFits == tlv.length >= 4 /\ Need(tlv.length - 4)

StringValue ==
  /\ at = "value" /\ tlv.type \in StringTlvs
  /\ StringFits
  /\ Consume(tlv.length - 4)
  /\ SetField(tlv.type)
  /\ UNCHANGED <<length, tlv>>

\* The frame is too short, or there is no memory to read the string.
StringFails ==
  /\ at = "value" /\ tlv.type \in StringTlvs
  /\ Fail
  /\ UNCHANGED <<length, pos, tlv>>

\* The string was read, the old one is freed, and there is no memory to keep the
\* new one.
StringNotKept ==
  /\ at = "value" /\ tlv.type \in StringTlvs
  /\ StringFits
  /\ FailAfter(OldField(tlv.type), fields \ {tlv.type}, arrays)
  /\ UNCHANGED <<length, pos, tlv>>

ScalarSize(t) ==
  CASE t = "Capabilities" -> 4 [] t = "NativeVlan" -> 2 [] OTHER -> 1

\* A scalar is allocated once and overwritten after that, which takes as many
\* blocks as freeing it and allocating it again.
ScalarValue ==
  /\ at = "value" /\ tlv.type \in ScalarTlvs
  /\ Need(ScalarSize(tlv.type))
  /\ Consume(ScalarSize(tlv.type))
  /\ SetField(tlv.type)
  /\ UNCHANGED <<length, tlv>>

ScalarFails ==
  /\ at = "value" /\ tlv.type \in ScalarTlvs
  /\ ~Need(ScalarSize(tlv.type))
  /\ Fail
  /\ UNCHANGED <<length, pos, tlv>>

\* There is no memory for the first value, or the VLAN is out of range.
ScalarLost ==
  /\ at = "value" /\ tlv.type \in ScalarTlvs
  /\ Need(ScalarSize(tlv.type))
  /\ tlv.type \notin fields \/ tlv.type = "NativeVlan"
  /\ FailAndLose
  /\ UNCHANGED <<length, pos, tlv>>

DuplexValue ==
  /\ at = "value" /\ tlv.type = "Duplex"
  /\ IF Need(1) THEN Consume(1) /\ UNCHANGED <<have, fields, arrays, live>>
     ELSE Fail /\ UNCHANGED pos
  /\ UNCHANGED <<length, tlv>>

RecordSize(t) == IF t = "PowerAvailable" THEN 12 ELSE 33

RecordValue ==
  /\ at = "value" /\ tlv.type \in RecordTlvs
  /\ Need(RecordSize(tlv.type))
  /\ Consume(RecordSize(tlv.type))
  /\ SetField(tlv.type)
  /\ UNCHANGED <<length, tlv>>

\* Every record is taken to be deleted elsewhere.
MutRecordFails ==
  /\ at = "value" /\ tlv.type \in RecordTlvs
  /\ FailAndLose
  /\ UNCHANGED <<length, pos, tlv>>

\* The frame is too short, there is no memory, or the OUI is not Cisco's.
RecordFails ==
  /\ at = "value" /\ tlv.type \in RecordTlvs
  /\ IF tlv.type = "PowerAvailable" THEN Fail ELSE FailAndLose
  /\ UNCHANGED <<length, pos, tlv>>

UnknownValue ==
  /\ at = "value" /\ tlv.type = "Unknown"
  /\ at' = "advance"
  /\ UNCHANGED <<length, pos, tlv, have, fields, arrays, live>>

-----------------------------------------------------------------------------
(* Arrays.                                                                 *)

Old == arrays[tlv.type]

\* The items of the old array are forgotten.
MutProvision(n) ==
  /\ arrays' = [arrays EXCEPT ![tlv.type] = ArrayOf(n)]
  /\ live' = live + 2 - (IF Old.made THEN 2 ELSE 0)

\* The old array is cleared and deleted, the new one has n empty slots.
Provision(n) ==
  /\ arrays' = [arrays EXCEPT ![tlv.type] = ArrayOf(n)]
  /\ live' = live + 2 - ArrayBlocks(tlv.type, Old)

AddressesValue ==
  /\ at = "value" /\ tlv.type \in AddressTlvs
  /\ Need(4)
  /\ pos' = pos + 4
  /\ \E n \in 0..MaxCount : Provision(n)
  /\ at' = "items"
  /\ UNCHANGED <<length, tlv, have, fields>>

\* Truncated towards zero, so that a stated length below the header's is none.
PrefixCount == IF tlv.length < 4 THEN 0 ELSE (tlv.length - 4) \div 5

PrefixesValue ==
  /\ at = "value" /\ tlv.type = "ODRPrefixes"
  /\ Provision(PrefixCount)
  /\ at' = "items"
  /\ UNCHANGED <<length, pos, tlv, have, fields>>

AddressesTooShort ==
  /\ at = "value" /\ tlv.type \in AddressTlvs
  /\ ~Need(4)
  /\ Fail
  /\ UNCHANGED <<length, pos, tlv>>

\* There is no memory for the new array; the old one is gone.
ProvisionFails ==
  /\ at = "value" /\ tlv.type \in ArrayTlvs
  /\ tlv.type \in AddressTlvs => Need(4)
  /\ FailAfter(ArrayBlocks(tlv.type, Old), fields,
               [arrays EXCEPT ![tlv.type] = NoArray])
  /\ UNCHANGED <<length, pos, tlv>>

\* Protocol type and length, protocol, address length and address: IPv4 as NLPID
\* of one to four bytes or as SNAP, IPv6 as SNAP.
AddressSizes == (9..12) \union {16, 28}

ItemSizes == IF tlv.type = "ODRPrefixes" THEN {5} ELSE AddressSizes

\* One item more than there are slots.
MutItemsLeft == Old.filled <= Old.count

ItemsLeft == Old.filled < Old.count

\* An address, or a network and its prefix length, goes into the next slot.
ReadItem ==
  /\ at = "items" /\ ItemsLeft
  /\ \E n \in ItemSizes : Need(n) /\ pos' = pos + n
  /\ arrays' = [arrays EXCEPT ![tlv.type].filled = @ + 1]
  /\ live' = live + (IF tlv.type = "ODRPrefixes" THEN 2 ELSE 1)
  /\ UNCHANGED <<at, length, tlv, have, fields>>

\* The frame is too short, what it says is not an address, or there is no
\* memory; what was read of this item is freed.  Setting the item cannot fail,
\* for its index is below the count.
ReadItemFails ==
  /\ at = "items" /\ ItemsLeft
  /\ Fail
  /\ UNCHANGED <<length, pos, tlv>>

EndItems ==
  /\ at = "items" /\ ~ItemsLeft
  /\ at' = "advance"
  /\ UNCHANGED <<length, pos, tlv, have, fields, arrays, live>>

-----------------------------------------------------------------------------

ReadValue ==
  \/ StringValue \/ StringFails \/ StringNotKept
  \/ ScalarValue \/ ScalarFails \/ ScalarLost
  \/ DuplexValue \/ UnknownValue \/ RecordValue \/ RecordFails
  \/ AddressesValue \/ PrefixesValue \/ AddressesTooShort \/ ProvisionFails

ReadItems == ReadItem \/ ReadItemFails \/ EndItems

ParserNext ==
  \/ ReadHeader \/ ReadTlv \/ ReadTlvFails \/ ReadValue \/ ReadItems
  \/ Advance \/ Finish \/ DeletePacket

\* The parser is sequential: it goes on as long as it can.
ParserSpec ==
  ParserInit /\ [][ParserNext]_parserVars /\ WF_parserVars(ParserNext)

-----------------------------------------------------------------------------
(* Properties.                                                             *)

\* "this class is supposed to ensure that the buffer is never past end"
\* (stream_reader.c:66): whatever lengths the frame states, no step leaves the
\* frame, or the number of bytes that remain would wrap around.
NeverPastEnd == pos <= length

\* The parser and the packet have exactly the blocks the packet can be asked to
\* free, across TLVs that occur twice, half-read arrays and failed allocations:
\* none is freed twice and none is out of reach, unless the packet itself is.
BlocksAccounted ==
  live = IF have THEN PacketBlocks(fields, arrays) ELSE 0

\* A parse that fails gives its packet back, except on the paths of
\* cdp_parse_packet that return without deleting it: no other leads there.
LostOnlyBy ==
  at = "failed" /\ have =>
    tlv.type \in ScalarTlvs \union {"ClusterManagementProtocol"}

\* Every array is filled before the next TLV is read, and never beyond its slots:
\* a packet that is handed out has no empty slot.
ArraysWhole ==
  \A t \in ArrayTlvs :
    /\ arrays[t].filled <= arrays[t].count
    /\ at \in {"loop", "advance", "done"} => arrays[t].filled = arrays[t].count

\* Each TLV moves the reader on, whatever its value took, unless it states a
\* length of zero.
TlvProgress ==
  [][at = "advance" => pos' > tlv.start \/ tlv.length = 0]_parserVars

\* A parse comes to its end, or it never stops meeting TLVs that state a length
\* of zero.
ParseEnds ==
  <>(at \in {"failed", "end"}) \/ []<>(at = "advance" /\ tlv.length = 0)
=============================================================================
