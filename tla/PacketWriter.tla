---------------------------- MODULE PacketWriter ----------------------------
(***************************************************************************)
(* cdp_create_packet, cdp_packet_serialize (libcdp/cdp_packet.c) and the   *)
(* stream writer (libcdp/stream_writer.c): what happens while Transmit is  *)
(* at "build".  A packet is filled, its TLVs are written into the buffer   *)
(* one after the other, and it is deleted again.                           *)
(*                                                                         *)
(* The bytes of a value are left out, their number is not.  Every write    *)
(* checks for room; those of one TLV, or of one address, are one step,     *)
(* since all of them fit exactly when their sum does.                      *)
(***************************************************************************)
EXTENDS Transmit, Sequences

CONSTANTS
  Room,      \* the length of the buffer, as the packet builder is told: all of
             \* it, the headers' part included
  Lengths,   \* the lengths a string may have
  Word       \* one more than the largest 16-bit number

ASSUME WriterAssumption ==
  /\ Room \in Nat
  /\ Word \in Nat
  /\ Room < Word
  /\ Lengths \subseteq Nat

Strings == {"DeviceId", "SoftwareVersion", "Platform", "PortId"}

\* The fields in the order in which they are set, one block of memory each.
Fields == <<"DeviceId", "SoftwareVersion", "Platform", "Capabilities", "PortId">>

\* The TLVs in the order in which they are written.
Order == <<"DeviceId", "SoftwareVersion", "Platform", "PortId", "Capabilities",
           "Addresses", "Duplex">>

VARIABLES
  step,    \* "none" outside cdp_create_packet; "fields", "array", "write" and
           \* "items" are its stages
  text,    \* the lengths of the strings to be sent
  v4,      \* how many addresses are IPv4 ones: those come first
  set,     \* how many of Fields are set
  copied,  \* how many slots of the array were copied into the packet
  copies,  \* the addresses the packet owns
  live,    \* the other blocks in memory: the packet, its fields, the writer
  pos,     \* the position of the writer
  wire,    \* what it wrote: the TLVs, where they start, the length they state
  item     \* how many addresses are written

writerVars == <<step, text, v4, set, copied, copies, live, pos, wire, item>>
buildVars == <<transmitVars, writerVars>>

PacketBlocks == {Fields[i] : i \in 1..Len(Fields)} \union {"packet", "array"}

WireTlv ==
  [tlv : {Order[i] : i \in 1..Len(Order)}, start : Nat, stated : 0..(Word - 1)]

WriterTypeOK ==
  /\ step \in {"none", "fields", "array", "write", "items"}
  /\ text \in [Strings -> Lengths]
  /\ v4 \in Nat
  /\ set \in 0..Len(Fields)
  /\ copied \in Nat
  /\ copies \in Nat
  /\ live \subseteq PacketBlocks \union {"writer"}
  /\ pos \in Nat
  /\ wire \in Seq(WireTlv)
  /\ item \in Nat

WriterInit ==
  /\ TransmitInit
  /\ step = "none" /\ text \in [Strings -> Lengths] /\ v4 = 0
  /\ set = 0 /\ copied = 0 /\ copies = 0 /\ live = {}
  /\ pos = 0 /\ wire = <<>> /\ item = 0

-----------------------------------------------------------------------------
(* The stream writer.                                                      *)

\* The check of a writer past its end returns -1, which is true.
Need(n) == pos > Room \/ n <= Room - pos

\* The room is not looked at.
MutPut(n) == pos' = pos + n

Put(n) == Need(n) /\ pos' = pos + n

\* cdp_packet_delete: the packet with all that it owns, and other blocks.
DeletePacketAnd(others) ==
  /\ live' = live \ (PacketBlocks \union others)
  /\ copies' = IF "array" \in live THEN 0 ELSE copies

\* cdp_create_packet returns a failure, having deleted what it made.
Abandon(others) ==
  /\ BuildFails
  /\ step' = "none"
  /\ DeletePacketAnd(others)
  /\ UNCHANGED <<text, v4, set, copied, pos, wire, item>>

-----------------------------------------------------------------------------
(* cdp_create_packet, up to cdp_packet_serialize.                          *)

NewPacket ==
  /\ at = "build" /\ step = "none"
  /\ step' = "fields"
  /\ text' \in [Strings -> Lengths] /\ v4' \in 0..filled
  /\ live' = live \union {"packet"}
  /\ set' = 0 /\ copied' = 0 /\ pos' = 0 /\ wire' = <<>> /\ item' = 0
  /\ UNCHANGED <<transmitVars, copies>>

NewPacketFails ==
  /\ at = "build" /\ step = "none"
  /\ BuildFails
  /\ UNCHANGED writerVars

SetField ==
  /\ step = "fields" /\ set < Len(Fields)
  /\ set' = set + 1
  /\ live' = live \union {Fields[set + 1]}
  /\ UNCHANGED <<transmitVars, step, text, v4, copied, copies, pos, wire, item>>

SetFieldFails == step = "fields" /\ set < Len(Fields) /\ Abandon({})

\* The duplex mode needs no memory.
ProvisionArray ==
  /\ step = "fields" /\ set = Len(Fields)
  /\ step' = "array"
  /\ live' = live \union {"array"}
  /\ UNCHANGED <<transmitVars, text, v4, set, copied, copies, pos, wire, item>>

ProvisionArrayFails == step = "fields" /\ set = Len(Fields) /\ Abandon({})

\* An empty slot, of which there are some after the others, stays empty.
CopySlot ==
  /\ step = "array" /\ copied < slots
  /\ copied' = copied + 1
  /\ copies' = IF copied < filled THEN copies + 1 ELSE copies
  /\ UNCHANGED <<transmitVars, step, text, v4, set, live, pos, wire, item>>

CopySlotFails == step = "array" /\ copied < filled /\ Abandon({})

-----------------------------------------------------------------------------
(* cdp_packet_serialize.                                                   *)

\* A writer, the version, the time to live, and room for the checksum.
StartWriting ==
  /\ step = "array" /\ copied = slots
  /\ step' = "write"
  /\ live' = live \union {"writer"}
  /\ Put(4)
  /\ UNCHANGED <<transmitVars, text, v4, set, copied, copies, wire, item>>

\* There is no memory for the writer, or no room for the header.
StartWritingFails == step = "array" /\ copied = slots /\ Abandon({})

Tlv == Order[Len(wire) + 1]

\* The bytes of the first n addresses, with their protocols and lengths.
AddressBytes(n) == IF n <= v4 THEN 9 * n ELSE 9 * v4 + 28 * (n - v4)

\* The bytes of a TLV and, of the addresses' one, those before the addresses.
TlvSize(tlv) ==
  CASE tlv \in Strings -> 4 + text[tlv]
    [] tlv = "Duplex" -> 5
    [] OTHER -> 8

\* The addresses are not counted.
MutStatedNoItems(tlv) == TlvSize(tlv) % Word

\* The length of the addresses is counted before any is written.
Stated(tlv) ==
  (TlvSize(tlv) + IF tlv = "Addresses" THEN AddressBytes(slots) ELSE 0) % Word

\* Empty slots are passed over.
MutWritable == Tlv = "Addresses" => slots > 0

\* An array of no addresses, or with an empty slot, is not written.
Writable == Tlv = "Addresses" => slots > 0 /\ filled = slots

WriteTlv ==
  /\ step = "write" /\ Len(wire) < Len(Order)
  /\ Writable
  /\ Put(TlvSize(Tlv))
  /\ wire' = Append(wire, [tlv |-> Tlv, start |-> pos, stated |-> Stated(Tlv)])
  /\ step' = IF Tlv = "Addresses" THEN "items" ELSE "write"
  /\ UNCHANGED <<transmitVars, text, v4, set, copied, copies, live, item>>

\* The writer is forgotten.
MutWriteTlvFails ==
  /\ step = "write" /\ Len(wire) < Len(Order)
  /\ ~Writable \/ ~Need(TlvSize(Tlv))
  /\ Abandon({})

WriteTlvFails ==
  /\ step = "write" /\ Len(wire) < Len(Order)
  /\ ~Writable \/ ~Need(TlvSize(Tlv))
  /\ Abandon({"writer"})

ItemSize == AddressBytes(item + 1) - AddressBytes(item)

WriteItem ==
  /\ step = "items" /\ item < slots
  /\ Put(ItemSize)
  /\ item' = item + 1
  /\ UNCHANGED <<transmitVars, step, text, v4, set, copied, copies, live, wire>>

WriteItemFails ==
  /\ step = "items" /\ item < slots
  /\ ~Need(ItemSize)
  /\ Abandon({"writer"})

EndItems ==
  /\ step = "items" /\ item = slots
  /\ step' = "write"
  /\ UNCHANGED <<transmitVars, text, v4, set, copied, copies, live, pos, wire,
                 item>>

AllWritten == Len(wire) = Len(Order)

\* The checksum goes into its place, the writer and the packet are deleted.
EndWriting ==
  /\ step = "write" /\ AllWritten
  /\ DeleteArray /\ Proceed("send")
  /\ step' = "none"
  /\ DeletePacketAnd({"writer"})
  /\ UNCHANGED <<up, skb, addresses, rounds, text, v4, set, copied, pos, wire,
                 item>>

-----------------------------------------------------------------------------

CreatePacket ==
  \/ NewPacket \/ NewPacketFails \/ SetField \/ SetFieldFails
  \/ ProvisionArray \/ ProvisionArrayFails \/ CopySlot \/ CopySlotFails
  \/ StartWriting \/ StartWritingFails \/ WriteTlv \/ WriteTlvFails
  \/ WriteItem \/ WriteItemFails \/ EndItems \/ EndWriting

AroundPacket ==
  \/ StartRound \/ NoCarrier \/ OtherDevice \/ EndRound
  \/ AllocBuffer \/ NoAddresses \/ CountAddresses \/ CopyAddress \/ CopyFails
  \/ EndCopy \/ Send

WriterNext == CreatePacket \/ (AroundPacket /\ UNCHANGED writerVars)

WriterSpec == WriterInit /\ [][WriterNext]_buildVars

-----------------------------------------------------------------------------
(* Properties.                                                             *)

\* No byte is written past the length the builder was told: the check of
\* stream_writer_need, which would let every write pass from there on.
NeverPastRoom == pos <= Room

\* What every TLV says of its length is what was written, although the length
\* is cut to 16 bits and that of the addresses is computed before them: whoever
\* reads the packet, begins after its header and goes on by these lengths, finds
\* every TLV where it is and ends where the packet does.
LengthsTrue ==
  /\ wire # <<>> => wire[1].start = 4
  /\ \A i \in 1..(Len(wire) - 1) :
       wire[i + 1].start = wire[i].start + wire[i].stated
  /\ wire # <<>> /\ (step = "write" \/ at = "send") =>
       pos = wire[Len(wire)].start + wire[Len(wire)].stated
  /\ at = "send" => \A i \in 1..Len(wire) : wire[i].stated >= 4

\* Nothing that cdp_create_packet makes is left when it returns, whichever of
\* its steps failed: the packet is deleted on some ten paths, the writer on six.
NothingKept == step = "none" => live = {} /\ copies = 0

\* A packet that is sent has every TLV, in the order of cdp_packet_write_tlvs,
\* and every address the array was made for.
SentWhole ==
  at = "send" =>
    /\ [i \in 1..Len(wire) |-> wire[i].tlv] = Order
    /\ item = copied /\ item > 0
=============================================================================
