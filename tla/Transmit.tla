------------------------------ MODULE Transmit -----------------------------
(***************************************************************************)
(* cdp_transmit_packets (module/cdp_transmit.c): the walk over the network *)
(* devices that sends a CDP packet from each Ethernet device with a        *)
(* carrier, and what it does with the lock of the device list, the packet  *)
(* buffers and the arrays of addresses when a step fails.                  *)
(*                                                                         *)
(* The lists of addresses are walked twice, to count and to copy, without  *)
(* their locks, and may change in between.  What cdp_create_packet writes  *)
(* is left out: it may fail for want of memory or room, and it fails for   *)
(* an array with an empty slot.                                            *)
(***************************************************************************)
EXTENDS Integers, FiniteSets

CONSTANTS
  NDevices,      \* the number of network devices
  Ethernet,      \* those of type ARPHRD_ETHER
  MaxAddresses,  \* bounds the addresses found on a device
  MaxRounds      \* bounds how often the timer transmits

Devices == 1..NDevices

ASSUME DevicesAssumption ==
  /\ NDevices \in Nat
  /\ Ethernet \subseteq Devices
  /\ MaxAddresses \in Nat
  /\ MaxRounds \in Nat

VARIABLES
  at,         \* "idle"; "walk" between devices; "collect", "fill", "build"
              \* and "send" are the stages of one packet
  dev,        \* the device the walk is at
  up,         \* devices found to have a carrier in this round
  result,     \* how the last round ended: 0, or -1 and the reason it logged
  readers,    \* how often dev_base_lock is held for reading by rounds
  skb,        \* what became of each device's packet buffer in this round
  slots,      \* the size of the array of addresses, 0 when there is none
  filled,     \* how many of its slots are set
  addresses,  \* address structs in memory
  rounds

transmitVars ==
  <<at, dev, up, result, readers, skb, slots, filled, addresses, rounds>>

BufferState == {"none", "owned", "sent", "freed", "corrupt"}

TransmitTypeOK ==
  /\ at \in {"idle", "walk", "collect", "fill", "build", "send"}
  /\ dev \in 1..(NDevices + 1)
  /\ up \subseteq Devices
  /\ result \in {"ok", "noAddresses", "failed"}
  /\ readers \in 0..MaxRounds
  /\ skb \in [Devices -> BufferState]
  /\ slots \in 0..MaxAddresses
  /\ filled \in 0..slots
  /\ addresses \in Nat
  /\ rounds \in 0..MaxRounds

TransmitInit ==
  /\ at = "idle" /\ dev = 1 /\ up = {} /\ result = "ok" /\ readers = 0
  /\ skb = [d \in Devices |-> "none"]
  /\ slots = 0 /\ filled = 0 /\ addresses = 0 /\ rounds = 0

-----------------------------------------------------------------------------

\* kfree_skb, of a buffer that is still the walk's.
FreeBuffer ==
  skb' = [skb EXCEPT ![dev] = IF @ = "owned" THEN "freed" ELSE "corrupt"]

\* ip_address_array_delete frees the array and not the addresses in it.
DeleteArray == slots' = 0 /\ filled' = 0

\* The walk returns when a packet failed, with the lock held.
GiveUpFor(reason) ==
  /\ at' = "idle"
  /\ result' = reason
  /\ UNCHANGED <<dev, readers>>

GiveUp == GiveUpFor("failed")

GoOn ==
  /\ at' = "walk"
  /\ dev' = dev + 1
  /\ UNCHANGED <<result, readers>>

Proceed(stage) == at' = stage /\ UNCHANGED <<dev, result, readers>>

-----------------------------------------------------------------------------
(* cdp_transmit_packets.                                                   *)

StartRound ==
  /\ at = "idle" /\ rounds < MaxRounds
  /\ at' = "walk" /\ dev' = 1 /\ up' = {}
  /\ readers' = readers + 1
  /\ skb' = [d \in Devices |-> "none"]
  /\ rounds' = rounds + 1
  /\ UNCHANGED <<result, slots, filled, addresses>>

NoCarrier ==
  /\ at = "walk" /\ dev \in Devices
  /\ GoOn
  /\ UNCHANGED <<up, skb, slots, filled, addresses, rounds>>

\* rc is read without having been set: it may be anything.
OtherDevice ==
  /\ at = "walk" /\ dev \in Devices \ Ethernet
  /\ up' = up \union {dev}
  /\ GiveUp \/ GoOn
  /\ UNCHANGED <<skb, slots, filled, addresses, rounds>>

EndRound ==
  /\ at = "walk" /\ dev = NDevices + 1
  /\ at' = "idle"
  /\ result' = "ok"
  /\ readers' = readers - 1
  /\ UNCHANGED <<dev, up, skb, slots, filled, addresses, rounds>>

-----------------------------------------------------------------------------
(* cdp_transmit_packet.                                                    *)

AllocBuffer ==
  /\ at = "walk" /\ dev \in Ethernet
  /\ up' = up \union {dev}
  /\ \/ GiveUp /\ UNCHANGED skb
     \/ Proceed("collect") /\ skb' = [skb EXCEPT ![dev] = "owned"]
  /\ UNCHANGED <<slots, filled, addresses, rounds>>

\* The device has no addresses, or there is no memory for the array.
NoAddresses ==
  /\ at = "collect"
  /\ FreeBuffer
  /\ GiveUpFor("noAddresses") \/ GiveUp
  /\ UNCHANGED <<up, slots, filled, addresses, rounds>>

CountAddresses ==
  /\ at = "collect"
  /\ slots' \in 1..MaxAddresses
  /\ Proceed("fill")
  /\ UNCHANGED <<up, skb, filled, addresses, rounds>>

SlotFree == filled < slots

CopyAddress ==
  /\ at = "fill" /\ SlotFree
  /\ filled' = filled + 1
  /\ addresses' = addresses + 1
  /\ UNCHANGED <<at, dev, up, result, readers, skb, slots, rounds>>

\* The packet buffer is forgotten.
MutCopyFails ==
  /\ at = "fill"
  /\ DeleteArray
  /\ GiveUp
  /\ UNCHANGED <<up, skb, addresses, rounds>>

\* The list has become longer than the array, or there is no memory.
CopyFails ==
  /\ at = "fill"
  /\ DeleteArray
  /\ FreeBuffer
  /\ GiveUp
  /\ UNCHANGED <<up, addresses, rounds>>

\* The end of the list, which may have become shorter than the array.
EndCopy ==
  /\ at = "fill"
  /\ Proceed("build")
  /\ UNCHANGED <<up, skb, slots, filled, addresses, rounds>>

\* cdp_create_packet copies the addresses into the packet and deletes it again
\* whatever happens: an empty slot is copied as it is and cannot be written.
Build ==
  /\ at = "build" /\ filled = slots
  /\ DeleteArray
  /\ Proceed("send")
  /\ UNCHANGED <<up, skb, addresses, rounds>>

\* The failure is not reported.
MutBuildFails ==
  /\ at = "build"
  /\ DeleteArray
  /\ FreeBuffer
  /\ GoOn
  /\ UNCHANGED <<up, addresses, rounds>>

BuildFails ==
  /\ at = "build"
  /\ DeleteArray
  /\ FreeBuffer
  /\ GiveUp
  /\ UNCHANGED <<up, addresses, rounds>>

\* The protocol takes the buffer over, whether or not it reports a failure.
Send ==
  /\ at = "send"
  /\ skb' = [skb EXCEPT ![dev] = "sent"]
  /\ GiveUp \/ GoOn
  /\ UNCHANGED <<up, slots, filled, addresses, rounds>>

TransmitPacket ==
  \/ AllocBuffer \/ NoAddresses \/ CountAddresses \/ CopyAddress \/ CopyFails
  \/ EndCopy \/ Build \/ BuildFails \/ Send

TransmitNext ==
  StartRound \/ NoCarrier \/ OtherDevice \/ EndRound \/ TransmitPacket

TransmitSpec == TransmitInit /\ [][TransmitNext]_transmitVars

-----------------------------------------------------------------------------
(* Properties.                                                             *)

\* Whatever fails, a packet buffer is freed or handed over once and never both,
\* neither it nor the array of addresses outlives its packet, and no slot is set
\* past the end of the array, however the list of addresses has changed since it
\* was counted: the error paths of cdp_transmit_packet and of the function that
\* collects addresses.
BuffersSpent ==
  /\ \A d \in Devices : skb[d] # "corrupt"
  /\ \A d \in Devices : skb[d] = "owned" =>
       d = dev /\ at \in {"collect", "fill", "build", "send"}
  /\ at \notin {"fill", "build"} => slots = 0
  /\ filled <= slots

\* A walk that is still going, or that returned success, has sent a packet from
\* every Ethernet device behind it that had a carrier: no failure is passed over.
ServedOnSuccess ==
  at = "walk" \/ (at = "idle" /\ result = "ok") =>
    \A d \in up \cap Ethernet : d < dev => skb[d] = "sent"

-----------------------------------------------------------------------------
(* What the code says of itself and does not do.                           *)

\* "there seems to be no IP addresses on this interface. skipping"
\* (cdp_transmit.c:118): a device that is skipped does not end the round, or at
\* least not with the lock of the device list still held.
SkipReleases == at = "idle" /\ result = "noAddresses" => readers = 0
=============================================================================
