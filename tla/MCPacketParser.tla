--------------------------- MODULE MCPacketParser --------------------------
(* PacketParser on a small instance.                                       *)
EXTENDS PacketParser

\* Shorter than a header, ending within a TLV's, and long enough for the longest
\* value.
MCLengths == {3, 10, 41}

\* One type of each kind, of the scalars the one that may be out of range.
MCTlvs == {"DeviceId", "NativeVlan", "ClusterManagementProtocol",
           "PowerAvailable", "Addresses", "ODRPrefixes", "Duplex", "Unknown"}

\* None, an empty value, one prefix and a byte, more than the frame.
MCStatedLengths == {0, 4, 10, 60}
=============================================================================
