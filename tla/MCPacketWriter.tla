--------------------------- MODULE MCPacketWriter --------------------------
(* PacketWriter on a small instance.                                       *)
EXTENDS PacketWriter

\* The first device is the loopback device.
MCEthernet == {2, 3}

\* A string that fits, and one whose length is beyond Word.
MCLengths == {1, 95}
=============================================================================
