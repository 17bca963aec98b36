----------------------------- MODULE MCTransmit ----------------------------
(* Transmit on a small instance.                                           *)
EXTENDS Transmit

\* The first device is the loopback device.
MCEthernet == {2, 3}
=============================================================================
