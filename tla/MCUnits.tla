------------------------------- MODULE MCUnits ------------------------------
(***************************************************************************)
(* An instance of Units for TLC.                                           *)
(***************************************************************************)
EXTENDS Units

MCHextets == 0..2

\* All strings of at most four characters.
MCSources == UNION {[1..n -> Character] : n \in 0..4}

MCBefore == 0..3
=============================================================================
