--------------------------- MODULE MCNeighborList --------------------------
(* NeighborList on a small instance.                                       *)
EXTENDS NeighborList, TLC

\* A frame that asks for two seconds.
OneFrame == {[length |-> 5, hold |-> 2]}

\* With it, a runt without a hold time, and a frame with no payload at all.
ShortFrames ==
  OneFrame \union {[length |-> 1, hold |-> 0], [length |-> 0, hold |-> 0]}

Symmetry == Permutations(Neighbors) \union Permutations(Identities)
=============================================================================
