---------------------------- MODULE MCCdpModule ----------------------------
(* CdpModule on a small instance.                                          *)
EXTENDS CdpModule, TLC

\* One frame that can be parsed and one that cannot be to its end, remembered for
\* two seconds: they expire after one.
PlainFrame == [length |-> 5, hold |-> 2]
EndlessFrame == [length |-> 8, hold |-> 2]

MCFrames == {PlainFrame, EndlessFrame}
MCEndless == {EndlessFrame}

Symmetry == Permutations(Cpus) \union Permutations(Neighbors)
=============================================================================
