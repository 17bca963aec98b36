---------------------------- MODULE MCProcReader ---------------------------
(* ProcReader on a small instance.                                         *)
EXTENDS ProcReader, TLC

\* One frame, remembered for two seconds: it expires after one.
MCFrames == {[length |-> 5, hold |-> 2]}

Symmetry == Permutations(Neighbors) \union Permutations(Identities)
=============================================================================
