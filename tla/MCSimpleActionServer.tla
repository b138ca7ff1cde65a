------------------------ MODULE MCSimpleActionServer ------------------------
(* Instances of SimpleActionServer for TLC.                                *)
EXTENDS SimpleActionServer, TLC

Symmetry == Permutations(Goals)
=============================================================================
