--------------------------- MODULE MCRosPublisher ---------------------------
(* Instances of RosPublisher for TLC.                                      *)
EXTENDS RosPublisher, TLC

Symmetry == Permutations(Spinners)
=============================================================================
