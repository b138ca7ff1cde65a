--------------------------- MODULE MCRosServices ---------------------------
(* RosServices for TLC: two types with a signature of their own, of which  *)
(* the first has a second variant that servers may dispatch to.            *)
EXTENDS RosServices, TLC

MCSignature == [x \in Callers \cup Ops |->
                  CASE x = "call" -> "default_a"
                    [] x = "op"   -> "default_b"
                    [] x = "opa"  -> "default_a"
                    [] x = "opv"  -> "void"]
MCVariants == [t \in Types |-> IF t = "a" THEN <<"default_a", "void">>
                               ELSE <<"default_b">>]
Symmetry == Permutations(Names)
=============================================================================
