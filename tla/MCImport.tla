------------------------------ MODULE MCImport ------------------------------
(* Import for TLC: packages are numbered so that a package depends only on *)
(* packages with a higher number; rtt_ros2 is the last of them.            *)
EXTENDS Import

MCOrders(S) == {s \in UNION {[1 .. k -> S] : k \in 0 .. Cardinality(S)} :
                  \A i, j \in DOMAIN s : s[i] = s[j] => i = j}

\* All lists of dependencies without cycles, in any order.  Package 1 depends
\* on rtt_ros2 through the others only.
MCGraphs == {[p \in 1 .. 4 |-> IF p < 4 THEN <<a, b, c>>[p] ELSE <<>>] :
               a \in MCOrders({2, 3}), b \in MCOrders({3, 4}), c \in MCOrders({4})}
MCPrefix == [p \in Packages |-> IF p = 2 THEN "overlay" ELSE "base"]
MCPath   == <<"orocos">>
=============================================================================
