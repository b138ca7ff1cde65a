------------------------------ MODULE GoalSlots ------------------------------
(***************************************************************************)
(* What SimpleActionServer promises about its goals, seen from outside:    *)
(* every goal goes once, and only forwards, through                        *)
(*                                                                         *)
(*     new -> waiting -> pending -> active -> done                         *)
(*                                                                         *)
(* and may leave early from anywhere; a goal that becomes pending pushes   *)
(* out the one that was, and a goal becomes active only when none is.      *)
(* This is the contract of the ROS 1 simple action server, which the class *)
(* emulates on top of the state machine of rclcpp_action.                  *)
(***************************************************************************)
CONSTANT Goals

VARIABLE phase

Phases == {"new", "waiting", "pending", "active", "done"}

In(p) == {g \in Goals : phase[g] = p}

Init == phase = [g \in Goals |-> "new"]

\* The server accepts the goal of a client and defers it.
Receive(g) ==
    /\ phase[g] = "new"
    /\ phase' = [phase EXCEPT ![g] = "waiting"]

\* The owner thread stores the goal in the pending slot.
Defer(g) ==
    /\ phase[g] = "waiting"
    /\ phase' = [h \in Goals |-> IF h = g THEN "pending"
                                 ELSE IF h \in In("pending") THEN "done"
                                 ELSE phase[h]]

\* The component accepts the pending goal.
Activate(g) ==
    /\ phase[g] = "pending"
    /\ In("active") = {}
    /\ phase' = [phase EXCEPT ![g] = "active"]

\* Goals are finished, rejected, canceled or dropped.
Leave(S) ==
    /\ S # {}
    /\ S \cap (In("new") \cup In("done")) = {}
    /\ phase' = [g \in Goals |-> IF g \in S THEN "done" ELSE phase[g]]

Next ==
    \/ \E g \in Goals : Receive(g) \/ Defer(g) \/ Activate(g)
    \/ \E S \in SUBSET Goals : Leave(S)

Spec == Init /\ [][Next]_phase
=============================================================================
