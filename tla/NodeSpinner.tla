---------------------------- MODULE NodeSpinner ----------------------------
(***************************************************************************)
(* rtt_ros2_node::Node: the spinner that executes the callbacks of a ROS   *)
(* node.  spin() replaces the executor and the thread that runs it,        *)
(* cancel() stops and joins them; the constructor ends with a spin() and   *)
(* the destructor with a cancel().  The two operations are called by one   *)
(* thread, the client, and run concurrently with the spinner threads.      *)
(*                                                                         *)
(* rclcpp's executor (external) has one flag, spinning: spin() sets it     *)
(* when the new thread gets that far, cancel() clears it, and the thread   *)
(* leaves its loop when it finds it cleared.  add_node() throws when the   *)
(* node is still associated with another executor.                         *)
(***************************************************************************)
EXTENDS Naturals

CONSTANT MaxSpins   \* bound on the calls of spin()

ASSUME MaxSpinsAssumption == MaxSpins \in Nat

VARIABLES
    executor,    \* executor_; executors are numbered from 1
    thread,      \* thread_, by the number of the executor it runs
    spinning,    \* the spinning flag of each executor
    run,         \* what the thread of each executor does
    attached,    \* the executor the node is associated with
    spins,       \* executors made so far
    pc,          \* place of the client in spin() or cancel()
    local,       \* the executor in the client's local variable
    caller       \* the operation that cancel() returns to

vars == <<executor, thread, spinning, run, attached, spins, pc, local, caller>>

-----------------------------------------------------------------------------
None      == 0
Executors == 1 .. MaxSpins

TypeOK ==
    /\ executor \in Executors \cup {None}
    /\ thread \in Executors \cup {None}
    /\ spinning \in [Executors -> BOOLEAN]
    /\ run \in [Executors -> {"none", "starting", "spinning", "ended"}]
    /\ attached \in Executors \cup {None}
    /\ spins \in 0 .. MaxSpins
    /\ pc \in {"idle", "take", "stop", "join", "add_node", "start", "store"}
    /\ local \in Executors \cup {None}
    /\ caller \in {"none", "spin", "cancel"}

\* rclcpp::Node is created; nothing spins it yet.
Init ==
    /\ executor = None
    /\ thread = None
    /\ spinning = [x \in Executors |-> FALSE]
    /\ run = [x \in Executors |-> "none"]
    /\ attached = None
    /\ spins = 0
    /\ pc = "idle"
    /\ local = None
    /\ caller = "none"

-----------------------------------------------------------------------------
(* The client.                                                             *)

\* The constructor or a script calls spin(), which begins with a cancel().
Spin ==
    /\ pc = "idle"
    /\ spins < MaxSpins
    /\ pc' = "take"
    /\ caller' = "spin"
    /\ UNCHANGED <<executor, thread, spinning, run, attached, spins, local>>

\* A script or the destructor calls cancel().
CancelCall ==
    /\ pc = "idle"
    /\ pc' = "take"
    /\ caller' = "cancel"
    /\ UNCHANGED <<executor, thread, spinning, run, attached, spins, local>>

\* Mutant of TakeExecutor: executor_ is copied, not moved.
TakeExecutorCopies ==
    /\ pc = "take"
    /\ local' = executor
    /\ pc' = IF executor # None THEN "stop" ELSE "join"
    /\ UNCHANGED <<executor, thread, spinning, run, attached, spins, caller>>

\* cancel(): const auto executor = std::move(executor_).
TakeExecutor ==
    /\ pc = "take"
    /\ local' = executor
    /\ executor' = None
    /\ pc' = IF executor # None THEN "stop" ELSE "join"
    /\ UNCHANGED <<thread, spinning, run, attached, spins, caller>>

\* Mutant of StopExecutor: the executor is not told to stop.
StopExecutorForgotten ==
    /\ pc = "stop"
    /\ pc' = "join"
    /\ UNCHANGED <<executor, thread, spinning, run, attached, spins, local,
                   caller>>

\* cancel(): executor->cancel().
StopExecutor ==
    /\ pc = "stop"
    /\ spinning' = [spinning EXCEPT ![local] = FALSE]
    /\ pc' = "join"
    /\ UNCHANGED <<executor, thread, run, attached, spins, local, caller>>

\* Mutant of Join: the thread is detached instead of joined.
JoinDetaches ==
    /\ pc = "join"
    /\ thread' = None
    /\ attached' = IF thread # None /\ run[thread] # "ended" THEN attached
                   ELSE None
    /\ local' = None
    /\ pc' = IF caller = "spin" THEN "add_node" ELSE "idle"
    /\ caller' = IF caller = "spin" THEN "spin" ELSE "none"
    /\ UNCHANGED <<executor, spinning, run, spins>>

\* cancel(): thread_.join(), if there is a thread.  On return the local
\* variable drops the last reference to the executor, whose destructor
\* releases the node.
Join ==
    /\ pc = "join"
    /\ thread # None => run[thread] = "ended"
    /\ thread' = None
    /\ attached' = IF attached = local THEN None ELSE attached
    /\ local' = None
    /\ pc' = IF caller = "spin" THEN "add_node" ELSE "idle"
    /\ caller' = IF caller = "spin" THEN "spin" ELSE "none"
    /\ UNCHANGED <<executor, spinning, run, spins>>

\* spin(): make_shared<MultiThreadedExecutor>(), add_node().
AddNode ==
    /\ pc = "add_node"
    /\ spins' = spins + 1
    /\ local' = spins'
    /\ attached' = spins'
    /\ pc' = "start"
    /\ UNCHANGED <<executor, thread, spinning, run, caller>>

\* spin(): thread_ = std::thread(...).
StartThread ==
    /\ pc = "start"
    /\ thread' = local
    /\ run' = [run EXCEPT ![local] = "starting"]
    /\ pc' = "store"
    /\ UNCHANGED <<executor, spinning, attached, spins, local, caller>>

\* spin(): executor_ = std::move(executor).
StoreExecutor ==
    /\ pc = "store"
    /\ executor' = local
    /\ local' = None
    /\ pc' = "idle"
    /\ caller' = "none"
    /\ UNCHANGED <<thread, spinning, run, attached, spins>>

-----------------------------------------------------------------------------
(* The spinner thread: executor->spin().                                   *)

ThreadBegins(x) ==
    /\ run[x] = "starting"
    /\ run' = [run EXCEPT ![x] = "spinning"]
    /\ spinning' = [spinning EXCEPT ![x] = TRUE]
    /\ UNCHANGED <<executor, thread, attached, spins, pc, local, caller>>

ThreadEnds(x) ==
    /\ run[x] = "spinning"
    /\ ~spinning[x]
    /\ run' = [run EXCEPT ![x] = "ended"]
    /\ UNCHANGED <<executor, thread, spinning, attached, spins, pc, local,
                   caller>>

-----------------------------------------------------------------------------
\* The client goes on in the operation it called.
Client ==
    \/ TakeExecutor
    \/ StopExecutor
    \/ Join
    \/ AddNode
    \/ StartThread
    \/ StoreExecutor

Next ==
    \/ Spin
    \/ CancelCall
    \/ Client
    \/ \E x \in Executors : ThreadBegins(x) \/ ThreadEnds(x)

Spec == Init /\ [][Next]_vars

\* All threads run; nobody has to call an operation.
Fairness ==
    /\ WF_vars(Client)
    /\ \A x \in Executors : WF_vars(ThreadBegins(x)) /\ WF_vars(ThreadEnds(x))

FairSpec == Spec /\ Fairness

-----------------------------------------------------------------------------
(* Properties.                                                             *)

Alive(x) == run[x] \in {"starting", "spinning"}

\* The node is executed by one executor at a time, whatever sequence of
\* spin() and cancel() is called and however slowly the threads start: only
\* the thread that thread_ names is alive, so cancel() cannot lose one.
OneSpinner == \A x \in Executors : Alive(x) => x = thread

\* spin() finds the thread joined and the node free: the assignment to
\* thread_ does not terminate the process and add_node() does not throw.
SpinIsClean == pc = "add_node" => thread = None /\ attached = None

\* Outside spin() and cancel(), executor_ and thread_ agree: with an executor
\* there is its thread, which the next cancel() can stop; without one no
\* thread runs and the node is free.
SettledWhenIdle ==
    pc = "idle" =>
        /\ thread = executor
        /\ attached = executor
        /\ executor = None => \A x \in Executors : ~Alive(x)

\* A cancel() that finds the spinner thread in its loop returns.
StopIsHeard ==
    pc = "stop" /\ run[local] = "spinning" ~> pc \notin {"stop", "join"}

\* rtt_ros2_node.cpp:89 says of cancel(): "Cancel all operations and stop the
\* spinner threads for this node".  It does not return when the spinner
\* thread sets the flag only after cancel() cleared it.
CancelReturns == pc = "take" ~> pc \in {"idle", "add_node"}

-----------------------------------------------------------------------------
(* The strengthening that makes the safety properties inductive.           *)

\* What the client knows at each place in spin() and cancel().
ClientOK ==
    /\ pc = "take" => local = None /\ thread = executor /\ attached = executor
    /\ pc \in {"stop", "join"} =>
          executor = None /\ thread = local /\ attached = local
    /\ pc = "stop" => local # None
    /\ pc = "add_node" => local = None /\ executor = None /\ spins < MaxSpins
    /\ pc = "start" => executor = None /\ thread = None
    /\ pc = "store" => executor = None /\ thread = local
    /\ pc \in {"start", "store"} => local = spins /\ local # None /\ attached = local
    /\ pc = "idle" => local = None
    /\ caller = "spin" /\ pc # "store" /\ pc # "start" => spins < MaxSpins
    /\ pc \in {"add_node", "start", "store"} => caller = "spin"

\* Executors that were not made yet have no thread.
NotYet == \A x \in Executors :
    x > spins \/ (x = spins /\ pc = "start") => run[x] = "none"

IInv ==
    /\ TypeOK
    /\ ClientOK
    /\ NotYet
    /\ OneSpinner
    /\ SpinIsClean
    /\ SettledWhenIdle

=============================================================================
