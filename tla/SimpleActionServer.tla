------------------------- MODULE SimpleActionServer -------------------------
(***************************************************************************)
(* The goal slots of rtt_ros2_actions::SimpleActionServer on top of        *)
(* RTTActionServer and rclcpp_action.                                      *)
(*                                                                         *)
(* Three kinds of threads meet here:                                       *)
(*   - the ROS executor thread (variable ros), which runs the goal, cancel *)
(*     and accepted handlers of rclcpp_action one at a time (the action    *)
(*     server is a waitable of the node's mutually exclusive group);       *)
(*   - the thread of the owner component (variable owner), which executes  *)
(*     the OwnThread operations sent to its engine (variable queue) and    *)
(*     the user hooks they call;                                           *)
(*   - any thread, the owner included, that calls the public API.          *)
(*                                                                         *)
(* goal_active_ and goal_pending_ are protected by mutex_.  The states of  *)
(* the goal handles are not: rclcpp_action makes a goal CANCELING in the   *)
(* ROS thread after cancelCallback() released the mutex.  A locked region  *)
(* is therefore split wherever it reads or changes the state of a goal     *)
(* after an earlier read; variable lock says who is where in it.           *)
(***************************************************************************)
EXTENDS Naturals, Sequences

CONSTANTS
    Goals,        \* goals the clients may send
    NoGoal,       \* the null GoalHandleSharedPtr
    Callers,      \* threads other than the owner's that use the API
    Owner,        \* the thread of the owner component
    QueueSize,    \* capacity of the owner engine's message queue
    MaxShutdowns  \* bound on the calls of shutdown()

ASSUME NoGoalAssumption  == NoGoal \notin Goals
ASSUME OwnerAssumption   == Owner \notin Callers
ASSUME BoundsAssumption  == QueueSize \in Nat /\ MaxShutdowns \in Nat

VARIABLES
    goalState,    \* state of each goal, as rclcpp_action keeps it
    connected,    \* RTTActionServer::server_ is set
    goal_active,  \* goal_active_
    goal_pending, \* goal_pending_
    hooks,        \* which of the two hooks are set
    queue,        \* messages of the owner's ExecutionEngine
    ros,          \* handler the ROS thread is in
    owner,        \* operation the owner thread is in
    lock,         \* holder of mutex_ and its place in the locked region
    shutdowns,    \* calls of shutdown() so far
    requested,    \* history: goals whose cancelCallback() answered ACCEPT
    dropped,      \* history: goals lost by shutdown() or by a full queue
    unheard       \* history: goals whose cancel message a full queue refused

vars == <<goalState, connected, goal_active, goal_pending, hooks, queue, ros,
          owner, lock, shutdowns, requested, dropped, unheard>>

-----------------------------------------------------------------------------
Threads == Callers \cup {Owner}

\* States of rclcpp_action's goal state machine ("NEW": not sent yet).
Deferred == {"ACCEPTED", "CANCELING"}
Running  == {"EXECUTING", "CANCELING"}
Live     == Deferred \cup Running
Terminal == {"SUCCEEDED", "ABORTED", "CANCELED"}
States   == {"NEW"} \cup Live \cup Terminal

Handles  == Goals \cup {NoGoal}
Messages == [op : {"acceptedCallback", "cancelHandler"}, gh : Goals]

RosIdle   == [at |-> "idle", gh |-> NoGoal]
OwnerIdle == [at |-> "idle", op |-> "none", gh |-> NoGoal]
Unlocked  == [at |-> "free", op |-> "none", gh |-> NoGoal, by |-> Owner]

TypeOK ==
    /\ goalState \in [Goals -> States]
    /\ connected \in BOOLEAN
    /\ goal_active \in Handles
    /\ goal_pending \in Handles
    /\ hooks \in SUBSET {"goal", "cancel"}
    /\ queue \in Seq(Messages)
    /\ Len(queue) =< QueueSize
    /\ ros \in [at : {"idle", "accepted", "cancelCallback", "cancelGoal"},
               gh : Handles]
    /\ ros.at = "idle" <=> ros.gh = NoGoal
    /\ owner \in [at : {"idle", "start", "hook", "after"},
                 op : {"none", "acceptedCallback", "cancelHandler"},
                 gh : Handles]
    /\ owner.at = "idle" <=> owner.gh = NoGoal
    /\ owner.at = "idle" <=> owner.op = "none"
    /\ lock \in [at : {"free", "finish", "abort", "execute", "terminate",
                      "terminate_execute", "terminate_abort"},
                op : {"none", "acceptPending", "finishActive", "rejectPending",
                      "acceptedCallback", "cancelHandler"},
                gh : Handles, by : Threads]
    /\ lock.at = "free" <=> lock = Unlocked
    /\ lock.at = "free" <=> lock.gh = NoGoal
    /\ lock.at = "free" <=> lock.op = "none"
    /\ shutdowns \in 0 .. MaxShutdowns
    /\ requested \in SUBSET Goals
    /\ dropped \in SUBSET Goals
    /\ unheard \in SUBSET Goals

Init ==
    /\ goalState = [g \in Goals |-> "NEW"]
    /\ connected = FALSE
    /\ goal_active = NoGoal
    /\ goal_pending = NoGoal
    /\ hooks = {}
    /\ queue = <<>>
    /\ ros = RosIdle
    /\ owner = OwnerIdle
    /\ lock = Unlocked
    /\ shutdowns = 0
    /\ requested = {}
    /\ dropped = {}
    /\ unheard = {}

-----------------------------------------------------------------------------
(* Goal handles.  rclcpp_action keeps weak references only, so a handle    *)
(* lives as long as a slot, a message or a local variable holds it.        *)

Held(g) ==
    \/ g = goal_active
    \/ g = goal_pending
    \/ \E i \in DOMAIN queue : queue[i].gh = g
    \/ g = ros.gh
    \/ g = owner.gh
    \/ g = lock.gh

\* The new goal states gs, completed by what ~ServerGoalHandle does with a
\* live goal whose last reference this step drops: it is canceled.
Settle(gs) ==
    goalState' = [g \in Goals |->
                    IF gs[g] \in Live /\ ~Held(g)' THEN "CANCELED" ELSE gs[g]]

With(g, s) == [goalState EXCEPT ![g] = s]

\* Mutant of Send: the queue has no limit.
SendUnbounded(op, g) == queue' = Append(queue, [op |-> op, gh |-> g])

\* OperationCaller::send(): a full queue refuses the message.
Send(op, g) ==
    queue' = IF Len(queue) < QueueSize
               THEN Append(queue, [op |-> op, gh |-> g])
               ELSE queue

\* pendingGoalHandle() is not null: the goal in the slot is still deferred.
isPending == goal_pending # NoGoal /\ goalState[goal_pending] = "ACCEPTED"

-----------------------------------------------------------------------------
(* The ROS executor thread: RTTActionServer::handle*().                    *)

\* handleGoal() -> goalCallback(): ACCEPT_AND_DEFER.  rclcpp_action answers
\* the client and makes a handle for the goal.
HandleGoal(g) ==
    /\ ros = RosIdle
    /\ connected
    /\ goalState[g] = "NEW"
    /\ ros' = [at |-> "accepted", gh |-> g]
    /\ goalState' = With(g, "ACCEPTED")
    /\ UNCHANGED <<connected, goal_active, goal_pending, hooks, queue, owner,
                   lock, shutdowns, requested, dropped, unheard>>

\* handleAccepted(): accepted_operation_.send(goal_handle).
HandleAccepted ==
    /\ ros.at = "accepted"
    /\ Send("acceptedCallback", ros.gh)
    /\ ros' = RosIdle
    /\ dropped' = IF Len(queue) < QueueSize THEN dropped
                                            ELSE dropped \cup {ros.gh}
    /\ UNCHANGED <<connected, goal_active, goal_pending, hooks, owner, lock,
                   shutdowns, requested, unheard>>
    /\ Settle(goalState)

\* A cancel request for a goal that rclcpp_action finds cancelable.
CancelRequest(g) ==
    /\ ros = RosIdle
    /\ connected
    /\ goalState[g] \in {"ACCEPTED", "EXECUTING"}
    /\ ros' = [at |-> "cancelCallback", gh |-> g]
    /\ UNCHANGED <<goalState, connected, goal_active, goal_pending, hooks,
                   queue, owner, lock, shutdowns, requested, dropped, unheard>>

\* handleCancel() -> cancelCallback(): under mutex_, forward the request for
\* a goal in a slot to the owner thread and ACCEPT; REJECT any other.  The
\* result of send() is not looked at: the answer is ACCEPT although a full
\* queue refuses the message.
CancelCallback ==
    /\ ros.at = "cancelCallback"
    /\ lock = Unlocked
    /\ \/ /\ ros.gh \in {goal_active, goal_pending}
          /\ Send("cancelHandler", ros.gh)
          /\ ros' = [at |-> "cancelGoal", gh |-> ros.gh]
          /\ requested' = requested \cup {ros.gh}
          /\ unheard' = IF Len(queue) < QueueSize THEN unheard
                                                  ELSE unheard \cup {ros.gh}
       \/ /\ ros.gh \notin {goal_active, goal_pending}
          /\ ros' = RosIdle
          /\ UNCHANGED <<queue, requested, unheard>>
    /\ UNCHANGED <<connected, goal_active, goal_pending, hooks, owner, lock,
                   shutdowns, dropped>>
    /\ Settle(goalState)

\* After ACCEPT, rclcpp_action moves the goal to CANCELING, outside mutex_;
\* the client is told REJECT when the goal is no longer cancelable.
CancelGoal ==
    /\ ros.at = "cancelGoal"
    /\ ros' = RosIdle
    /\ UNCHANGED <<connected, goal_active, goal_pending, hooks, queue, owner,
                   lock, shutdowns, requested, dropped, unheard>>
    /\ Settle(IF goalState[ros.gh] \in {"ACCEPTED", "EXECUTING"}
                THEN With(ros.gh, "CANCELING")
                ELSE goalState)

-----------------------------------------------------------------------------
(* The public API.  A thread that waits for mutex_ has not called yet.     *)

CanCall(t) ==
    /\ lock = Unlocked
    /\ t = Owner => owner.at \in {"idle", "hook"}

Acquire(t, op, at, g) ==
    lock' = [at |-> at, op |-> op, gh |-> g, by |-> t]

\* start(): takes no lock; a failed connect() leaves the server as it was.
Start(t) ==
    /\ lock # Unlocked => lock.by # t
    /\ t = Owner => owner.at \in {"idle", "hook"}
    /\ ~connected
    /\ connected' = TRUE
    /\ UNCHANGED <<goalState, goal_active, goal_pending, hooks, queue, ros,
                   owner, lock, shutdowns, requested, dropped, unheard>>

\* shutdown(): both slots are reset, then the ROS server is destroyed.
Shutdown(t) ==
    /\ CanCall(t)
    /\ shutdowns < MaxShutdowns
    /\ shutdowns' = shutdowns + 1
    /\ dropped' = dropped \cup ({goal_active, goal_pending} \ {NoGoal})
    /\ goal_active' = NoGoal
    /\ goal_pending' = NoGoal
    /\ connected' = FALSE
    /\ UNCHANGED <<hooks, queue, ros, owner, lock, requested, unheard>>
    /\ Settle(goalState)

\* setGoalHook(), setCancelHook(): a hook is set or, with nullptr, removed.
SetHook(t, h) ==
    /\ CanCall(t)
    /\ hooks' = IF h \in hooks THEN hooks \ {h} ELSE hooks \cup {h}
    /\ UNCHANGED <<goalState, connected, goal_active, goal_pending, queue, ros,
                   owner, lock, shutdowns, requested, dropped, unheard>>

\* Mutant of AcceptPending: the active goal is not finished first.
AcceptPendingUnfinished(t) ==
    /\ CanCall(t)
    /\ isPending
    /\ Acquire(t, "acceptPending", "execute", goal_pending)
    /\ UNCHANGED <<goalState, connected, goal_active, goal_pending, hooks,
                   queue, ros, owner, shutdowns, requested, dropped, unheard>>

\* acceptPending() up to finishActive().
AcceptPending(t) ==
    /\ CanCall(t)
    /\ isPending
    /\ Acquire(t, "acceptPending",
               IF goal_active = NoGoal THEN "execute" ELSE "finish",
               goal_pending)
    /\ UNCHANGED <<goalState, connected, goal_active, goal_pending, hooks,
                   queue, ros, owner, shutdowns, requested, dropped, unheard>>

\* rejectPending() up to terminateGoal().
RejectPending(t) ==
    /\ CanCall(t)
    /\ isPending
    /\ Acquire(t, "rejectPending", "terminate", goal_pending)
    /\ UNCHANGED <<goalState, connected, goal_active, goal_pending, hooks,
                   queue, ros, owner, shutdowns, requested, dropped, unheard>>

\* abortActive() and cancelActive() up to finishActive(): prefer_canceled
\* only chooses a log message.
FinishActive(t) ==
    /\ CanCall(t)
    /\ goal_active # NoGoal
    /\ Acquire(t, "finishActive", "finish", goal_active)
    /\ UNCHANGED <<goalState, connected, goal_active, goal_pending, hooks,
                   queue, ros, owner, shutdowns, requested, dropped, unheard>>

\* succeedActive(): legal from EXECUTING and from CANCELING, so a cancel
\* that lands between the test and succeed() changes nothing.
SucceedActive(t) ==
    /\ CanCall(t)
    /\ goal_active # NoGoal
    /\ goalState[goal_active] \in Running
    /\ goal_active' = NoGoal
    /\ UNCHANGED <<connected, goal_pending, hooks, queue, ros, owner, lock,
                   shutdowns, requested, dropped, unheard>>
    /\ Settle(With(goal_active, "SUCCEEDED"))

-----------------------------------------------------------------------------
(* Inside mutex_: finishActive(), execute(), terminateGoal().              *)

LockAt(place)  == [at |-> place, op |-> lock.op, gh |-> lock.gh, by |-> lock.by]
OwnerAt(place) == [at |-> place, op |-> owner.op, gh |-> owner.gh]

\* finishActive() returns into its caller.
AfterFinish ==
    /\ lock' = IF lock.op = "acceptPending" THEN LockAt("execute")
                                            ELSE Unlocked
    /\ owner' = IF lock.op = "cancelHandler" THEN OwnerIdle ELSE owner

\* The test of is_canceling() and, if it holds, canceled().  A goal in any
\* other state than EXECUTING leaves the slot as it is.
FinishTest ==
    /\ lock.at = "finish"
    /\ UNCHANGED <<connected, goal_pending, hooks, queue, ros, shutdowns,
                   requested, dropped, unheard>>
    /\ \/ /\ goalState[goal_active] = "EXECUTING"
          /\ lock' = LockAt("abort")
          /\ UNCHANGED <<goalState, goal_active, owner>>
       \/ /\ goalState[goal_active] # "EXECUTING"
          /\ goal_active' = NoGoal
          /\ AfterFinish
          /\ Settle(IF goalState[goal_active] = "CANCELING"
                      THEN With(goal_active, "CANCELED")
                      ELSE goalState)

\* abort(), legal from EXECUTING and from CANCELING; the slot is reset also
\* when it throws.
FinishAbort ==
    /\ lock.at = "abort"
    /\ goal_active' = NoGoal
    /\ AfterFinish
    /\ UNCHANGED <<connected, goal_pending, hooks, queue, ros, shutdowns,
                   requested, dropped, unheard>>
    /\ Settle(IF goalState[goal_active] \in Running
                THEN With(goal_active, "ABORTED")
                ELSE goalState)

\* acceptPending() after finishActive(): execute() throws unless the goal is
\* ACCEPTED, and then the pending slot is reset and nothing is active.
ExecutePending ==
    /\ lock.at = "execute"
    /\ goal_pending' = NoGoal
    /\ lock' = Unlocked
    /\ UNCHANGED <<connected, hooks, queue, ros, owner, shutdowns, requested,
                   dropped, unheard>>
    /\ \/ /\ goalState[lock.gh] = "ACCEPTED"
          /\ goal_active' = lock.gh
          /\ Settle(With(lock.gh, "EXECUTING"))
       \/ /\ goalState[lock.gh] # "ACCEPTED"
          /\ UNCHANGED goal_active
          /\ Settle(goalState)

\* Mutant of AfterTerminate: goal_pending_.reset() is forgotten.
AfterTerminateNoReset ==
    /\ lock' = Unlocked
    /\ goal_pending' = IF lock.op = "acceptedCallback" THEN owner.gh
                                                       ELSE goal_pending
    /\ owner' = IF lock.op = "rejectPending" THEN owner
               ELSE IF lock.op = "acceptedCallback" /\ "goal" \in hooks
                 THEN OwnerAt("hook")
               ELSE OwnerIdle

\* Mutant of AfterTerminate: the old goal stays in the slot for the hook.
AfterTerminateKeepsOld ==
    /\ lock' = Unlocked
    /\ goal_pending' = IF lock.op = "acceptedCallback" THEN lock.gh ELSE NoGoal
    /\ owner' = IF lock.op = "rejectPending" THEN owner
               ELSE IF lock.op = "acceptedCallback" /\ "goal" \in hooks
                 THEN OwnerAt("hook")
               ELSE OwnerIdle

\* terminateGoal() returns into rejectPending(), acceptedCallback() or
\* cancelHandler(): what they do up to the release of mutex_.
AfterTerminate ==
    /\ lock' = Unlocked
    /\ goal_pending' = IF lock.op = "acceptedCallback" THEN owner.gh ELSE NoGoal
    /\ owner' = IF lock.op = "rejectPending" THEN owner
               ELSE IF lock.op = "acceptedCallback" /\ "goal" \in hooks
                 THEN OwnerAt("hook")
               ELSE OwnerIdle

\* terminateGoal(): the test of is_canceling() and canceled().
TerminateTest ==
    /\ lock.at = "terminate"
    /\ UNCHANGED <<connected, goal_active, hooks, queue, ros, shutdowns,
                   requested, dropped, unheard>>
    /\ \/ /\ goalState[lock.gh] = "CANCELING"
          /\ AfterTerminate
          /\ Settle(With(lock.gh, "CANCELED"))
       \/ /\ goalState[lock.gh] # "CANCELING"
          /\ lock' = LockAt("terminate_execute")
          /\ UNCHANGED <<goalState, goal_pending, owner>>

\* terminateGoal(): execute(), which throws when the goal became CANCELING
\* after the test.
TerminateExecute ==
    /\ lock.at = "terminate_execute"
    /\ UNCHANGED <<connected, goal_active, hooks, queue, ros, shutdowns,
                   requested, dropped, unheard>>
    /\ \/ /\ goalState[lock.gh] = "ACCEPTED"
          /\ lock' = LockAt("terminate_abort")
          /\ goalState' = With(lock.gh, "EXECUTING")
          /\ UNCHANGED <<goal_pending, owner>>
       \/ /\ goalState[lock.gh] # "ACCEPTED"
          /\ AfterTerminate
          /\ Settle(goalState)

\* terminateGoal(): abort().
TerminateAbort ==
    /\ lock.at = "terminate_abort"
    /\ AfterTerminate
    /\ UNCHANGED <<connected, goal_active, hooks, queue, ros, shutdowns,
                   requested, dropped, unheard>>
    /\ Settle(IF goalState[lock.gh] \in Running
                THEN With(lock.gh, "ABORTED")
                ELSE goalState)

-----------------------------------------------------------------------------
(* The thread of the owner component.                                      *)

OwnerFree == lock = Unlocked \/ lock.by # Owner

\* Mutant of ExecuteMessage: messages wait while a goal is active.
ExecuteMessageIdle ==
    /\ goal_active = NoGoal
    /\ owner = OwnerIdle
    /\ OwnerFree
    /\ queue # <<>>
    /\ owner' = [at |-> "start", op |-> Head(queue).op, gh |-> Head(queue).gh]
    /\ queue' = Tail(queue)
    /\ UNCHANGED <<goalState, connected, goal_active, goal_pending, hooks, ros,
                   lock, shutdowns, requested, dropped, unheard>>

\* The engine takes the next message.
ExecuteMessage ==
    /\ owner = OwnerIdle
    /\ OwnerFree
    /\ queue # <<>>
    /\ owner' = [at |-> "start", op |-> Head(queue).op, gh |-> Head(queue).gh]
    /\ queue' = Tail(queue)
    /\ UNCHANGED <<goalState, connected, goal_active, goal_pending, hooks, ros,
                   lock, shutdowns, requested, dropped, unheard>>

\* Mutant of AcceptedCallback: the old pending goal is not terminated.
AcceptedCallbackOverwrites ==
    /\ owner.at = "start"
    /\ owner.op = "acceptedCallback"
    /\ lock = Unlocked
    /\ goal_pending' = owner.gh
    /\ owner' = IF "goal" \in hooks THEN OwnerAt("hook") ELSE OwnerIdle
    /\ UNCHANGED <<connected, goal_active, hooks, queue, ros, lock, shutdowns,
                   requested, dropped, unheard>>
    /\ Settle(goalState)

\* acceptedCallback(): a deferred goal in the pending slot is terminated
\* first; the new goal takes the slot and, unlocked, the goal hook runs.
AcceptedCallback ==
    /\ owner.at = "start"
    /\ owner.op = "acceptedCallback"
    /\ lock = Unlocked
    /\ UNCHANGED <<connected, goal_active, hooks, queue, ros, shutdowns,
                   requested, dropped, unheard>>
    /\ \/ /\ isPending
          /\ Acquire(Owner, "acceptedCallback", "terminate", goal_pending)
          /\ UNCHANGED <<goalState, goal_pending, owner>>
       \/ /\ ~isPending
          /\ goal_pending' = owner.gh
          /\ owner' = IF "goal" \in hooks THEN OwnerAt("hook") ELSE OwnerIdle
          /\ UNCHANGED lock
          /\ Settle(goalState)

\* cancelHandler() up to the hook: the active goal goes to the hook, the
\* pending one is terminated, any other was finished or replaced before.
CancelHandler ==
    /\ owner.at = "start"
    /\ owner.op = "cancelHandler"
    /\ lock = Unlocked
    /\ UNCHANGED <<connected, goal_active, goal_pending, hooks, queue, ros,
                   shutdowns, requested, dropped, unheard>>
    /\ \/ /\ owner.gh = goal_active
          /\ owner' = OwnerAt(IF "cancel" \in hooks THEN "hook" ELSE "after")
          /\ UNCHANGED <<goalState, lock>>
       \/ /\ owner.gh # goal_active
          /\ owner.gh = goal_pending
          /\ Acquire(Owner, "cancelHandler", "terminate", goal_pending)
          /\ UNCHANGED <<goalState, owner>>
       \/ /\ owner.gh \notin {goal_active, goal_pending}
          /\ owner' = OwnerIdle
          /\ UNCHANGED lock
          /\ Settle(goalState)

\* The user hook returns.
HookReturns ==
    /\ owner.at = "hook"
    /\ OwnerFree
    /\ owner' = IF owner.op = "cancelHandler" THEN OwnerAt("after")
                                              ELSE OwnerIdle
    /\ UNCHANGED <<connected, goal_active, goal_pending, hooks, queue, ros,
                   lock, shutdowns, requested, dropped, unheard>>
    /\ Settle(goalState)

\* Mutant of CancelFinish: the cancel hook is trusted to finish the goal.
CancelFinishTrusts ==
    /\ owner.at = "after"
    /\ lock = Unlocked
    /\ owner' = OwnerIdle
    /\ UNCHANGED <<connected, goal_active, goal_pending, hooks, queue, ros,
                   lock, shutdowns, requested, dropped, unheard>>
    /\ Settle(goalState)

\* cancelHandler() after the hook: finish the goal unless the hook did.
CancelFinish ==
    /\ owner.at = "after"
    /\ lock = Unlocked
    /\ UNCHANGED <<connected, goal_active, goal_pending, hooks, queue, ros,
                   shutdowns, requested, dropped, unheard>>
    /\ \/ /\ owner.gh = goal_active
          /\ Acquire(Owner, "cancelHandler", "finish", goal_active)
          /\ UNCHANGED <<goalState, owner>>
       \/ /\ owner.gh # goal_active
          /\ owner' = OwnerIdle
          /\ UNCHANGED lock
          /\ Settle(goalState)

-----------------------------------------------------------------------------
Ros ==
    \/ \E g \in Goals : HandleGoal(g) \/ CancelRequest(g)
    \/ HandleAccepted
    \/ CancelCallback
    \/ CancelGoal

Api(t) ==
    \/ Start(t)
    \/ Shutdown(t)
    \/ \E h \in {"goal", "cancel"} : SetHook(t, h)
    \/ AcceptPending(t)
    \/ RejectPending(t)
    \/ FinishActive(t)
    \/ SucceedActive(t)

Locked ==
    \/ FinishTest
    \/ FinishAbort
    \/ ExecutePending
    \/ TerminateTest
    \/ TerminateExecute
    \/ TerminateAbort

OwnerStep ==
    \/ ExecuteMessage
    \/ AcceptedCallback
    \/ CancelHandler
    \/ HookReturns
    \/ CancelFinish

Next ==
    \/ Ros
    \/ \E t \in Threads : Api(t)
    \/ Locked
    \/ OwnerStep

Spec == Init /\ [][Next]_vars

\* Threads that are in the middle of something go on: the ROS thread
\* finishes the handler it is in, the holder of mutex_ reaches its release,
\* the owner's Activity keeps executing messages and user hooks return.
\* Nothing obliges clients to send requests or components to call the API.
Fairness ==
    /\ WF_vars(HandleAccepted)
    /\ WF_vars(CancelCallback)
    /\ WF_vars(CancelGoal)
    /\ WF_vars(Locked)
    /\ WF_vars(OwnerStep)

FairSpec == Spec /\ Fairness

-----------------------------------------------------------------------------
(* Properties.                                                             *)

\* The owner thread is at the beginning of acceptedCallback().
AtAccepted == owner.at = "start" /\ owner.op = "acceptedCallback"

\* Goals sent to the owner thread whose acceptedCallback() has not run yet.
Waiting ==
    {g \in Goals :
        \/ ros.at = "accepted" /\ ros.gh = g
        \/ \E i \in DOMAIN queue :
              queue[i].op = "acceptedCallback" /\ queue[i].gh = g
        \/ AtAccepted /\ owner.gh = g}

\* Whatever the client, the owner and the other threads do, the slots agree
\* with the states of the goals: the active goal is EXECUTING or CANCELING,
\* so finishActive() and succeedActive() never throw; the pending goal is
\* still deferred unless terminateGoal() is at work on it; no goal is in both
\* slots; and a goal still on its way to acceptedCallback() is in neither and
\* untouched.
SlotsMatchStates ==
    /\ goal_active # NoGoal => goalState[goal_active] \in Running
    /\ goal_pending # NoGoal =>
          \/ goalState[goal_pending] \in Deferred
          \/ lock.at = "terminate_abort" /\ lock.gh = goal_pending
    /\ goal_active # NoGoal => goal_active # goal_pending
    /\ \A g \in Waiting :
          goalState[g] = "ACCEPTED" /\ g \notin {goal_active, goal_pending}

\* At most one goal executes: a goal is EXECUTING only as the active goal, in
\* the moment terminateGoal() passes through execute() to abort(), or after
\* shutdown() took it out of its slot while a cancel request still held it.
ExecutingIsActive ==
    \A g \in Goals : goalState[g] = "EXECUTING" =>
        \/ g = goal_active
        \/ lock.at = "terminate_abort" /\ lock.gh = g
        \/ g \in dropped

\* No goal is canceled behind the client's back: CANCELING and CANCELED have
\* a cause, a cancel request the server accepted, a shutdown() or a message
\* lost on a full queue.  In particular no handle is let go of while its goal
\* is live in any other way, as ~ServerGoalHandle would cancel it.
CanceledHasCause ==
    \A g \in Goals :
        goalState[g] \in {"CANCELING", "CANCELED"} => g \in requested \cup dropped

\* While the goal hook runs for a goal, the pending slot holds that goal or
\* nothing, whatever other threads do: only the owner thread fills the slot.
HookSeesItsGoal ==
    owner.at = "hook" /\ owner.op = "acceptedCallback" =>
        goal_pending \in {owner.gh, NoGoal}

\* The owner thread has the cancel request for g before it.
CancelUnderway(g) ==
    \/ \E i \in DOMAIN queue :
          queue[i].op = "cancelHandler" /\ queue[i].gh = g
    \/ owner.op = "cancelHandler" /\ owner.gh = g

\* As long as a goal whose cancel request was answered ACCEPT is in a slot,
\* cancelHandler() for it is still to come or at work: it is never done with
\* a goal that it leaves in its slot, whatever the hook, other API calls, new
\* goals and a late change to CANCELING do.  The exception is a request
\* whose message the full queue of the engine refused.
CancelIsHandled ==
    \A g \in Goals :
        g \in requested \ unheard /\ g \in {goal_active, goal_pending} =>
            CancelUnderway(g)

\* A goal that the client was told is being canceled ends, whether it was
\* active, pending, replaced by a new goal or raced by other API calls,
\* unless the queue of the owner's engine was full when the request came.
CancelTerminates ==
    \A g \in Goals :
        goalState[g] = "CANCELING" ~> (goalState[g] \in Terminal \/ g \in unheard)

\* rtt_ros2_actions/README.md:41: "when the client cancels the active goal the
\* cancel hook fires and the goal is finished as CANCELED".  When the queue is
\* full the answer is ACCEPT, and nothing finishes the goal.
CanceledGoalIsFinished ==
    \A g \in Goals :
        (goalState[g] = "CANCELING" /\ g = goal_active) ~> goalState[g] \in Terminal

\* Every goal the server took reaches the pending slot or ends.
GoalIsDeferred ==
    \A g \in Goals :
        g \in Waiting ~> (g = goal_pending \/ goalState[g] \in Terminal)

\* rtt_ros2_actions/.../simple_action_server.hpp:507 says of cancelHandler():
\* "the goal is in the CANCELING state".  The owner thread can be there first.
CancelHandlerSeesCanceling ==
    owner.at = "start" /\ owner.op = "cancelHandler" /\ lock = Unlocked
      /\ owner.gh \in {goal_active, goal_pending}
    => goalState[owner.gh] = "CANCELING"

-----------------------------------------------------------------------------
(* What a client may rely on: the abstract specification of the slots.     *)

phaseOf ==
    [g \in Goals |->
        IF goalState[g] = "NEW" THEN "new"
        ELSE IF g \in Waiting THEN "waiting"
        ELSE IF g = goal_pending THEN "pending"
        ELSE IF g = goal_active THEN "active"
        ELSE "done"]

Slots == INSTANCE GoalSlots WITH phase <- phaseOf

\* The server implements GoalSlots: no interleaving of ROS callbacks, owner
\* messages and API calls ever moves a goal backwards, activates a goal that
\* was not pending, has two goals in one slot or brings back one that left.
RefinesSlots == Slots!Spec

-----------------------------------------------------------------------------
(* The strengthening that makes the safety properties inductive.           *)

\* Where the holder of mutex_ is, and what it has established on the way.
LockOK ==
    /\ lock.at \in {"finish", "abort"} =>
          /\ goal_active # NoGoal
          /\ lock.op \in {"acceptPending", "finishActive", "cancelHandler"}
          /\ lock.op = "cancelHandler" => owner.at = "after"
    /\ lock.at = "execute" => lock.op = "acceptPending" /\ goal_active = NoGoal
    /\ lock.at \in {"terminate", "terminate_execute", "terminate_abort"} =>
          /\ lock.gh = goal_pending
          /\ lock.op \in {"rejectPending", "acceptedCallback", "cancelHandler"}
          /\ lock.op = "cancelHandler" => owner.at = "start"
    /\ lock.at = "terminate_abort" => goalState[lock.gh] \in Running
    /\ lock.op = "acceptPending" =>
          /\ lock.gh = goal_pending
          /\ goalState[lock.gh] \in Deferred
    /\ lock.op = "acceptedCallback" =>
          owner.op = "acceptedCallback" /\ owner.at = "start"
    /\ lock.op = "cancelHandler" => owner.op = "cancelHandler"
    /\ owner.at = "after" => owner.op = "cancelHandler"

\* A goal waits for acceptedCallback() in one place only.
WaitsOnce ==
    /\ \A i, j \in DOMAIN queue :
          /\ queue[i].op = "acceptedCallback"
          /\ queue[j].op = "acceptedCallback"
          /\ queue[i].gh = queue[j].gh
          => i = j
    /\ \A i \in DOMAIN queue : queue[i].op = "acceptedCallback" =>
          /\ ros.at = "accepted" => ros.gh # queue[i].gh
          /\ AtAccepted => owner.gh # queue[i].gh
    /\ ros.at = "accepted" /\ AtAccepted => owner.gh # ros.gh

\* Cancel requests on their way are on record, and none of them is for a goal
\* whose acceptedCallback() is still to come.
RequestsRecorded ==
    /\ \A g \in requested : goalState[g] # "NEW" /\ g \notin Waiting
    /\ ros.at = "cancelGoal" => ros.gh \in requested
    /\ owner.op = "cancelHandler" => owner.gh \in requested
    /\ \A i \in DOMAIN queue :
          queue[i].op = "cancelHandler" => queue[i].gh \in requested

\* Every live goal is in a slot, on its way there, or has a reason to leave.
Accounted ==
    \A g \in Goals : goalState[g] \in Live =>
        g \in {goal_active, goal_pending} \cup Waiting \cup requested \cup dropped

IInv ==
    /\ TypeOK
    /\ LockOK
    /\ WaitsOnce
    /\ RequestsRecorded
    /\ Accounted
    /\ SlotsMatchStates
    /\ ExecutingIsActive
    /\ CanceledHasCause
    /\ HookSeesItsGoal

=============================================================================
