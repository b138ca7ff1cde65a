----------------------- MODULE SimpleActionServerProofs -----------------------
(***************************************************************************)
(* Proofs about SimpleActionServer, for any number of goals and threads    *)
(* and any size of the message queue.                                      *)
(***************************************************************************)
EXTENDS SimpleActionServer, TLAPS

\* With() and Settle() keep goalState a function into States.
LEMMA WithType ==
    ASSUME TypeOK, NEW g, NEW s \in States
    PROVE  With(g, s) \in [Goals -> States]
  BY DEF TypeOK, With

\* What becomes of the goals when a step computes the states gs: each keeps
\* its state, unless it is live and no slot, message or thread refers to it.
Settled(gs) ==
    \A g \in Goals :
        \/ goalState'[g] = gs[g]
        \/ /\ gs[g] \in Live
           /\ goalState'[g] = "CANCELED"
           /\ g \notin Waiting' \cup {goal_active', goal_pending', lock'.gh}

LEMMA SettleFacts ==
    ASSUME NEW gs \in [Goals -> States], Settle(gs)
    PROVE  goalState' \in [Goals -> States] /\ Settled(gs)
  BY DEF Settle, Settled, Held, Waiting, AtAccepted, States, Terminal

\* A message sent is added to the queue, once, unless the queue is full.
LEMMA SendFacts ==
    ASSUME TypeOK, NEW op \in {"acceptedCallback", "cancelHandler"},
           NEW g \in Goals, Send(op, g)
    PROVE  /\ queue' \in Seq(Messages)
           /\ Len(queue') =< QueueSize
           /\ \A i \in DOMAIN queue : i \in DOMAIN queue' /\ queue'[i] = queue[i]
           /\ \A i \in DOMAIN queue' \ DOMAIN queue :
                 queue'[i].op = op /\ queue'[i].gh = g
           /\ \A i, j \in DOMAIN queue' \ DOMAIN queue : i = j
           /\ Len(queue) < QueueSize =>
                 \E i \in DOMAIN queue' : queue'[i].op = op /\ queue'[i].gh = g
  <1> DEFINE m == [op |-> op, gh |-> g]
  <1>1. m \in Messages /\ m.op = op /\ m.gh = g
    BY DEF Messages
  <1>2. queue \in Seq(Messages) /\ Len(queue) \in Nat
    BY DEF TypeOK
  <1>3. CASE Len(queue) < QueueSize
    <2>1. queue' = Append(queue, m)
      BY <1>3 DEF Send
    <2> HIDE DEF m
    <2>2. /\ queue' \in Seq(Messages)
          /\ Len(queue') = Len(queue) + 1
          /\ \A i \in 1 .. Len(queue) : queue'[i] = queue[i]
          /\ queue'[Len(queue) + 1] = m
      BY <1>1, <1>2, <2>1
    <2>3. DOMAIN queue = 1 .. Len(queue) /\ DOMAIN queue' = 1 .. Len(queue) + 1
      BY <1>2, <2>2
    <2>4. Len(queue') =< QueueSize
      BY <1>2, <1>3, <2>2, BoundsAssumption
    <2>5. \A i \in DOMAIN queue' \ DOMAIN queue : i = Len(queue) + 1
      BY <1>2, <2>3
    <2>6. Len(queue) + 1 \in DOMAIN queue'
      BY <1>2, <2>3
    <2>7. \A i \in DOMAIN queue : i \in DOMAIN queue' /\ queue'[i] = queue[i]
      BY <1>2, <2>2, <2>3
    <2> QED
      BY <1>1, <2>2, <2>4, <2>5, <2>6, <2>7
  <1>4. CASE ~(Len(queue) < QueueSize)
    BY <1>4 DEF Send, TypeOK
  <1> QED
    BY <1>3, <1>4

\* The messages left after the engine took the first one.
LEMMA TailFacts ==
    ASSUME TypeOK, queue # <<>>, queue' = Tail(queue)
    PROVE  /\ Head(queue) \in Messages
           /\ 1 \in DOMAIN queue
           /\ Head(queue) = queue[1]
           /\ queue' \in Seq(Messages)
           /\ Len(queue') =< QueueSize
           /\ \A i \in DOMAIN queue' :
                 i + 1 \in DOMAIN queue /\ queue'[i] = queue[i + 1]
           /\ \A i, j \in DOMAIN queue' : i + 1 # 1 /\ (i + 1 = j + 1 => i = j)
           /\ \A i \in DOMAIN queue :
                 i = 1 \/ \E j \in DOMAIN queue' : queue'[j] = queue[i]
  <1>1. queue \in Seq(Messages) /\ Len(queue) \in Nat /\ Len(queue) =< QueueSize
    BY DEF TypeOK
  <1>2. Len(queue) > 0
    BY <1>1
  <1>3. /\ Head(queue) \in Messages
        /\ Head(queue) = queue[1]
        /\ Tail(queue) \in Seq(Messages)
        /\ Len(Tail(queue)) = Len(queue) - 1
        /\ \A i \in 1 .. Len(queue) - 1 : Tail(queue)[i] = queue[i + 1]
    BY <1>1, <1>2
  <1>4. DOMAIN queue = 1 .. Len(queue) /\ DOMAIN queue' = 1 .. Len(queue) - 1
    BY <1>1, <1>3
  <1>5. Len(queue') =< QueueSize
    BY <1>1, <1>3, BoundsAssumption
  <1>6. ASSUME NEW i \in DOMAIN queue, i # 1
        PROVE  \E j \in DOMAIN queue' : queue'[j] = queue[i]
    <2>1. i - 1 \in DOMAIN queue' /\ queue'[i - 1] = queue[i]
      BY <1>1, <1>2, <1>3, <1>4, <1>6
    <2> QED
      BY <2>1
  <1> QED
    BY <1>1, <1>2, <1>3, <1>4, <1>5, <1>6

-----------------------------------------------------------------------------
(* Type correctness.                                                       *)

\* Every step keeps the types.
LEMMA TypeStep == TypeOK /\ LockOK /\ [Next]_vars => TypeOK'
  <1> SUFFICES ASSUME TypeOK, LockOK, [Next]_vars PROVE TypeOK'
    OBVIOUS
  <1> USE NoGoalAssumption DEF Handles, RosIdle, OwnerIdle, Unlocked, Threads,
                              LockAt, OwnerAt, Acquire
  <1>1. ASSUME NEW g \in Goals, HandleGoal(g) PROVE TypeOK'
    BY <1>1, WithType DEF HandleGoal, TypeOK, States, Live, Deferred
  <1>2. CASE HandleAccepted
    <2>1. ros.gh \in Goals
      BY <1>2 DEF HandleAccepted, TypeOK
    <2>2. queue' \in Seq(Messages) /\ Len(queue') =< QueueSize
      BY <1>2, <2>1, SendFacts DEF HandleAccepted
    <2>3. goalState' \in [Goals -> States]
      BY <1>2, SettleFacts DEF HandleAccepted, TypeOK
    <2> QED
      BY <1>2, <2>1, <2>2, <2>3 DEF HandleAccepted, TypeOK
  <1>3. ASSUME NEW g \in Goals, CancelRequest(g) PROVE TypeOK'
    BY <1>3 DEF CancelRequest, TypeOK
  <1>4. CASE CancelCallback
    <2>1. ros.gh \in Goals
      BY <1>4 DEF CancelCallback, TypeOK
    <2>2. goalState' \in [Goals -> States]
      BY <1>4, SettleFacts DEF CancelCallback, TypeOK
    <2>4. queue' \in Seq(Messages) /\ Len(queue') =< QueueSize
      BY <1>4, <2>1, SendFacts DEF CancelCallback, TypeOK
    <2> QED
      BY <1>4, <2>1, <2>2, <2>4 DEF CancelCallback, TypeOK
  <1>5. CASE CancelGoal
    <2>1. ros.gh \in Goals
      BY <1>5 DEF CancelGoal, TypeOK
    <2> QED
      BY <1>5, <2>1, WithType, SettleFacts
      DEF CancelGoal, TypeOK, States, Live, Deferred
  <1>6. ASSUME NEW t \in Threads, Start(t) PROVE TypeOK'
    BY <1>6 DEF Start, TypeOK
  <1>7. ASSUME NEW t \in Threads, Shutdown(t) PROVE TypeOK'
    <2>1. goalState' \in [Goals -> States]
      BY <1>7, SettleFacts DEF Shutdown, TypeOK
    <2>2. dropped' \in SUBSET Goals
      BY <1>7 DEF Shutdown, TypeOK
    <2>3. shutdowns' \in 0 .. MaxShutdowns
      BY <1>7, BoundsAssumption DEF Shutdown, TypeOK
    <2>4. connected' \in BOOLEAN
      BY <1>7 DEF Shutdown
    <2>5. /\ goal_active' = NoGoal /\ goal_pending' = NoGoal
          /\ UNCHANGED <<hooks, queue, ros, owner, lock, requested, unheard>>
      BY <1>7 DEF Shutdown
    <2> QED
      BY <2>1, <2>2, <2>3, <2>4, <2>5 DEF TypeOK
  <1>8. ASSUME NEW t \in Threads, NEW h \in {"goal", "cancel"}, SetHook(t, h)
        PROVE  TypeOK'
    BY <1>8 DEF SetHook, TypeOK
  <1>9. ASSUME NEW t \in Threads, AcceptPending(t) PROVE TypeOK'
    BY <1>9 DEF AcceptPending, isPending, TypeOK
  <1>10. ASSUME NEW t \in Threads, RejectPending(t) PROVE TypeOK'
    BY <1>10 DEF RejectPending, isPending, TypeOK
  <1>11. ASSUME NEW t \in Threads, FinishActive(t) PROVE TypeOK'
    BY <1>11 DEF FinishActive, TypeOK
  <1>12. ASSUME NEW t \in Threads, SucceedActive(t) PROVE TypeOK'
    <2>1. With(goal_active, "SUCCEEDED") \in [Goals -> States]
      BY WithType DEF States, Terminal
    <2>2. goalState' \in [Goals -> States]
      BY <1>12, <2>1, SettleFacts DEF SucceedActive
    <2> QED
      BY <1>12, <2>2 DEF SucceedActive, TypeOK
  <1>13. CASE FinishTest
    <2>1. goalState' \in [Goals -> States]
      <3> DEFINE gs == IF goalState[goal_active] = "CANCELING"
                      THEN With(goal_active, "CANCELED") ELSE goalState
      <3>1. gs \in [Goals -> States]
        BY WithType DEF TypeOK, States, Terminal
      <3>2. UNCHANGED goalState \/ Settle(gs)
        BY <1>13 DEF FinishTest
      <3> QED
        BY <3>1, <3>2, SettleFacts DEF TypeOK
    <2> QED
      BY <1>13, <2>1 DEF FinishTest, AfterFinish, TypeOK
  <1>14. CASE FinishAbort
    <2>1. goalState' \in [Goals -> States]
      <3> DEFINE gs == IF goalState[goal_active] \in Running
                      THEN With(goal_active, "ABORTED") ELSE goalState
      <3>1. gs \in [Goals -> States]
        BY WithType DEF TypeOK, States, Live, Running, Deferred, Terminal
      <3> QED
        BY <1>14, <3>1, SettleFacts DEF FinishAbort
    <2> QED
      BY <1>14, <2>1 DEF FinishAbort, AfterFinish, TypeOK
  <1>15. CASE ExecutePending
    <2>1. goalState' \in [Goals -> States]
      <3>1. With(lock.gh, "EXECUTING") \in [Goals -> States]
        BY WithType DEF States, Live, Running
      <3>2. goalState \in [Goals -> States]
        BY DEF TypeOK
      <3>3. Settle(goalState) \/ Settle(With(lock.gh, "EXECUTING"))
        BY <1>15 DEF ExecutePending
      <3> QED
        BY <3>1, <3>2, <3>3, SettleFacts
    <2> QED
      BY <1>15, <2>1 DEF ExecutePending, TypeOK
  <1>16. CASE TerminateTest
    <2>1. goalState' \in [Goals -> States]
      <3>1. With(lock.gh, "CANCELED") \in [Goals -> States]
        BY WithType DEF States, Terminal
      <3>2. UNCHANGED goalState \/ Settle(With(lock.gh, "CANCELED"))
        BY <1>16 DEF TerminateTest
      <3> QED
        BY <3>1, <3>2, SettleFacts DEF TypeOK
    <2> QED
      BY <1>16, <2>1 DEF TerminateTest, AfterTerminate, TypeOK, LockOK
  <1>17. CASE TerminateExecute
    <2>1. goalState' \in [Goals -> States]
      <3>1. With(lock.gh, "EXECUTING") \in [Goals -> States]
        BY WithType DEF States, Live, Running
      <3>2. goalState \in [Goals -> States]
        BY DEF TypeOK
      <3>3. goalState' = With(lock.gh, "EXECUTING") \/ Settle(goalState)
        BY <1>17 DEF TerminateExecute
      <3> QED
        BY <3>1, <3>2, <3>3, SettleFacts
    <2> QED
      BY <1>17, <2>1 DEF TerminateExecute, AfterTerminate, TypeOK, LockOK
  <1>18. CASE TerminateAbort
    <2>1. goalState' \in [Goals -> States]
      <3> DEFINE gs == IF goalState[lock.gh] \in Running
                      THEN With(lock.gh, "ABORTED") ELSE goalState
      <3>1. gs \in [Goals -> States]
        BY WithType DEF TypeOK, States, Live, Running, Deferred, Terminal
      <3> QED
        BY <1>18, <3>1, SettleFacts DEF TerminateAbort
    <2> QED
      BY <1>18, <2>1 DEF TerminateAbort, AfterTerminate, TypeOK, LockOK
  <1>19. CASE ExecuteMessage
    BY <1>19, TailFacts DEF ExecuteMessage, TypeOK, Messages
  <1>20. CASE AcceptedCallback
    BY <1>20, SettleFacts
    DEF AcceptedCallback, isPending, TypeOK
  <1>21. CASE CancelHandler
    BY <1>21, SettleFacts
    DEF CancelHandler, TypeOK
  <1>22. CASE HookReturns
    BY <1>22, SettleFacts DEF HookReturns, TypeOK
  <1>23. CASE CancelFinish
    BY <1>23, SettleFacts
    DEF CancelFinish, TypeOK
  <1>24. CASE UNCHANGED vars
    BY <1>24 DEF vars, TypeOK
  <1> QED
    BY <1>1, <1>2, <1>3, <1>4, <1>5, <1>6, <1>7, <1>8, <1>9, <1>10, <1>11,
       <1>12, <1>13, <1>14, <1>15, <1>16, <1>17, <1>18, <1>19, <1>20, <1>21,
       <1>22, <1>23, <1>24
    DEF Next, Ros, Api, Locked, OwnerStep

-----------------------------------------------------------------------------
(* The inductive invariant.                                                *)

\* The invariant holds initially.
LEMMA InvInit == Init => IInv
  <1> SUFFICES ASSUME Init PROVE IInv
    OBVIOUS
  <1>1. queue = <<>> /\ <<>> \in Seq(Messages) /\ Len(queue) = 0 /\ DOMAIN queue = {}
    BY DEF Init
  <1>2. TypeOK
    <2>1. connected \in BOOLEAN
      BY DEF Init
    <2> QED
      BY <1>1, <2>1, BoundsAssumption
      DEF Init, TypeOK, States, Handles, RosIdle, OwnerIdle, Unlocked, Threads
  <1>3. Waiting = {}
    BY <1>1, NoGoalAssumption DEF Init, Waiting, AtAccepted, RosIdle, OwnerIdle
  <1> QED
    BY <1>1, <1>2, <1>3
    DEF Init, IInv, LockOK, WaitsOnce, RequestsRecorded, Accounted,
        SlotsMatchStates, ExecutingIsActive, CanceledHasCause, HookSeesItsGoal,
        AtAccepted, Live, Deferred, Running, RosIdle, OwnerIdle, Unlocked

\* Every step keeps the invariant.  Under each action: what becomes of the
\* states of the goals and of the set of waiting goals, then the conjuncts.
LEMMA InvStep == IInv /\ [Next]_vars => IInv'
  <1> SUFFICES ASSUME IInv, [Next]_vars PROVE IInv'
    OBVIOUS
  <1> USE NoGoalAssumption
      DEF IInv, TypeOK, AtAccepted, Handles, Live, Deferred, Running, Terminal,
          RosIdle, OwnerIdle, Unlocked, LockAt, OwnerAt, Acquire, CanCall,
          AfterFinish, AfterTerminate, isPending, OwnerFree
  <1>1. TypeOK /\ TypeOK'
    BY TypeStep DEF IInv
  <1>2. AtAccepted => owner.gh \in Waiting
    BY <1>1 DEF Waiting, TypeOK, AtAccepted
  <1>3. ASSUME NEW g \in Goals, HandleGoal(g) PROVE IInv'
    <2>1. goalState' = With(g, "ACCEPTED")
      BY <1>3 DEF HandleGoal
    <2>2. g \notin Waiting
      BY <1>1, <1>3 DEF HandleGoal, SlotsMatchStates
    <2>3. Waiting' = Waiting \cup {g}
      BY <1>1, <1>3 DEF HandleGoal, Waiting
    <2>4. LockOK' /\ HookSeesItsGoal'
      BY <1>1, <1>2, <1>3, <2>1, <2>3, <2>2
      DEF HandleGoal, LockOK, HookSeesItsGoal, SlotsMatchStates, With
    <2>5. WaitsOnce'
      BY <1>1, <1>3, <2>2
      DEF HandleGoal, WaitsOnce, SlotsMatchStates, LockOK, Waiting
    <2>6. RequestsRecorded'
      BY <1>1, <1>2, <1>3, <2>1, <2>3, <2>2
      DEF HandleGoal, RequestsRecorded, SlotsMatchStates, With
    <2>7. SlotsMatchStates' /\ ExecutingIsActive'
      BY <1>1, <1>2, <1>3, <2>1, <2>3, <2>2
      DEF HandleGoal, SlotsMatchStates, ExecutingIsActive, LockOK,
          RequestsRecorded, With
    <2>8. Accounted' /\ CanceledHasCause'
      BY <1>1, <1>2, <1>3, <2>1, <2>3, <2>2
      DEF HandleGoal, Accounted, CanceledHasCause, LockOK, SlotsMatchStates,
          RequestsRecorded, With
    <2> QED
      BY <1>1, <2>4, <2>5, <2>6, <2>7, <2>8
  <1>4. CASE HandleAccepted
    <2>1. Settled(goalState)
      BY <1>1, <1>4, SettleFacts DEF HandleAccepted
    <2>2. ros.gh \in Goals
      BY <1>1, <1>4 DEF HandleAccepted
    <2>3. /\ \A i \in DOMAIN queue : i \in DOMAIN queue' /\ queue'[i] = queue[i]
          /\ \A i \in DOMAIN queue' \ DOMAIN queue :
                queue'[i].op = "acceptedCallback" /\ queue'[i].gh = ros.gh
          /\ \A i, j \in DOMAIN queue' \ DOMAIN queue : i = j
          /\ Len(queue) < QueueSize =>
                \E i \in DOMAIN queue' :
                    queue'[i].op = "acceptedCallback" /\ queue'[i].gh = ros.gh
      BY <1>1, <1>4, <2>2, SendFacts DEF HandleAccepted
    <2>4. /\ Waiting' \subseteq Waiting
          /\ Waiting \subseteq Waiting' \cup dropped'
          /\ goal_pending' \in Waiting' => goal_pending' = goal_pending
          /\ Waiting' \subseteq Goals
      <3>1. \A i \in DOMAIN queue' :
               \/ i \in DOMAIN queue /\ queue'[i] = queue[i]
               \/ queue'[i].op = "acceptedCallback" /\ queue'[i].gh = ros.gh
        BY <2>3
      <3>2. /\ ros.at = "accepted" /\ ros'.at = "idle"
            /\ UNCHANGED <<owner, goal_pending>>
        BY <1>4 DEF HandleAccepted, RosIdle
      <3>3. Waiting' \subseteq Waiting
        BY <2>2, <3>1, <3>2 DEF Waiting, AtAccepted
      <3>4. ASSUME NEW g \in Waiting PROVE g \in Waiting' \cup dropped'
        <4>1. CASE g = ros.gh /\ Len(queue) < QueueSize
          BY <2>2, <2>3, <4>1 DEF Waiting
        <4>2. CASE g = ros.gh /\ ~(Len(queue) < QueueSize)
          BY <1>4, <4>2 DEF HandleAccepted
        <4>3. CASE g # ros.gh
          BY <2>3, <3>2, <4>3 DEF Waiting, AtAccepted
        <4> QED
          BY <4>1, <4>2, <4>3
      <3> QED
        BY <3>2, <3>3, <3>4 DEF Waiting
    <2>5. LockOK' /\ HookSeesItsGoal'
      BY <1>1, <1>2, <1>4, <2>1, <2>4
      DEF HandleAccepted, LockOK, HookSeesItsGoal, SlotsMatchStates, Settled
    <2>6. WaitsOnce'
      <3>1. ros.at = "accepted" /\ ros'.at = "idle" /\ UNCHANGED owner
        BY <1>4 DEF HandleAccepted, RosIdle
      <3>2. ASSUME NEW i \in DOMAIN queue', NEW j \in DOMAIN queue',
                   queue'[i].op = "acceptedCallback",
                   queue'[j].op = "acceptedCallback",
                   queue'[i].gh = queue'[j].gh
            PROVE  i = j
        <4>1. CASE i \in DOMAIN queue /\ j \in DOMAIN queue
          BY <2>3, <3>2, <4>1 DEF IInv, WaitsOnce
        <4>2. CASE i \notin DOMAIN queue /\ j \notin DOMAIN queue
          BY <2>3, <4>2
        <4>3. CASE i \in DOMAIN queue /\ j \notin DOMAIN queue
          BY <2>3, <3>1, <3>2, <4>3 DEF IInv, WaitsOnce
        <4>4. CASE i \notin DOMAIN queue /\ j \in DOMAIN queue
          BY <2>3, <3>1, <3>2, <4>4 DEF IInv, WaitsOnce
        <4> QED
          BY <4>1, <4>2, <4>3, <4>4
      <3>3. ASSUME NEW i \in DOMAIN queue', AtAccepted,
                   queue'[i].op = "acceptedCallback"
            PROVE  owner.gh # queue'[i].gh
        BY <2>3, <3>1, <3>3 DEF IInv, WaitsOnce
      <3> QED
        BY <3>1, <3>2, <3>3 DEF WaitsOnce, AtAccepted
    <2>7. RequestsRecorded'
      <3>1. \A g \in requested' : goalState'[g] # "NEW" /\ g \notin Waiting'
        BY <1>1, <1>4, <2>1, <2>4, <2>2
        DEF HandleAccepted, SlotsMatchStates, RequestsRecorded, Settled
      <3>2. \A i \in DOMAIN queue' :
               queue'[i].op = "cancelHandler" => queue'[i].gh \in requested'
        BY <1>4, <2>3 DEF HandleAccepted, IInv, RequestsRecorded
      <3>3. ros'.at = "cancelGoal" => ros'.gh \in requested'
        BY <1>4 DEF HandleAccepted, RosIdle
      <3> QED
        BY <1>4, <3>1, <3>2, <3>3 DEF HandleAccepted, IInv, RequestsRecorded
    <2>8. SlotsMatchStates' /\ ExecutingIsActive'
      BY <1>1, <1>2, <1>4, <2>1, <2>4, <2>2, <2>3
      DEF HandleAccepted, SlotsMatchStates, ExecutingIsActive, LockOK,
          RequestsRecorded, Settled
    <2>9. Accounted' /\ CanceledHasCause'
      BY <1>1, <1>2, <1>4, <2>1, <2>4, <2>2, <2>3
      DEF HandleAccepted, Accounted, CanceledHasCause, LockOK,
          SlotsMatchStates, RequestsRecorded, Settled
    <2> QED
      BY <1>1, <2>5, <2>6, <2>7, <2>8, <2>9
  <1>5. ASSUME NEW g \in Goals, CancelRequest(g) PROVE IInv'
    <2>1. goalState' = goalState
      BY <1>5 DEF CancelRequest
    <2>2. /\ Waiting' \subseteq Waiting
          /\ Waiting \subseteq Waiting'
          /\ goal_pending' \in Waiting' => goal_pending' = goal_pending
          /\ Waiting' \subseteq Goals
      BY <1>1, <1>5
      DEF CancelRequest, LockOK, SlotsMatchStates, WaitsOnce, Waiting
    <2>3. LockOK' /\ HookSeesItsGoal' /\ WaitsOnce' /\ RequestsRecorded'
      BY <1>1, <1>2, <1>5, <2>1, <2>2
      DEF CancelRequest, LockOK, HookSeesItsGoal, WaitsOnce, RequestsRecorded,
          SlotsMatchStates
    <2>4. SlotsMatchStates' /\ ExecutingIsActive' /\ Accounted' /\ CanceledHasCause'
      BY <1>1, <1>2, <1>5, <2>1, <2>2
      DEF CancelRequest, SlotsMatchStates, ExecutingIsActive, Accounted,
          CanceledHasCause, LockOK, RequestsRecorded
    <2> QED
      BY <1>1, <2>3, <2>4
  <1>6. CASE CancelCallback
    <2>1. Settled(goalState)
      BY <1>1, <1>6, SettleFacts DEF CancelCallback
    <2>2. ros.gh \in Goals
      BY <1>1, <1>6 DEF CancelCallback
    <2>3. /\ \A i \in DOMAIN queue : i \in DOMAIN queue' /\ queue'[i] = queue[i]
          /\ \A i \in DOMAIN queue' \ DOMAIN queue :
                queue'[i].op = "cancelHandler" /\ queue'[i].gh = ros.gh
          /\ \A i, j \in DOMAIN queue' \ DOMAIN queue : i = j
      BY <1>1, <1>6, <2>2, SendFacts DEF CancelCallback
    <2>4. /\ Waiting' \subseteq Waiting
          /\ Waiting \subseteq Waiting'
          /\ goal_pending' \in Waiting' => goal_pending' = goal_pending
          /\ Waiting' \subseteq Goals
      BY <1>1, <1>6, <2>2, <2>3
      DEF CancelCallback, LockOK, SlotsMatchStates, WaitsOnce, Waiting
    <2>5. LockOK' /\ HookSeesItsGoal'
      BY <1>1, <1>2, <1>6, <2>1, <2>4
      DEF CancelCallback, LockOK, HookSeesItsGoal, SlotsMatchStates, Settled
    <2>6. WaitsOnce'
      BY <1>6, <2>2, <2>3 DEF CancelCallback, WaitsOnce
    <2>7. RequestsRecorded'
      <3>1. \A g \in requested' : goalState'[g] # "NEW" /\ g \notin Waiting'
        BY <1>1, <1>6, <2>1, <2>4, <2>2
        DEF CancelCallback, SlotsMatchStates, RequestsRecorded, Settled
      <3>2. \A i \in DOMAIN queue' :
               queue'[i].op = "cancelHandler" => queue'[i].gh \in requested'
        BY <1>6, <2>3 DEF CancelCallback, IInv, RequestsRecorded
      <3>3. ros'.at = "cancelGoal" => ros'.gh \in requested'
        BY <1>6 DEF CancelCallback, RosIdle
      <3> QED
        BY <1>6, <3>1, <3>2, <3>3 DEF CancelCallback, IInv, RequestsRecorded
    <2>8. SlotsMatchStates' /\ ExecutingIsActive'
      BY <1>1, <1>2, <1>6, <2>1, <2>4, <2>2, <2>3
      DEF CancelCallback, SlotsMatchStates, ExecutingIsActive, LockOK,
          RequestsRecorded, Settled
    <2>9. Accounted' /\ CanceledHasCause'
      BY <1>1, <1>2, <1>6, <2>1, <2>4, <2>2, <2>3
      DEF CancelCallback, Accounted, CanceledHasCause, LockOK,
          SlotsMatchStates, RequestsRecorded, Settled
    <2> QED
      BY <1>1, <2>5, <2>6, <2>7, <2>8, <2>9
  <1>7. CASE CancelGoal
    <2> DEFINE gs == IF goalState[ros.gh] \in {"ACCEPTED", "EXECUTING"}
                       THEN With(ros.gh, "CANCELING") ELSE goalState
    <2>1. Settled(gs)
      <3>1. gs \in [Goals -> States]
        BY <1>1, WithType DEF States
      <3>2. Settle(gs)
        BY <1>7 DEF CancelGoal
      <3> QED
        BY <3>1, <3>2, SettleFacts DEF Settled
    <2>2. /\ Waiting' \subseteq Waiting
          /\ Waiting \subseteq Waiting'
          /\ goal_pending' \in Waiting' => goal_pending' = goal_pending
          /\ Waiting' \subseteq Goals
      BY <1>1, <1>7
      DEF CancelGoal, LockOK, SlotsMatchStates, WaitsOnce, Waiting
    <2>3. LockOK' /\ HookSeesItsGoal'
      BY <1>1, <1>2, <1>7, <2>1, <2>2
      DEF CancelGoal, LockOK, HookSeesItsGoal, SlotsMatchStates, Settled, With
    <2>4. WaitsOnce'
      BY <1>1, <1>7 DEF CancelGoal, WaitsOnce, SlotsMatchStates, LockOK
    <2>5. RequestsRecorded'
      BY <1>1, <1>2, <1>7, <2>1, <2>2
      DEF CancelGoal, RequestsRecorded, SlotsMatchStates, Settled, With
    <2>6. SlotsMatchStates' /\ ExecutingIsActive'
      BY <1>1, <1>2, <1>7, <2>1, <2>2
      DEF CancelGoal, SlotsMatchStates, ExecutingIsActive, LockOK,
          RequestsRecorded, Settled, With
    <2>7. Accounted' /\ CanceledHasCause'
      BY <1>1, <1>2, <1>7, <2>1, <2>2
      DEF CancelGoal, Accounted, CanceledHasCause, LockOK, SlotsMatchStates,
          RequestsRecorded, Settled, With
    <2> QED
      BY <1>1, <2>3, <2>4, <2>5, <2>6, <2>7
  <1>8. ASSUME NEW t \in Threads, Start(t) PROVE IInv'
    <2>1. goalState' = goalState
      BY <1>8 DEF Start
    <2>2. /\ Waiting' \subseteq Waiting
          /\ Waiting \subseteq Waiting'
          /\ goal_pending' \in Waiting' => goal_pending' = goal_pending
          /\ Waiting' \subseteq Goals
      BY <1>1, <1>8 DEF Start, LockOK, SlotsMatchStates, WaitsOnce, Waiting
    <2>3. LockOK' /\ HookSeesItsGoal' /\ WaitsOnce' /\ RequestsRecorded'
      BY <1>1, <1>2, <1>8, <2>1, <2>2
      DEF Start, LockOK, HookSeesItsGoal, WaitsOnce, RequestsRecorded,
          SlotsMatchStates
    <2>4. SlotsMatchStates' /\ ExecutingIsActive' /\ Accounted' /\ CanceledHasCause'
      BY <1>1, <1>2, <1>8, <2>1, <2>2
      DEF Start, SlotsMatchStates, ExecutingIsActive, Accounted,
          CanceledHasCause, LockOK, RequestsRecorded
    <2> QED
      BY <1>1, <2>3, <2>4
  <1>9. ASSUME NEW t \in Threads, Shutdown(t) PROVE IInv'
    <2>1. Settled(goalState)
      BY <1>1, <1>9, SettleFacts DEF Shutdown
    <2>2. /\ Waiting' \subseteq Waiting
          /\ Waiting \subseteq Waiting'
          /\ goal_pending' \in Waiting' => goal_pending' = goal_pending
          /\ Waiting' \subseteq Goals
      BY <1>1, <1>9 DEF Shutdown, LockOK, SlotsMatchStates, WaitsOnce, Waiting
    <2>3. LockOK' /\ HookSeesItsGoal'
      BY <1>1, <1>2, <1>9, <2>1, <2>2
      DEF Shutdown, LockOK, HookSeesItsGoal, SlotsMatchStates, Settled
    <2>4. WaitsOnce'
      BY <1>1, <1>9 DEF Shutdown, WaitsOnce, SlotsMatchStates, LockOK
    <2>5. RequestsRecorded'
      BY <1>1, <1>2, <1>9, <2>1, <2>2
      DEF Shutdown, RequestsRecorded, SlotsMatchStates, Settled
    <2>6. SlotsMatchStates' /\ ExecutingIsActive'
      BY <1>1, <1>2, <1>9, <2>1, <2>2
      DEF Shutdown, SlotsMatchStates, ExecutingIsActive, LockOK,
          RequestsRecorded, Settled
    <2>7. Accounted' /\ CanceledHasCause'
      BY <1>1, <1>2, <1>9, <2>1, <2>2
      DEF Shutdown, Accounted, CanceledHasCause, LockOK, SlotsMatchStates,
          RequestsRecorded, Settled
    <2> QED
      BY <1>1, <2>3, <2>4, <2>5, <2>6, <2>7
  <1>10. ASSUME NEW t \in Threads, NEW h \in {"goal", "cancel"}, SetHook(t, h)
        PROVE  IInv'
    <2>1. goalState' = goalState
      BY <1>10 DEF SetHook
    <2>2. /\ Waiting' \subseteq Waiting
          /\ Waiting \subseteq Waiting'
          /\ goal_pending' \in Waiting' => goal_pending' = goal_pending
          /\ Waiting' \subseteq Goals
      BY <1>1, <1>10 DEF SetHook, LockOK, SlotsMatchStates, WaitsOnce, Waiting
    <2>3. LockOK' /\ HookSeesItsGoal' /\ WaitsOnce' /\ RequestsRecorded'
      BY <1>1, <1>2, <1>10, <2>1, <2>2
      DEF SetHook, LockOK, HookSeesItsGoal, WaitsOnce, RequestsRecorded,
          SlotsMatchStates
    <2>4. SlotsMatchStates' /\ ExecutingIsActive' /\ Accounted' /\ CanceledHasCause'
      BY <1>1, <1>2, <1>10, <2>1, <2>2
      DEF SetHook, SlotsMatchStates, ExecutingIsActive, Accounted,
          CanceledHasCause, LockOK, RequestsRecorded
    <2> QED
      BY <1>1, <2>3, <2>4
  <1>11. ASSUME NEW t \in Threads, AcceptPending(t) PROVE IInv'
    <2>1. goalState' = goalState
      BY <1>11 DEF AcceptPending
    <2>2. /\ Waiting' \subseteq Waiting
          /\ Waiting \subseteq Waiting'
          /\ goal_pending' \in Waiting' => goal_pending' = goal_pending
          /\ Waiting' \subseteq Goals
      BY <1>1, <1>11
      DEF AcceptPending, LockOK, SlotsMatchStates, WaitsOnce, Waiting
    <2>3. LockOK' /\ HookSeesItsGoal' /\ WaitsOnce' /\ RequestsRecorded'
      BY <1>1, <1>2, <1>11, <2>1, <2>2
      DEF AcceptPending, LockOK, HookSeesItsGoal, WaitsOnce, RequestsRecorded,
          SlotsMatchStates
    <2>4. SlotsMatchStates' /\ ExecutingIsActive' /\ Accounted' /\ CanceledHasCause'
      BY <1>1, <1>2, <1>11, <2>1, <2>2
      DEF AcceptPending, SlotsMatchStates, ExecutingIsActive, Accounted,
          CanceledHasCause, LockOK, RequestsRecorded
    <2> QED
      BY <1>1, <2>3, <2>4
  <1>12. ASSUME NEW t \in Threads, RejectPending(t) PROVE IInv'
    <2>1. goalState' = goalState
      BY <1>12 DEF RejectPending
    <2>2. /\ Waiting' \subseteq Waiting
          /\ Waiting \subseteq Waiting'
          /\ goal_pending' \in Waiting' => goal_pending' = goal_pending
          /\ Waiting' \subseteq Goals
      BY <1>1, <1>12
      DEF RejectPending, LockOK, SlotsMatchStates, WaitsOnce, Waiting
    <2>3. LockOK' /\ HookSeesItsGoal' /\ WaitsOnce' /\ RequestsRecorded'
      BY <1>1, <1>2, <1>12, <2>1, <2>2
      DEF RejectPending, LockOK, HookSeesItsGoal, WaitsOnce, RequestsRecorded,
          SlotsMatchStates
    <2>4. SlotsMatchStates' /\ ExecutingIsActive' /\ Accounted' /\ CanceledHasCause'
      BY <1>1, <1>2, <1>12, <2>1, <2>2
      DEF RejectPending, SlotsMatchStates, ExecutingIsActive, Accounted,
          CanceledHasCause, LockOK, RequestsRecorded
    <2> QED
      BY <1>1, <2>3, <2>4
  <1>13. ASSUME NEW t \in Threads, FinishActive(t) PROVE IInv'
    <2>1. goalState' = goalState
      BY <1>13 DEF FinishActive
    <2>2. /\ Waiting' \subseteq Waiting
          /\ Waiting \subseteq Waiting'
          /\ goal_pending' \in Waiting' => goal_pending' = goal_pending
          /\ Waiting' \subseteq Goals
      BY <1>1, <1>13
      DEF FinishActive, LockOK, SlotsMatchStates, WaitsOnce, Waiting
    <2>3. LockOK' /\ HookSeesItsGoal' /\ WaitsOnce' /\ RequestsRecorded'
      BY <1>1, <1>2, <1>13, <2>1, <2>2
      DEF FinishActive, LockOK, HookSeesItsGoal, WaitsOnce, RequestsRecorded,
          SlotsMatchStates
    <2>4. SlotsMatchStates' /\ ExecutingIsActive' /\ Accounted' /\ CanceledHasCause'
      BY <1>1, <1>2, <1>13, <2>1, <2>2
      DEF FinishActive, SlotsMatchStates, ExecutingIsActive, Accounted,
          CanceledHasCause, LockOK, RequestsRecorded
    <2> QED
      BY <1>1, <2>3, <2>4
  <1>14. ASSUME NEW t \in Threads, SucceedActive(t) PROVE IInv'
    <2> DEFINE gs == With(goal_active, "SUCCEEDED")
    <2>1. Settled(gs)
      <3>1. gs \in [Goals -> States]
        BY <1>1, WithType DEF States
      <3>2. Settle(gs)
        BY <1>14 DEF SucceedActive
      <3> QED
        BY <3>1, <3>2, SettleFacts DEF Settled
    <2>2. /\ Waiting' \subseteq Waiting
          /\ Waiting \subseteq Waiting'
          /\ goal_pending' \in Waiting' => goal_pending' = goal_pending
          /\ Waiting' \subseteq Goals
      BY <1>1, <1>14
      DEF SucceedActive, LockOK, SlotsMatchStates, WaitsOnce, Waiting
    <2>3. LockOK' /\ HookSeesItsGoal'
      BY <1>1, <1>2, <1>14, <2>1, <2>2
      DEF SucceedActive, LockOK, HookSeesItsGoal, SlotsMatchStates, Settled,
          With
    <2>4. WaitsOnce'
      BY <1>1, <1>14 DEF SucceedActive, WaitsOnce, SlotsMatchStates, LockOK
    <2>5. RequestsRecorded'
      BY <1>1, <1>2, <1>14, <2>1, <2>2
      DEF SucceedActive, RequestsRecorded, SlotsMatchStates, Settled, With
    <2>6. SlotsMatchStates' /\ ExecutingIsActive'
      BY <1>1, <1>2, <1>14, <2>1, <2>2
      DEF SucceedActive, SlotsMatchStates, ExecutingIsActive, LockOK,
          RequestsRecorded, Settled, With
    <2>7. Accounted' /\ CanceledHasCause'
      BY <1>1, <1>2, <1>14, <2>1, <2>2
      DEF SucceedActive, Accounted, CanceledHasCause, LockOK,
          SlotsMatchStates, RequestsRecorded, Settled, With
    <2> QED
      BY <1>1, <2>3, <2>4, <2>5, <2>6, <2>7
  <1>15. CASE FinishTest
    <2> DEFINE gs == IF goalState[goal_active] = "CANCELING"
                       THEN With(goal_active, "CANCELED") ELSE goalState
    <2>1. goalState' = goalState \/ Settled(gs)
      <3>1. gs \in [Goals -> States]
        BY <1>1, WithType DEF States
      <3>2. goalState' = goalState \/ Settle(gs)
        BY <1>15 DEF FinishTest
      <3> QED
        BY <3>1, <3>2, SettleFacts DEF Settled
    <2>2. /\ Waiting' \subseteq Waiting
          /\ Waiting \subseteq Waiting'
          /\ goal_pending' \in Waiting' => goal_pending' = goal_pending
          /\ Waiting' \subseteq Goals
      BY <1>1, <1>15
      DEF FinishTest, LockOK, SlotsMatchStates, WaitsOnce, Waiting
    <2>3. LockOK' /\ HookSeesItsGoal'
      BY <1>1, <1>2, <1>15, <2>1, <2>2
      DEF FinishTest, LockOK, HookSeesItsGoal, SlotsMatchStates, Settled, With
    <2>4. WaitsOnce'
      BY <1>1, <1>15 DEF FinishTest, WaitsOnce, SlotsMatchStates, LockOK
    <2>5. RequestsRecorded'
      BY <1>1, <1>2, <1>15, <2>1, <2>2
      DEF FinishTest, RequestsRecorded, SlotsMatchStates, Settled, With
    <2>6. SlotsMatchStates' /\ ExecutingIsActive'
      BY <1>1, <1>2, <1>15, <2>1, <2>2
      DEF FinishTest, SlotsMatchStates, ExecutingIsActive, LockOK,
          RequestsRecorded, Settled, With
    <2>7. Accounted' /\ CanceledHasCause'
      BY <1>1, <1>2, <1>15, <2>1, <2>2
      DEF FinishTest, Accounted, CanceledHasCause, LockOK, SlotsMatchStates,
          RequestsRecorded, Settled, With
    <2> QED
      BY <1>1, <2>3, <2>4, <2>5, <2>6, <2>7
  <1>16. CASE FinishAbort
    <2> DEFINE gs == IF goalState[goal_active] \in Running
                       THEN With(goal_active, "ABORTED") ELSE goalState
    <2>1. Settled(gs)
      <3>1. gs \in [Goals -> States]
        BY <1>1, WithType DEF States
      <3>2. Settle(gs)
        BY <1>16 DEF FinishAbort
      <3> QED
        BY <3>1, <3>2, SettleFacts DEF Settled
    <2>2. /\ Waiting' \subseteq Waiting
          /\ Waiting \subseteq Waiting'
          /\ goal_pending' \in Waiting' => goal_pending' = goal_pending
          /\ Waiting' \subseteq Goals
      BY <1>1, <1>16
      DEF FinishAbort, LockOK, SlotsMatchStates, WaitsOnce, Waiting
    <2>3. LockOK' /\ HookSeesItsGoal'
      BY <1>1, <1>2, <1>16, <2>1, <2>2
      DEF FinishAbort, LockOK, HookSeesItsGoal, SlotsMatchStates, Settled,
          With
    <2>4. WaitsOnce'
      BY <1>1, <1>16 DEF FinishAbort, WaitsOnce, SlotsMatchStates, LockOK
    <2>5. RequestsRecorded'
      BY <1>1, <1>2, <1>16, <2>1, <2>2
      DEF FinishAbort, RequestsRecorded, SlotsMatchStates, Settled, With
    <2>6. SlotsMatchStates' /\ ExecutingIsActive'
      BY <1>1, <1>2, <1>16, <2>1, <2>2
      DEF FinishAbort, SlotsMatchStates, ExecutingIsActive, LockOK,
          RequestsRecorded, Settled, With
    <2>7. Accounted' /\ CanceledHasCause'
      BY <1>1, <1>2, <1>16, <2>1, <2>2
      DEF FinishAbort, Accounted, CanceledHasCause, LockOK, SlotsMatchStates,
          RequestsRecorded, Settled, With
    <2> QED
      BY <1>1, <2>3, <2>4, <2>5, <2>6, <2>7
  <1>17. CASE ExecutePending
    <2> DEFINE gs == IF goalState[lock.gh] = "ACCEPTED"
                       THEN With(lock.gh, "EXECUTING") ELSE goalState
    <2>1. Settled(gs)
      <3>1. gs \in [Goals -> States]
        BY <1>1, WithType DEF States
      <3>2. Settle(gs)
        BY <1>17 DEF ExecutePending
      <3> QED
        BY <3>1, <3>2, SettleFacts DEF Settled
    <2>2. /\ Waiting' \subseteq Waiting
          /\ Waiting \subseteq Waiting'
          /\ goal_pending' \in Waiting' => goal_pending' = goal_pending
          /\ Waiting' \subseteq Goals
      BY <1>1, <1>17
      DEF ExecutePending, LockOK, SlotsMatchStates, WaitsOnce, Waiting
    <2>3. LockOK' /\ HookSeesItsGoal'
      BY <1>1, <1>2, <1>17, <2>1, <2>2
      DEF ExecutePending, LockOK, HookSeesItsGoal, SlotsMatchStates, Settled,
          With
    <2>4. WaitsOnce'
      BY <1>1, <1>17 DEF ExecutePending, WaitsOnce, SlotsMatchStates, LockOK
    <2>5. RequestsRecorded'
      BY <1>1, <1>2, <1>17, <2>1, <2>2
      DEF ExecutePending, RequestsRecorded, SlotsMatchStates, Settled, With
    <2>6. SlotsMatchStates' /\ ExecutingIsActive'
      BY <1>1, <1>2, <1>17, <2>1, <2>2
      DEF ExecutePending, SlotsMatchStates, ExecutingIsActive, LockOK,
          RequestsRecorded, Settled, With
    <2>7. Accounted' /\ CanceledHasCause'
      BY <1>1, <1>2, <1>17, <2>1, <2>2
      DEF ExecutePending, Accounted, CanceledHasCause, LockOK,
          SlotsMatchStates, RequestsRecorded, Settled, With
    <2> QED
      BY <1>1, <2>3, <2>4, <2>5, <2>6, <2>7
  <1>18. CASE TerminateTest
    <2> DEFINE gs == IF goalState[lock.gh] = "CANCELING"
                       THEN With(lock.gh, "CANCELED") ELSE goalState
    <2>1. goalState' = goalState \/ Settled(gs)
      <3>1. gs \in [Goals -> States]
        BY <1>1, WithType DEF States
      <3>2. goalState' = goalState \/ Settle(gs)
        BY <1>18 DEF TerminateTest
      <3> QED
        BY <3>1, <3>2, SettleFacts DEF Settled
    <2>2. /\ Waiting' \subseteq Waiting
          /\ Waiting \subseteq Waiting' \cup {goal_pending'}
          /\ goal_pending' \in Waiting' => goal_pending' = goal_pending
          /\ Waiting' \subseteq Goals
      BY <1>1, <1>18
      DEF TerminateTest, LockOK, SlotsMatchStates, WaitsOnce, Waiting
    <2>3. LockOK' /\ HookSeesItsGoal'
      BY <1>1, <1>2, <1>18, <2>1, <2>2
      DEF TerminateTest, LockOK, HookSeesItsGoal, SlotsMatchStates, Settled,
          With
    <2>4. WaitsOnce'
      BY <1>1, <1>18 DEF TerminateTest, WaitsOnce, SlotsMatchStates, LockOK
    <2>5. RequestsRecorded'
      BY <1>1, <1>2, <1>18, <2>1, <2>2
      DEF TerminateTest, RequestsRecorded, SlotsMatchStates, Settled, With
    <2>6. SlotsMatchStates' /\ ExecutingIsActive'
      BY <1>1, <1>2, <1>18, <2>1, <2>2
      DEF TerminateTest, SlotsMatchStates, ExecutingIsActive, LockOK,
          RequestsRecorded, Settled, With
    <2>7. Accounted' /\ CanceledHasCause'
      BY <1>1, <1>2, <1>18, <2>1, <2>2
      DEF TerminateTest, Accounted, CanceledHasCause, LockOK,
          SlotsMatchStates, RequestsRecorded, Settled, With
    <2> QED
      BY <1>1, <2>3, <2>4, <2>5, <2>6, <2>7
  <1>19. CASE TerminateExecute
    <2> DEFINE gs == IF goalState[lock.gh] = "ACCEPTED"
                       THEN With(lock.gh, "EXECUTING") ELSE goalState
    <2>1. Settled(gs)
      <3>1. gs \in [Goals -> States]
        BY <1>1, WithType DEF States
      <3>2. goalState' = gs \/ Settle(gs)
        BY <1>19 DEF TerminateExecute
      <3> QED
        BY <3>1, <3>2, SettleFacts DEF Settled
    <2>2. /\ Waiting' \subseteq Waiting
          /\ Waiting \subseteq Waiting' \cup {goal_pending'}
          /\ goal_pending' \in Waiting' => goal_pending' = goal_pending
          /\ Waiting' \subseteq Goals
      BY <1>1, <1>19
      DEF TerminateExecute, LockOK, SlotsMatchStates, WaitsOnce, Waiting
    <2>3. LockOK' /\ HookSeesItsGoal'
      BY <1>1, <1>2, <1>19, <2>1, <2>2
      DEF TerminateExecute, LockOK, HookSeesItsGoal, SlotsMatchStates,
          Settled, With
    <2>4. WaitsOnce'
      BY <1>1, <1>19 DEF TerminateExecute, WaitsOnce, SlotsMatchStates, LockOK
    <2>5. RequestsRecorded'
      BY <1>1, <1>2, <1>19, <2>1, <2>2
      DEF TerminateExecute, RequestsRecorded, SlotsMatchStates, Settled, With
    <2>6. SlotsMatchStates' /\ ExecutingIsActive'
      BY <1>1, <1>2, <1>19, <2>1, <2>2
      DEF TerminateExecute, SlotsMatchStates, ExecutingIsActive, LockOK,
          RequestsRecorded, Settled, With
    <2>7. Accounted' /\ CanceledHasCause'
      BY <1>1, <1>2, <1>19, <2>1, <2>2
      DEF TerminateExecute, Accounted, CanceledHasCause, LockOK,
          SlotsMatchStates, RequestsRecorded, Settled, With
    <2> QED
      BY <1>1, <2>3, <2>4, <2>5, <2>6, <2>7
  <1>20. CASE TerminateAbort
    <2> DEFINE gs == IF goalState[lock.gh] \in Running
                       THEN With(lock.gh, "ABORTED") ELSE goalState
    <2>1. Settled(gs)
      <3>1. gs \in [Goals -> States]
        BY <1>1, WithType DEF States
      <3>2. Settle(gs)
        BY <1>20 DEF TerminateAbort
      <3> QED
        BY <3>1, <3>2, SettleFacts DEF Settled
    <2>2. /\ Waiting' \subseteq Waiting
          /\ Waiting \subseteq Waiting' \cup {goal_pending'}
          /\ goal_pending' \in Waiting' => goal_pending' = goal_pending
          /\ Waiting' \subseteq Goals
      BY <1>1, <1>20
      DEF TerminateAbort, LockOK, SlotsMatchStates, WaitsOnce, Waiting
    <2>3. LockOK' /\ HookSeesItsGoal'
      BY <1>1, <1>2, <1>20, <2>1, <2>2
      DEF TerminateAbort, LockOK, HookSeesItsGoal, SlotsMatchStates, Settled,
          With
    <2>4. WaitsOnce'
      BY <1>1, <1>20 DEF TerminateAbort, WaitsOnce, SlotsMatchStates, LockOK
    <2>5. RequestsRecorded'
      BY <1>1, <1>2, <1>20, <2>1, <2>2
      DEF TerminateAbort, RequestsRecorded, SlotsMatchStates, Settled, With
    <2>6. SlotsMatchStates' /\ ExecutingIsActive'
      BY <1>1, <1>2, <1>20, <2>1, <2>2
      DEF TerminateAbort, SlotsMatchStates, ExecutingIsActive, LockOK,
          RequestsRecorded, Settled, With
    <2>7. Accounted' /\ CanceledHasCause'
      BY <1>1, <1>2, <1>20, <2>1, <2>2
      DEF TerminateAbort, Accounted, CanceledHasCause, LockOK,
          SlotsMatchStates, RequestsRecorded, Settled, With
    <2> QED
      BY <1>1, <2>3, <2>4, <2>5, <2>6, <2>7
  <1>21. CASE ExecuteMessage
    <2>1. goalState' = goalState
      BY <1>21 DEF ExecuteMessage
    <2>2. /\ 1 \in DOMAIN queue
          /\ owner' = [at |-> "start", op |-> queue[1].op, gh |-> queue[1].gh]
          /\ \A i \in DOMAIN queue' :
                i + 1 \in DOMAIN queue /\ queue'[i] = queue[i + 1]
          /\ \A i, j \in DOMAIN queue' : i + 1 # 1 /\ (i + 1 = j + 1 => i = j)
          /\ \A i \in DOMAIN queue :
                i = 1 \/ \E j \in DOMAIN queue' : queue'[j] = queue[i]
          /\ queue[1] \in Messages
      BY <1>1, <1>21, TailFacts DEF ExecuteMessage
    <2>3. /\ Waiting' \subseteq Waiting
          /\ Waiting \subseteq Waiting'
          /\ goal_pending' \in Waiting' => goal_pending' = goal_pending
          /\ Waiting' \subseteq Goals
      <3>1. Waiting' \subseteq Waiting
        BY <1>21, <2>2 DEF ExecuteMessage, Waiting, AtAccepted, Messages
      <3>2. ASSUME NEW g \in Waiting PROVE g \in Waiting'
        <4>1. CASE ros.at = "accepted" /\ ros.gh = g
          BY <1>21, <4>1 DEF ExecuteMessage, Waiting
        <4>2. ASSUME NEW i \in DOMAIN queue,
                     queue[i].op = "acceptedCallback", queue[i].gh = g
              PROVE  g \in Waiting'
          BY <2>2, <4>2 DEF Waiting, AtAccepted
        <4> QED
          BY <1>21, <4>1, <4>2 DEF Waiting, AtAccepted, ExecuteMessage, OwnerIdle
      <3> QED
        BY <1>21, <3>1, <3>2 DEF ExecuteMessage, Waiting
    <2>4. LockOK' /\ HookSeesItsGoal'
      BY <1>1, <1>2, <1>21, <2>1, <2>3, <2>2
      DEF ExecuteMessage, LockOK, HookSeesItsGoal, SlotsMatchStates, Messages
    <2>5. WaitsOnce'
      <3>1. UNCHANGED ros /\ owner.at = "idle"
        BY <1>21 DEF ExecuteMessage
      <3>2. \A i, j \in DOMAIN queue' :
               /\ queue'[i].op = "acceptedCallback"
               /\ queue'[j].op = "acceptedCallback"
               /\ queue'[i].gh = queue'[j].gh
               => i = j
        BY <2>2 DEF WaitsOnce
      <3>3. \A i \in DOMAIN queue' : queue'[i].op = "acceptedCallback" =>
               /\ ros.at = "accepted" => ros.gh # queue'[i].gh
               /\ queue[1].op = "acceptedCallback" => queue[1].gh # queue'[i].gh
        BY <2>2 DEF WaitsOnce
      <3>4. ros.at = "accepted" /\ queue[1].op = "acceptedCallback"
               => queue[1].gh # ros.gh
        BY <2>2 DEF WaitsOnce
      <3> QED
        BY <2>2, <3>1, <3>2, <3>3, <3>4 DEF WaitsOnce
    <2>6. RequestsRecorded'
      BY <1>1, <1>2, <1>21, <2>1, <2>3, <2>2
      DEF ExecuteMessage, RequestsRecorded, SlotsMatchStates, Messages
    <2>7. SlotsMatchStates' /\ ExecutingIsActive'
      BY <1>1, <1>2, <1>21, <2>1, <2>3, <2>2
      DEF ExecuteMessage, SlotsMatchStates, ExecutingIsActive, LockOK,
          RequestsRecorded, Messages
    <2>8. Accounted' /\ CanceledHasCause'
      BY <1>1, <1>2, <1>21, <2>1, <2>3, <2>2
      DEF ExecuteMessage, Accounted, CanceledHasCause, LockOK,
          SlotsMatchStates, RequestsRecorded, Messages
    <2> QED
      BY <1>1, <2>4, <2>5, <2>6, <2>7, <2>8
  <1>22. CASE AcceptedCallback
    <2>1. Settled(goalState)
      <3>1. goalState' = goalState \/ Settle(goalState)
        BY <1>22 DEF AcceptedCallback
      <3> QED
        BY <1>1, <3>1, SettleFacts DEF Settled
    <2>2. /\ Waiting' \subseteq Waiting
          /\ Waiting \subseteq Waiting' \cup {goal_pending'}
          /\ goal_pending' \in Waiting' => goal_pending' = goal_pending
          /\ Waiting' \subseteq Goals
      BY <1>1, <1>22
      DEF AcceptedCallback, LockOK, SlotsMatchStates, WaitsOnce, Waiting
    <2>3. LockOK' /\ HookSeesItsGoal'
      BY <1>1, <1>2, <1>22, <2>1, <2>2
      DEF AcceptedCallback, LockOK, HookSeesItsGoal, SlotsMatchStates, Settled
    <2>4. WaitsOnce'
      BY <1>1, <1>22 DEF AcceptedCallback, WaitsOnce, SlotsMatchStates, LockOK
    <2>5. RequestsRecorded'
      BY <1>1, <1>2, <1>22, <2>1, <2>2
      DEF AcceptedCallback, RequestsRecorded, SlotsMatchStates, Settled
    <2>6. SlotsMatchStates' /\ ExecutingIsActive'
      BY <1>1, <1>2, <1>22, <2>1, <2>2
      DEF AcceptedCallback, SlotsMatchStates, ExecutingIsActive, LockOK,
          RequestsRecorded, Settled
    <2>7. Accounted' /\ CanceledHasCause'
      BY <1>1, <1>2, <1>22, <2>1, <2>2
      DEF AcceptedCallback, Accounted, CanceledHasCause, LockOK,
          SlotsMatchStates, RequestsRecorded, Settled
    <2> QED
      BY <1>1, <2>3, <2>4, <2>5, <2>6, <2>7
  <1>23. CASE CancelHandler
    <2>1. Settled(goalState)
      <3>1. goalState' = goalState \/ Settle(goalState)
        BY <1>23 DEF CancelHandler
      <3> QED
        BY <1>1, <3>1, SettleFacts DEF Settled
    <2>2. /\ Waiting' \subseteq Waiting
          /\ Waiting \subseteq Waiting'
          /\ goal_pending' \in Waiting' => goal_pending' = goal_pending
          /\ Waiting' \subseteq Goals
      BY <1>1, <1>23
      DEF CancelHandler, LockOK, SlotsMatchStates, WaitsOnce, Waiting
    <2>3. LockOK' /\ HookSeesItsGoal'
      BY <1>1, <1>2, <1>23, <2>1, <2>2
      DEF CancelHandler, LockOK, HookSeesItsGoal, SlotsMatchStates, Settled
    <2>4. WaitsOnce'
      BY <1>1, <1>23 DEF CancelHandler, WaitsOnce, SlotsMatchStates, LockOK
    <2>5. RequestsRecorded'
      BY <1>1, <1>2, <1>23, <2>1, <2>2
      DEF CancelHandler, RequestsRecorded, SlotsMatchStates, Settled
    <2>6. SlotsMatchStates' /\ ExecutingIsActive'
      BY <1>1, <1>2, <1>23, <2>1, <2>2
      DEF CancelHandler, SlotsMatchStates, ExecutingIsActive, LockOK,
          RequestsRecorded, Settled
    <2>7. Accounted' /\ CanceledHasCause'
      BY <1>1, <1>2, <1>23, <2>1, <2>2
      DEF CancelHandler, Accounted, CanceledHasCause, LockOK,
          SlotsMatchStates, RequestsRecorded, Settled
    <2> QED
      BY <1>1, <2>3, <2>4, <2>5, <2>6, <2>7
  <1>24. CASE HookReturns
    <2>1. Settled(goalState)
      BY <1>1, <1>24, SettleFacts DEF HookReturns
    <2>2. /\ Waiting' \subseteq Waiting
          /\ Waiting \subseteq Waiting'
          /\ goal_pending' \in Waiting' => goal_pending' = goal_pending
          /\ Waiting' \subseteq Goals
      BY <1>1, <1>24
      DEF HookReturns, LockOK, SlotsMatchStates, WaitsOnce, Waiting
    <2>3. LockOK' /\ HookSeesItsGoal'
      BY <1>1, <1>2, <1>24, <2>1, <2>2
      DEF HookReturns, LockOK, HookSeesItsGoal, SlotsMatchStates, Settled
    <2>4. WaitsOnce'
      BY <1>1, <1>24 DEF HookReturns, WaitsOnce, SlotsMatchStates, LockOK
    <2>5. RequestsRecorded'
      BY <1>1, <1>2, <1>24, <2>1, <2>2
      DEF HookReturns, RequestsRecorded, SlotsMatchStates, Settled
    <2>6. SlotsMatchStates' /\ ExecutingIsActive'
      BY <1>1, <1>2, <1>24, <2>1, <2>2
      DEF HookReturns, SlotsMatchStates, ExecutingIsActive, LockOK,
          RequestsRecorded, Settled
    <2>7. Accounted' /\ CanceledHasCause'
      BY <1>1, <1>2, <1>24, <2>1, <2>2
      DEF HookReturns, Accounted, CanceledHasCause, LockOK, SlotsMatchStates,
          RequestsRecorded, Settled
    <2> QED
      BY <1>1, <2>3, <2>4, <2>5, <2>6, <2>7
  <1>25. CASE CancelFinish
    <2>1. Settled(goalState)
      <3>1. goalState' = goalState \/ Settle(goalState)
        BY <1>25 DEF CancelFinish
      <3> QED
        BY <1>1, <3>1, SettleFacts DEF Settled
    <2>2. /\ Waiting' \subseteq Waiting
          /\ Waiting \subseteq Waiting'
          /\ goal_pending' \in Waiting' => goal_pending' = goal_pending
          /\ Waiting' \subseteq Goals
      BY <1>1, <1>25
      DEF CancelFinish, LockOK, SlotsMatchStates, WaitsOnce, Waiting
    <2>3. LockOK' /\ HookSeesItsGoal'
      BY <1>1, <1>2, <1>25, <2>1, <2>2
      DEF CancelFinish, LockOK, HookSeesItsGoal, SlotsMatchStates, Settled
    <2>4. WaitsOnce'
      BY <1>1, <1>25 DEF CancelFinish, WaitsOnce, SlotsMatchStates, LockOK
    <2>5. RequestsRecorded'
      BY <1>1, <1>2, <1>25, <2>1, <2>2
      DEF CancelFinish, RequestsRecorded, SlotsMatchStates, Settled
    <2>6. SlotsMatchStates' /\ ExecutingIsActive'
      BY <1>1, <1>2, <1>25, <2>1, <2>2
      DEF CancelFinish, SlotsMatchStates, ExecutingIsActive, LockOK,
          RequestsRecorded, Settled
    <2>7. Accounted' /\ CanceledHasCause'
      BY <1>1, <1>2, <1>25, <2>1, <2>2
      DEF CancelFinish, Accounted, CanceledHasCause, LockOK, SlotsMatchStates,
          RequestsRecorded, Settled
    <2> QED
      BY <1>1, <2>3, <2>4, <2>5, <2>6, <2>7
  <1>26. CASE UNCHANGED vars
    BY <1>26
    DEF vars, IInv, TypeOK, LockOK, WaitsOnce, RequestsRecorded, Accounted,
        SlotsMatchStates, ExecutingIsActive, CanceledHasCause, HookSeesItsGoal,
        Waiting, AtAccepted
  <1> QED
    BY <1>3, <1>4, <1>5, <1>6, <1>7, <1>8, <1>9, <1>10, <1>11, <1>12, <1>13,
       <1>14, <1>15, <1>16, <1>17, <1>18, <1>19, <1>20, <1>21, <1>22, <1>23,
       <1>24, <1>25, <1>26
    DEF Next, Ros, Api, Locked, OwnerStep

\* IInv is an invariant of the specification.
LEMMA Invariant == Spec => []IInv
  <1>1. Init => IInv
    BY InvInit
  <1>2. IInv /\ [Next]_vars => IInv'
    BY InvStep
  <1> QED
    BY <1>1, <1>2, PTL DEF Spec

-----------------------------------------------------------------------------
(* The theorems.                                                           *)

\* The variables have their types: in particular the owner's queue stays
\* within its capacity and mutex_ is held by one thread at a time.
THEOREM TypeCorrect == Spec => []TypeOK
  <1>1. IInv => TypeOK
    BY DEF IInv
  <1> QED
    BY <1>1, Invariant, PTL

\* goal_active_ and goal_pending_ agree with the states of the goals for any
\* number of goals and threads, so that finishActive() and succeedActive()
\* find a goal they may finish.
THEOREM SlotsCorrect == Spec => []SlotsMatchStates
  <1>1. IInv => SlotsMatchStates
    BY DEF IInv
  <1> QED
    BY <1>1, Invariant, PTL

\* Goals execute only as the active goal (terminateGoal() and shutdown()
\* apart), whatever the interleaving of acceptPending() with the rest.
THEOREM ExecutingCorrect == Spec => []ExecutingIsActive
  <1>1. IInv => ExecutingIsActive
    BY DEF IInv
  <1> QED
    BY <1>1, Invariant, PTL

\* No goal is canceled without an accepted cancel request, a shutdown() or a
\* message lost on a full queue.
THEOREM CancelCorrect == Spec => []CanceledHasCause
  <1>1. IInv => CanceledHasCause
    BY DEF IInv
  <1> QED
    BY <1>1, Invariant, PTL

\* The goal hook runs with its own goal, or none, in the pending slot.
THEOREM HookCorrect == Spec => []HookSeesItsGoal
  <1>1. IInv => HookSeesItsGoal
    BY DEF IInv
  <1> QED
    BY <1>1, Invariant, PTL

-----------------------------------------------------------------------------
(* Accepted cancel requests are handled.                                   *)

\* What cancelHandler() knows on its way: the goal it gave to the hook is not
\* the pending one, and under mutex_ it works on its own goal.
HandlerOK ==
    /\ owner.op = "cancelHandler" /\ owner.at \in {"hook", "after"} =>
          owner.gh # goal_pending
    /\ lock.op = "cancelHandler" => owner.gh = lock.gh

HandledInv == CancelIsHandled /\ HandlerOK

\* A step that sends no message, leaves the owner thread where it is and puts
\* no other goals into the slots keeps every handler at work.
LEMMA HandledQuiet ==
    ASSUME IInv, HandledInv, UNCHANGED <<queue, owner, requested, unheard>>,
           goal_active' \in {goal_active, goal_pending, NoGoal},
           goal_pending' \in {goal_pending, NoGoal},
           lock'.op = "cancelHandler" => lock.op = "cancelHandler" /\ lock'.gh = lock.gh
    PROVE  HandledInv'
  <1>1. CancelIsHandled'
    BY NoGoalAssumption DEF HandledInv, CancelIsHandled, CancelUnderway
  <1>2. HandlerOK'
    BY NoGoalAssumption DEF HandledInv, HandlerOK, IInv, TypeOK
  <1> QED
    BY <1>1, <1>2 DEF HandledInv

\* A step in which the owner thread leaves an operation that is no longer of
\* use: the handler's goal is in no slot any more, or the goal it adds to the
\* pending slot was never the subject of a cancel request.
LEMMA HandledReturns ==
    ASSUME IInv, HandledInv, UNCHANGED <<queue, requested, unheard>>,
           goal_active' \in {goal_active, NoGoal},
           goal_pending' \in {goal_pending, NoGoal, owner.gh},
           goal_pending' = owner.gh => owner.op = "acceptedCallback" /\ AtAccepted,
           owner.op = "cancelHandler" => owner.gh \notin {goal_active', goal_pending'},
           owner'.op # "cancelHandler", lock'.op # "cancelHandler"
    PROVE  HandledInv'
  <1>1. AtAccepted => owner.gh \notin requested
    BY NoGoalAssumption
    DEF IInv, RequestsRecorded, Waiting, AtAccepted, TypeOK, Handles
  <1>2. CancelIsHandled'
    BY <1>1, NoGoalAssumption DEF HandledInv, CancelIsHandled, CancelUnderway
  <1>3. HandlerOK'
    BY DEF HandlerOK
  <1> QED
    BY <1>2, <1>3 DEF HandledInv

\* terminateGoal() returns to the operation that called it.
LEMMA HandledAfterTerminate ==
    ASSUME IInv, HandledInv, UNCHANGED <<queue, requested, unheard, goal_active>>,
           lock.at \in {"terminate", "terminate_execute", "terminate_abort"},
           AfterTerminate
    PROVE  HandledInv'
  <1>1. /\ lock.op \in {"rejectPending", "acceptedCallback", "cancelHandler"}
        /\ lock.gh = goal_pending /\ lock.gh # NoGoal
        /\ lock' = Unlocked /\ Unlocked.op = "none"
    BY DEF IInv, LockOK, TypeOK, AfterTerminate, Unlocked
  <1>2. CASE lock.op = "rejectPending"
    BY <1>1, <1>2, HandledQuiet DEF AfterTerminate
  <1>3. CASE lock.op = "acceptedCallback"
    <2>1. AtAccepted /\ owner.op = "acceptedCallback"
      BY <1>3 DEF IInv, LockOK, AtAccepted
    <2>2. goal_pending' = owner.gh /\ owner'.op # "cancelHandler"
      BY <1>3, <2>1 DEF AfterTerminate, OwnerAt, OwnerIdle
    <2> QED
      BY <1>1, <2>1, <2>2, HandledReturns
  <1>4. CASE lock.op = "cancelHandler"
    <2>1. owner.gh = goal_pending /\ owner.gh # goal_active
      BY <1>1, <1>4 DEF HandledInv, HandlerOK, IInv, SlotsMatchStates
    <2>2. goal_pending' = NoGoal /\ owner'.op # "cancelHandler"
      BY <1>4 DEF AfterTerminate, OwnerIdle
    <2>3. owner.gh # NoGoal
      BY <1>1, <2>1
    <2> QED
      BY <1>1, <2>1, <2>2, <2>3, HandledReturns
  <1> QED
    BY <1>1, <1>2, <1>3, <1>4

\* finishActive() returns to the operation that called it.
LEMMA HandledAfterFinish ==
    ASSUME IInv, HandledInv, UNCHANGED <<queue, requested, unheard, goal_pending>>,
           lock.at \in {"finish", "abort"}, goal_active' = NoGoal, AfterFinish
    PROVE  HandledInv'
  <1>1. lock'.op # "cancelHandler"
    BY DEF AfterFinish, LockAt, Unlocked
  <1>2. CASE lock.op = "cancelHandler"
    <2>1. /\ owner.op = "cancelHandler" /\ owner.at = "after"
          /\ owner.gh # goal_pending /\ owner.gh # NoGoal
      BY <1>2 DEF IInv, LockOK, TypeOK, HandledInv, HandlerOK
    <2>2. owner'.op # "cancelHandler"
      BY <1>2 DEF AfterFinish, OwnerIdle
    <2> QED
      BY <1>1, <2>1, <2>2, HandledReturns
  <1>3. CASE lock.op # "cancelHandler"
    BY <1>1, <1>3, HandledQuiet DEF AfterFinish
  <1> QED
    BY <1>2, <1>3

\* Every step keeps the handlers of accepted requests at work.
LEMMA HandledStep == IInv /\ HandledInv /\ [Next]_vars => HandledInv'
  <1> SUFFICES ASSUME IInv, HandledInv, [Next]_vars PROVE HandledInv'
    OBVIOUS
  <1>1. TypeOK
    BY DEF IInv
  <1>2. Unlocked.op = "none"
    BY DEF Unlocked
  <1>3. CASE HandleAccepted
    <2>1. ros.gh \in Goals
      BY <1>1, <1>3 DEF HandleAccepted, TypeOK, Handles
    <2>2. \A i \in DOMAIN queue : i \in DOMAIN queue' /\ queue'[i] = queue[i]
      BY <1>1, <1>3, <2>1, SendFacts DEF HandleAccepted
    <2>3. UNCHANGED <<owner, lock, requested, unheard, goal_active, goal_pending>>
      BY <1>3 DEF HandleAccepted
    <2>4. CancelIsHandled'
      BY <2>2, <2>3 DEF HandledInv, CancelIsHandled, CancelUnderway
    <2> QED
      BY <2>3, <2>4 DEF HandledInv, HandlerOK
  <1>4. CASE CancelCallback
    <2>1. ros.gh \in Goals
      BY <1>1, <1>4 DEF CancelCallback, TypeOK, Handles
    <2>2. UNCHANGED <<owner, lock, goal_active, goal_pending>>
      BY <1>4 DEF CancelCallback
    <2>3. CASE UNCHANGED <<queue, requested, unheard>>
      BY <2>2, <2>3, HandledQuiet
    <2>4. CASE ~UNCHANGED <<queue, requested, unheard>>
      <3>1. /\ Send("cancelHandler", ros.gh)
            /\ requested' = requested \cup {ros.gh}
            /\ unheard' = IF Len(queue) < QueueSize THEN unheard
                                                    ELSE unheard \cup {ros.gh}
        BY <1>4, <2>4 DEF CancelCallback
      <3>2. /\ queue' \in Seq(Messages)
            /\ \A i \in DOMAIN queue : i \in DOMAIN queue' /\ queue'[i] = queue[i]
            /\ Len(queue) < QueueSize =>
                  \E i \in DOMAIN queue' :
                      queue'[i].op = "cancelHandler" /\ queue'[i].gh = ros.gh
        BY <1>1, <2>1, <3>1, SendFacts
      <3>4. \A g \in Goals :
               g = ros.gh /\ Len(queue) < QueueSize => CancelUnderway(g)'
        BY <3>2 DEF CancelUnderway
      <3>5. \A g \in Goals : CancelUnderway(g) => CancelUnderway(g)'
        BY <2>2, <3>2 DEF CancelUnderway
      <3>6. CancelIsHandled'
        BY <2>2, <3>1, <3>4, <3>5 DEF HandledInv, CancelIsHandled
      <3> QED
        BY <2>2, <3>6 DEF HandledInv, HandlerOK
    <2> QED
      BY <2>3, <2>4
  <1>5. ASSUME NEW g \in Goals, HandleGoal(g) \/ CancelRequest(g) PROVE HandledInv'
    BY <1>5, HandledQuiet DEF HandleGoal, CancelRequest
  <1>6. CASE CancelGoal
    BY <1>6, HandledQuiet DEF CancelGoal
  <1>7. ASSUME NEW t \in Threads, Start(t) \/ Shutdown(t) \/ SucceedActive(t)
        PROVE  HandledInv'
    BY <1>7, HandledQuiet DEF Start, Shutdown, SucceedActive
  <1>8. ASSUME NEW t \in Threads, NEW h \in {"goal", "cancel"}, SetHook(t, h)
        PROVE  HandledInv'
    BY <1>8, HandledQuiet DEF SetHook
  <1>9. ASSUME NEW t \in Threads, AcceptPending(t) \/ RejectPending(t) \/ FinishActive(t)
        PROVE  HandledInv'
    <2>1. lock'.op # "cancelHandler"
      BY <1>9 DEF AcceptPending, RejectPending, FinishActive, Acquire
    <2> QED
      BY <1>9, <2>1, HandledQuiet DEF AcceptPending, RejectPending, FinishActive
  <1>10. CASE FinishTest \/ FinishAbort
    <2>1. \/ lock'.op = lock.op /\ lock'.gh = lock.gh /\ UNCHANGED <<goal_active, owner>>
          \/ goal_active' = NoGoal /\ AfterFinish
      BY <1>10 DEF FinishTest, FinishAbort, LockAt
    <2>2. /\ UNCHANGED <<queue, requested, unheard, goal_pending>>
          /\ lock.at \in {"finish", "abort"}
      BY <1>10 DEF FinishTest, FinishAbort
    <2> QED
      BY <2>1, <2>2, HandledQuiet, HandledAfterFinish
  <1>11. CASE ExecutePending
    <2>1. lock.gh = goal_pending
      BY <1>11 DEF ExecutePending, IInv, LockOK
    <2> QED
      BY <1>2, <1>11, <2>1, HandledQuiet DEF ExecutePending
  <1>12. CASE TerminateTest \/ TerminateExecute \/ TerminateAbort
    <2>1. \/ lock'.op = lock.op /\ lock'.gh = lock.gh /\ UNCHANGED <<goal_pending, owner>>
          \/ AfterTerminate
      BY <1>12 DEF TerminateTest, TerminateExecute, TerminateAbort, LockAt
    <2>2. /\ UNCHANGED <<queue, requested, unheard, goal_active>>
          /\ lock.at \in {"terminate", "terminate_execute", "terminate_abort"}
      BY <1>12 DEF TerminateTest, TerminateExecute, TerminateAbort
    <2> QED
      BY <2>1, <2>2, HandledQuiet, HandledAfterTerminate
  <1>13. CASE ExecuteMessage
    <2>1. /\ owner.op = "none"
          /\ UNCHANGED <<lock, requested, unheard, goal_active, goal_pending>>
      BY <1>13 DEF ExecuteMessage, OwnerIdle
    <2>2. /\ owner' = [at |-> "start", op |-> queue[1].op, gh |-> queue[1].gh]
          /\ \A i \in DOMAIN queue :
                i = 1 \/ \E j \in DOMAIN queue' : queue'[j] = queue[i]
      BY <1>1, <1>13, TailFacts DEF ExecuteMessage
    <2>3. ASSUME NEW g \in Goals, CancelUnderway(g) PROVE CancelUnderway(g)'
      <3>1. PICK i \in DOMAIN queue : queue[i].op = "cancelHandler" /\ queue[i].gh = g
        BY <2>1, <2>3 DEF CancelUnderway
      <3>2. CASE i = 1
        BY <2>2, <3>1, <3>2 DEF CancelUnderway
      <3>3. CASE i # 1
        BY <2>2, <3>1, <3>3 DEF CancelUnderway
      <3> QED
        BY <3>2, <3>3
    <2>4. CancelIsHandled'
      BY <2>1, <2>3 DEF HandledInv, CancelIsHandled
    <2>5. lock.op # "cancelHandler"
      BY <2>1 DEF IInv, LockOK
    <2>6. HandlerOK'
      BY <2>1, <2>2, <2>5 DEF HandlerOK
    <2> QED
      BY <2>4, <2>6 DEF HandledInv
  <1>14. CASE AcceptedCallback
    <2>1. AtAccepted /\ owner.op = "acceptedCallback" /\ lock = Unlocked
      BY <1>14 DEF AcceptedCallback, AtAccepted
    <2>2. UNCHANGED <<queue, requested, unheard, goal_active>>
      BY <1>14 DEF AcceptedCallback
    <2>3. CASE isPending
      <3>1. UNCHANGED <<goal_pending, owner>> /\ lock'.op # "cancelHandler"
        BY <1>14, <2>3 DEF AcceptedCallback, Acquire
      <3> QED
        BY <2>2, <3>1, HandledQuiet
    <2>4. CASE ~isPending
      <3>1. goal_pending' = owner.gh /\ owner'.op # "cancelHandler" /\ lock' = lock
        BY <1>14, <2>1, <2>4 DEF AcceptedCallback, OwnerAt, OwnerIdle
      <3> QED
        BY <1>2, <2>1, <2>2, <3>1, HandledReturns
    <2> QED
      BY <2>3, <2>4
  <1>15. CASE CancelHandler
    <2>1. /\ owner.op = "cancelHandler" /\ lock = Unlocked /\ owner.gh # NoGoal
          /\ UNCHANGED <<queue, requested, unheard, goal_active, goal_pending>>
      BY <1>1, <1>15 DEF CancelHandler, TypeOK
    <2>2. CASE owner.gh = goal_active
      <3>1. owner'.op = owner.op /\ owner'.gh = owner.gh /\ lock' = lock
        BY <1>15, <2>2 DEF CancelHandler, OwnerAt
      <3>2. owner.gh # goal_pending
        BY <2>1, <2>2 DEF IInv, SlotsMatchStates
      <3>3. CancelIsHandled'
        BY <2>1, <3>1 DEF HandledInv, CancelIsHandled, CancelUnderway
      <3> QED
        BY <1>2, <2>1, <3>1, <3>2, <3>3 DEF HandledInv, HandlerOK
    <2>3. CASE owner.gh # goal_active /\ owner.gh = goal_pending
      <3>1. UNCHANGED owner /\ lock'.gh = owner.gh
        BY <1>15, <2>3 DEF CancelHandler, Acquire
      <3>2. CancelIsHandled'
        BY <2>1, <3>1 DEF HandledInv, CancelIsHandled, CancelUnderway
      <3> QED
        BY <2>1, <3>1, <3>2 DEF HandledInv, HandlerOK
    <2>4. CASE owner.gh \notin {goal_active, goal_pending}
      <3>1. owner'.op # "cancelHandler" /\ lock' = lock
        BY <1>15, <2>4 DEF CancelHandler, OwnerIdle
      <3> QED
        BY <1>2, <2>1, <2>4, <3>1, HandledReturns
    <2> QED
      BY <2>2, <2>3, <2>4
  <1>16. CASE HookReturns
    <2>1. UNCHANGED <<queue, requested, unheard, goal_active, goal_pending, lock>>
      BY <1>16 DEF HookReturns
    <2>2. lock.op # "cancelHandler"
      BY <1>16 DEF HookReturns, IInv, LockOK, TypeOK
    <2>3. CASE owner.op = "cancelHandler"
      <3>1. owner'.op = owner.op /\ owner'.gh = owner.gh
        BY <1>16, <2>3 DEF HookReturns, OwnerAt
      <3>2. owner.gh # goal_pending
        BY <1>16, <2>3 DEF HookReturns, HandledInv, HandlerOK
      <3>3. CancelIsHandled'
        BY <2>1, <3>1 DEF HandledInv, CancelIsHandled, CancelUnderway
      <3> QED
        BY <2>1, <2>2, <3>1, <3>2, <3>3 DEF HandledInv, HandlerOK
    <2>4. CASE owner.op # "cancelHandler"
      <3>1. owner'.op # "cancelHandler"
        BY <1>16, <2>4 DEF HookReturns, OwnerIdle
      <3>2. CancelIsHandled'
        BY <2>1, <2>4, <3>1 DEF HandledInv, CancelIsHandled, CancelUnderway
      <3> QED
        BY <2>1, <2>2, <3>1, <3>2 DEF HandledInv, HandlerOK
    <2> QED
      BY <2>3, <2>4
  <1>17. CASE CancelFinish
    <2>1. /\ owner.op = "cancelHandler" /\ owner.at = "after" /\ lock = Unlocked
          /\ owner.gh # NoGoal /\ owner.gh # goal_pending
          /\ UNCHANGED <<queue, requested, unheard, goal_active, goal_pending>>
      BY <1>17 DEF CancelFinish, IInv, LockOK, TypeOK, HandledInv, HandlerOK
    <2>2. CASE owner.gh = goal_active
      <3>1. UNCHANGED owner /\ lock'.gh = owner.gh
        BY <1>17, <2>2 DEF CancelFinish, Acquire
      <3>2. CancelIsHandled'
        BY <2>1, <3>1 DEF HandledInv, CancelIsHandled, CancelUnderway
      <3> QED
        BY <2>1, <3>1, <3>2 DEF HandledInv, HandlerOK
    <2>3. CASE owner.gh # goal_active
      <3>1. owner'.op # "cancelHandler" /\ lock' = lock
        BY <1>17, <2>3 DEF CancelFinish, OwnerIdle
      <3> QED
        BY <1>2, <2>1, <2>3, <3>1, HandledReturns
    <2> QED
      BY <2>2, <2>3
  <1>18. CASE UNCHANGED vars
    BY <1>18, HandledQuiet DEF vars
  <1> QED
    BY <1>3, <1>4, <1>5, <1>6, <1>7, <1>8, <1>9, <1>10, <1>11, <1>12, <1>13,
       <1>14, <1>15, <1>16, <1>17, <1>18
    DEF Next, Ros, Api, Locked, OwnerStep

\* An accepted cancel request whose message reached the queue is handled to
\* the end: while its goal is in a slot, cancelHandler() is still to come or
\* at work, for any number of goals, threads and any size of the queue.
THEOREM CancelHandled == Spec => []CancelIsHandled
  <1>1. Init => HandledInv
    BY DEF Init, HandledInv, CancelIsHandled, HandlerOK, OwnerIdle, Unlocked
  <1>2. IInv /\ HandledInv /\ [Next]_vars => HandledInv'
    BY HandledStep
  <1>3. HandledInv => CancelIsHandled
    BY DEF HandledInv
  <1> QED
    BY <1>1, <1>2, <1>3, Invariant, PTL DEF Spec

-----------------------------------------------------------------------------
(* The server implements GoalSlots.                                        *)

\* In a state of the invariant the phase of a goal says where it is.
PhaseSays ==
    /\ phaseOf = [g \in Goals |-> phaseOf[g]]
    /\ \A g \in Goals :
          /\ phaseOf[g] \in {"new", "waiting", "pending", "active", "done"}
          /\ phaseOf[g] = "new" <=> goalState[g] = "NEW"
          /\ phaseOf[g] = "waiting" <=> g \in Waiting
          /\ phaseOf[g] = "pending" <=> g = goal_pending
          /\ phaseOf[g] = "active" <=> g = goal_active

LEMMA PhaseFacts == IInv => PhaseSays
  <1> SUFFICES ASSUME IInv PROVE PhaseSays
    OBVIOUS
  <1>1. \A g \in Goals : g \in Waiting =>
            goalState[g] = "ACCEPTED" /\ g # goal_active /\ g # goal_pending
    BY DEF IInv, SlotsMatchStates
  <1>2. goal_active # NoGoal => goalState[goal_active] # "NEW" /\ goal_active # goal_pending
    BY DEF IInv, SlotsMatchStates, Running
  <1>3. goal_pending # NoGoal => goalState[goal_pending] # "NEW"
    BY DEF IInv, SlotsMatchStates, LockOK, Running, Deferred
  <1>4. \A g \in Goals : g # NoGoal
    BY NoGoalAssumption
  <1> QED
    BY <1>1, <1>2, <1>3, <1>4 DEF PhaseSays, phaseOf

\* The steps that GoalSlots allows, in terms of the server's state.
NewAlike == \A g \in Goals : goalState'[g] = "NEW" <=> goalState[g] = "NEW"

Receives(g) ==
    /\ goalState[g] = "NEW" /\ goalState'[g] # "NEW"
    /\ \A h \in Goals \ {g} : goalState'[h] = "NEW" <=> goalState[h] = "NEW"
    /\ \A h \in Goals : h \in Waiting' <=> h \in Waiting \/ h = g
    /\ UNCHANGED <<goal_pending, goal_active>>

Defers(g) ==
    /\ NewAlike
    /\ g \in Waiting /\ goal_pending' = g /\ UNCHANGED goal_active
    /\ \A h \in Goals : h \in Waiting' <=> h \in Waiting /\ h # g

Activates(g) ==
    /\ NewAlike
    /\ goal_pending = g /\ goal_pending' = NoGoal
    /\ goal_active = NoGoal /\ goal_active' = g
    /\ \A h \in Goals : h \in Waiting' <=> h \in Waiting

Lets ==
    /\ NewAlike
    /\ \A h \in Goals : h \in Waiting' => h \in Waiting
    /\ goal_pending' \in {goal_pending, NoGoal}
    /\ goal_active' \in {goal_active, NoGoal}

LEMMA ReceivesMaps ==
    ASSUME PhaseSays, PhaseSays', NEW g \in Goals, Receives(g)
    PROVE  Slots!Receive(g)
  <1>1. phaseOf[g] = "new"
    BY DEF PhaseSays, Receives
  <1>2. \A h \in Goals : phaseOf'[h] = IF h = g THEN "waiting" ELSE phaseOf[h]
    BY DEF PhaseSays, Receives
  <1>3. phaseOf' = [phaseOf EXCEPT ![g] = "waiting"]
    BY <1>2 DEF PhaseSays
  <1> QED
    BY <1>1, <1>3 DEF Slots!Receive

LEMMA DefersMaps ==
    ASSUME PhaseSays, PhaseSays', NEW g \in Goals, Defers(g)
    PROVE  Slots!Defer(g)
  <1>1. phaseOf[g] = "waiting"
    BY DEF PhaseSays, Defers
  <1>2. \A h \in Goals : phaseOf'[h] = IF h = g THEN "pending"
                                       ELSE IF phaseOf[h] = "pending" THEN "done"
                                       ELSE phaseOf[h]
    BY DEF PhaseSays, Defers, NewAlike
  <1>3. phaseOf' = [h \in Goals |-> IF h = g THEN "pending"
                                    ELSE IF phaseOf[h] = "pending" THEN "done"
                                    ELSE phaseOf[h]]
    BY <1>2 DEF PhaseSays
  <1> QED
    BY <1>1, <1>3 DEF Slots!Defer, Slots!In

LEMMA ActivatesMaps ==
    ASSUME PhaseSays, PhaseSays', NEW g \in Goals, Activates(g)
    PROVE  Slots!Activate(g)
  <1>1. phaseOf[g] = "pending" /\ \A h \in Goals : phaseOf[h] # "active"
    BY NoGoalAssumption DEF PhaseSays, Activates
  <1>2. \A h \in Goals : phaseOf'[h] = IF h = g THEN "active" ELSE phaseOf[h]
    BY NoGoalAssumption DEF PhaseSays, Activates, NewAlike
  <1>3. phaseOf' = [phaseOf EXCEPT ![g] = "active"]
    BY <1>2 DEF PhaseSays
  <1> QED
    BY <1>1, <1>3 DEF Slots!Activate, Slots!In

LEMMA LetsMaps ==
    ASSUME PhaseSays, PhaseSays', Lets
    PROVE  UNCHANGED phaseOf \/ \E S \in SUBSET Goals : Slots!Leave(S)
  <1> DEFINE S == {g \in Goals : phaseOf'[g] # phaseOf[g]}
  <1>1. \A g \in Goals : phaseOf'[g] # phaseOf[g] =>
            phaseOf'[g] = "done" /\ phaseOf[g] # "new" /\ phaseOf[g] # "done"
    BY NoGoalAssumption DEF PhaseSays, Lets, NewAlike
  <1>2. phaseOf' = [g \in Goals |-> IF g \in S THEN "done" ELSE phaseOf[g]]
    BY <1>1 DEF PhaseSays
  <1>3. CASE S = {}
    <2>1. \A g \in Goals : phaseOf'[g] = phaseOf[g]
      BY <1>3
    <2> QED
      BY <2>1 DEF PhaseSays
  <1>4. CASE S # {}
    <2>1. S \cap (Slots!In("new") \cup Slots!In("done")) = {}
      BY <1>1 DEF Slots!In
    <2>2. Slots!Leave(S)
      BY <1>2, <1>4, <2>1 DEF Slots!Leave
    <2> QED
      BY <2>2
  <1> QED
    BY <1>3, <1>4

\* Settle() makes no goal NEW and leaves none that is not.
LEMMA SettleKeepsNew ==
    ASSUME TypeOK
    PROVE  /\ Settle(goalState) => NewAlike
           /\ \A g \in Goals, s \in States \ {"NEW"} :
                 goalState[g] # "NEW" /\ Settle(With(g, s)) => NewAlike
  <1>1. goalState \in [Goals -> States]
    BY DEF TypeOK
  <1>2. ASSUME Settle(goalState) PROVE NewAlike
    BY <1>1, <1>2, SettleFacts DEF NewAlike, Settled, Live, Deferred, Running
  <1>3. ASSUME NEW g \in Goals, NEW s \in States \ {"NEW"}, goalState[g] # "NEW",
               Settle(With(g, s))
        PROVE  NewAlike
    <2>1. With(g, s) \in [Goals -> States]
      BY WithType
    <2>2. \A h \in Goals : With(g, s)[h] = IF h = g THEN s ELSE goalState[h]
      BY <1>1 DEF With
    <2>3. Settled(With(g, s))
      BY <1>3, <2>1, SettleFacts
    <2> QED
      BY <1>3, <2>2, <2>3 DEF NewAlike, Settled, Live, Deferred, Running
  <1> QED
    BY <1>2, <1>3

\* The goals that wait are the same unless the owner leaves the beginning of
\* acceptedCallback(), and then its goal waits no more.
LEMMA WaitingAlike ==
    ASSUME UNCHANGED <<queue, ros>>, AtAccepted' <=> AtAccepted,
           AtAccepted => owner'.gh = owner.gh
    PROVE  \A h \in Goals : h \in Waiting' <=> h \in Waiting
  BY DEF Waiting, AtAccepted

LEMMA WaitingLeaves ==
    ASSUME IInv, UNCHANGED <<queue, ros>>, AtAccepted, ~AtAccepted'
    PROVE  /\ owner.gh \in Goals /\ owner.gh \in Waiting
           /\ \A h \in Goals : h \in Waiting' <=> h \in Waiting /\ h # owner.gh
  <1>1. owner.gh \in Goals
    BY DEF IInv, TypeOK, AtAccepted, Handles
  <1>2. /\ \A i \in DOMAIN queue : queue[i].op = "acceptedCallback" => owner.gh # queue[i].gh
        /\ ros.at = "accepted" => owner.gh # ros.gh
    BY DEF IInv, WaitsOnce
  <1> QED
    BY <1>1, <1>2 DEF Waiting

\* A step of GoalSlots or none.
Moves == \/ \E g \in Goals : Receives(g) \/ Defers(g) \/ Activates(g)
         \/ Lets

\* terminateGoal() returns: the pending goal leaves, and another may take its
\* place.
LEMMA AfterTerminateMoves ==
    ASSUME IInv, lock.at \in {"terminate", "terminate_execute", "terminate_abort"},
           AfterTerminate, NewAlike, UNCHANGED <<goal_active, queue, ros>>
    PROVE  Moves
  <1>1. lock.op \in {"rejectPending", "acceptedCallback", "cancelHandler"}
    BY DEF IInv, LockOK
  <1>2. CASE lock.op = "acceptedCallback"
    <2>1. AtAccepted /\ ~AtAccepted' /\ goal_pending' = owner.gh
      BY <1>2 DEF IInv, LockOK, AtAccepted, AfterTerminate, OwnerAt, OwnerIdle
    <2>2. Defers(owner.gh) /\ owner.gh \in Goals
      BY <2>1, WaitingLeaves DEF Defers
    <2> QED
      BY <2>2 DEF Moves
  <1>3. CASE lock.op # "acceptedCallback"
    <2>1. goal_pending' = NoGoal
      BY <1>3 DEF AfterTerminate
    <2>2. (AtAccepted' <=> AtAccepted) /\ (AtAccepted => owner'.gh = owner.gh)
      <3>1. CASE lock.op = "rejectPending"
        BY <3>1 DEF AfterTerminate, AtAccepted
      <3>2. CASE lock.op = "cancelHandler"
        BY <3>2 DEF AfterTerminate, AtAccepted, IInv, LockOK, OwnerIdle
      <3> QED
        BY <1>1, <1>3, <3>1, <3>2
    <2>3. \A h \in Goals : h \in Waiting' <=> h \in Waiting
      BY <2>2, WaitingAlike
    <2> QED
      BY <2>1, <2>3 DEF Moves, Lets
  <1> QED
    BY <1>2, <1>3

\* Every step of the server is one of GoalSlots or none.
LEMMA StepMoves == IInv /\ [Next]_vars => Moves
  <1> SUFFICES ASSUME IInv, [Next]_vars PROVE Moves
    OBVIOUS
  <1>1. TypeOK
    BY DEF IInv
  <1>2. ASSUME NewAlike, UNCHANGED <<queue, ros>>, AtAccepted' <=> AtAccepted,
               AtAccepted => owner'.gh = owner.gh,
               goal_pending' \in {goal_pending, NoGoal},
               goal_active' \in {goal_active, NoGoal}
        PROVE  Moves
    BY <1>2, WaitingAlike DEF Moves, Lets
  <1>3. UNCHANGED goalState => NewAlike
    BY DEF NewAlike
  <1>4. ASSUME NEW g \in Goals, HandleGoal(g) PROVE Moves
    <2>1. goalState' = With(g, "ACCEPTED")
      BY <1>4 DEF HandleGoal
    <2>2. \A h \in Goals : goalState'[h] = IF h = g THEN "ACCEPTED" ELSE goalState[h]
      BY <1>1, <2>1 DEF With, TypeOK
    <2>3. \A h \in Goals : h \in Waiting' <=> h \in Waiting \/ h = g
      BY <1>4 DEF HandleGoal, Waiting, AtAccepted, RosIdle
    <2>4. Receives(g)
      BY <1>4, <2>2, <2>3 DEF HandleGoal, Receives
    <2> QED
      BY <2>4 DEF Moves
  <1>5. CASE HandleAccepted
    <2>1. NewAlike
      BY <1>1, <1>5, SettleKeepsNew DEF HandleAccepted
    <2>2. ros.gh \in Goals /\ ros.at = "accepted" /\ ros'.at = "idle" /\ UNCHANGED owner
      BY <1>1, <1>5 DEF HandleAccepted, TypeOK, Handles, RosIdle
    <2>3. \A i \in DOMAIN queue' :
             \/ i \in DOMAIN queue /\ queue'[i] = queue[i]
             \/ queue'[i].op = "acceptedCallback" /\ queue'[i].gh = ros.gh
      BY <1>1, <1>5, <2>2, SendFacts DEF HandleAccepted
    <2>4. \A h \in Goals : h \in Waiting' => h \in Waiting
      BY <2>2, <2>3 DEF Waiting, AtAccepted
    <2> QED
      BY <1>5, <2>1, <2>4 DEF HandleAccepted, Moves, Lets
  <1>6. ASSUME NEW g \in Goals, CancelRequest(g) PROVE Moves
    <2>1. /\ NewAlike /\ ros.at = "idle" /\ ros'.at = "cancelCallback"
          /\ UNCHANGED <<queue, owner, goal_pending, goal_active>>
      BY <1>3, <1>6 DEF CancelRequest, RosIdle
    <2>2. \A h \in Goals : h \in Waiting' => h \in Waiting
      BY <2>1 DEF Waiting, AtAccepted
    <2> QED
      BY <2>1, <2>2 DEF Moves, Lets
  <1>7. CASE CancelCallback
    <2>1. NewAlike
      BY <1>1, <1>7, SettleKeepsNew DEF CancelCallback
    <2>2. /\ ros.gh \in Goals /\ ros'.at # "accepted"
          /\ UNCHANGED <<owner, goal_pending, goal_active>>
      BY <1>1, <1>7 DEF CancelCallback, TypeOK, Handles, RosIdle
    <2>3. \A i \in DOMAIN queue' :
             \/ i \in DOMAIN queue /\ queue'[i] = queue[i]
             \/ queue'[i].op = "cancelHandler"
      BY <1>1, <1>7, <2>2, SendFacts DEF CancelCallback
    <2>4. \A h \in Goals : h \in Waiting' => h \in Waiting
      BY <2>2, <2>3 DEF Waiting, AtAccepted
    <2> QED
      BY <2>1, <2>2, <2>4 DEF Moves, Lets
  <1>8. CASE CancelGoal
    <2>1. /\ ros.gh \in Goals /\ ros'.at # "accepted"
          /\ UNCHANGED <<queue, owner, goal_pending, goal_active>>
      BY <1>1, <1>8 DEF CancelGoal, TypeOK, Handles, RosIdle
    <2>2. NewAlike
      BY <1>1, <1>8, <2>1, SettleKeepsNew DEF CancelGoal, States, Live, Deferred
    <2>3. \A h \in Goals : h \in Waiting' => h \in Waiting
      BY <2>1 DEF Waiting, AtAccepted
    <2> QED
      BY <2>1, <2>2, <2>3 DEF Moves, Lets
  <1>9. ASSUME NEW t \in Threads,
               Start(t) \/ AcceptPending(t) \/ RejectPending(t) \/ FinishActive(t)
        PROVE  Moves
    BY <1>2, <1>3, <1>9
    DEF Start, AcceptPending, RejectPending, FinishActive, AtAccepted
  <1>10. ASSUME NEW t \in Threads, NEW h \in {"goal", "cancel"}, SetHook(t, h)
         PROVE  Moves
    BY <1>2, <1>3, <1>10 DEF SetHook, AtAccepted
  <1>11. ASSUME NEW t \in Threads, Shutdown(t) PROVE Moves
    <2>1. NewAlike
      BY <1>1, <1>11, SettleKeepsNew DEF Shutdown
    <2> QED
      BY <1>2, <1>11, <2>1 DEF Shutdown, AtAccepted
  <1>12. ASSUME NEW t \in Threads, SucceedActive(t) PROVE Moves
    <2>1. goal_active \in Goals /\ goalState[goal_active] # "NEW"
      BY <1>1, <1>12 DEF SucceedActive, TypeOK, Handles, Running
    <2>2. NewAlike
      BY <1>1, <1>12, <2>1, SettleKeepsNew DEF SucceedActive, States, Terminal
    <2> QED
      BY <1>2, <1>12, <2>2 DEF SucceedActive, AtAccepted
  <1>13. CASE FinishTest \/ FinishAbort
    <2>1. goal_active \in Goals /\ goalState[goal_active] # "NEW"
      BY <1>13 DEF FinishTest, FinishAbort, IInv, LockOK, SlotsMatchStates, TypeOK, Handles,
                   Running
    <2>2. NewAlike
      BY <1>1, <1>3, <1>13, <2>1, SettleKeepsNew
      DEF FinishTest, FinishAbort, States, Terminal
    <2>3. (AtAccepted' <=> AtAccepted) /\ (AtAccepted => owner'.gh = owner.gh)
      <3>1. lock.op = "cancelHandler" => owner.op = "cancelHandler"
        BY DEF IInv, LockOK
      <3>2. UNCHANGED owner \/ (lock.op = "cancelHandler" /\ owner' = OwnerIdle)
        BY <1>13 DEF FinishTest, FinishAbort, AfterFinish
      <3> QED
        BY <3>1, <3>2 DEF AtAccepted, OwnerIdle
    <2>4. /\ UNCHANGED <<queue, ros, goal_pending>>
          /\ goal_active' \in {goal_active, NoGoal}
      BY <1>13 DEF FinishTest, FinishAbort
    <2> QED
      BY <1>2, <2>2, <2>3, <2>4
  <1>14. CASE ExecutePending
    <2>1. /\ lock.gh = goal_pending /\ goal_active = NoGoal
          /\ goal_pending \in Goals /\ goalState[goal_pending] # "NEW"
      BY <1>14 DEF ExecutePending, IInv, LockOK, TypeOK, Handles, Deferred
    <2>2. NewAlike
      BY <1>1, <1>14, <2>1, SettleKeepsNew DEF ExecutePending, States, Live, Running
    <2>3. UNCHANGED <<queue, ros, owner>> /\ goal_pending' = NoGoal
      BY <1>14 DEF ExecutePending
    <2>4. \A h \in Goals : h \in Waiting' <=> h \in Waiting
      BY <2>3, WaitingAlike DEF AtAccepted
    <2>5. goal_active' = goal_pending \/ UNCHANGED goal_active
      BY <1>14, <2>1 DEF ExecutePending
    <2>6. Activates(goal_pending) \/ Lets
      BY <2>1, <2>2, <2>3, <2>4, <2>5 DEF Activates, Lets
    <2> QED
      BY <2>1, <2>6 DEF Moves
  <1>15. CASE TerminateTest \/ TerminateExecute \/ TerminateAbort
    <2>1. /\ lock.at \in {"terminate", "terminate_execute", "terminate_abort"}
          /\ UNCHANGED <<goal_active, queue, ros>>
      BY <1>15 DEF TerminateTest, TerminateExecute, TerminateAbort
    <2>2. lock.gh \in Goals /\ goalState[lock.gh] # "NEW"
      <3>1. lock.gh = goal_pending /\ lock.gh \in Goals
        BY <2>1 DEF IInv, LockOK, TypeOK, Handles
      <3> QED
        BY <2>1, <3>1, NoGoalAssumption DEF IInv, LockOK, SlotsMatchStates, Deferred, Running
    <2>3. NewAlike
      <3>1. CASE TerminateTest
        BY <1>1, <1>3, <2>2, <3>1, SettleKeepsNew DEF TerminateTest, States, Terminal
      <3>2. CASE TerminateExecute
        <4>1. goalState' = With(lock.gh, "EXECUTING") => NewAlike
          BY <1>1, <2>2 DEF With, NewAlike, TypeOK
        <4> QED
          BY <1>1, <3>2, <4>1, SettleKeepsNew DEF TerminateExecute
      <3>3. CASE TerminateAbort
        BY <1>1, <2>2, <3>3, SettleKeepsNew DEF TerminateAbort, States, Terminal
      <3> QED
        BY <1>15, <3>1, <3>2, <3>3
    <2>4. AfterTerminate \/ UNCHANGED <<goal_pending, owner>>
      BY <1>15 DEF TerminateTest, TerminateExecute, TerminateAbort
    <2>5. CASE UNCHANGED <<goal_pending, owner>>
      BY <1>2, <2>1, <2>3, <2>5 DEF AtAccepted
    <2> QED
      BY <2>1, <2>3, <2>4, <2>5, AfterTerminateMoves
  <1>16. CASE ExecuteMessage
    <2>1. /\ owner.at = "idle" /\ UNCHANGED <<ros, goal_pending, goal_active>> /\ NewAlike
      BY <1>3, <1>16 DEF ExecuteMessage, OwnerIdle
    <2>2. /\ 1 \in DOMAIN queue
          /\ owner' = [at |-> "start", op |-> queue[1].op, gh |-> queue[1].gh]
          /\ \A i \in DOMAIN queue' :
                i + 1 \in DOMAIN queue /\ queue'[i] = queue[i + 1]
      BY <1>1, <1>16, TailFacts DEF ExecuteMessage
    <2>3. \A h \in Goals : h \in Waiting' => h \in Waiting
      BY <2>1, <2>2 DEF Waiting, AtAccepted
    <2> QED
      BY <2>1, <2>3 DEF Moves, Lets
  <1>17. CASE AcceptedCallback
    <2>1. NewAlike
      BY <1>1, <1>3, <1>17, SettleKeepsNew DEF AcceptedCallback
    <2>2. AtAccepted /\ UNCHANGED <<queue, ros, goal_active>>
      BY <1>17 DEF AcceptedCallback, AtAccepted
    <2>3. CASE isPending
      <3>1. UNCHANGED <<goal_pending, owner>>
        BY <1>17, <2>3 DEF AcceptedCallback
      <3> QED
        BY <1>2, <2>1, <2>2, <3>1 DEF AtAccepted
    <2>4. CASE ~isPending
      <3>1. goal_pending' = owner.gh /\ ~AtAccepted'
        BY <1>17, <2>4 DEF AcceptedCallback, AtAccepted, OwnerAt, OwnerIdle
      <3>2. Defers(owner.gh) /\ owner.gh \in Goals
        BY <2>1, <2>2, <3>1, WaitingLeaves DEF Defers
      <3> QED
        BY <3>2 DEF Moves
    <2> QED
      BY <2>3, <2>4
  <1>18. CASE CancelHandler \/ HookReturns \/ CancelFinish
    <2>1. NewAlike
      BY <1>1, <1>3, <1>18, SettleKeepsNew DEF CancelHandler, HookReturns, CancelFinish
    <2>2. ~AtAccepted /\ ~AtAccepted'
      BY <1>18 DEF CancelHandler, HookReturns, CancelFinish, AtAccepted, OwnerAt, OwnerIdle,
                   IInv, LockOK
    <2>3. UNCHANGED <<queue, ros, goal_pending, goal_active>>
      BY <1>18 DEF CancelHandler, HookReturns, CancelFinish
    <2> QED
      BY <1>2, <2>1, <2>2, <2>3
  <1>19. CASE UNCHANGED vars
    BY <1>2, <1>3, <1>19 DEF vars, AtAccepted
  <1> QED
    BY <1>4, <1>5, <1>6, <1>7, <1>8, <1>9, <1>10, <1>11, <1>12, <1>13, <1>14, <1>15,
       <1>16, <1>17, <1>18, <1>19
    DEF Next, Ros, Api, Locked, OwnerStep

\* The server implements GoalSlots, whatever ROS callbacks, owner messages and
\* API calls interleave: goals move only forwards through the slots, a goal
\* that becomes pending pushes out the one that was, and only a pending goal
\* becomes active, when none is.
THEOREM ImplementsSlots == Spec => RefinesSlots
  <1>1. Init => Slots!Init
    <2> SUFFICES ASSUME Init PROVE Slots!Init
      OBVIOUS
    <2>1. \A g \in Goals : goalState[g] = "NEW"
      BY Zenon DEF Init
    <2>2. phaseOf = [g \in Goals |-> "new"]
      BY <2>1 DEF phaseOf
    <2> QED
      BY <2>2 DEF Slots!Init
  <1>2. IInv /\ IInv' /\ [Next]_vars => [Slots!Next]_phaseOf
    <2> SUFFICES ASSUME IInv, IInv', [Next]_vars PROVE Slots!Next \/ UNCHANGED phaseOf
      OBVIOUS
    <2>1. PhaseSays /\ PhaseSays'
      <3>1. PhaseSays
        BY PhaseFacts
      <3>2. PhaseSays'
        BY PhaseFacts, PTL
      <3> QED
        BY <3>1, <3>2
    <2>2. Moves
      BY StepMoves
    <2>3. ASSUME NEW g \in Goals, Receives(g) \/ Defers(g) \/ Activates(g)
          PROVE  Slots!Next
      BY <2>1, <2>3, ReceivesMaps, DefersMaps, ActivatesMaps DEF Slots!Next
    <2>4. CASE Lets
      BY <2>1, <2>4, LetsMaps DEF Slots!Next
    <2> QED
      BY <2>2, <2>3, <2>4 DEF Moves
  <1> QED
    BY <1>1, <1>2, Invariant, PTL DEF Spec, RefinesSlots, Slots!Spec
=============================================================================
