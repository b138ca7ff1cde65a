-------------------------- MODULE NodeSpinnerProofs --------------------------
(***************************************************************************)
(* Proofs about NodeSpinner, for any number of calls of spin().            *)
(***************************************************************************)
EXTENDS NodeSpinner, TLAPS

\* The invariant holds of a new node.
LEMMA InvInit == Init => IInv
  BY MaxSpinsAssumption
     DEF Init, IInv, TypeOK, ClientOK, NotYet, OneSpinner, SpinIsClean,
         SettledWhenIdle, Alive, Executors, None

\* Every step of the client and of the spinner threads preserves it.
LEMMA InvStep == IInv /\ [Next]_vars => IInv'
  <1> SUFFICES ASSUME IInv, [Next]_vars PROVE IInv'
    OBVIOUS
  <1> USE MaxSpinsAssumption
      DEF IInv, TypeOK, ClientOK, NotYet, OneSpinner, SpinIsClean,
          SettledWhenIdle, Alive, Executors, None
  <1>1. CASE Spin
    BY <1>1 DEF Spin
  <1>2. CASE CancelCall
    BY <1>2 DEF CancelCall
  <1>3. CASE TakeExecutor
    BY <1>3 DEF TakeExecutor
  <1>4. CASE StopExecutor
    BY <1>4 DEF StopExecutor
  <1>5. CASE Join
    BY <1>5 DEF Join
  <1>6. CASE AddNode
    BY <1>6 DEF AddNode
  <1>7. CASE StartThread
    BY <1>7 DEF StartThread
  <1>8. CASE StoreExecutor
    BY <1>8 DEF StoreExecutor
  <1>9. ASSUME NEW x \in Executors, ThreadBegins(x)
        PROVE  IInv'
    BY <1>9 DEF ThreadBegins
  <1>10. ASSUME NEW x \in Executors, ThreadEnds(x)
         PROVE  IInv'
    BY <1>10 DEF ThreadEnds
  <1>11. CASE UNCHANGED vars
    BY <1>11 DEF vars
  <1> QED
    BY <1>1, <1>2, <1>3, <1>4, <1>5, <1>6, <1>7, <1>8, <1>9, <1>10, <1>11
       DEF Next, Client

LEMMA Invariant == Spec => []IInv
  BY InvInit, InvStep, PTL DEF Spec

\* The variables of the spinner keep their types.
THEOREM TypeCorrect == Spec => []TypeOK
  <1>1. IInv => TypeOK
    BY DEF IInv
  <1> QED
    BY <1>1, Invariant, PTL

\* Only the thread that thread_ names is alive, so spin() and cancel() never
\* leave a second spinner behind.
THEOREM SpinnerIsUnique == Spec => []OneSpinner
  <1>1. IInv => OneSpinner
    BY DEF IInv
  <1> QED
    BY <1>1, Invariant, PTL

\* spin() never assigns to a joinable thread_ and never adds the node to a
\* second executor.
THEOREM SpinStartsClean == Spec => []SpinIsClean
  <1>1. IInv => SpinIsClean
    BY DEF IInv
  <1> QED
    BY <1>1, Invariant, PTL

\* Between the operations executor_, thread_ and the node agree.
THEOREM IdleIsSettled == Spec => []SettledWhenIdle
  <1>1. IInv => SettledWhenIdle
    BY DEF IInv
  <1> QED
    BY <1>1, Invariant, PTL

=============================================================================
