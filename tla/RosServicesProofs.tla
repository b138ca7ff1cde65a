------------------------- MODULE RosServicesProofs -------------------------
(***************************************************************************)
(* RosServices for any names, types, operations and signatures: TypeOK,    *)
(* CallerHasClient and ServerFits are preserved together, because a name *)
(* keeps the type of its proxy until the proxy is erased, and erasing it   *)
(* unbinds its callers.  InFlightHasClient follows from CallHoldsClient,   *)
(* the copy of client_ that a call makes before it blocks.                 *)
(***************************************************************************)
EXTENDS RosServices, TLAPS

USE NoneAssumption

\* A step that leaves the script's state alone keeps what is said about it.
LEMMA ScriptFrame ==
    ASSUME ProxiesAreKnown, CallerHasClient, ServerFits, UNCHANGED script
    PROVE  ProxiesAreKnown' /\ CallerHasClient' /\ ServerFits'
<1>1. ProxiesAreKnown'
  BY DEF ProxiesAreKnown, script
<1>2. CallerHasClient'
  BY DEF CallerHasClient, script, FitsClient
<1>3. ServerFits'
  BY DEF ServerFits, script, FitsServer
<1>. QED BY <1>1, <1>2, <1>3

\* The initial states satisfy the inductive invariant.
LEMMA InvInit == Init => IInv
<1>. SUFFICES ASSUME Init PROVE IInv
  OBVIOUS
<1>1. TypeOK
  <2>1. /\ exec \in [pc : {"free", "taken", "own", "inline", "ran"},
                     name : Names \cup {None}, proxy : {"live", "gone"}]
        /\ engine \in [pc : {"free", "waiting", "operation"},
                       local : Clients, uses : Clients]
    BY BoundsAssumption DEF Init, Free, Clients
  <2>2. made \in Clients /\ requests \in [Names -> 0 .. MaxRequests]
    BY BoundsAssumption DEF Init, Clients
  <2>3. client \in [Names -> Clients]
    BY BoundsAssumption DEF Init, Clients
  <2>. QED BY <2>1, <2>2, <2>3 DEF Init, TypeOK
<1>2. ProxiesAreKnown
  BY DEF Init, ProxiesAreKnown
<1>3. CallerHasClient
  BY DEF Init, CallerHasClient
<1>4. ServerFits
  BY DEF Init, ServerFits
<1>5. CallHoldsClient
  BY DEF Init, CallHoldsClient
<1>. QED BY <1>1, <1>2, <1>3, <1>4, <1>5 DEF IInv

\* connect() of an operation caller keeps the invariant.
LEMMA ConnectCallerStep ==
    ASSUME IInv, NEW c \in Callers, NEW n \in Names, NEW t \in Types,
           ConnectCaller(c, n, t)
    PROVE  IInv'
<1>. USE DEF IInv
<1>0. made + 1 # 0
  BY BoundsAssumption DEF TypeOK, Clients
<1>1. /\ client_type'[n] \in factories
      /\ \A m \in Names : m # n => client_type'[m] = client_type[m]
      /\ client_type[n] # None => client_type'[n] = client_type[n]
  BY DEF TypeOK, ProxiesAreKnown, ConnectCaller, ProxyType
<1>2. client_type' \in [Names -> Types \cup {None}]
  BY DEF TypeOK, ConnectCaller, ProxyType
<1>3. TypeOK'
  <2>1. CASE UNCHANGED <<client, bound, made>>
    BY <2>1, <1>2 DEF TypeOK, ConnectCaller
  <2>2. CASE ~UNCHANGED <<client, bound, made>>
    <3>1. made' \in Clients /\ client' \in [Names -> Clients]
      <4>1. made \in Nat /\ made < MaxClients /\ made' = made + 1
        BY <2>2, BoundsAssumption DEF TypeOK, ConnectCaller, Clients
      <4>2. made + 1 \in Clients
        BY <4>1, BoundsAssumption DEF Clients
      <4>. QED BY <4>1, <4>2, <2>2 DEF TypeOK, ConnectCaller
    <3>2. bound' \in [Callers -> Names \cup {None, Dangling}]
      BY <2>2 DEF TypeOK, ConnectCaller
    <3>. QED BY <3>1, <3>2, <1>2 DEF TypeOK, ConnectCaller
  <2>. QED BY <2>1, <2>2
<1>4. ProxiesAreKnown'
  BY <1>1 DEF ProxiesAreKnown, ConnectCaller
<1>5. CallerHasClient'
  <2>. SUFFICES ASSUME NEW d \in Callers, bound'[d] \in Names
                PROVE  /\ client'[bound'[d]] # 0
                       /\ client_type'[bound'[d]] \in factories'
                       /\ FitsClient(d, client_type'[bound'[d]])
    BY DEF CallerHasClient, FitsClient
  <2>1. CASE bound'[d] = bound[d]
    <3>1. client[bound[d]] # 0 /\ client_type[bound[d]] \in factories
      BY <2>1 DEF CallerHasClient
    <3>2. client_type'[bound[d]] = client_type[bound[d]]
      BY <2>1, <3>1, <1>1 DEF TypeOK
    <3>3. client'[bound[d]] # 0
      BY <2>1, <3>1, <1>0 DEF TypeOK, ConnectCaller
    <3>. QED
      BY <2>1, <3>1, <3>2, <3>3 DEF CallerHasClient, ConnectCaller
  <2>2. CASE bound'[d] # bound[d]
    <3>1. node /\ d = c /\ bound'[d] = n /\ FitsClient(c, client_type'[n])
      BY <2>2 DEF TypeOK, ConnectCaller
    <3>2. client' = [client EXCEPT ![n] = made + 1]
      BY <2>2 DEF ConnectCaller
    <3>3. client'[n] # 0
      BY <3>2, <1>0 DEF TypeOK
    <3>. QED BY <3>1, <3>3, <1>1 DEF ConnectCaller
  <2>. QED BY <2>1, <2>2
<1>6. ServerFits'
  BY DEF ServerFits, ConnectCaller, FitsServer
<1>7. CallHoldsClient'
  BY DEF CallHoldsClient, ConnectCaller
<1>. QED BY <1>3, <1>4, <1>5, <1>6, <1>7

\* connect() of an operation keeps the invariant.
LEMMA ConnectOperationStep ==
    ASSUME IInv, NEW o \in Ops, NEW n \in Names, NEW t \in Types,
           ConnectOperation(o, n, t)
    PROVE  IInv'
<1>. USE DEF IInv
<1>1. /\ server_type'[n] \in factories
      /\ \A m \in Names : m # n => server_type'[m] = server_type[m]
      /\ server_type[n] # None => server_type'[n] = server_type[n]
  BY DEF TypeOK, ProxiesAreKnown, ConnectOperation, ProxyType
<1>2. server_type' \in [Names -> Types \cup {None}]
  BY DEF TypeOK, ConnectOperation, ProxyType
<1>3. TypeOK'
  <2>1. /\ impl' \in [Names -> Ops \cup {None}]
        /\ server' \in SUBSET Names
        /\ requests' \in [Names -> 0 .. MaxRequests]
    <3>1. CASE ~node
      BY <3>1 DEF TypeOK, ConnectOperation
    <3>2. CASE node /\ FitsServer(o, server_type'[n])
      <4>1. 0 \in 0 .. MaxRequests
        BY BoundsAssumption
      <4>. QED BY <3>2, <4>1 DEF TypeOK, ConnectOperation
    <3>3. CASE node /\ ~FitsServer(o, server_type'[n])
      BY <3>3 DEF TypeOK, ConnectOperation
    <3>. QED BY <3>1, <3>2, <3>3
  <2>2. exec' \in [pc : {"free", "taken", "own", "inline", "ran"},
                   name : Names \cup {None}, proxy : {"live", "gone"}]
    BY DEF TypeOK, ConnectOperation
  <2>. QED BY <2>1, <2>2, <1>2 DEF TypeOK, ConnectOperation
<1>4. ProxiesAreKnown'
  BY <1>1 DEF ProxiesAreKnown, ConnectOperation
<1>5. CallerHasClient'
  BY DEF CallerHasClient, ConnectOperation, FitsClient
<1>6. ServerFits'
  <2>. SUFFICES ASSUME NEW m \in Names, impl'[m] # None
                PROVE  /\ server_type'[m] \in factories'
                       /\ FitsServer(impl'[m], server_type'[m])
    BY DEF ServerFits, FitsServer
  <2>1. CASE m # n \/ ~node
    <3>1. impl'[m] = impl[m]
      BY <2>1 DEF TypeOK, ConnectOperation
    <3>2. server_type[m] \in factories /\ server_type[m] # None
      BY <3>1 DEF TypeOK, ServerFits
    <3>3. server_type'[m] = server_type[m] /\ factories' = factories
      BY <3>2, <1>1 DEF ConnectOperation
    <3>. QED BY <3>1, <3>3 DEF ServerFits
  <2>2. CASE m = n /\ node
    BY <2>2, <1>1 DEF TypeOK, ConnectOperation, FitsServer
  <2>. QED BY <2>1, <2>2
<1>7. CallHoldsClient'
  BY DEF CallHoldsClient, ConnectOperation
<1>. QED BY <1>3, <1>4, <1>5, <1>6, <1>7

\* Erasing proxies, in disconnect() and disconnectAll(), keeps the invariant.
LEMMA EraseStep ==
    ASSUME IInv, NEW ns \in SUBSET Names, Erase(ns)
    PROVE  IInv'
<1>. USE DEF IInv
<1>1. TypeOK'
  <2>1. /\ client_type' \in [Names -> Types \cup {None}]
        /\ client' \in [Names -> Clients]
        /\ server_type' \in [Names -> Types \cup {None}]
        /\ impl' \in [Names -> Ops \cup {None}]
        /\ server' \in SUBSET Names
        /\ requests' \in [Names -> 0 .. MaxRequests]
    BY BoundsAssumption DEF TypeOK, Erase, Clients
  <2>2. bound' \in [Callers -> Names \cup {None, Dangling}]
    BY DEF TypeOK, Erase
  <2>3. exec' \in [pc : {"free", "taken", "own", "inline", "ran"},
                   name : Names \cup {None}, proxy : {"live", "gone"}]
    BY DEF TypeOK, Erase
  <2>. QED BY <2>1, <2>2, <2>3 DEF TypeOK, Erase
<1>2. ProxiesAreKnown'
  BY DEF ProxiesAreKnown, Erase
<1>3. CallerHasClient'
  <2>. SUFFICES ASSUME NEW d \in Callers, bound'[d] \in Names
                PROVE  /\ client'[bound'[d]] # 0
                       /\ client_type'[bound'[d]] \in factories'
                       /\ FitsClient(d, client_type'[bound'[d]])
    BY DEF CallerHasClient, FitsClient
  <2>1. bound'[d] = bound[d] /\ bound[d] \notin ns
    BY DEF Erase
  <2>. QED BY <2>1 DEF CallerHasClient, Erase
<1>4. ServerFits'
  BY DEF ServerFits, Erase, FitsServer
<1>5. CallHoldsClient'
  BY DEF CallHoldsClient, Erase
<1>. QED BY <1>1, <1>2, <1>3, <1>4, <1>5

\* Every step keeps the invariant.
LEMMA InvStep == IInv /\ [Next]_vars => IInv'
<1>. SUFFICES ASSUME IInv, [Next]_vars PROVE IInv'
  OBVIOUS
<1>1. CASE \E t \in Types : RegisterServiceFactory(t)
  <2>. PICK t \in Types : RegisterServiceFactory(t)
    BY <1>1
  <2>1. TypeOK' /\ CallHoldsClient'
    BY DEF IInv, TypeOK, CallHoldsClient, RegisterServiceFactory
  <2>2. ProxiesAreKnown'
    BY DEF IInv, ProxiesAreKnown, RegisterServiceFactory
  <2>3. CallerHasClient'
    BY DEF IInv, CallerHasClient, RegisterServiceFactory, FitsClient
  <2>4. ServerFits'
    BY DEF IInv, ServerFits, RegisterServiceFactory, FitsServer
  <2>. QED BY <2>1, <2>2, <2>3, <2>4 DEF IInv
<1>2. CASE LoadNode
  BY <1>2 DEF IInv, TypeOK, ProxiesAreKnown, CallerHasClient, ServerFits,
              CallHoldsClient, LoadNode, FitsClient, FitsServer
<1>3. CASE \E c \in Callers, n \in Names, t \in Types : ConnectCaller(c, n, t)
  BY <1>3, ConnectCallerStep
<1>4. CASE \E o \in Ops, n \in Names, t \in Types : ConnectOperation(o, n, t)
  BY <1>4, ConnectOperationStep
<1>5. CASE (\E n \in Names : Disconnect(n)) \/ DisconnectAll
  BY <1>5, EraseStep DEF Disconnect, DisconnectAll
<1>6. CASE \E c \in Callers : CallOperation(c)
  <2>. PICK c \in Callers : CallOperation(c)
    BY <1>6
  <2>1. TypeOK' /\ CallHoldsClient'
    BY DEF IInv, TypeOK, CallHoldsClient, CallOperation, script
  <2>. QED BY <2>1, ScriptFrame DEF IInv, CallOperation
<1>7. CASE RunOperation \/ OperationReturns
  <2>1. TypeOK' /\ CallHoldsClient'
    BY <1>7 DEF IInv, TypeOK, CallHoldsClient, RunOperation, OperationReturns,
                script
  <2>. QED BY <1>7, <2>1, ScriptFrame DEF IInv, RunOperation, OperationReturns
<1>8. CASE (\E n \in Names : RemoteRequest(n)) \/ RemoteResponse
  <2>1. TypeOK'
    <3>1. CASE RemoteResponse
      BY <3>1 DEF IInv, TypeOK, RemoteResponse, script
    <3>2. ASSUME NEW n \in Names, RemoteRequest(n) PROVE TypeOK'
      <4>1. requests[n] + 1 \in 0 .. MaxRequests
        BY <3>2, BoundsAssumption DEF IInv, TypeOK, RemoteRequest
      <4>. QED BY <3>2, <4>1 DEF IInv, TypeOK, RemoteRequest, script
    <3>. QED BY <1>8, <3>1, <3>2
  <2>2. CallHoldsClient'
    BY <1>8 DEF IInv, CallHoldsClient, RemoteRequest, RemoteResponse
  <2>. QED BY <1>8, <2>1, <2>2, ScriptFrame DEF IInv, RemoteRequest, RemoteResponse
<1>9. CASE \E n \in Names : TakeRequest(n)
  <2>1. TypeOK' /\ CallHoldsClient'
    BY <1>9, BoundsAssumption DEF IInv, TypeOK, CallHoldsClient, TakeRequest, script
  <2>. QED BY <1>9, <2>1, ScriptFrame DEF IInv, TakeRequest
<1>10. CASE Dispatch \/ DispatchInline \/ DispatchReturns
  <2>1. exec' \in [pc : {"free", "taken", "own", "inline", "ran"},
                   name : Names \cup {None}, proxy : {"live", "gone"}]
    <3>1. CASE Dispatch
      BY <3>1 DEF IInv, TypeOK, Dispatch
    <3>2. CASE DispatchInline
      BY <3>2 DEF IInv, TypeOK, DispatchInline
    <3>3. CASE DispatchReturns
      BY <3>3 DEF IInv, TypeOK, DispatchReturns, Free
    <3>. QED BY <1>10, <3>1, <3>2, <3>3
  <2>2. TypeOK' /\ CallHoldsClient'
    BY <1>10, <2>1 DEF IInv, TypeOK, CallHoldsClient, Dispatch, DispatchInline,
                       DispatchReturns, script
  <2>. QED BY <1>10, <2>2, ScriptFrame
              DEF IInv, Dispatch, DispatchInline, DispatchReturns
<1>11. CASE DeliverResponse
  <2>1. TypeOK' /\ CallHoldsClient'
    BY <1>11, BoundsAssumption
       DEF IInv, TypeOK, CallHoldsClient, DeliverResponse, Clients, script
  <2>. QED BY <1>11, <2>1, ScriptFrame DEF IInv, DeliverResponse
<1>12. CASE UNCHANGED vars
  <2>1. TypeOK' /\ CallHoldsClient'
    BY <1>12 DEF IInv, TypeOK, CallHoldsClient, vars, script
  <2>. QED BY <1>12, <2>1, ScriptFrame DEF IInv, vars
<1>. QED
  BY <1>1, <1>2, <1>3, <1>4, <1>5, <1>6, <1>7, <1>8, <1>9, <1>10, <1>11, <1>12
     DEF Next

\* The inductive invariant holds in every reachable state.
LEMMA Invariant == Spec => []IInv
BY InvInit, InvStep, PTL DEF Spec

\* The maps of proxies, the callers and the three threads keep their types.
THEOREM TypeCorrect == Spec => []TypeOK
<1>1. IInv => TypeOK
  BY DEF IInv
<1>. QED BY Invariant, <1>1, PTL

\* For any names, types and signatures, and any sequence of connects and
\* disconnects, a bound operation caller has a client of a type that fits it:
\* the early return for a null client_ is dead code.
THEOREM CallersHaveClients == Spec => []CallerHasClient
<1>1. IInv => CallerHasClient
  BY DEF IInv
<1>. QED BY Invariant, <1>1, PTL

\* A server proxy only ever dispatches to an operation that one of the variants
\* of its own type accepts, also after a connect() that failed half way.
THEOREM ServersFit == Spec => []ServerFits
<1>1. IInv => ServerFits
  BY DEF IInv
<1>. QED BY Invariant, <1>1, PTL

\* A call that blocks in result_future.get() keeps its rclcpp client alive
\* through any connect(), disconnect() and disconnectAll() of its proxy.
THEOREM InFlightKeepsClient == Spec => []InFlightHasClient
<1>1. IInv => InFlightHasClient
  BY DEF IInv, CallHoldsClient, InFlightHasClient, Alive
<1>. QED BY Invariant, <1>1, PTL
=============================================================================
