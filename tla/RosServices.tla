---------------------------- MODULE RosServices ----------------------------
(***************************************************************************)
(* rtt_ros2_services: the rosservice service of one component.  connect()  *)
(* puts an operation of the component behind a ROS service server, or a    *)
(* ROS service client behind one of its operation callers; disconnect()    *)
(* destroys the proxies.  Four threads take part:                          *)
(*                                                                         *)
(*   script    calls connect(), disconnect() and disconnectAll();          *)
(*   executor  runs the callbacks of the node: requests to the servers and *)
(*             responses to the clients, all in the default callback group *)
(*             and so one at a time, however many spinner threads it has;  *)
(*   engine    the component's own thread: it calls the operation callers  *)
(*             and, for OwnThread operations, runs the operations;         *)
(*   remote    the other nodes, which call the servers and serve clients.  *)
(*                                                                         *)
(* Operations do not call ROS services themselves.  A path of a dotted     *)
(* operation name is looked up once and is one element of Callers or Ops.  *)
(* A call of connect() that is refused before it touches a proxy changes   *)
(* nothing and is a stuttering step.                                       *)
(***************************************************************************)
EXTENDS Naturals, Sequences

CONSTANTS
    Names,         \* ROS service names
    Types,         \* ROS service types
    Callers,       \* operation callers the component requires
    Ops,           \* operations the component provides
    Signature,     \* the signature of each operation and operation caller
    Variants,      \* per type, the signatures a server may dispatch to
    OwnThread,     \* operations run in the component's thread
    MaxClients,    \* bound on the rclcpp clients created
    MaxRequests,   \* bound on the requests waiting at one server
    None,
    Dangling       \* a proxy that has been destroyed

ASSUME NoneAssumption ==
    /\ None \notin Names \cup Types \cup Ops
    /\ Dangling \notin Names \cup {None}
    /\ Callers \cap Ops = {}

ASSUME BoundsAssumption ==
    /\ MaxClients \in Nat
    /\ MaxRequests \in Nat
    /\ OwnThread \subseteq Ops
    /\ \A t \in Types : Len(Variants[t]) \in Nat \ {0}

VARIABLES
    node,          \* getNode(owner) finds a node
    factories,     \* factories_ of the registry
    client_type,   \* client_proxies_: the type of each proxy, None if absent
    client,        \* client_ of each client proxy, 0 for null
    server_type,   \* server_proxies_: the type of each proxy, None if absent
    impl,          \* impl_ of each server proxy, the operation it dispatches to
    server,        \* the server proxies whose server_ is not null
    bound,         \* the proxy in the implementation of each operation caller
    made,          \* rclcpp clients created so far
    engine,        \* what the component's thread does
    remote,        \* the request of the component's call, at the other node
    exec,          \* what the executor does
    requests,      \* requests waiting at each server
    fault          \* the undefined behaviour that was reached

script == <<node, factories, client_type, client, server_type, impl, server,
            bound, made>>
vars   == <<script, engine, remote, exec, requests, fault>>

-----------------------------------------------------------------------------
Clients == 0 .. MaxClients   \* rclcpp clients, 0 for null
Free    == [pc |-> "free", name |-> None, proxy |-> "live"]

TypeOK ==
    /\ node \in BOOLEAN
    /\ factories \in SUBSET Types
    /\ client_type \in [Names -> Types \cup {None}]
    /\ client \in [Names -> Clients]
    /\ server_type \in [Names -> Types \cup {None}]
    /\ impl \in [Names -> Ops \cup {None}]
    /\ server \in SUBSET Names
    /\ bound \in [Callers -> Names \cup {None, Dangling}]
    /\ made \in Clients
    /\ engine \in [pc : {"free", "waiting", "operation"},
                   local : Clients, uses : Clients]
    /\ remote \in {"none", "asked", "answered"}
    /\ exec \in [pc : {"free", "taken", "own", "inline", "ran"},
                 name : Names \cup {None}, proxy : {"live", "gone"}]
    /\ requests \in [Names -> 0 .. MaxRequests]
    /\ fault \in {"none", "destroyed_client_proxy", "destroyed_server_proxy",
                  "null_impl"}

Init ==
    /\ node = FALSE
    /\ factories = {}
    /\ client_type = [n \in Names |-> None]
    /\ client = [n \in Names |-> 0]
    /\ server_type = [n \in Names |-> None]
    /\ impl = [n \in Names |-> None]
    /\ server = {}
    /\ bound = [c \in Callers |-> None]
    /\ made = 0
    /\ engine = [pc |-> "free", local |-> 0, uses |-> 0]
    /\ remote = "none"
    /\ exec = Free
    /\ requests = [n \in Names |-> 0]
    /\ fault = "none"

-----------------------------------------------------------------------------
(* The script.                                                             *)

\* A service plugin registers its factory; nothing ever unregisters one, so
\* the factory that hasServiceFactory() saw is there for getServiceFactory().
RegisterServiceFactory(t) ==
    /\ fault = "none"
    /\ factories' = factories \cup {t}
    /\ UNCHANGED <<node, client_type, client, server_type, impl, server, bound,
                   made, engine, remote, exec, requests, fault>>

\* The component loads the rosnode service, once.
LoadNode ==
    /\ fault = "none"
    /\ ~node
    /\ node' = TRUE
    /\ UNCHANGED <<factories, client_type, client, server_type, impl, server,
                   bound, made, engine, remote, exec, requests, fault>>

\* The type of the proxy for name n that connect() with type t uses: an
\* existing proxy is used whatever its type.
ProxyType(types, n, t) == IF types[n] = None THEN t ELSE types[n]

\* A client dispatches the default signature only.
FitsClient(c, t) == Signature[c] = Head(Variants[t])

\* A server tries its variants in turn until one is ready.
FitsServer(o, t) == \E i \in DOMAIN Variants[t] : Signature[o] = Variants[t][i]

\* Mutant of ConnectCaller: the node is not checked before the caller is bound.
ConnectCallerUnchecked(c, n, t) ==
    /\ fault = "none"
    /\ t \in factories
    /\ client_type' = [client_type EXCEPT ![n] = ProxyType(client_type, n, t)]
    /\ \/ /\ node
          /\ made < MaxClients
          /\ made' = made + 1
          /\ client' = [client EXCEPT ![n] = made + 1]
       \/ ~node /\ UNCHANGED <<client, made>>
    /\ FitsClient(c, client_type'[n])
    /\ bound' = [bound EXCEPT ![c] = n]
    /\ UNCHANGED <<node, factories, server_type, impl, server, engine, remote,
                   exec, requests, fault>>

\* connect() of an operation caller.  The proxy is created before its own
\* connect() is tried and stays when that fails: without a node it has no
\* client, when create_client() throws it keeps the one it had, and with a
\* signature that does not fit it has a client and no caller.
\* setImplementation() of a caller that does not fit leaves it as it was or
\* unbound.
ConnectCaller(c, n, t) ==
    /\ fault = "none"
    /\ t \in factories
    /\ client_type' = [client_type EXCEPT ![n] = ProxyType(client_type, n, t)]
    /\ \/ UNCHANGED <<client, bound, made>>   \* no node, or create_client() throws
       \/ /\ node
          /\ made < MaxClients
          /\ made' = made + 1
          /\ client' = [client EXCEPT ![n] = made + 1]
          /\ bound' \in IF FitsClient(c, client_type'[n])
                        THEN {[bound EXCEPT ![c] = n]}
                        ELSE {bound, [bound EXCEPT ![c] = None]}
    /\ UNCHANGED <<node, factories, server_type, impl, server, engine, remote,
                   exec, requests, fault>>

\* Mutant of ConnectOperation: the variants of the type in the call are tried,
\* not those of the proxy.
ConnectOperationByArgument(o, n, t) ==
    /\ fault = "none"
    /\ t \in factories
    /\ server_type' = [server_type EXCEPT ![n] = ProxyType(server_type, n, t)]
    /\ node
    /\ IF FitsServer(o, t)
       THEN /\ impl' = [impl EXCEPT ![n] = o]
            /\ server' = server \cup {n}
            /\ requests' = [requests EXCEPT ![n] = 0]
       ELSE /\ impl' = [impl EXCEPT ![n] = None]
            /\ UNCHANGED <<server, requests>>
    /\ UNCHANGED <<node, factories, client_type, client, bound, made, engine,
                   remote, exec, fault>>

\* connect() of an operation.  impl_ is assigned first: when no variant fits
\* it is null, and connect() returns with the server of an earlier connect()
\* still up; when create_service() throws it is the new one, behind the server
\* of an earlier connect() or none.  Replacing impl_ destroys the one a
\* dispatch may be running in; replacing server_ drops the requests that wait
\* at it.
ConnectOperation(o, n, t) ==
    /\ fault = "none"
    /\ t \in factories
    /\ server_type' = [server_type EXCEPT ![n] = ProxyType(server_type, n, t)]
    /\ \/ /\ ~node
          /\ UNCHANGED <<impl, server, exec, requests>>
       \/ /\ node
          /\ exec' = IF exec.name = n /\ exec.pc \in {"own", "inline", "ran"}
                     THEN [exec EXCEPT !.proxy = "gone"] ELSE exec
          /\ IF FitsServer(o, server_type'[n])
             THEN /\ impl' = [impl EXCEPT ![n] = o]
                  /\ \/ /\ server' = server \cup {n}
                        /\ requests' = [requests EXCEPT ![n] = 0]
                     \/ UNCHANGED <<server, requests>>   \* create_service() throws
             ELSE /\ impl' = [impl EXCEPT ![n] = None]
                  /\ UNCHANGED <<server, requests>>
    /\ UNCHANGED <<node, factories, client_type, client, bound, made, engine,
                   remote, fault>>

\* Proxies of the names in ns are destroyed.  The callers keep the function
\* that captured the client proxy, and a callback the executor has taken keeps
\* the one that captured the server proxy.
Erase(ns) ==
    /\ client_type' = [n \in Names |-> IF n \in ns THEN None ELSE client_type[n]]
    /\ client' = [n \in Names |-> IF n \in ns THEN 0 ELSE client[n]]
    /\ server_type' = [n \in Names |-> IF n \in ns THEN None ELSE server_type[n]]
    /\ impl' = [n \in Names |-> IF n \in ns THEN None ELSE impl[n]]
    /\ server' = server \ ns
    /\ requests' = [n \in Names |-> IF n \in ns THEN 0 ELSE requests[n]]
    /\ bound' = [c \in Callers |-> IF bound[c] \in ns THEN Dangling ELSE bound[c]]
    /\ exec' = IF exec.name \in ns THEN [exec EXCEPT !.proxy = "gone"] ELSE exec
    /\ UNCHANGED <<node, factories, made, engine, remote, fault>>

Disconnect(n) ==
    /\ fault = "none"
    /\ client_type[n] # None \/ server_type[n] # None
    /\ Erase({n})

\* disconnectAll(), which the destructor of the service calls too.
DisconnectAll ==
    /\ fault = "none"
    /\ Erase(Names)

-----------------------------------------------------------------------------
(* The component's thread.                                                 *)

\* Mutant of CallOperation: the call uses client_ and keeps no copy of it.
CallOperationUncopied(c) ==
    /\ fault = "none"
    /\ engine.pc = "free"
    /\ bound[c] \in Names
    /\ client[bound[c]] # 0
    /\ engine' = [pc |-> "waiting", local |-> 0, uses |-> client[bound[c]]]
    /\ remote' = "asked"
    /\ UNCHANGED <<script, exec, requests, fault>>

\* The component calls operation caller c.  The function copies client_, sends
\* the request and blocks in result_future.get(); a caller whose proxy is gone
\* reads client_ of a destroyed object; a null client_ returns at once.
CallOperation(c) ==
    /\ fault = "none"
    /\ engine.pc = "free"
    /\ \/ /\ bound[c] \in Names
          /\ client[bound[c]] # 0
          /\ engine' = [pc |-> "waiting", local |-> client[bound[c]],
                        uses |-> client[bound[c]]]
          /\ remote' = "asked"
          /\ UNCHANGED fault
       \/ /\ bound[c] = Dangling
          /\ fault' = "destroyed_client_proxy"
          /\ UNCHANGED <<engine, remote>>
    /\ UNCHANGED <<script, exec, requests>>

\* The engine runs the operation the executor waits for.
RunOperation ==
    /\ fault = "none"
    /\ engine.pc = "free"
    /\ exec.pc = "own"
    /\ engine' = [engine EXCEPT !.pc = "operation"]
    /\ UNCHANGED <<script, remote, exec, requests, fault>>

OperationReturns ==
    /\ fault = "none"
    /\ engine.pc = "operation"
    /\ engine' = [engine EXCEPT !.pc = "free"]
    /\ exec' = [exec EXCEPT !.pc = "ran"]
    /\ UNCHANGED <<script, remote, requests, fault>>

-----------------------------------------------------------------------------
(* The other nodes.                                                        *)

RemoteRequest(n) ==
    /\ fault = "none"
    /\ n \in server
    /\ requests[n] < MaxRequests
    /\ requests' = [requests EXCEPT ![n] = @ + 1]
    /\ UNCHANGED <<script, engine, remote, exec, fault>>

RemoteResponse ==
    /\ fault = "none"
    /\ remote = "asked"
    /\ remote' = "answered"
    /\ UNCHANGED <<script, engine, exec, requests, fault>>

-----------------------------------------------------------------------------
(* The executor.                                                           *)

\* An rclcpp client exists as long as a proxy or a call refers to it.
Alive(k) == engine.local = k \/ \E n \in Names : client[n] = k

\* A request is taken; from here on the executor holds the rclcpp service.
TakeRequest(n) ==
    /\ fault = "none"
    /\ exec.pc = "free"
    /\ requests[n] > 0
    /\ requests' = [requests EXCEPT ![n] = @ - 1]
    /\ exec' = [pc |-> "taken", name |-> n, proxy |-> "live"]
    /\ UNCHANGED <<script, engine, remote, fault>>

\* The lambda of the server calls impl_->dispatch(): an OwnThread operation is
\* sent to the engine, a ClientThread operation runs in the executor's thread.
Dispatch ==
    /\ fault = "none"
    /\ exec.pc = "taken"
    /\ \/ /\ exec.proxy = "gone"
          /\ fault' = "destroyed_server_proxy"
          /\ UNCHANGED exec
       \/ /\ exec.proxy = "live"
          /\ impl[exec.name] = None
          /\ fault' = "null_impl"
          /\ UNCHANGED exec
       \/ /\ exec.proxy = "live"
          /\ impl[exec.name] # None
          /\ exec' = [exec EXCEPT !.pc = IF impl[exec.name] \in OwnThread
                                         THEN "own" ELSE "inline"]
          /\ UNCHANGED fault
    /\ UNCHANGED <<script, engine, remote, requests>>

DispatchInline ==
    /\ fault = "none"
    /\ exec.pc = "inline"
    /\ exec' = [exec EXCEPT !.pc = "ran"]
    /\ UNCHANGED <<script, engine, remote, requests, fault>>

\* dispatch() returns into the operation caller it was called on, and the
\* executor sends the response.
DispatchReturns ==
    /\ fault = "none"
    /\ exec.pc = "ran"
    /\ \/ exec.proxy = "live" /\ exec' = Free /\ UNCHANGED fault
       \/ exec.proxy = "gone" /\ fault' = "destroyed_server_proxy" /\ UNCHANGED exec
    /\ UNCHANGED <<script, engine, remote, requests>>

\* The executor takes the response and fulfils the promise of the call.
DeliverResponse ==
    /\ fault = "none"
    /\ exec.pc = "free"
    /\ remote = "answered"
    /\ Alive(engine.uses)
    /\ remote' = "none"
    /\ engine' = [pc |-> "free", local |-> 0, uses |-> 0]
    /\ UNCHANGED <<script, exec, requests, fault>>

-----------------------------------------------------------------------------
Next ==
    \/ \E t \in Types : RegisterServiceFactory(t)
    \/ LoadNode
    \/ \E c \in Callers, n \in Names, t \in Types : ConnectCaller(c, n, t)
    \/ \E o \in Ops, n \in Names, t \in Types : ConnectOperation(o, n, t)
    \/ \E n \in Names : Disconnect(n)
    \/ DisconnectAll
    \/ \E c \in Callers : CallOperation(c)
    \/ RunOperation
    \/ OperationReturns
    \/ \E n \in Names : RemoteRequest(n)
    \/ RemoteResponse
    \/ \E n \in Names : TakeRequest(n)
    \/ Dispatch
    \/ DispatchInline
    \/ DispatchReturns
    \/ DeliverResponse

Spec == Init /\ [][Next]_vars

\* The executor goes on with the callback it runs, and executes every entity
\* of a collected wait set before it waits again, so a response that stays
\* available is not passed over for ever (strong fairness).  The other node
\* answers, and the engine processes its messages.
Fairness ==
    /\ WF_vars(Dispatch)
    /\ WF_vars(DispatchInline)
    /\ WF_vars(DispatchReturns)
    /\ SF_vars(DeliverResponse)
    /\ WF_vars(RemoteResponse)
    /\ WF_vars(RunOperation)
    /\ WF_vars(OperationReturns)

FairSpec == Spec /\ Fairness
-----------------------------------------------------------------------------
(* Properties.                                                             *)

\* An operation caller that is bound to a proxy finds a client in it, of a
\* type whose default signature is the caller's: through any sequence of
\* connects with and without a node, of fitting and unfitting callers and of
\* other types on the same name, the early return for a null client_ is never
\* taken and no call goes out in the wrong type.
CallerHasClient ==
    \A c \in Callers : bound[c] \in Names =>
        /\ client[bound[c]] # 0
        /\ client_type[bound[c]] \in factories
        /\ FitsClient(c, client_type[bound[c]])

\* The operation behind a server proxy has one of the signatures of the
\* proxy's own type, whatever types the calls of connect() named and wherever
\* they failed, so that no request is dispatched to an operation of another
\* signature.
ServerFits ==
    \A n \in Names : impl[n] # None =>
        /\ server_type[n] \in factories
        /\ FitsServer(impl[n], server_type[n])

\* The rclcpp client of a call that waits for its response exists until the
\* response is delivered, although disconnect() may destroy the proxy and
\* connect() replace its client in the meantime.
InFlightHasClient == engine.pc = "waiting" => Alive(engine.uses)

\* A call of an operation caller returns, also when its proxy is disconnected
\* or its client replaced while it waits, unless undefined behaviour is reached
\* or the executor waits for an operation in the engine's thread.
CallReturnsUnlessBlocked ==
    (engine.pc = "waiting") ~>
        (engine.pc = "free" \/ exec.pc = "own" \/ fault # "none")

\* What the documentation of the package says: the operations of a component
\* are called and its operation callers answered through ROS services.  A call
\* of an operation caller returns (unless undefined behaviour is reached).
CallReturns ==
    (engine.pc = "waiting") ~> (engine.pc = "free" \/ fault # "none")

\* The call keeps its own reference to the client that it waits on.
CallHoldsClient == engine.pc = "waiting" => engine.local = engine.uses

\* Every proxy was created by a registered factory.
ProxiesAreKnown ==
    \A n \in Names : {client_type[n], server_type[n]} \subseteq factories \cup {None}

\* The inductive invariant.
IInv ==
    /\ TypeOK
    /\ ProxiesAreKnown
    /\ CallerHasClient
    /\ ServerFits
    /\ CallHoldsClient
=============================================================================
