# A TLA+ verification of rtt_ros2_integration

rtt_ros2_integration connects the Orocos Real-Time Toolkit (RTT) to ROS 2. Its
difficulty is in the threads that meet in it. A component has an engine of its
own, which executes the operations sent to it; a ROS node has an executor whose
spinner threads run callbacks; scripts and other components call operations in
threads of their own. The packages hand goals, samples, requests and parameters
from one of these threads to another, often with a raw `this` in a callback and
with state that only part of the threads protect by a mutex.

This directory holds TLA+ modules of those hand-overs, TLC configurations that
check them on small instances, and TLAPS proofs of their safety properties for
instances of any size. `PROJECT.json` maps every definition to the lines it
models and lists the runs, mutants, findings, hazards and theorems.

## 1. The system and its parts

| Part | State | Operations | Interaction | What makes it correct |
|---|---|---|---|---|
| Action server, `rtt_ros2_actions` | `goal_active_`, `goal_pending_`, `server_`, the hooks; goal states in rclcpp_action | `start`, `shutdown`, `acceptPending`, `rejectPending`, `abortActive`, `cancelActive`, `succeedActive`, goal, cancel and accepted handlers | the ROS thread sends messages to the owner's engine; any thread uses the API | slots agree with goal states; one goal executes; canceled goals end; no goal is lost |
| Topic publisher, `rtt_ros2_topics` | RTT buffer, `has_work_`, guard condition, `func_`, `execute_mutex_` | `write`, `signal`, `trigger`, `is_ready`, `execute`, `publish`, `cancel`, destructor | the writer stores and triggers, a spinner thread drains | no sample forgotten, lost, reordered or duplicated; no callback after the destructor |
| Topic streams and subscriptions, `rtt_ros2_topics` | port connections, QoS, topic names | `createStream`, subscription callback, `connect`, `disconnect` | executor writes into the channel of a port | policies are honoured, nothing is delivered to a destroyed channel |
| Node and spinner, `rtt_ros2_node` | `executor_`, `thread_`, the node | constructor, `spin`, `cancel`, destructor, `create_node`, `getNode` | a client against the spinner threads | one spinner per node; `cancel` stops it and returns |
| Services, `rtt_ros2_services` | proxies by name, their client, server and `impl_`, the registry | `connect`, `disconnect`, `disconnectAll`, calls, dispatch | script, executor, engine and other nodes | a call finds its client and returns; a request finds its operation |
| Import, `rtt_ros2` | the loader's imported packages, queue and list of `import()` | `import`, `find` | ament index, component loader | dependencies first; success means complete |
| Parameters, `rtt_ros2_params` | the node's parameters, the component's properties | get, set, declare, setOrDeclare, load, store | several client threads and remote clients on one node | no lost or half-done update; what is reported is what happened |
| Message introspection, `rtt_ros2_idl`, and members of the rclcpp typekit | values, data sources with getter and setter | `getMember`, `get`, `set`, `updated` | scripts hold parts of objects that components write | a part shows its own member and writes nothing else |
| Primitives typekit, times of the rclcpp typekit | none of their own | constructors, conversions | scripting applies some of them by itself | what is converted unasked keeps its value |
| KDL typekit, `kdl_msgs` | none of their own | compose, decompose, transports, messages, members | property files, ROS; CORBA and mqueue where a build has them, which the package's own has not | a value comes back as it was where its form can hold it; what is refused leaves no mixture |
| Build-time generation | none | CMake macros and templates | - | not a run-time behaviour |

The behaviours that are hard to test, with their lines, are the `hazards` of
`PROJECT.json`: state of rclcpp_action changed outside the mutex, messages that
overtake a state change, wake-ups that are consumed by somebody else,
destruction against a running callback, blocking calls between two threads,
operations that fail half way, orders that follow from a repetition in a list,
tests that are stale when they are acted on, values cached and written back whole,
and layouts that are written by hand in several places and orders.

## 2. Modules

| Module | Models | Kind |
|---|---|---|
| `SimpleActionServer` | `simple_action_server.hpp`, `rtt_action_server.hpp` | state machine |
| `GoalSlots` | what the action server promises about goals | abstract specification |
| `RosPublisher` | `waitable.hpp`, `ros_publisher.hpp`, the buffer of `ros_type_transporter.hpp` | state machine |
| `NodeSpinner` | `Node` of `rtt_ros2_node.cpp` | state machine |
| `RosServices` | the plugin, proxies and registry of `rtt_ros2_services` | state machine |
| `Import` | `import()` of `rtt_ros2.cpp` | state machine |
| `RosTopic` | `rostopic.hpp`, `utilities.hpp`, `createStream()`, `ros_subscription.hpp` | state machine |
| `Params` | the parameter service, creation and look-up of nodes, conversions of parameter values | state machine |
| `Members` | getter and setter data sources, `getMember()` of messages, QoS, options, parameters | state machine |
| `Kdl` | properties, transports, messages and members of the KDL types | algorithms, and a machine that applies them |
| `Conversions` | integers of the primitives typekit, `rmw_time_t` | algorithms, and a machine that applies them |
| `MCTypekits` | the last five, one at a time | constants for TLC |
| `MC...` | constants for TLC | |
| `...Proofs` | theorems and their proofs | |

### SimpleActionServer

Three kinds of threads: `ros` runs the handlers of rclcpp_action, `owner`
executes the messages of the component's engine (`queue`), and `Callers` use the
API. `lock` is the holder of `mutex_` and its place in the locked region. A
locked region is one action only where nothing outside the mutex can change what
it has read; since rclcpp_action makes a goal CANCELING without the mutex,
`finishActive()` and `terminateGoal()` are split between the test of
`is_canceling()` and what follows (`FinishTest`, `FinishAbort`, `TerminateTest`,
`TerminateExecute`, `TerminateAbort`). `Settle` is the destructor of
`ServerGoalHandle`, which cancels a live goal nobody refers to any more, and is
part of every action that lets go of a handle. `requested` and `dropped` are
history variables. `send()` to a full queue loses the message, as the code ignores
its result, and a cancel request whose message was lost is marked.

`GoalSlots` states the contract: a goal goes forwards through waiting, pending
and active, a new pending goal pushes out the old one, and at most one is active.
`SimpleActionServer` implements it under the mapping `phaseOf`.

### RosPublisher

`Write` stores a sample by the policy of the connection (BUFFER refuses when
full, CIRCULAR_BUFFER and DATA replace the oldest, UNBUFFERED publishes at once);
`Signal` and `Trigger` set `has_work_` and the guard condition. A spinner thread
waits, collects, executes and reads until the buffer is empty or the middleware
lends no message. `Cancel` is the destructor's `cancel()`, which takes
`execute_mutex_`. The executor is external: one thread waits at a time, callbacks
of one group exclude each other, and a wait consumes the guard that ends it.

### NodeSpinner

The client steps through `cancel()` and `spin()`: take the executor, stop it,
join the thread, make and add a new executor, start the thread, store. The thread
of an executor begins some time later (`ThreadBegins` sets rclcpp's spinning flag)
and ends when it finds the flag cleared.

### RosServices

Proxies are functions from service names to their type, client, operation and
server. `bound` is the proxy in the implementation of an operation caller, or
`Dangling` after the proxy was erased. rclcpp clients are numbered; one is `Alive`
while a proxy or a call refers to it. `create_service()` and `create_client()` may
raise; `connect()` has assigned `impl_` by then, so the proxy may be left with an
`impl_` and no server. `engine` is the component's thread, `exec`
the executor (one callback at a time, as all callbacks are in the node's default,
mutually exclusive group). A state in which the code reads a destroyed object or a
null pointer is recorded in `fault`, and nothing is said of what follows. Operations do
not themselves call ROS services. `setImplementation()` of a caller that does not
fit is external, and the caller may stay as it was or become unbound.

### Import

The first loop takes packages from `dep_names`, lists them in `deps_to_import`
and queues their dependencies. A loop of its own puts the prefix of every listed
package in front of the loader's search path (`PrependPath`), and the last one goes
through the list from its end. The dependency lists and where each package is found are chosen in the initial
state; the loader may fail on any package.

### RosTopic

A writing and a reading port get their streams by `createStream()`, which refuses
pull connections and ports without a node and raises for a port without any name.
`Qos` is what both constructors make of a policy. The middleware is external: it
keeps the last samples, hands the retained ones to a subscription where both sides
are transient local, and does not match a subscription that wants them with a
publisher that keeps none. The executor takes a sample and runs `callback()` in two
steps; a `Disconnect` in between leaves `callbackOfDestroyed`, where the behaviour
ends. The writer's half of a stream, from port to `publish()`, is `RosPublisher`;
`Publish` is the point where they meet.

### Params

Every thread of `Clients` steps through an operation: `LookUpNode`, then
`HasParameter`, `DeclareParameter`, `SetParameter` or `ReadParameter`, then the
property. Each of them is one call of rclcpp, which locks; between them the other
threads go on. A component has its node or uses the process-wide one (`GetNode`),
and both can be created at any time (`HasService`, `AddService`). rclcpp is
external: a declared parameter has the type of its value for ever, an override wins
over the value of `declare_parameter()`, undeclared parameters may be set where the
options allow it, the default of `rtt_ros2_node.cpp`. `raced` marks a
call whose answer another thread has made stale. Values that are not set are no
arguments. An int has the numbers from `-IntHalf` to `IntHalf - 1`, and a float
those that `FloatStep` divides.

### Members

One data source of each kind, over an object that its component also writes. A
getter and setter data source keeps `value_`, refreshed by `get()`; a sub-member
is written into `value_`, and `updated()` gives all of it to the setter. For
messages, `getMember()` is modelled with what it finds for an unknown name (the
end of the array), for an item that is no message (null), and for a copy that
does not outlive the call; using one of them is a `fault`.

### Kdl

The vectors, arrays and Jacobians consist of distinct numbers, so that any exchange
shows. A variable is written by member or index, decomposed into a bag, sent and
received; a bag may be edited as a property file is: an entry missing or double, an
old type name, a rotation in another form, a size beside the elements of an array.

The bags are those of the build: `ROTATION_PROPERTIES_RPY`
(`kdl_typekit/CMakeLists.txt:11`) makes the bag of a rotation its roll, pitch and
yaw. `RPY`, `EulerZYX` and `GetRPY` of KDL are constants, of which the module
assumes that a rotation (`ProperRotations`) has angles that make it again
(`RotationAssumption`), and nothing of the nine numbers that a script has written
entry by entry and that are no rotation. TLC gets the geometry of quarter turns:
`ProperRotations` are the 24 rotations of the cube, the angles are multiples of 90
degrees, and variables start with the `Poses` among them. The property of an array
goes through `JntArrayTypeInfo` (`ComposeJntArray`), which resizes it first; the
functions of `kinfamproperties.cpp` for arrays are not called by it and not modelled.

The sources of the CORBA and mqueue transports are in the repository, but the
package builds neither (`CMakeLists.txt:32-35`, `package.xml:11`). The constant
`Transports` says which a build has; the runs take both, so that their layouts are
checked for a build that has them. The lengths of arrays, Jacobians and chains are
constants. `DecomposeChain` says directly what the loop over the segments leaves in
its one `segment_bag`.

### Conversions

A number goes through constructors, automatic or named by a script. (`loadProperty()`
applies constructors that are not automatic too, through `update()` of the property;
that path is `UpdateProperty` of `Params`.) A width is given by half
the numbers of its types (`Half`), of which each is at least twice the one before,
so that every type has values that the narrower ones do not hold.

## 3. What TLC checks

| Run | Bounds | Result |
|---|---|---|
| `action_safety` | 3 goals, 2 API threads, queue of 2, shutdown and restart | slots agree with states, one goal executes, CANCELING and CANCELED have a cause, the hook sees its goal, a cancel request whose message was queued has a handler to come (`CancelIsHandled`) |
| `action_liveness` | 2 goals, queue of 1, fairness | `GoalSlots` is implemented; goals being canceled end unless the cancel message met a full queue; accepted goals reach the pending slot or end |
| `action_lost_cancel` | finding | a cancel that meets a full queue is accepted and never finished |
| `action_handler_race` | finding | `cancelHandler()` can run before the goal is CANCELING |
| `publisher_safety` | 2 spinner threads, buffer of 2, 4 samples, all policies, with and without loans | no sample forgotten, lost, duplicated or reordered; `func_` is not running after `cancel()` |
| `publisher_liveness` | 1 spinner thread, 3 samples, fairness | every buffered sample is published, the destructor returns |
| `spinner_safety` | 5 calls of `spin()` | one spinner, never a joinable `thread_` overwritten, idle is settled, a spinner in its loop is stopped |
| `spinner_lost_cancel` | finding | a `cancel()` before the thread reached its loop blocks for ever |
| `services` | 2 names, types and operations (one OwnThread), 1 caller, 2 clients, 1 request at a time, fairness | callers find clients of their type, a server dispatches only what fits its type, calls in flight keep their client, also when a creation raises; calls return unless the executor waits for the component's thread |
| `services_deadlock` | finding | with an OwnThread operation a call and a request block each other |
| `import` | 4 packages, the dependency lists 1 on 2 and 3, 2 on 3 and 4, 3 on 4 and all their parts, in all orders; 2 calls, fairness | dependencies first; every prefix once in the search path; true means complete; every call returns |
| `typekits`, `Kdl` | every type, arrays and Jacobians of up to 3 joints, chains of up to 2, 4 steps | a value comes back from a message, CORBA or mqueue, and from a bag that nobody edited, where nine numbers that are no rotation become the rotation of their angles (`RoundTrip`); a refused bag leaves every part of the value as it was or as the bag has it, and an array resized, with elements that are its own or the bag's (`RefusedKeepsParts`); members and bag entries have the same names, but for rotations, where they have no name in common (`NamesAgree`); an accepted bag determines the whole value (`AcceptedIsNamed`) |
| `typekits`, `Members` | a message with 5 members, 5 steps | `value_` is the member of the object unless the object was written past it since (`ValueIsFresh`); a write changes its own member only (`WriteTouchesOneMember`) |
| `typekits`, `Params` | 2 threads, 1 parameter with an override, 4 calls, integers of 3 bits | an operation raises for a declared parameter, and a created node is lost, only if another thread was faster between test and act (`FailureHasRival`); what was set is found until somebody writes it or the component gets a node of its own (`SetIsFound`); true means that the value is in place, or the override, and anything else that nothing changed (`TrueMeansHeld`); a loaded property would be stored as the same parameter, if its type holds the value, whoever sets the parameter meanwhile (`LoadedIsStored`) |
| `typekits`, `Conversions` | integers of 2 to 5 bits, seconds of 10 nanoseconds, 4 conversions | automatic conversions and times keep the value (`AutomaticKeepsValue`) |
| `typekits`, `RosTopic` | buffers up to 2, 3 samples, 2 streams of the reader | the last sample arrives, at a late latched stream too (`LatestArrives`) |

**Why the bounds are enough.** Three goals give an active, a pending and a new
goal at once; with one of them active and the messages of the other two queued, the
queue of two is full when the cancel of the first comes. In the liveness run the
queue of one is full with the message of the second goal. Two
samples fill the buffer, and four overwrite it completely. Two spinner threads are
needed for one to wait while the other executes. Of two service types,
the caller and both operations fit the first, one operation by its default signature
and one by a variant, and nothing fits the second, so that a name whose proxy has the
other type is a misfit; one
more client than a call in flight holds can replace it. Four steps of `Kdl` are a write, a
decomposition, an edit and a composition; five of `Members` get a part, change
the object behind it, and write and read through it. Four calls of two threads
are one that creates the node, one that sets the parameter, and two that race; that
the parameters of two names do not meet, and one without an override, are left to
the theorems. Four conversions go through
all widths. Three samples overrun a queue of two, and the second stream of a
reader comes after them. A second call of
`import()` finds what the first has imported or failed to import. Four packages are the smallest diamond with a
tail; rtt_ros2, which is never imported, is one of them. The theorems of section 4
lift the safety properties to all sizes.

**Deadlock.** It is checked except in `NodeSpinner` (the lost cancel really blocks
for ever) and in `RosServices`, `Import` and `MCTypekits` (which stop after
undefined behaviour, or after the last call that the bound admits).

**Fairness.** A thread in the middle of a call goes on: weak fairness of the
handlers, of the holder of the mutex, of the owner's engine, of the writer, of
the spinner threads and of `import()`. Nobody is obliged to begin anything: no
fairness for clients, API calls, writes, connects or disconnects. Strong fairness is
used twice. `Read` in `RosPublisher`: the middleware, asked again and again, lends
a message at some time. `DeliverResponse` in `RosServices`: the executor executes
everything that one wait has collected before it waits again, so a response that
stays available is not passed over for ever. `RemoteResponse` assumes that the
other node answers; the code has no timeout.

**A liveness that needs its bound.** `EventuallyPublished` holds for the default of
one spinner thread. With two, a wait of one thread can consume the guard while
the other still executes in the group; `add_to_wait_set()` does not trigger the
guard again for a `has_work_` that is set already, and the sample stays until
something else ends a wait. `NoForgottenSample` holds for any number of threads:
a stored sample always has `has_work_` set, a trigger under way, or a reader.

## 4. What is proved

Every invariant and every action property of the runs is a theorem, `Spec => []P` or
`Spec => [][A]_vars`, and so is the refinement `Spec => RefinesSlots`. They hold for
all values of the constants that satisfy the named assumptions. These are: bounds are
natural numbers, null values are not elements of the sets they extend, a buffer holds
at least one sample, dependency lists and the loader's own path are sequences, a
second has at least one nanosecond, each wider integer type has at least twice the
numbers of the narrower one (`HalfAssumption`), chains are sequences of joint
types of KDL, and a rotation has angles that make it again (`RotationAssumption`).

| Module | Theorems | The inductive invariant adds |
|---|---|---|
| `SimpleActionServerProofs` | `TypeCorrect`, `SlotsCorrect`, `ExecutingCorrect`, `CancelCorrect`, `CancelHandled`, `HookCorrect`, `ImplementsSlots` | what the holder of the mutex has established where it is (`LockOK`); a goal waits for `acceptedCallback()` in one place (`WaitsOnce`); requests under way are on record (`RequestsRecorded`); every live goal is in a slot, waiting, requested or dropped (`Accounted`) |
| `RosPublisherProofs` | `TypeCorrect`, `NoSampleForgotten`, `OrderKept`, `NothingAcceptedIsLost`, `CancelIsFinal` | one thread in the callback group, `func_` lives until `cancel()`, a sample in flight has a reader, samples in the order published, in flight, buffered are increasing |
| `NodeSpinnerProofs` | `TypeCorrect`, `SpinnerIsUnique`, `SpinStartsClean`, `IdleIsSettled` | what holds at each place of the client (`ClientOK`); executors not made yet have no thread |
| `RosServicesProofs` | `TypeCorrect`, `CallersHaveClients`, `ServersFit`, `InFlightKeepsClient` | every proxy has a registered type (`ProxiesAreKnown`); a waiting call holds the client it waits on (`CallHoldsClient`) |
| `ImportProofs` | `TypeCorrect`, `DependenciesComeFirst`, `ReturnedTrueIsComplete`, `LoaderSearchesEveryPrefix` | a dependency of a listed package is queued, missing or listed further back (`DependenciesListed`); what the second loop has passed is imported or missing (`BackIsSettled`); the package of the call is queued, listed or missing (`PackageIsTracked`); the search path is built as far as the loop has come (`PathIsBuilt`) |
| `RosTopicProofs` | `LastSampleArrives` | nothing is delivered before something is published (`NothingFromNothing`); what the middleware retains ends with the last sample (`RetainedEndsWithLatest`); until a matched port has the last sample, it ends the queue or is what the executor has taken (`LatestIsUnderway`) |
| `ParamsProofs` | `FailureNeedsRival`, `ServiceFindsWhatItSet`, `TrueReturnIsHeld`, `LoadReturnsWhatStoreMakes` | what a thread knows at each place of its call (`ThreadOK`); a call whose test another thread made stale is marked (`OvertakenIsMarked`) |
| `TypekitProofs` | `AutomaticConversionsKeepTheValue` | the number is the one it started as, or what 64 bits keep of a larger one, in an `rmw_time_t` too (`ValueIsOrigin`) |
| `TypekitProofs` | `GetterSetterIsFresh`, `WritesTouchOneMember` | what kind of part is held, and from where (`MemberOK`, `SubOK`) |
| `TypekitProofs` | `ValuesComeBack`, `RefusedBagsKeepParts`, `AcceptedBagsAreNamed`, `BagsUseMemberNames` | what is out of the variable is the encoding of a value of its type, and until then the variable has a value of its type (`CarrierOK`) |

Each proof has one step per action, and under it one per conjunct the action can
disturb. The arguments that are not of this kind:

* `DependenciesComeFirst` needs no acyclicity: on a cycle the first loop does not
  end, and nothing is imported. `ReturnedTrueIsComplete` uses the closure of a
  package as the least set that is closed under dependencies: when the first loop
  has ended without a missing package, the set of listed packages is closed, so it
  has the closure.
* `ImplementsSlots` maps every step to one that receives, defers, activates or lets
  go of a goal, or to a stutter. A goal's phase follows from the slots and the
  places where it may wait (`PhaseSays`), so a step is mapped by what it does to
  these and not by its action.
* `LoadReturnsWhatStoreMakes` and `AutomaticConversionsKeepTheValue` are about
  remainders: a number in the range of a type is its own remainder.
* `ValuesComeBack` rests on one lemma for each carrier, which says that reading
  undoes writing for any value of the type, not only for the reachable ones
  (`BagBack`, `CorbaBack`, `ArchiveBack`, `MsgBack`). Bags are read by name, and
  what is needed is which entry is the first of a name; the rotation of the angles of
  a rotation is that rotation by `RotationAssumption`; a Jacobian in a bag is
  written by rows, and the row and column of an entry are the quotient and the
  remainder by the number of columns.

Only model-checked are the liveness properties (`CancelTerminates`,
`GoalIsDeferred`, `EventuallyPublished`, `DestructorReturns`, `StopIsHeard`,
`CallReturnsUnlessBlocked`, `ImportReturns`): the prover does not reason about
fairness and `ENABLED`.

## 5. Findings

* `cancelHandler()` is said to see a goal in the CANCELING state; the message
  can be executed before rclcpp_action has changed the state, and the goal is
  then aborted (`action_handler_race`).
* A cancel of the active goal that meets a full message queue is answered ACCEPT,
  since the result of `send()` is not looked at; the goal is CANCELING and nobody
  finishes it (`action_lost_cancel`).
* A `cancel()` that follows `spin()` too fast is lost, and `join()` never returns
  (`spinner_lost_cancel`).
* A component whose thread calls a ROS service while a ROS request waits for one
  of its OwnThread operations blocks for ever (`services_deadlock`).

No run is kept for the following; the models reach all of them.

`finishActive()` and `terminateGoal()` test `is_canceling()` and abort in two steps
(`FinishTest`, `FinishAbort`); rclcpp_action makes the goal CANCELING in between,
without the mutex, and it ends ABORTED, where `simple_action_server.hpp:415` says
"CANCELED if it is in the CANCELING state".

`disconnect()` leaves operation callers bound to the destroyed client proxy: after
`Disconnect(n)` a caller is `Dangling`, still ready, and its next call reads `client_`
of a destroyed object (`fault = "destroyed_client_proxy"`), where
`rtt_ros2_services_plugin.cpp:62` says "Disconnects an RTT operation or operation
caller". `Erase` does not wait for a request that the executor has taken: after
`TakeRequest(n)`, `Disconnect(n)`, the next step `Dispatch` runs the lambda on a
destroyed server proxy (`fault = "destroyed_server_proxy"`). A `connect()` of an
operation that does not fit, on a name that is served, leaves the server up with a
null `impl_`, which the next request dereferences (`fault = "null_impl"`).

`setOrDeclareParameter()` returns true after `declare_parameter()` although an
override of the node wins (`rtt_ros2_params_service.cpp:215-216`: "Since we're declaring
with the intended value, just return success"). Between `has_parameter()` and
`declare_parameter()` another thread may declare the parameter, and the exception
leaves the operation. Two threads may both create the process-wide node; the
second `addService()` fails, the operation still returns true, and the node is
gone. A component's own node, created later, hides the parameters that were set in
the process-wide one. The documentation of `loadProperty` (lines 74 to 79) and
its parameters (240 to 242) name the two arguments in different orders.

`getMember()` of a message promises "null if no such member exists, an assignable
datasource referencing that member otherwise" (`RosIntrospectionTypeInfo.hpp:275`).
`findMessageMember()` returns the end of the array, which is never null, for an
unknown name (`fault = "no such member"`), and the part of an item that is not
assignable refers to a copy that ends with the call (`fault = "freed copy"`).

`JntArrayTypeInfo::composeType()` reads an entry `Size` of the bag
(`kdlTypekitJntArray.cpp:77-86`), and then asserts that the bag has as many entries as
the array has elements (line 101), which such a bag has not. A decomposed chain has its first segment in all places,
as `segment_bag` is never emptied (`kinfamproperties.cpp:122`); `RoundTrip` says what
does come back. The bag of a matrix that is no rotation comes back as another
matrix. A refused bag leaves a `JntArray` resized (`kdlTypekitJntArray.cpp:85,90`),
and a `Frame`, `Twist` or `Wrench` with its first part written. A subscription that has been disconnected may still be called with
a sample that was taken before (`callbackOfDestroyed`).

The comment in `shutdown()` (`simple_action_server.hpp:210`) says that
rclcpp_action aborts the goals; the goal handle's destructor cancels them. The model follows
the destructor.

## 6. Not modelled, and the plan

No run-time state to check: CMake macros and templates, the generator of message
typekits, the registration of types and transports, logging.

Only calls of a library: the operators of times, durations and KDL values,
conversions of floating point, the constructors of strings and of rotations from
angles, `composeType()` of options, `clone()` and `copy()` of data sources.
The decomposers of a rotation that the build does not select, the functions of
`kinfamproperties.cpp` for `JntArray`, which nothing calls, and `JntArrayVel`.

Data races on `std::shared_ptr` and `std::thread` members, as in `start()` of the
action server, in `connect()` against a call, and between two callers of
`spin()`, are undefined behaviour with no outcomes to choose from. In `Import`,
cyclic dependencies are left to the proof of the order, since the queue then grows
without bound. The middleware loses no sample but by the depth of its queues.

Next:

1. The safety half of the liveness properties, as invariants: a goal being canceled
   always has somebody who will end it; a blocked call of `RosServices` has an
   executor that can deliver, unless `CallReturnsUnlessBlocked` excludes it.
2. Type invariants of `Params`, `Members` and `RosTopic` as theorems of their own;
   they are part of the inductive invariants now.
3. Several callers of one operation in `RosServices` and of `spin()`, as far as
   the race on the members leaves outcomes to choose from.

## 7. Running

    tlc -workers 2 -config RosServices.cfg MCRosServices
    tlapm RosServicesProofs.tla

Operators introduced by a comment "Mutant of X" are plausible bugs in X. They are
not part of any specification; each of them, put in the place of X, violates the
property that `PROJECT.json` names.
