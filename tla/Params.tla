------------------------------- MODULE Params -------------------------------
(***************************************************************************)
(* The rosparam service (rtt_ros2_params_service.cpp): threads get, set    *)
(* and declare parameters of a ROS node and copy them from and to the      *)
(* properties of the component, with the conversions between parameters    *)
(* and RTT types (parameter_value_conversions.hpp).  The operations run in *)
(* the thread of their caller and hold no lock, so every call of the node  *)
(* is a step of its own.                                                   *)
(*                                                                         *)
(* There are two services, of the component ("tc") and global, and as many *)
(* places for a node: getNode() of the component falls back to the global  *)
(* one.  A node with the default options declares parameters when they are *)
(* set; a node with other options refuses to.                              *)
(***************************************************************************)
EXTENDS Integers, Sequences

CONSTANTS
    Clients,        \* threads that call the operations
    Names,          \* names of parameters
    Override,       \* parameter overrides of the nodes, by name
    PropertyType,   \* the properties of the component and their types
    Arguments,      \* parameter values that are passed
    IntHalf,        \* 2^(w-1) for an int of w bits; parameters have wider integers
    FloatStep,      \* step between floats; doubles are finer
    MaxParamCalls   \* bound on the calls

\* A parameter value is the type and the value of a rclcpp::ParameterValue.
IsValue(pv) == pv = [type |-> pv.type, val |-> pv.val]

ASSUME ParamAssumption ==
    /\ IntHalf \in Nat \ {0} /\ FloatStep \in Nat \ {0}
    /\ \A pv \in Arguments : IsValue(pv)
    /\ \A name \in DOMAIN Override : IsValue(Override[name])

VARIABLES
    nodes,          \* the options of the node in each place, or "none"
    parameters,     \* of each node: what is declared
    properties,     \* values of the component's properties
    call,           \* of each thread: its call
    found,          \* of each service: the value it set last, while nobody else wrote
    paramCalls      \* calls so far

paramVars == <<nodes, parameters, properties, call, found, paramCalls>>

Places == {"tc", "global"}

-----------------------------------------------------------------------------
(* Parameter values and RTT types.                                         *)

\* A value is a number, or a sequence of them, that its type gives a meaning.
NotSet == [type |-> "not set", val |-> 0]
ParameterValue(t, v) == [type |-> t, val |-> v]

\* The parameter type that an RTT type is converted to and from.
ParameterType ==
    [bool |-> "bool", int |-> "integer", int64 |-> "integer",
     float |-> "double", double |-> "double", string |-> "string",
     bytes |-> "byte_array", bools |-> "bool_array",
     ints |-> "integer_array", int64s |-> "integer_array",
     floats |-> "double_array", doubles |-> "double_array",
     strings |-> "string_array"]
Convertible(t) == t \in DOMAIN ParameterType
ArrayTypes == {"bytes", "bools", "ints", "int64s", "floats", "doubles", "strings"}

\* Mutant of Wrap: one bit short.
WrapShort(n) == ((n + IntHalf \div 2) % IntHalf) - IntHalf \div 2

\* static_cast<int> of a wider integer, static_cast<float> of a double, which
\* goes to the nearer float.
Wrap(n) == ((n + IntHalf) % (2 * IntHalf)) - IntHalf
Rounded(d) ==
    LET below == d % FloatStep
    IN  IF 2 * below < FloatStep THEN d - below ELSE d - below + FloatStep

\* What a parameter's value becomes in a variable of type t.
Narrowed(t, v) ==
    CASE t = "int"    -> Wrap(v)
      [] t = "float"  -> Rounded(v)
      [] t = "ints"   -> [i \in DOMAIN v |-> Wrap(v[i])]
      [] t = "floats" -> [i \in DOMAIN v |-> Rounded(v[i])]
      [] OTHER        -> v

\* parameter_value_to_<t>: get<>() throws when the parameter has another type.
Gets(t, pv) == pv.type = ParameterType[t]

\* <t>_to_parameter_value.
ToParameterValue(t, v) == ParameterValue(ParameterType[t], v)

-----------------------------------------------------------------------------
(* Nodes.                                                                  *)

Undeclared == [declared |-> FALSE]
Declared(pv, dynamic_typing) ==
    [declared |-> TRUE, value |-> pv, dynamic |-> dynamic_typing]

\* Mutant of GetNode: the global node first.
GetNodeGlobalFirst(s) ==
    IF nodes["global"] # "none" THEN "global"
    ELSE IF s = "tc" /\ nodes["tc"] # "none" THEN "tc" ELSE "none"

\* getNode(): the component's node, else the global one.
GetNode(s) ==
    IF s = "tc" /\ nodes["tc"] # "none" THEN "tc"
    ELSE IF nodes["global"] # "none" THEN "global" ELSE "none"

\* get_parameter(): nothing when it is not declared.
Held(n, name) ==
    IF parameters[n][name].declared THEN parameters[n][name].value ELSE NotSet

\* declare_parameter() takes an override of the node for the given default.
Declaring(name, pv) == IF name \in DOMAIN Override THEN Override[name] ELSE pv

\* set_parameter(): static parameters keep their type.
Accepts(n, name, pv) ==
    LET p == parameters[n][name]
    IN  p.declared => p.dynamic \/ p.value.type = pv.type

NothingFound == [name \in Names |-> NotSet]

-----------------------------------------------------------------------------
(* Calls.  pc is the next step, or "done"; raced tells that another thread *)
(* did meanwhile what this call is about to do.                            *)

NoCall == [pc |-> "done", op |-> "none", srv |-> "tc", name |-> "none",
           prop |-> "none", options |-> "none", value |-> NotSet,
           node |-> "none", result |-> "none", raced |-> FALSE]

\* The first step of an operation.
FirstStep == [getParameter |-> "node", setParameter |-> "node",
              declareParameter |-> "node", setOrDeclareParameter |-> "node",
              loadProperty |-> "node", storeProperty |-> "convert",
              createNode |-> "hasService"]
Writers == {"setParameter", "declareParameter", "setOrDeclareParameter"}

Call(c, op, args) ==
    /\ call[c].pc = "done" /\ paramCalls < MaxParamCalls
    /\ paramCalls' = paramCalls + 1
    /\ call' = [call EXCEPT ![c] = [args EXCEPT !.op = op, !.pc = FirstStep[op]]]
    /\ UNCHANGED <<nodes, parameters, properties, found>>

\* The operations of a service.  The two that copy a property exist only in
\* the service of a component.
CallGet(c) == \E s \in Places, name \in Names :
    Call(c, "getParameter", [NoCall EXCEPT !.srv = s, !.name = name])
CallWrite(c) == \E op \in Writers, s \in Places, name \in Names, pv \in Arguments :
    Call(c, op, [NoCall EXCEPT !.srv = s, !.name = name, !.value = pv])
CallCopy(c) ==
    \E op \in {"loadProperty", "storeProperty"}, name \in Names,
       prop \in DOMAIN PropertyType \cup {"no property"} :
        Call(c, op, [NoCall EXCEPT !.name = name, !.prop = prop])

\* create_node() and its variants, and the rosnode service of a component,
\* whose node has the default options.
CallCreate(c) == \E n \in Places, o \in {"default", "strict"} :
    /\ n = "tc" => o = "default"
    /\ Call(c, "createNode", [NoCall EXCEPT !.srv = n, !.options = o])

AtStep(c, pc) == call[c].pc = pc
Goto(c, pc) == call' = [call EXCEPT ![c].pc = pc]
Return(c, result) == call' = [call EXCEPT ![c].pc = "done", ![c].result = result]

\* Return, and mark the threads that are about to do the same.
Overtake(c, result) ==
    LET Same(d) == /\ call[d].pc = call[c].pc \/ (call[c].pc = "set" /\ call[d].pc = "declare")
                   /\ call[d].name = call[c].name /\ call[d].node = call[c].node
                   /\ call[c].pc = "addService" => call[d].srv = call[c].srv
    IN  call' = [d \in Clients |->
                   IF d = c THEN [call[d] EXCEPT !.pc = "done", !.result = result]
                   ELSE [call[d] EXCEPT !.raced = @ \/ Same(d)]]

CallOnly == UNCHANGED <<nodes, parameters, properties, found, paramCalls>>

-----------------------------------------------------------------------------
(* Creation of nodes.                                                      *)

\* hasService("rosnode"): one process-wide node, one node per component.
HasService(c) ==
    /\ AtStep(c, "hasService")
    /\ IF nodes[call[c].srv] # "none" THEN Return(c, "false") ELSE Goto(c, "addService")
    /\ CallOnly

\* make_shared<Node>, addService().  Where a thread was faster, addService()
\* fails, which nobody looks at: the new node is destroyed and the caller is
\* told true, here "node lost" to tell it apart.  With a node of its own a
\* component leaves what it set in the global one.
AddService(c) ==
    /\ AtStep(c, "addService")
    /\ LET n == call[c].srv
       IN  \/ /\ nodes[n] = "none"
              /\ nodes' = [nodes EXCEPT ![n] = call[c].options]
              /\ found' = IF n = "tc" THEN [found EXCEPT !["tc"] = NothingFound] ELSE found
              /\ Overtake(c, "true")
           \/ /\ nodes[n] # "none"
              /\ Return(c, "node lost")
              /\ UNCHANGED <<nodes, found>>
    /\ UNCHANGED <<parameters, properties, paramCalls>>

-----------------------------------------------------------------------------
(* Steps of the operations.                                                *)

\* rosnode = getNode(getOwner()).
LookUpNode(c) ==
    /\ AtStep(c, "node")
    /\ LET n  == GetNode(call[c].srv)
           next == CASE call[c].op \in {"getParameter", "loadProperty"}  -> "get"
                     [] call[c].op \in {"setParameter", "storeProperty"} -> "set"
                     [] OTHER                                            -> "has"
       IN  IF n = "none" THEN Return(c, "false")
           ELSE call' = [call EXCEPT ![c].node = n, ![c].pc = next]
    /\ CallOnly

\* get_parameter(); a parameter that is not set ends loadProperty().
ReadParameter(c) ==
    /\ AtStep(c, "get")
    /\ LET pv == Held(call[c].node, call[c].name)
           result == IF pv = NotSet THEN "false" ELSE "true"
       IN  IF call[c].op = "loadProperty" /\ pv # NotSet
           THEN call' = [call EXCEPT ![c].value = pv, ![c].pc = "update"]
           ELSE call' = [call EXCEPT ![c].value = pv, ![c].pc = "done", ![c].result = result]
    /\ CallOnly

\* Mutant of HasParameter: the parameter is declared in any case.
HasParameterUnasked(c) ==
    AtStep(c, "has") /\ Goto(c, "declare") /\ CallOnly

\* has_parameter().
HasParameter(c) ==
    /\ AtStep(c, "has")
    /\ IF ~parameters[call[c].node][call[c].name].declared THEN Goto(c, "declare")
       ELSE IF call[c].op = "setOrDeclareParameter" THEN Goto(c, "set")
       ELSE Return(c, "false")
    /\ CallOnly

\* Write a parameter.  found is what each service now finds.
Write(c, p) ==
    LET n == call[c].node
        name == call[c].name
        Finds(s) == IF s = call[c].srv THEN p.value ELSE NotSet
    IN  /\ parameters' = [parameters EXCEPT ![n][name] = p]
        /\ found' = [s \in Places |->
              IF GetNode(s) = n THEN [found[s] EXCEPT ![name] = Finds(s)] ELSE found[s]]
        /\ Overtake(c, "true")

Fail(c, result) == Return(c, result) /\ UNCHANGED <<parameters, found>>

\* declare_parameter().  Its exceptions are not caught.
DeclareParameter(c) ==
    /\ AtStep(c, "declare")
    /\ LET pv == Declaring(call[c].name, call[c].value)
       IN  IF parameters[call[c].node][call[c].name].declared
           THEN Fail(c, "already declared")
           ELSE IF pv.type # call[c].value.type THEN Fail(c, "invalid type")
           ELSE Write(c, Declared(pv, FALSE))
    /\ UNCHANGED <<nodes, properties, paramCalls>>

\* Mutant of SetParameter: result.successful is not looked at.
SetParameterUnchecked(c) ==
    /\ AtStep(c, "set")
    /\ LET n == call[c].node
           p == parameters[n][call[c].name]
       IN  IF ~p.declared /\ nodes[n] = "strict" THEN Fail(c, "false")
           ELSE IF ~Accepts(n, call[c].name, call[c].value) THEN Fail(c, "true")
           ELSE Write(c, Declared(call[c].value, p.declared => p.dynamic))
    /\ UNCHANGED <<nodes, properties, paramCalls>>

\* set_parameter().  A parameter that is not declared is declared, with a
\* dynamic type and whatever the override, or refused by an exception that is
\* caught, as the node's options say.
SetParameter(c) ==
    /\ AtStep(c, "set")
    /\ LET n == call[c].node
           p == parameters[n][call[c].name]
       IN  IF ~p.declared /\ nodes[n] = "strict" THEN Fail(c, "false")
           ELSE IF ~Accepts(n, call[c].name, call[c].value) THEN Fail(c, "false")
           ELSE Write(c, Declared(call[c].value, p.declared => p.dynamic))
    /\ UNCHANGED <<nodes, properties, paramCalls>>

\* The rest of loadProperty(): the property, and update() of its data source,
\* which converts; exceptions of the conversion are caught.
UpdateProperty(c) ==
    /\ AtStep(c, "update")
    /\ LET prop == call[c].prop
       IN  IF /\ prop \in DOMAIN PropertyType /\ Convertible(PropertyType[prop])
              /\ Gets(PropertyType[prop], call[c].value)
           THEN /\ properties' = [properties EXCEPT ![prop] =
                                    Narrowed(PropertyType[prop], call[c].value.val)]
                /\ Return(c, "true")
           ELSE Return(c, "false") /\ UNCHANGED properties
    /\ UNCHANGED <<nodes, parameters, found, paramCalls>>

\* The first half of storeProperty(), which goes on as setParameter().
ConvertProperty(c) ==
    /\ AtStep(c, "convert")
    /\ LET prop == call[c].prop
       IN  IF prop \in DOMAIN PropertyType /\ Convertible(PropertyType[prop])
           THEN call' = [call EXCEPT ![c].pc = "node", ![c].value =
                           ToParameterValue(PropertyType[prop], properties[prop])]
           ELSE Return(c, "false")
    /\ CallOnly

-----------------------------------------------------------------------------
ParamInit ==
    /\ nodes = [n \in Places |-> "none"]
    /\ parameters = [n \in Places |-> [name \in Names |-> Undeclared]]
    /\ properties = [prop \in DOMAIN PropertyType |->
                       IF PropertyType[prop] \in ArrayTypes THEN <<1>> ELSE 1]
    /\ call = [c \in Clients |-> NoCall]
    /\ found = [s \in Places |-> NothingFound]
    /\ paramCalls = 0

ParamNext == \E c \in Clients :
    \/ CallGet(c) \/ CallWrite(c) \/ CallCopy(c) \/ CallCreate(c)
    \/ HasService(c) \/ AddService(c) \/ LookUpNode(c)
    \/ ReadParameter(c) \/ HasParameter(c) \/ DeclareParameter(c) \/ SetParameter(c)
    \/ UpdateProperty(c) \/ ConvertProperty(c)

ParamSpec == ParamInit /\ [][ParamNext]_paramVars

-----------------------------------------------------------------------------
(* Properties.                                                             *)

\* The exception of a parameter that is declared already leaves an operation,
\* and a node that was created is lost again, only where another thread was
\* faster between the test and the act of this one (has_parameter() and
\* declare_parameter(), hasService() and addService()).
FailureHasRival ==
    \A c \in Clients :
        call[c].result \in {"already declared", "node lost"} => call[c].raced

\* What a service has set is what it finds, until somebody else writes it: a
\* component keeps to the node that it found, whatever nodes are created, and
\* only a node of its own takes it away from the global one.
SetIsFound ==
    \A s \in Places, name \in Names :
        found[s][name] # NotSet => /\ GetNode(s) # "none"
                                   /\ Held(GetNode(s), name) = found[s][name]

\* A call of thread c ends in this step.
Ends(c) == ~AtStep(c, "done") /\ call'[c].pc = "done"

\* A call that returns true leaves the parameter with the value it was given,
\* or with the node's override if it declared it; one that returns false or
\* raises has left every parameter as it was.
TrueMeansHeld ==
    [][\A c \in Clients :
         Ends(c) /\ call[c].op \in Writers \cup {"storeProperty"} =>
            IF call'[c].result = "true"
            THEN parameters'[call[c].node][call[c].name].value \in
                   {call[c].value} \cup
                   {Declaring(n, call[c].value) : n \in {m \in {call[c].name} : AtStep(c, "declare")}}
            ELSE parameters' = parameters
      ]_paramVars

\* What a type of PropertyType holds without loss.
Ints   == -IntHalf .. IntHalf - 1
Floats == {d \in Int : d % FloatStep = 0}
Fits(t, v) ==
    CASE t = "int"    -> v \in Ints
      [] t = "float"  -> v \in Floats
      [] t = "ints"   -> v \in Seq(Ints)
      [] t = "floats" -> v \in Seq(Floats)
      [] OTHER        -> TRUE

\* loadProperty() that returns true has written a value which storeProperty()
\* would make the same parameter of again, if the property's type holds it;
\* in any other case the properties are what they were.
LoadedIsStored ==
    [][\A c \in Clients : Ends(c) /\ call[c].op = "loadProperty" =>
         IF call'[c].result = "true"
         THEN LET t == PropertyType[call[c].prop]
              IN  Fits(t, call[c].value.val) =>
                    ToParameterValue(t, properties'[call[c].prop]) = call[c].value
         ELSE properties' = properties
      ]_paramVars
=============================================================================
