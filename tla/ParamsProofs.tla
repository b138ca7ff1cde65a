---------------------------- MODULE ParamsProofs ----------------------------
(***************************************************************************)
(* The rosparam service for every number of threads, names, values and     *)
(* types.  The invariant says where a thread stands when it has taken what *)
(* branch (ThreadOK), that whoever is about to declare a parameter that is *)
(* declared meanwhile, or to add a node that is there meanwhile, was       *)
(* overtaken (OvertakenIsMarked), and what each service finds              *)
(* (SetIsFound).                                                           *)
(***************************************************************************)
EXTENDS Params, TLAPS

-----------------------------------------------------------------------------
(* The inductive invariant.                                                *)

CallFields == {"pc", "op", "srv", "name", "prop", "options", "value", "node",
               "result", "raced"}

\* The state is made of functions and records; what a parameter or a call
\* holds is a parameter value.
ShapeOK ==
    /\ nodes \in [Places -> {"none", "default", "strict"}]
    /\ DOMAIN parameters = Places
    /\ \A n \in Places : /\ DOMAIN parameters[n] = Names
                         /\ \A name \in Names :
                               /\ parameters[n][name].declared \in BOOLEAN
                               /\ parameters[n][name].declared =>
                                     IsValue(parameters[n][name].value)
    /\ DOMAIN properties = DOMAIN PropertyType
    /\ DOMAIN call = Clients
    /\ \A c \in Clients : DOMAIN call[c] = CallFields
    /\ DOMAIN found = Places
    /\ \A s \in Places : DOMAIN found[s] = Names

\* Where a thread stands, for which operation and with which arguments.
ThreadOK(r) ==
    /\ IsValue(r.value)
    /\ r.srv \in Places
    /\ r.pc \in {"done", "hasService", "addService", "node", "get", "has",
                 "declare", "set", "update", "convert"}
    /\ r.pc \in {"hasService", "addService"} =>
          /\ r.op = "createNode" /\ r.name = "none" /\ r.node = "none"
          /\ r.options \in {"default", "strict"}
    /\ r.pc \in {"node", "get", "has", "declare", "set", "update", "convert"} =>
          r.name \in Names /\ r.op # "createNode"
    /\ r.pc \in {"get", "has", "declare", "set", "update"} => r.node \in Places
    /\ r.pc = "get" => r.op \in {"getParameter", "loadProperty"}
    /\ r.pc = "update" => r.op = "loadProperty"
    /\ r.pc \in {"has", "declare", "set"} => r.op # "loadProperty"

\* Between the test and the act of a thread, what it tested changes only with
\* a mark at the thread.
OvertakenIsMarked ==
    \A c \in Clients :
        /\ call[c].pc = "declare" /\ parameters[call[c].node][call[c].name].declared
             => call[c].raced
        /\ call[c].pc = "addService" /\ nodes[call[c].srv] # "none" => call[c].raced

ParamInv ==
    /\ ShapeOK
    /\ \A c \in Clients : ThreadOK(call[c])
    /\ OvertakenIsMarked
    /\ FailureHasRival
    /\ SetIsFound

-----------------------------------------------------------------------------
(* What a step does to the calls.                                          *)

\* The call r becomes s, which differs in the mark at most.
SameButMark(r, s) ==
    /\ DOMAIN s = CallFields
    /\ s.pc = r.pc /\ s.op = r.op /\ s.srv = r.srv /\ s.name = r.name
    /\ s.prop = r.prop /\ s.options = r.options /\ s.value = r.value
    /\ s.node = r.node /\ s.result = r.result
    /\ r.raced => s.raced

\* A step of thread c may mark other threads and does nothing else to them.
OthersKept(c) ==
    /\ DOMAIN call' = Clients
    /\ \A d \in Clients : d # c => SameButMark(call[d], call'[d])

LEMMA GotoFacts ==
    ASSUME ShapeOK, NEW c \in Clients, NEW pc, Goto(c, pc)
    PROVE  /\ OthersKept(c)
           /\ call'[c] = [call[c] EXCEPT !.pc = pc]
           /\ DOMAIN call'[c] = CallFields
BY DEF Goto, ShapeOK, OthersKept, SameButMark

LEMMA ReturnFacts ==
    ASSUME ShapeOK, NEW c \in Clients, NEW result, Return(c, result)
    PROVE  /\ OthersKept(c)
           /\ call'[c] = [call[c] EXCEPT !.pc = "done", !.result = result]
           /\ DOMAIN call'[c] = CallFields
BY DEF Return, ShapeOK, OthersKept, SameButMark

LEMMA OvertakeFacts ==
    ASSUME ShapeOK, NEW c \in Clients, NEW result, Overtake(c, result)
    PROVE  /\ OthersKept(c)
           /\ call'[c] = [call[c] EXCEPT !.pc = "done", !.result = result]
           /\ DOMAIN call'[c] = CallFields
           /\ \A d \in Clients :
                /\ d # c
                /\ \/ call[d].pc = call[c].pc
                   \/ call[c].pc = "set" /\ call[d].pc = "declare"
                /\ call[d].name = call[c].name /\ call[d].node = call[c].node
                /\ call[c].pc = "addService" => call[d].srv = call[c].srv
                => call'[d].raced
<1>. DEFINE Same(d) ==
              /\ call[d].pc = call[c].pc \/ (call[c].pc = "set" /\ call[d].pc = "declare")
              /\ call[d].name = call[c].name /\ call[d].node = call[c].node
              /\ call[c].pc = "addService" => call[d].srv = call[c].srv
<1>1. call' = [d \in Clients |->
                 IF d = c THEN [call[d] EXCEPT !.pc = "done", !.result = result]
                 ELSE [call[d] EXCEPT !.raced = @ \/ Same(d)]]
  BY Zenon DEF Overtake
<1>. HIDE DEF Same
<1>2. ASSUME NEW d \in Clients, d # c
      PROVE  SameButMark(call[d], call'[d]) /\ (Same(d) => call'[d].raced)
  <2>1. call'[d] = [call[d] EXCEPT !.raced = @ \/ Same(d)]
    BY <1>1, <1>2
  <2>2. DOMAIN call[d] = CallFields
    BY DEF ShapeOK
  <2>3. call'[d].raced = (call[d].raced \/ Same(d))
    BY <2>1, <2>2 DEF CallFields
  <2>. QED BY <2>1, <2>2, <2>3 DEF SameButMark, CallFields
<1>3. /\ call'[c] = [call[c] EXCEPT !.pc = "done", !.result = result]
      /\ DOMAIN call'[c] = CallFields
  BY <1>1 DEF ShapeOK
<1>. QED BY <1>1, <1>2, <1>3 DEF OthersKept, Same

\* A thread whose call differs in the mark stands where it stood.
LEMMA ThreadKept ==
    ASSUME NEW r, NEW s, ThreadOK(r), SameButMark(r, s)
    PROVE  ThreadOK(s)
BY DEF ThreadOK, SameButMark

\* A step of thread c that leaves the nodes, the parameters and what is found
\* alone keeps the invariant if it leaves c where a thread may stand.
LEMMA CallOnlyStep ==
    ASSUME ParamInv, NEW c \in Clients, OthersKept(c),
           UNCHANGED <<nodes, parameters, found>>,
           DOMAIN properties' = DOMAIN PropertyType,
           DOMAIN call'[c] = CallFields,
           ThreadOK(call'[c]),
           /\ call'[c].pc = "declare" /\ parameters[call'[c].node][call'[c].name].declared
                => call'[c].raced
           /\ call'[c].pc = "addService" /\ nodes[call'[c].srv] # "none" => call'[c].raced,
           call'[c].result \in {"already declared", "node lost"} => call'[c].raced
    PROVE  ParamInv'
<1>1. ShapeOK'
  BY DEF ParamInv, ShapeOK, OthersKept, SameButMark
<1>2. \A d \in Clients : ThreadOK(call'[d])
  BY ThreadKept DEF ParamInv, OthersKept
<1>3. OvertakenIsMarked'
  <2>. SUFFICES ASSUME NEW d \in Clients
                PROVE  /\ call'[d].pc = "declare"
                            /\ parameters[call'[d].node][call'[d].name].declared
                              => call'[d].raced
                       /\ call'[d].pc = "addService" /\ nodes[call'[d].srv] # "none"
                              => call'[d].raced
    BY DEF OvertakenIsMarked
  <2>1. CASE d # c
    <3>1. /\ call'[d].pc = call[d].pc /\ call'[d].node = call[d].node
          /\ call'[d].name = call[d].name /\ call'[d].srv = call[d].srv
          /\ call[d].raced => call'[d].raced
      BY <2>1 DEF OthersKept, SameButMark
    <3>2. /\ call[d].pc = "declare" /\ parameters[call[d].node][call[d].name].declared
               => call[d].raced
          /\ call[d].pc = "addService" /\ nodes[call[d].srv] # "none" => call[d].raced
      BY Zenon DEF ParamInv, OvertakenIsMarked
    <3>. QED BY Zenon, <3>1, <3>2
  <2>2. CASE d = c
    BY Zenon, <2>2
  <2>. QED BY Zenon, <2>1, <2>2
<1>4. FailureHasRival'
  BY DEF ParamInv, FailureHasRival, OthersKept, SameButMark
<1>5. SetIsFound'
  <2>. SUFFICES ASSUME NEW s \in Places, NEW name \in Names, found'[s][name] # NotSet
                PROVE  /\ GetNode(s)' # "none"
                       /\ Held(GetNode(s), name)' = found'[s][name]
    BY Zenon DEF SetIsFound
  <2>1. GetNode(s)' = GetNode(s) /\ Held(GetNode(s), name)' = Held(GetNode(s), name)
    BY DEF GetNode, Held
  <2>2. GetNode(s) # "none" /\ Held(GetNode(s), name) = found[s][name]
    BY DEF ParamInv, SetIsFound
  <2>. QED BY <2>1, <2>2
<1>6. (\A d \in Clients : ThreadOK(call[d]))'
  BY <1>2 DEF ThreadOK
<1>. QED BY <1>1, <1>3, <1>4, <1>5, <1>6 DEF ParamInv

-----------------------------------------------------------------------------
(* Steps that leave the nodes and the parameters alone.                    *)

\* A return, with a result that claims nothing about other threads.
LEMMA ReturnStep ==
    ASSUME ParamInv, NEW c \in Clients, NEW result, Return(c, result),
           UNCHANGED <<nodes, parameters, found>>,
           DOMAIN properties' = DOMAIN PropertyType,
           result \in {"already declared", "node lost"} => call[c].raced
    PROVE  ParamInv'
<1>1. /\ OthersKept(c) /\ DOMAIN call'[c] = CallFields
      /\ call'[c] = [call[c] EXCEPT !.pc = "done", !.result = result]
  BY ReturnFacts DEF ParamInv
<1>2. /\ call'[c].pc = "done" /\ call'[c].result = result
      /\ call'[c].raced = call[c].raced
      /\ call'[c].value = call[c].value /\ call'[c].srv = call[c].srv
  BY <1>1 DEF ParamInv, ShapeOK, CallFields
<1>3. ThreadOK(call'[c])
  BY <1>2 DEF ParamInv, ThreadOK
<1>. QED BY <1>1, <1>2, <1>3, CallOnlyStep

\* A new call of an operation.
LEMMA CallStep ==
    ASSUME ParamInv, NEW c \in Clients, NEW op, NEW args, Call(c, op, args),
           DOMAIN args = CallFields, args.result = "none",
           ThreadOK([args EXCEPT !.op = op, !.pc = FirstStep[op]]),
           FirstStep[op] \in {"node", "convert", "hasService"}
    PROVE  ParamInv'
<1>. DEFINE r == [args EXCEPT !.op = op, !.pc = FirstStep[op]]
<1>1. /\ call' = [call EXCEPT ![c] = r]
      /\ UNCHANGED <<nodes, parameters, properties, found>>
  BY DEF Call
<1>2. DOMAIN r = CallFields /\ r.result = "none" /\ r.pc = FirstStep[op]
  BY DEF CallFields
<1>3. ThreadOK(r)
  OBVIOUS
<1>. HIDE DEF r
<1>4. OthersKept(c) /\ call'[c] = r
  BY <1>1 DEF ParamInv, ShapeOK, OthersKept, SameButMark
<1>5. DOMAIN properties' = DOMAIN PropertyType
  BY <1>1 DEF ParamInv, ShapeOK
<1>6. r.pc # "declare" /\ r.pc # "addService"
  BY <1>2
<1>. QED BY <1>1, <1>2, <1>3, <1>4, <1>5, <1>6, CallOnlyStep

LEMMA CallsStep ==
    ASSUME ParamInv, NEW c \in Clients,
           CallGet(c) \/ CallWrite(c) \/ CallCopy(c) \/ CallCreate(c)
    PROVE  ParamInv'
<1>0. DOMAIN NoCall = CallFields /\ IsValue(NotSet)
  BY DEF NoCall, CallFields, IsValue, NotSet
<1>1. CASE CallGet(c)
  <2>1. PICK s \in Places, name \in Names :
          Call(c, "getParameter", [NoCall EXCEPT !.srv = s, !.name = name])
    BY <1>1 DEF CallGet
  <2>. DEFINE args == [NoCall EXCEPT !.srv = s, !.name = name]
  <2>2. /\ DOMAIN args = CallFields /\ args.result = "none"
        /\ FirstStep["getParameter"] = "node"
    BY <1>0 DEF NoCall, FirstStep, NotSet
  <2>3. ThreadOK([args EXCEPT !.op = "getParameter", !.pc = "node"])
    BY <1>0 DEF NoCall, ThreadOK
  <2>. QED BY <2>1, <2>2, <2>3, CallStep
<1>2. CASE CallWrite(c)
  <2>1. PICK op \in Writers, s \in Places, name \in Names, pv \in Arguments :
          Call(c, op, [NoCall EXCEPT !.srv = s, !.name = name, !.value = pv])
    BY <1>2 DEF CallWrite
  <2>. DEFINE args == [NoCall EXCEPT !.srv = s, !.name = name, !.value = pv]
  <2>2. /\ DOMAIN args = CallFields /\ args.result = "none"
        /\ FirstStep[op] = "node" /\ IsValue(pv)
    BY <1>0, ParamAssumption DEF NoCall, FirstStep, Writers
  <2>3. ThreadOK([args EXCEPT !.op = op, !.pc = "node"])
    BY <1>0, <2>2 DEF NoCall, ThreadOK, Writers
  <2>. QED BY <2>1, <2>2, <2>3, CallStep
<1>3. CASE CallCopy(c)
  <2>1. PICK op \in {"loadProperty", "storeProperty"}, name \in Names,
             prop \in DOMAIN PropertyType \cup {"no property"} :
          Call(c, op, [NoCall EXCEPT !.name = name, !.prop = prop])
    BY <1>3 DEF CallCopy
  <2>. DEFINE args == [NoCall EXCEPT !.name = name, !.prop = prop]
  <2>2. /\ DOMAIN args = CallFields /\ args.result = "none"
    BY <1>0 DEF NoCall, NotSet
  <2>3. /\ ThreadOK([args EXCEPT !.op = op, !.pc = FirstStep[op]])
        /\ FirstStep[op] \in {"node", "convert"}
    <3>1. CASE op = "loadProperty"
      <4>1. FirstStep[op] = "node"
        BY <3>1 DEF FirstStep
      <4>. QED BY <3>1, <4>1, <1>0 DEF NoCall, ThreadOK, Places
    <3>2. CASE op = "storeProperty"
      <4>1. FirstStep[op] = "convert"
        BY <3>2 DEF FirstStep
      <4>. QED BY <3>2, <4>1, <1>0 DEF NoCall, ThreadOK, Places
    <3>. QED BY <3>1, <3>2
  <2>. QED BY <2>1, <2>2, <2>3, CallStep
<1>4. CASE CallCreate(c)
  <2>1. PICK n \in Places, o \in {"default", "strict"} :
          Call(c, "createNode", [NoCall EXCEPT !.srv = n, !.options = o])
    BY <1>4 DEF CallCreate
  <2>. DEFINE args == [NoCall EXCEPT !.srv = n, !.options = o]
  <2>2. /\ DOMAIN args = CallFields /\ args.result = "none"
        /\ FirstStep["createNode"] = "hasService"
    BY <1>0 DEF NoCall, FirstStep, NotSet
  <2>3. ThreadOK([args EXCEPT !.op = "createNode", !.pc = "hasService"])
    BY <1>0 DEF NoCall, ThreadOK
  <2>. QED BY <2>1, <2>2, <2>3, CallStep
<1>. QED BY <1>1, <1>2, <1>3, <1>4

\* The tests of a thread and the reading of a parameter.
LEMMA HasServiceStep ==
    ASSUME ParamInv, NEW c \in Clients, HasService(c)
    PROVE  ParamInv'
<1>1. UNCHANGED <<nodes, parameters, found>> /\ DOMAIN properties' = DOMAIN PropertyType
  BY DEF HasService, CallOnly, ParamInv, ShapeOK
<1>2. CASE nodes[call[c].srv] # "none"
  <2>1. Return(c, "false")
    BY <1>2 DEF HasService
  <2>. QED BY <2>1, <1>1, ReturnStep
<1>3. CASE nodes[call[c].srv] = "none"
  <2>1. Goto(c, "addService") /\ call[c].pc = "hasService"
    BY <1>3 DEF HasService, AtStep
  <2>2. /\ OthersKept(c) /\ DOMAIN call'[c] = CallFields
        /\ call'[c] = [call[c] EXCEPT !.pc = "addService"]
    BY <2>1, GotoFacts DEF ParamInv
  <2>3. ThreadOK(call'[c])
    BY <2>1, <2>2 DEF ParamInv, ShapeOK, CallFields, ThreadOK
  <2>4. call'[c].pc = "addService" /\ nodes[call'[c].srv] = "none"
    BY <1>3, <2>2 DEF ParamInv, ShapeOK, CallFields
  <2>5. call'[c].result \in {"already declared", "node lost"} => call'[c].raced
    BY <2>2 DEF ParamInv, ShapeOK, CallFields, FailureHasRival
  <2>. QED BY <1>1, <2>2, <2>3, <2>4, <2>5, CallOnlyStep
<1>. QED BY <1>2, <1>3

LEMMA LookUpNodeStep ==
    ASSUME ParamInv, NEW c \in Clients, LookUpNode(c)
    PROVE  ParamInv'
<1>. DEFINE n == GetNode(call[c].srv)
            next == CASE call[c].op \in {"getParameter", "loadProperty"}  -> "get"
                      [] call[c].op \in {"setParameter", "storeProperty"} -> "set"
                      [] OTHER                                            -> "has"
<1>1. /\ UNCHANGED <<nodes, parameters, found>> /\ DOMAIN properties' = DOMAIN PropertyType
      /\ call[c].pc = "node"
  BY DEF LookUpNode, CallOnly, ParamInv, ShapeOK, AtStep
<1>2. CASE n = "none"
  <2>1. Return(c, "false")
    BY <1>2 DEF LookUpNode
  <2>. QED BY <2>1, <1>1, ReturnStep
<1>3. CASE n # "none"
  <2>1. call' = [call EXCEPT ![c].node = n, ![c].pc = next]
    BY <1>3 DEF LookUpNode
  <2>2. n \in Places
    BY <1>3 DEF GetNode, Places
  <2>3. /\ next \in {"get", "set", "has"}
        /\ next = "get" <=> call[c].op \in {"getParameter", "loadProperty"}
    OBVIOUS
  <2>. HIDE DEF n, next
  <2>4. /\ OthersKept(c) /\ DOMAIN call'[c] = CallFields
        /\ call'[c] = [call[c] EXCEPT !.node = n, !.pc = next]
    BY <2>1 DEF ParamInv, ShapeOK, OthersKept, SameButMark
  <2>5. /\ call'[c].pc = next /\ call'[c].node = n /\ call'[c].op = call[c].op
        /\ call'[c].name = call[c].name /\ call'[c].value = call[c].value
        /\ call'[c].srv = call[c].srv /\ call'[c].result = call[c].result
        /\ call'[c].raced = call[c].raced
    BY <2>4 DEF ParamInv, ShapeOK, CallFields
  <2>6. ThreadOK(call'[c])
    BY <1>1, <2>2, <2>3, <2>5 DEF ParamInv, ThreadOK
  <2>7. call'[c].result \in {"already declared", "node lost"} => call'[c].raced
    BY <2>5 DEF ParamInv, FailureHasRival
  <2>8. call'[c].pc # "declare" /\ call'[c].pc # "addService"
    BY <2>3, <2>5
  <2>. QED BY <1>1, <2>4, <2>6, <2>7, <2>8, CallOnlyStep
<1>. QED BY <1>2, <1>3

LEMMA ReadParameterStep ==
    ASSUME ParamInv, NEW c \in Clients, ReadParameter(c)
    PROVE  ParamInv'
<1>. DEFINE pv == Held(call[c].node, call[c].name)
            result == IF pv = NotSet THEN "false" ELSE "true"
<1>1. /\ UNCHANGED <<nodes, parameters, found>> /\ DOMAIN properties' = DOMAIN PropertyType
      /\ call[c].pc = "get"
  BY DEF ReadParameter, CallOnly, ParamInv, ShapeOK, AtStep
<1>2. IsValue(pv)
  <2>1. call[c].node \in Places /\ call[c].name \in Names
    BY <1>1 DEF ParamInv, ThreadOK
  <2>2. IsValue(NotSet)
    BY DEF IsValue, NotSet
  <2>. QED BY <2>1, <2>2 DEF Held, ParamInv, ShapeOK
<1>3. \/ /\ call[c].op = "loadProperty"
         /\ call' = [call EXCEPT ![c].value = pv, ![c].pc = "update"]
      \/ call' = [call EXCEPT ![c].value = pv, ![c].pc = "done", ![c].result = result]
  BY DEF ReadParameter
<1>4. result \in {"true", "false"}
  OBVIOUS
<1>. HIDE DEF pv, result
<1>5. OthersKept(c) /\ DOMAIN call'[c] = CallFields
  BY <1>3 DEF ParamInv, ShapeOK, OthersKept, SameButMark
<1>6. /\ call'[c].value = pv /\ call'[c].op = call[c].op /\ call'[c].srv = call[c].srv
      /\ call'[c].name = call[c].name /\ call'[c].node = call[c].node
      /\ call'[c].raced = call[c].raced
      /\ \/ /\ call'[c].pc = "update" /\ call[c].op = "loadProperty"
            /\ call'[c].result = call[c].result
         \/ call'[c].pc = "done" /\ call'[c].result \in {"true", "false"}
  BY <1>3, <1>4 DEF ParamInv, ShapeOK, CallFields
<1>7. ThreadOK(call'[c])
  BY <1>1, <1>2, <1>6 DEF ParamInv, ThreadOK
<1>8. call'[c].result \in {"already declared", "node lost"} => call'[c].raced
  BY <1>6 DEF ParamInv, FailureHasRival
<1>9. call'[c].pc # "declare" /\ call'[c].pc # "addService"
  BY <1>6
<1>. QED BY <1>1, <1>5, <1>7, <1>8, <1>9, CallOnlyStep

LEMMA HasParameterStep ==
    ASSUME ParamInv, NEW c \in Clients, HasParameter(c)
    PROVE  ParamInv'
<1>. DEFINE declared == parameters[call[c].node][call[c].name].declared
<1>1. /\ UNCHANGED <<nodes, parameters, found>> /\ DOMAIN properties' = DOMAIN PropertyType
      /\ call[c].pc = "has"
  BY DEF HasParameter, CallOnly, ParamInv, ShapeOK, AtStep
<1>2. CASE declared /\ call[c].op # "setOrDeclareParameter"
  <2>1. Return(c, "false")
    BY <1>2 DEF HasParameter
  <2>. QED BY <2>1, <1>1, ReturnStep
<1>3. ASSUME NEW pc \in {"declare", "set"}, Goto(c, pc), declared => pc = "set"
      PROVE  ParamInv'
  <2>1. /\ OthersKept(c) /\ DOMAIN call'[c] = CallFields
        /\ call'[c] = [call[c] EXCEPT !.pc = pc]
    BY <1>3, GotoFacts DEF ParamInv
  <2>2. /\ call'[c].pc = pc /\ call'[c].node = call[c].node /\ call'[c].op = call[c].op
        /\ call'[c].name = call[c].name /\ call'[c].value = call[c].value
        /\ call'[c].srv = call[c].srv /\ call'[c].result = call[c].result
        /\ call'[c].raced = call[c].raced
    BY <2>1 DEF ParamInv, ShapeOK, CallFields
  <2>3. ThreadOK(call'[c])
    BY <1>1, <1>3, <2>2 DEF ParamInv, ThreadOK
  <2>4. call'[c].result \in {"already declared", "node lost"} => call'[c].raced
    BY <2>2 DEF ParamInv, FailureHasRival
  <2>5. /\ call'[c].pc # "addService"
        /\ call'[c].pc = "declare" => ~parameters[call'[c].node][call'[c].name].declared
    BY <1>3, <2>2
  <2>. QED BY <1>1, <2>1, <2>3, <2>4, <2>5, CallOnlyStep
<1>4. CASE ~declared
  <2>1. Goto(c, "declare")
    BY <1>4 DEF HasParameter
  <2>. QED BY <2>1, <1>3, <1>4
<1>5. CASE declared /\ call[c].op = "setOrDeclareParameter"
  <2>1. Goto(c, "set")
    BY <1>5 DEF HasParameter
  <2>. QED BY <2>1, <1>3
<1>. QED BY <1>2, <1>4, <1>5

LEMMA UpdatePropertyStep ==
    ASSUME ParamInv, NEW c \in Clients, UpdateProperty(c)
    PROVE  ParamInv'
<1>1. UNCHANGED <<nodes, parameters, found>>
  BY DEF UpdateProperty
<1>2. /\ Return(c, "true") \/ Return(c, "false")
      /\ DOMAIN properties' = DOMAIN PropertyType
  BY DEF UpdateProperty, ParamInv, ShapeOK
<1>. QED BY <1>1, <1>2, ReturnStep

LEMMA ConvertPropertyStep ==
    ASSUME ParamInv, NEW c \in Clients, ConvertProperty(c)
    PROVE  ParamInv'
<1>. DEFINE pv == ToParameterValue(PropertyType[call[c].prop], properties[call[c].prop])
<1>1. /\ UNCHANGED <<nodes, parameters, found>> /\ DOMAIN properties' = DOMAIN PropertyType
      /\ call[c].pc = "convert"
  BY DEF ConvertProperty, CallOnly, ParamInv, ShapeOK, AtStep
<1>2. CASE Return(c, "false")
  BY <1>1, <1>2, ReturnStep
<1>3. CASE call' = [call EXCEPT ![c].pc = "node", ![c].value = pv]
  <2>1. IsValue(pv)
    BY DEF IsValue, ToParameterValue, ParameterValue
  <2>. HIDE DEF pv
  <2>2. OthersKept(c) /\ DOMAIN call'[c] = CallFields
    BY <1>3 DEF ParamInv, ShapeOK, OthersKept, SameButMark
  <2>3. /\ call'[c].value = pv /\ call'[c].op = call[c].op /\ call'[c].srv = call[c].srv
        /\ call'[c].name = call[c].name /\ call'[c].pc = "node"
        /\ call'[c].raced = call[c].raced /\ call'[c].result = call[c].result
    BY <1>3 DEF ParamInv, ShapeOK, CallFields
  <2>4. ThreadOK(call'[c])
    BY <1>1, <2>1, <2>3 DEF ParamInv, ThreadOK
  <2>5. call'[c].result \in {"already declared", "node lost"} => call'[c].raced
    BY <2>3 DEF ParamInv, FailureHasRival
  <2>. QED BY <1>1, <2>2, <2>3, <2>4, <2>5, CallOnlyStep
<1>. QED BY <1>2, <1>3 DEF ConvertProperty

-----------------------------------------------------------------------------
(* Steps that change nodes and parameters.                                 *)

\* A node is added where there was none: nothing was found there, and the
\* threads that are about to add it, too, are marked.
LEMMA AddServiceStep ==
    ASSUME ParamInv, NEW c \in Clients, AddService(c)
    PROVE  ParamInv'
<1>. DEFINE n == call[c].srv
<1>1. /\ UNCHANGED <<parameters, properties>> /\ call[c].pc = "addService"
      /\ n \in Places /\ call[c].name = "none" /\ call[c].node = "none"
      /\ call[c].options \in {"default", "strict"}
  BY DEF AddService, AtStep, ParamInv, ThreadOK
<1>2. CASE nodes[n] # "none" /\ Return(c, "node lost") /\ UNCHANGED <<nodes, found>>
  <2>1. call[c].raced
    BY <1>1, <1>2 DEF ParamInv, OvertakenIsMarked
  <2>. QED BY <1>1, <1>2, <2>1, ReturnStep DEF ParamInv, ShapeOK
<1>3. CASE /\ nodes[n] = "none"
           /\ nodes' = [nodes EXCEPT ![n] = call[c].options]
           /\ found' = IF n = "tc" THEN [found EXCEPT !["tc"] = NothingFound] ELSE found
           /\ Overtake(c, "true")
  <2>1. /\ OthersKept(c) /\ DOMAIN call'[c] = CallFields
        /\ call'[c] = [call[c] EXCEPT !.pc = "done", !.result = "true"]
        /\ \A d \in Clients :
              /\ d # c /\ call[d].pc = "addService"
              /\ call[d].name = "none" /\ call[d].node = "none"
              /\ call[d].srv = n
              => call'[d].raced
    BY <1>1, <1>3, OvertakeFacts DEF ParamInv
  <2>2. /\ call'[c].pc = "done" /\ call'[c].result = "true"
        /\ call'[c].value = call[c].value /\ call'[c].srv = call[c].srv
    BY <2>1 DEF ParamInv, ShapeOK, CallFields
  <2>3. /\ nodes \in [Places -> {"none", "default", "strict"}]
        /\ nodes' \in [Places -> {"none", "default", "strict"}]
        /\ \A m \in Places : m # n => nodes'[m] = nodes[m]
        /\ nodes'[n] # "none"
    BY <1>1, <1>3 DEF ParamInv, ShapeOK
  <2>4. /\ DOMAIN found' = Places /\ \A s \in Places : DOMAIN found'[s] = Names
        /\ \A s \in Places, name \in Names :
              found'[s][name] # NotSet =>
                 found'[s][name] = found[s][name] /\ (n = "tc" => s # "tc")
    BY <1>1, <1>3 DEF ParamInv, ShapeOK, NothingFound, Places
  <2>5. ShapeOK'
    BY <1>1, <2>1, <2>3, <2>4 DEF ParamInv, ShapeOK, OthersKept, SameButMark
  <2>6. ASSUME NEW d \in Clients PROVE ThreadOK(call'[d])
    <3>1. CASE d = c
      BY <3>1, <2>2 DEF ParamInv, ThreadOK
    <3>2. CASE d # c
      BY <3>2, <2>1, ThreadKept DEF ParamInv, OthersKept
    <3>. QED BY <3>1, <3>2
  <2>7. (\A d \in Clients : ThreadOK(call[d]))'
    BY <2>6 DEF ThreadOK
  <2>8. OvertakenIsMarked'
    <3>. SUFFICES ASSUME NEW d \in Clients
                  PROVE  /\ call'[d].pc = "declare"
                              /\ parameters[call'[d].node][call'[d].name].declared
                                => call'[d].raced
                         /\ call'[d].pc = "addService" /\ nodes'[call'[d].srv] # "none"
                                => call'[d].raced
      BY <1>1 DEF OvertakenIsMarked
    <3>1. CASE d = c
      BY <3>1, <2>2
    <3>2. CASE d # c
      <4>1. SameButMark(call[d], call'[d])
        BY <3>2, <2>1 DEF OthersKept
      <4>2. call'[d].pc = "declare" /\ parameters[call'[d].node][call'[d].name].declared
              => call'[d].raced
        BY <4>1 DEF ParamInv, OvertakenIsMarked, SameButMark
      <4>3. ASSUME call'[d].pc = "addService", nodes'[call'[d].srv] # "none"
            PROVE  call'[d].raced
        <5>1. call[d].pc = "addService" /\ nodes'[call[d].srv] # "none"
          BY <4>1, <4>3 DEF SameButMark
        <5>2. call[d].name = "none" /\ call[d].node = "none" /\ call[d].srv \in Places
          BY <5>1 DEF ParamInv, ThreadOK
        <5>3. CASE call[d].srv = n
          BY <5>1, <5>2, <5>3, <3>2, <2>1
        <5>4. CASE call[d].srv # n
          <6>1. nodes[call[d].srv] # "none"
            BY <5>1, <5>2, <5>4, <2>3
          <6>2. call[d].raced
            BY <6>1, <5>1 DEF ParamInv, OvertakenIsMarked
          <6>. QED BY <6>2, <4>1 DEF SameButMark
        <5>. QED BY <5>3, <5>4
      <4>. QED BY <4>2, <4>3
    <3>. QED BY <3>1, <3>2
  <2>9. FailureHasRival'
    BY <2>1, <2>2 DEF ParamInv, FailureHasRival, OthersKept, SameButMark
  <2>10. SetIsFound'
    <3>. SUFFICES ASSUME NEW s \in Places, NEW name \in Names, found'[s][name] # NotSet
                  PROVE  /\ GetNode(s)' # "none"
                         /\ Held(GetNode(s), name)' = found'[s][name]
      BY Zenon DEF SetIsFound
    <3>1. found'[s][name] = found[s][name] /\ (n = "tc" => s # "tc")
      BY <2>4
    <3>2. GetNode(s) # "none" /\ Held(GetNode(s), name) = found[s][name]
      BY <3>1 DEF ParamInv, SetIsFound
    <3>3. GetNode(s)' = GetNode(s)
      BY <3>1, <3>2, <1>1, <1>3, <2>3 DEF GetNode, Places
    <3>4. Held(GetNode(s), name)' = Held(GetNode(s), name)
      BY <3>3, <1>1 DEF Held
    <3>. QED BY <3>1, <3>2, <3>3, <3>4
  <2>. QED BY <2>5, <2>7, <2>8, <2>9, <2>10 DEF ParamInv
<1>. QED BY <1>2, <1>3 DEF AddService

\* What writing a parameter changes.
LEMMA WriteFacts ==
    ASSUME ParamInv, NEW c \in Clients, call[c].pc \in {"declare", "set"},
           NEW pv, NEW dynamic, Write(c, Declared(pv, dynamic))
    PROVE  /\ call[c].node \in Places /\ call[c].name \in Names
           /\ DOMAIN parameters' = Places
           /\ \A n \in Places : DOMAIN parameters'[n] = Names
           /\ \A n \in Places, name \in Names :
                 n # call[c].node \/ name # call[c].name =>
                    parameters'[n][name] = parameters[n][name]
           /\ parameters'[call[c].node][call[c].name] = Declared(pv, dynamic)
           /\ DOMAIN found' = Places
           /\ \A s \in Places : DOMAIN found'[s] = Names
           /\ \A s \in Places, name \in Names :
                 GetNode(s) # call[c].node \/ name # call[c].name =>
                    found'[s][name] = found[s][name]
           /\ \A s \in Places :
                 GetNode(s) = call[c].node => found'[s][call[c].name] \in {NotSet, pv}
           /\ Overtake(c, "true")
<1>. DEFINE n0 == call[c].node
            name0 == call[c].name
            p == Declared(pv, dynamic)
            Finds(s) == IF s = call[c].srv THEN p.value ELSE NotSet
<1>1. n0 \in Places /\ name0 \in Names
  BY DEF ParamInv, ThreadOK
<1>2. /\ parameters' = [parameters EXCEPT ![n0][name0] = p]
      /\ found' = [s \in Places |->
            IF GetNode(s) = n0 THEN [found[s] EXCEPT ![name0] = Finds(s)] ELSE found[s]]
      /\ Overtake(c, "true")
  BY Zenon DEF Write
<1>3. p.value = pv
  BY DEF Declared
<1>4. \A s : Finds(s) \in {NotSet, pv}
  BY <1>3
<1>. HIDE DEF n0, name0, p, Finds
<1>5. /\ DOMAIN parameters = Places /\ \A n \in Places : DOMAIN parameters[n] = Names
      /\ \A s \in Places : DOMAIN found[s] = Names
  BY DEF ParamInv, ShapeOK
<1>6. /\ DOMAIN parameters' = Places
      /\ \A n \in Places : DOMAIN parameters'[n] = Names
      /\ \A n \in Places, name \in Names :
            n # n0 \/ name # name0 => parameters'[n][name] = parameters[n][name]
      /\ parameters'[n0][name0] = p
  BY <1>1, <1>2, <1>5
<1>7. /\ DOMAIN found' = Places
      /\ \A s \in Places : DOMAIN found'[s] = Names
      /\ \A s \in Places, name \in Names :
            GetNode(s) # n0 \/ name # name0 => found'[s][name] = found[s][name]
      /\ \A s \in Places : GetNode(s) = n0 => found'[s][name0] = Finds(s)
  BY <1>1, <1>2, <1>5
<1>. QED BY <1>1, <1>2, <1>4, <1>6, <1>7 DEF n0, name0, p

\* Writing a parameter: the threads that are about to declare it are marked,
\* and the writer alone is told to find the value.
LEMMA WriteStep ==
    ASSUME ParamInv, NEW c \in Clients, call[c].pc \in {"declare", "set"},
           NEW pv, NEW dynamic, IsValue(pv), Write(c, Declared(pv, dynamic)),
           UNCHANGED <<nodes, properties>>
    PROVE  ParamInv'
<1>. DEFINE n0 == call[c].node
            name0 == call[c].name
<1>1. /\ n0 \in Places /\ name0 \in Names
      /\ DOMAIN parameters' = Places
      /\ \A n \in Places : DOMAIN parameters'[n] = Names
      /\ \A n \in Places, name \in Names :
            n # n0 \/ name # name0 => parameters'[n][name] = parameters[n][name]
      /\ parameters'[n0][name0] = Declared(pv, dynamic)
  BY WriteFacts
<1>2. /\ DOMAIN found' = Places
      /\ \A s \in Places : DOMAIN found'[s] = Names
      /\ \A s \in Places, name \in Names :
            GetNode(s) # n0 \/ name # name0 => found'[s][name] = found[s][name]
      /\ \A s \in Places : GetNode(s) = n0 => found'[s][name0] \in {NotSet, pv}
  BY WriteFacts
<1>3. Overtake(c, "true")
  BY WriteFacts
<1>4. Declared(pv, dynamic).declared = TRUE /\ Declared(pv, dynamic).value = pv
  BY DEF Declared
<1>5. /\ OthersKept(c) /\ DOMAIN call'[c] = CallFields
      /\ call'[c] = [call[c] EXCEPT !.pc = "done", !.result = "true"]
      /\ \A d \in Clients :
            d # c /\ call[d].pc = "declare" /\ call[d].name = name0 /\ call[d].node = n0
              => call'[d].raced
  BY <1>3, OvertakeFacts DEF ParamInv
<1>6. /\ call'[c].pc = "done" /\ call'[c].result = "true"
      /\ call'[c].value = call[c].value /\ call'[c].srv = call[c].srv
  BY <1>5 DEF ParamInv, ShapeOK, CallFields
<1>. HIDE DEF n0, name0
<1>7. ShapeOK'
  <2>1. ASSUME NEW n \in Places, NEW name \in Names
        PROVE  /\ parameters'[n][name].declared \in BOOLEAN
               /\ parameters'[n][name].declared => IsValue(parameters'[n][name].value)
    <3>1. CASE n = n0 /\ name = name0
      BY <3>1, <1>1, <1>4
    <3>2. CASE n # n0 \/ name # name0
      <4>1. parameters'[n][name] = parameters[n][name]
        BY <3>2, <1>1
      <4>. QED BY <4>1 DEF ParamInv, ShapeOK
    <3>. QED BY <3>1, <3>2
  <2>2. DOMAIN call' = Clients /\ \A d \in Clients : DOMAIN call'[d] = CallFields
    BY <1>5 DEF OthersKept, SameButMark
  <2>3. /\ nodes' \in [Places -> {"none", "default", "strict"}]
        /\ DOMAIN properties' = DOMAIN PropertyType
    BY DEF ParamInv, ShapeOK
  <2>4. \A n \in Places, name \in Names :
          /\ parameters'[n][name].declared \in BOOLEAN
          /\ parameters'[n][name].declared => IsValue(parameters[n][name].value)'
    BY <2>1 DEF IsValue
  <2>. QED BY <2>2, <2>3, <2>4, <1>1, <1>2 DEF ShapeOK
<1>8. ASSUME NEW d \in Clients PROVE ThreadOK(call'[d])
  <2>1. CASE d = c
    BY <2>1, <1>6 DEF ParamInv, ThreadOK
  <2>2. CASE d # c
    BY <2>2, <1>5, ThreadKept DEF ParamInv, OthersKept
  <2>. QED BY <2>1, <2>2
<1>9. (\A d \in Clients : ThreadOK(call[d]))'
  BY <1>8 DEF ThreadOK
<1>10. OvertakenIsMarked'
  <2>. SUFFICES ASSUME NEW d \in Clients
                PROVE  /\ call'[d].pc = "declare"
                            /\ parameters'[call'[d].node][call'[d].name].declared
                              => call'[d].raced
                       /\ call'[d].pc = "addService" /\ nodes[call'[d].srv] # "none"
                              => call'[d].raced
    BY DEF OvertakenIsMarked
  <2>1. CASE d = c
    BY <2>1, <1>6
  <2>2. CASE d # c
    <3>1. SameButMark(call[d], call'[d])
      BY <2>2, <1>5 DEF OthersKept
    <3>2. call'[d].pc = "addService" /\ nodes[call'[d].srv] # "none" => call'[d].raced
      BY <3>1 DEF ParamInv, OvertakenIsMarked, SameButMark
    <3>3. ASSUME call[d].pc = "declare", parameters'[call[d].node][call[d].name].declared
          PROVE  call'[d].raced
      <4>1. call[d].node \in Places /\ call[d].name \in Names
        BY <3>3 DEF ParamInv, ThreadOK
      <4>2. CASE call[d].node = n0 /\ call[d].name = name0
        BY <4>2, <3>3, <2>2, <1>5
      <4>3. CASE ~(call[d].node = n0 /\ call[d].name = name0)
        <5>1. parameters[call[d].node][call[d].name].declared
          BY <4>1, <4>3, <3>3, <1>1
        <5>2. call[d].raced
          BY <5>1, <3>3 DEF ParamInv, OvertakenIsMarked
        <5>. QED BY <5>2, <3>1 DEF SameButMark
      <4>. QED BY <4>2, <4>3
    <3>. QED BY <3>1, <3>2, <3>3 DEF SameButMark
  <2>. QED BY <2>1, <2>2
<1>11. FailureHasRival'
  BY <1>5, <1>6 DEF ParamInv, FailureHasRival, OthersKept, SameButMark
<1>12. SetIsFound'
  <2>. SUFFICES ASSUME NEW s \in Places, NEW name \in Names, found'[s][name] # NotSet
                PROVE  /\ GetNode(s)' # "none"
                       /\ Held(GetNode(s), name)' = found'[s][name]
    BY Zenon DEF SetIsFound
  <2>1. GetNode(s)' = GetNode(s)
    BY DEF GetNode
  <2>2. CASE GetNode(s) = n0 /\ name = name0
    <3>1. found'[s][name] = pv
      BY <2>2, <1>2
    <3>2. parameters'[n0][name0].declared /\ parameters'[n0][name0].value = pv
      BY <1>1, <1>4
    <3>3. n0 # "none"
      BY <1>1 DEF Places
    <3>. QED BY <2>1, <2>2, <3>1, <3>2, <3>3 DEF Held
  <2>3. CASE GetNode(s) # n0 \/ name # name0
    <3>1. found'[s][name] = found[s][name]
      BY <2>3, <1>2
    <3>2. GetNode(s) # "none" /\ Held(GetNode(s), name) = found[s][name]
      BY <3>1 DEF ParamInv, SetIsFound
    <3>3. GetNode(s) \in Places
      BY <3>2 DEF GetNode, Places
    <3>4. parameters'[GetNode(s)][name] = parameters[GetNode(s)][name]
      BY <2>3, <3>3, <1>1
    <3>5. Held(GetNode(s), name)' = Held(GetNode(s), name)
      BY <2>1, <3>4 DEF Held
    <3>. QED BY <2>1, <3>1, <3>2, <3>5
  <2>. QED BY <2>2, <2>3
<1>. QED BY <1>7, <1>9, <1>10, <1>11, <1>12 DEF ParamInv

LEMMA DeclareParameterStep ==
    ASSUME ParamInv, NEW c \in Clients, DeclareParameter(c)
    PROVE  ParamInv'
<1>. DEFINE pv == Declaring(call[c].name, call[c].value)
<1>1. UNCHANGED <<nodes, properties>> /\ call[c].pc = "declare"
  BY DEF DeclareParameter, AtStep
<1>2. ASSUME NEW result, Fail(c, result),
             result = "already declared" => call[c].raced, result # "node lost"
      PROVE  ParamInv'
  BY <1>1, <1>2, ReturnStep DEF Fail, ParamInv, ShapeOK
<1>3. CASE parameters[call[c].node][call[c].name].declared
  <2>1. Fail(c, "already declared")
    BY <1>3 DEF DeclareParameter
  <2>2. call[c].raced
    BY <1>1, <1>3 DEF ParamInv, OvertakenIsMarked
  <2>. QED BY <1>2, <2>1, <2>2
<1>4. CASE /\ ~parameters[call[c].node][call[c].name].declared
           /\ pv.type # call[c].value.type
  <2>1. Fail(c, "invalid type")
    BY <1>4 DEF DeclareParameter
  <2>. QED BY <1>2, <2>1
<1>5. CASE /\ ~parameters[call[c].node][call[c].name].declared
           /\ pv.type = call[c].value.type
  <2>1. Write(c, Declared(pv, FALSE))
    BY <1>5 DEF DeclareParameter
  <2>2. IsValue(pv)
    BY ParamAssumption DEF Declaring, ParamInv, ThreadOK
  <2>. QED BY <2>1, <2>2, <1>1, WriteStep
<1>. QED BY <1>3, <1>4, <1>5

LEMMA SetParameterStep ==
    ASSUME ParamInv, NEW c \in Clients, SetParameter(c)
    PROVE  ParamInv'
<1>. DEFINE p == parameters[call[c].node][call[c].name]
<1>1. UNCHANGED <<nodes, properties>> /\ call[c].pc = "set"
  BY DEF SetParameter, AtStep
<1>2. Fail(c, "false") \/ Write(c, Declared(call[c].value, p.declared => p.dynamic))
  BY Zenon DEF SetParameter
<1>3. CASE Fail(c, "false")
  BY <1>1, <1>3, ReturnStep DEF Fail, ParamInv, ShapeOK
<1>4. CASE Write(c, Declared(call[c].value, p.declared => p.dynamic))
  <2>. DEFINE dynamic == (p.declared => p.dynamic)
  <2>1. Write(c, Declared(call[c].value, dynamic))
    BY <1>4
  <2>2. IsValue(call[c].value)
    BY DEF ParamInv, ThreadOK
  <2>. HIDE DEF dynamic
  <2>. QED BY <2>1, <2>2, <1>1, WriteStep
<1>. QED BY <1>2, <1>3, <1>4

-----------------------------------------------------------------------------
(* The theorems.                                                           *)

LEMMA ParamInvInit == ParamInit => ParamInv
<1>. SUFFICES ASSUME ParamInit PROVE ParamInv
  OBVIOUS
<1>1. \A c \in Clients : call[c] = NoCall
  BY DEF ParamInit
<1>2. DOMAIN NoCall = CallFields /\ NoCall.pc = "done" /\ NoCall.result = "none"
  BY DEF NoCall, CallFields
<1>3. ThreadOK(NoCall)
  BY DEF ThreadOK, NoCall, IsValue, NotSet, Places
<1>4. ShapeOK
  BY <1>1, <1>2 DEF ParamInit, ShapeOK, Undeclared, NothingFound
<1>5. OvertakenIsMarked /\ FailureHasRival
  BY <1>1, <1>2 DEF OvertakenIsMarked, FailureHasRival
<1>6. SetIsFound
  BY DEF ParamInit, SetIsFound, NothingFound
<1>. QED BY <1>1, <1>3, <1>4, <1>5, <1>6 DEF ParamInv

\* Every step keeps the invariant.
LEMMA ParamInvStep == ParamInv /\ [ParamNext]_paramVars => ParamInv'
<1>. SUFFICES ASSUME ParamInv, [ParamNext]_paramVars PROVE ParamInv'
  OBVIOUS
<1>1. CASE ParamNext
  <2>1. PICK c \in Clients :
          \/ CallGet(c) \/ CallWrite(c) \/ CallCopy(c) \/ CallCreate(c)
          \/ HasService(c) \/ AddService(c) \/ LookUpNode(c)
          \/ ReadParameter(c) \/ HasParameter(c) \/ DeclareParameter(c) \/ SetParameter(c)
          \/ UpdateProperty(c) \/ ConvertProperty(c)
    BY <1>1, Zenon DEF ParamNext
  <2>. QED
    BY <2>1, CallsStep, HasServiceStep, AddServiceStep, LookUpNodeStep,
       ReadParameterStep, HasParameterStep, DeclareParameterStep, SetParameterStep,
       UpdatePropertyStep, ConvertPropertyStep
<1>2. CASE UNCHANGED paramVars
  <2>1. UNCHANGED <<nodes, parameters, properties, call, found>>
    BY <1>2 DEF paramVars
  <2>2. ShapeOK' /\ OvertakenIsMarked' /\ FailureHasRival'
    BY <2>1 DEF ParamInv, ShapeOK, OvertakenIsMarked, FailureHasRival, IsValue
  <2>3. (\A c \in Clients : ThreadOK(call[c]))'
    BY <2>1 DEF ParamInv, ThreadOK, IsValue
  <2>4. SetIsFound'
    BY <2>1 DEF ParamInv, SetIsFound, GetNode, Held
  <2>. QED BY <2>2, <2>3, <2>4 DEF ParamInv
<1>. QED BY <1>1, <1>2

LEMMA ParamInvariant == ParamSpec => []ParamInv
BY ParamInvInit, ParamInvStep, PTL DEF ParamSpec

\* The exception of a declared parameter leaves an operation, and a created
\* node is lost, only where another thread came between test and act: for any
\* number of threads, names and values.
THEOREM FailureNeedsRival == ParamSpec => []FailureHasRival
<1>1. ParamInv => FailureHasRival
  BY DEF ParamInv
<1>. QED BY ParamInvariant, <1>1, PTL

\* What a service has set is what it finds until somebody else writes it,
\* whatever nodes are created meanwhile.
THEOREM ServiceFindsWhatItSet == ParamSpec => []SetIsFound
<1>1. ParamInv => SetIsFound
  BY DEF ParamInv
<1>. QED BY ParamInvariant, <1>1, PTL

-----------------------------------------------------------------------------
(* What a call that ends has done.                                         *)

\* No step ends the call of another thread.
LEMMA OneThreadSteps ==
    ASSUME ParamInv, NEW c \in Clients,
           \/ CallGet(c) \/ CallWrite(c) \/ CallCopy(c) \/ CallCreate(c)
           \/ HasService(c) \/ AddService(c) \/ LookUpNode(c)
           \/ ReadParameter(c) \/ HasParameter(c) \/ DeclareParameter(c) \/ SetParameter(c)
           \/ UpdateProperty(c) \/ ConvertProperty(c),
           NEW d \in Clients, Ends(d)
    PROVE  d = c
<1>. SUFFICES ASSUME d # c PROVE call'[d].pc = call[d].pc
  BY DEF Ends, AtStep
<1>0. DOMAIN call = Clients /\ ShapeOK
  BY DEF ParamInv, ShapeOK
<1>1. ASSUME OthersKept(c) PROVE call'[d].pc = call[d].pc
  BY <1>1 DEF OthersKept, SameButMark
<1>2. ASSUME NEW r, call' = [call EXCEPT ![c] = r] PROVE call'[d].pc = call[d].pc
  BY <1>0, <1>2
<1>3. CASE CallGet(c) \/ CallWrite(c) \/ CallCopy(c) \/ CallCreate(c)
  BY <1>2, <1>3 DEF CallGet, CallWrite, CallCopy, CallCreate, Call
<1>4. ASSUME NEW result, Return(c, result) PROVE call'[d].pc = call[d].pc
  BY <1>0, <1>1, <1>4, ReturnFacts
<1>5. ASSUME NEW pc, Goto(c, pc) PROVE call'[d].pc = call[d].pc
  BY <1>0, <1>1, <1>5, GotoFacts
<1>6. ASSUME NEW result, Overtake(c, result) PROVE call'[d].pc = call[d].pc
  BY <1>0, <1>1, <1>6, OvertakeFacts
<1>7. CASE HasService(c) \/ HasParameter(c)
  BY <1>4, <1>5, <1>7 DEF HasService, HasParameter
<1>8. CASE AddService(c)
  BY <1>4, <1>6, <1>8 DEF AddService
<1>9. CASE LookUpNode(c)
  BY <1>0, <1>4, <1>9 DEF LookUpNode
<1>10. CASE ReadParameter(c)
  BY <1>0, <1>10 DEF ReadParameter
<1>11. CASE DeclareParameter(c) \/ SetParameter(c)
  BY <1>4, <1>6, <1>11 DEF DeclareParameter, SetParameter, Fail, Write
<1>12. CASE UpdateProperty(c)
  BY <1>4, <1>12 DEF UpdateProperty
<1>13. CASE ConvertProperty(c)
  BY <1>0, <1>4, <1>13 DEF ConvertProperty
<1>. QED
  BY <1>3, <1>7, <1>8, <1>9, <1>10, <1>11, <1>12, <1>13

\* A call that returns has the result it returns.
LEMMA ResultFacts ==
    ASSUME ParamInv, NEW c \in Clients, NEW result,
           Return(c, result) \/ Overtake(c, result)
    PROVE  call'[c].result = result
<1>1. call'[c] = [call[c] EXCEPT !.pc = "done", !.result = result]
  BY ReturnFacts, OvertakeFacts DEF ParamInv
<1>. QED BY <1>1 DEF ParamInv, ShapeOK, CallFields

\* A call that writes and returns true leaves its value, or the override if it
\* declares, in the parameter; one that returns false or raises leaves every
\* parameter alone, whatever other threads do.
THEOREM TrueReturnIsHeld == ParamSpec => TrueMeansHeld
<1>. DEFINE Held1(c) ==
              Ends(c) /\ call[c].op \in Writers \cup {"storeProperty"} =>
                IF call'[c].result = "true"
                THEN parameters'[call[c].node][call[c].name].value \in
                       {call[c].value} \cup
                       {Declaring(n, call[c].value) :
                          n \in {m \in {call[c].name} : AtStep(c, "declare")}}
                ELSE parameters' = parameters
<1>1. ParamInv /\ [ParamNext]_paramVars => [\A c \in Clients : Held1(c)]_paramVars
  <2>. SUFFICES ASSUME ParamInv, ParamNext, NEW e \in Clients, Ends(e),
                       call[e].op \in Writers \cup {"storeProperty"}
                PROVE  IF call'[e].result = "true"
                       THEN parameters'[call[e].node][call[e].name].value \in
                              {call[e].value} \cup
                              {Declaring(n, call[e].value) :
                                 n \in {m \in {call[e].name} : AtStep(e, "declare")}}
                       ELSE parameters' = parameters
    OBVIOUS
  <2>1. PICK c \in Clients :
          \/ CallGet(c) \/ CallWrite(c) \/ CallCopy(c) \/ CallCreate(c)
          \/ HasService(c) \/ AddService(c) \/ LookUpNode(c)
          \/ ReadParameter(c) \/ HasParameter(c) \/ DeclareParameter(c) \/ SetParameter(c)
          \/ UpdateProperty(c) \/ ConvertProperty(c)
    BY Zenon DEF ParamNext
  <2>2. e = c
    BY <2>1, OneThreadSteps
  <2>3. /\ call[c].pc # "done" /\ call'[c].pc = "done"
        /\ call[c].op \notin {"createNode", "getParameter", "loadProperty"}
    BY <2>2 DEF Ends, AtStep, Writers
  <2>4. ASSUME NEW result, Return(c, result), result # "true", UNCHANGED parameters
        PROVE  call'[c].result # "true" /\ parameters' = parameters
    BY <2>4, ResultFacts
  <2>5. ~(CallGet(c) \/ CallWrite(c) \/ CallCopy(c) \/ CallCreate(c))
    BY <2>3 DEF CallGet, CallWrite, CallCopy, CallCreate, Call
  <2>6. ~(HasService(c) \/ AddService(c) \/ ReadParameter(c) \/ UpdateProperty(c))
    BY <2>3 DEF HasService, AddService, ReadParameter, UpdateProperty, AtStep,
                ParamInv, ThreadOK
  <2>7. CASE LookUpNode(c) \/ ConvertProperty(c)
    <3>1. UNCHANGED parameters
      BY <2>7 DEF LookUpNode, ConvertProperty, CallOnly
    <3>2. Return(c, "false")
      <4>1. DOMAIN call = Clients /\ DOMAIN call[c] = CallFields
        BY DEF ParamInv, ShapeOK
      <4>2. CASE LookUpNode(c)
        <5>. DEFINE next == CASE call[c].op \in {"getParameter", "loadProperty"}  -> "get"
                              [] call[c].op \in {"setParameter", "storeProperty"} -> "set"
                              [] OTHER                                            -> "has"
        <5>1. next \in {"get", "set", "has"}
          OBVIOUS
        <5>2. \/ Return(c, "false")
              \/ \E n : call' = [call EXCEPT ![c].node = n, ![c].pc = next]
          BY <4>2 DEF LookUpNode
        <5>. HIDE DEF next
        <5>3. ASSUME NEW n, call' = [call EXCEPT ![c].node = n, ![c].pc = next]
              PROVE  FALSE
          <6>1. call'[c].pc = next
            BY <5>3, <4>1 DEF CallFields
          <6>. QED BY <6>1, <5>1, <2>3
        <5>. QED BY <5>2, <5>3
      <4>3. CASE ConvertProperty(c)
        <5>1. \/ Return(c, "false")
              \/ \E v : call' = [call EXCEPT ![c].pc = "node", ![c].value = v]
          BY <4>3 DEF ConvertProperty
        <5>2. ASSUME NEW v, call' = [call EXCEPT ![c].pc = "node", ![c].value = v]
              PROVE  FALSE
          <6>1. call'[c].pc = "node"
            BY <5>2, <4>1 DEF CallFields
          <6>. QED BY <6>1, <2>3
        <5>. QED BY <5>1, <5>2
      <4>. QED BY <2>7, <4>2, <4>3
    <3>. QED BY <3>1, <3>2, <2>2, <2>4
  <2>8. CASE HasParameter(c)
    <3>1. UNCHANGED parameters
      BY <2>8 DEF HasParameter, CallOnly
    <3>2. ASSUME NEW pc \in {"declare", "set"}, Goto(c, pc) PROVE FALSE
      <4>1. call'[c] = [call[c] EXCEPT !.pc = pc]
        BY <3>2, GotoFacts DEF ParamInv
      <4>2. call'[c].pc = pc
        BY <4>1 DEF ParamInv, ShapeOK, CallFields
      <4>. QED BY <4>2, <2>3, <3>2
    <3>3. Return(c, "false")
      BY <2>8, <3>2 DEF HasParameter
    <3>. QED BY <3>1, <3>3, <2>2, <2>4
  <2>9. CASE DeclareParameter(c)
    <3>. DEFINE pv == Declaring(call[c].name, call[c].value)
    <3>1. AtStep(c, "declare") /\ call[c].pc = "declare"
      BY <2>9 DEF DeclareParameter, AtStep
    <3>2. \/ Fail(c, "already declared") \/ Fail(c, "invalid type")
          \/ Write(c, Declared(pv, FALSE))
      BY <2>9 DEF DeclareParameter
    <3>3. CASE Fail(c, "already declared") \/ Fail(c, "invalid type")
      BY <3>3, <2>2, <2>4 DEF Fail
    <3>4. CASE Write(c, Declared(pv, FALSE))
      <4>1. call'[c].result = "true"
        BY <3>4, ResultFacts DEF Write
      <4>. DEFINE dynamic == FALSE
      <4>2. Write(c, Declared(pv, dynamic))
        BY <3>4
      <4>. HIDE DEF dynamic, pv
      <4>3. parameters'[call[c].node][call[c].name] = Declared(pv, dynamic)
        BY <3>1, <4>2, WriteFacts
      <4>4. parameters'[call[c].node][call[c].name].value =
              Declaring(call[c].name, call[c].value)
        BY <4>3 DEF Declared, pv
      <4>. QED BY <4>1, <4>4, <3>1, <2>2
    <3>. QED BY <3>2, <3>3, <3>4
  <2>10. CASE SetParameter(c)
    <3>. DEFINE p == parameters[call[c].node][call[c].name]
                dynamic == (p.declared => p.dynamic)
    <3>1. call[c].pc = "set"
      BY <2>10 DEF SetParameter, AtStep
    <3>2. Fail(c, "false") \/ Write(c, Declared(call[c].value, dynamic))
      BY <2>10, Zenon DEF SetParameter
    <3>. HIDE DEF p, dynamic
    <3>3. CASE Fail(c, "false")
      BY <3>3, <2>2, <2>4 DEF Fail
    <3>4. CASE Write(c, Declared(call[c].value, dynamic))
      <4>1. call'[c].result = "true"
        BY <3>4, ResultFacts DEF Write
      <4>2. parameters'[call[c].node][call[c].name] = Declared(call[c].value, dynamic)
        BY <3>1, <3>4, WriteFacts
      <4>3. parameters'[call[c].node][call[c].name].value = call[c].value
        BY <4>2 DEF Declared
      <4>. QED BY <4>1, <4>3, <2>2
    <3>. QED BY <3>2, <3>3, <3>4
  <2>. QED BY <2>1, <2>5, <2>6, <2>7, <2>8, <2>9, <2>10
<1>. QED BY ParamInvariant, <1>1, PTL DEF ParamSpec, TrueMeansHeld

-----------------------------------------------------------------------------
(* Conversions of property values.                                         *)

\* Division leaves a number below the modulus as it is.
LEMMA ModOfSmall ==
    ASSUME NEW m \in Nat \ {0}, NEW x \in 0 .. m - 1
    PROVE  x % m = x
OBVIOUS

LEMMA WrapKeepsInts ==
    ASSUME NEW v \in Ints
    PROVE  Wrap(v) = v
<1>1. /\ IntHalf \in Nat \ {0} /\ v \in Int /\ 2 * IntHalf \in Nat \ {0}
      /\ v + IntHalf \in 0 .. (2 * IntHalf) - 1
  BY ParamAssumption DEF Ints
<1>2. (v + IntHalf) % (2 * IntHalf) = v + IntHalf
  BY <1>1, ModOfSmall
<1>. QED BY <1>1, <1>2 DEF Wrap

LEMMA RoundedKeepsFloats ==
    ASSUME NEW v \in Floats
    PROVE  Rounded(v) = v
BY ParamAssumption DEF Floats, Rounded

\* A value that its type holds passes the conversion unchanged.
LEMMA NarrowedKeepsFitting ==
    ASSUME NEW t, NEW v, Fits(t, v)
    PROVE  Narrowed(t, v) = v
<1>1. CASE t = "int"
  BY <1>1, WrapKeepsInts DEF Fits, Narrowed
<1>2. CASE t = "float"
  BY <1>2, RoundedKeepsFloats DEF Fits, Narrowed
<1>3. CASE t = "ints"
  <2>1. v \in Seq(Ints) /\ Narrowed(t, v) = [i \in DOMAIN v |-> Wrap(v[i])]
    BY <1>3 DEF Fits, Narrowed
  <2>2. /\ v = [i \in DOMAIN v |-> v[i]]
        /\ \A i \in DOMAIN v : v[i] \in Ints
    BY <2>1
  <2>. QED BY <2>1, <2>2, WrapKeepsInts
<1>4. CASE t = "floats"
  <2>1. v \in Seq(Floats) /\ Narrowed(t, v) = [i \in DOMAIN v |-> Rounded(v[i])]
    BY <1>4 DEF Fits, Narrowed
  <2>2. /\ v = [i \in DOMAIN v |-> v[i]]
        /\ \A i \in DOMAIN v : v[i] \in Floats
    BY <2>1
  <2>. QED BY <2>1, <2>2, RoundedKeepsFloats
<1>5. CASE t \notin {"int", "float", "ints", "floats"}
  BY <1>5 DEF Narrowed
<1>. QED BY <1>1, <1>2, <1>3, <1>4, <1>5

\* loadProperty() that returns true has written what storeProperty() would
\* make the same parameter of, if the property's type holds it; otherwise no
\* property has changed.
THEOREM LoadReturnsWhatStoreMakes == ParamSpec => LoadedIsStored
<1>1. ParamInv /\ [ParamNext]_paramVars =>
        [\A c \in Clients : Ends(c) /\ call[c].op = "loadProperty" =>
           IF call'[c].result = "true"
           THEN LET t == PropertyType[call[c].prop]
                IN  Fits(t, call[c].value.val) =>
                      ToParameterValue(t, properties'[call[c].prop]) = call[c].value
           ELSE properties' = properties]_paramVars
  <2>. SUFFICES ASSUME ParamInv, ParamNext, NEW e \in Clients, Ends(e),
                       call[e].op = "loadProperty"
                PROVE  IF call'[e].result = "true"
                       THEN Fits(PropertyType[call[e].prop], call[e].value.val) =>
                              ToParameterValue(PropertyType[call[e].prop],
                                               properties'[call[e].prop]) = call[e].value
                       ELSE properties' = properties
    OBVIOUS
  <2>1. PICK c \in Clients :
          \/ CallGet(c) \/ CallWrite(c) \/ CallCopy(c) \/ CallCreate(c)
          \/ HasService(c) \/ AddService(c) \/ LookUpNode(c)
          \/ ReadParameter(c) \/ HasParameter(c) \/ DeclareParameter(c) \/ SetParameter(c)
          \/ UpdateProperty(c) \/ ConvertProperty(c)
    BY Zenon DEF ParamNext
  <2>2. e = c
    BY <2>1, OneThreadSteps
  <2>3. /\ call[c].pc # "done" /\ call'[c].pc = "done"
        /\ call[c].op = "loadProperty"
    BY <2>2 DEF Ends, AtStep
  <2>4. ASSUME NEW result, Return(c, result), result # "true", UNCHANGED properties
        PROVE  call'[c].result # "true" /\ properties' = properties
    BY <2>4, ResultFacts
  <2>5. ~(CallGet(c) \/ CallWrite(c) \/ CallCopy(c) \/ CallCreate(c))
    BY <2>3 DEF CallGet, CallWrite, CallCopy, CallCreate, Call
  <2>6. ~(HasService(c) \/ AddService(c) \/ HasParameter(c) \/ DeclareParameter(c)
            \/ SetParameter(c))
    BY <2>3 DEF HasService, AddService, HasParameter, DeclareParameter, SetParameter,
                AtStep, ParamInv, ThreadOK
  <2>7. DOMAIN call = Clients /\ DOMAIN call[c] = CallFields
    BY DEF ParamInv, ShapeOK
  <2>8. CASE LookUpNode(c)
    <3>1. UNCHANGED properties
      BY <2>8 DEF LookUpNode, CallOnly
    <3>2. \/ Return(c, "false")
          \/ \E n : call' = [call EXCEPT ![c].node = n, ![c].pc = "get"]
      BY <2>3, <2>8 DEF LookUpNode
    <3>3. ASSUME NEW n, call' = [call EXCEPT ![c].node = n, ![c].pc = "get"]
          PROVE  FALSE
      <4>1. call'[c].pc = "get"
        BY <3>3, <2>7 DEF CallFields
      <4>. QED BY <4>1, <2>3
    <3>. QED BY <3>1, <3>2, <3>3, <2>2, <2>4
  <2>9. CASE ReadParameter(c)
    <3>. DEFINE pv == Held(call[c].node, call[c].name)
    <3>1. UNCHANGED properties
      BY <2>9 DEF ReadParameter, CallOnly
    <3>2. \/ call' = [call EXCEPT ![c].value = pv, ![c].pc = "update"]
          \/ call' = [call EXCEPT ![c].value = pv, ![c].pc = "done", ![c].result = "false"]
      BY <2>3, <2>9 DEF ReadParameter
    <3>. HIDE DEF pv
    <3>3. call'[c].pc = "update" \/ call'[c].result = "false"
      BY <3>2, <2>7 DEF CallFields
    <3>. QED BY <3>1, <3>3, <2>2, <2>3
  <2>10. CASE ConvertProperty(c)
    <3>1. UNCHANGED properties
      BY <2>10 DEF ConvertProperty, CallOnly
    <3>2. \/ Return(c, "false")
          \/ \E v : call' = [call EXCEPT ![c].pc = "node", ![c].value = v]
      BY <2>10 DEF ConvertProperty
    <3>3. ASSUME NEW v, call' = [call EXCEPT ![c].pc = "node", ![c].value = v]
          PROVE  FALSE
      <4>1. call'[c].pc = "node"
        BY <3>3, <2>7 DEF CallFields
      <4>. QED BY <4>1, <2>3
    <3>. QED BY <3>1, <3>2, <3>3, <2>2, <2>4
  <2>11. CASE UpdateProperty(c)
    <3>. DEFINE prop == call[c].prop
                t == PropertyType[prop]
                pv == call[c].value
    <3>1. CASE Return(c, "false") /\ UNCHANGED properties
      BY <3>1, <2>2, <2>4
    <3>2. CASE /\ prop \in DOMAIN PropertyType /\ Gets(t, pv)
               /\ properties' = [properties EXCEPT ![prop] = Narrowed(t, pv.val)]
               /\ Return(c, "true")
      <4>1. call'[c].result = "true"
        BY <3>2, ResultFacts
      <4>2. IsValue(pv) /\ prop \in DOMAIN properties
        BY <3>2 DEF ParamInv, ShapeOK, ThreadOK
      <4>3. properties'[prop] = Narrowed(t, pv.val)
        BY <3>2, <4>2
      <4>4. ASSUME Fits(t, pv.val) PROVE ToParameterValue(t, properties'[prop]) = pv
        <5>1. properties'[prop] = pv.val
          BY <4>3, <4>4, NarrowedKeepsFitting
        <5>2. pv = [type |-> pv.type, val |-> pv.val] /\ pv.type = ParameterType[t]
          BY <3>2, <4>2 DEF IsValue, Gets
        <5>. QED BY <5>1, <5>2 DEF ToParameterValue, ParameterValue
      <4>. QED BY <4>1, <4>4, <2>2
    <3>. QED BY <2>11, <3>1, <3>2 DEF UpdateProperty
  <2>. QED BY <2>1, <2>5, <2>6, <2>8, <2>9, <2>10, <2>11
<1>. QED BY ParamInvariant, <1>1, PTL DEF ParamSpec, LoadedIsStored
=============================================================================
