------------------------------ MODULE Members ------------------------------
(***************************************************************************)
(* Access to the members of a value from a script: getMember() of ROS      *)
(* messages (RosIntrospectionTypeInfo) and of the rclcpp types, and the    *)
(* GetterSetterDataSource behind the members of NodeOptions.               *)
(*                                                                         *)
(* A member is a data source of its own, which the script keeps and reads  *)
(* and writes later.  A PartDataSource refers to the memory of the value;  *)
(* a GetterSetterDataSource keeps a copy of the member, value_, that it    *)
(* refreshes from the object and writes back to it as a whole; members of  *)
(* a Parameter are functors.  When the item is not assignable they belong  *)
(* to a copy of it.  A PartDataSource keeps the item alive and not that    *)
(* copy, which dies when getMember() returns.                              *)
(*                                                                         *)
(* fault is undefined behaviour; nothing is said of what follows it.       *)
(***************************************************************************)
EXTENDS Naturals

CONSTANTS
    MessageMembers,     \* the members of the message type: names and types
    RegisteredTypes,    \* type names that RTT's repository knows
    MaxMemberSteps      \* bound on the steps of the script

VARIABLES
    kind,       \* the type whose type info is asked
    item,       \* "assignable", "constant", or "other": not of that type
    object,     \* the value of the item, by member
    copy,       \* the value of the copy that a member refers to
    member,     \* the data source that the script holds, or NoMember
    sub,        \* member of member: a field of its value, or "none"
    changed,    \* the object was written past the member since it was read
    fault,
    memberSteps

memberVars == <<kind, item, object, copy, member, sub, changed, fault, memberSteps>>

-----------------------------------------------------------------------------
QoSMembers == {"history", "depth", "reliability", "durability", "deadline",
               "lifespan", "liveliness", "liveliness_lease_duration",
               "avoid_ros_namespace_conventions"}
PublisherOptionsMembers == {"use_intra_process_comm", "event_callbacks",
                            "callback_group", "rmw_implementation_payload"}
NodeOptionsMembers ==
    {"context", "arguments", "parameter_overrides", "use_global_arguments",
     "use_intra_process_comms", "start_parameter_services",
     "start_parameter_event_publisher", "parameter_event_qos",
     "parameter_event_publisher_options", "allow_undeclared_parameters",
     "automatically_declare_parameters_from_overrides", "allocator"}
ParameterMembers == {"type_name", "name", "value"}

Kinds == {"message", "QoS", "PublisherOptions", "NodeOptions", "Parameter"}

getMemberNames(k) ==
    CASE k = "message"          -> DOMAIN MessageMembers
      [] k = "QoS"              -> QoSMembers
      [] k = "PublisherOptions" -> PublisherOptionsMembers
      [] k = "NodeOptions"      -> NodeOptionsMembers
      [] k = "Parameter"        -> ParameterMembers

\* The value of a member whose fields are members again, and of the others.
Struct(n) == n = "parameter_event_qos"
Fields == {"depth", "reliability"}
Value(n, x) == IF Struct(n) THEN [f \in Fields |-> x] ELSE x

NA == 9
NoMember == [how |-> "none"]

-----------------------------------------------------------------------------
(* Type infos of message members.                                          *)

\* The type name of a member: a vector when it is dynamic or bounded, a
\* carray when its size is fixed.
ArrayOf(m) ==
    IF ~m.is_array THEN <<m.type>>
    ELSE IF m.array_size # 0 /\ ~m.is_upper_bound THEN <<m.type, "[c]">>
    ELSE <<m.type, "[]">>

\* findTypeInfo(): there is one when the repository knows the type.
HasTypeInfo(n) == ArrayOf(MessageMembers[n]) \in RegisteredTypes

-----------------------------------------------------------------------------
(* getMember().                                                            *)

\* Where the data source of a member gets its value: from the item when that
\* is assignable, else from a copy.
Home == IF item = "assignable" THEN "item" ELSE "copy"

Hold(m) == member' = m /\ sub' = "none" /\ changed' = FALSE

\* The item is no data source of the type.
WrongItem == item = "other"

Part(n) == [how |-> "part", name |-> n,
            of |-> IF Home = "item" THEN "item" ELSE "freed"]

\* findMessageMember() returns the end of the members for an unknown name,
\* which is not nullptr; adata is not tested.
MessageMember(n) ==
    /\ kind = "message"
    /\ \/ /\ n \notin DOMAIN MessageMembers
          /\ fault' = "no such member"
          /\ UNCHANGED <<member, sub, changed>>
       \/ /\ n \in DOMAIN MessageMembers /\ ~HasTypeInfo(n)
          /\ Hold(NoMember)
          /\ UNCHANGED fault
       \/ /\ n \in DOMAIN MessageMembers /\ HasTypeInfo(n)
          /\ IF WrongItem THEN fault' = "null adata" /\ UNCHANGED <<member, sub, changed>>
                          ELSE Hold(Part(n)) /\ UNCHANGED fault
    /\ UNCHANGED copy

QoSMember(n) ==
    /\ kind = "QoS"
    /\ Hold(IF WrongItem \/ n \notin QoSMembers THEN NoMember ELSE Part(n))
    /\ UNCHANGED <<copy, fault>>

PublisherOptionsMember(n) ==
    /\ kind = "PublisherOptions"
    /\ Hold(IF WrongItem \/ n \notin PublisherOptionsMembers THEN NoMember ELSE Part(n))
    /\ UNCHANGED <<copy, fault>>

\* The data source holds adata, and value_ is NA at first.
NodeOptionsMember(n) ==
    /\ kind = "NodeOptions"
    /\ member' = IF WrongItem \/ n \notin NodeOptionsMembers THEN NoMember
                 ELSE [how |-> "getset", name |-> n, of |-> Home, value |-> Value(n, NA)]
    /\ sub' = "none"
    /\ changed' = TRUE
    /\ copy' = object
    /\ UNCHANGED fault

ParameterMember(n) ==
    /\ kind = "Parameter"
    /\ Hold(IF WrongItem \/ n \notin ParameterMembers THEN NoMember
            ELSE [how |-> "functor", name |-> n, of |-> Home])
    /\ copy' = object
    /\ UNCHANGED fault

-----------------------------------------------------------------------------
(* Reading and writing a member.                                           *)

Current == IF member.of = "item" THEN object[member.name] ELSE copy[member.name]

\* Memory of the value that the member writes to.
Store(v) ==
    IF member.of = "item"
    THEN object' = [object EXCEPT ![member.name] = v] /\ UNCHANGED copy
    ELSE copy' = [copy EXCEPT ![member.name] = v] /\ UNCHANGED object

MemberInit ==
    /\ kind \in Kinds
    /\ item \in {"assignable", "constant", "other"}
    /\ object = [n \in getMemberNames(kind) |-> Value(n, 0)]
    /\ copy = object
    /\ member = NoMember /\ sub = "none"
    /\ changed = FALSE
    /\ fault = "none"
    /\ memberSteps = 0

MemberStep ==
    /\ fault = "none" /\ memberSteps < MaxMemberSteps
    /\ memberSteps' = memberSteps + 1
    /\ UNCHANGED <<kind, item>>

getMember ==
    /\ MemberStep
    /\ \E n \in getMemberNames(kind) \cup {"unknown"} :
         \/ MessageMember(n) \/ QoSMember(n) \/ PublisherOptionsMember(n)
         \/ NodeOptionsMember(n) \/ ParameterMember(n)
    /\ UNCHANGED object

\* A reference into a copy that is gone.
UseFreed ==
    /\ MemberStep
    /\ member # NoMember /\ member.of = "freed"
    /\ fault' = "freed copy"
    /\ UNCHANGED <<object, copy, member, sub, changed>>

\* Mutant of Refresh: evaluate() answers without asking the getter.
RefreshNothing ==
    /\ MemberStep
    /\ member.how = "getset"
    /\ changed' = FALSE
    /\ UNCHANGED <<object, copy, member, sub, fault>>

\* get() and evaluate().
Refresh ==
    /\ MemberStep
    /\ member.how = "getset"
    /\ member' = [member EXCEPT !.value = Current]
    /\ changed' = FALSE
    /\ UNCHANGED <<object, copy, sub, fault>>

\* set(t) of a member: a part writes in place, a getter and setter source
\* stores value_ and writes it back.
SetMember ==
    /\ MemberStep
    /\ \/ /\ member.how = "part" /\ member.of = "item"
          /\ Store(Value(member.name, 1))
          /\ UNCHANGED member
       \/ /\ member.how = "getset"
          /\ member' = [member EXCEPT !.value = Value(member.name, 1)]
          /\ Store(Value(member.name, 1))
    /\ changed' = FALSE
    /\ UNCHANGED <<sub, fault>>

\* getMember() of the member: parameter_event_qos is an assignable item, and
\* the part it gives refers to value_.
SubMember ==
    /\ MemberStep
    /\ member.how = "getset" /\ Struct(member.name)
    /\ sub' \in Fields
    /\ UNCHANGED <<object, copy, member, changed, fault>>

\* Mutant of SetSubMember: the write back starts from a fresh value_.
SetSubMemberAlone ==
    /\ MemberStep
    /\ sub # "none"
    /\ member' = [member EXCEPT !.value = [Value(member.name, NA) EXCEPT ![sub] = 2]]
    /\ Store(member'.value)
    /\ changed' = FALSE
    /\ UNCHANGED <<sub, fault>>

\* set(t) of such a part writes the field of value_ and calls updated() of
\* the getter and setter source, which writes value_ back as a whole.
SetSubMember ==
    /\ MemberStep
    /\ sub # "none"
    /\ member' = [member EXCEPT !.value[sub] = 2]
    /\ Store(member'.value)
    /\ changed' = FALSE
    /\ UNCHANGED <<sub, fault>>

\* The component writes the object itself.
WriteObject ==
    /\ MemberStep
    /\ item = "assignable"
    /\ \E n \in getMemberNames(kind) :
         /\ object' = [object EXCEPT ![n] = Value(n, 3)]
         /\ changed' = (changed \/ (member # NoMember /\ n = member.name))
    /\ UNCHANGED <<copy, member, sub, fault>>

MemberNext == \/ getMember \/ UseFreed \/ Refresh \/ SetMember
              \/ SubMember \/ SetSubMember \/ WriteObject

MemberSpec == MemberInit /\ [][MemberNext]_memberVars

-----------------------------------------------------------------------------
(* Properties.                                                             *)

\* value_ of a getter and setter source is the member of the object unless
\* the object was written past it since it was last read or written, or it
\* was never read: what a script must do to be allowed to write one field.
ValueIsFresh ==
    member.how = "getset" /\ ~changed => member.value = Current

\* A write through a member changes that member only, and a write through a
\* member of a member that field only, if value_ was fresh; an item that is
\* not assignable keeps its value.
WriteTouchesOneMember ==
    [][SetMember \/ SetSubMember =>
         /\ item # "assignable" => object' = object
         /\ \A n \in DOMAIN object \ {member.name} : object'[n] = object[n]
         /\ (sub # "none" /\ SetSubMember /\ ~changed /\ member.of = "item") =>
               object'[member.name] = [object[member.name] EXCEPT ![sub] = 2]
      ]_memberVars

=============================================================================
