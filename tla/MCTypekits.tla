---------------------------- MODULE MCTypekits -----------------------------
(* The typekits, the parameters and the topic streams for TLC: a variable   *)
(* of a KDL type, members of a value, parameters of a node, numbers of      *)
(* several types, and a topic between two ports.  They share nothing, so    *)
(* one of them is used at a time.                                           *)
EXTENDS Kdl, Members, Params, Conversions, RosTopic

\* Quarter turns about the axes of KDL's frames.cpp: angles count quarters, and
\* the rotations are those of a cube.  atan2 of two numbers one of which is 0.
Cos(a) == <<1, 0, -1, 0>>[1 + (a % 4)]
Sin(a) == <<0, 1, 0, -1>>[1 + (a % 4)]
Atan2(y, x) == IF y > 0 THEN 1 ELSE IF y < 0 THEN 3 ELSE IF x < 0 THEN 2 ELSE 0
MCRPY(r, p, y) ==
    <<Cos(y) * Cos(p), Cos(y) * Sin(p) * Sin(r) - Sin(y) * Cos(r),
      Cos(y) * Sin(p) * Cos(r) + Sin(y) * Sin(r),
      Sin(y) * Cos(p), Sin(y) * Sin(p) * Sin(r) + Cos(y) * Cos(r),
      Sin(y) * Sin(p) * Cos(r) - Cos(y) * Sin(r),
      -Sin(p), Cos(p) * Sin(r), Cos(p) * Cos(r)>>
MCEulerZYX(a, b, c) == MCRPY(c, b, a)
MCGetRPY(r) ==
    IF r[7] # 0 THEN <<0, Atan2(-r[7], 0), Atan2(-r[2], r[5])>>
    ELSE <<Atan2(r[8], r[9]), 0, Atan2(r[4], r[1])>>
MCProperRotations == {MCRPY(r, p, y) : r, p, y \in 0..3}
\* None, a quarter about one axis, about all three, and one straight up, where
\* roll and yaw turn about the same axis.
MCPoses == {MCRPY(0, 0, 0), MCRPY(1, 0, 0), MCRPY(1, 0, 2), MCRPY(1, 3, 1)}

\* No segment, one and two, and one of a joint that is not known.
MCChains == {<<>>, <<"RotX">>, <<"RotX", "TransY">>, <<"RotAxis", "RotY">>}

\* A message with a member of each kind, one of them of an unknown type.
Field(type_, array, size, bound) ==
    [type |-> type_, is_array |-> array, array_size |-> size, is_upper_bound |-> bound]
MCMessageMembers == [stamp    |-> Field("time", FALSE, 0, FALSE),
                     points   |-> Field("point", TRUE, 0, FALSE),
                     matrix   |-> Field("double", TRUE, 9, FALSE),
                     bounded  |-> Field("double", TRUE, 3, TRUE),
                     unknown_ |-> Field("strange", FALSE, 0, FALSE)]
MCRegisteredTypes == {<<"time">>, <<"point", "[]">>, <<"double", "[c]">>, <<"double", "[]">>}

\* A parameter with an override of another value, properties of four kinds,
\* and integers that an int holds and does not hold.
MCOverride == [q |-> ParameterValue("integer", 2)]
MCPropertyType == [i |-> "int", a |-> "ints", s |-> "string", k |-> "KDL.Vector"]
MCArguments == {ParameterValue("integer", 3), ParameterValue("integer", 5),
                ParameterValue("integer_array", <<3, 5>>), ParameterValue("string", 3)}

\* Threads differ in nothing but what they call.
Symmetry == Permutations(Clients)

\* Integers of 2 to 5 bits, seconds of ten nanoseconds.
MCHalf == [w \in {8, 16, 32, 64} |->
             CASE w = 8 -> 2 [] w = 16 -> 4 [] w = 32 -> 8 [] w = 64 -> 16]

\* The initial state of each part while another one is used.
KdlRests        == KdlInit /\ type = "Vector"
MembersRest     == MemberInit /\ kind = "message" /\ item = "assignable"
ConversionsRest == ConversionInit /\ numType = "int8" /\ num = 0

vars == <<kdlVars, memberVars, paramVars, conversionVars, topicVars>>
Init == /\ ParamInit /\ TopicInit
        /\ \/ KdlInit  /\ MembersRest /\ ConversionsRest
           \/ KdlRests /\ MemberInit  /\ ConversionsRest
           \/ KdlRests /\ MembersRest /\ ConversionInit
Next == \/ /\ MembersRest /\ ParamInit /\ ConversionsRest /\ TopicInit /\ KdlNext
           /\ UNCHANGED <<memberVars, paramVars, conversionVars, topicVars>>
        \/ /\ KdlRests /\ ParamInit /\ ConversionsRest /\ TopicInit /\ MemberNext
           /\ UNCHANGED <<kdlVars, paramVars, conversionVars, topicVars>>
        \/ /\ KdlRests /\ MembersRest /\ ConversionsRest /\ TopicInit /\ ParamNext
           /\ UNCHANGED <<kdlVars, memberVars, conversionVars, topicVars>>
        \/ /\ KdlRests /\ MembersRest /\ ParamInit /\ TopicInit /\ ConversionNext
           /\ UNCHANGED <<kdlVars, memberVars, paramVars, topicVars>>
        \/ /\ KdlRests /\ MembersRest /\ ParamInit /\ ConversionsRest /\ TopicNext
           /\ UNCHANGED <<kdlVars, memberVars, paramVars, conversionVars>>
Spec == Init /\ [][Next]_vars
=============================================================================
