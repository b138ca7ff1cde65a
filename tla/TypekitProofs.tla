--------------------------- MODULE TypekitProofs ----------------------------
(***************************************************************************)
(* Conversions of numbers and times for every width of the integer types   *)
(* and every length of a second, members of values for every message type, *)
(* and KDL values of every content through bags, sequences, archives and   *)
(* messages.                                                               *)
(***************************************************************************)
EXTENDS Kdl, Members, Conversions, FiniteSetTheorems, SequenceTheorems, TLAPS

-----------------------------------------------------------------------------
(* Arithmetic.                                                             *)

LEMMA ModOfSmall ==
    ASSUME NEW m \in Nat \ {0}, NEW x \in 0 .. m - 1
    PROVE  x % m = x
OBVIOUS

LEMMA ModRange ==
    ASSUME NEW m \in Nat \ {0}, NEW x \in Int
    PROVE  x % m \in 0 .. m - 1
OBVIOUS

LEMMA DivMod ==
    ASSUME NEW m \in Nat \ {0}, NEW x \in Nat
    PROVE  x \div m \in Nat /\ (x \div m) * m + (x % m) = x
<1>1. x = m * (x \div m) + (x % m)
  OBVIOUS
<1>2. x \div m \in Nat /\ x % m \in Int
  OBVIOUS
<1>3. m * (x \div m) = (x \div m) * m
  BY <1>2
<1>. QED BY <1>1, <1>2, <1>3

LEMMA NatProduct ==
    ASSUME NEW m \in Nat, NEW x \in Nat
    PROVE  x * m \in Nat
OBVIOUS

-----------------------------------------------------------------------------
(* Integer types.                                                          *)

\* The ranges of a signed and of an unsigned type with h = 2^(w-1).
SRange(h) == -h .. h - 1
URange(h) == 0 .. 2 * h - 1

\* The numbers of the integer types, written out.
LEMMA NumbersOf ==
    /\ Numbers("int8")  = SRange(Half[8])
    /\ Numbers("int16") = SRange(Half[16])
    /\ Numbers("int32") = SRange(Half[32])
    /\ Numbers("int64") = SRange(Half[64])
    /\ Numbers("uint8")  = URange(Half[8])
    /\ Numbers("uint16") = URange(Half[16])
    /\ Numbers("uint32") = URange(Half[32])
    /\ Numbers("uint64") = URange(Half[64])
BY DEF Numbers, Signed, Unsigned, SRange, URange

LEMMA IntegerTypesAre ==
    IntegerTypes = {"int8", "int16", "int32", "int64", "uint8", "uint16", "uint32", "uint64"}
BY DEF IntegerTypes, Signed, Unsigned

\* Numbers of a narrower type are numbers of a wider one, unless only the
\* narrower one is signed.
LEMMA WiderHolds ==
    ASSUME NEW h \in Nat \ {0}, NEW k \in Nat \ {0}, 2 * h <= k
    PROVE  /\ SRange(h) \subseteq SRange(k)
           /\ URange(h) \subseteq SRange(k)
           /\ URange(h) \subseteq URange(k)
BY DEF SRange, URange

LEMMA Widths ==
    /\ Half[8] \in Nat \ {0} /\ Half[16] \in Nat \ {0}
    /\ Half[32] \in Nat \ {0} /\ Half[64] \in Nat \ {0}
    /\ 2 * Half[8] <= Half[16] /\ 2 * Half[8] <= Half[32] /\ 2 * Half[8] <= Half[64]
    /\ 2 * Half[16] <= Half[32] /\ 2 * Half[16] <= Half[64] /\ 2 * Half[32] <= Half[64]
BY HalfAssumption

\* A type that is made automatically holds all numbers it is made from.
LEMMA AutomaticFits ==
    ASSUME NEW to \in IntegerTypes, NEW from \in Automatic[to]
    PROVE  Numbers(from) \subseteq Numbers(to) /\ from \in IntegerTypes
<1>. DEFINE N(t) == Numbers(t)
            Below(h, k) == /\ SRange(h) \subseteq SRange(k)
                           /\ URange(h) \subseteq SRange(k)
                           /\ URange(h) \subseteq URange(k)
<1>a. /\ Below(Half[8], Half[16]) /\ Below(Half[8], Half[32]) /\ Below(Half[8], Half[64])
      /\ Below(Half[16], Half[32]) /\ Below(Half[16], Half[64]) /\ Below(Half[32], Half[64])
  <2>1. Below(Half[8], Half[16])
    BY Widths, WiderHolds
  <2>2. Below(Half[8], Half[32])
    BY Widths, WiderHolds
  <2>3. Below(Half[8], Half[64])
    BY Widths, WiderHolds
  <2>4. Below(Half[16], Half[32])
    BY Widths, WiderHolds
  <2>5. Below(Half[16], Half[64])
    BY Widths, WiderHolds
  <2>6. Below(Half[32], Half[64])
    BY Widths, WiderHolds
  <2>. HIDE DEF Below
  <2>. QED BY <2>1, <2>2, <2>3, <2>4, <2>5, <2>6
<1>1. /\ N("uint8") \subseteq N("int16") /\ N("int8") \subseteq N("int16")
      /\ N("uint8") \subseteq N("uint16")
  BY <1>a, NumbersOf, Zenon
<1>2. /\ N("uint8") \subseteq N("int32") /\ N("uint16") \subseteq N("int32")
      /\ N("int8") \subseteq N("int32") /\ N("int16") \subseteq N("int32")
      /\ N("uint8") \subseteq N("uint32") /\ N("uint16") \subseteq N("uint32")
  BY <1>a, NumbersOf, Zenon
<1>3. /\ N("uint8") \subseteq N("int64") /\ N("uint16") \subseteq N("int64")
      /\ N("uint32") \subseteq N("int64") /\ N("int8") \subseteq N("int64")
      /\ N("int16") \subseteq N("int64") /\ N("int32") \subseteq N("int64")
  BY <1>a, NumbersOf, Zenon
<1>4. /\ N("uint8") \subseteq N("uint64") /\ N("uint16") \subseteq N("uint64")
      /\ N("uint32") \subseteq N("uint64")
  BY <1>a, NumbersOf, Zenon
<1>5. N(from) \subseteq N(to) /\ from \in IntegerTypes
  <2>. HIDE DEF N
  <2>1. CASE to = "int16"
    BY <2>1, <1>1, IntegerTypesAre DEF Automatic
  <2>2. CASE to = "uint16"
    BY <2>2, <1>1, IntegerTypesAre DEF Automatic
  <2>3. CASE to = "int32"
    BY <2>3, <1>2, IntegerTypesAre DEF Automatic
  <2>4. CASE to = "uint32"
    BY <2>4, <1>2, IntegerTypesAre DEF Automatic
  <2>5. CASE to = "int64"
    BY <2>5, <1>3, IntegerTypesAre DEF Automatic
  <2>6. CASE to = "uint64"
    BY <2>6, <1>4, IntegerTypesAre DEF Automatic
  <2>7. to # "int8" /\ to # "uint8"
    BY DEF Automatic
  <2>. QED BY <2>1, <2>2, <2>3, <2>4, <2>5, <2>6, <2>7, IntegerTypesAre
<1>. QED BY <1>5

\* A cast gives a number of the type, and a number of the type is not changed.
LEMMA ConvertFits ==
    ASSUME NEW t \in IntegerTypes, NEW n \in Int
    PROVE  /\ convert(n, t) \in Numbers(t)
           /\ n \in Numbers(t) => convert(n, t) = n
<1>. DEFINE S(h) == ((n + h) % (2 * h)) - h
            U(h) == n % (2 * h)
<1>1. ASSUME NEW h \in Nat \ {0}
      PROVE  /\ S(h) \in SRange(h)
             /\ n \in SRange(h) => S(h) = n
             /\ U(h) \in URange(h)
             /\ n \in URange(h) => U(h) = n
  <2>1. 2 * h \in Nat \ {0} /\ n + h \in Int
    OBVIOUS
  <2>2. (n + h) % (2 * h) \in 0 .. 2 * h - 1 /\ n % (2 * h) \in 0 .. 2 * h - 1
    BY <2>1, ModRange
  <2>3. n \in -h .. h - 1 => n + h \in 0 .. 2 * h - 1
    OBVIOUS
  <2>4. n \in -h .. h - 1 => (n + h) % (2 * h) = n + h
    BY <2>1, <2>3, ModOfSmall
  <2>5. n \in 0 .. 2 * h - 1 => n % (2 * h) = n
    BY <2>1, ModOfSmall
  <2>. DEFINE r == (n + h) % (2 * h)
  <2>6. r \in 0 .. 2 * h - 1 /\ (n \in -h .. h - 1 => r = n + h)
    BY <2>2, <2>4
  <2>7. r - h \in -h .. h - 1 /\ (n \in -h .. h - 1 => r - h = n)
    <3>. HIDE DEF r
    <3>. QED BY <2>6
  <2>. QED BY <2>2, <2>5, <2>7 DEF SRange, URange
<1>2. /\ convert(n, "int8")  = S(Half[8])  /\ convert(n, "int16") = S(Half[16])
      /\ convert(n, "int32") = S(Half[32]) /\ convert(n, "int64") = S(Half[64])
      /\ convert(n, "uint8")  = U(Half[8])  /\ convert(n, "uint16") = U(Half[16])
      /\ convert(n, "uint32") = U(Half[32]) /\ convert(n, "uint64") = U(Half[64])
  BY DEF convert, Signed, Unsigned
<1>. HIDE DEF S, U
<1>3. CASE t \in {"int8", "uint8"}
  BY <1>1, <1>2, <1>3, Widths, NumbersOf
<1>4. CASE t \in {"int16", "uint16"}
  BY <1>1, <1>2, <1>4, Widths, NumbersOf
<1>5. CASE t \in {"int32", "uint32"}
  BY <1>1, <1>2, <1>5, Widths, NumbersOf
<1>6. CASE t \in {"int64", "uint64"}
  BY <1>1, <1>2, <1>6, Widths, NumbersOf
<1>. QED BY <1>3, <1>4, <1>5, <1>6, IntegerTypesAre

-----------------------------------------------------------------------------
(* Conversions.                                                            *)

ConversionTypeOK ==
    /\ numType \in IntegerTypes \cup {"rmw_time_t"}
    /\ origin \in Int
    /\ numType \in IntegerTypes => num \in Numbers(numType)
    /\ numType = "rmw_time_t" => rmwTime \in [sec : Nat, nsec : Nat]

\* Unlike the property, the invariant says what a number is that came from a
\* time beyond 64 bits: the next time is made of it.
ValueIsOrigin ==
    kept =>
        /\ numType \in IntegerTypes =>
             \/ num = origin
             \/ origin >= Modulus64 /\ num = origin % Modulus64
        /\ numType = "rmw_time_t" =>
             \/ Nanoseconds(rmwTime) = origin
             \/ /\ origin >= Modulus64
                /\ Nanoseconds(rmwTime) = origin % Modulus64
                /\ rmwTime.nsec < NanoPerSec

ConversionInv == ConversionTypeOK /\ ValueIsOrigin

LEMMA ModulusType ==
    /\ Modulus64 \in Nat \ {0} /\ Numbers("uint64") = 0 .. Modulus64 - 1
    /\ "uint64" \in IntegerTypes /\ "rmw_time_t" \notin IntegerTypes
<1>1. Modulus64 \in Nat \ {0}
  BY Widths DEF Modulus64
<1>2. Numbers("uint64") = 0 .. Modulus64 - 1
  BY NumbersOf DEF Modulus64, URange
<1>. QED BY <1>1, <1>2, IntegerTypesAre

LEMMA NumbersAreInt ==
    ASSUME NEW t \in IntegerTypes
    PROVE  Numbers(t) \subseteq Int
<1>1. \A h \in Nat : SRange(h) \subseteq Int /\ URange(h) \subseteq Int
  BY DEF SRange, URange
<1>. QED BY <1>1, Widths, NumbersOf, IntegerTypesAre

LEMMA NanosecondsType ==
    ASSUME NEW t \in [sec : Nat, nsec : Nat]
    PROVE  Nanoseconds(t) \in Nat
BY NatProduct, NanoAssumption DEF Nanoseconds

LEMMA ConversionInvInit == ConversionInit => ConversionInv
<1>. SUFFICES ASSUME ConversionInit PROVE ConversionInv
  OBVIOUS
<1>1. CASE numType \in IntegerTypes /\ num \in Numbers(numType) /\ origin = num
  <2>1. origin \in Int /\ numType # "rmw_time_t"
    BY <1>1, NumbersAreInt, ModulusType
  <2>. QED BY <1>1, <2>1 DEF ConversionInv, ConversionTypeOK, ValueIsOrigin
<1>2. CASE /\ numType = "rmw_time_t"
           /\ \E s \in 0..(Modulus64 \div NanoPerSec + 1), ns \in 0..NanoPerSec :
                rmwTime = [sec |-> s, nsec |-> ns]
           /\ origin = Nanoseconds(rmwTime)
  <2>1. rmwTime \in [sec : Nat, nsec : Nat]
    BY <1>2
  <2>2. origin \in Int
    BY <1>2, <2>1, NanosecondsType
  <2>. QED BY <1>2, <2>1, <2>2, ModulusType DEF ConversionInv, ConversionTypeOK, ValueIsOrigin
<1>. QED BY <1>1, <1>2 DEF ConversionInit

LEMMA ConstructNumberStep ==
    ASSUME ConversionInv, NEW to \in IntegerTypes, ConstructNumber(to)
    PROVE  ConversionInv'
<1>1. /\ numType \in IntegerTypes /\ numType' = to /\ origin' = origin
      /\ num' = convert(num, to) /\ kept' = (kept /\ numType \in Automatic[to])
  BY DEF ConstructNumber, Converts
<1>2. num \in Numbers(numType) /\ num \in Int /\ origin \in Int
  BY <1>1, NumbersAreInt DEF ConversionInv, ConversionTypeOK
<1>3. num' \in Numbers(to)
  BY <1>1, <1>2, ConvertFits
<1>4. kept' => kept /\ num' = num
  BY <1>1, <1>2, AutomaticFits, ConvertFits
<1>5. to # "rmw_time_t"
  BY ModulusType
<1>6. ConversionTypeOK'
  BY <1>1, <1>2, <1>3, <1>5 DEF ConversionTypeOK
<1>7. ValueIsOrigin'
  BY <1>1, <1>4, <1>5 DEF ConversionInv, ValueIsOrigin, Modulus64
<1>. QED BY <1>6, <1>7 DEF ConversionInv

\* A time made of a number is that number of nanoseconds, normalised.
LEMMA TimeOfNumber ==
    ASSUME NEW d \in Nat
    PROVE  LET t == uint64_to_rmw_time_t(d)
           IN  /\ t \in [sec : Nat, nsec : Nat]
               /\ Nanoseconds(t) = d /\ t.nsec < NanoPerSec
<1>1. d \div NanoPerSec \in Nat /\ (d \div NanoPerSec) * NanoPerSec + (d % NanoPerSec) = d
  BY DivMod, NanoAssumption
<1>2. d % NanoPerSec \in Nat /\ d % NanoPerSec < NanoPerSec
  BY ModRange, NanoAssumption
<1>. QED BY <1>1, <1>2 DEF uint64_to_rmw_time_t, Nanoseconds

LEMMA MakeTimeStep ==
    ASSUME ConversionInv, MakeTime
    PROVE  ConversionInv'
<1>1. /\ numType = "uint64" /\ numType' = "rmw_time_t" /\ origin' = origin
      /\ rmwTime' = uint64_to_rmw_time_t(num) /\ kept' = kept
  BY DEF MakeTime, Converts
<1>2. num \in Nat /\ origin \in Int
  BY <1>1, ModulusType DEF ConversionInv, ConversionTypeOK
<1>3. /\ rmwTime' \in [sec : Nat, nsec : Nat]
      /\ Nanoseconds(rmwTime') = num /\ rmwTime'.nsec < NanoPerSec
  BY <1>1, <1>2, TimeOfNumber
<1>4. ConversionTypeOK'
  BY <1>1, <1>2, <1>3, ModulusType DEF ConversionTypeOK
<1>5. kept => num = origin \/ (origin >= Modulus64 /\ num = origin % Modulus64)
  BY <1>1, ModulusType DEF ConversionInv, ValueIsOrigin
<1>6. Nanoseconds(rmwTime)' = num
  BY <1>3 DEF Nanoseconds
<1>7. ValueIsOrigin'
  BY <1>1, <1>3, <1>5, <1>6, ModulusType DEF ValueIsOrigin
<1>. QED BY <1>4, <1>7 DEF ConversionInv

LEMMA TimeToNumberStep ==
    ASSUME ConversionInv, TimeToNumber
    PROVE  ConversionInv'
<1>. DEFINE ns == Nanoseconds(rmwTime)
<1>1. /\ numType = "rmw_time_t" /\ numType' = "uint64" /\ origin' = origin
      /\ num' = ns % Modulus64 /\ kept' = kept
  BY DEF TimeToNumber, Converts, rmw_time_t_to_uint64
<1>2. ns \in Nat /\ origin \in Int
  BY <1>1, NanosecondsType DEF ConversionInv, ConversionTypeOK
<1>3. kept => ns = origin \/ (origin >= Modulus64 /\ ns = origin % Modulus64)
  BY <1>1 DEF ConversionInv, ValueIsOrigin
<1>. HIDE DEF ns
<1>4. num' \in 0 .. Modulus64 - 1
  BY <1>1, <1>2, ModRange, ModulusType
<1>5. kept => num' = origin \/ (origin >= Modulus64 /\ num' = origin % Modulus64)
  <2>1. CASE ns < Modulus64
    BY <1>1, <1>2, <1>3, <2>1, ModOfSmall, ModulusType
  <2>2. CASE ns >= Modulus64
    <3>1. origin % Modulus64 < Modulus64
      BY <1>2, ModRange, ModulusType
    <3>. QED BY <1>1, <1>2, <1>3, <2>2, <3>1, ModulusType
  <2>. QED BY <1>2, <2>1, <2>2, ModulusType
<1>6. ConversionTypeOK'
  BY <1>1, <1>2, <1>4, ModulusType DEF ConversionTypeOK
<1>7. ValueIsOrigin'
  BY <1>1, <1>5, ModulusType DEF ValueIsOrigin
<1>. QED BY <1>6, <1>7 DEF ConversionInv

LEMMA ConversionInvStep == ConversionInv /\ [ConversionNext]_conversionVars => ConversionInv'
<1>1. ConversionInv /\ UNCHANGED conversionVars => ConversionInv'
  BY DEF conversionVars, ConversionInv, ConversionTypeOK, ValueIsOrigin
<1>. QED BY <1>1, ConstructNumberStep, MakeTimeStep, TimeToNumberStep DEF ConversionNext

\* Automatic constructors, chained in any order and any number of times, keep
\* the number, and so does the way through an rmw_time_t and back: for every
\* width of the types and every length of a second.
THEOREM AutomaticConversionsKeepTheValue == ConversionSpec => []AutomaticKeepsValue
<1>1. ConversionInv => AutomaticKeepsValue
  BY ModulusType DEF ConversionInv, ConversionTypeOK, ValueIsOrigin, AutomaticKeepsValue
<1>. QED BY ConversionInvInit, ConversionInvStep, <1>1, PTL DEF ConversionSpec

-----------------------------------------------------------------------------
(* Members.                                                                *)

PartKinds == {"message", "QoS", "PublisherOptions"}

\* The object and the copy have the members of the type.
ValuesOK ==
    /\ kind \in Kinds /\ item \in {"assignable", "constant", "other"}
    /\ DOMAIN object = getMemberNames(kind) /\ DOMAIN copy = getMemberNames(kind)

\* What the script holds is what getMember() of the type gives, and it refers
\* to the item only when that is assignable.
PartHeld ==
    /\ kind \in PartKinds
    /\ member = [how |-> "part", name |-> member.name,
                 of |-> IF item = "assignable" THEN "item" ELSE "freed"]
GetterSetterHeld ==
    /\ kind = "NodeOptions"
    /\ member = [how |-> "getset", name |-> member.name,
                 of |-> IF item = "assignable" THEN "item" ELSE "copy",
                 value |-> member.value]
FunctorHeld ==
    /\ kind = "Parameter"
    /\ member = [how |-> "functor", name |-> member.name,
                 of |-> IF item = "assignable" THEN "item" ELSE "copy"]
MemberOK ==
    \/ member = NoMember
    \/ /\ item # "other" /\ member.name \in getMemberNames(kind)
       /\ PartHeld \/ GetterSetterHeld \/ FunctorHeld

\* A member of a member belongs to a getter and setter source.
SubOK == sub # "none" => member.how = "getset"

MemberInv == ValuesOK /\ MemberOK /\ SubOK /\ ValueIsFresh

LEMMA MemberNames ==
    /\ getMemberNames("message") = DOMAIN MessageMembers
    /\ getMemberNames("QoS") = QoSMembers
    /\ getMemberNames("PublisherOptions") = PublisherOptionsMembers
    /\ getMemberNames("NodeOptions") = NodeOptionsMembers
    /\ getMemberNames("Parameter") = ParameterMembers
BY DEF getMemberNames

\* Nothing but a getter and setter source can be the wrong value.
LEMMA OthersAreFresh == member.how # "getset" => ValueIsFresh
BY DEF ValueIsFresh

LEMMA MemberInvInit == MemberInit => MemberInv
<1>. SUFFICES ASSUME MemberInit PROVE MemberInv
  OBVIOUS
<1>1. ValuesOK
  BY DEF MemberInit, ValuesOK
<1>2. member.how # "getset"
  BY DEF MemberInit, NoMember
<1>. QED BY <1>1, <1>2, OthersAreFresh DEF MemberInit, MemberInv, MemberOK, SubOK

\* What a member that is held for the first time, or again, satisfies.
LEMMA HoldKeeps ==
    ASSUME MemberInv, UNCHANGED <<kind, item, object, fault>>, sub' = "none",
           DOMAIN copy' = getMemberNames(kind), MemberOK', ValueIsFresh'
    PROVE  MemberInv'
<1>1. ValuesOK'
  BY DEF MemberInv, ValuesOK
<1>2. SubOK'
  BY DEF SubOK
<1>. QED BY <1>1, <1>2 DEF MemberInv

\* A part is held of an item of the type.
LEMMA HoldPart ==
    ASSUME MemberInv, UNCHANGED <<kind, item, object, copy, fault>>, kind \in PartKinds,
           NEW n \in getMemberNames(kind), ~WrongItem, Hold(Part(n))
    PROVE  MemberInv'
<1>1. member' = [how |-> "part", name |-> n,
                 of |-> IF item = "assignable" THEN "item" ELSE "freed"]
  BY DEF Hold, Part, Home
<1>2. MemberOK'
  BY <1>1 DEF MemberOK, PartHeld, WrongItem
<1>3. ValueIsFresh'
  BY <1>1 DEF ValueIsFresh
<1>4. DOMAIN copy' = getMemberNames(kind) /\ sub' = "none"
  BY DEF MemberInv, ValuesOK, Hold
<1>. QED BY <1>2, <1>3, <1>4, HoldKeeps

LEMMA HoldNothing ==
    ASSUME MemberInv, UNCHANGED <<kind, item, object, fault>>,
           DOMAIN copy' = getMemberNames(kind), member' = NoMember, sub' = "none"
    PROVE  MemberInv'
<1>1. MemberOK'
  BY DEF MemberOK
<1>2. ValueIsFresh'
  BY DEF ValueIsFresh, NoMember
<1>. QED BY <1>1, <1>2, HoldKeeps

\* A step that leaves all but fault alone.
LEMMA FaultKeeps ==
    ASSUME MemberInv, UNCHANGED <<kind, item, object, copy, member, sub, changed>>
    PROVE  MemberInv'
BY DEF MemberInv, ValuesOK, MemberOK, PartHeld, GetterSetterHeld, FunctorHeld, SubOK,
       ValueIsFresh, Current

LEMMA getMemberStep ==
    ASSUME MemberInv, getMember
    PROVE  MemberInv'
<1>1. PICK n : \/ MessageMember(n) \/ QoSMember(n) \/ PublisherOptionsMember(n)
               \/ NodeOptionsMember(n) \/ ParameterMember(n)
  BY DEF getMember
<1>2. UNCHANGED <<kind, item, object>> /\ fault = "none"
  BY DEF getMember, MemberStep
<1>3. DOMAIN copy = getMemberNames(kind) /\ DOMAIN object = getMemberNames(kind)
  BY DEF MemberInv, ValuesOK
<1>4. CASE MessageMember(n)
  <2>1. kind = "message" /\ UNCHANGED copy
    BY <1>4 DEF MessageMember
  <2>2. CASE UNCHANGED <<member, sub, changed>>
    BY <1>2, <2>1, <2>2, FaultKeeps
  <2>3. CASE Hold(NoMember) /\ UNCHANGED fault
    BY <1>2, <1>3, <2>1, <2>3, HoldNothing DEF Hold
  <2>4. CASE ~WrongItem /\ n \in DOMAIN MessageMembers /\ Hold(Part(n)) /\ UNCHANGED fault
    BY <1>2, <2>1, <2>4, HoldPart, MemberNames DEF PartKinds
  <2>. QED BY <1>4, <2>2, <2>3, <2>4 DEF MessageMember
<1>5. CASE QoSMember(n)
  <2>1. kind = "QoS" /\ UNCHANGED <<copy, fault>>
    BY <1>5 DEF QoSMember
  <2>2. CASE WrongItem \/ n \notin QoSMembers
    BY <1>2, <1>3, <1>5, <2>1, <2>2, HoldNothing DEF QoSMember, Hold
  <2>3. CASE ~WrongItem /\ n \in QoSMembers
    BY <1>2, <1>5, <2>1, <2>3, HoldPart, MemberNames DEF QoSMember, PartKinds
  <2>. QED BY <2>2, <2>3
<1>6. CASE PublisherOptionsMember(n)
  <2>1. kind = "PublisherOptions" /\ UNCHANGED <<copy, fault>>
    BY <1>6 DEF PublisherOptionsMember
  <2>2. CASE WrongItem \/ n \notin PublisherOptionsMembers
    BY <1>2, <1>3, <1>6, <2>1, <2>2, HoldNothing DEF PublisherOptionsMember, Hold
  <2>3. CASE ~WrongItem /\ n \in PublisherOptionsMembers
    BY <1>2, <1>6, <2>1, <2>3, HoldPart, MemberNames DEF PublisherOptionsMember, PartKinds
  <2>. QED BY <2>2, <2>3
<1>7. CASE NodeOptionsMember(n)
  <2>1. /\ kind = "NodeOptions" /\ UNCHANGED fault /\ copy' = object /\ sub' = "none"
        /\ changed' = TRUE
    BY <1>7 DEF NodeOptionsMember
  <2>2. CASE WrongItem \/ n \notin NodeOptionsMembers
    BY <1>2, <1>3, <1>7, <2>1, <2>2, HoldNothing DEF NodeOptionsMember
  <2>3. CASE ~WrongItem /\ n \in NodeOptionsMembers
    <3>1. member' = [how |-> "getset", name |-> n,
                     of |-> IF item = "assignable" THEN "item" ELSE "copy",
                     value |-> Value(n, NA)]
      BY <1>7, <2>3 DEF NodeOptionsMember, Home
    <3>2. MemberOK'
      BY <1>2, <2>1, <2>3, <3>1, MemberNames DEF MemberOK, GetterSetterHeld, WrongItem
    <3>3. ValueIsFresh'
      BY <2>1 DEF ValueIsFresh
    <3>. QED BY <1>2, <1>3, <2>1, <3>2, <3>3, HoldKeeps
  <2>. QED BY <2>2, <2>3
<1>8. CASE ParameterMember(n)
  <2>1. kind = "Parameter" /\ UNCHANGED fault /\ copy' = object /\ sub' = "none"
    BY <1>8 DEF ParameterMember, Hold
  <2>2. CASE WrongItem \/ n \notin ParameterMembers
    BY <1>2, <1>3, <1>8, <2>1, <2>2, HoldNothing DEF ParameterMember, Hold
  <2>3. CASE ~WrongItem /\ n \in ParameterMembers
    <3>1. member' = [how |-> "functor", name |-> n,
                     of |-> IF item = "assignable" THEN "item" ELSE "copy"]
      BY <1>8, <2>3 DEF ParameterMember, Hold, Home
    <3>2. MemberOK'
      BY <1>2, <2>1, <2>3, <3>1, MemberNames DEF MemberOK, FunctorHeld, WrongItem
    <3>3. ValueIsFresh'
      BY <3>1 DEF ValueIsFresh
    <3>. QED BY <1>2, <1>3, <2>1, <3>2, <3>3, HoldKeeps
  <2>. QED BY <2>2, <2>3
<1>. QED BY <1>1, <1>4, <1>5, <1>6, <1>7, <1>8

\* A getter and setter source, written out.
LEMMA GetterSetter ==
    ASSUME MemberInv, member.how = "getset"
    PROVE  /\ kind = "NodeOptions" /\ item # "other" /\ member.name \in getMemberNames(kind)
           /\ member = [how |-> "getset", name |-> member.name,
                        of |-> IF item = "assignable" THEN "item" ELSE "copy",
                        value |-> member.value]
<1>1. member # NoMember
  BY DEF NoMember
<1>2. ~PartHeld /\ ~FunctorHeld
  BY DEF PartHeld, FunctorHeld
<1>. QED BY <1>1, <1>2 DEF MemberInv, MemberOK, GetterSetterHeld

\* A getter and setter source that is given a value, which is then the one of
\* the object or copy that it refers to, is fresh, and the rest is kept.
LEMMA ValueKeeps ==
    ASSUME MemberInv, member.how = "getset", UNCHANGED <<kind, item, sub, fault>>,
           DOMAIN object' = DOMAIN object, DOMAIN copy' = DOMAIN copy,
           NEW v, member' = [member EXCEPT !.value = v],
           v = IF member.of = "item" THEN object'[member.name] ELSE copy'[member.name]
    PROVE  MemberInv'
<1>1. member' = [how |-> "getset", name |-> member.name,
                 of |-> IF item = "assignable" THEN "item" ELSE "copy",
                 value |-> v]
  BY GetterSetter
<1>2. member'.name = member.name /\ member'.of = member.of /\ member'.value = v
      /\ member'.how = "getset"
  BY <1>1, GetterSetter
<1>3. MemberOK'
  BY <1>1, GetterSetter DEF MemberOK, GetterSetterHeld
<1>4. ValueIsFresh'
  BY <1>2 DEF ValueIsFresh, Current
<1>5. ValuesOK' /\ SubOK'
  BY <1>2 DEF MemberInv, ValuesOK, SubOK
<1>. QED BY <1>3, <1>4, <1>5 DEF MemberInv

\* What Store writes.
LEMMA StoreFacts ==
    ASSUME MemberInv, member # NoMember, NEW v, Store(v)
    PROVE  /\ DOMAIN object' = DOMAIN object /\ DOMAIN copy' = DOMAIN copy
           /\ v = IF member.of = "item" THEN object'[member.name] ELSE copy'[member.name]
           /\ member.of # "item" => object' = object
           /\ \A n \in DOMAIN object \ {member.name} : object'[n] = object[n]
<1>1. member.name \in DOMAIN object /\ member.name \in DOMAIN copy
  BY DEF MemberInv, MemberOK, ValuesOK
<1>2. CASE member.of = "item"
  BY <1>1, <1>2 DEF Store
<1>3. CASE member.of # "item"
  BY <1>1, <1>3 DEF Store
<1>. QED BY <1>2, <1>3

LEMMA UseFreedStep ==
    ASSUME MemberInv, UseFreed
    PROVE  MemberInv'
<1>1. UNCHANGED <<kind, item, object, copy, member, sub, changed>>
  BY DEF UseFreed, MemberStep
<1>. QED BY <1>1, FaultKeeps

LEMMA RefreshStep ==
    ASSUME MemberInv, Refresh
    PROVE  MemberInv'
<1>1. /\ member.how = "getset" /\ member' = [member EXCEPT !.value = Current]
      /\ UNCHANGED <<kind, item, object, copy, sub, fault>>
  BY DEF Refresh, MemberStep
<1>2. Current = IF member.of = "item" THEN object'[member.name] ELSE copy'[member.name]
  BY <1>1 DEF Current
<1>. QED BY <1>1, <1>2, ValueKeeps

LEMMA SetMemberStep ==
    ASSUME MemberInv, SetMember
    PROVE  MemberInv'
<1>1. UNCHANGED <<kind, item, sub, fault>> /\ Store(Value(member.name, 1))
  BY DEF SetMember, MemberStep
<1>2. member # NoMember
  BY DEF SetMember, NoMember
<1>3. CASE member.how = "part" /\ UNCHANGED member
  <2>1. ValueIsFresh'
    BY <1>3 DEF ValueIsFresh
  <2>2. MemberOK'
    BY <1>1, <1>3 DEF MemberInv, MemberOK, PartHeld, GetterSetterHeld, FunctorHeld
  <2>3. ValuesOK' /\ SubOK'
    BY <1>1, <1>2, <1>3, StoreFacts DEF MemberInv, ValuesOK, SubOK
  <2>. QED BY <2>1, <2>2, <2>3 DEF MemberInv
<1>4. CASE /\ member.how = "getset"
           /\ member' = [member EXCEPT !.value = Value(member.name, 1)]
  BY <1>1, <1>2, <1>4, StoreFacts, ValueKeeps
<1>. QED BY <1>3, <1>4 DEF SetMember

LEMMA SubMemberStep ==
    ASSUME MemberInv, SubMember
    PROVE  MemberInv'
<1>1. member.how = "getset" /\ UNCHANGED <<kind, item, object, copy, member, changed, fault>>
  BY DEF SubMember, MemberStep
<1>. QED
  BY <1>1 DEF MemberInv, ValuesOK, MemberOK, PartHeld, GetterSetterHeld, FunctorHeld, SubOK,
              ValueIsFresh, Current

\* set() of a member of a member is set() of value_ with one field replaced.
LEMMA SetSubMemberFacts ==
    ASSUME MemberInv, SetSubMember
    PROVE  LET v == [member.value EXCEPT ![sub] = 2]
           IN  /\ member.how = "getset" /\ member # NoMember
               /\ member' = [member EXCEPT !.value = v]
               /\ Store(v) /\ UNCHANGED <<kind, item, sub, fault>>
<1>. DEFINE v == [member.value EXCEPT ![sub] = 2]
<1>1. member.how = "getset"
  BY DEF SetSubMember, MemberInv, SubOK
<1>2. member # NoMember
  BY <1>1 DEF NoMember
<1>3. member' = [member EXCEPT !.value = v]
  BY DEF SetSubMember
<1>4. member'.value = v
  <2>. HIDE DEF v
  <2>. QED BY <1>1, <1>3, GetterSetter
<1>5. Store(v)
  BY <1>4 DEF SetSubMember
<1>. QED BY <1>1, <1>2, <1>3, <1>5 DEF SetSubMember, MemberStep

LEMMA SetSubMemberStep ==
    ASSUME MemberInv, SetSubMember
    PROVE  MemberInv'
<1>. DEFINE v == [member.value EXCEPT ![sub] = 2]
<1>1. /\ member.how = "getset" /\ member # NoMember
      /\ member' = [member EXCEPT !.value = v]
      /\ Store(v) /\ UNCHANGED <<kind, item, sub, fault>>
  BY SetSubMemberFacts
<1>. HIDE DEF v
<1>. QED BY <1>1, StoreFacts, ValueKeeps

LEMMA WriteObjectStep ==
    ASSUME MemberInv, WriteObject
    PROVE  MemberInv'
<1>1. PICK n \in getMemberNames(kind) :
        /\ object' = [object EXCEPT ![n] = Value(n, 3)]
        /\ changed' = (changed \/ (member # NoMember /\ n = member.name))
  BY DEF WriteObject
<1>2. UNCHANGED <<kind, item, copy, member, sub, fault>>
  BY DEF WriteObject, MemberStep
<1>3. ValuesOK'
  BY <1>1, <1>2 DEF MemberInv, ValuesOK
<1>4. MemberOK' /\ SubOK'
  BY <1>2 DEF MemberInv, MemberOK, PartHeld, GetterSetterHeld, FunctorHeld, SubOK
<1>5. ValueIsFresh'
  <2>. SUFFICES ASSUME member.how = "getset", ~changed'
                PROVE  member.value = Current'
    BY <1>2 DEF ValueIsFresh
  <2>1. member # NoMember
    BY DEF NoMember
  <2>2. n # member.name /\ ~changed
    BY <1>1, <2>1
  <2>3. member.name \in DOMAIN object
    BY GetterSetter DEF MemberInv, ValuesOK
  <2>4. object'[member.name] = object[member.name]
    BY <1>1, <2>2, <2>3
  <2>5. member.value = Current
    BY <2>2 DEF MemberInv, ValueIsFresh
  <2>. QED BY <1>2, <2>4, <2>5 DEF Current
<1>. QED BY <1>3, <1>4, <1>5 DEF MemberInv

LEMMA MemberInvStep == MemberInv /\ [MemberNext]_memberVars => MemberInv'
<1>1. MemberInv /\ UNCHANGED memberVars => MemberInv'
  BY FaultKeeps DEF memberVars
<1>. QED
  BY <1>1, getMemberStep, UseFreedStep, RefreshStep, SetMemberStep, SubMemberStep,
     SetSubMemberStep, WriteObjectStep
     DEF MemberNext

\* value_ of a getter and setter source is the member of the object, or of the
\* copy, unless that was written past it: for every message type and however
\* members are taken, read and written.
THEOREM GetterSetterIsFresh == MemberSpec => []ValueIsFresh
<1>1. MemberInv => ValueIsFresh
  BY DEF MemberInv
<1>. QED BY MemberInvInit, MemberInvStep, <1>1, PTL DEF MemberSpec

\* A write through a member, or through a member of a fresh one, changes what
\* it names in the object and nothing else.
THEOREM WritesTouchOneMember == MemberSpec => WriteTouchesOneMember
<1>. DEFINE OneMember ==
              SetMember \/ SetSubMember =>
                /\ item # "assignable" => object' = object
                /\ \A n \in DOMAIN object \ {member.name} : object'[n] = object[n]
                /\ (sub # "none" /\ SetSubMember /\ ~changed /\ member.of = "item") =>
                      object'[member.name] = [object[member.name] EXCEPT ![sub] = 2]
<1>1. MemberInv /\ SetMember => OneMember
  <2>. SUFFICES ASSUME MemberInv, SetMember PROVE OneMember
    OBVIOUS
  <2>1. member # NoMember /\ Store(Value(member.name, 1)) /\ UNCHANGED sub
    BY DEF SetMember, NoMember
  <2>2. item # "assignable" => member.of # "item"
    BY <2>1 DEF MemberInv, MemberOK, PartHeld, GetterSetterHeld, FunctorHeld
  <2>3. /\ item # "assignable" => object' = object
        /\ \A n \in DOMAIN object \ {member.name} : object'[n] = object[n]
    BY <2>1, <2>2, StoreFacts
  <2>4. ASSUME SetSubMember, ~changed, member.of = "item"
        PROVE  object'[member.name] = [object[member.name] EXCEPT ![sub] = 2]
    <3>. DEFINE v == [member.value EXCEPT ![sub] = 2]
    <3>1. member.how = "getset" /\ Store(v)
      BY <2>4, SetSubMemberFacts
    <3>2. member.value = object[member.name]
      BY <2>4, <3>1 DEF MemberInv, ValueIsFresh, Current
    <3>3. v = object'[member.name]
      BY <2>1, <2>4, <3>1, StoreFacts
    <3>. QED BY <3>2, <3>3
  <2>. QED BY <2>3, <2>4
<1>2. MemberInv /\ SetSubMember => OneMember
  <2>. SUFFICES ASSUME MemberInv, SetSubMember PROVE OneMember
    OBVIOUS
  <2>. DEFINE v == [member.value EXCEPT ![sub] = 2]
  <2>1. member # NoMember /\ Store(v) /\ member.how = "getset"
    BY SetSubMemberFacts
  <2>2. item # "assignable" => member.of # "item"
    BY <2>1 DEF MemberInv, MemberOK, PartHeld, GetterSetterHeld, FunctorHeld
  <2>3. /\ item # "assignable" => object' = object
        /\ \A n \in DOMAIN object \ {member.name} : object'[n] = object[n]
    BY <2>1, <2>2, StoreFacts
  <2>4. ASSUME ~changed, member.of = "item"
        PROVE  object'[member.name] = [object[member.name] EXCEPT ![sub] = 2]
    <3>1. member.value = object[member.name]
      BY <2>1, <2>4 DEF MemberInv, ValueIsFresh, Current
    <3>2. v = object'[member.name]
      BY <2>1, <2>4, StoreFacts
    <3>. QED BY <3>1, <3>2
  <2>. QED BY <2>3, <2>4
<1>3. MemberInv => OneMember
  BY <1>1, <1>2
<1>. HIDE DEF OneMember
<1>4. MemberInv => [OneMember]_memberVars
  BY <1>3
<1>5. MemberSpec => [][OneMember]_memberVars
  BY MemberInvInit, MemberInvStep, <1>4, PTL DEF MemberSpec
<1>. QED BY <1>5 DEF WriteTouchesOneMember, OneMember

-----------------------------------------------------------------------------
(* KDL: bags that are refused or accepted.                                 *)

\* A refused bag leaves a vector, and a rotation, as it was.
LEMMA RefusedParts ==
    ASSUME NEW b, NEW old
    PROVE  /\ ~VectorComposer(b, old).ok => VectorComposer(b, old).val = old
           /\ ~ComposeRotation(b, old).ok => ComposeRotation(b, old).val = old
<1>1. ~VectorComposer(b, old).ok => VectorComposer(b, old).val = old
  BY DEF VectorComposer, Done, Refused
<1>2. ~RotationComposer(b, old).ok => RotationComposer(b, old).val = old
  BY DEF RotationComposer, Done, Refused
<1>3. ~ComposeRotation(b, old).ok => ComposeRotation(b, old).val = old
  BY <1>2 DEF ComposeRotation
<1>. QED BY <1>1, <1>3

\* The types, and the parts of the composite ones.
LEMMA KdlTypesAre ==
    /\ KdlTypes = {"Vector", "Rotation", "Frame", "Twist", "Wrench",
                   "JntArray", "Jacobian", "Segment", "Chain"}
    /\ Composite = {"Frame", "Twist", "Wrench"}
    /\ Parts["Frame"] = <<"p", "M">> /\ Parts["Twist"] = <<"vel", "rot">>
    /\ Parts["Wrench"] = <<"force", "torque">>
BY DEF KdlTypes, Fixed, Composite, Parts

\* What is refused, by type.
LEMMA RefusedComposite ==
    ASSUME NEW b, NEW old
    PROVE  /\ LET r == ComposeTwist(b, old) IN
                ~r.ok => \/ r.val = old
                         \/ /\ r.val.vel = VectorComposer(Get(b, "vel"), old.vel).val
                            /\ r.val.rot = old.rot
           /\ LET r == ComposeWrench(b, old) IN
                ~r.ok => \/ r.val = old
                         \/ /\ r.val.force = VectorComposer(Get(b, "force"), old.force).val
                            /\ r.val.torque = old.torque
           /\ LET r == ComposeFrame(b, old) IN
                ~r.ok => \/ r.val = old
                         \/ /\ r.val.p = VectorComposer(Get(b, "p"), old.p).val
                            /\ r.val.M = old.M
<1>1. LET r == ComposeTwist(b, old) IN
                ~r.ok => \/ r.val = old
                         \/ /\ r.val.vel = VectorComposer(Get(b, "vel"), old.vel).val
                            /\ r.val.rot = old.rot
  BY RefusedParts DEF ComposeTwist, Refused
<1>2. LET r == ComposeWrench(b, old) IN
                ~r.ok => \/ r.val = old
                         \/ /\ r.val.force = VectorComposer(Get(b, "force"), old.force).val
                            /\ r.val.torque = old.torque
  BY RefusedParts DEF ComposeWrench, Refused
<1>3. LET r == ComposeFrame(b, old) IN
                ~r.ok => \/ r.val = old
                         \/ /\ r.val.p = VectorComposer(Get(b, "p"), old.p).val
                            /\ r.val.M = old.M
  BY RefusedParts DEF ComposeFrame, Refused
<1>. QED BY <1>1, <1>2, <1>3

\* A value of one part is as it was when its bag is refused, if it is no array.
LEMMA RefusedOthers ==
    ASSUME NEW b, NEW old, NEW t \in KdlTypes \ (Composite \cup {"JntArray"}),
           ~composeProperty(t, b, old).ok
    PROVE  composeProperty(t, b, old).val = old
<1>1. CASE t = "Vector"
  BY <1>1, RefusedParts DEF composeProperty
<1>2. CASE t = "Rotation"
  BY <1>2, RefusedParts DEF composeProperty
<1>3. CASE t = "Segment"
  BY <1>3 DEF composeProperty, ComposeSegment, Done, Refused
<1>4. CASE t = "Chain"
  BY <1>4 DEF composeProperty, ComposeChain, Done, Refused
<1>5. CASE t = "Jacobian"
  BY <1>5 DEF composeProperty, ComposeJacobian, Done, Refused
<1>. QED BY <1>1, <1>2, <1>3, <1>4, <1>5, KdlTypesAre

\* An element of an array is the one of its number in the bag, or the old one,
\* or a new zero.  An accepted array has the elements of the bag only.
LEMMA ComposedElements ==
    ASSUME NEW b, NEW old
    PROVE  LET r == ComposeJntArray(b, old)
           IN  /\ \A i \in DOMAIN r.val :
                     \/ HasElement(b, i) /\ r.val[i] = Element(b, i)
                     \/ r.val[i] = IF i \in DOMAIN old THEN old[i] ELSE 0
               /\ r.ok => \A i \in DOMAIN r.val : HasElement(b, i) /\ r.val[i] = Element(b, i)
<1>. DEFINE sz == IF Find(b, "Size") # {} THEN "Size" ELSE "size"
            size == IF Find(b, sz) = {} THEN Len(b.items)
                    ELSE IF Has(b, sz, "int") THEN Get(b, sz) ELSE Len(old)
            result == Resized(old, size)
            fits == b.type = "KDL.JntArray"
            r == ComposeJntArray(b, old)
<1>1. r = [ok  |-> fits /\ \A i \in DOMAIN result : HasElement(b, i),
           val |-> [i \in DOMAIN result |->
                      IF fits /\ HasElement(b, i) THEN Element(b, i) ELSE result[i]]]
  BY DEF ComposeJntArray
<1>2. \A i \in DOMAIN result : result[i] = IF i \in DOMAIN old THEN old[i] ELSE 0
  BY DEF Resized
<1>. HIDE DEF r, result, fits
<1>3. /\ DOMAIN r.val = DOMAIN result
      /\ \A i \in DOMAIN result :
            r.val[i] = IF fits /\ HasElement(b, i) THEN Element(b, i) ELSE result[i]
      /\ r.ok => fits /\ \A i \in DOMAIN result : HasElement(b, i)
  BY <1>1
<1>4. \A i \in DOMAIN r.val : \/ HasElement(b, i) /\ r.val[i] = Element(b, i)
                              \/ r.val[i] = IF i \in DOMAIN old THEN old[i] ELSE 0
  BY <1>2, <1>3
<1>5. r.ok => \A i \in DOMAIN r.val : HasElement(b, i) /\ r.val[i] = Element(b, i)
  BY <1>3
<1>. QED BY <1>4, <1>5 DEF r

\* Only Compose leaves the mark of a compose, and only Decompose its own.
LEMMA OnlyCompose ==
    ASSUME [KdlNext]_kdlVars, last'.op = "compose"
    PROVE  Compose \/ UNCHANGED kdlVars
<1>1. ASSUME NEW op, NEW ok, Step(op, ok) PROVE last'.op = op
  BY <1>1 DEF Step
<1>. QED
  BY <1>1 DEF KdlNext, WriteMember, WriteIndex, Construct, Decompose, EditBag, Send, Receive

\* What composing does to the variable.
LEMMA ComposeFacts ==
    ASSUME Compose
    PROVE  /\ last' = [op |-> "compose", ok |-> composeProperty(type, carrier.data, val).ok,
                       before |-> val]
           /\ val' = composeProperty(type, carrier.data, val).val
           /\ UNCHANGED <<type, carrier>>
BY DEF Compose, Step

\* A variable keeps its type.
LEMMA TypeIsKept == type \in KdlTypes /\ [KdlNext]_kdlVars => type' \in KdlTypes
BY DEF KdlNext, WriteMember, WriteIndex, Construct, Decompose, EditBag, Compose, Send, Receive,
       Step, kdlVars

\* The variable has a type of KDL.
TypeIsKdl == type \in KdlTypes

\* What is refused keeps its parts, step by step.
LEMMA RefusedStep ==
    ASSUME type \in KdlTypes, RefusedKeepsParts, [KdlNext]_kdlVars
    PROVE  RefusedKeepsParts'
<1>1. CASE UNCHANGED kdlVars
  BY <1>1 DEF kdlVars, RefusedKeepsParts
<1>2. CASE last'.op # "compose"
  BY <1>2 DEF RefusedKeepsParts
<1>3. CASE Compose
  <2>. DEFINE r == composeProperty(type, carrier.data, val)
  <2>1. /\ last'.ok = r.ok /\ last'.before = val
        /\ val' = r.val /\ type' = type /\ carrier' = carrier
    BY <1>3, ComposeFacts
  <2>2. CASE type \notin Composite \cup {"JntArray"}
    <3>1. ~r.ok => r.val = val
      BY <2>2, RefusedOthers
    <3>. QED BY <2>1, <2>2, <3>1 DEF RefusedKeepsParts
  <2>6. CASE type = "JntArray"
    <3>1. r = ComposeJntArray(carrier.data, val)
      BY <2>6 DEF composeProperty
    <3>2. \A i \in DOMAIN r.val :
             \/ HasElement(carrier.data, i) /\ r.val[i] = Element(carrier.data, i)
             \/ r.val[i] = IF i \in DOMAIN val THEN val[i] ELSE 0
      BY <3>1, ComposedElements
    <3>. HIDE DEF r
    <3>3. type \notin Composite
      BY <2>6, KdlTypesAre
    <3>. QED BY <2>1, <2>6, <3>2, <3>3 DEF RefusedKeepsParts, HasElement, Element
  <2>3. CASE type = "Twist"
    <3>1. r = ComposeTwist(carrier.data, val)
      BY <2>3 DEF composeProperty
    <3>2. ~r.ok => /\ r.val["rot"] = val["rot"]
                   /\ \/ r.val["vel"] = val["vel"]
                      \/ r.val["vel"] = VectorComposer(Get(carrier.data, "vel"), val["vel"]).val
      BY <3>1, RefusedComposite
    <3>. HIDE DEF r
    <3>. QED BY <2>1, <2>3, <3>2, KdlTypesAre DEF RefusedKeepsParts
  <2>4. CASE type = "Wrench"
    <3>1. r = ComposeWrench(carrier.data, val)
      BY <2>4 DEF composeProperty
    <3>2. ~r.ok => /\ r.val["torque"] = val["torque"]
                   /\ \/ r.val["force"] = val["force"]
                      \/ r.val["force"] = VectorComposer(Get(carrier.data, "force"), val["force"]).val
      BY <3>1, RefusedComposite
    <3>. HIDE DEF r
    <3>. QED BY <2>1, <2>4, <3>2, KdlTypesAre DEF RefusedKeepsParts
  <2>5. CASE type = "Frame"
    <3>1. r = ComposeFrame(carrier.data, val)
      BY <2>5 DEF composeProperty
    <3>2. ~r.ok => /\ r.val["M"] = val["M"]
                   /\ \/ r.val["p"] = val["p"]
                      \/ r.val["p"] = VectorComposer(Get(carrier.data, "p"), val["p"]).val
      BY <3>1, RefusedComposite
    <3>. HIDE DEF r
    <3>. QED BY <2>1, <2>5, <3>2, KdlTypesAre DEF RefusedKeepsParts
  <2>. QED BY <2>2, <2>3, <2>4, <2>5, <2>6, KdlTypesAre
<1>. QED BY <1>1, <1>2, <1>3, OnlyCompose

\* RefusedKeepsParts holds for every rotation that angles may stand for and for
\* any number of operations: composeProperty() of a twist, a wrench or a frame
\* writes its first part before it looks into the second, and a bag refused
\* between the two leaves whole parts only; composeType() of an array resizes
\* it first, and a bag refused after that leaves each element in its place.
THEOREM RefusedBagsKeepParts == KdlSpec => []RefusedKeepsParts
<1>1. KdlInit => TypeIsKdl /\ RefusedKeepsParts
  BY DEF KdlInit, TypeIsKdl, RefusedKeepsParts
<1>2. TypeIsKdl /\ RefusedKeepsParts /\ [KdlNext]_kdlVars
        => TypeIsKdl' /\ RefusedKeepsParts'
  BY TypeIsKept, RefusedStep DEF TypeIsKdl
<1>. QED BY <1>1, <1>2, PTL DEF KdlSpec

\* A vector that was accepted has the entries of its bag.
LEMMA AcceptedVector ==
    ASSUME NEW b, NEW old, VectorComposer(b, old).ok
    PROVE  Entries(b, VectorComposer(b, old).val, VectorMembers)
<1>1. /\ \A n \in {"X", "Y", "Z"} : Has(b, n, "double")
      /\ VectorComposer(b, old).val = <<Get(b, "X"), Get(b, "Y"), Get(b, "Z")>>
  BY DEF VectorComposer, Done, Refused
<1>. QED BY <1>1 DEF Entries, VectorMembers

\* So has a rotation, unless its bag has angles.
LEMMA AcceptedMatrix ==
    ASSUME NEW b, NEW old, ComposeRotation(b, old).ok
    PROVE  \/ RPYComposer(b, old).ok \/ EulerZYXComposer(b, old).ok
           \/ Entries(b, ComposeRotation(b, old).val, RotationMembers)
<1>. SUFFICES ASSUME ~RPYComposer(b, old).ok, ~EulerZYXComposer(b, old).ok
              PROVE  Entries(b, ComposeRotation(b, old).val, RotationMembers)
  OBVIOUS
<1>1. ComposeRotation(b, old) = RotationComposer(b, old)
  BY DEF ComposeRotation
<1>. DEFINE v == <<Get(b, "X_x"), Get(b, "Y_x"), Get(b, "Z_x"),
                   Get(b, "X_y"), Get(b, "Y_y"), Get(b, "Z_y"),
                   Get(b, "X_z"), Get(b, "Y_z"), Get(b, "Z_z")>>
<1>2. /\ \A k \in 1..9 : Has(b, RotationNames[k], "double")
      /\ ComposeRotation(b, old).val = v
  BY <1>1 DEF RotationComposer, Done, Refused
<1>3. \A n \in DOMAIN RotationMembers : Has(b, n, "double")
  <2>1. /\ RotationNames[1] = "X_x" /\ RotationNames[2] = "X_y" /\ RotationNames[3] = "X_z"
        /\ RotationNames[4] = "Y_x" /\ RotationNames[5] = "Y_y" /\ RotationNames[6] = "Y_z"
        /\ RotationNames[7] = "Z_x" /\ RotationNames[8] = "Z_y" /\ RotationNames[9] = "Z_z"
    BY DEF RotationNames
  <2>2. /\ Has(b, RotationNames[1], "double") /\ Has(b, RotationNames[2], "double")
        /\ Has(b, RotationNames[3], "double") /\ Has(b, RotationNames[4], "double")
        /\ Has(b, RotationNames[5], "double") /\ Has(b, RotationNames[6], "double")
        /\ Has(b, RotationNames[7], "double") /\ Has(b, RotationNames[8], "double")
        /\ Has(b, RotationNames[9], "double")
    BY <1>2
  <2>. QED BY <2>1, <2>2 DEF RotationMembers
<1>4. \A n \in DOMAIN RotationMembers : Get(b, n) = v[RotationMembers[n] + 1]
  BY DEF RotationMembers
<1>. HIDE DEF v
<1>. QED BY <1>2, <1>3, <1>4 DEF Entries

\* Whether angles are accepted, and what they make, does not depend on the
\* value they are composed into.
LEMMA AnglesAccepted ==
    ASSUME NEW b, NEW u, NEW v
    PROVE  /\ RPYComposer(b, u).ok <=> RPYComposer(b, v).ok
           /\ RPYComposer(b, u).ok => RPYComposer(b, u).val = RPYComposer(b, v).val
           /\ EulerZYXComposer(b, u).ok <=> EulerZYXComposer(b, v).ok
           /\ EulerZYXComposer(b, u).ok => EulerZYXComposer(b, u).val = EulerZYXComposer(b, v).val
<1>1. /\ RPYComposer(b, u).ok <=> RPYComposer(b, v).ok
      /\ RPYComposer(b, u).ok => RPYComposer(b, u).val = RPYComposer(b, v).val
  BY DEF RPYComposer, Done, Refused
<1>2. /\ EulerZYXComposer(b, u).ok <=> EulerZYXComposer(b, v).ok
      /\ EulerZYXComposer(b, u).ok => EulerZYXComposer(b, u).val = EulerZYXComposer(b, v).val
  BY DEF EulerZYXComposer, Done, Refused
<1>. QED BY <1>1, <1>2

\* What an accepted bag says of a vector, or of a rotation.
Holding(b, v, members) ==
    IF members = RotationMembers
    THEN IF RPYComposer(b, v).ok THEN RPYComposer(b, v).val = v
         ELSE IF EulerZYXComposer(b, v).ok THEN EulerZYXComposer(b, v).val = v
         ELSE Entries(b, v, members)
    ELSE Entries(b, v, members)

LEMMA MembersDiffer == VectorMembers # RotationMembers
<1>1. "X" \in DOMAIN VectorMembers /\ "X" \notin DOMAIN RotationMembers
  BY DEF VectorMembers, RotationMembers
<1>. QED BY <1>1

LEMMA AcceptedRotation ==
    ASSUME NEW b, NEW old, ComposeRotation(b, old).ok
    PROVE  Holding(b, ComposeRotation(b, old).val, RotationMembers)
<1>. DEFINE v == ComposeRotation(b, old).val
<1>1. CASE RPYComposer(b, old).ok
  <2>1. v = RPYComposer(b, old).val
    BY <1>1 DEF ComposeRotation
  <2>. HIDE DEF v
  <2>2. RPYComposer(b, v).ok /\ RPYComposer(b, v).val = v
    BY <1>1, <2>1, AnglesAccepted
  <2>. QED BY <2>2 DEF Holding, v
<1>2. CASE ~RPYComposer(b, old).ok /\ EulerZYXComposer(b, old).ok
  <2>1. v = EulerZYXComposer(b, old).val
    BY <1>2 DEF ComposeRotation
  <2>. HIDE DEF v
  <2>2. /\ ~RPYComposer(b, v).ok
        /\ EulerZYXComposer(b, v).ok /\ EulerZYXComposer(b, v).val = v
    BY <1>2, <2>1, AnglesAccepted
  <2>. QED BY <2>2 DEF Holding, v
<1>3. CASE ~RPYComposer(b, old).ok /\ ~EulerZYXComposer(b, old).ok
  <2>1. Entries(b, v, RotationMembers)
    BY <1>3, AcceptedMatrix
  <2>. HIDE DEF v
  <2>2. ~RPYComposer(b, v).ok /\ ~EulerZYXComposer(b, v).ok
    BY <1>3, AnglesAccepted
  <2>. QED BY <2>1, <2>2 DEF Holding, v
<1>. QED BY <1>1, <1>2, <1>3

LEMMA AcceptedStep ==
    ASSUME type \in KdlTypes, AcceptedIsNamed, [KdlNext]_kdlVars
    PROVE  AcceptedIsNamed'
<1>1. CASE UNCHANGED kdlVars
  BY <1>1 DEF kdlVars, AcceptedIsNamed
<1>2. CASE last'.op # "compose"
  BY <1>2 DEF AcceptedIsNamed
<1>3. CASE Compose
  <2>. DEFINE b == carrier.data
              r == composeProperty(type, b, val)
  <2>1. last'.ok = r.ok /\ val' = r.val /\ type' = type /\ carrier' = carrier
    BY <1>3, ComposeFacts
  <2>. SUFFICES ASSUME r.ok
                PROVE  /\ type = "Vector" => Holding(b, r.val, VectorMembers)
                       /\ type = "Rotation" => Holding(b, r.val, RotationMembers)
                       /\ type = "JntArray" =>
                            \A i \in DOMAIN r.val : HasElement(b, i) /\ Element(b, i) = r.val[i]
                       /\ type \in Composite =>
                            \A part \in DOMAIN PartMembers[type] :
                              Holding(Get(b, part), r.val[part], PartMembers[type][part])
    BY <2>1 DEF AcceptedIsNamed, Holding, Entries, HasElement, Element
  <2>2. type = "Vector" => Holding(b, r.val, VectorMembers)
    BY AcceptedVector, MembersDiffer DEF composeProperty, Holding
  <2>3. type = "Rotation" => Holding(b, r.val, RotationMembers)
    BY AcceptedRotation DEF composeProperty
  <2>7. type = "JntArray" =>
           \A i \in DOMAIN r.val : HasElement(b, i) /\ Element(b, i) = r.val[i]
    <3>1. type = "JntArray" => r = ComposeJntArray(b, val)
      BY DEF composeProperty
    <3>. HIDE DEF r
    <3>. QED BY <3>1, ComposedElements
  <2>4. ASSUME type = "Twist", NEW part \in DOMAIN PartMembers[type]
        PROVE  Holding(Get(b, part), r.val[part], PartMembers[type][part])
    <3>1. part \in {"vel", "rot"} /\ PartMembers[type][part] = VectorMembers
      BY <2>4 DEF PartMembers, TwistMembers
    <3>2. /\ VectorComposer(Get(b, "vel"), val.vel).ok
          /\ r.val.vel = VectorComposer(Get(b, "vel"), val.vel).val
          /\ VectorComposer(Get(b, "rot"), val.rot).ok
          /\ r.val.rot = VectorComposer(Get(b, "rot"), val.rot).val
      BY <2>4 DEF composeProperty, ComposeTwist, Refused
    <3>. HIDE DEF r
    <3>3. CASE part = "vel"
      BY <3>1, <3>2, <3>3, AcceptedVector, MembersDiffer DEF Holding
    <3>4. CASE part = "rot"
      BY <3>1, <3>2, <3>4, AcceptedVector, MembersDiffer DEF Holding
    <3>. QED BY <3>1, <3>3, <3>4
  <2>5. ASSUME type = "Wrench", NEW part \in DOMAIN PartMembers[type]
        PROVE  Holding(Get(b, part), r.val[part], PartMembers[type][part])
    <3>1. part \in {"force", "torque"} /\ PartMembers[type][part] = VectorMembers
      BY <2>5 DEF PartMembers, WrenchMembers
    <3>2. /\ VectorComposer(Get(b, "force"), val.force).ok
          /\ r.val.force = VectorComposer(Get(b, "force"), val.force).val
          /\ VectorComposer(Get(b, "torque"), val.torque).ok
          /\ r.val.torque = VectorComposer(Get(b, "torque"), val.torque).val
      BY <2>5 DEF composeProperty, ComposeWrench, Refused
    <3>. HIDE DEF r
    <3>3. CASE part = "force"
      BY <3>1, <3>2, <3>3, AcceptedVector, MembersDiffer DEF Holding
    <3>4. CASE part = "torque"
      BY <3>1, <3>2, <3>4, AcceptedVector, MembersDiffer DEF Holding
    <3>. QED BY <3>1, <3>3, <3>4
  <2>6. ASSUME type = "Frame", NEW part \in DOMAIN PartMembers[type]
        PROVE  Holding(Get(b, part), r.val[part], PartMembers[type][part])
    <3>1. /\ part \in {"p", "M"}
          /\ PartMembers[type]["p"] = VectorMembers /\ PartMembers[type]["M"] = RotationMembers
      BY <2>6 DEF PartMembers, FrameMembers
    <3>2. /\ VectorComposer(Get(b, "p"), val.p).ok
          /\ r.val.p = VectorComposer(Get(b, "p"), val.p).val
          /\ ComposeRotation(Get(b, "M"), val.M).ok
          /\ r.val.M = ComposeRotation(Get(b, "M"), val.M).val
      BY <2>6 DEF composeProperty, ComposeFrame, Refused
    <3>. HIDE DEF r
    <3>3. CASE part = "p"
      BY <3>1, <3>2, <3>3, AcceptedVector, MembersDiffer DEF Holding
    <3>4. CASE part = "M"
      BY <3>1, <3>2, <3>4, AcceptedRotation
    <3>. QED BY <3>1, <3>3, <3>4
  <2>. HIDE DEF r
  <2>. QED BY <2>2, <2>3, <2>4, <2>5, <2>6, <2>7, KdlTypesAre
<1>. QED BY <1>1, <1>2, <1>3, OnlyCompose

\* AcceptedIsNamed holds: what composeProperty() and composeType() accept, from
\* whatever a property file holds, they have read in full, and nothing of the
\* old value is left.
THEOREM AcceptedBagsAreNamed == KdlSpec => []AcceptedIsNamed
<1>1. KdlInit => TypeIsKdl /\ AcceptedIsNamed
  BY DEF KdlInit, TypeIsKdl, AcceptedIsNamed
<1>2. TypeIsKdl /\ AcceptedIsNamed /\ [KdlNext]_kdlVars
        => TypeIsKdl' /\ AcceptedIsNamed'
  BY TypeIsKept, AcceptedStep DEF TypeIsKdl
<1>. QED BY <1>1, <1>2, PTL DEF KdlSpec

\* A name that one entry has is found at that entry.
LEMMA FoundAt ==
    ASSUME NEW b, NEW n, NEW i \in DOMAIN b.items, i \in Nat,
           \A j \in DOMAIN b.items : b.items[j].name = n <=> j = i
    PROVE  /\ Get(b, n) = b.items[i].val
           /\ \A is : b.items[i].is = is => Has(b, n, is)
<1>1. Find(b, n) = {i}
  BY DEF Find
<1>2. Min({i}) = i
  BY DEF Min
<1>. QED BY <1>1, <1>2 DEF Get, Has

\* The bag of a vector has its entries under the names of its members.
LEMMA VectorNamed ==
    ASSUME NEW v
    PROVE  Entries(VectorDecomposer(v), v, VectorMembers)
<1>. DEFINE b == VectorDecomposer(v)
<1>1. /\ DOMAIN b.items = 1..3
      /\ \A i \in 1..3 : /\ b.items[i].name = VectorNames[i]
                         /\ b.items[i].is = "double" /\ b.items[i].val = v[i]
  BY DEF VectorDecomposer, PropertyBag, DoubleItem
<1>. HIDE DEF b
<1>2. ASSUME NEW i \in 1..3
      PROVE  Has(b, VectorNames[i], "double") /\ Get(b, VectorNames[i]) = v[i]
  <2>. DEFINE n == VectorNames[i]
  <2>1. \A j \in DOMAIN b.items : b.items[j].name = n <=> j = i
    BY <1>1 DEF VectorNames
  <2>2. i \in DOMAIN b.items /\ i \in Nat
    BY <1>1
  <2>3. b.items[i].is = "double" /\ b.items[i].val = v[i]
    BY <1>1
  <2>. HIDE DEF n
  <2>4. Has(b, n, "double") /\ Get(b, n) = v[i]
    BY <2>1, <2>2, <2>3, FoundAt
  <2>. QED BY <2>4 DEF n
<1>3. /\ DOMAIN VectorMembers = {"X", "Y", "Z"}
      /\ VectorMembers["X"] + 1 = 1 /\ VectorMembers["Y"] + 1 = 2 /\ VectorMembers["Z"] + 1 = 3
      /\ VectorNames[1] = "X" /\ VectorNames[2] = "Y" /\ VectorNames[3] = "Z"
  BY DEF VectorMembers, VectorNames
<1>4. /\ Has(b, "X", "double") /\ Get(b, "X") = v[1]
      /\ Has(b, "Y", "double") /\ Get(b, "Y") = v[2]
      /\ Has(b, "Z", "double") /\ Get(b, "Z") = v[3]
  BY <1>2, <1>3
<1>5. Entries(b, v, VectorMembers)
  BY <1>3, <1>4 DEF Entries
<1>. QED BY <1>5 DEF b

\* The bag of a rotation has its angles, and none of the names of its members.
LEMMA RotationNamed ==
    ASSUME NEW v
    PROVE  LET b == RPYDecomposer(v)
           IN  /\ \A n \in {"R", "P", "Y"} : Has(b, n, "double")
               /\ Get(b, "R") = GetRPY(v)[1] /\ Get(b, "P") = GetRPY(v)[2]
               /\ Get(b, "Y") = GetRPY(v)[3]
               /\ \A n \in DOMAIN RotationMembers : Find(b, n) = {}
<1>. DEFINE b == RPYDecomposer(v)
<1>1. /\ DOMAIN b.items = 1..3
      /\ \A i \in 1..3 : /\ b.items[i].name = RPYNames[i]
                         /\ b.items[i].is = "double" /\ b.items[i].val = GetRPY(v)[i]
  BY DEF RPYDecomposer, PropertyBag, DoubleItem
<1>. HIDE DEF b
<1>2. ASSUME NEW i \in 1..3
      PROVE  Has(b, RPYNames[i], "double") /\ Get(b, RPYNames[i]) = GetRPY(v)[i]
  <2>. DEFINE n == RPYNames[i]
  <2>1. \A j \in DOMAIN b.items : b.items[j].name = n <=> j = i
    BY <1>1 DEF RPYNames
  <2>2. i \in DOMAIN b.items /\ i \in Nat
    BY <1>1
  <2>3. b.items[i].is = "double" /\ b.items[i].val = GetRPY(v)[i]
    BY <1>1
  <2>. HIDE DEF n
  <2>4. Has(b, n, "double") /\ Get(b, n) = GetRPY(v)[i]
    BY <2>1, <2>2, <2>3, FoundAt
  <2>. QED BY <2>4 DEF n
<1>3. RPYNames[1] = "R" /\ RPYNames[2] = "P" /\ RPYNames[3] = "Y"
  BY DEF RPYNames
<1>4. /\ Has(b, "R", "double") /\ Get(b, "R") = GetRPY(v)[1]
      /\ Has(b, "P", "double") /\ Get(b, "P") = GetRPY(v)[2]
      /\ Has(b, "Y", "double") /\ Get(b, "Y") = GetRPY(v)[3]
  BY <1>2, <1>3
<1>5. \A j \in DOMAIN b.items : b.items[j].name \in {"R", "P", "Y"}
  BY <1>1, <1>3
<1>6. \A n \in DOMAIN RotationMembers : n \notin {"R", "P", "Y"}
  BY DEF RotationMembers
<1>7. \A n \in DOMAIN RotationMembers : Find(b, n) = {}
  BY <1>5, <1>6 DEF Find
<1>. QED BY <1>4, <1>7 DEF b

\* Each element of an array is found in its bag.
LEMMA ElementsFound ==
    ASSUME NEW v, DOMAIN v \subseteq Nat, NEW i \in DOMAIN v
    PROVE  /\ HasElement(DecomposeJntArray(v), i)
           /\ Element(DecomposeJntArray(v), i) = v[i]
<1>. DEFINE b == DecomposeJntArray(v)
<1>1. /\ DOMAIN b.items = DOMAIN v
      /\ \A j \in DOMAIN v : /\ b.items[j].name = "Element" /\ b.items[j].nr = j
                             /\ b.items[j].is = "double" /\ b.items[j].val = v[j]
  BY DEF DecomposeJntArray, PropertyBag, ElementItem
<1>. HIDE DEF b
<1>2. FindElement(b, i) = {i}
  BY <1>1 DEF FindElement, Find
<1>3. Min({i}) = i
  BY DEF Min
<1>4. HasElement(b, i) /\ Element(b, i) = v[i]
  BY <1>1, <1>2, <1>3 DEF HasElement, Element
<1>. QED BY <1>4 DEF b

\* A bag of two sub-bags has each under its name.
LEMMA PartsFound ==
    ASSUME NEW t, NEW m, NEW n, m # n, NEW x, NEW y
    PROVE  LET b == PropertyBag(t, <<BagItem(m, x), BagItem(n, y)>>)
           IN  /\ Has(b, m, "bag") /\ Get(b, m) = x
               /\ Has(b, n, "bag") /\ Get(b, n) = y
<1>. DEFINE b == PropertyBag(t, <<BagItem(m, x), BagItem(n, y)>>)
<1>1. /\ DOMAIN b.items = {1, 2}
      /\ b.items[1].name = m /\ b.items[1].is = "bag" /\ b.items[1].val = x
      /\ b.items[2].name = n /\ b.items[2].is = "bag" /\ b.items[2].val = y
  BY DEF PropertyBag, BagItem
<1>. HIDE DEF b
<1>2. Has(b, m, "bag") /\ Get(b, m) = x
  <2>1. \A j \in DOMAIN b.items : b.items[j].name = m <=> j = 1
    BY <1>1
  <2>. QED BY <1>1, <2>1, FoundAt
<1>3. Has(b, n, "bag") /\ Get(b, n) = y
  <2>1. \A j \in DOMAIN b.items : b.items[j].name = n <=> j = 2
    BY <1>1
  <2>. QED BY <1>1, <2>1, FoundAt
<1>. QED BY <1>2, <1>3 DEF b

-----------------------------------------------------------------------------
(* KDL: a value from its bag.                                              *)

\* The values of a type.
VectorSet   == [1..3 -> Nat]
RotationSet == [1..9 -> Int]
FrameSet    == [p : VectorSet, M : RotationSet]
TwistSet    == [vel : VectorSet, rot : VectorSet]
WrenchSet   == [force : VectorSet, torque : VectorSet]
SegmentSet  == [joint : JointTypes, frame : FrameSet]
JacobianSet(n) == [(1..6) \X (1..n) -> Nat]
Shape(t, v) ==
    /\ t = "Vector"   => v \in VectorSet
    /\ t = "Rotation" => v \in RotationSet
    /\ t = "Frame"    => v \in FrameSet
    /\ t = "Twist"    => v \in TwistSet
    /\ t = "Wrench"   => v \in WrenchSet
    /\ t = "JntArray" => v \in Seq(Nat)
    /\ t = "Jacobian" => \E n \in Nat : v \in JacobianSet(n)
    /\ t = "Segment"  => v \in SegmentSet
    /\ t = "Chain"    => v \in Seq(SegmentSet)

\* A name that no entry has is not found.
LEMMA NotFound ==
    ASSUME NEW b, NEW n, \A j \in DOMAIN b.items : b.items[j].name # n
    PROVE  \A is : ~Has(b, n, is)
BY DEF Has, Find

\* A vector comes back from its bag, whatever the variable held.
LEMMA VectorBack ==
    ASSUME NEW v \in VectorSet, NEW old
    PROVE  VectorComposer(VectorDecomposer(v), old) = Done(v)
<1>. DEFINE b == VectorDecomposer(v)
<1>1. b.type = "KDL.Vector"
  BY DEF VectorDecomposer, PropertyBag
<1>2. Entries(b, v, VectorMembers)
  BY VectorNamed
<1>. HIDE DEF b
<1>3. /\ \A n \in {"X", "Y", "Z"} : Has(b, n, "double")
      /\ Get(b, "X") = v[1] /\ Get(b, "Y") = v[2] /\ Get(b, "Z") = v[3]
  BY <1>2 DEF Entries, VectorMembers
<1>4. VectorComposer(b, old) = Done(<<v[1], v[2], v[3]>>)
  BY <1>1, <1>3 DEF VectorComposer
<1>5. <<v[1], v[2], v[3]>> = v
  BY DEF VectorSet
<1>. QED BY <1>4, <1>5 DEF b

\* A rotation comes back from its angles; nine numbers that are none do not.
LEMMA RotationBack ==
    ASSUME NEW v, NEW old
    PROVE  ComposeRotation(RPYDecomposer(v), old) = Done(Oriented(v))
<1>. DEFINE b == RPYDecomposer(v)
<1>1. IsRotation(b)
  BY DEF RPYDecomposer, PropertyBag, IsRotation
<1>2. /\ \A n \in {"R", "P", "Y"} : Has(b, n, "double")
      /\ Get(b, "R") = GetRPY(v)[1] /\ Get(b, "P") = GetRPY(v)[2] /\ Get(b, "Y") = GetRPY(v)[3]
  BY RotationNamed
<1>. HIDE DEF b
<1>3. RPYComposer(b, old) = Done(RPY(GetRPY(v)[1], GetRPY(v)[2], GetRPY(v)[3]))
  BY <1>1, <1>2 DEF RPYComposer
<1>4. RPY(GetRPY(v)[1], GetRPY(v)[2], GetRPY(v)[3]) = Oriented(v)
  BY RotationAssumption DEF Oriented
<1>5. ComposeRotation(b, old) = Done(Oriented(v))
  BY <1>3, <1>4 DEF ComposeRotation, Done
<1>. QED BY <1>5 DEF b

\* A composite value comes back part by part.
LEMMA TwistBack ==
    ASSUME NEW v \in TwistSet, NEW old
    PROVE  ComposeTwist(DecomposeTwist(v), old) = Done(v)
<1>. DEFINE b == DecomposeTwist(v)
<1>1. b.type = "KDL.Twist"
  BY DEF DecomposeTwist, PropertyBag
<1>2. /\ Has(b, "vel", "bag") /\ Get(b, "vel") = VectorDecomposer(v.vel)
      /\ Has(b, "rot", "bag") /\ Get(b, "rot") = VectorDecomposer(v.rot)
  BY PartsFound DEF DecomposeTwist
<1>. HIDE DEF b
<1>3. v.vel \in VectorSet /\ v.rot \in VectorSet /\ v = [vel |-> v.vel, rot |-> v.rot]
  BY DEF TwistSet
<1>4. /\ VectorComposer(Get(b, "vel"), old.vel) = Done(v.vel)
      /\ VectorComposer(Get(b, "rot"), old.rot) = Done(v.rot)
  BY <1>2, <1>3, VectorBack
<1>5. ComposeTwist(b, old) = Done([vel |-> v.vel, rot |-> v.rot])
  <2>. DEFINE r == VectorComposer(Get(b, "vel"), old.vel)
              q == VectorComposer(Get(b, "rot"), old.rot)
  <2>1. r.ok = TRUE /\ r.val = v.vel /\ q.ok = TRUE /\ q.val = v.rot
    BY <1>4 DEF Done
  <2>2. ComposeTwist(b, old) = IF ~r.ok THEN Refused(old)
                                ELSE [ok |-> q.ok, val |-> [vel |-> r.val, rot |-> q.val]]
    BY <1>1, <1>2 DEF ComposeTwist
  <2>. HIDE DEF r, q
  <2>. QED BY <2>1, <2>2 DEF Done
<1>. QED BY <1>3, <1>5 DEF b

LEMMA WrenchBack ==
    ASSUME NEW v \in WrenchSet, NEW old
    PROVE  ComposeWrench(DecomposeWrench(v), old) = Done(v)
<1>. DEFINE b == DecomposeWrench(v)
<1>1. b.type = "KDL.Wrench"
  BY DEF DecomposeWrench, PropertyBag
<1>2. /\ Has(b, "force", "bag") /\ Get(b, "force") = VectorDecomposer(v.force)
      /\ Has(b, "torque", "bag") /\ Get(b, "torque") = VectorDecomposer(v.torque)
  BY PartsFound DEF DecomposeWrench
<1>. HIDE DEF b
<1>3. v.force \in VectorSet /\ v.torque \in VectorSet /\ v = [force |-> v.force, torque |-> v.torque]
  BY DEF WrenchSet
<1>4. /\ VectorComposer(Get(b, "force"), old.force) = Done(v.force)
      /\ VectorComposer(Get(b, "torque"), old.torque) = Done(v.torque)
  BY <1>2, <1>3, VectorBack
<1>5. ComposeWrench(b, old) = Done([force |-> v.force, torque |-> v.torque])
  <2>. DEFINE r == VectorComposer(Get(b, "force"), old.force)
              q == VectorComposer(Get(b, "torque"), old.torque)
  <2>1. r.ok = TRUE /\ r.val = v.force /\ q.ok = TRUE /\ q.val = v.torque
    BY <1>4 DEF Done
  <2>2. ComposeWrench(b, old) = IF ~r.ok THEN Refused(old)
                                ELSE [ok |-> q.ok, val |-> [force |-> r.val, torque |-> q.val]]
    BY <1>1, <1>2 DEF ComposeWrench
  <2>. HIDE DEF r, q
  <2>. QED BY <2>1, <2>2 DEF Done
<1>. QED BY <1>3, <1>5 DEF b

LEMMA FrameBack ==
    ASSUME NEW v \in FrameSet, NEW old
    PROVE  ComposeFrame(DecomposeFrame(v), old) = Done([p |-> v.p, M |-> Oriented(v.M)])
<1>. DEFINE b == DecomposeFrame(v)
<1>1. b.type = "KDL.Frame"
  BY DEF DecomposeFrame, PropertyBag
<1>2. /\ Has(b, "p", "bag") /\ Get(b, "p") = VectorDecomposer(v.p)
      /\ Has(b, "M", "bag") /\ Get(b, "M") = RPYDecomposer(v.M)
  BY PartsFound DEF DecomposeFrame
<1>. HIDE DEF b
<1>3. v.p \in VectorSet /\ v.M \in RotationSet /\ v = [p |-> v.p, M |-> v.M]
  BY DEF FrameSet
<1>4. /\ VectorComposer(Get(b, "p"), old.p) = Done(v.p)
      /\ ComposeRotation(Get(b, "M"), old.M) = Done(Oriented(v.M))
  BY <1>2, <1>3, VectorBack, RotationBack
<1>5. ComposeFrame(b, old) = Done([p |-> v.p, M |-> Oriented(v.M)])
  <2>. DEFINE r == VectorComposer(Get(b, "p"), old.p)
              q == ComposeRotation(Get(b, "M"), old.M)
  <2>1. r.ok = TRUE /\ r.val = v.p /\ q.ok = TRUE /\ q.val = Oriented(v.M)
    BY <1>4 DEF Done
  <2>2. ComposeFrame(b, old) = IF ~r.ok THEN Refused(old)
                                ELSE [ok |-> q.ok, val |-> [p |-> r.val, M |-> q.val]]
    BY <1>1, <1>2 DEF ComposeFrame
  <2>. HIDE DEF r, q
  <2>. QED BY <2>1, <2>2 DEF Done
<1>. QED BY <1>5 DEF b

\* A segment comes back with None for a joint that is not known.
KnownSegment(s) ==
    [joint |-> IF s.joint \in KnownJoints THEN s.joint ELSE "None",
     frame |-> [p |-> s.frame.p, M |-> Oriented(s.frame.M)]]

\* A joint of a type that is not known comes back as None.
LEMMA JointBack ==
    ASSUME NEW j
    PROVE  ComposeJoint(DecomposeJoint(j), "None").val = IF j \in KnownJoints THEN j ELSE "None"
<1>. DEFINE b == DecomposeJoint(j)
<1>1. b.type = "KDL.Joint"
  BY DEF DecomposeJoint, PropertyBag
<1>2. /\ DOMAIN b.items = {1} /\ b.items[1].name = "Type"
      /\ b.items[1].is = "string" /\ b.items[1].val = j
  BY DEF DecomposeJoint, PropertyBag, TextItem
<1>. HIDE DEF b
<1>3. Has(b, "Type", "string") /\ Get(b, "Type") = j
  <2>1. \A k \in DOMAIN b.items : b.items[k].name = "Type" <=> k = 1
    BY <1>2
  <2>. QED BY <1>2, <2>1, FoundAt
<1>4. ComposeJoint(b, "None").val = IF j \in KnownJoints THEN j ELSE "None"
  BY <1>1, <1>3 DEF ComposeJoint, Done, Refused
<1>. QED BY <1>4 DEF b

\* The first entry with a name is found.
LEMMA FirstFound ==
    ASSUME NEW b, NEW n, NEW i \in DOMAIN b.items, DOMAIN b.items \subseteq Nat,
           b.items[i].name = n, \A j \in DOMAIN b.items : b.items[j].name = n => i <= j
    PROVE  /\ Get(b, n) = b.items[i].val
           /\ \A is : b.items[i].is = is => Has(b, n, is)
<1>1. /\ i \in Find(b, n) /\ \A j \in Find(b, n) : i <= j
      /\ Find(b, n) \subseteq Nat
  BY DEF Find
<1>2. Min(Find(b, n)) = i
  BY <1>1 DEF Min
<1>. QED BY <1>1, <1>2 DEF Get, Has

\* A bag whose first two entries are those of a segment composes to it.
LEMMA SegmentBack ==
    ASSUME NEW s \in SegmentSet, NEW items, NEW n \in Nat, DOMAIN items = 1..n, n >= 2,
           items[1] = SegmentItems(s)[1], items[2] = SegmentItems(s)[2], NEW old
    PROVE  ComposeSegment(PropertyBag("KDL.Segment", items), old) = Done(KnownSegment(s))
<1>. DEFINE b == PropertyBag("KDL.Segment", items)
<1>1. b.type = "KDL.Segment" /\ b.items = items
  BY DEF PropertyBag
<1>2. /\ items[1].name = "joint" /\ items[1].is = "bag"
      /\ items[1].val = DecomposeJoint(s.joint)
      /\ items[2].name = "frame" /\ items[2].is = "bag"
      /\ items[2].val = DecomposeFrame(s.frame)
  BY DEF SegmentItems, BagItem
<1>. HIDE DEF b
<1>3. Has(b, "joint", "bag") /\ Get(b, "joint") = DecomposeJoint(s.joint)
  BY <1>1, <1>2, FirstFound
<1>4. Has(b, "frame", "bag") /\ Get(b, "frame") = DecomposeFrame(s.frame)
  <2>1. \A j \in DOMAIN b.items : b.items[j].name = "frame" => 2 <= j
    BY <1>1, <1>2
  <2>. QED BY <1>1, <1>2, <2>1, FirstFound
<1>5. s.frame \in FrameSet /\ s = [joint |-> s.joint, frame |-> s.frame]
  BY DEF SegmentSet
<1>6. ComposeFrame(Get(b, "frame"), DefaultFrame).val
        = [p |-> s.frame.p, M |-> Oriented(s.frame.M)]
  BY <1>4, <1>5, FrameBack DEF Done
<1>7. ComposeJoint(Get(b, "joint"), "None").val
        = IF s.joint \in KnownJoints THEN s.joint ELSE "None"
  BY <1>3, JointBack
<1>. DEFINE j == IF s.joint \in KnownJoints THEN s.joint ELSE "None"
<1>8. ComposeSegment(b, old)
        = Done([joint |-> j, frame |-> [p |-> s.frame.p, M |-> Oriented(s.frame.M)]])
  BY <1>1, <1>3, <1>4, <1>6, <1>7 DEF ComposeSegment
<1>9. [joint |-> j, frame |-> [p |-> s.frame.p, M |-> Oriented(s.frame.M)]] = KnownSegment(s)
  BY DEF KnownSegment
<1>. QED BY <1>8, <1>9 DEF b

\* Sequences of a given length.
LEMMA TupleIsSeq ==
    ASSUME NEW S, NEW n \in Nat, NEW s \in [1..n -> S]
    PROVE  s \in Seq(S) /\ Len(s) = n
OBVIOUS

\* The first two entries of a sequence that two entries were added to.
LEMMA FirstTwo ==
    ASSUME NEW S, NEW s \in Seq(S), NEW t \in Seq(S), Len(t) = 2, Len(s) = 0 \/ Len(s) >= 2
    PROVE  /\ DOMAIN (s \o t) = 1..(Len(s) + 2)
           /\ Len(s) = 0 => (s \o t)[1] = t[1] /\ (s \o t)[2] = t[2]
           /\ Len(s) >= 2 => (s \o t)[1] = s[1] /\ (s \o t)[2] = s[2]
<1>. DEFINE n == Len(s)
            u == s \o t
<1>1. /\ n \in Nat /\ DOMAIN u = 1..(n + 2)
      /\ \A i \in 1..(n + 2) : u[i] = IF i <= n THEN s[i] ELSE t[i - n]
  <2>1. /\ n \in Nat /\ DOMAIN u = 1..(n + Len(t))
        /\ \A i \in 1..(n + Len(t)) : u[i] = IF i <= n THEN s[i] ELSE t[i - n]
    <3>1. /\ u \in Seq(S) /\ Len(u) = n + Len(t)
          /\ \A i \in 1..(n + Len(t)) : u[i] = IF i <= n THEN s[i] ELSE t[i - n]
      BY Zenon, ConcatProperties
    <3>2. n \in Nat
      OBVIOUS
    <3>. HIDE DEF n, u
    <3>. QED BY <3>1, <3>2
  <2>. HIDE DEF n, u
  <2>. QED BY <2>1
<1>. HIDE DEF n, u
<1>2. 1 \in 1..(n + 2) /\ 2 \in 1..(n + 2)
  BY <1>1
<1>3. n = 0 => u[1] = t[1] /\ u[2] = t[2]
  BY <1>1, <1>2
<1>4. n >= 2 => u[1] = s[1] /\ u[2] = s[2]
  BY <1>1, <1>2
<1>. QED BY <1>1, <1>3, <1>4 DEF n, u

\* Every segment of a chain comes back as its first: the bag of each begins
\* with the entries of the first, and these are the ones that are found.
LEMMA ChainBack ==
    ASSUME NEW v \in Seq(SegmentSet), NEW old
    PROVE  ComposeChain(DecomposeChain(v), old) = Done([i \in DOMAIN v |-> KnownSegment(v[1])])
<1>. DEFINE segment_bag(i) == [k \in 1..2 * i |-> SegmentItems(v[(k + 1) \div 2])[2 - (k % 2)]]
            b == DecomposeChain(v)
            fresh == [joint |-> "None", frame |-> DefaultFrame]
            items(i) == segment_bag(i - 1) \o SegmentItems(v[i])
<1>1. /\ b.type = "KDL.Chain" /\ DOMAIN b.items = DOMAIN v
      /\ \A i \in DOMAIN v : /\ b.items[i].is = "bag"
                             /\ b.items[i].val = PropertyBag("KDL.Segment", items(i))
  BY DEF DecomposeChain, PropertyBag, BagItem, DecomposeSegment
<1>2. ASSUME NEW i \in DOMAIN v
      PROVE  ComposeSegment(PropertyBag("KDL.Segment", items(i)), fresh).val = KnownSegment(v[1])
  <2>. DEFINE S == {segment_bag(i - 1)[k] : k \in 1..2 * (i - 1)}
                     \cup {SegmentItems(v[i])[1], SegmentItems(v[i])[2]}
              n == 2 * (i - 1)
  <2>1. i \in Nat /\ i >= 1 /\ n \in Nat /\ 1 \in DOMAIN v /\ v[1] \in SegmentSet
    OBVIOUS
  <2>2. segment_bag(i - 1) \in [1..n -> S]
    OBVIOUS
  <2>3. SegmentItems(v[i]) \in [1..2 -> S]
    BY DEF SegmentItems
  <2>4. i > 1 => /\ segment_bag(i - 1)[1] = SegmentItems(v[1])[1]
                 /\ segment_bag(i - 1)[2] = SegmentItems(v[1])[2]
    BY <2>1
  <2>. DEFINE sb == segment_bag(i - 1)
              si == SegmentItems(v[i])
              x == SegmentItems(v[1])[1]
              y == SegmentItems(v[1])[2]
              it == items(i)
              len == n + 2
  <2>5. /\ sb \in [1..n -> S] /\ si \in [1..2 -> S] /\ (n = 0 \/ n >= 2)
        /\ n = 0 => si[1] = x /\ si[2] = y
        /\ n >= 2 => sb[1] = x /\ sb[2] = y
        /\ it = sb \o si
    <3>1. (n = 0 => i = 1) /\ (n >= 2 => i > 1) /\ (n = 0 \/ n >= 2)
      BY <2>1
    <3>2. i = 1 => si[1] = x /\ si[2] = y
      OBVIOUS
    <3>3. i > 1 => sb[1] = x /\ sb[2] = y
      BY <2>4
    <3>4. it = sb \o si
      OBVIOUS
    <3>. HIDE DEF n, sb, si, x, y, it
    <3>. QED BY <2>2, <2>3, <3>1, <3>2, <3>3, <3>4 DEF sb, si
  <2>6. DOMAIN it = 1..(n + 2) /\ it[1] = x /\ it[2] = y
    <3>1. n \in Nat
      BY <2>1
    <3>. HIDE DEF S, sb, si, x, y, it, n
    <3>2. sb \in Seq(S) /\ Len(sb) = n /\ si \in Seq(S) /\ Len(si) = 2
      <4>1. sb \in [1..n -> S] /\ si \in [1..2 -> S]
        BY Zenon, <2>5
      <4>. QED BY <3>1, <4>1, 2 \in Nat, TupleIsSeq
    <3>3. /\ DOMAIN (sb \o si) = 1..(Len(sb) + 2)
          /\ Len(sb) = 0 => (sb \o si)[1] = si[1] /\ (sb \o si)[2] = si[2]
          /\ Len(sb) >= 2 => (sb \o si)[1] = sb[1] /\ (sb \o si)[2] = sb[2]
      <4>1. n = 0 \/ n >= 2
        BY Zenon, <2>5
      <4>. QED BY <3>2, <4>1, FirstTwo
    <3>. QED BY Zenon, <2>5, <3>2, <3>3
  <2>7. len \in Nat /\ len >= 2
    BY <2>1
  <2>8. DOMAIN it = 1..len
    BY <2>6
  <2>. HIDE DEF it, len, fresh
  <2>9. ComposeSegment(PropertyBag("KDL.Segment", it), fresh) = Done(KnownSegment(v[1]))
    BY <2>1, <2>6, <2>7, <2>8, SegmentBack
  <2>. QED BY <2>9 DEF Done, it
<1>. HIDE DEF b, items
<1>3. [i \in DOMAIN b.items |-> IF b.items[i].is = "bag"
                                THEN ComposeSegment(b.items[i].val, fresh).val ELSE fresh]
        = [i \in DOMAIN v |-> KnownSegment(v[1])]
  BY <1>1, <1>2
<1>4. ComposeChain(b, old) = Done([i \in DOMAIN v |-> KnownSegment(v[1])])
  BY <1>1, <1>3 DEF ComposeChain
<1>. QED BY <1>4 DEF b

\* An array of joints comes back by the numbers of its elements, whatever the
\* length of the variable was.
LEMMA JntArrayBack ==
    ASSUME NEW v \in Seq(Nat), NEW old
    PROVE  ComposeJntArray(DecomposeJntArray(v), old) = Done(v)
<1>. DEFINE b == DecomposeJntArray(v)
            n == Len(v)
            result == Resized(old, n)
<1>1. /\ b.type = "KDL.JntArray" /\ DOMAIN b.items = DOMAIN v
      /\ \A i \in DOMAIN v : b.items[i].name = "Element"
  BY DEF DecomposeJntArray, PropertyBag, ElementItem
<1>2. Len(b.items) = n
  <2>1. b.items = [i \in 1..n |-> ElementItem(i, v[i])]
    BY DEF DecomposeJntArray, PropertyBag
  <2>. QED BY <2>1
<1>3. \A i \in DOMAIN v : HasElement(b, i) /\ Element(b, i) = v[i]
  BY ElementsFound
<1>4. n \in Nat /\ DOMAIN v = 1..n /\ v = [i \in 1..n |-> v[i]]
  OBVIOUS
<1>. HIDE DEF b, n
<1>5. Find(b, "Size") = {} /\ Find(b, "size") = {}
  BY <1>1 DEF Find
<1>6. DOMAIN result = 1..n
  BY DEF Resized
<1>7. ComposeJntArray(b, old) =
        [ok  |-> b.type = "KDL.JntArray" /\ \A i \in DOMAIN result : HasElement(b, i),
         val |-> [i \in DOMAIN result |-> IF b.type = "KDL.JntArray" /\ HasElement(b, i)
                                          THEN Element(b, i) ELSE result[i]]]
  BY <1>2, <1>5 DEF ComposeJntArray
<1>. HIDE DEF result
<1>8. [i \in DOMAIN result |-> IF b.type = "KDL.JntArray" /\ HasElement(b, i)
                               THEN Element(b, i) ELSE result[i]] = v
  BY <1>1, <1>3, <1>4, <1>6
<1>9. (b.type = "KDL.JntArray" /\ \A i \in DOMAIN result : HasElement(b, i)) = TRUE
  BY <1>1, <1>3, <1>4, <1>6
<1>10. ComposeJntArray(b, old) = Done(v)
  BY <1>7, <1>8, <1>9 DEF Done
<1>. QED BY <1>10 DEF b

\* Row and column of the k-th entry.
LEMMA RowAndColumn ==
    ASSUME NEW n \in Nat, NEW q \in Nat, NEW r \in Nat, r < n
    PROVE  (n * q + r) \div n = q /\ (n * q + r) % n = r
<1>. DEFINE x == n * q + r
            d == x \div n
            e == x % n
<1>1. x \in Nat /\ d \in Nat /\ e \in 0..(n - 1) /\ x = n * d + e
  OBVIOUS
<1>. HIDE DEF d, e
<1>2. n * d + e = n * q + r
  BY <1>1
<1>3. CASE d > q
  <2>1. n * d >= n * (q + 1)
    BY <1>1, <1>3
  <2>2. n * (q + 1) = n * q + n
    OBVIOUS
  <2>. QED BY <1>1, <1>2, <2>1, <2>2
<1>4. CASE d < q
  <2>1. n * q >= n * (d + 1)
    BY <1>1, <1>4
  <2>2. n * (d + 1) = n * d + n
    BY <1>1
  <2>. QED BY <1>1, <1>2, <2>1, <2>2
<1>5. CASE d = q
  BY <1>1, <1>2, <1>5 DEF d, e
<1>. QED BY <1>1, <1>3, <1>4, <1>5

\* The columns of a Jacobian.
LEMMA ColumnsOf ==
    ASSUME NEW n \in Nat, NEW m \in JacobianSet(n)
    PROVE  Columns(m) = n
<1>. DEFINE cols == {ij[2] : ij \in DOMAIN m}
<1>1. DOMAIN m = (1..6) \X (1..n)
  BY DEF JacobianSet
<1>2. ASSUME NEW j \in 1..n PROVE j \in cols
  <2>1. <<1, j>> \in DOMAIN m /\ <<1, j>>[2] = j
    BY <1>1
  <2>. QED BY <2>1
<1>3. cols = 1..n
  BY <1>1, <1>2
<1>4. Cardinality(1..n) = n
  BY FS_Interval
<1>. QED BY <1>3, <1>4 DEF Columns

\* A Jacobian comes back, of any number of columns: it is written and read
\* row by row.
LEMMA JacobianBack ==
    ASSUME NEW n \in Nat, NEW m \in JacobianSet(n), NEW old
    PROVE  ComposeJacobian(DecomposeJacobian(m), old) = Done(m)
<1>. DEFINE b == DecomposeJacobian(m)
<1>1. /\ b.type = "KDL.Jacobian"
      /\ b.items = [k \in 1..6 * n |->
                      DoubleItem("Element", m[<<(k - 1) \div n + 1, 1 + ((k - 1) % n)>>])]
  BY ColumnsOf DEF DecomposeJacobian, PropertyBag
<1>. HIDE DEF b
<1>2. Len(b.items) = 6 * n
  BY <1>1
<1>3. Len(b.items) \div 6 = n
  BY <1>2
<1>4. ASSUME NEW i \in 1..6, NEW j \in 1..n
      PROVE  ItemValue(b.items[n * (i - 1) + j]) = m[<<i, j>>]
  <2>. DEFINE k == n * (i - 1) + j
              q == i - 1
              r == j - 1
  <2>1. q \in Nat /\ r \in Nat /\ r < n /\ q + 1 = i /\ 1 + r = j
    OBVIOUS
  <2>2. n * q \in Nat /\ n * q <= n * 5
    OBVIOUS
  <2>3. k \in 1..6 * n /\ k - 1 = n * q + r
    BY <2>1, <2>2
  <2>. HIDE DEF q, r, k
  <2>4. (k - 1) \div n = q /\ (k - 1) % n = r
    BY <2>1, <2>3, RowAndColumn
  <2>5. b.items[k] = DoubleItem("Element", m[<<i, j>>])
    BY <1>1, <2>1, <2>3, <2>4
  <2>. QED BY <2>5 DEF ItemValue, DoubleItem, k
<1>5. [ij \in (1..6) \X (1..n) |-> ItemValue(b.items[n * (ij[1] - 1) + ij[2]])] = m
  BY <1>4 DEF JacobianSet
<1>6. ComposeJacobian(b, old) = Done(m)
  BY <1>1, <1>3, <1>5 DEF ComposeJacobian
<1>. QED BY <1>6 DEF b

-----------------------------------------------------------------------------
(* KDL: a value from a CORBA sequence, an archive and a message.           *)

\* Two sequences one after the other, and each of them taken out again.
LEMMA Halves ==
    ASSUME NEW S, NEW s \in Seq(S), NEW t \in Seq(S)
    PROVE  /\ s \o t \in Seq(S) /\ Len(s \o t) = Len(s) + Len(t)
           /\ \A i \in 1..Len(t) : (s \o t)[Len(s) + i] = t[i]
           /\ SubSeq(s \o t, 1, Len(s)) = s
           /\ SubSeq(s \o t, Len(s) + 1, Len(s) + Len(t)) = t
<1>. DEFINE u == s \o t
            n == Len(s)
            m == Len(t)
<1>1. n \in Nat /\ m \in Nat /\ s \in [1..n -> S] /\ t \in [1..m -> S]
  OBVIOUS
<1>2. /\ u \in Seq(S) /\ Len(u) = Len(s) + Len(t)
      /\ \A i \in 1..(Len(s) + Len(t)) : u[i] = IF i <= Len(s) THEN s[i] ELSE t[i - Len(s)]
  BY Zenon, <1>1, ConcatProperties
<1>. HIDE DEF u, n, m
<1>3. /\ Len(u) = n + m /\ DOMAIN u = 1..(n + m)
      /\ \A i \in 1..(n + m) : u[i] = IF i <= n THEN s[i] ELSE t[i - n]
  BY <1>1, <1>2 DEF n, m
<1>4. \A i \in 1..n : u[i] = s[i]
  BY <1>1, <1>3
<1>5. ASSUME NEW i \in 1..m PROVE u[n + i] = t[i]
  <2>1. n + i \in 1..(n + m) /\ ~(n + i <= n) /\ (n + i) - n = i
    BY <1>1
  <2>. QED BY <1>3, <2>1
<1>6. SubSeq(u, 1, n) = s
  <2>1. SubSeq(u, 1, n) = [i \in 1..n |-> u[i]]
    BY <1>1, <1>2, <1>3
  <2>. QED BY <1>1, <1>4, <2>1
<1>7. SubSeq(u, n + 1, n + m) = t
  <2>1. SubSeq(u, n + 1, n + m) = [i \in 1..m |-> u[n + i]]
    BY <1>1, <1>2, <1>3
  <2>. QED BY <1>1, <1>5, <2>1
<1>8. /\ u \in Seq(S) /\ Len(u) = n + m
      /\ \A i \in 1..m : u[n + i] = t[i]
      /\ SubSeq(u, 1, n) = s /\ SubSeq(u, n + 1, n + m) = t
  BY <1>2, <1>3, <1>5, <1>6, <1>7
<1>. QED BY <1>8 DEF u, n, m

\* Two vectors in one sequence.
LEMMA TwoVectors ==
    ASSUME NEW v \in VectorSet, NEW w \in VectorSet
    PROVE  SubSeq(v \o w, 1, 3) = v /\ SubSeq(v \o w, 4, 6) = w
<1>1. 3 + 1 = 4 /\ 3 + 3 = 6
  OBVIOUS
<1>2. v \in Seq(Nat) /\ w \in Seq(Nat)
  BY 3 \in Nat, TupleIsSeq DEF VectorSet
<1>4. Len(v) = 3 /\ Len(w) = 3
  BY 3 \in Nat, TupleIsSeq DEF VectorSet
<1>3. SubSeq(v \o w, 1, Len(v)) = v /\ SubSeq(v \o w, Len(v) + 1, Len(v) + Len(w)) = w
  BY <1>2, Halves
<1>. QED BY Zenon, <1>1, <1>3, <1>4

\* A rotation written row by row.
LEMMA RowByRow ==
    ASSUME NEW v \in RotationSet, NEW k \in 1..9
    PROVE  At(v, (k - 1) \div 3, (k - 1) % 3) = v[k]
<1>1. 3 * ((k - 1) \div 3) + ((k - 1) % 3) + 1 = k
  OBVIOUS
<1>. QED BY <1>1 DEF At

\* A Jacobian in the storage of Eigen, column by column.
LEMMA StorageBack ==
    ASSUME NEW n \in Nat, NEW m \in JacobianSet(n)
    PROVE  /\ Storage(m) \in [1..6 * n -> Nat]
           /\ \A i \in 1..6, j \in 1..n :
                 /\ 6 * (j - 1) + i \in 1..6 * n
                 /\ Storage(m)[6 * (j - 1) + i] = m[<<i, j>>]
<1>1. Storage(m) = [k \in 1..6 * n |-> m[<<1 + ((k - 1) % 6), (k - 1) \div 6 + 1>>]]
  BY ColumnsOf DEF Storage
<1>2. \A k \in 1..6 * n : 1 + ((k - 1) % 6) \in 1..6 /\ (k - 1) \div 6 + 1 \in 1..n
  OBVIOUS
<1>3. Storage(m) \in [1..6 * n -> Nat]
  BY <1>1, <1>2 DEF JacobianSet
<1>4. ASSUME NEW i \in 1..6, NEW j \in 1..n
      PROVE  /\ 6 * (j - 1) + i \in 1..6 * n
             /\ Storage(m)[6 * (j - 1) + i] = m[<<i, j>>]
  <2>. DEFINE k == 6 * (j - 1) + i
  <2>1. k \in 1..6 * n /\ 1 + ((k - 1) % 6) = i /\ (k - 1) \div 6 + 1 = j
    OBVIOUS
  <2>. QED BY <1>1, <2>1
<1>. QED BY <1>3, <1>4

\* A matrix behind its size.
LEMMA SizedMatrix ==
    ASSUME NEW rows \in Nat, NEW cols \in Nat, NEW s \in Seq(Nat)
    PROVE  /\ SaveMatrix(rows, cols, s)[1] = rows
           /\ SaveMatrix(rows, cols, s)[2] = cols
           /\ \A k \in 1..Len(s) : SaveMatrix(rows, cols, s)[2 + k] = s[k]
           /\ SubSeq(SaveMatrix(rows, cols, s), 3, Len(SaveMatrix(rows, cols, s))) = s
<1>. DEFINE h == <<rows, cols>>
            ar == h \o s
            n == Len(s)
<1>1. h \in Seq(Nat) /\ n \in Nat
  OBVIOUS
<1>2. Len(h) = 2 /\ h[1] = rows /\ h[2] = cols
  OBVIOUS
<1>. HIDE DEF h
<1>3. /\ ar \in Seq(Nat) /\ Len(ar) = Len(h) + Len(s)
      /\ \A i \in 1..Len(s) : ar[Len(h) + i] = s[i]
      /\ SubSeq(ar, 1, Len(h)) = h /\ SubSeq(ar, Len(h) + 1, Len(h) + Len(s)) = s
  BY <1>1, Halves
<1>. HIDE DEF ar, n
<1>4. /\ ar \in Seq(Nat) /\ Len(ar) = 2 + n
      /\ \A i \in 1..n : ar[2 + i] = s[i]
      /\ SubSeq(ar, 1, 2) = h /\ SubSeq(ar, 3, 2 + n) = s
  BY <1>1, <1>2, <1>3 DEF n
<1>5. SubSeq(ar, 1, 2) = [i \in 1..2 |-> ar[i]]
  BY <1>1, <1>4
<1>6. ar[1] = h[1] /\ ar[2] = h[2]
  BY <1>4, <1>5
<1>7. SubSeq(ar, 3, Len(ar)) = s
  BY <1>4
<1>8. ar[1] = rows /\ ar[2] = cols
  BY <1>2, <1>6
<1>9. \A k \in 1..Len(s) : ar[2 + k] = s[k]
  BY <1>4 DEF n
<1>. QED BY <1>7, <1>8, <1>9 DEF ar, h, SaveMatrix

\* Its rows, columns, data and entries.
LEMMA SavedRows ==
    ASSUME NEW rows \in Nat, NEW cols \in Nat, NEW s \in Seq(Nat)
    PROVE  SaveMatrix(rows, cols, s)[1] = rows
BY SizedMatrix

LEMMA SavedCols ==
    ASSUME NEW rows \in Nat, NEW cols \in Nat, NEW s \in Seq(Nat)
    PROVE  SaveMatrix(rows, cols, s)[2] = cols
BY SizedMatrix

LEMMA SavedData ==
    ASSUME NEW rows \in Nat, NEW cols \in Nat, NEW s \in Seq(Nat)
    PROVE  SubSeq(SaveMatrix(rows, cols, s), 3, Len(SaveMatrix(rows, cols, s))) = s
BY SizedMatrix

\* The types that have a CORBA sequence and an archive.
Sent == Fixed \cup {"JntArray", "Jacobian"}

\* A value comes back from its CORBA sequence.
LEMMA CorbaBack ==
    ASSUME NEW t \in Sent, NEW v, Shape(t, v)
    PROVE  FromCorba(t, Corba(t, v)) = v
<1>1. CASE t = "Vector"
  <2>1. v \in VectorSet
    BY <1>1 DEF Shape
  <2>2. VectorToStd(VectorToAny(v)) = v
    BY <2>1 DEF VectorToStd, VectorToAny, VectorSet
  <2>. QED BY <1>1, <2>2 DEF Corba, FromCorba
<1>2. CASE t = "Rotation"
  <2>1. v \in RotationSet
    BY <1>2 DEF Shape
  <2>2. RotationToAny(v) = v
    BY <2>1, RowByRow DEF RotationToAny, RotationSet
  <2>3. SubSeq(v, 1, 9) = v
    BY <2>1 DEF RotationSet
  <2>. QED BY <1>2, <2>2, <2>3 DEF Corba, FromCorba, RotationToStd
<1>3. CASE t = "Frame"
  <2>1. v \in FrameSet
    BY <1>3 DEF Shape
  <2>. DEFINE cb == FrameToAny(v)
  <2>2. v.p \in VectorSet /\ v.M \in RotationSet /\ v = [p |-> v.p, M |-> v.M]
    BY <2>1 DEF FrameSet
  <2>3. \A k \in 1..3 : cb[k] = v.p[k]
    BY DEF FrameToAny
  <2>4. ASSUME NEW k \in 1..9 PROVE cb[3 + k] = v.M[k]
    <3>1. 3 + k \in 1..12 /\ ~(3 + k <= 3) /\ (3 + k) - 4 = k - 1
      OBVIOUS
    <3>2. cb[3 + k] = At(v.M, (k - 1) \div 3, (k - 1) % 3)
      BY <3>1 DEF FrameToAny
    <3>. QED BY <2>2, <3>2, RowByRow
  <2>. HIDE DEF cb
  <2>5. [k \in 1..3 |-> cb[k]] = v.p /\ [k \in 1..9 |-> cb[3 + k]] = v.M
    BY <2>2, <2>3, <2>4 DEF VectorSet, RotationSet
  <2>6. FrameToStd(cb) = v
    BY <2>2, <2>5 DEF FrameToStd
  <2>. QED BY <1>3, <2>6 DEF Corba, FromCorba, cb
<1>4. CASE t = "Wrench"
  <2>1. v.force \in VectorSet /\ v.torque \in VectorSet
        /\ v = [force |-> v.force, torque |-> v.torque]
    BY <1>4 DEF Shape, WrenchSet
  <2>2. /\ SubSeq(v.force \o v.torque, 1, 3) = v.force
        /\ SubSeq(v.force \o v.torque, 4, 6) = v.torque
    BY Zenon, <2>1, TwoVectors
  <2>. QED BY <1>4, <2>1, <2>2 DEF Corba, FromCorba, WrenchToStd, WrenchToAny
<1>5. CASE t = "Twist"
  <2>1. v.vel \in VectorSet /\ v.rot \in VectorSet
        /\ v = [vel |-> v.vel, rot |-> v.rot]
    BY <1>5 DEF Shape, TwistSet
  <2>2. /\ SubSeq(v.vel \o v.rot, 1, 3) = v.vel
        /\ SubSeq(v.vel \o v.rot, 4, 6) = v.rot
    BY Zenon, <2>1, TwoVectors
  <2>. QED BY <1>5, <2>1, <2>2 DEF Corba, FromCorba, TwistToStd, TwistToAny
<1>6. CASE t = "Jacobian"
  <2>1. PICK n \in Nat : v \in JacobianSet(n)
    BY <1>6 DEF Shape
  <2>. DEFINE s == Storage(v)
              cb == SaveMatrix(6, n, s)
  <2>2. /\ s \in [1..6 * n -> Nat] /\ 6 * n \in Nat
        /\ \A i \in 1..6, j \in 1..n : s[6 * (j - 1) + i] = v[<<i, j>>]
    BY <2>1, StorageBack
  <2>3. JacobianToAny(v) = cb
    BY <2>1, ColumnsOf DEF JacobianToAny, SaveMatrix
  <2>. HIDE DEF s
  <2>4. cb[1] = 6 /\ cb[2] = n /\ SubSeq(cb, 3, Len(cb)) = s
    <3>. DEFINE six == 6
    <3>1. six \in Nat
      OBVIOUS
    <3>2. s \in Seq(Nat)
      BY <2>2, TupleIsSeq
    <3>3. cb = SaveMatrix(six, n, s)
      OBVIOUS
    <3>. HIDE DEF six, cb
    <3>4. cb[1] = six
      BY Zenon, <2>1, <3>1, <3>2, <3>3, SavedRows
    <3>6. cb[2] = n
      BY Zenon, <2>1, <3>1, <3>2, <3>3, SavedCols
    <3>5. SubSeq(cb, 3, Len(cb)) = s
      BY Zenon, <2>1, <3>1, <3>2, <3>3, SavedData
    <3>. QED BY <3>4, <3>5, <3>6 DEF six
  <2>. HIDE DEF cb
  <2>5. Matrix(s, 6, n) = v
    <3>1. ASSUME NEW ij \in (1..6) \X (1..n)
          PROVE  s[6 * (ij[2] - 1) + ij[1]] = v[ij]
      <4>1. ij[1] \in 1..6 /\ ij[2] \in 1..n /\ ij = <<ij[1], ij[2]>>
        OBVIOUS
      <4>. QED BY <2>2, <4>1
    <3>. QED BY <2>1, <3>1 DEF Matrix, JacobianSet
  <2>6. JacobianToStd(cb) = v
    BY <2>4, <2>5 DEF JacobianToStd
  <2>. QED BY <1>6, <2>3, <2>6 DEF Corba, FromCorba
<1>7. CASE t = "JntArray"
  BY <1>7 DEF Corba, FromCorba, JntArrayToAny, JntArrayToStd
<1>. QED BY <1>1, <1>2, <1>3, <1>4, <1>5, <1>6, <1>7, KdlTypesAre DEF Sent, Fixed

\* A vector and a rotation in one sequence.
LEMMA VectorAndRotation ==
    ASSUME NEW v \in VectorSet, NEW w \in RotationSet
    PROVE  SubSeq(v \o w, 1, 3) = v /\ SubSeq(v \o w, 4, 12) = w
<1>1. 3 + 1 = 4 /\ 3 + 9 = 12
  OBVIOUS
<1>2. v \in Seq(Int) /\ w \in Seq(Int)
  <2>1. v \in [1..3 -> Int] /\ w \in [1..9 -> Int]
    BY DEF VectorSet, RotationSet
  <2>. QED BY <2>1, 3 \in Nat, 9 \in Nat, TupleIsSeq
<1>3. SubSeq(v \o w, 1, Len(v)) = v /\ SubSeq(v \o w, Len(v) + 1, Len(v) + Len(w)) = w
  BY <1>2, Halves
<1>4. Len(v) = 3 /\ Len(w) = 9
  BY 3 \in Nat, 9 \in Nat, TupleIsSeq DEF VectorSet, RotationSet
<1>. QED BY Zenon, <1>1, <1>3, <1>4

LEMMA SavedEntry ==
    ASSUME NEW rows \in Nat, NEW cols \in Nat, NEW s \in Seq(Nat), NEW k \in 1..Len(s)
    PROVE  SaveMatrix(rows, cols, s)[2 + k] = s[k]
<1>1. \A i \in 1..Len(s) : SaveMatrix(rows, cols, s)[2 + i] = s[i]
  BY SizedMatrix
<1>. QED BY <1>1

\* What a matrix is loaded from behind its size.
LEMMA LoadSaved ==
    ASSUME NEW rows \in Nat, NEW cols \in Nat, NEW s \in Seq(Nat)
    PROVE  /\ SaveMatrix(rows, cols, s)[1] = rows
           /\ LoadMatrix(SaveMatrix(rows, cols, s))
                = [ij \in (1..rows) \X (1..cols) |->
                     SaveMatrix(rows, cols, s)[2 + (rows * (ij[2] - 1) + ij[1])]]
<1>. DEFINE ar == SaveMatrix(rows, cols, s)
<1>1. ar[1] = rows
  BY SavedRows
<1>2. ar[2] = cols
  BY SavedCols
<1>. HIDE DEF ar
<1>3. ASSUME NEW ij \in (1..rows) \X (1..cols)
      PROVE  2 + rows * (ij[2] - 1) + ij[1] = 2 + (rows * (ij[2] - 1) + ij[1])
  <2>1. ij[1] \in Nat /\ ij[2] - 1 \in Nat
    OBVIOUS
  <2>2. rows * (ij[2] - 1) \in Nat
    BY <2>1
  <2>. QED BY <2>1, <2>2
<1>4. LoadMatrix(ar) = [ij \in (1..rows) \X (1..cols) |-> ar[2 + rows * (ij[2] - 1) + ij[1]]]
  BY <1>1, <1>2 DEF LoadMatrix
<1>5. LoadMatrix(ar) = [ij \in (1..rows) \X (1..cols) |-> ar[2 + (rows * (ij[2] - 1) + ij[1])]]
  BY <1>3, <1>4
<1>. QED BY <1>1, <1>5 DEF ar

\* A value comes back from its archive, for which a twist has its rotation first.
LEMMA ArchiveBack ==
    ASSUME NEW t \in Sent, NEW v, Shape(t, v)
    PROVE  FromArchive(t, Archive(t, v)) = v
<1>1. CASE t \in {"Vector", "Rotation"}
  BY <1>1 DEF Archive, FromArchive
<1>2. CASE t = "Twist"
  <2>1. v.vel \in VectorSet /\ v.rot \in VectorSet /\ v = [vel |-> v.vel, rot |-> v.rot]
    BY <1>2 DEF Shape, TwistSet
  <2>2. SubSeq(v.rot \o v.vel, 1, 3) = v.rot /\ SubSeq(v.rot \o v.vel, 4, 6) = v.vel
    BY Zenon, <2>1, TwoVectors
  <2>3. [rot |-> v.rot, vel |-> v.vel] = [vel |-> v.vel, rot |-> v.rot]
    OBVIOUS
  <2>. QED BY <1>2, <2>1, <2>2, <2>3 DEF Archive, FromArchive
<1>3. CASE t = "Wrench"
  <2>1. /\ v.force \in VectorSet /\ v.torque \in VectorSet
        /\ v = [force |-> v.force, torque |-> v.torque]
    BY <1>3 DEF Shape, WrenchSet
  <2>2. /\ SubSeq(v.force \o v.torque, 1, 3) = v.force
        /\ SubSeq(v.force \o v.torque, 4, 6) = v.torque
    BY Zenon, <2>1, TwoVectors
  <2>. QED BY <1>3, <2>1, <2>2 DEF Archive, FromArchive
<1>4. CASE t = "Frame"
  <2>1. v.p \in VectorSet /\ v.M \in RotationSet /\ v = [p |-> v.p, M |-> v.M]
    BY <1>4 DEF Shape, FrameSet
  <2>2. SubSeq(v.p \o v.M, 1, 3) = v.p /\ SubSeq(v.p \o v.M, 4, 12) = v.M
    BY Zenon, <2>1, VectorAndRotation
  <2>. QED BY <1>4, <2>1, <2>2 DEF Archive, FromArchive
<1>5. CASE t = "Jacobian"
  <2>1. PICK n \in Nat : v \in JacobianSet(n)
    BY <1>5 DEF Shape
  <2>. DEFINE s == Storage(v)
              six == 6
              ar == SaveMatrix(six, n, s)
  <2>2. /\ s \in [1..6 * n -> Nat] /\ 6 * n \in Nat
        /\ \A i \in 1..6, j \in 1..n : /\ 6 * (j - 1) + i \in 1..6 * n
                                       /\ s[6 * (j - 1) + i] = v[<<i, j>>]
    BY <2>1, StorageBack
  <2>3. Archive(t, v) = ar
    BY <1>5, <2>1, ColumnsOf DEF Archive
  <2>4. six \in Nat
    OBVIOUS
  <2>. HIDE DEF s, six
  <2>5. s \in Seq(Nat) /\ Len(s) = 6 * n
    BY <2>2, TupleIsSeq
  <2>6. \A k \in 1..Len(s) : ar[2 + k] = s[k]
    <3>. SUFFICES ASSUME NEW k \in 1..Len(s) PROVE ar[2 + k] = s[k]
      OBVIOUS
    <3>. QED BY Zenon, <2>1, <2>4, <2>5, SavedEntry
  <2>7. LoadMatrix(ar) = [ij \in (1..six) \X (1..n) |-> ar[2 + (six * (ij[2] - 1) + ij[1])]]
    BY Zenon, <2>1, <2>4, <2>5, LoadSaved
  <2>. HIDE DEF ar
  <2>8. ASSUME NEW ij \in (1..6) \X (1..n)
        PROVE  ar[2 + (6 * (ij[2] - 1) + ij[1])] = v[ij]
    <3>1. ij[1] \in 1..6 /\ ij[2] \in 1..n /\ ij = <<ij[1], ij[2]>>
      OBVIOUS
    <3>. DEFINE k == 6 * (ij[2] - 1) + ij[1]
    <3>2. k \in 1..6 * n /\ s[k] = v[<<ij[1], ij[2]>>]
      BY <2>2, <3>1
    <3>. HIDE DEF k
    <3>3. ar[2 + k] = s[k]
      BY <2>5, <2>6, <3>2
    <3>. QED BY <3>1, <3>2, <3>3 DEF k
  <2>9. LoadMatrix(ar) = v
    BY <2>1, <2>7, <2>8 DEF JacobianSet, six
  <2>. QED BY <1>5, <2>3, <2>9 DEF FromArchive
<1>6. CASE t = "JntArray"
  <2>1. v \in Seq(Nat)
    BY <1>6 DEF Shape
  <2>. DEFINE n == Len(v)
              one == 1
              ar == SaveMatrix(n, one, v)
  <2>2. n \in Nat /\ one \in Nat /\ v = [i \in 1..n |-> v[i]]
    BY <2>1
  <2>3. Archive(t, v) = ar
    BY <1>6 DEF Archive
  <2>. HIDE DEF one, n
  <2>4. \A k \in 1..Len(v) : ar[2 + k] = v[k]
    <3>. SUFFICES ASSUME NEW k \in 1..Len(v) PROVE ar[2 + k] = v[k]
      OBVIOUS
    <3>. QED BY Zenon, <2>1, <2>2, SavedEntry
  <2>5. ar[1] = n
    BY Zenon, <2>1, <2>2, LoadSaved
  <2>6. LoadMatrix(ar) = [ij \in (1..n) \X (1..one) |-> ar[2 + (n * (ij[2] - 1) + ij[1])]]
    BY Zenon, <2>1, <2>2, LoadSaved
  <2>. HIDE DEF ar
  <2>7. ASSUME NEW i \in 1..n PROVE LoadMatrix(ar)[<<i, 1>>] = v[i]
    <3>1. <<i, 1>> \in (1..n) \X (1..one) /\ n * (1 - 1) + i = i
      BY <2>2 DEF one
    <3>2. LoadMatrix(ar)[<<i, 1>>] = ar[2 + i]
      BY <2>6, <3>1
    <3>. QED BY <2>4, <3>2 DEF n
  <2>8. [i \in 1..ar[1] |-> LoadMatrix(ar)[<<i, 1>>]] = v
    BY <2>2, <2>5, <2>7
  <2>. QED BY <1>6, <2>3, <2>8 DEF FromArchive
<1>. QED BY <1>1, <1>2, <1>3, <1>4, <1>5, <1>6, KdlTypesAre DEF Sent, Fixed

\* A value comes back from its ROS message.
LEMMA MsgBack ==
    ASSUME NEW t \in Fixed, NEW v, Shape(t, v)
    PROVE  FromMsg(t, Msg(t, v)) = v
<1>1. ASSUME NEW w \in VectorSet PROVE FromVectorMsg(VectorMsg(w)) = w
  BY DEF VectorSet, FromVectorMsg, VectorMsg
<1>2. ASSUME NEW w \in RotationSet PROVE FromRotationMsg(RotationMsg(w)) = w
  BY DEF RotationSet, FromRotationMsg, RotationMsg
<1>3. CASE t = "Vector"
  BY <1>1, <1>3 DEF Shape, Msg, FromMsg
<1>4. CASE t = "Rotation"
  BY <1>2, <1>4 DEF Shape, Msg, FromMsg
<1>5. CASE t = "Frame"
  <2>1. v.p \in VectorSet /\ v.M \in RotationSet /\ v = [p |-> v.p, M |-> v.M]
    BY <1>5 DEF Shape, FrameSet
  <2>2. FromFrameMsg(FrameMsg(v)) = [p |-> FromVectorMsg(VectorMsg(v.p)),
                                     M |-> FromRotationMsg(RotationMsg(v.M))]
    BY DEF FromFrameMsg, FrameMsg
  <2>. QED BY <1>1, <1>2, <1>5, <2>1, <2>2 DEF Msg, FromMsg
<1>6. CASE t = "Twist"
  <2>1. v.vel \in VectorSet /\ v.rot \in VectorSet /\ v = [vel |-> v.vel, rot |-> v.rot]
    BY <1>6 DEF Shape, TwistSet
  <2>2. FromTwistMsg(TwistMsg(v)) = [vel |-> FromVectorMsg(VectorMsg(v.vel)),
                                     rot |-> FromVectorMsg(VectorMsg(v.rot))]
    BY DEF FromTwistMsg, TwistMsg
  <2>. QED BY <1>1, <1>6, <2>1, <2>2 DEF Msg, FromMsg
<1>7. CASE t = "Wrench"
  <2>1. /\ v.force \in VectorSet /\ v.torque \in VectorSet
        /\ v = [force |-> v.force, torque |-> v.torque]
    BY <1>7 DEF Shape, WrenchSet
  <2>2. FromWrenchMsg(WrenchMsg(v)) = [force |-> FromVectorMsg(VectorMsg(v.force)),
                                       torque |-> FromVectorMsg(VectorMsg(v.torque))]
    BY DEF FromWrenchMsg, WrenchMsg
  <2>. QED BY <1>1, <1>7, <2>1, <2>2 DEF Msg, FromMsg
<1>. QED BY <1>3, <1>4, <1>5, <1>6, <1>7, KdlTypesAre DEF Fixed

\* A value comes back from its bag, up to Restored.
LEMMA BagBack ==
    ASSUME NEW t \in KdlTypes, NEW v, Shape(t, v), NEW old
    PROVE  composeProperty(t, decomposeProperty(t, v), old) = Done(Restored(t, v))
<1>1. CASE t = "Vector"
  BY <1>1, VectorBack DEF Shape, composeProperty, decomposeProperty, Restored
<1>2. CASE t = "Rotation"
  BY <1>2, RotationBack DEF Shape, composeProperty, decomposeProperty, Restored
<1>3. CASE t = "Frame"
  BY <1>3, FrameBack DEF Shape, composeProperty, decomposeProperty, Restored
<1>4. CASE t = "Twist"
  BY <1>4, TwistBack DEF Shape, composeProperty, decomposeProperty, Restored
<1>5. CASE t = "Wrench"
  BY <1>5, WrenchBack DEF Shape, composeProperty, decomposeProperty, Restored
<1>6. CASE t = "JntArray"
  BY <1>6, JntArrayBack DEF Shape, composeProperty, decomposeProperty, Restored
<1>7. CASE t = "Jacobian"
  BY <1>7, JacobianBack DEF Shape, composeProperty, decomposeProperty, Restored
<1>8. CASE t = "Segment"
  <2>1. v \in SegmentSet
    BY <1>8 DEF Shape
  <2>. DEFINE items == SegmentItems(v)
  <2>2. DecomposeSegment(v, <<>>) = PropertyBag("KDL.Segment", items)
    BY DEF DecomposeSegment, SegmentItems
  <2>3. DOMAIN items = 1..2 /\ 2 \in Nat /\ 2 >= 2
    BY DEF SegmentItems
  <2>. HIDE DEF items
  <2>4. ComposeSegment(PropertyBag("KDL.Segment", items), old) = Done(KnownSegment(v))
    BY <2>1, <2>3, SegmentBack DEF items
  <2>. QED BY <1>8, <2>2, <2>4 DEF composeProperty, decomposeProperty, Restored, KnownSegment
<1>9. CASE t = "Chain"
  BY <1>9, ChainBack DEF Shape, composeProperty, decomposeProperty, Restored, KnownSegment
<1>. QED BY <1>1, <1>2, <1>3, <1>4, <1>5, <1>6, <1>7, <1>8, <1>9, KdlTypesAre

-----------------------------------------------------------------------------
(* KDL: the variable.                                                      *)

\* What is out of the variable is the encoding of a value of its type, and
\* until then so is the variable.
CarrierOK ==
    \/ carrier = NoCarrier /\ Shape(type, val)
    \/ /\ Shape(type, carrier.of)
       /\ \/ /\ carrier.kind = "bag"
             /\ DOMAIN carrier = {"kind", "of", "edited", "data"}
             /\ ~carrier.edited => carrier.data = decomposeProperty(type, carrier.of)
          \/ carrier.kind = "corba" /\ type \in Sent /\ carrier.data = Corba(type, carrier.of)
          \/ carrier.kind = "mqueue" /\ type \in Sent /\ carrier.data = Archive(type, carrier.of)
          \/ carrier.kind = "msg" /\ type \in Fixed /\ carrier.data = Msg(type, carrier.of)

\* Values that are made anew have the shape of their type.
LEMMA FreshShapes ==
    ASSUME NEW k \in Nat
    PROVE  /\ Vectors(k) \in VectorSet /\ Poses \subseteq RotationSet
           /\ Frames(k) \subseteq FrameSet
           /\ \A n \in Nat : Jacobians(k, n) \in JacobianSet(n)
           /\ \A j \in JointTypes : Segments(k, j) \subseteq SegmentSet
<1>1. Vectors(k) \in VectorSet /\ Poses \subseteq RotationSet
  BY RotationAssumption DEF Vectors, VectorSet, RotationSet
<1>2. Frames(k) \subseteq FrameSet
  BY <1>1 DEF Frames, FrameSet
<1>3. ASSUME NEW n \in Nat PROVE Jacobians(k, n) \in JacobianSet(n)
  <2>1. ASSUME NEW ij \in (1..6) \X (1..n) PROVE k + 6 * (ij[2] - 1) + ij[1] \in Nat
    <3>1. ij[1] \in 1..6 /\ ij[2] \in 1..n
      OBVIOUS
    <3>. QED BY <3>1
  <2>. QED BY <2>1 DEF Jacobians, JacobianSet
<1>4. \A j \in JointTypes : Segments(k, j) \subseteq SegmentSet
  BY <1>2 DEF Segments, SegmentSet
<1>. QED BY <1>1, <1>2, <1>3, <1>4

\* So has what the variable starts with.
LEMMA StartShape ==
    ASSUME NEW t \in KdlTypes, NEW v \in Values(t)
    PROVE  Shape(t, v)
<1>1. CASE t = "Vector"
  BY <1>1, FreshShapes, 0 \in Nat DEF Values, Shape
<1>2. CASE t = "Rotation"
  BY <1>2, FreshShapes, 0 \in Nat DEF Values, Shape
<1>3. CASE t = "Frame"
  BY <1>3, FreshShapes, 0 \in Nat DEF Values, Shape
<1>4. CASE t = "Twist"
  BY <1>4, FreshShapes, 0 \in Nat, 3 \in Nat DEF Values, Shape, TwistSet
<1>5. CASE t = "Wrench"
  BY <1>5, FreshShapes, 0 \in Nat, 3 \in Nat DEF Values, Shape, WrenchSet
<1>6. CASE t = "JntArray"
  <2>1. PICK n \in 0..MaxJoints : v = [i \in 1..n |-> i]
    BY <1>6 DEF Values
  <2>2. n \in Nat /\ v \in [1..n -> Nat]
    BY <2>1, KdlAssumption
  <2>3. v \in Seq(Nat)
    BY <2>2, TupleIsSeq
  <2>. QED BY <1>6, <2>3 DEF Shape
<1>7. CASE t = "Jacobian"
  <2>1. PICK n \in 0..MaxJoints : v = Jacobians(0, n)
    BY <1>7 DEF Values
  <2>2. n \in Nat
    BY KdlAssumption
  <2>3. v \in JacobianSet(n)
    BY <2>1, <2>2, FreshShapes, 0 \in Nat
  <2>. QED BY <1>7, <2>2, <2>3 DEF Shape
<1>8. CASE t = "Segment"
  <2>1. PICK j \in JointTypes : v \in Segments(0, j)
    BY <1>8 DEF Values
  <2>2. v \in SegmentSet
    BY <2>1, FreshShapes, 0 \in Nat
  <2>. QED BY <1>8, <2>2 DEF Shape
<1>9. CASE t = "Chain"
  <2>0. PICK joints \in Chains : \E r \in [DOMAIN joints -> Poses] :
           v = [i \in DOMAIN joints |->
                  [joint |-> joints[i], frame |-> [p |-> Vectors(3 * (i - 1)), M |-> r[i]]]]
    BY <1>9 DEF Values
  <2>1. PICK r \in [DOMAIN joints -> Poses] :
           v = [i \in DOMAIN joints |->
                  [joint |-> joints[i], frame |-> [p |-> Vectors(3 * (i - 1)), M |-> r[i]]]]
    BY <2>0
  <2>2. joints \in Seq(JointTypes)
    BY KdlAssumption
  <2>3. ASSUME NEW i \in DOMAIN joints PROVE v[i] \in SegmentSet
    <3>. DEFINE k == 3 * (i - 1)
    <3>1. k \in Nat /\ joints[i] \in JointTypes /\ r[i] \in Poses
      BY <2>2
    <3>2. v[i] = [joint |-> joints[i], frame |-> [p |-> Vectors(k), M |-> r[i]]]
      BY <2>1
    <3>. HIDE DEF k
    <3>3. Vectors(k) \in VectorSet /\ r[i] \in RotationSet
      BY <3>1, FreshShapes
    <3>. QED BY <3>1, <3>2, <3>3 DEF SegmentSet, FrameSet
  <2>4. Len(joints) \in Nat /\ DOMAIN joints = 1..Len(joints)
    BY <2>2
  <2>5. v \in [1..Len(joints) -> SegmentSet]
    BY <2>1, <2>3, <2>4
  <2>6. v \in Seq(SegmentSet)
    BY <2>4, <2>5, TupleIsSeq
  <2>. QED BY <1>9, <2>6 DEF Shape
<1>. QED BY <1>1, <1>2, <1>3, <1>4, <1>5, <1>6, <1>7, <1>8, <1>9, KdlTypesAre

\* Writes from a script keep the shape.
LEMMA WrittenVector ==
    ASSUME NEW v \in VectorSet, NEW i \in 1..3
    PROVE  [v EXCEPT ![i] = 0] \in VectorSet
BY DEF VectorSet

LEMMA MemberShape ==
    ASSUME TypeIsKdl, Shape(type, val), WriteMember
    PROVE  Shape(type', val')
<1>1. type' = type
  BY DEF WriteMember, Step
<1>. DEFINE places == 1..3
<1>2. /\ \A n \in DOMAIN VectorMembers : VectorMembers[n] + 1 \in 1..3
      /\ \A n \in DOMAIN RotationMembers : RotationMembers[n] + 1 \in 1..9
  BY DEF VectorMembers, RotationMembers
<1>3. CASE type = "Vector"
  <2>1. PICK n \in DOMAIN VectorMembers : val' = [val EXCEPT ![VectorMembers[n] + 1] = 0]
    BY <1>3, KdlTypesAre DEF WriteMember
  <2>2. val' \in VectorSet
    BY <1>2, <1>3, <2>1, WrittenVector DEF Shape
  <2>. QED BY <1>1, <1>3, <2>2 DEF Shape
<1>4. CASE type = "Rotation"
  <2>1. PICK n \in DOMAIN RotationMembers : val' = [val EXCEPT ![RotationMembers[n] + 1] = 0]
    BY <1>4, KdlTypesAre DEF WriteMember
  <2>2. val' \in RotationSet
    BY <1>2, <1>4, <2>1 DEF Shape, RotationSet
  <2>. QED BY <1>1, <1>4, <2>2 DEF Shape
<1>5. ASSUME type \in Composite
      PROVE  \E part \in DOMAIN PartMembers[type] : \E n \in DOMAIN PartMembers[type][part] :
                val' = [val EXCEPT ![part][PartMembers[type][part][n] + 1] = 0]
  BY <1>5, KdlTypesAre DEF WriteMember
<1>6. CASE type = "Twist"
  <2>1. /\ DOMAIN PartMembers[type] = {"vel", "rot"}
        /\ \A part \in {"vel", "rot"} : PartMembers[type][part] = VectorMembers
    BY <1>6 DEF PartMembers, TwistMembers
  <2>2. PICK part \in {"vel", "rot"} : \E n \in DOMAIN VectorMembers :
                val' = [val EXCEPT ![part][VectorMembers[n] + 1] = 0]
    BY <1>5, <1>6, <2>1, KdlTypesAre
  <2>3. PICK i \in 1..3 : val' = [val EXCEPT ![part][i] = 0]
    BY <1>2, <2>2
  <2>4. val' \in TwistSet
    BY <1>6, <2>3, WrittenVector DEF Shape, TwistSet
  <2>. QED BY <1>1, <1>6, <2>4 DEF Shape
<1>7. CASE type = "Wrench"
  <2>1. /\ DOMAIN PartMembers[type] = {"force", "torque"}
        /\ \A part \in {"force", "torque"} : PartMembers[type][part] = VectorMembers
    BY <1>7 DEF PartMembers, WrenchMembers
  <2>2. PICK part \in {"force", "torque"} : \E n \in DOMAIN VectorMembers :
                val' = [val EXCEPT ![part][VectorMembers[n] + 1] = 0]
    BY <1>5, <1>7, <2>1, KdlTypesAre
  <2>3. PICK i \in 1..3 : val' = [val EXCEPT ![part][i] = 0]
    BY <1>2, <2>2
  <2>4. val' \in WrenchSet
    BY <1>7, <2>3, WrittenVector DEF Shape, WrenchSet
  <2>. QED BY <1>1, <1>7, <2>4 DEF Shape
<1>8. CASE type = "Frame"
  <2>1. /\ DOMAIN PartMembers[type] = {"p", "M"}
        /\ PartMembers[type]["p"] = VectorMembers /\ PartMembers[type]["M"] = RotationMembers
    BY <1>8 DEF PartMembers, FrameMembers
  <2>2. \/ \E n \in DOMAIN VectorMembers : val' = [val EXCEPT !["p"][VectorMembers[n] + 1] = 0]
        \/ \E n \in DOMAIN RotationMembers :
              val' = [val EXCEPT !["M"][RotationMembers[n] + 1] = 0]
    BY <1>5, <1>8, <2>1, KdlTypesAre
  <2>3. \/ \E i \in 1..3 : val' = [val EXCEPT !["p"][i] = 0]
        \/ \E i \in 1..9 : val' = [val EXCEPT !["M"][i] = 0]
    BY <1>2, <2>2
  <2>4. val' \in FrameSet
    BY <1>8, <2>3 DEF Shape, FrameSet, VectorSet, RotationSet
  <2>. QED BY <1>1, <1>8, <2>4 DEF Shape
<1>9. type \in {"Vector", "Rotation"} \cup Composite
  BY DEF WriteMember
<1>. QED BY <1>3, <1>4, <1>6, <1>7, <1>8, <1>9, KdlTypesAre

LEMMA IndexShape ==
    ASSUME TypeIsKdl, Shape(type, val), WriteIndex
    PROVE  Shape(type', val')
<1>1. type' = type
  BY DEF WriteIndex, Step
<1>2. PICK index \in 0..6 :
         \/ type \in {"Vector", "Twist", "Wrench"} /\ val' = SetIndexed(type, val, index, 0)
         \/ type = "JntArray" /\ val' = SetItem(val, index, 0)
  BY DEF WriteIndex
<1>3. CASE type = "Vector"
  <2>1. val' = IF index >= 3 THEN val ELSE [val EXCEPT ![index + 1] = 0]
    <3>1. Size(type) = 3
      BY <1>3 DEF Size
    <3>2. val' = SetIndexed(type, val, index, 0)
      BY <1>2, <1>3
    <3>. QED BY <1>3, <3>1, <3>2 DEF SetIndexed
  <2>2. val' \in VectorSet
    <3>1. val \in VectorSet /\ (~(index >= 3) => index + 1 \in 1..3)
      BY <1>3 DEF Shape
    <3>. QED BY <2>1, <3>1, WrittenVector
  <2>. QED BY <1>1, <1>3, <2>2 DEF Shape
<1>. DEFINE i == 1 + (index % 3)
            at == index \div 3 + 1
<1>4. i \in 1..3 /\ (~(index >= 6) => at = 1 \/ at = 2)
  OBVIOUS
<1>5. CASE type = "Twist"
  <2>1. val' = IF index >= 6 THEN val ELSE [val EXCEPT ![Parts[type][at]][i] = 0]
    <3>1. Size(type) = 6
      BY <1>5 DEF Size
    <3>2. val' = SetIndexed(type, val, index, 0)
      BY <1>2, <1>5
    <3>. QED BY <1>5, <3>1, <3>2 DEF SetIndexed
  <2>. HIDE DEF i, at
  <2>2. ~(index >= 6) => Parts[type][at] \in {"vel", "rot"}
    BY <1>4, <1>5, KdlTypesAre
  <2>3. val' = val \/ \E part \in {"vel", "rot"} : val' = [val EXCEPT ![part][i] = 0]
    BY <2>1, <2>2
  <2>4. val' \in TwistSet
    <3>1. val \in TwistSet
      BY <1>5 DEF Shape
    <3>2. CASE val' = [val EXCEPT !["vel"][i] = 0]
      BY <1>4, <3>1, <3>2, WrittenVector DEF TwistSet
    <3>3. CASE val' = [val EXCEPT !["rot"][i] = 0]
      BY <1>4, <3>1, <3>3, WrittenVector DEF TwistSet
    <3>. QED BY <2>3, <3>1, <3>2, <3>3
  <2>. QED BY <1>1, <1>5, <2>4 DEF Shape
<1>6. CASE type = "Wrench"
  <2>1. val' = IF index >= 6 THEN val ELSE [val EXCEPT ![Parts[type][at]][i] = 0]
    <3>1. Size(type) = 6
      BY <1>6 DEF Size
    <3>2. val' = SetIndexed(type, val, index, 0)
      BY <1>2, <1>6
    <3>. QED BY <1>6, <3>1, <3>2 DEF SetIndexed
  <2>. HIDE DEF i, at
  <2>2. ~(index >= 6) => Parts[type][at] \in {"force", "torque"}
    BY <1>4, <1>6, KdlTypesAre
  <2>3. val' = val \/ \E part \in {"force", "torque"} : val' = [val EXCEPT ![part][i] = 0]
    BY <2>1, <2>2
  <2>4. val' \in WrenchSet
    <3>1. val \in WrenchSet
      BY <1>6 DEF Shape
    <3>2. CASE val' = [val EXCEPT !["force"][i] = 0]
      BY <1>4, <3>1, <3>2, WrittenVector DEF WrenchSet
    <3>3. CASE val' = [val EXCEPT !["torque"][i] = 0]
      BY <1>4, <3>1, <3>3, WrittenVector DEF WrenchSet
    <3>. QED BY <2>3, <3>1, <3>2, <3>3
  <2>. QED BY <1>1, <1>6, <2>4 DEF Shape
<1>7. CASE type = "JntArray"
  <2>1. val \in Seq(Nat)
    BY <1>7 DEF Shape
  <2>2. val' = IF index >= Len(val) THEN val ELSE [val EXCEPT ![index + 1] = 0]
    BY <1>2, <1>7 DEF SetItem
  <2>3. val' \in Seq(Nat)
    BY <2>1, <2>2
  <2>. QED BY <1>1, <1>7, <2>3 DEF Shape
<1>. QED BY <1>2, <1>3, <1>5, <1>6, <1>7

LEMMA ConstructShape ==
    ASSUME TypeIsKdl, Shape(type, val), Construct
    PROVE  Shape(type', val')
<1>1. type' = type
  BY DEF Construct, Step
<1>2. Vectors(20) \in VectorSet /\ Vectors(23) \in VectorSet /\ Poses \subseteq RotationSet
  BY FreshShapes, 20 \in Nat, 23 \in Nat
<1>3. CASE type = "Frame"
  BY <1>1, <1>2, <1>3 DEF Construct, framevr, Shape, FrameSet
<1>4. CASE type = "Wrench"
  BY <1>1, <1>2, <1>4 DEF Construct, wrenchft, Shape, WrenchSet
<1>5. CASE type = "Twist"
  BY <1>1, <1>2, <1>5 DEF Construct, twistvw, Shape, TwistSet
<1>6. CASE type = "JntArray"
  <2>1. PICK size \in 0..MaxJoints : val' = Resized(val, size)
    BY <1>6 DEF Construct
  <2>2. val \in Seq(Nat)
    BY <1>6 DEF Shape
  <2>3. size \in Nat /\ val' \in [1..size -> Nat]
    BY <2>1, <2>2, KdlAssumption DEF Resized
  <2>4. val' \in Seq(Nat)
    BY <2>3, TupleIsSeq
  <2>. QED BY <1>1, <1>6, <2>4 DEF Shape
<1>. QED BY <1>3, <1>4, <1>5, <1>6 DEF Construct

\* While it is written, what left the variable stays.
LEMMA WritesKeepCarrier ==
    ASSUME TypeIsKdl, CarrierOK, WriteMember \/ WriteIndex \/ Construct
    PROVE  CarrierOK' /\ RoundTrip'
<1>1. carrier' = carrier /\ type' = type /\ last'.op = "write"
  BY DEF WriteMember, WriteIndex, Construct, Step
<1>2. RoundTrip'
  BY <1>1 DEF RoundTrip
<1>3. CASE carrier = NoCarrier /\ Shape(type, val)
  <2>1. Shape(type', val')
    BY <1>3, MemberShape, IndexShape, ConstructShape
  <2>2. Shape(type, val)'
    BY <2>1 DEF Shape
  <2>. QED BY <1>1, <1>2, <1>3, <2>2 DEF CarrierOK, NoCarrier
<1>4. CASE ~(carrier = NoCarrier /\ Shape(type, val))
  <2>1. CarrierOK'
    BY <1>1, <1>4 DEF CarrierOK, Shape
  <2>. QED BY <1>2, <2>1
<1>. QED BY <1>3, <1>4

\* What leaves the variable is the encoding of its value.
LEMMA LeavesAsEncoding ==
    ASSUME TypeIsKdl, CarrierOK, Decompose \/ Send
    PROVE  CarrierOK' /\ RoundTrip'
<1>1. /\ carrier = NoCarrier /\ val' = val /\ type' = type
      /\ last'.op \in {"decompose", "send"}
  BY DEF Decompose, Send, Step
<1>2. RoundTrip'
  BY <1>1 DEF RoundTrip
<1>3. Shape(type, val)
  <2>1. carrier.kind = "none"
    BY <1>1 DEF NoCarrier
  <2>. QED BY <2>1 DEF CarrierOK
<1>4. carrier'.of = val
  <2>1. Decompose => carrier'.of = val
    BY DEF Decompose
  <2>2. Send => carrier'.of = val
    BY DEF Send
  <2>. QED BY <2>1, <2>2
<1>5. Shape(type', carrier'.of)
  BY <1>1, <1>3, <1>4
<1>6. CASE Decompose
  <2>1. /\ carrier'.kind = "bag" /\ DOMAIN carrier' = {"kind", "of", "edited", "data"}
        /\ carrier'.data = decomposeProperty(type, val)
    BY <1>6 DEF Decompose
  <2>2. carrier'.data = decomposeProperty(type', carrier'.of)
    BY <1>1, <1>4, <2>1
  <2>. QED BY <1>2, <1>5, <2>1, <2>2 DEF CarrierOK, Shape, decomposeProperty
<1>7. CASE Send
  <2>1. \/ /\ type \in Sent /\ carrier'.kind = "corba" /\ carrier'.data = Corba(type, val)
        \/ /\ type \in Sent /\ carrier'.kind = "mqueue" /\ carrier'.data = Archive(type, val)
        \/ /\ type \in Fixed /\ carrier'.kind = "msg" /\ carrier'.data = Msg(type, val)
    BY <1>7 DEF Send, Sent
  <2>2. \/ /\ type' \in Sent /\ carrier'.kind = "corba"
           /\ carrier'.data = Corba(type', carrier'.of)
        \/ /\ type' \in Sent /\ carrier'.kind = "mqueue"
           /\ carrier'.data = Archive(type', carrier'.of)
        \/ /\ type' \in Fixed /\ carrier'.kind = "msg"
           /\ carrier'.data = Msg(type', carrier'.of)
    BY <1>1, <1>4, <2>1
  <2>. QED BY <1>2, <1>5, <2>2 DEF CarrierOK, Shape, Corba, Archive, Msg
<1>. QED BY <1>6, <1>7

\* An edited bag makes no promise.
LEMMA EditKeepsCarrier ==
    ASSUME CarrierOK, EditBag
    PROVE  CarrierOK' /\ RoundTrip'
<1>1. carrier.kind = "bag" /\ type' = type /\ last'.op = "edit"
  BY DEF EditBag, Step
<1>2. RoundTrip'
  BY <1>1 DEF RoundTrip
<1>3. Shape(type, carrier.of) /\ DOMAIN carrier = {"kind", "of", "edited", "data"}
  BY <1>1 DEF CarrierOK, NoCarrier
<1>4. PICK b : carrier' = [carrier EXCEPT !.data = b, !.edited = TRUE]
  BY DEF EditBag
<1>5. /\ carrier'.kind = "bag" /\ carrier'.of = carrier.of /\ carrier'.edited = TRUE
      /\ DOMAIN carrier' = {"kind", "of", "edited", "data"}
  BY <1>1, <1>3, <1>4
<1>6. Shape(type', carrier'.of)
  BY <1>1, <1>3, <1>5
<1>. QED BY <1>2, <1>5, <1>6 DEF CarrierOK, Shape

\* What comes back is what left.
LEMMA ComesBack ==
    ASSUME TypeIsKdl, CarrierOK, Compose \/ Receive
    PROVE  CarrierOK' /\ RoundTrip'
<1>1. carrier' = carrier /\ type' = type /\ carrier.kind # "none"
  BY DEF Compose, Receive, Step
<1>2. carrier # NoCarrier
  BY <1>1 DEF NoCarrier
<1>3. CarrierOK'
  BY <1>1, <1>2 DEF CarrierOK, Shape
<1>4. Shape(type, carrier.of)
  BY <1>2 DEF CarrierOK
<1>5. CASE Compose
  <2>. DEFINE r == composeProperty(type, carrier.data, val)
  <2>1. /\ last'.op = "compose" /\ last'.ok = r.ok /\ val' = r.val
    BY <1>5, ComposeFacts
  <2>2. carrier.kind = "bag"
    BY <1>5 DEF Compose
  <2>3. ~carrier.edited => carrier.data = decomposeProperty(type, carrier.of)
    BY <1>2, <2>2 DEF CarrierOK
  <2>4. ~carrier.edited => r = Done(Restored(type, carrier.of))
    BY <1>4, <2>3, BagBack DEF TypeIsKdl
  <2>. HIDE DEF r
  <2>5. ~carrier.edited => last'.ok /\ val' = Restored(type, carrier.of)
    BY <2>1, <2>4 DEF Done
  <2>6. ~carrier'.edited => last'.ok /\ val' = Restored(type', carrier'.of)
    BY <1>1, <2>5
  <2>7. RoundTrip'
    BY <2>1, <2>6 DEF RoundTrip, Restored
  <2>. QED BY <1>3, <2>7
<1>6. CASE Receive
  <2>1. last'.op = "receive"
    BY <1>6 DEF Receive, Step
  <2>2. \/ /\ carrier.kind = "corba" /\ type \in Sent
           /\ val' = FromCorba(type, Corba(type, carrier.of))
        \/ /\ carrier.kind = "mqueue" /\ type \in Sent
           /\ val' = FromArchive(type, Archive(type, carrier.of))
        \/ /\ carrier.kind = "msg" /\ type \in Fixed
           /\ val' = FromMsg(type, Msg(type, carrier.of))
    BY <1>2, <1>6 DEF Receive, CarrierOK
  <2>3. val' = carrier.of
    BY <1>4, <2>2, CorbaBack, ArchiveBack, MsgBack
  <2>4. RoundTrip'
    BY <1>1, <2>1, <2>3 DEF RoundTrip
  <2>. QED BY <1>3, <2>4
<1>. QED BY <1>5, <1>6

LEMMA CarrierStep ==
    ASSUME TypeIsKdl, CarrierOK, RoundTrip, [KdlNext]_kdlVars
    PROVE  TypeIsKdl' /\ CarrierOK' /\ RoundTrip'
<1>1. TypeIsKdl'
  BY TypeIsKept DEF TypeIsKdl
<1>2. CASE UNCHANGED kdlVars
  BY <1>1, <1>2 DEF kdlVars, CarrierOK, RoundTrip, Restored, Shape
<1>. QED
  BY <1>1, <1>2, WritesKeepCarrier, LeavesAsEncoding, EditKeepsCarrier, ComesBack DEF KdlNext

\* So it does when the variable is made.
LEMMA CarrierInit == KdlInit => TypeIsKdl /\ CarrierOK /\ RoundTrip
<1>. SUFFICES ASSUME KdlInit PROVE TypeIsKdl /\ CarrierOK /\ RoundTrip
  OBVIOUS
<1>1. type \in KdlTypes /\ carrier = NoCarrier /\ last.op = "init" /\ Shape(type, val)
  BY StartShape DEF KdlInit
<1>. QED BY <1>1 DEF TypeIsKdl, CarrierOK, RoundTrip

\* RoundTrip holds, for values of every content and Jacobians, arrays and
\* chains of every length that the carriers may hold: bag, CORBA sequence,
\* archive and message are each read in the order they were written, and the
\* angles of a rotation under the names they were written.  That the angles
\* make the rotation again is KDL's, and assumed (RotationAssumption).
THEOREM ValuesComeBack == KdlSpec => []RoundTrip
<1>1. TypeIsKdl /\ CarrierOK /\ RoundTrip /\ [KdlNext]_kdlVars
        => TypeIsKdl' /\ CarrierOK' /\ RoundTrip'
  BY CarrierStep
<1>. QED BY CarrierInit, <1>1, PTL DEF KdlSpec

-----------------------------------------------------------------------------
(* KDL: names.                                                             *)

LEMMA OnlyDecompose ==
    ASSUME [KdlNext]_kdlVars, last'.op = "decompose"
    PROVE  Decompose \/ UNCHANGED kdlVars
<1>1. ASSUME NEW op, NEW ok, Step(op, ok) PROVE last'.op = op
  BY <1>1 DEF Step
<1>. QED
  BY <1>1 DEF KdlNext, WriteMember, WriteIndex, Construct, Compose, EditBag, Send, Receive

\* What the bag says of the names of a vector, or of a rotation.
Agreeing(b, v, members) ==
    IF members = RotationMembers THEN \A n \in DOMAIN members : Find(b, n) = {}
    ELSE Entries(b, v, members)

LEMMA NamesStep ==
    ASSUME TypeIsKdl, CarrierOK, NamesAgree, [KdlNext]_kdlVars
    PROVE  NamesAgree'
<1>1. CASE UNCHANGED kdlVars
  BY <1>1 DEF kdlVars, NamesAgree
<1>2. CASE last'.op # "decompose"
  BY <1>2 DEF NamesAgree
<1>3. CASE Decompose
  <2>. DEFINE b == decomposeProperty(type, val)
  <2>1. carrier'.data = b /\ val' = val /\ type' = type
    BY <1>3 DEF Decompose, Step
  <2>2. type = "Vector" => Entries(b, val, VectorMembers)
    BY VectorNamed DEF decomposeProperty
  <2>3. type = "Rotation" => \A n \in DOMAIN RotationMembers : Find(b, n) = {}
    BY RotationNamed DEF decomposeProperty
  <2>8. type = "JntArray" => \A i \in DOMAIN val : HasElement(b, i) /\ Element(b, i) = val[i]
    <3>. SUFFICES ASSUME type = "JntArray"
                  PROVE  \A i \in DOMAIN val : HasElement(b, i) /\ Element(b, i) = val[i]
      OBVIOUS
    <3>1. carrier = NoCarrier
      BY <1>3 DEF Decompose
    <3>2. Shape(type, val)
      BY <3>1 DEF CarrierOK, NoCarrier
    <3>3. DOMAIN val \subseteq Nat
      BY <3>2 DEF Shape
    <3>4. b = DecomposeJntArray(val)
      BY DEF decomposeProperty
    <3>. HIDE DEF b
    <3>. QED BY <3>3, <3>4, ElementsFound
  <2>. DEFINE PartsNamed == \A part \in DOMAIN PartMembers[type] :
                /\ Has(b, part, "bag")
                /\ Agreeing(Get(b, part), val[part], PartMembers[type][part])
  <2>4. ASSUME type = "Twist" PROVE PartsNamed
    <3>1. /\ DOMAIN PartMembers[type] = {"vel", "rot"}
          /\ PartMembers[type]["vel"] = VectorMembers /\ PartMembers[type]["rot"] = VectorMembers
      BY <2>4 DEF PartMembers, TwistMembers
    <3>2. /\ Has(b, "vel", "bag") /\ Get(b, "vel") = VectorDecomposer(val["vel"])
          /\ Has(b, "rot", "bag") /\ Get(b, "rot") = VectorDecomposer(val["rot"])
      BY <2>4, PartsFound DEF decomposeProperty, DecomposeTwist
    <3>. HIDE DEF b
    <3>. QED BY <3>1, <3>2, VectorNamed, MembersDiffer DEF Agreeing
  <2>5. ASSUME type = "Wrench" PROVE PartsNamed
    <3>1. /\ DOMAIN PartMembers[type] = {"force", "torque"}
          /\ PartMembers[type]["force"] = VectorMembers
          /\ PartMembers[type]["torque"] = VectorMembers
      BY <2>5 DEF PartMembers, WrenchMembers
    <3>2. /\ Has(b, "force", "bag") /\ Get(b, "force") = VectorDecomposer(val["force"])
          /\ Has(b, "torque", "bag") /\ Get(b, "torque") = VectorDecomposer(val["torque"])
      BY <2>5, PartsFound DEF decomposeProperty, DecomposeWrench
    <3>. HIDE DEF b
    <3>. QED BY <3>1, <3>2, VectorNamed, MembersDiffer DEF Agreeing
  <2>6. ASSUME type = "Frame" PROVE PartsNamed
    <3>1. /\ DOMAIN PartMembers[type] = {"p", "M"}
          /\ PartMembers[type]["p"] = VectorMembers /\ PartMembers[type]["M"] = RotationMembers
      BY <2>6 DEF PartMembers, FrameMembers
    <3>2. /\ Has(b, "p", "bag") /\ Get(b, "p") = VectorDecomposer(val["p"])
          /\ Has(b, "M", "bag") /\ Get(b, "M") = RPYDecomposer(val["M"])
      BY <2>6, PartsFound DEF decomposeProperty, DecomposeFrame
    <3>. HIDE DEF b
    <3>. QED BY <3>1, <3>2, VectorNamed, RotationNamed, MembersDiffer DEF Agreeing
  <2>7. type \in Composite => PartsNamed
    BY <2>4, <2>5, <2>6, KdlTypesAre
  <2>. HIDE DEF b
  <2>. QED BY <2>1, <2>2, <2>3, <2>7, <2>8, MembersDiffer
           DEF NamesAgree, Agreeing, Entries, Find, HasElement, Element
<1>. QED BY <1>1, <1>2, <1>3, OnlyDecompose

\* NamesAgree holds: decomposeProperty() gives the numbers of a vector, a twist,
\* a wrench and an origin the names by which the archives of Types.hpp give
\* them to a script, RTT numbers the elements of an array as a script does, and
\* the angles of a rotation have names of their own.
THEOREM BagsUseMemberNames == KdlSpec => []NamesAgree
<1>1. KdlInit => TypeIsKdl /\ CarrierOK /\ RoundTrip /\ NamesAgree
  BY CarrierInit DEF KdlInit, NamesAgree
<1>2. TypeIsKdl /\ CarrierOK /\ RoundTrip /\ NamesAgree /\ [KdlNext]_kdlVars
        => TypeIsKdl' /\ CarrierOK' /\ RoundTrip' /\ NamesAgree'
  BY CarrierStep, NamesStep
<1>. QED BY <1>1, <1>2, PTL DEF KdlSpec

=============================================================================
