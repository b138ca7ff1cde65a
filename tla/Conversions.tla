---------------------------- MODULE Conversions ----------------------------
(***************************************************************************)
(* Numbers of the primitives typekit (ros2_primitives_typekit.cpp) and     *)
(* durations of the rclcpp typekit (time_conversions.hpp) in a script.     *)
(* An automatic constructor is used wherever a value of another type is    *)
(* expected, through any number of types and with nobody asking for it.    *)
(* The others of this module are used where a script names them; those of  *)
(* ParameterValue, which update() of a property applies to the value it is *)
(* given, are in Params.  static_cast<> cuts to the width of the type.     *)
(*                                                                         *)
(* Half gives 2^(w-1) for the width w of a type; a wider type has at least  *)
(* twice the numbers of a narrower one, and is otherwise small for TLC.    *)
(***************************************************************************)
EXTENDS Integers

CONSTANTS
    Half,           \* 2^(w-1) for the types of w = 8, 16, 32 and 64 bits
    NanoPerSec,     \* nanoseconds in a second
    MaxConversions  \* bound on the conversions

ASSUME HalfAssumption ==
    /\ \A w \in {8, 16, 32, 64} : Half[w] \in Nat \ {0}
    /\ 2 * Half[8] <= Half[16] /\ 2 * Half[16] <= Half[32] /\ 2 * Half[32] <= Half[64]
ASSUME NanoAssumption == NanoPerSec \in Nat \ {0}

VARIABLES
    numType,        \* the type of the value
    num,            \* the value of a number
    rmwTime,        \* the value of an rmw_time_t
    origin,         \* the number or nanoseconds that it began with
    kept,           \* no integer was converted to another by name
    conversions     \* conversions so far

conversionVars == <<numType, num, rmwTime, origin, kept, conversions>>

Signed   == [int8 |-> 8, int16 |-> 16, int32 |-> 32, int64 |-> 64]
Unsigned == [uint8 |-> 8, uint16 |-> 16, uint32 |-> 32, uint64 |-> 64]
IntegerTypes == DOMAIN Signed \cup DOMAIN Unsigned

\* Numbers of a type, and static_cast<t>(n).
Numbers(t) ==
    IF t \in DOMAIN Signed
    THEN -Half[Signed[t]] .. Half[Signed[t]] - 1
    ELSE 0 .. 2 * Half[Unsigned[t]] - 1
convert(n, t) ==
    IF t \in DOMAIN Signed
    THEN LET half == Half[Signed[t]] IN ((n + half) % (2 * half)) - half
    ELSE n % (2 * Half[Unsigned[t]])

\* Mutant of Automatic: an unsigned number to a signed type of its width.
AutomaticSameWidth ==
    [int8   |-> {}, uint8 |-> {},
     int16  |-> {"uint8", "int8"},
     uint16 |-> {"uint8"},
     int32  |-> {"uint8", "uint16", "uint32", "int8", "int16"},
     uint32 |-> {"uint8", "uint16"},
     int64  |-> {"uint8", "uint16", "uint32", "int8", "int16", "int32"},
     uint64 |-> {"uint8", "uint16", "uint32"}]

\* loadConstructors(): the types from which a type is made automatically.
\* From the other types it is made by name.
Automatic ==
    [int8   |-> {}, uint8 |-> {},
     int16  |-> {"uint8", "int8"},
     uint16 |-> {"uint8"},
     int32  |-> {"uint8", "uint16", "int8", "int16"},
     uint32 |-> {"uint8", "uint16"},
     int64  |-> {"uint8", "uint16", "uint32", "int8", "int16", "int32"},
     uint64 |-> {"uint8", "uint16", "uint32"}]

\* 2^64.
Modulus64 == 2 * Half[64]

NoTime == [sec |-> 0, nsec |-> 0]
Nanoseconds(t) == t.sec * NanoPerSec + t.nsec

uint64_to_rmw_time_t(d) == [sec |-> d \div NanoPerSec, nsec |-> d % NanoPerSec]
rmw_time_t_to_uint64(t) == Nanoseconds(t) % Modulus64

-----------------------------------------------------------------------------
\* A script begins with a number, or with a time: normalised or not, up to
\* one whose nanoseconds do not fit 64 bits, such as the infinite duration.
ConversionInit ==
    /\ \/ /\ numType \in IntegerTypes /\ num \in Numbers(numType)
          /\ rmwTime = NoTime /\ origin = num
       \/ /\ numType = "rmw_time_t" /\ num = 0
          /\ \E s \in 0..(Modulus64 \div NanoPerSec + 1), ns \in 0..NanoPerSec :
               rmwTime = [sec |-> s, nsec |-> ns]
          /\ origin = Nanoseconds(rmwTime)
    /\ kept = TRUE
    /\ conversions = 0

Converts(to) ==
    /\ conversions < MaxConversions /\ conversions' = conversions + 1
    /\ numType' = to
    /\ UNCHANGED origin

\* A constructor of the primitives typekit, automatic or not.
ConstructNumber(to) ==
    /\ numType \in IntegerTypes \ {to}
    /\ Converts(to)
    /\ num' = convert(num, to)
    /\ kept' = (kept /\ numType \in Automatic[to])
    /\ UNCHANGED rmwTime

\* Constructors of rmw_time_t from uint64 and of uint64 from rmw_time_t.
MakeTime ==
    /\ numType = "uint64"
    /\ Converts("rmw_time_t")
    /\ rmwTime' = uint64_to_rmw_time_t(num)
    /\ UNCHANGED <<num, kept>>

TimeToNumber ==
    /\ numType = "rmw_time_t"
    /\ Converts("uint64")
    /\ num' = rmw_time_t_to_uint64(rmwTime)
    /\ UNCHANGED <<rmwTime, kept>>

ConversionNext == MakeTime \/ TimeToNumber \/ \E to \in IntegerTypes : ConstructNumber(to)

ConversionSpec == ConversionInit /\ [][ConversionNext]_conversionVars

-----------------------------------------------------------------------------
\* A number that was converted automatically only, through whatever types, is
\* the number that it was, and so is one that became a time and a number
\* again.  A time that came from a number is that number of nanoseconds, with
\* less than a second of them beside the seconds.  A time of more nanoseconds
\* than 64 bits hold comes back as another number, its remainder by 2^64.
AutomaticKeepsValue ==
    kept =>
        /\ numType \in IntegerTypes /\ origin < Modulus64 => num = origin
        /\ numType = "rmw_time_t" =>
             \/ Nanoseconds(rmwTime) = origin
             \/ /\ origin >= Modulus64
                /\ Nanoseconds(rmwTime) = origin % Modulus64
                /\ rmwTime.nsec < NanoPerSec
=============================================================================
