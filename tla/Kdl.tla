-------------------------------- MODULE Kdl --------------------------------
(***************************************************************************)
(* A variable of a KDL type in a component, and the ways its value leaves  *)
(* and comes back: by member and index from a script, as a property bag    *)
(* (motionproperties.cpp, kinfamproperties.cpp, kdlTypekitJntArray.cpp),   *)
(* as a ROS message (kdl_msgs), as a CORBA sequence and over a message     *)
(* queue.  Each way lays the entries out by hand, twice: once for writing  *)
(* and once for reading.  The typekit is built with                        *)
(* ROTATION_PROPERTIES_RPY, so the bag of a rotation holds its angles.     *)
(* The package leaves the last two out of its build (CMakeLists.txt, "not  *)
(* built yet"; package.xml, "CORBA is disabled"): Transports says which of *)
(* them a build has, and is empty for this one.                            *)
(*                                                                         *)
(* The other conversions only move entries, so an entry is a number that   *)
(* tells it from the other entries of the value.  Matrices of KDL are      *)
(* stored by rows, those of Eigen by columns.  Members of a bag are a      *)
(* sequence, of which find() takes the first with a name; add() appends.   *)
(***************************************************************************)
EXTENDS Integers, Sequences, FiniteSetsExt, SequencesExt

CONSTANTS
    RPY(_, _, _),       \* KDL::Rotation::RPY
    EulerZYX(_, _, _),  \* KDL::Rotation::EulerZYX
    GetRPY(_),          \* KDL::Rotation::GetRPY: roll, pitch and yaw
    ProperRotations,    \* the matrices that are rotations
    Poses,              \* those of them that variables start with
    Transports,         \* the optional transports of the build
    MaxJoints,          \* bound on the elements of arrays, the columns of Jacobians
    Chains,             \* the types of the joints of the chains
    MaxKdlSteps         \* bound on the operations on the variable

VARIABLES
    type,       \* the type of the variable
    val,        \* its value
    carrier,    \* the bag, sequence, archive or message it was written to
    last,       \* the last operation, its result and the value before it
    kdlSteps    \* operations so far

kdlVars == <<type, val, carrier, last, kdlSteps>>

-----------------------------------------------------------------------------
(* Values.                                                                 *)

Vectors(k) == [i \in 1..3 |-> k + i]
Frames(k)  == [p : {Vectors(k)}, M : Poses]
Jacobians(k, n) == [ij \in (1..6) \X (1..n) |-> k + 6 * (ij[2] - 1) + ij[1]]

\* r(i,j) of a rotation and the column count of a Jacobian.
At(r, i, j) == r[3 * i + j + 1]
Columns(m)  == Cardinality({ij[2] : ij \in DOMAIN m})

\* Joints of a type that composeProperty() knows, and the others of KDL.
KnownJoints == {"RotX", "RotY", "RotZ", "TransX", "TransY", "TransZ", "None"}
JointTypes  == KnownJoints \cup {"RotAxis", "TransAxis"}

ASSUME KdlAssumption == /\ MaxJoints \in Nat /\ Chains \subseteq Seq(JointTypes)
                        /\ Transports \subseteq {"corba", "mqueue"}

\* A rotation has angles that make it again (KDL's frames.cpp); nine numbers
\* that are no rotation have angles too, which make some other matrix.
ASSUME RotationAssumption ==
    /\ Poses \subseteq ProperRotations /\ ProperRotations \subseteq [1..9 -> Int]
    /\ \A r \in ProperRotations : RPY(GetRPY(r)[1], GetRPY(r)[2], GetRPY(r)[3]) = r

Segments(k, j) == [joint : {j}, frame : Frames(k)]

Parts == [Frame |-> <<"p", "M">>, Twist |-> <<"vel", "rot">>,
          Wrench |-> <<"force", "torque">>]
Composite == DOMAIN Parts
Fixed == Composite \cup {"Vector", "Rotation"}

\* The values a variable of type t starts with.
Values(t) ==
    CASE t = "Vector"   -> {Vectors(0)}
      [] t = "Rotation" -> Poses
      [] t = "Frame"    -> Frames(0)
      [] t = "Twist"    -> {[vel |-> Vectors(0), rot |-> Vectors(3)]}
      [] t = "Wrench"   -> {[force |-> Vectors(0), torque |-> Vectors(3)]}
      [] t = "JntArray" -> {[i \in 1..n |-> i] : n \in 0..MaxJoints}
      [] t = "Jacobian" -> {Jacobians(0, n) : n \in 0..MaxJoints}
      [] t = "Segment"  -> UNION {Segments(0, j) : j \in JointTypes}
      [] t = "Chain"    -> UNION {{[i \in DOMAIN joints |->
                                  [joint |-> joints[i],
                                   frame |-> [p |-> Vectors(3 * (i - 1)), M |-> r[i]]]] :
                                 r \in [DOMAIN joints -> Poses]} : joints \in Chains}
KdlTypes == Fixed \cup {"JntArray", "Jacobian", "Segment", "Chain"}

-----------------------------------------------------------------------------
(* Property bags.                                                          *)

DoubleItem(n, x) == [name |-> n, is |-> "double", val |-> x]
BagItem(n, b) == [name |-> n, is |-> "bag", val |-> b]
TextItem(n, s)   == [name |-> n, is |-> "string", val |-> s]
IntItem(n, x)    == [name |-> n, is |-> "int", val |-> x]
PropertyBag(t, items) == [type |-> t, items |-> items]

\* bag.find(name), with the dynamic_cast or getPropertyType that follows.
Find(b, n) == {i \in DOMAIN b.items : b.items[i].name = n}
Has(b, n, kind) == Find(b, n) # {} /\ b.items[Min(Find(b, n))].is = kind
Get(b, n) == b.items[Min(Find(b, n))].val

\* What a compose returns: whether it succeeded, and the target after it.
Done(v)    == [ok |-> TRUE,  val |-> v]
Refused(v) == [ok |-> FALSE, val |-> v]

VectorNames   == <<"X", "Y", "Z">>
RotationNames == <<"X_x", "X_y", "X_z", "Y_x", "Y_y", "Y_z", "Z_x", "Z_y", "Z_z">>

\* Mutant of VectorComposer: writes what it has found before the rest is
\* missed.
VectorComposerEager(b, old) ==
    IF b.type \in {"MotCon::Vector", "KDL.Vector"} /\ Has(b, "X", "double")
    THEN [ok  |-> Has(b, "Y", "double") /\ Has(b, "Z", "double"),
          val |-> [i \in 1..3 |-> IF Has(b, VectorNames[i], "double")
                                  THEN Get(b, VectorNames[i]) ELSE old[i]]]
    ELSE Refused(old)

\* Mutant of VectorComposer: keeps the old entry where one is missing.
VectorComposerLenient(b, old) ==
    IF b.type \in {"MotCon::Vector", "KDL.Vector"}
    THEN Done([i \in 1..3 |-> IF Has(b, VectorNames[i], "double")
                              THEN Get(b, VectorNames[i]) ELSE old[i]])
    ELSE Refused(old)

\* Mutant of VectorDecomposer: two of the names swapped.
VectorDecomposerSwapped(v) ==
    PropertyBag("KDL.Vector",
        [i \in 1..3 |-> DoubleItem(<<"Y", "X", "Z">>[i], v[i])])

VectorDecomposer(v) ==
    PropertyBag("KDL.Vector", [i \in 1..3 |-> DoubleItem(VectorNames[i], v[i])])

VectorComposer(b, old) ==
    IF /\ b.type \in {"MotCon::Vector", "KDL.Vector"}
       /\ \A n \in {"X", "Y", "Z"} : Has(b, n, "double")
    THEN Done(<<Get(b, "X"), Get(b, "Y"), Get(b, "Z")>>)
    ELSE Refused(old)

RPYNames == <<"R", "P", "Y">>
RPYDecomposer(r) ==
    PropertyBag("KDL.Rotation", [i \in 1..3 |-> DoubleItem(RPYNames[i], GetRPY(r)[i])])

IsRotation(b) == b.type \in {"MotCon::Rotation", "KDL.Rotation"}

RotationComposer(b, old) ==
    IF IsRotation(b) /\ \A k \in 1..9 : Has(b, RotationNames[k], "double")
    THEN Done(<<Get(b, "X_x"), Get(b, "Y_x"), Get(b, "Z_x"),
                Get(b, "X_y"), Get(b, "Y_y"), Get(b, "Z_y"),
                Get(b, "X_z"), Get(b, "Y_z"), Get(b, "Z_z")>>)
    ELSE Refused(old)

\* An Euler angle has a name and a deprecated one, the name of its axis.
Angle(b, n, axis) == IF Has(b, n, "double") THEN n ELSE axis

EulerZYXComposer(b, old) ==
    LET names == <<Angle(b, "alpha", "Z"), Angle(b, "beta", "Y"),
                   Angle(b, "gamma", "X")>>
    IN  IF IsRotation(b) /\ \A i \in 1..3 : Has(b, names[i], "double")
        THEN Done(EulerZYX(Get(b, names[1]), Get(b, names[2]), Get(b, names[3])))
        ELSE Refused(old)

RPYComposer(b, old) ==
    IF IsRotation(b) /\ \A n \in {"R", "P", "Y"} : Has(b, n, "double")
    THEN Done(RPY(Get(b, "R"), Get(b, "P"), Get(b, "Y")))
    ELSE Refused(old)

\* composeProperty of a rotation: the first of the three forms that fits.
ComposeRotation(b, old) ==
    IF RPYComposer(b, old).ok THEN RPYComposer(b, old)
    ELSE IF EulerZYXComposer(b, old).ok THEN EulerZYXComposer(b, old)
    ELSE RotationComposer(b, old)

\* A bag of two sub-bags: the type names, and which part is composed how.
DecomposeTwist(t) ==
    PropertyBag("KDL.Twist", <<BagItem("vel", VectorDecomposer(t.vel)),
                       BagItem("rot", VectorDecomposer(t.rot))>>)

DecomposeWrench(w) ==
    PropertyBag("KDL.Wrench", <<BagItem("force", VectorDecomposer(w.force)),
                        BagItem("torque", VectorDecomposer(w.torque))>>)

DecomposeFrame(f) ==
    PropertyBag("KDL.Frame", <<BagItem("p", VectorDecomposer(f.p)),
                       BagItem("M", RPYDecomposer(f.M))>>)

\* Both sub-bags are looked up before the first is composed; the second is
\* composed only when the first succeeded, which has then been written.
ComposeTwist(b, t) ==
    IF /\ b.type \in {"KDL.Twist", "MotCon::Twist"}
       /\ Has(b, "vel", "bag") /\ Has(b, "rot", "bag")
    THEN LET vel == VectorComposer(Get(b, "vel"), t.vel)
             rot == VectorComposer(Get(b, "rot"), t.rot)
         IN  IF ~vel.ok THEN Refused(t)
             ELSE [ok |-> rot.ok, val |-> [vel |-> vel.val, rot |-> rot.val]]
    ELSE Refused(t)

ComposeWrench(b, w) ==
    IF /\ b.type \in {"KDL.Wrench", "Motcon::Wrench"}
       /\ Has(b, "force", "bag") /\ Has(b, "torque", "bag")
    THEN LET force  == VectorComposer(Get(b, "force"), w.force)
             torque == VectorComposer(Get(b, "torque"), w.torque)
         IN  IF ~force.ok THEN Refused(w)
             ELSE [ok |-> torque.ok,
                   val |-> [force |-> force.val, torque |-> torque.val]]
    ELSE Refused(w)

ComposeFrame(b, f) ==
    IF /\ b.type \in {"KDL.Frame", "MotCon::Frame"}
       /\ Has(b, "p", "bag") /\ Has(b, "M", "bag")
    THEN LET p == VectorComposer(Get(b, "p"), f.p)
             M == ComposeRotation(Get(b, "M"), f.M)
         IN  IF ~p.ok THEN Refused(f)
             ELSE [ok |-> M.ok, val |-> [p |-> p.val, M |-> M.val]]
    ELSE Refused(f)

-----------------------------------------------------------------------------
(* Bags of the kinematic family.  decomposeProperty() adds to the bag that *)
(* it is given.                                                            *)

DecomposeJoint(j) == PropertyBag("KDL.Joint", <<TextItem("Type", j)>>)

ComposeJoint(b, old) ==
    IF /\ b.type = "KDL.Joint" /\ Has(b, "Type", "string")
       /\ Get(b, "Type") \in KnownJoints
    THEN Done(Get(b, "Type")) ELSE Refused(old)

SegmentItems(s) == <<BagItem("joint", DecomposeJoint(s.joint)),
                     BagItem("frame", DecomposeFrame(s.frame))>>

DecomposeSegment(s, target) == PropertyBag("KDL.Segment", target \o SegmentItems(s))

\* A Joint and a Frame that were only constructed: no motion, identity.
DefaultFrame == [p |-> <<0, 0, 0>>, M |-> <<1, 0, 0, 0, 1, 0, 0, 0, 1>>]

\* The results of composing the joint and the frame are not looked at.
ComposeSegment(b, old) ==
    IF /\ b.type = "KDL.Segment"
       /\ Has(b, "joint", "bag") /\ Has(b, "frame", "bag")
    THEN Done([joint |-> ComposeJoint(Get(b, "joint"), "None").val,
               frame |-> ComposeFrame(Get(b, "frame"), DefaultFrame).val])
    ELSE Refused(old)

\* One segment_bag serves all segments and is never emptied: after i of them
\* it has the entries of all i, and so has the bag of the i-th.
DecomposeChain(c) ==
    LET segment_bag(i) == [k \in 1..2 * i |-> SegmentItems(c[(k + 1) \div 2])[2 - (k % 2)]]
    IN  PropertyBag("KDL.Chain",
            [i \in DOMAIN c |->
               BagItem("Segment", DecomposeSegment(c[i], segment_bag(i - 1)))])

\* The result of composing a segment is not looked at.
ComposeChain(b, old) ==
    IF b.type = "KDL.Chain"
    THEN Done([i \in DOMAIN b.items |->
                 IF b.items[i].is = "bag"
                 THEN ComposeSegment(b.items[i].val,
                          [joint |-> "None", frame |-> DefaultFrame]).val
                 ELSE [joint |-> "None", frame |-> DefaultFrame]])
    ELSE Refused(old)

\* The type info of arrays does not use the functions of kinfamproperties.cpp:
\* its decomposeType() answers null, and RTT takes an array apart by its
\* members, with the number of the element in its name.
ElementItem(i, x) == [name |-> "Element", nr |-> i, is |-> "double", val |-> x]
DecomposeJntArray(a) == PropertyBag("KDL.JntArray", [i \in DOMAIN a |-> ElementItem(i, a[i])])

FindElement(b, i) == {k \in Find(b, "Element") : b.items[k].nr = i}
HasElement(b, i)  == FindElement(b, i) # {} /\ b.items[Min(FindElement(b, i))].is = "double"
Element(b, i)     == b.items[Min(FindElement(b, i))].val

\* resize() of a JntArray keeps what fits and adds zeros.
Resized(a, size) == [i \in 1..size |-> IF i \in DOMAIN a THEN a[i] ELSE 0]

\* JntArrayTypeInfo::composeType resizes the array before it looks at the type
\* and the elements, and writes the elements it finds before one is missed.
ComposeJntArray(b, old) ==
    LET sz     == IF Find(b, "Size") # {} THEN "Size" ELSE "size"
        size   == IF Find(b, sz) = {} THEN Len(b.items)
                  ELSE IF Has(b, sz, "int") THEN Get(b, sz) ELSE Len(old)
        result == Resized(old, size)
        fits   == b.type = "KDL.JntArray"
    IN  [ok  |-> fits /\ \A i \in DOMAIN result : HasElement(b, i),
         val |-> [i \in DOMAIN result |->
                    IF fits /\ HasElement(b, i) THEN Element(b, i) ELSE result[i]]]

\* Elements of a Jacobian are read by position; their names are numbered.
ItemValue(item) == IF item.is = "double" THEN item.val ELSE 0

DecomposeJacobian(m) ==
    LET n == Columns(m)
    IN  PropertyBag("KDL.Jacobian",
            [k \in 1..6 * n |->
               DoubleItem("Element", m[<<(k - 1) \div n + 1, 1 + ((k - 1) % n)>>])])

ComposeJacobian(b, old) ==
    LET n == Len(b.items) \div 6
    IN  IF b.type = "KDL.Jacobian"
        THEN Done([ij \in (1..6) \X (1..n) |->
                     ItemValue(b.items[n * (ij[1] - 1) + ij[2]])])
        ELSE Refused(old)

-----------------------------------------------------------------------------
(* CORBA sequences of doubles.                                             *)

VectorToAny(v)  == <<v[1], v[2], v[3]>>
VectorToStd(cb) == <<cb[1], cb[2], cb[3]>>

RotationToAny(r)  == [k \in 1..9 |-> At(r, (k - 1) \div 3, (k - 1) % 3)]
RotationToStd(cb) == SubSeq(cb, 1, 9)

FrameToAny(f)  == [k \in 1..12 |-> IF k <= 3 THEN f.p[k]
                                   ELSE At(f.M, (k - 4) \div 3, (k - 4) % 3)]
FrameToStd(cb) == [p |-> [k \in 1..3 |-> cb[k]], M |-> [k \in 1..9 |-> cb[3 + k]]]

WrenchToAny(w)  == w.force \o w.torque
WrenchToStd(cb) == [force |-> SubSeq(cb, 1, 3), torque |-> SubSeq(cb, 4, 6)]

TwistToAny(t)  == t.vel \o t.rot
TwistToStd(cb) == [vel |-> SubSeq(cb, 1, 3), rot |-> SubSeq(cb, 4, 6)]

\* The storage of an Eigen matrix, and the matrix over a storage.
Storage(m) == [k \in 1..6 * Columns(m) |-> m[<<1 + ((k - 1) % 6), (k - 1) \div 6 + 1>>]]
Matrix(s, rows, cols) == [ij \in (1..rows) \X (1..cols) |-> s[rows * (ij[2] - 1) + ij[1]]]

JacobianToAny(m)  == <<6, Columns(m)>> \o Storage(m)
JacobianToStd(cb) == Matrix(SubSeq(cb, 3, Len(cb)), cb[1], cb[2])

JntArrayToAny(a)  == a
JntArrayToStd(cb) == cb

Corba(t, v) ==
    CASE t = "Vector"   -> VectorToAny(v)
      [] t = "Rotation" -> RotationToAny(v)
      [] t = "Frame"    -> FrameToAny(v)
      [] t = "Wrench"   -> WrenchToAny(v)
      [] t = "Twist"    -> TwistToAny(v)
      [] t = "Jacobian" -> JacobianToAny(v)
      [] t = "JntArray" -> JntArrayToAny(v)

FromCorba(t, cb) ==
    CASE t = "Vector"   -> VectorToStd(cb)
      [] t = "Rotation" -> RotationToStd(cb)
      [] t = "Frame"    -> FrameToStd(cb)
      [] t = "Wrench"   -> WrenchToStd(cb)
      [] t = "Twist"    -> TwistToStd(cb)
      [] t = "Jacobian" -> JacobianToStd(cb)
      [] t = "JntArray" -> JntArrayToStd(cb)

-----------------------------------------------------------------------------
(* Archives of the message queue.  serialize() serves both directions.     *)

\* The fields in the order of the archive.  A matrix is preceded by its size.
SaveMatrix(rows, cols, data) == <<rows, cols>> \o data
Archive(t, v) ==
    CASE t \in {"Vector", "Rotation"} -> v
      [] t = "Twist"    -> v.rot \o v.vel
      [] t = "Wrench"   -> v.force \o v.torque
      [] t = "Frame"    -> v.p \o v.M
      [] t = "Jacobian" -> SaveMatrix(6, Columns(v), Storage(v))
      [] t = "JntArray" -> SaveMatrix(Len(v), 1, v)

LoadMatrix(ar) ==
    [ij \in (1..ar[1]) \X (1..ar[2]) |-> ar[2 + ar[1] * (ij[2] - 1) + ij[1]]]
FromArchive(t, ar) ==
    CASE t \in {"Vector", "Rotation"} -> ar
      [] t = "Twist"    -> [rot |-> SubSeq(ar, 1, 3), vel |-> SubSeq(ar, 4, 6)]
      [] t = "Wrench"   -> [force |-> SubSeq(ar, 1, 3), torque |-> SubSeq(ar, 4, 6)]
      [] t = "Frame"    -> [p |-> SubSeq(ar, 1, 3), M |-> SubSeq(ar, 4, 12)]
      [] t = "Jacobian" -> LoadMatrix(ar)
      [] t = "JntArray" -> [i \in 1..ar[1] |-> LoadMatrix(ar)[<<i, 1>>]]

-----------------------------------------------------------------------------
(* ROS messages of kdl_msgs.                                               *)

VectorMsg(v)     == [x |-> v[1], y |-> v[2], z |-> v[3]]
FromVectorMsg(m) == <<m.x, m.y, m.z>>

\* Mutant of FromTwistMsg: the two vectors swapped.
FromTwistMsgSwapped(m) ==
    [vel |-> FromVectorMsg(m.angular), rot |-> FromVectorMsg(m.linear)]

TwistMsg(t)     == [linear |-> VectorMsg(t.vel), angular |-> VectorMsg(t.rot)]
FromTwistMsg(m) == [vel |-> FromVectorMsg(m.linear), rot |-> FromVectorMsg(m.angular)]

WrenchMsg(w)     == [force |-> VectorMsg(w.force), torque |-> VectorMsg(w.torque)]
FromWrenchMsg(m) == [force |-> FromVectorMsg(m.force), torque |-> FromVectorMsg(m.torque)]

RotationMsg(r)     == [data |-> [i \in 1..9 |-> r[i]]]
FromRotationMsg(m) == [i \in 1..9 |-> m.data[i]]

FrameMsg(f)     == [p |-> VectorMsg(f.p), m |-> RotationMsg(f.M)]
FromFrameMsg(m) == [p |-> FromVectorMsg(m.p), M |-> FromRotationMsg(m.m)]

Msg(t, v) ==
    CASE t = "Vector"   -> VectorMsg(v)
      [] t = "Rotation" -> RotationMsg(v)
      [] t = "Frame"    -> FrameMsg(v)
      [] t = "Twist"    -> TwistMsg(v)
      [] t = "Wrench"   -> WrenchMsg(v)

FromMsg(t, m) ==
    CASE t = "Vector"   -> FromVectorMsg(m)
      [] t = "Rotation" -> FromRotationMsg(m)
      [] t = "Frame"    -> FromFrameMsg(m)
      [] t = "Twist"    -> FromTwistMsg(m)
      [] t = "Wrench"   -> FromWrenchMsg(m)

-----------------------------------------------------------------------------
(* Members by name, from the archives of Types.hpp, and by index.          *)

VectorMembers   == [X |-> 0, Y |-> 1, Z |-> 2]
RotationMembers == [X_x |-> 0, X_y |-> 3, X_z |-> 6, Y_x |-> 1, Y_y |-> 4,
                    Y_z |-> 7, Z_x |-> 2, Z_y |-> 5, Z_z |-> 8]
FrameMembers  == [p |-> VectorMembers, M |-> RotationMembers]
TwistMembers  == [vel |-> VectorMembers, rot |-> VectorMembers]
WrenchMembers == [force |-> VectorMembers, torque |-> VectorMembers]

\* Members of the parts of a composite type.
PartMembers == [Frame |-> FrameMembers, Twist |-> TwistMembers, Wrench |-> WrenchMembers]

\* get_container_item: elements of a Vector, and of a Twist or a Wrench with
\* its first vector first (KDL's operator[]).  NA, which is no part of the
\* value, stands for an index out of range.
Size(t) == CASE t = "Vector" -> 3 [] t \in {"Twist", "Wrench"} -> 6
SetIndexed(t, v, index, x) ==
    IF index >= Size(t) THEN v
    ELSE IF t = "Vector" THEN [v EXCEPT ![index + 1] = x]
    ELSE [v EXCEPT ![Parts[t][index \div 3 + 1]][1 + (index % 3)] = x]

\* get_item of a JntArray.
SetItem(a, index, x) == IF index >= Len(a) THEN a ELSE [a EXCEPT ![index + 1] = x]

framevr(v, r) == [p |-> v, M |-> r]
wrenchft(force, torque) == [force |-> force, torque |-> torque]
twistvw(trans, rot) == [vel |-> trans, rot |-> rot]

-----------------------------------------------------------------------------
(* The variable in use.                                                    *)

decomposeProperty(t, v) ==
    CASE t = "Vector"   -> VectorDecomposer(v)
      [] t = "Rotation" -> RPYDecomposer(v)
      [] t = "Twist"    -> DecomposeTwist(v)
      [] t = "Wrench"   -> DecomposeWrench(v)
      [] t = "Frame"    -> DecomposeFrame(v)
      [] t = "Segment"  -> DecomposeSegment(v, <<>>)
      [] t = "Chain"    -> DecomposeChain(v)
      [] t = "JntArray" -> DecomposeJntArray(v)
      [] t = "Jacobian" -> DecomposeJacobian(v)

composeProperty(t, b, old) ==
    CASE t = "Vector"   -> VectorComposer(b, old)
      [] t = "Rotation" -> ComposeRotation(b, old)
      [] t = "Twist"    -> ComposeTwist(b, old)
      [] t = "Wrench"   -> ComposeWrench(b, old)
      [] t = "Frame"    -> ComposeFrame(b, old)
      [] t = "Segment"  -> ComposeSegment(b, old)
      [] t = "Chain"    -> ComposeChain(b, old)
      [] t = "JntArray" -> ComposeJntArray(b, old)
      [] t = "Jacobian" -> ComposeJacobian(b, old)

NoCarrier == [kind |-> "none"]

KdlInit ==
    /\ type \in KdlTypes
    /\ val \in Values(type)
    /\ carrier = NoCarrier
    /\ last = [op |-> "init", ok |-> TRUE, before |-> val]
    /\ kdlSteps = 0

Step(op, ok) ==
    /\ kdlSteps < MaxKdlSteps
    /\ kdlSteps' = kdlSteps + 1
    /\ last' = [op |-> op, ok |-> ok, before |-> val]
    /\ UNCHANGED type

\* A script writes an entry by the names of its members, by index, constructs
\* a value, or resizes an array.
WriteMember ==
    /\ Step("write", TRUE)
    /\ \/ /\ type = "Vector"
          /\ \E n \in DOMAIN VectorMembers :
                val' = [val EXCEPT ![VectorMembers[n] + 1] = 0]
       \/ /\ type = "Rotation"
          /\ \E n \in DOMAIN RotationMembers :
                val' = [val EXCEPT ![RotationMembers[n] + 1] = 0]
       \/ /\ type \in Composite
          /\ \E part \in DOMAIN PartMembers[type] : \E n \in DOMAIN PartMembers[type][part] :
                val' = [val EXCEPT ![part][PartMembers[type][part][n] + 1] = 0]
    /\ UNCHANGED carrier

WriteIndex ==
    /\ Step("write", TRUE)
    /\ \E index \in 0..6 :
         \/ type \in {"Vector", "Twist", "Wrench"} /\ val' = SetIndexed(type, val, index, 0)
         \/ type = "JntArray" /\ val' = SetItem(val, index, 0)
    /\ UNCHANGED carrier

Construct ==
    /\ Step("write", TRUE)
    /\ \/ type = "Frame"  /\ \E r \in Poses : val' = framevr(Vectors(20), r)
       \/ type = "Wrench" /\ val' = wrenchft(Vectors(20), Vectors(23))
       \/ type = "Twist"  /\ val' = twistvw(Vectors(20), Vectors(23))
       \/ type = "JntArray" /\ \E size \in 0..MaxJoints : val' = Resized(val, size)
    /\ UNCHANGED carrier

Decompose ==
    /\ carrier = NoCarrier
    /\ carrier' = [kind |-> "bag", of |-> val, edited |-> FALSE,
                   data |-> decomposeProperty(type, val)]
    /\ Step("decompose", TRUE)
    /\ UNCHANGED val

\* What may happen to a bag in a property file: an entry is taken out, a
\* name occurs twice, the type has another name, a rotation is given in
\* another form, before its own or instead of it, an array has its size.
Listed(names) == [i \in DOMAIN names |-> DoubleItem(names[i], 40 + i)]
Forms == {Listed(RPYNames), Listed(<<"alpha", "beta", "X">>), Listed(<<"Z", "Y", "X">>),
          Listed(RotationNames)}
FlatEdits(b) ==
    {[b EXCEPT !.items = RemoveAt(@, i)] : i \in DOMAIN b.items}
    \cup {[b EXCEPT !.items = Append(@, [@[i] EXCEPT !.is = "double", !.val = 40])] :
             i \in DOMAIN b.items}
    \cup {[b EXCEPT !.type = t] : t \in {"MotCon::Vector", "MotCon::Rotation", "KDL.Twist"}}
    \cup {[b EXCEPT !.items = items] :
             items \in {i \in Forms \cup {f \o b.items : f \in Forms} : IsRotation(b)}}
    \cup {[b EXCEPT !.items = Append(@, IntItem(n, x))] :
             n \in {"Size", "size"}, x \in {y \in 0..MaxJoints : b.type = "KDL.JntArray"}}

Edits(b) ==
    FlatEdits(b) \cup
    UNION {{[b EXCEPT !.items[i].val = e] : e \in FlatEdits(b.items[i].val)} :
             i \in {j \in DOMAIN b.items : b.items[j].is = "bag"}}

EditBag ==
    /\ carrier.kind = "bag" /\ ~carrier.edited
    /\ \E b \in Edits(carrier.data) :
         carrier' = [carrier EXCEPT !.data = b, !.edited = TRUE]
    /\ Step("edit", TRUE)
    /\ UNCHANGED val

Compose ==
    /\ carrier.kind = "bag"
    /\ LET result == composeProperty(type, carrier.data, val)
       IN  val' = result.val /\ Step("compose", result.ok)
    /\ UNCHANGED carrier

Send ==
    /\ carrier = NoCarrier
    /\ \/ /\ type \in Fixed \cup {"JntArray", "Jacobian"}
          /\ \/ /\ "corba" \in Transports
                /\ carrier' = [kind |-> "corba", of |-> val, data |-> Corba(type, val)]
             \/ /\ "mqueue" \in Transports
                /\ carrier' = [kind |-> "mqueue", of |-> val, data |-> Archive(type, val)]
       \/ /\ type \in Fixed
          /\ carrier' = [kind |-> "msg", of |-> val, data |-> Msg(type, val)]
    /\ Step("send", TRUE)
    /\ UNCHANGED val

Receive ==
    /\ \/ carrier.kind = "corba"  /\ val' = FromCorba(type, carrier.data)
       \/ carrier.kind = "mqueue" /\ val' = FromArchive(type, carrier.data)
       \/ carrier.kind = "msg"    /\ val' = FromMsg(type, carrier.data)
    /\ Step("receive", TRUE)
    /\ UNCHANGED carrier

KdlNext == \/ WriteMember \/ WriteIndex \/ Construct
           \/ Decompose \/ EditBag \/ Compose \/ Send \/ Receive

KdlSpec == KdlInit /\ [][KdlNext]_kdlVars

-----------------------------------------------------------------------------
(* Properties.                                                             *)

\* What comes back of a rotation: a rotation as it was, nine numbers that are
\* none as the rotation of the angles that GetRPY() finds in them.
Oriented(r) ==
    IF r \in ProperRotations THEN r
    ELSE RPY(GetRPY(r)[1], GetRPY(r)[2], GetRPY(r)[3])

\* What comes back of a value: a joint that composeProperty() does not know
\* becomes None, and all segments of a chain become its first.
Restored(t, v) ==
    LET Straight(f) == [p |-> f.p, M |-> Oriented(f.M)]
        Known(s) == [joint |-> IF s.joint \in KnownJoints THEN s.joint ELSE "None",
                     frame |-> Straight(s.frame)]
    IN  CASE t = "Rotation" -> Oriented(v)
          [] t = "Frame"    -> Straight(v)
          [] t = "Segment"  -> Known(v)
          [] t = "Chain"    -> [i \in DOMAIN v |-> Known(v[1])]
          [] OTHER          -> v

\* A value that left the variable comes back as it was, entry by entry and
\* whatever the variable has become meanwhile, through a ROS message and
\* through the optional transports; and from a bag that nobody edited, for
\* which a rotation goes through its angles: it comes back if it is one
\* (decomposeProperty() and composeProperty() of the typekit).
RoundTrip ==
    /\ last.op = "receive" => val = carrier.of
    /\ last.op = "compose" /\ ~carrier.edited =>
           last.ok /\ val = Restored(type, carrier.of)

\* A bag that is refused leaves no mixture behind: each part of the value is
\* wholly the old one or wholly what the bag holds, the last part is the old
\* one, and so is a value of one part.  An array has been resized
\* (JntArrayTypeInfo::composeType), but an element of it is the one of its
\* number in the bag, or the old one of its number, or a new zero.
RefusedKeepsParts ==
    last.op = "compose" /\ ~last.ok =>
        CASE type \in Composite ->
               LET parts == Parts[type]
               IN  /\ val[parts[2]] = last.before[parts[2]]
                   /\ \/ val[parts[1]] = last.before[parts[1]]
                      \/ val[parts[1]] =
                           VectorComposer(Get(carrier.data, parts[1]),
                                          last.before[parts[1]]).val
          [] type = "JntArray" ->
               \A i \in DOMAIN val :
                  \/ HasElement(carrier.data, i) /\ val[i] = Element(carrier.data, i)
                  \/ val[i] = IF i \in DOMAIN last.before THEN last.before[i] ELSE 0
          [] OTHER -> val = last.before

\* Every member that a script finds by name (Types.hpp) is an entry of the
\* bag with that name.
Entries(b, v, members) ==
    \A n \in DOMAIN members : Has(b, n, "double") /\ Get(b, n) = v[members[n] + 1]

\* The names under which a script finds the numbers of a vector, a twist, a
\* wrench and the origin of a frame (Types.hpp) are the names under which the
\* bag holds them, and the index of an element of an array is the number in
\* its name.  For a rotation the two differ: the bag has angles, and none of
\* the names by which a script finds the entries of the matrix.
NamesAgree ==
    last.op = "decompose" =>
        LET Agrees(b, v, members) ==
                IF members = RotationMembers
                THEN \A n \in DOMAIN members : Find(b, n) = {}
                ELSE Entries(b, v, members)
        IN  /\ type = "Vector" => Agrees(carrier.data, val, VectorMembers)
            /\ type = "Rotation" => Agrees(carrier.data, val, RotationMembers)
            /\ type = "JntArray" =>
                 \A i \in DOMAIN val : HasElement(carrier.data, i)
                                       /\ Element(carrier.data, i) = val[i]
            /\ type \in Composite =>
                 \A part \in DOMAIN PartMembers[type] :
                    /\ Has(carrier.data, part, "bag")
                    /\ Agrees(Get(carrier.data, part), val[part], PartMembers[type][part])

\* A bag that is accepted, edited or not, determines the whole value: nothing
\* of what the variable held before is left in it.  A vector has the first
\* entry of each name, an array the element of each number, a rotation the
\* angles R, P and Y if they are there, else the Euler angles if they are, and
\* else the entries under the names of all its members.
AcceptedIsNamed ==
    last.op = "compose" /\ last.ok =>
        LET Holds(b, v, members) ==
                IF members = RotationMembers
                THEN IF RPYComposer(b, v).ok THEN RPYComposer(b, v).val = v
                     ELSE IF EulerZYXComposer(b, v).ok THEN EulerZYXComposer(b, v).val = v
                     ELSE Entries(b, v, members)
                ELSE Entries(b, v, members)
        IN  /\ type = "Vector" => Holds(carrier.data, val, VectorMembers)
            /\ type = "Rotation" => Holds(carrier.data, val, RotationMembers)
            /\ type = "JntArray" =>
                 \A i \in DOMAIN val : HasElement(carrier.data, i)
                                       /\ Element(carrier.data, i) = val[i]
            /\ type \in Composite =>
                 \A part \in DOMAIN PartMembers[type] :
                    Holds(Get(carrier.data, part), val[part], PartMembers[type][part])

=============================================================================
