SPECIFICATION Spec
CONSTANTS
    RPY <- MCRPY
    EulerZYX <- MCEulerZYX
    GetRPY <- MCGetRPY
    ProperRotations <- MCProperRotations
    Poses <- MCPoses
    Transports = {"corba", "mqueue"}
    MaxJoints = 3
    Chains <- MCChains
    MaxKdlSteps = 4
    MessageMembers <- MCMessageMembers
    RegisteredTypes <- MCRegisteredTypes
    MaxMemberSteps = 5
    Clients = {c1, c2}
    Names = {"q"}
    Override <- MCOverride
    PropertyType <- MCPropertyType
    Arguments <- MCArguments
    IntHalf = 4
    FloatStep = 2
    MaxParamCalls = 4
    Half <- MCHalf
    NanoPerSec = 10
    MaxConversions = 4
    MaxSize = 2
    MaxSamples = 3
    MaxStreams = 2
SYMMETRY Symmetry
INVARIANTS
    RoundTrip
    RefusedKeepsParts
    NamesAgree
    AcceptedIsNamed
    ValueIsFresh
    FailureHasRival
    SetIsFound
    AutomaticKeepsValue
    LatestArrives
PROPERTIES
    WriteTouchesOneMember
    TrueMeansHeld
    LoadedIsStored
CHECK_DEADLOCK FALSE
