SPECIFICATION FairSpec
CONSTANTS
    Names = {n1, n2}
    Types = {"a", "b"}
    Callers = {"call"}
    Ops = {"opa", "opv"}
    Signature <- MCSignature
    Variants <- MCVariants
    OwnThread = {"opv"}
    MaxClients = 2
    MaxRequests = 1
    None = None
    Dangling = Dangling
INVARIANTS
    CallerHasClient
    ServerFits
    InFlightHasClient
PROPERTY CallReturnsUnlessBlocked
CHECK_DEADLOCK FALSE
