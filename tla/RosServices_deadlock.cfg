SPECIFICATION FairSpec
CONSTANTS
    Names = {n1, n2}
    Types = {"a", "b"}
    Callers = {"call"}
    Ops = {"opv"}
    Signature <- MCSignature
    Variants <- MCVariants
    OwnThread = {"opv"}
    MaxClients = 1
    MaxRequests = 1
    None = None
    Dangling = Dangling
PROPERTY CallReturns
CHECK_DEADLOCK FALSE
