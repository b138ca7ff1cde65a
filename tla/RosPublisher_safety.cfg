SPECIFICATION Spec
CONSTANTS
    Spinners = {e1, e2}
    Size = 2
    MaxWrites = 4
SYMMETRY Symmetry
INVARIANTS
    TypeOK
    NoForgottenSample
    InOrder
    AcceptedIsKept
    NoFuncAfterCancel
