SPECIFICATION Spec
CONSTANTS
    Goals = {g1, g2, g3}
    NoGoal = NoGoal
    Callers = {caller}
    Owner = owner_thread
    QueueSize = 2
    MaxShutdowns = 1
SYMMETRY Symmetry
INVARIANTS
    TypeOK
    SlotsMatchStates
    ExecutingIsActive
    CanceledHasCause
    HookSeesItsGoal
    CancelIsHandled
