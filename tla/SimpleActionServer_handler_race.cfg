SPECIFICATION Spec
CONSTANTS
    Goals = {g1, g2}
    NoGoal = NoGoal
    Callers = {caller}
    Owner = owner_thread
    QueueSize = 2
    MaxShutdowns = 0
INVARIANT
    CancelHandlerSeesCanceling
