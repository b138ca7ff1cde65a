SPECIFICATION FairSpec
CONSTANTS
    Goals = {g1, g2}
    NoGoal = NoGoal
    Callers = {caller}
    Owner = owner_thread
    QueueSize = 1
    MaxShutdowns = 1
PROPERTIES
    CancelTerminates
    GoalIsDeferred
    RefinesSlots
