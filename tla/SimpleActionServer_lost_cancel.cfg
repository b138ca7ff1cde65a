SPECIFICATION FairSpec
CONSTANTS
    Goals = {g1, g2}
    NoGoal = NoGoal
    Callers = {}
    Owner = owner_thread
    QueueSize = 1
    MaxShutdowns = 0
PROPERTY
    CanceledGoalIsFinished
