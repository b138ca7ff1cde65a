SPECIFICATION FairSpec
CONSTANT MaxSpins = 2
PROPERTY
    CancelReturns
CHECK_DEADLOCK FALSE
