SPECIFICATION FairSpec
CONSTANT MaxSpins = 5
INVARIANTS
    OneSpinner
    SpinIsClean
    SettledWhenIdle
PROPERTY
    StopIsHeard
CHECK_DEADLOCK FALSE
