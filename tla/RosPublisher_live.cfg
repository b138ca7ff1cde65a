SPECIFICATION FairSpec
CONSTANTS
    Spinners = {e1}
    Size = 2
    MaxWrites = 3
PROPERTIES
    EventuallyPublished
    DestructorReturns
