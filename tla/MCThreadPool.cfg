CONSTANTS
    k1 = k1
    k2 = k2
    k3 = k3
    k4 = k4
    Nothing = Nothing
    N = 3
    Capacity = 1
    Task <- Tasks
    Hung <- TwoHung
SPECIFICATION FairSpec
INVARIANTS
    TypeOK
    WaitingTasksAreSomewhere
PROPERTIES
    WaitersAreAnswered
    DestructorEnds
CHECK_DEADLOCK FALSE
