CONSTANTS
    p1 = p1
    p2 = p2
    c1 = c1
    c2 = c2
    k1 = k1
    k2 = k2
    k3 = k3
    Thread <- Everybody
    Producer <- Posters
    Consumer <- Poppers
    Task <- ThreeTasks
    Nothing = Nothing
    Size = 2
SPECIFICATION FairSpec
INVARIANTS
    TypeOK
    CellsAreExclusive
PROPERTIES
    RefusalsAreTrue
    ImplementsFifo
    OperationsReturn
CHECK_DEADLOCK FALSE
