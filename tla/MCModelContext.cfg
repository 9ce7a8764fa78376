CONSTANTS
    t1 = t1
    t2 = t2
    u1 = u1
    u2 = u2
    g1 = g1
    Thread <- TwoThreads
    User <- TwoUsers
    Target <- OneTarget
    Zero = Zero
    MaxLost = 1
    MaxBoots = 1
SPECIFICATION Spec
SYMMETRY Swaps
INVARIANTS
    TypeOK
    
    ObjectsMatchRows
    RightsAreStored
CHECK_DEADLOCK FALSE
