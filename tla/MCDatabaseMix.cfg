CONSTANTS
    t1 = t1
    t2 = t2
    o1 = o1
    o2 = o2
    o3 = o3
    b1 = b1
    b2 = b2
    Thread <- TwoThreads
    Object <- ThreeObjects
    Body <- TwoBodies
    Mix <- OneMix
SPECIFICATION Spec
INVARIANT
    SuccessfulAddsAreStored
SYMMETRY Swaps
CHECK_DEADLOCK FALSE
