CONSTANTS
    t1 = t1
    t2 = t2
    c1 = c1
    Thread <- OneThread
    Camera <- OneCamera
    MaxBoots = 0
SPECIFICATION IdleSpec
INVARIANT
    CommandsAreAnswered
CHECK_DEADLOCK FALSE
