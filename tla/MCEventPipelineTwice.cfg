CONSTANTS
    t1 = t1
    t2 = t2
    e1 = e1
    e2 = e2
    c1 = c1
    Thread <- MCThread
    Event <- MCEvent
    Camera <- MCCamera
    CameraOf <- MCCameraOf
    Outcomes <- MCOutcomes
    NoThread = NoThread
    MaxClock = 2
    MaxRuns = 2
    MaxBoots = 0
SPECIFICATION Spec
SYMMETRY Symmetry
INVARIANT
    ExecutedAtMostOnce
CHECK_DEADLOCK FALSE
