CONSTANTS
    t1 = t1
    t2 = t2
    e1 = e1
    e2 = e2
    c1 = c1
    Thread <- MCThread
    Event <- MCEvent
    Camera <- MCCamera
    CameraOf <- MCCameraOf
    Outcomes <- MCOutcomes
    NoThread = NoThread
    MaxClock = 0
    MaxRuns = 2
    MaxBoots = 1
SPECIFICATION Spec
SYMMETRY Symmetry
INVARIANTS
    TypeOK
    RowsConverge
    MarkedWasExecuted
PROPERTY
    ArchiveIsInert
CHECK_DEADLOCK FALSE
