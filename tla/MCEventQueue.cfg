CONSTANTS
    t1 = t1
    t2 = t2
    e1 = e1
    e2 = e2
    e3 = e3
    c1 = c1
    c2 = c2
    Thread <- Clients
    Event <- Events
    Camera <- Cameras
    CameraOf <- Queued
    Home <- Homes
    Outcomes <- AllOutcomes
    NoThread = NoThread
    MaxClock = 3
    MaxRuns = 2
    MaxBoots = 1
SPECIFICATION QueueSpec
SYMMETRY QueuedSymmetry
PROPERTY
    ImplementsCameraQueue
CHECK_DEADLOCK FALSE
