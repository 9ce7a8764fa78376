CONSTANTS
    t1 = t1
    t2 = t2
    e1 = e1
    e2 = e2
    e3 = e3
    c1 = c1
    c2 = c2
    Thread <- Clients
    Event <- Events
    Camera <- Cameras
    CameraOf <- Shared
    Home <- Homes
    Outcomes <- Obeys
    NoThread = NoThread
    MaxClock = 3
    MaxRuns = 2
    MaxBoots = 0
SPECIFICATION QueueFairSpec
INVARIANT
    ExecutedAtMostOnce
PROPERTIES
    ImplementsCameraQueue
    EveryEventProcessed
    RequestsReturn
CHECK_DEADLOCK FALSE
