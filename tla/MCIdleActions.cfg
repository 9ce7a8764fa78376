CONSTANTS
    t1 = t1
    t2 = t2
    c1 = c1
    Thread <- TwoThreads
    Camera <- OneCamera
    MaxBoots = 1
SPECIFICATION IdleSpec
INVARIANTS
    ReplicasMatchModel
    OnlyEditedCamerasAreFatal
    EachWaiterHasOneTask
    IdleTypeOK
    OneFramePerCamera
PROPERTIES
    RequestsReturn
    UnattendedIsSentHome
CHECK_DEADLOCK FALSE
