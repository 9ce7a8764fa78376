CONSTANTS
    t1 = t1
    t2 = t2
    s1 = s1
    Thread <- TwoThreads
    Session <- OneSession
    Lifetime = 1
    MaxTime = 3
    MaxBoots = 1
SPECIFICATION FairSpec
INVARIANTS
    TypeOK
    OpenEntriesAreUsable
    ClosedSessionsAreOut
    RowsFollowEntries
PROPERTIES
    ExpiryIsNoticed
    LogoutIsRecorded
    StopIsHeard
CHECK_DEADLOCK FALSE
