SPECIFICATION FairSpec
CONSTANTS
    t1 = t1
    t2 = t2
    t3 = t3
    p1 = p1
    p2 = p2
    Threads <- MCThreads
    Processes <- MCProcesses
    ProcessOf <- MCProcessOf
    Nobody = Nobody
    MaxFacts = 1
    MaxDepth = 2
INVARIANTS LockTypeOK MutualExclusion BackupIsCurrent
PROPERTIES ImplementsDatabase LocksAreReleased
