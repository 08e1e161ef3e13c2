SPECIFICATION FairSpec
CONSTANTS
    Threads = {t1, t2}
    NoThread = NoThread
    MaxOperations = 4
    MaxGeneration = 1
INVARIANTS TypeOK NoLeak CachedUsable ClosedIsFinal FreshAfterReload
PROPERTIES ReloadAtomic LockReleased
CHECK_DEADLOCK FALSE
