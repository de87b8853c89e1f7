CONSTANTS
    u1 = u1
    u2 = u2
    User = {u1, u2}
    Fs = Fs
    Mounter = Mounter
    Shutdown = Shutdown
    NoUser = NoUser
SPECIFICATION FairSpec
INVARIANTS
    OkMeansUnmounted
    BackendOutlivesDispatcher
    FailedMountLeavesNothing
PROPERTIES
    UnmountReturns
CHECK_DEADLOCK FALSE
