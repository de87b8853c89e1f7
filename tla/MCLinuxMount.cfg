CONSTANTS
    u1 = u1
    u2 = u2
    User = {u1, u2}
    Fs = Fs
    Mounter = Mounter
    Shutdown = Shutdown
    NoUser = NoUser
SPECIFICATION FairSpec
INVARIANTS
    AllReturnedMeansGone
    OkMeansBackendStopped
    FailedMountLeavesNothing
PROPERTIES
    UnmountEnds
CHECK_DEADLOCK FALSE
