CONSTANTS
    Main = Main
    Fs = Fs
    Mounter = Mounter
    Shutdown = Shutdown
    User = {Main}
    NoUser = NoUser
    None = None
    Udid <- MCUdid
    App <- MCApp
    MaxDevices = 2
    CommandLines <- MCCommandLines
    Builders <- MCBuilders
SPECIFICATION FairProgramSpec
INVARIANTS
    ExitUnmounts
CHECK_DEADLOCK FALSE
