SPECIFICATION FairSpec
CONSTANTS
    Units <- AllUnits
    Transport <- AllTransport
    MaxRunning = 1
INVARIANTS
    StopHookAfterHandlers
    HandlersWaitForStarted
    ClientsClosedLast
    TerminatedIsQuiet
PROPERTIES
    Terminates
CHECK_DEADLOCK FALSE
