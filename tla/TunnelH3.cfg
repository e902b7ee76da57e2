\* HTTP/3, an owned socket, always reconnecting: the interleavings of two
\* connections, the first with goroutines that outlive it.
SPECIFICATION FairSpec
CONSTANTS
    AlwaysReconnect = TRUE
    UseHTTP2 = FALSE
    ExternalUDP = FALSE
    MaxDials = 2
INVARIANTS
    TypeOK
    ReportNeverBlocks
    ShutdownClosedOnce
    PumpExitIsSignalled
    ReleasedBetweenDials
PROPERTIES
    ReturnsAfterCancel
    LossIsNoticed
    AllGoroutinesEnd
CHECK_DEADLOCK FALSE
