\* The comment on pumpShutdownGrace, against the code.
SPECIFICATION Spec
CONSTANTS
    AlwaysReconnect = TRUE
    UseHTTP2 = FALSE
    ExternalUDP = FALSE
    MaxDials = 2
INVARIANTS
    AtMostOneDeviceReader
CHECK_DEADLOCK FALSE
