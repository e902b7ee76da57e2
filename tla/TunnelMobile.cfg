\* The caller's UDP socket, as the Android binding passes it.
SPECIFICATION Spec
CONSTANTS
    AlwaysReconnect = TRUE
    UseHTTP2 = FALSE
    ExternalUDP = TRUE
    MaxDials = 2
INVARIANTS
    ReleasedBetweenDials
PROPERTIES
    ImplementsTunnelLife
CHECK_DEADLOCK FALSE
