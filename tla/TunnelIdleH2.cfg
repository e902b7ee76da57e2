\* HTTP/2, waiting for outbound traffic before each dial.
SPECIFICATION FairSpec
CONSTANTS
    AlwaysReconnect = FALSE
    UseHTTP2 = TRUE
    ExternalUDP = FALSE
    MaxDials = 2
PROPERTIES
    ReturnsAfterCancel
    LossIsNoticed
CHECK_DEADLOCK FALSE
