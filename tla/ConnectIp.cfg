\* HTTP/3: two senders, one taker, one closer, one kind of capsule; all ranges of 5-bit addresses.
SPECIFICATION MCSpec
CONSTANTS
    ControlCapsules = TRUE
    Kinds = {"addresses"}
    Senders = {s1, s2}
    Takers = {t1}
    Closers = {closer}
    NoSender = NoSender
    Values = {none, some}
    Nothing = none
    AddressBits = 5
INVARIANTS
    TypeOK
    NoLostNotification
    OffersEnd
    SidesAgree
    RangeCovered
PROPERTIES
    ImplementsLife
    AllEnd
CHECK_DEADLOCK FALSE
