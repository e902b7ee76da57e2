SPECIFICATION Spec
CONSTANTS
    FilterWindow = 4
    FilterSamples = {0, 1, 2, 3}
    MaxRound = 10
    Scale = 4
    MaxBandwidths = {4}
    RingSizes = {2}
    HeightWindow = 2
    PacketThreshold = 3
    Earlier = {0, 2}
    MaxPacket = 4
    AckOnly = {3}
    LimitedAt <- LimitedPackets
    MaxInFlight = 4
    MaxSilent = 1
    MaxTime = 4
    Profiles = {"conservative", "aggressive"}
    Products = {0, 3}
    DatagramSizes = {1, 2}
    InitialPackets = 2
    MaxPackets = 3
    MinPackets = 1
    PacketBuffer = 1
    FullLossCount = 2
    Heights = {1}
    CycleLength = 4
    CycleStarts = {0, 2}
    MaxBatch = 2
    MaxRecovery = 7
INVARIANTS
    FilterBounds
    InFlightIsTracked
    SamplesAreSound
    WindowUsable
    ModesAgree
\* The bounds stop every part.
CHECK_DEADLOCK FALSE
