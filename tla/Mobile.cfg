\* Two StartTunnel and two StopTunnel calls that overlap in any way, given one TUN
\* descriptor or two.
SPECIFICATION FairSpec
CONSTANTS
    Starts = {s1, s2}
    Stops = {t1, t2}
    Fds = {f1, f2}
    Reported = {"connected", "error"}
    None = None
INVARIANTS
    OneEngine
    DescriptorsFollowEngine
    StoppedIsTheLastWord
PROPERTIES
    StopReturns
    UsesTunnelLife
CHECK_DEADLOCK FALSE
