------------------------------ MODULE BbrSender -------------------------------
(***************************************************************************)
(* The BBR sender's modes, windows and recovery                            *)
(* (congestion/bbr/bbr_sender.go).  Bytes are counted in units: a packet   *)
(* is one unit and the datagram size a few.  What the sampler, the filter  *)
(* and the clock say in an event is chosen (BandwidthSampler models where  *)
(* it comes from): the bandwidth-delay product, whether a sample was       *)
(* limited by the data, whether min_rtt, the gain cycle and PROBE_RTT have *)
(* run out.  An event takes the oldest packets, the lost ones first, and   *)
(* packet numbers are counted from the oldest outstanding one.  A field    *)
(* that is set before it is read again is put back to its first value.     *)
(***************************************************************************)
EXTENDS Integers, FiniteSetsExt

CONSTANTS
    Profiles,          \* of ProfileStandard, ProfileConservative, ProfileAggressive
    Products,          \* bandwidth-delay products, 0 before the first sample
    DatagramSizes,     \* of SetMaxDatagramSize, the first one being the smallest
    InitialPackets,    \* initialCongestionWindow in datagrams (32)
    MaxPackets,        \* maxCongestionWindow in datagrams
    MinPackets,        \* minCongestionWindowPackets (4)
    PacketBuffer,      \* congestion.MaxPacketBufferSize
    FullLossCount,     \* defaultStartupFullLossCount (8)
    Heights,           \* ack heights and excess
    CycleLength,       \* gainCycleLength (8)
    CycleStarts,       \* the offsets that PROBE_BW may start at, of 0, 2 .. CycleLength - 1
    MaxBatch,          \* bound on the packets of an event
    MaxRecovery        \* bound on the recovery window, which nothing else bounds while it grows

ASSUME SenderAssumption ==
    /\ Products \subseteq Nat /\ Heights \subseteq Nat /\ CycleStarts \subseteq Nat
    /\ MinPackets \in Nat \ {0} /\ InitialPackets \in Nat /\ MaxPackets \in Nat
    /\ MinPackets <= InitialPackets /\ InitialPackets <= MaxPackets
    /\ PacketBuffer \in Nat /\ FullLossCount \in Nat /\ CycleLength \in Nat \ {0} /\ MaxBatch \in Nat
    /\ DatagramSizes \subseteq Nat \ {0}
    /\ \E least, most \in DatagramSizes : \A s \in DatagramSizes : least <= s /\ s <= most

VARIABLES
    profile,
    size,        \* maxDatagramSize
    mode,        \* startup, drain, probeBw, probeRtt
    gains,       \* pacing and window gain, in thousandths
    offset,      \* cycleCurrentOffset
    full,        \* isAtFullBandwidth
    startup,     \* bandwidthAtLastRound, roundsWithoutBandwidthGain, the losses of the round
    product,     \* the bandwidth-delay product of the filter's best and min_rtt
    cwnd,        \* congestionWindow
    ackedBytes,  \* sampler.TotalBytesAcked, up to the initial window of the largest datagram
    recovery,    \* state, window, and how many of the outstanding packets endRecoveryAt covers
    roundEnd,    \* how many of the outstanding packets currentRoundTripEnd covers
    inFlight,    \* the packets in flight
    exiting,     \* exitingQuiescence
    leaveAt      \* PROBE_RTT: unset, set, or set with a round passed

senderVars == <<profile, size, mode, gains, offset, full, startup, product, cwnd, ackedBytes,
                recovery, roundEnd, inFlight, exiting, leaveAt>>

AtLeast(x, y) == IF x > y THEN x ELSE y
AtMost(x, y) == IF x < y THEN x ELSE y

\* configForProfile; growth is in rounds, gains in thousandths.
ConfigFor(p) ==
    IF p = "conservative" THEN [high |-> 2250, highCwnd |-> 1750, cwnd |-> 1750, rounds |-> 2,
                                drainToTarget |-> TRUE, aggregation |-> FALSE]
    ELSE IF p = "aggressive" THEN [high |-> 3000, highCwnd |-> 2250, cwnd |-> 2500, rounds |-> 4,
                                drainToTarget |-> FALSE, aggregation |-> TRUE]
    ELSE [high |-> 2885, highCwnd |-> 2000, cwnd |-> 2000, rounds |-> 3,
                                drainToTarget |-> FALSE, aggregation |-> FALSE]

Config == ConfigFor(profile)

\* pacingGain: the cycle of PROBE_BW.
CycleGain(i) == IF i = 0 THEN 1250 ELSE IF i = 1 THEN 750 ELSE 1000

InitialWindow(s) == InitialPackets * s
MaxWindow(s) == MaxPackets * s
MinWindow(s) == MinPackets * s

\* getTargetCongestionWindow
Target(gain, bdp) ==
    LET window == (gain * bdp) \div 1000
    IN  AtLeast(IF window = 0 THEN (gain * InitialWindow(size)) \div 1000 ELSE window, MinWindow(size))

NoGrowth == [last |-> 0, stalled |-> 0, losses |-> 0]
NotInRecovery == [state |-> "none", window |-> 0, end |-> 0]

SenderInit ==
    /\ profile \in Profiles
    /\ size = Min(DatagramSizes)
    /\ mode = "startup" /\ gains = [pacing |-> Config.high, cwnd |-> Config.highCwnd] /\ offset = 0
    /\ full = FALSE /\ startup = NoGrowth
    /\ product = 0
    /\ cwnd = InitialWindow(size) /\ ackedBytes = 0
    /\ recovery = NotInRecovery
    /\ roundEnd = 0 /\ inFlight = 0 /\ exiting = FALSE /\ leaveAt = "unset"

-------------------------------------------------------------------------------

\* GetCongestionWindow
CongestionWindow ==
    IF mode = "probeRtt" THEN MinWindow(size)
    ELSE IF recovery.state # "none" THEN AtMost(cwnd, recovery.window) ELSE cwnd

\* OnPacketSent of the sender, by a caller that asked CanSend.
SenderPacketSent ==
    /\ inFlight < CongestionWindow
    /\ inFlight' = inFlight + 1
    /\ exiting' = (exiting \/ inFlight = 0)
    /\ UNCHANGED <<profile, size, mode, gains, offset, full, startup, product, cwnd, ackedBytes,
                   recovery, roundEnd, leaveAt>>

\* rescalePacketSizedWindows and what SetMaxDatagramSize makes of the windows.
SetMaxDatagramSize(s) ==
    /\ s >= size
    /\ size' = s
    /\ cwnd' = CASE cwnd = MinWindow(size) -> MinWindow(s)
                 [] cwnd = InitialWindow(size) /\ cwnd # MinWindow(size) -> InitialWindow(s)
                 [] OTHER -> AtMost(MaxWindow(s), AtLeast(cwnd, MinWindow(s)))
    /\ recovery' = IF recovery.state = "none" THEN recovery
                   ELSE [recovery EXCEPT !.window = AtMost(MaxWindow(s), AtLeast(@, MinWindow(s)))]
    /\ UNCHANGED <<profile, mode, gains, offset, full, startup, product, ackedBytes, roundEnd,
                   inFlight, exiting, leaveAt>>

-------------------------------------------------------------------------------
(* OnCongestionEventEx, in the order of its steps.  The steps hand on a    *)
(* record of the fields that they and the later ones change; n of the      *)
(* oldest packets are gone, of which the last is the largest acknowledged  *)
(* when acks > 0.                                                          *)

WithRecovery(st, state, window, end, round) ==
    [st EXCEPT !.recovery = [state |-> state, window |-> window, end |-> end], !.roundEnd = round]

\* updateRecoveryState; the window of 0 is for calculateRecoveryWindow.  Packets count from
\* before the event here.
RecoveryOf(st, n, losses, newRound) ==
    LET end  == IF losses > 0 THEN inFlight ELSE st.recovery.end
        over == losses = 0 /\ n > st.recovery.end
    IN  IF ~full THEN st
        ELSE IF st.recovery.state = "none"
        THEN IF losses = 0 THEN st ELSE WithRecovery(st, "conservation", 0, end, inFlight)
        ELSE IF over THEN WithRecovery(st, "none", 0, 0, st.roundEnd)
        ELSE WithRecovery(st, IF newRound THEN "growth" ELSE st.recovery.state, st.recovery.window, end, st.roundEnd)

\* The counts that find the full bandwidth, and whether it is found.
WithStartup(st, last, stalled, losses, found) ==
    [st EXCEPT !.startup = [last |-> last, stalled |-> stalled, losses |-> losses], !.full = found]

\* A mode, a place in the gain cycle and the gains.
WithMode(st, m, i, pacing, window) ==
    [st EXCEPT !.mode = m, !.offset = i, !.gains = [pacing |-> pacing, cwnd |-> window]]

\* enterStartupMode
EnterStartup(st) == WithMode(st, "startup", st.offset, Config.high, Config.highCwnd)

\* enterProbeBandwidthMode, at an offset that is drawn.
EnterProbeBandwidth(st, i) == WithMode(st, "probeBw", i, CycleGain(i), Config.cwnd)

\* updateGainCyclePhase
GainCycle(st, prior, losses, passed) ==
    LET pacing  == st.gains.pacing
        drained == st.inFlight <= Target(1000, st.product)
        advance == \/ /\ passed
                      /\ ~(pacing > 1000 /\ losses = 0 /\ prior < Target(pacing, st.product))
                   \/ pacing < 1000 /\ drained
        i       == (st.offset + 1) % CycleLength
        stay    == Config.drainToTarget /\ pacing < 1000 /\ CycleGain(i) = 1000 /\ ~drained
    IN  IF st.mode # "probeBw" \/ ~advance THEN st
        ELSE WithMode(st, "probeBw", i, IF stay THEN pacing ELSE CycleGain(i), st.gains.cwnd)

\* checkIfFullBandwidthReached, with shouldExitStartupDueToLoss: enough losing events in the
\* round, whose bytes exceed a share of what was in flight when the last packet was sent.  That the
\* aggressive profile also resets the acknowledgement heights when the bandwidth grew is the
\* sampler's ResetMaxAckHeightTracker.
FullBandwidth(st, newRound, limited, heavy) ==
    IF ~newRound \/ st.full \/ limited THEN st
    ELSE IF 4 * st.product >= 5 * st.startup.last
    THEN WithStartup(st, st.product, 0, st.startup.losses, FALSE)
    ELSE WithStartup(st, st.startup.last, st.startup.stalled + 1, st.startup.losses,
                     \/ st.startup.stalled + 1 >= Config.rounds
                     \/ st.startup.losses >= FullLossCount /\ heavy)

\* maybeExitStartupOrDrain
ExitStartupOrDrain(st, i) ==
    LET left == IF st.mode = "startup" /\ st.full
                THEN WithMode(st, "drain", st.offset, 1000000 \div Config.high, Config.highCwnd) ELSE st
    IN  IF left.mode = "drain" /\ left.inFlight <= Target(1000, left.product)
        THEN EnterProbeBandwidth(left, i) ELSE left

WithLeave(st, at) == [st EXCEPT !.leaveAt = at]

\* Variant: PROBE_RTT is always left for PROBE_BW.
LeaveProbeRttForProbeBw(st, i) == EnterProbeBandwidth(WithLeave(st, "unset"), i)

LeaveProbeRtt(st, i) ==
    IF st.full THEN EnterProbeBandwidth(WithLeave(st, "unset"), i) ELSE EnterStartup(WithLeave(st, "unset"))

\* maybeEnterOrExitProbeRtt
ProbeRtt(st, newRound, expired, over, i) ==
    LET in     == IF expired /\ ~exiting /\ st.mode # "probeRtt"
                  THEN WithMode(st, "probeRtt", 0, 1000, st.gains.cwnd) ELSE st
        passed == newRound \/ in.leaveAt = "roundPassed"
    IN  IF in.mode # "probeRtt" THEN in
        ELSE IF in.leaveAt = "unset"
        THEN IF in.inFlight < MinWindow(size) + PacketBuffer THEN WithLeave(in, "set") ELSE in
        ELSE IF ~passed THEN in
        ELSE IF over THEN LeaveProbeRtt(in, i) ELSE WithLeave(in, "roundPassed")

\* calculateCongestionWindow, of the sampler's ack height and the event's excess.
NewCongestionWindow(st, acks, height, excess) ==
    LET target == Target(st.gains.cwnd, st.product)
                  + (IF st.full THEN height ELSE IF Config.aggregation THEN excess ELSE 0)
        grown  == IF st.full THEN AtMost(target, cwnd + acks)
                  ELSE IF cwnd < target \/ st.ackedBytes < InitialWindow(size) THEN cwnd + acks ELSE cwnd
    IN  IF st.mode = "probeRtt" THEN cwnd
        ELSE AtMost(AtLeast(grown, MinWindow(size)), MaxWindow(size))

\* Variant: the first window of a recovery is what is in flight.
RecoveryWindowAsFound(st, acks, losses) ==
    IF st.recovery.state = "none" \/ st.recovery.window # 0 THEN st.recovery.window ELSE st.inFlight + acks

\* calculateRecoveryWindow
RecoveryWindow(st, acks, losses) ==
    LET window == st.recovery.window
        lost   == IF window >= losses THEN window - losses ELSE size
        grown  == IF st.recovery.state = "growth" THEN lost + acks ELSE lost
    IN  IF st.recovery.state = "none" THEN window
        ELSE IF window = 0 THEN AtLeast(MinWindow(size), st.inFlight + acks)
        ELSE AtLeast(MinWindow(size), AtLeast(grown, st.inFlight + acks))

\* Packets that were counted from before the event, from after it.
Rebased(count, n) == AtLeast(count - n, 0)

\* What an event finds besides the packets, of which only what the mode looks at is chosen.
Choice(matters) == IF matters THEN BOOLEAN ELSE {FALSE}

Findings ==
    [product: Products, limited: Choice(~full), heavy: Choice(~full), passed: Choice(mode = "probeBw"),
     expired: Choice(mode # "probeRtt"), over: Choice(leaveAt # "unset"), extra: Heights, start: CycleStarts]

\* A round ends with an acknowledgement beyond the packets that it began with.
RoundPassed(acks, losses) == acks > 0 /\ acks + losses > roundEnd

\* numLossEventsInRound, up to what the exit asks for.
LossCounted(st, losses) ==
    LET n == IF losses > 0 THEN AtMost(st.startup.losses + 1, FullLossCount) ELSE st.startup.losses
    IN  WithStartup(st, st.startup.last, st.startup.stalled, n, st.full)

\* The first steps, up to the recovery and the losing events of the round.
Started(acks, losses, f) ==
    [recovery |-> recovery, mode |-> mode, gains |-> gains, offset |-> offset, full |-> full,
     startup |-> startup, product |-> f.product, inFlight |-> inFlight - (acks + losses),
     ackedBytes |-> AtMost(ackedBytes + acks, InitialWindow(Max(DatagramSizes))),
     roundEnd |-> IF RoundPassed(acks, losses) THEN inFlight ELSE roundEnd, leaveAt |-> leaveAt]
Recovered(acks, losses, f) ==
    IF acks = 0 THEN Started(acks, losses, f)
    ELSE RecoveryOf(Started(acks, losses, f), acks + losses, losses, RoundPassed(acks, losses))
Counted(acks, losses, f) == LossCounted(Recovered(acks, losses, f), losses)

\* The steps that move the mode.
Cycled(acks, losses, f) == GainCycle(Counted(acks, losses, f), inFlight, losses, f.passed)
Checked(acks, losses, f) ==
    FullBandwidth(Cycled(acks, losses, f), RoundPassed(acks, losses), f.limited, f.heavy)
Exited(acks, losses, f) == ExitStartupOrDrain(Checked(acks, losses, f), f.start)
Stepped(acks, losses, f) ==
    ProbeRtt(Exited(acks, losses, f), RoundPassed(acks, losses), f.expired, f.over, f.start)

\* What the event leaves, from the record that its steps hand on.
Leaves(st, acks, losses, f) ==
    /\ mode' = st.mode /\ gains' = st.gains /\ offset' = st.offset /\ full' = st.full
    /\ startup' = IF st.full THEN NoGrowth
                  ELSE [st.startup EXCEPT !.losses = IF RoundPassed(acks, losses) THEN 0 ELSE @]
    /\ product' = st.product /\ inFlight' = st.inFlight
    /\ ackedBytes' = IF st.full THEN 0 ELSE st.ackedBytes
    /\ leaveAt' = st.leaveAt
    /\ cwnd' = NewCongestionWindow(st, acks, f.extra, f.extra)
    /\ recovery' = [state |-> st.recovery.state, window |-> RecoveryWindow(st, acks, losses),
                     end |-> Rebased(st.recovery.end, acks + losses)]
    /\ roundEnd' = Rebased(st.roundEnd, acks + losses)
    /\ exiting' = FALSE
    /\ UNCHANGED <<profile, size>>

OnCongestionEventEx(acks, losses, f) == Leaves(Stepped(acks, losses, f), acks, losses, f)

SenderEvent ==
    \E acks, losses \in 0 .. MaxBatch :
        /\ acks + losses \in 1 .. AtMost(inFlight, MaxBatch)
        /\ \E f \in Findings :
            /\ acks > 0 => f.product > 0 \/ product = 0
            /\ acks = 0 => f.product = product
            /\ OnCongestionEventEx(acks, losses, f)
            /\ recovery'.window <= MaxRecovery

SenderNext == SenderPacketSent \/ SenderEvent \/ (\E s \in DatagramSizes : SetMaxDatagramSize(s))

SenderSpec == SenderInit /\ [][SenderNext]_senderVars

-------------------------------------------------------------------------------
(* Properties.                                                             *)

\* The sender can always send when nothing is in flight, and never beyond its limit: whatever the
\* losses, the rounds, the modes and a change of the datagram size, no window falls below the
\* minimum, the window of 0 that opens a recovery included, and the congestion window respects
\* the maximum.
WindowUsable ==
    /\ cwnd \in MinWindow(size) .. MaxWindow(size)
    /\ CongestionWindow >= MinWindow(size)
    /\ recovery.state # "none" => recovery.window >= MinWindow(size)

\* The fields that each step of an event changes on its own agree after it: a mode or a recovery
\* that the full bandwidth leads to is never seen without it, STARTUP never with it, and the
\* gains are those of the mode.
ModesAgree ==
    /\ mode \in {"drain", "probeBw"} \/ recovery.state # "none" => full
    /\ mode = "startup" => ~full /\ gains = [pacing |-> Config.high, cwnd |-> Config.highCwnd]
    /\ mode = "drain" => gains.pacing < 1000 /\ inFlight > 0
    /\ mode = "probeRtt" => gains.pacing = 1000
    /\ mode = "probeBw" =>
           \/ gains.pacing = CycleGain(offset)
           \/ Config.drainToTarget /\ gains.pacing = 750 /\ CycleGain(offset) = 1000
===============================================================================
