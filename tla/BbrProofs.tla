------------------------------ MODULE BbrProofs -------------------------------
(***************************************************************************)
(* The windows and the modes of the BBR sender, for every window size, set *)
(* of datagram sizes, profile and stream of events.                        *)
(***************************************************************************)
EXTENDS BbrSender, TLAPS

Modes  == {"startup", "drain", "probeBw", "probeRtt"}
Gains  == [pacing : Nat, cwnd : Nat]
States == {"none", "conservation", "growth"}

\* What the steps of an event hand on.
Handed ==
    [recovery : [state : States, window : Nat, end : Nat], mode : Modes, gains : Gains, offset : Nat,
     full : BOOLEAN, startup : [last : Nat, stalled : Nat, losses : Nat], product : Nat, inFlight : Nat,
     ackedBytes : Nat, roundEnd : Nat, leaveAt : {"unset", "set", "roundPassed"}]

\* The gains that each mode may have.
OfCycle(st) ==
    \/ st.gains.pacing = CycleGain(st.offset)
    \/ Config.drainToTarget /\ st.gains.pacing = 750 /\ CycleGain(st.offset) = 1000

Gained(st) ==
    /\ st.mode = "startup" => st.gains = [pacing |-> Config.high, cwnd |-> Config.highCwnd]
    /\ st.mode = "drain" => st.gains.pacing < 1000
    /\ st.mode = "probeRtt" => st.gains.pacing = 1000
    /\ st.mode = "probeBw" => OfCycle(st)

\* A mode with the full bandwidth that it needs.
Settled(st) ==
    /\ Gained(st)
    /\ st.mode \in {"drain", "probeBw"} => st.full
    /\ st.mode = "startup" => ~st.full
    /\ st.mode = "drain" => st.inFlight > 0

\* The record before the full bandwidth is looked for, after it, and at the end.
Early(st) ==
    /\ st \in Handed /\ Gained(st) /\ st.mode = mode /\ st.full = full
    /\ st.recovery.state # "none" => full

Later(st) ==
    /\ st \in Handed /\ Gained(st)
    /\ st.mode \in {"drain", "probeBw"} \/ st.recovery.state # "none" => st.full

Done(st) == st \in Handed /\ Settled(st) /\ (st.recovery.state # "none" => st.full)

TypeOK ==
    /\ size \in DatagramSizes /\ cwnd \in Nat /\ exiting \in BOOLEAN
    /\ recovery \in [state : States, window : Nat, end : Nat] /\ mode \in Modes /\ gains \in Gains
    /\ offset \in Nat /\ full \in BOOLEAN /\ startup \in [last : Nat, stalled : Nat, losses : Nat]
    /\ product \in Nat /\ inFlight \in Nat /\ ackedBytes \in Nat /\ roundEnd \in Nat
    /\ leaveAt \in {"unset", "set", "roundPassed"}

SInv == TypeOK /\ WindowUsable /\ ModesAgree

-------------------------------------------------------------------------------
(* Windows and gains.                                                      *)

LEMMA Windows ==
    ASSUME NEW s \in DatagramSizes
    PROVE  /\ s \in Nat \ {0} /\ MinWindow(s) \in Nat \ {0} /\ InitialWindow(s) \in Nat /\ MaxWindow(s) \in Nat
           /\ MinWindow(s) <= InitialWindow(s) /\ InitialWindow(s) <= MaxWindow(s)
<1>1. s \in Nat \ {0} /\ MinPackets \in Nat \ {0} /\ InitialPackets \in Nat /\ MaxPackets \in Nat
  BY SenderAssumption
<1>2. \A a, b, c \in Nat : a <= b => a * c <= b * c
  OBVIOUS
<1>3. \A a, b \in Nat \ {0} : a * b \in Nat \ {0}
  OBVIOUS
<1> QED BY <1>1, <1>2, <1>3, SenderAssumption DEF MinWindow, InitialWindow, MaxWindow

LEMMA Bounds ==
    ASSUME NEW x \in Int, NEW y \in Int
    PROVE  /\ AtLeast(x, y) \in Int /\ AtLeast(x, y) >= x /\ AtLeast(x, y) >= y /\ AtLeast(x, y) \in {x, y}
           /\ AtMost(x, y) \in Int /\ AtMost(x, y) <= x /\ AtMost(x, y) <= y /\ AtMost(x, y) \in {x, y}
BY DEF AtLeast, AtMost

LEMMA Profile ==
    /\ Config \in [high : Nat, highCwnd : Nat, cwnd : Nat, rounds : Nat, drainToTarget : BOOLEAN,
                   aggregation : BOOLEAN]
    /\ 1000000 \div Config.high \in Nat /\ 1000000 \div Config.high < 1000
<1>1. CASE profile = "conservative"
  BY <1>1 DEF Config, ConfigFor
<1>2. CASE profile = "aggressive"
  BY <1>2 DEF Config, ConfigFor
<1>3. CASE profile \notin {"conservative", "aggressive"}
  BY <1>3 DEF Config, ConfigFor
<1> QED BY <1>1, <1>2, <1>3

LEMMA Cycle == ASSUME NEW i PROVE CycleGain(i) \in {1250, 750, 1000} /\ CycleGain(i) \in Nat
BY DEF CycleGain

\* The target is never below the minimum.
LEMMA Targets ==
    ASSUME size \in DatagramSizes, NEW gain \in Nat, NEW bdp \in Nat
    PROVE  Target(gain, bdp) \in Nat /\ Target(gain, bdp) >= MinWindow(size)
<1>1. MinWindow(size) \in Nat /\ InitialWindow(size) \in Nat
  BY Windows
<1>2. \A a, c \in Nat : (a * c) \div 1000 \in Nat
  <2> SUFFICES ASSUME NEW a \in Nat, NEW c \in Nat PROVE (a * c) \div 1000 \in Nat
    OBVIOUS
  <2>1. a * c \in Nat
    OBVIOUS
  <2> QED BY <2>1
<1>3. (gain * bdp) \div 1000 \in Nat /\ (gain * InitialWindow(size)) \div 1000 \in Nat
  BY <1>1, <1>2
<1> QED BY <1>1, <1>3 DEF Target, AtLeast

-------------------------------------------------------------------------------
(* What the changes of a record leave alone.                               *)

\* r is st but for its mode, offset and gains.
Moved(r, st, m, i, p, w) ==
    /\ r \in Handed /\ r.mode = m /\ r.offset = i /\ r.gains = [pacing |-> p, cwnd |-> w]
    /\ r.full = st.full /\ r.recovery = st.recovery /\ r.inFlight = st.inFlight

LEMMA MoveStep ==
    ASSUME NEW st \in Handed, NEW m \in Modes, NEW i \in Nat, NEW p \in Nat, NEW w \in Nat
    PROVE  Moved(WithMode(st, m, i, p, w), st, m, i, p, w)
<1>1. ASSUME NEW g \in Gains
      PROVE  LET r == [st EXCEPT !.mode = m, !.offset = i, !.gains = g]
             IN  /\ r \in Handed /\ r.mode = m /\ r.offset = i /\ r.gains = g
                 /\ r.full = st.full /\ r.recovery = st.recovery /\ r.inFlight = st.inFlight
  BY DEF Handed
<1>2. [pacing |-> p, cwnd |-> w] \in Gains
  BY DEF Gains
<1> QED BY <1>1, <1>2 DEF Moved, WithMode

\* r is st but for the startup and the full bandwidth.
Counting(r, st, found) ==
    /\ r \in Handed /\ r.full = found /\ r.mode = st.mode /\ r.offset = st.offset /\ r.gains = st.gains
    /\ r.recovery = st.recovery /\ r.inFlight = st.inFlight

LEMMA StartupStep ==
    ASSUME NEW st \in Handed, NEW last \in Nat, NEW stalled \in Nat, NEW losses \in Nat, NEW found \in BOOLEAN
    PROVE  Counting(WithStartup(st, last, stalled, losses, found), st, found)
<1>1. ASSUME NEW s \in [last : Nat, stalled : Nat, losses : Nat]
      PROVE  LET r == [st EXCEPT !.startup = s, !.full = found]
             IN  /\ r \in Handed /\ r.full = found /\ r.mode = st.mode /\ r.offset = st.offset
                 /\ r.gains = st.gains /\ r.recovery = st.recovery /\ r.inFlight = st.inFlight
  BY DEF Handed
<1>2. [last |-> last, stalled |-> stalled, losses |-> losses] \in [last : Nat, stalled : Nat, losses : Nat]
  OBVIOUS
<1> QED BY <1>1, <1>2 DEF Counting, WithStartup

\* r is st but for its recovery and round.
Recovering(r, st, state) ==
    /\ r \in Handed /\ r.full = st.full /\ r.mode = st.mode /\ r.offset = st.offset /\ r.gains = st.gains
    /\ r.recovery.state = state

LEMMA WithRecoveryStep ==
    ASSUME NEW st \in Handed, NEW state \in States, NEW window \in Nat, NEW end \in Nat, NEW round \in Nat
    PROVE  Recovering(WithRecovery(st, state, window, end, round), st, state)
<1>1. ASSUME NEW v \in [state : States, window : Nat, end : Nat]
      PROVE  LET r == [st EXCEPT !.recovery = v, !.roundEnd = round]
             IN  /\ r \in Handed /\ r.full = st.full /\ r.mode = st.mode /\ r.offset = st.offset
                 /\ r.gains = st.gains /\ r.recovery = v
  BY DEF Handed
<1> DEFINE v == [state |-> state, window |-> window, end |-> end]
<1>2. v \in [state : States, window : Nat, end : Nat] /\ v.state = state
  OBVIOUS
<1>3. WithRecovery(st, state, window, end, round) = [st EXCEPT !.recovery = v, !.roundEnd = round]
  BY DEF WithRecovery
<1> HIDE DEF v
<1> QED BY <1>1, <1>2, <1>3, ZenonT(60) DEF Recovering

\* r is st but for when to leave PROBE_RTT.
LEMMA LeaveStep ==
    ASSUME NEW st, Done(st), NEW at \in {"unset", "set", "roundPassed"}
    PROVE  /\ Done(WithLeave(st, at)) /\ WithLeave(st, at).mode = st.mode
           /\ WithLeave(st, at).full = st.full
<1>1. st \in Handed
  BY DEF Done
<1>2. LET r == [st EXCEPT !.leaveAt = at]
      IN  /\ r \in Handed /\ r.full = st.full /\ r.mode = st.mode /\ r.offset = st.offset
          /\ r.gains = st.gains /\ r.recovery = st.recovery /\ r.inFlight = st.inFlight
  BY <1>1 DEF Handed
<1> QED BY <1>2 DEF Done, Settled, Gained, OfCycle, WithLeave

-------------------------------------------------------------------------------
(* The steps of an event.                                                  *)

\* What the first step finds.
LEMMA StartStep ==
    ASSUME TypeOK, ModesAgree, NEW acks \in Nat, NEW losses \in Nat, acks + losses <= inFlight,
           NEW f, f.product \in Nat
    PROVE  Early(Started(acks, losses, f))
<1> DEFINE bytes == AtMost(ackedBytes + acks, InitialWindow(Max(DatagramSizes)))
           end   == IF RoundPassed(acks, losses) THEN inFlight ELSE roundEnd
           start == [recovery |-> recovery, mode |-> mode, gains |-> gains, offset |-> offset, full |-> full,
                     startup |-> startup, product |-> f.product, inFlight |-> inFlight - (acks + losses),
                     ackedBytes |-> bytes, roundEnd |-> end, leaveAt |-> leaveAt]
<1>1. bytes \in Nat
  <2>1. Max(DatagramSizes) \in DatagramSizes
    BY SenderAssumption DEF Max
  <2>2. InitialWindow(Max(DatagramSizes)) \in Nat
    BY <2>1, Windows
  <2> QED BY <2>2 DEF TypeOK, AtMost
<1>2. inFlight - (acks + losses) \in Nat /\ end \in Nat
  BY DEF TypeOK
<1>3. Started(acks, losses, f) = start
  BY DEF Started
<1> HIDE DEF bytes, end
<1>4. start \in Handed /\ start.mode = mode /\ start.full = full /\ start.gains = gains
      /\ start.offset = offset /\ start.recovery = recovery
  BY <1>1, <1>2 DEF TypeOK, Handed
<1> HIDE DEF start
<1>5. Early(start)
  BY <1>4 DEF ModesAgree, Early, Gained, OfCycle
<1> QED BY <1>3, <1>5

\* A recovery begins with the full bandwidth only.
LEMMA RecoveryStep ==
    ASSUME TypeOK, NEW st, Early(st), NEW n \in Nat, NEW losses \in Nat, NEW newRound
    PROVE  Early(RecoveryOf(st, n, losses, newRound))
<1>1. st \in Handed /\ st.full = full
  BY DEF Early
<1>2. /\ st.recovery.state \in States /\ st.recovery.window \in Nat /\ st.recovery.end \in Nat
      /\ st.roundEnd \in Nat /\ inFlight \in Nat
  BY <1>1 DEF Handed, TypeOK
<1>3. ASSUME NEW state \in States, NEW window \in Nat, NEW end \in Nat, NEW round \in Nat, full
      PROVE  Early(WithRecovery(st, state, window, end, round))
  <2>1. Recovering(WithRecovery(st, state, window, end, round), st, state)
    BY <1>1, WithRecoveryStep
  <2> QED BY <1>3, <2>1 DEF Recovering, Early, Gained, OfCycle
<1>4. "conservation" \in States /\ "none" \in States /\ "growth" \in States
  BY DEF States
<1>5. \/ RecoveryOf(st, n, losses, newRound) = st
      \/ full /\ \E state \in States, window, end, round \in Nat :
                     RecoveryOf(st, n, losses, newRound) = WithRecovery(st, state, window, end, round)
  <2> DEFINE end   == IF losses > 0 THEN inFlight ELSE st.recovery.end
             state == IF newRound THEN "growth" ELSE st.recovery.state
  <2>1. end \in Nat /\ state \in States
    BY <1>2, <1>4
  <2>2. \/ RecoveryOf(st, n, losses, newRound) = st
        \/ full /\ RecoveryOf(st, n, losses, newRound) = WithRecovery(st, "conservation", 0, end, inFlight)
        \/ full /\ RecoveryOf(st, n, losses, newRound) = WithRecovery(st, "none", 0, 0, st.roundEnd)
        \/ full /\ RecoveryOf(st, n, losses, newRound)
                     = WithRecovery(st, state, st.recovery.window, end, st.roundEnd)
    BY DEF RecoveryOf
  <2> HIDE DEF end, state
  <2> QED BY <1>2, <1>4, <2>1, <2>2
<1> QED BY <1>3, <1>5

\* Counting a losing event moves nothing.
LEMMA LossStep == ASSUME NEW st, Early(st), NEW losses \in Nat PROVE Early(LossCounted(st, losses))
<1> DEFINE n == IF losses > 0 THEN AtMost(st.startup.losses + 1, FullLossCount) ELSE st.startup.losses
<1>1. st \in Handed
  BY DEF Early
<1>2. /\ st.startup.last \in Nat /\ st.startup.stalled \in Nat /\ st.startup.losses \in Nat
      /\ st.full \in BOOLEAN
  <2>1. st.startup \in [last : Nat, stalled : Nat, losses : Nat] /\ st.full \in BOOLEAN
    BY <1>1 DEF Handed
  <2> QED BY <2>1
<1>3. n \in Nat
  BY <1>2, SenderAssumption DEF AtMost
<1>4. LossCounted(st, losses) = WithStartup(st, st.startup.last, st.startup.stalled, n, st.full)
  BY DEF LossCounted
<1> HIDE DEF n
<1>5. Counting(WithStartup(st, st.startup.last, st.startup.stalled, n, st.full), st, st.full)
  BY <1>1, <1>2, <1>3, StartupStep
<1>6. Early(WithStartup(st, st.startup.last, st.startup.stalled, n, st.full))
  BY <1>5 DEF Counting, Early, Gained, OfCycle
<1> QED BY <1>4, <1>6

\* The cycle moves within its gains.
LEMMA GainCycleStep ==
    ASSUME NEW st, Early(st), NEW prior, NEW losses, NEW passed
    PROVE  Early(GainCycle(st, prior, losses, passed))
<1> DEFINE i == (st.offset + 1) % CycleLength
<1>1. st \in Handed /\ Gained(st)
  BY DEF Early
<1>2. i \in Nat /\ CycleGain(i) \in Nat
  <2>1. st.offset \in Nat
    BY <1>1 DEF Handed
  <2> QED BY <2>1, SenderAssumption, Cycle
<1>3. st.gains.pacing \in Nat /\ st.gains.cwnd \in Nat
  <2>1. st.gains \in Gains
    BY <1>1 DEF Handed
  <2> QED BY <2>1 DEF Gains
<1>4. \/ GainCycle(st, prior, losses, passed) = st
      \/ /\ st.mode = "probeBw"
         /\ \/ GainCycle(st, prior, losses, passed) = WithMode(st, "probeBw", i, CycleGain(i), st.gains.cwnd)
            \/ /\ GainCycle(st, prior, losses, passed)
                    = WithMode(st, "probeBw", i, st.gains.pacing, st.gains.cwnd)
               /\ Config.drainToTarget /\ st.gains.pacing < 1000 /\ CycleGain(i) = 1000
  BY DEF GainCycle
<1> HIDE DEF i
<1>5. ASSUME NEW p \in Nat
      PROVE  Moved(WithMode(st, "probeBw", i, p, st.gains.cwnd), st, "probeBw", i, p, st.gains.cwnd)
  BY <1>1, <1>2, <1>3, MoveStep DEF Modes
<1>6. st.mode = "probeBw" /\ st.gains.pacing < 1000 => st.gains.pacing = 750
  BY <1>1, <1>3, Cycle DEF Gained, OfCycle
<1>7. st.mode = "probeBw" => Early(WithMode(st, "probeBw", i, CycleGain(i), st.gains.cwnd))
  <2>1. Moved(WithMode(st, "probeBw", i, CycleGain(i), st.gains.cwnd), st, "probeBw", i, CycleGain(i),
              st.gains.cwnd)
    BY <1>2, <1>5
  <2> QED BY <2>1 DEF Moved, Early, Gained, OfCycle
<1>8. /\ st.mode = "probeBw" /\ Config.drainToTarget /\ st.gains.pacing < 1000 /\ CycleGain(i) = 1000
      => Early(WithMode(st, "probeBw", i, st.gains.pacing, st.gains.cwnd))
  <2>1. Moved(WithMode(st, "probeBw", i, st.gains.pacing, st.gains.cwnd), st, "probeBw", i,
              st.gains.pacing, st.gains.cwnd)
    BY <1>3, <1>5
  <2> QED BY <1>6, <2>1 DEF Moved, Early, Gained, OfCycle
<1> QED BY <1>4, <1>7, <1>8, ZenonT(60)

\* The full bandwidth is found, never forgotten.
LEMMA FullBandwidthStep ==
    ASSUME ModesAgree, NEW st, Early(st), NEW newRound, NEW limited, NEW heavy \in BOOLEAN
    PROVE  Later(FullBandwidth(st, newRound, limited, heavy))
<1> DEFINE found == \/ st.startup.stalled + 1 >= Config.rounds
                    \/ st.startup.losses >= FullLossCount /\ heavy
<1>1. st \in Handed /\ Gained(st) /\ (mode \in {"drain", "probeBw"} => full)
  BY DEF Early, ModesAgree
<1>2. st.startup.last \in Nat /\ st.startup.stalled \in Nat /\ st.startup.losses \in Nat /\ st.product \in Nat
  <2>1. st.startup \in [last : Nat, stalled : Nat, losses : Nat] /\ st.product \in Nat
    BY <1>1 DEF Handed
  <2> QED BY <2>1
<1>3. \/ FullBandwidth(st, newRound, limited, heavy) = st
      \/ /\ ~st.full
         /\ \/ FullBandwidth(st, newRound, limited, heavy)
                 = WithStartup(st, st.product, 0, st.startup.losses, FALSE)
            \/ FullBandwidth(st, newRound, limited, heavy)
                 = WithStartup(st, st.startup.last, st.startup.stalled + 1, st.startup.losses, found)
  BY DEF FullBandwidth
<1>4. found \in BOOLEAN
  OBVIOUS
<1> HIDE DEF found
<1>5. ASSUME NEW last \in Nat, NEW stalled \in Nat, NEW b \in BOOLEAN, ~st.full
      PROVE  Later(WithStartup(st, last, stalled, st.startup.losses, b))
  <2>1. Counting(WithStartup(st, last, stalled, st.startup.losses, b), st, b)
    BY <1>1, <1>2, StartupStep
  <2>2. ~full /\ st.mode \notin {"drain", "probeBw"} /\ st.recovery.state = "none"
    BY <1>1, <1>5 DEF Early
  <2> QED BY <1>1, <2>1, <2>2 DEF Counting, Later, Gained, OfCycle
<1>6. Later(st)
  BY <1>1 DEF Early, Later
<1>7. ~st.full => Later(WithStartup(st, st.product, 0, st.startup.losses, FALSE))
  BY <1>2, <1>5
<1>8. ~st.full => Later(WithStartup(st, st.startup.last, st.startup.stalled + 1, st.startup.losses, found))
  BY <1>2, <1>4, <1>5
<1> QED BY <1>3, <1>6, <1>7, <1>8, Zenon

\* STARTUP is left with the full bandwidth, DRAIN with the queue.
LEMMA ExitStep ==
    ASSUME TypeOK, NEW st, Later(st), NEW i \in Nat
    PROVE  Done(ExitStartupOrDrain(st, i))
<1> DEFINE low  == 1000000 \div Config.high
           out  == WithMode(st, "drain", st.offset, low, Config.highCwnd)
           left == IF st.mode = "startup" /\ st.full THEN out ELSE st
<1>1. st \in Handed /\ Gained(st)
  BY DEF Later
<1>2. low \in Nat /\ low < 1000 /\ Config.highCwnd \in Nat /\ Config.cwnd \in Nat
  BY Profile
<1>3. ExitStartupOrDrain(st, i) = IF left.mode = "drain" /\ left.inFlight <= Target(1000, left.product)
                                  THEN WithMode(left, "probeBw", i, CycleGain(i), Config.cwnd) ELSE left
  BY DEF ExitStartupOrDrain, EnterProbeBandwidth
<1>4. Later(left) /\ (left.mode = "startup" => ~left.full)
  <2>1. CASE st.mode = "startup" /\ st.full
    <3>1. st.offset \in Nat
      BY <1>1 DEF Handed
    <3>2. "drain" \in Modes
      BY DEF Modes
    <3> HIDE DEF low
    <3>3. Moved(out, st, "drain", st.offset, low, Config.highCwnd)
      BY <1>1, <1>2, <3>1, <3>2, MoveStep
    <3> HIDE DEF out
    <3>4. Later(out) /\ out.mode = "drain"
      BY <1>2, <2>1, <3>3 DEF Moved, Later, Gained
    <3> QED BY <2>1, <3>4
  <2>2. CASE ~(st.mode = "startup" /\ st.full)
    BY <2>2
  <2> QED BY <2>1, <2>2
<1> HIDE DEF low, out, left
<1>5. left \in Handed /\ Gained(left) /\ left.inFlight \in Nat /\ left.product \in Nat
  <2>1. left \in Handed /\ Gained(left)
    BY <1>4 DEF Later
  <2> QED BY <2>1 DEF Handed
<1>6. CASE left.mode = "drain" /\ left.inFlight <= Target(1000, left.product)
  <2> DEFINE r == WithMode(left, "probeBw", i, CycleGain(i), Config.cwnd)
  <2>1. CycleGain(i) \in Nat /\ "probeBw" \in Modes
    BY Cycle DEF Modes
  <2>2. Moved(r, left, "probeBw", i, CycleGain(i), Config.cwnd)
    BY <1>2, <1>5, <2>1, MoveStep
  <2>3. left.full
    BY <1>4, <1>6 DEF Later
  <2>4. ExitStartupOrDrain(st, i) = r
    BY <1>3, <1>6
  <2> HIDE DEF r
  <2>5. Done(r)
    BY <2>2, <2>3 DEF Moved, Done, Settled, Gained, OfCycle
  <2> QED BY <2>4, <2>5
<1>7. CASE ~(left.mode = "drain" /\ left.inFlight <= Target(1000, left.product))
  <2>1. Target(1000, left.product) \in Nat
    <3>1. size \in DatagramSizes /\ 1000 \in Nat
      BY DEF TypeOK
    <3>2. PICK bdp \in Nat : bdp = left.product
      BY <1>5
    <3>3. Target(1000, bdp) \in Nat
      BY <3>1, Targets
    <3> QED BY <3>2, <3>3
  <2>2. left.mode = "drain" => left.inFlight > 0
    BY <1>5, <1>7, <2>1
  <2>3. Done(left)
    BY <1>4, <2>2 DEF Later, Done, Settled
  <2> QED BY <1>3, <1>7, <2>3
<1> QED BY <1>6, <1>7

\* PROBE_RTT is entered from any mode and left for the one that fits.
LEMMA LeaveProbeRttStep ==
    ASSUME NEW st, Done(st), NEW i \in Nat
    PROVE  Done(LeaveProbeRtt(st, i))
<1>1. PICK left : left = WithLeave(st, "unset")
  OBVIOUS
<1>2. Done(left) /\ left.full = st.full
  BY <1>1, LeaveStep
<1>3. left \in Handed /\ left.offset \in Nat
  <2>1. left \in Handed
    BY <1>2 DEF Done
  <2> QED BY <2>1 DEF Handed
<1>4. CycleGain(i) \in Nat /\ Config.cwnd \in Nat /\ Config.high \in Nat /\ Config.highCwnd \in Nat
  BY Cycle, Profile
<1>5. CASE st.full
  <2> DEFINE r == WithMode(left, "probeBw", i, CycleGain(i), Config.cwnd)
  <2>1. LeaveProbeRtt(st, i) = r
    BY <1>1, <1>5 DEF LeaveProbeRtt, EnterProbeBandwidth
  <2>2. Moved(r, left, "probeBw", i, CycleGain(i), Config.cwnd)
    BY <1>3, <1>4, MoveStep DEF Modes
  <2> HIDE DEF r
  <2>3. Done(r)
    BY <1>2, <1>5, <2>2 DEF Moved, Done, Settled, Gained, OfCycle
  <2> QED BY <2>1, <2>3
<1>6. CASE ~st.full
  <2> DEFINE r == WithMode(left, "startup", left.offset, Config.high, Config.highCwnd)
  <2>1. LeaveProbeRtt(st, i) = r
    BY <1>1, <1>6 DEF LeaveProbeRtt, EnterStartup
  <2>2. Moved(r, left, "startup", left.offset, Config.high, Config.highCwnd)
    BY <1>3, <1>4, MoveStep DEF Modes
  <2> HIDE DEF r
  <2>3. Done(r)
    BY <1>2, <1>6, <2>2 DEF Moved, Done, Settled, Gained, OfCycle
  <2> QED BY <2>1, <2>3
<1> QED BY <1>5, <1>6

LEMMA ProbeRttStep ==
    ASSUME NEW st, Done(st), NEW newRound, NEW expired, NEW over, NEW i \in Nat
    PROVE  Done(ProbeRtt(st, newRound, expired, over, i))
<1> DEFINE enter == WithMode(st, "probeRtt", 0, 1000, st.gains.cwnd)
           in    == IF expired /\ ~exiting /\ st.mode # "probeRtt" THEN enter ELSE st
<1>1. Done(enter)
  <2>1. st \in Handed
    BY DEF Done
  <2>2. st.gains.cwnd \in Nat
    <3>1. st.gains \in Gains
      BY <2>1 DEF Handed
    <3> QED BY <3>1 DEF Gains
  <2>3. Moved(enter, st, "probeRtt", 0, 1000, st.gains.cwnd)
    BY <2>1, <2>2, MoveStep DEF Modes
  <2> HIDE DEF enter
  <2> QED BY <2>3 DEF Moved, Done, Settled, Gained, OfCycle
<1> HIDE DEF enter
<1>2. Done(in)
  BY <1>1
<1>3. ProbeRtt(st, newRound, expired, over, i)
        \in {in, WithLeave(in, "set"), WithLeave(in, "roundPassed"), LeaveProbeRtt(in, i)}
  BY DEF ProbeRtt, enter
<1> HIDE DEF in
<1>4. Done(WithLeave(in, "set")) /\ Done(WithLeave(in, "roundPassed")) /\ Done(LeaveProbeRtt(in, i))
  BY <1>2, LeaveStep, LeaveProbeRttStep
<1> QED BY <1>2, <1>3, <1>4

\* The congestion window stays between its bounds.
LEMMA WindowStep ==
    ASSUME TypeOK, cwnd \in MinWindow(size) .. MaxWindow(size), NEW st \in Handed, NEW acks \in Nat,
           NEW height \in Nat
    PROVE  NewCongestionWindow(st, acks, height, height) \in MinWindow(size) .. MaxWindow(size)
<1>1. /\ MinWindow(size) \in Nat /\ MaxWindow(size) \in Nat /\ MinWindow(size) <= MaxWindow(size)
      /\ InitialWindow(size) \in Nat
  BY Windows DEF TypeOK
<1>2. Target(st.gains.cwnd, st.product) \in Nat
  BY Targets DEF TypeOK, Handed, Gains
<1> DEFINE target == Target(st.gains.cwnd, st.product)
                     + (IF st.full THEN height ELSE IF Config.aggregation THEN height ELSE 0)
           grown  == IF st.full THEN AtMost(target, cwnd + acks)
                     ELSE IF cwnd < target \/ st.ackedBytes < InitialWindow(size) THEN cwnd + acks ELSE cwnd
<1>3. target \in Int
  BY <1>2
<1> HIDE DEF target
<1>4. grown \in Int
  BY <1>3, Bounds DEF TypeOK
<1> HIDE DEF grown
<1>5. AtMost(AtLeast(grown, MinWindow(size)), MaxWindow(size)) \in MinWindow(size) .. MaxWindow(size)
  BY <1>1, <1>4 DEF AtMost, AtLeast
<1> QED BY <1>5 DEF NewCongestionWindow, target, grown

\* So does the recovery window, the first one included.
LEMMA RecoveryWindowStep ==
    ASSUME TypeOK, NEW st \in Handed, NEW acks \in Nat, NEW losses \in Nat
    PROVE  /\ RecoveryWindow(st, acks, losses) \in Nat
           /\ st.recovery.state # "none" => RecoveryWindow(st, acks, losses) >= MinWindow(size)
<1>1. MinWindow(size) \in Nat /\ size \in Nat
  BY Windows DEF TypeOK
<1>2. st.recovery.window \in Nat /\ st.inFlight \in Nat
  BY DEF Handed
<1> QED BY <1>1, <1>2 DEF RecoveryWindow, AtLeast

-------------------------------------------------------------------------------
LEMMA InitSInv == SenderInit => SInv
<1> SUFFICES ASSUME SenderInit PROVE SInv
  OBVIOUS
<1>1. size \in DatagramSizes
  BY SenderAssumption DEF SenderInit, Min
<1>2. TypeOK
  <2>1. cwnd \in Nat
    BY <1>1, Windows DEF SenderInit
  <2>2. gains = [pacing |-> Config.high, cwnd |-> Config.highCwnd]
    BY DEF SenderInit
  <2>3. gains \in Gains
    <3>1. Config.high \in Nat /\ Config.highCwnd \in Nat
      BY Profile
    <3> QED BY <2>2, <3>1 DEF Gains
  <2>4. /\ recovery \in [state : States, window : Nat, end : Nat]
        /\ startup \in [last : Nat, stalled : Nat, losses : Nat]
    BY DEF SenderInit, NotInRecovery, NoGrowth, States
  <2>5. /\ exiting \in BOOLEAN /\ mode \in Modes /\ offset \in Nat /\ full \in BOOLEAN
        /\ product \in Nat /\ inFlight \in Nat /\ ackedBytes \in Nat /\ roundEnd \in Nat
        /\ leaveAt \in {"unset", "set", "roundPassed"}
    <3>1. mode = "startup" /\ offset = 0 /\ full = FALSE /\ product = 0 /\ ackedBytes = 0 /\ roundEnd = 0
          /\ inFlight = 0 /\ exiting = FALSE /\ leaveAt = "unset"
      BY Zenon DEF SenderInit
    <3> QED BY <3>1 DEF Modes
  <2> QED BY <1>1, <2>1, <2>3, <2>4, <2>5 DEF TypeOK
<1>3. WindowUsable
  BY <1>1, Windows DEF SenderInit, WindowUsable, CongestionWindow, NotInRecovery
<1>4. ModesAgree
  BY DEF SenderInit, ModesAgree, NotInRecovery
<1> QED BY <1>2, <1>3, <1>4 DEF SInv

LEMMA PacketSentStep == ASSUME SInv, SenderPacketSent PROVE SInv'
<1>1. TypeOK'
  BY DEF SInv, TypeOK, SenderPacketSent
<1>2. WindowUsable'
  BY DEF SInv, WindowUsable, CongestionWindow, SenderPacketSent, MinWindow, MaxWindow
<1>3. ModesAgree'
  BY DEF SInv, TypeOK, ModesAgree, SenderPacketSent, Config
<1> QED BY <1>1, <1>2, <1>3 DEF SInv

\* A larger datagram raises the windows with the minimum.
LEMMA DatagramStep == ASSUME SInv, NEW s \in DatagramSizes, SetMaxDatagramSize(s) PROVE SInv'
<1>1. /\ MinWindow(s) \in Nat \ {0} /\ InitialWindow(s) \in Nat /\ MaxWindow(s) \in Nat
      /\ MinWindow(s) <= InitialWindow(s) /\ InitialWindow(s) <= MaxWindow(s)
  BY Windows
<1>2. size' = s /\ MinWindow(size)' = MinWindow(s) /\ MaxWindow(size)' = MaxWindow(s)
  BY DEF SetMaxDatagramSize, MinWindow, MaxWindow
<1>3. cwnd' \in MinWindow(s) .. MaxWindow(s)
  <2>1. cwnd' \in {MinWindow(s), InitialWindow(s), AtMost(MaxWindow(s), AtLeast(cwnd, MinWindow(s)))}
    BY DEF SetMaxDatagramSize
  <2>2. AtMost(MaxWindow(s), AtLeast(cwnd, MinWindow(s))) \in MinWindow(s) .. MaxWindow(s)
    BY <1>1 DEF SInv, TypeOK, AtMost, AtLeast
  <2> QED BY <1>1, <2>1, <2>2
<1>4. /\ recovery' \in [state : States, window : Nat, end : Nat] /\ recovery'.state = recovery.state
      /\ recovery.state # "none" => recovery'.window >= MinWindow(s)
  <2>1. AtMost(MaxWindow(s), AtLeast(recovery.window, MinWindow(s))) \in MinWindow(s) .. MaxWindow(s)
    BY <1>1 DEF SInv, TypeOK, AtMost, AtLeast
  <2> QED BY <1>1, <2>1 DEF SInv, TypeOK, SetMaxDatagramSize
<1>5. TypeOK'
  BY <1>1, <1>2, <1>3, <1>4 DEF SInv, TypeOK, SetMaxDatagramSize
<1>6. WindowUsable'
  BY <1>1, <1>2, <1>3, <1>4 DEF SInv, WindowUsable, CongestionWindow, AtMost, TypeOK, SetMaxDatagramSize
<1>7. ModesAgree'
  BY <1>4 DEF SInv, ModesAgree, SetMaxDatagramSize, Config
<1> QED BY <1>5, <1>6, <1>7 DEF SInv

\* What an event leaves of a settled record keeps the invariant.
LEMMA LeavesStep ==
    ASSUME SInv, NEW acks \in Nat, NEW losses \in Nat, NEW f, f.extra \in Nat,
           NEW st, Done(st), Leaves(st, acks, losses, f)
    PROVE  SInv'
<1>1. TypeOK /\ cwnd \in MinWindow(size) .. MaxWindow(size)
      /\ st \in Handed /\ Settled(st) /\ (st.recovery.state # "none" => st.full)
  BY DEF SInv, WindowUsable, Done
<1>2. /\ mode' = st.mode /\ gains' = st.gains /\ offset' = st.offset /\ full' = st.full
      /\ startup' = IF st.full THEN NoGrowth
                    ELSE [st.startup EXCEPT !.losses = IF RoundPassed(acks, losses) THEN 0 ELSE @]
      /\ product' = st.product /\ inFlight' = st.inFlight
      /\ ackedBytes' = IF st.full THEN 0 ELSE st.ackedBytes
      /\ leaveAt' = st.leaveAt
      /\ cwnd' = NewCongestionWindow(st, acks, f.extra, f.extra)
      /\ recovery' = [state |-> st.recovery.state, window |-> RecoveryWindow(st, acks, losses),
                       end |-> Rebased(st.recovery.end, acks + losses)]
      /\ roundEnd' = Rebased(st.roundEnd, acks + losses)
      /\ exiting' = FALSE
      /\ profile' = profile /\ size' = size
  BY DEF Leaves
<1>3. /\ recovery' \in [state : States, window : Nat, end : Nat] /\ recovery'.state = st.recovery.state
      /\ recovery'.state # "none" => recovery'.window >= MinWindow(size)
  <2>1. Rebased(st.recovery.end, acks + losses) \in Nat
    BY <1>1 DEF Rebased, AtLeast, Handed
  <2>2. st.recovery.state \in States
    BY <1>1 DEF Handed
  <2>3. /\ RecoveryWindow(st, acks, losses) \in Nat
        /\ st.recovery.state # "none" => RecoveryWindow(st, acks, losses) >= MinWindow(size)
    BY <1>1, RecoveryWindowStep
  <2> QED BY <1>2, <2>1, <2>2, <2>3
<1>4. cwnd' \in MinWindow(size) .. MaxWindow(size)
  BY <1>1, <1>2, WindowStep
<1>5. /\ MinWindow(size) \in Nat /\ MaxWindow(size) \in Nat /\ MinWindow(size)' = MinWindow(size)
      /\ MaxWindow(size)' = MaxWindow(size) /\ Config' = Config
  BY <1>1, <1>2, Windows DEF TypeOK, MinWindow, MaxWindow, Config
<1>6. TypeOK'
  <2>1. roundEnd' \in Nat
    BY <1>1, <1>2 DEF Rebased, AtLeast, Handed
  <2>2. startup' \in [last : Nat, stalled : Nat, losses : Nat]
    BY <1>1, <1>2 DEF Handed, NoGrowth
  <2>3. cwnd' \in Nat
    BY <1>4, <1>5
  <2>4. /\ mode' \in Modes /\ gains' \in Gains /\ offset' \in Nat /\ full' \in BOOLEAN
        /\ product' \in Nat /\ inFlight' \in Nat /\ ackedBytes' \in Nat
        /\ leaveAt' \in {"unset", "set", "roundPassed"}
    BY <1>1, <1>2 DEF Handed
  <2> QED BY <1>1, <1>2, <1>3, <2>1, <2>2, <2>3, <2>4 DEF TypeOK
<1>7. WindowUsable'
  BY <1>2, <1>3, <1>4, <1>5, <1>6 DEF WindowUsable, CongestionWindow, AtMost, TypeOK
<1>8. ModesAgree'
  BY <1>1, <1>2, <1>3, <1>5 DEF ModesAgree, Settled, Gained, OfCycle
<1> QED BY <1>6, <1>7, <1>8 DEF SInv

\* An event goes through its steps in order.
LEMMA EventStep ==
    ASSUME SInv, NEW acks \in Nat, NEW losses \in Nat, acks + losses <= inFlight, NEW f \in Findings,
           OnCongestionEventEx(acks, losses, f)
    PROVE  SInv'
<1>1. TypeOK /\ ModesAgree /\ acks + losses \in Nat
  BY DEF SInv
<1>2. f.product \in Nat /\ f.heavy \in BOOLEAN /\ f.extra \in Nat /\ f.start \in Nat
  BY SenderAssumption DEF Findings, Choice
<1>3. Early(Started(acks, losses, f))
  BY <1>1, <1>2, StartStep
<1>4. Early(Recovered(acks, losses, f))
  BY <1>1, <1>3, RecoveryStep DEF Recovered
<1>5. Early(Counted(acks, losses, f))
  BY <1>4, LossStep DEF Counted
<1>6. Early(Cycled(acks, losses, f))
  BY <1>5, GainCycleStep DEF Cycled
<1>7. Later(Checked(acks, losses, f))
  BY <1>1, <1>2, <1>6, FullBandwidthStep DEF Checked
<1>8. Done(Exited(acks, losses, f))
  BY <1>1, <1>2, <1>7, ExitStep DEF Exited
<1>9. Done(Stepped(acks, losses, f))
  BY <1>2, <1>8, ProbeRttStep DEF Stepped
<1>10. Leaves(Stepped(acks, losses, f), acks, losses, f)
  BY DEF OnCongestionEventEx
<1> QED BY <1>2, <1>9, <1>10, LeavesStep

\* The inductive invariant: types, windows and modes.
THEOREM SInvHolds == SenderSpec => []SInv
<1>1. SInv /\ UNCHANGED senderVars => SInv'
  BY DEF SInv, TypeOK, WindowUsable, ModesAgree, senderVars, CongestionWindow, MinWindow, MaxWindow, Config
<1>2. SInv /\ SenderEvent => SInv'
  <2> SUFFICES ASSUME SInv, SenderEvent PROVE SInv'
    OBVIOUS
  <2>1. PICK acks, losses \in 0 .. MaxBatch, f \in Findings :
           acks + losses \in 1 .. AtMost(inFlight, MaxBatch) /\ OnCongestionEventEx(acks, losses, f)
    BY DEF SenderEvent
  <2>2. acks + losses <= inFlight
    BY <2>1, SenderAssumption DEF SInv, TypeOK, AtMost
  <2> QED BY <2>1, <2>2, SenderAssumption, EventStep
<1>3. SInv /\ [SenderNext]_senderVars => SInv'
  BY <1>1, <1>2, PacketSentStep, DatagramStep DEF SenderNext
<1> QED BY InitSInv, <1>3, PTL DEF SenderSpec

\* No window ever falls below the minimum or, but for the recovery's, exceeds the maximum,
\* for any sizes of windows and datagrams.
THEOREM WindowsAreUsable == SenderSpec => []WindowUsable
BY SInvHolds, PTL DEF SInv

\* Mode, gains, recovery and full bandwidth agree after every event.
THEOREM ModesDoAgree == SenderSpec => []ModesAgree
BY SInvHolds, PTL DEF SInv
===============================================================================
