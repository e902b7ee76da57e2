--------------------------- MODULE BandwidthSampler ---------------------------
(***************************************************************************)
(* The bandwidth sampler of the BBR sender                                 *)
(* (congestion/bbr/bandwidth_sampler.go) between the calls of the sender:  *)
(* a packet is sent, an event brings acknowledged and lost packets.  A     *)
(* packet is one unit of bytes, a time is an integer with 0 for "no time", *)
(* and a rate is units per tick times Scale, rounded down as the code      *)
(* rounds.  Which packets an event may bring is quic-go's contract: each   *)
(* packet at most once, acknowledged in ascending order, lost when one     *)
(* that was sent PacketThreshold later is acknowledged or, by time, from   *)
(* the oldest on; some leave the flight without a word.  The sampler is    *)
(* installed on a connection that runs, so that the first events may be    *)
(* about packets that it was never told of.                                *)
(*                                                                         *)
(* One assumption is not the code's: the packet numbers are those of one   *)
(* number space.  The queue holds one number for every space, so a packet  *)
(* of the handshake that were still in flight when the sampler is          *)
(* installed would pass for the packet of the application with its number. *)
(***************************************************************************)
EXTENDS PacketQueue, WindowedFilter, FiniteSetsExt

CONSTANTS
    Scale,            \* a rate is units * Scale \div ticks
    MaxBandwidths,    \* what the sender's own filter may hold
    RingSizes,        \* the size that the rings start with (256)
    HeightWindow,     \* window of the ack height filter, in rounds (10)
    PacketThreshold,  \* quic-go's (3)
    Earlier,          \* how many packets the connection may have sent before the sampler is installed
    MaxPacket,        \* bound on the packet numbers
    AckOnly,          \* the packet numbers that only acknowledge
    LimitedAt,        \* when the sender finds itself limited: the last packet sent by then
    MaxInFlight,      \* bound on the packets in flight
    MaxSilent,        \* bound on those of the sampler's packets that leave the flight without a word
    MaxTime           \* bound on the time

\* LeastUnacked rests on quic-go's threshold being no more than 3.
ASSUME SamplerAssumption ==
    /\ RingSizes \subseteq Nat \ {0}
    /\ PacketThreshold \in 1 .. 3 /\ Earlier \subseteq Nat
    /\ MaxPacket \in Nat /\ MaxTime \in Nat

VARIABLES
    conservative,  \* the profile that turns the two switches of the sampler on
    b,             \* the sampler's own fields
    queue,         \* connectionStateMap
    candidates,    \* a0Candidates
    heights,       \* maxAckHeightTracker
    sample,        \* the best sample of the event, None when it had none
    clock,         \* the caller's time
    round,         \* the caller's round trip count
    next,          \* the next packet number
    sentAt,        \* when each packet still in flight was sent, 0 if before the sampler was installed
    largest,       \* quic-go's largest acknowledged packet, or -1
    strays         \* ghost: the losses counted that the sampler had not counted as sent (strange),
                   \* the packets it had that left the flight without a word (silent)

samplerVars == <<conservative, b, queue, candidates, heights, sample, clock, round, next, sentAt, largest,
                 strays>>

\* The packets in flight that the sampler was told of.
Known == {p \in DOMAIN sentAt : sentAt[p] # 0}

None == [bandwidth |-> 0]
Infinite == -1
Larger(x, y) == IF x > y THEN x ELSE y
Smaller(x, y) == IF x < y THEN x ELSE y

BandwidthFromDelta(bytes, ticks) == (bytes * Scale) \div ticks
BytesFromBandwidth(rate, ticks) == (rate * ticks) \div Scale

\* A point on the ack line.
Point(time, total) == [time |-> time, acked |-> total]
NoPoint == Point(0, 0)

ZeroHeight == [v |-> 0, bytes |-> 0, ticks |-> 0]

SamplerInit ==
    /\ conservative \in BOOLEAN
    /\ b = [sent |-> 0, acked |-> 0, lost |-> 0, sentAtLastAcked |-> 0, lastAckedSentTime |-> 0,
            lastAckedAckTime |-> 0, lastSent |-> InvalidPacket, lastAcked |-> InvalidPacket,
            appLimited |-> FALSE, endOfAppLimited |-> InvalidPacket, ackedAfterLastEvent |-> 0,
            recent |-> <<NoPoint, NoPoint>>]
    /\ \E size \in RingSizes : queue = NewQueue(size) /\ candidates = NewRing(size, NoPoint)
    /\ heights = [filter |-> Cleared(ZeroHeight), start |-> 0, bytes |-> 0]
    /\ sample = None
    /\ clock = 1 /\ round = 1 /\ next \in Earlier
    /\ largest \in -1 .. next - 1
    /\ \E inFlight \in SUBSET {p \in 0 .. next - 1 : p > largest - PacketThreshold /\ p # largest} :
           sentAt = [p \in inFlight |-> 0]
    /\ strays = [strange |-> 0, silent |-> 0]

-------------------------------------------------------------------------------
(* OnPacketSent.                                                           *)

\* recentAckPoints.Update: the older point moves on when the time does.
UpdatePoints(points, time, total) ==
    <<IF time > points[2].time THEN points[2] ELSE points[1], Point(time, total)>>

LessRecent(points) == IF points[1].acked # 0 THEN points[1] ELSE points[2]

\* Nothing in flight: this packet is the S0 and A0 of those that follow.
Quiesced(time) ==
    LET start == Point(time, b.acked) IN
    /\ b' = [b EXCEPT !.lastSent = next, !.sent = @ + 1, !.lastAckedAckTime = time,
                      !.sentAtLastAcked = b.sent + 1, !.lastAckedSentTime = time,
                      !.recent = IF conservative THEN <<NoPoint, start>> ELSE @]
    /\ candidates' = IF conservative THEN PushBack(ClearRing(candidates, NoPoint), start, NoPoint) ELSE candidates

\* newConnectionStateOnSentPacket, of the sampler's fields after they were set.
SnapshotOf(fields, time, inFlight) ==
    [sentTime |-> time, sentAtLastAcked |-> fields.sentAtLastAcked,
     lastAckedSentTime |-> fields.lastAckedSentTime, lastAckedAckTime |-> fields.lastAckedAckTime,
     appLimited |-> fields.appLimited, sent |-> fields.sent, acked |-> fields.acked,
     inFlight |-> inFlight + 1]

OnPacketSent(time) ==
    LET inFlight == Cardinality(DOMAIN sentAt) IN
    /\ next \in 0 .. MaxPacket \ AckOnly /\ inFlight < MaxInFlight
    /\ IF inFlight = 0 THEN Quiesced(time)
       ELSE b' = [b EXCEPT !.lastSent = next, !.sent = @ + 1] /\ UNCHANGED candidates
    /\ queue' = Emplace(queue, next, SnapshotOf(b', time, inFlight))
    /\ sentAt' = [p \in DOMAIN sentAt \union {next} |-> IF p = next THEN time ELSE sentAt[p]]
    /\ next' = next + 1
    /\ clock' = time /\ sample' = None
    /\ UNCHANGED <<conservative, heights, round, largest, strays>>

\* A packet that only acknowledges takes a number and nothing else.
OnAckOnlySent ==
    /\ next \in AckOnly
    /\ b' = [b EXCEPT !.lastSent = next]
    /\ next' = next + 1 /\ sample' = None
    /\ UNCHANGED <<conservative, queue, candidates, heights, clock, round, sentAt, largest, strays>>

\* A packet leaves the flight neither acknowledged nor lost, as a probe of the path's MTU does
\* that is lost.  The sampler is not told.
LeavesFlight(pn) ==
    /\ strays.silent < MaxSilent
    /\ sentAt' = [p \in DOMAIN sentAt \ {pn} |-> sentAt[p]]
    /\ strays' = [strays EXCEPT !.silent = IF pn \in Known THEN @ + 1 ELSE @]
    /\ sample' = None
    /\ UNCHANGED <<conservative, b, queue, candidates, heights, clock, round, next, largest>>

-------------------------------------------------------------------------------
(* One acknowledged packet.                                                *)

\* Variant: the candidate that is beyond.
ChooseA0Beyond(ring, total) ==
    LET beyond == {i \in 0 .. RingLen(ring) - 1 : RingAt(ring, i).acked > total}
        first  == IF beyond = {} THEN RingLen(ring) - 1 ELSE Min(beyond)
    IN  [a0 |-> RingAt(ring, first), ring |-> PopFront(ring, first, NoPoint)]

\* chooseA0Point: the last candidate before the first that is beyond what had been acknowledged
\* when the packet was sent.  The loop at the end compares with a length that shrinks, so that it
\* pops half.
ChooseA0(ring, total) ==
    LET len    == RingLen(ring)
        beyond == {i \in 1 .. len - 1 : RingAt(ring, i).acked > total}
        first  == Min(beyond)
    IN  IF beyond # {} THEN [a0 |-> RingAt(ring, first - 1), ring |-> PopFront(ring, first - 1, NoPoint)]
        ELSE [a0 |-> RingAt(ring, len - 1), ring |-> PopFront(ring, len \div 2, NoPoint)]

\* The state of an event: the sampler's fields, the candidates and the best sample so far.
Sampled(e, entry, a0, ring, fields, time) ==
    LET sendRate == IF entry.sentTime > entry.lastAckedSentTime
                    THEN BandwidthFromDelta(entry.sent - entry.sentAtLastAcked,
                                            entry.sentTime - entry.lastAckedSentTime)
                    ELSE Infinite
        ackRate  == BandwidthFromDelta(fields.acked - a0.acked, time - a0.time)
        rate     == IF sendRate = Infinite THEN ackRate ELSE Smaller(sendRate, ackRate)
    IN  [fields |-> fields, ring |-> ring,
         best |-> IF time <= a0.time \/ rate <= e.best.bandwidth THEN e.best
                  ELSE [bandwidth |-> rate, appLimited |-> entry.appLimited, a0 |-> a0, ackedAtSend |-> entry.acked, newest |-> fields.lastAcked > largest,
                        ackedBytes |-> fields.acked - a0.acked, ticks |-> time - a0.time]]

\* onPacketAcknowledged, and what OnCongestionEvent keeps of its sample.
OnPacketAcknowledged(e, pn, time) ==
    LET entry  == GetEntry(queue, pn)
        known  == entry # Absent
        fields == [e.fields EXCEPT
                      !.lastAcked = pn, !.acked = @ + 1, !.sentAtLastAcked = entry.sent,
                      !.lastAckedSentTime = entry.sentTime, !.lastAckedAckTime = time,
                      !.recent = IF conservative THEN UpdatePoints(@, time, e.fields.acked + 1) ELSE @,
                      !.appLimited = @ /\ ~(\/ e.fields.endOfAppLimited = InvalidPacket
                                            \/ pn > e.fields.endOfAppLimited)]
        chosen == IF conservative /\ ~RingEmpty(e.ring) THEN ChooseA0(e.ring, entry.acked)
                  ELSE [a0 |-> Point(entry.lastAckedAckTime, entry.acked), ring |-> e.ring]
    IN  IF ~known THEN [e EXCEPT !.fields.lastAcked = pn]
        ELSE IF entry.lastAckedSentTime = 0 THEN [e EXCEPT !.fields = fields]
        ELSE Sampled(e, entry, chosen.a0, chosen.ring, fields, time)

-------------------------------------------------------------------------------
(* The end of an event that acknowledged something.                        *)

\* Update under reduceExtraAckedOnBandwidthIncrease: the heights again, against the new rate.
\* A height that Update made carries round 0 (bandwidth_sampler.go:206).
Reinsert(filter, rate) ==
    LET Height(i) == LET h == filter[i].sample IN [h EXCEPT !.v = h.bytes - BytesFromBandwidth(rate, h.ticks)]
        Insert(f, i) == IF Height(i).v > 0 THEN UpdateFilter(f, Height(i), 0, HeightWindow) ELSE f
    IN  Insert(Insert(Insert(Cleared(ZeroHeight), 1), 2), 3)

\* maxAckHeightTracker.Update.  The threshold is 2 with overestimate avoidance and 1 without;
\* startNewAggregationEpochAfterFullRound is never set by the sender.
TrackHeight(h, rate, isNewMax, count, time, bytes) ==
    LET filter    == IF conservative /\ isNewMax THEN Reinsert(h.filter, rate) ELSE h.filter
        ticks     == time - h.start
        expected  == BytesFromBandwidth(rate, ticks)
        threshold == IF conservative THEN 2 ELSE 1
        total     == h.bytes + bytes
    IN  IF h.start = 0 \/ h.bytes <= threshold * expected
        THEN [extra |-> 0, heights |-> [filter |-> filter, start |-> time, bytes |-> bytes]]
        ELSE [extra |-> total - expected,
              heights |-> [h EXCEPT !.bytes = total,
                           !.filter = UpdateFilter(filter, [v |-> total - expected, bytes |-> total, ticks |-> ticks],
                                                   count, HeightWindow)]]

\* onAckEventEnd
AckEventEnd(e, maxBandwidth, count) ==
    LET newly   == e.fields.acked - e.fields.ackedAfterLastEvent
        rate    == Larger(maxBandwidth, e.best.bandwidth)
        tracked == TrackHeight(heights, rate, e.best.bandwidth > maxBandwidth, count,
                               e.fields.lastAckedAckTime, newly)
    IN  IF newly = 0 THEN b' = e.fields /\ candidates' = e.ring /\ UNCHANGED heights
        ELSE /\ b' = [e.fields EXCEPT !.ackedAfterLastEvent = e.fields.acked]
             /\ heights' = tracked.heights
             /\ candidates' = IF conservative /\ tracked.extra = 0
                              THEN PushBack(e.ring, LessRecent(e.fields.recent), NoPoint) ELSE e.ring

-------------------------------------------------------------------------------
(* OnAppLimited, which the sender calls before an event that finds too     *)
(* little in flight and within those of PROBE_RTT; and OnCongestionEvent,  *)
(* after which the sender tells what is obsolete.                          *)

OnAppLimited ==
    /\ b.lastSent \in LimitedAt
    /\ b' = [b EXCEPT !.appLimited = TRUE, !.endOfAppLimited = b.lastSent]
    /\ b' # b
    /\ UNCHANGED <<conservative, queue, candidates, heights, sample, clock, round, next, sentAt, largest, strays>>

\* ResetMaxAckHeightTracker(0, roundTripCount), by a sender in STARTUP that expires the heights
\* when the bandwidth grew: the aggressive profile does.
ResetMaxAckHeightTracker ==
    /\ ~conservative /\ sample # None
    /\ heights' = [heights EXCEPT !.filter = ResetFilter(ZeroHeight, round)]
    /\ heights' # heights
    /\ UNCHANGED <<conservative, b, queue, candidates, sample, clock, round, next, sentAt, largest, strays>>

\* Two less than the largest acknowledged of the event: the packets between may be in flight.
LeastUnacked(acks, losses) == IF acks # {} THEN Max(acks) - 2 ELSE Max(losses) + 1

LargestAcked(acks) == Max(acks \union {largest})

\* What quic-go may report lost once these packets are acknowledged.
MayBeLost(losses, acks) ==
    LET left == DOMAIN sentAt \ acks
    IN  /\ losses \subseteq {p \in left : p < LargestAcked(acks)}
        /\ {p \in left : p <= LargestAcked(acks) - PacketThreshold} \subseteq losses
        /\ \A p \in losses, q \in left : q < p => q \in losses

\* The loop over the acknowledged packets, in ascending order.
Acknowledged(begin, acks, time) ==
    LET event[pn \in -1 .. LargestAcked(acks)] ==
            IF pn = -1 THEN begin
            ELSE IF pn \in acks THEN OnPacketAcknowledged(event[pn - 1], pn, time) ELSE event[pn - 1]
    IN  event[LargestAcked(acks)]

OnCongestionEvent(acks, losses, time, count, maxBandwidth) ==
    LET begin == [fields |-> [b EXCEPT !.lost = @ + Cardinality(losses)], ring |-> candidates, best |-> None]
        event == Acknowledged(begin, acks, time)
    IN  /\ IF acks = {} THEN b' = event.fields /\ UNCHANGED <<candidates, heights>>
           ELSE AckEventEnd(event, maxBandwidth, count)
        /\ sample' = event.best
        /\ queue' = RemoveUpTo(queue, LeastUnacked(acks, losses))
        /\ sentAt' = [p \in DOMAIN sentAt \ (acks \union losses) |-> sentAt[p]]
        /\ largest' = LargestAcked(acks)
        /\ strays' = [strays EXCEPT !.strange = @ + Cardinality(losses \ Known)]
        /\ clock' = time /\ round' = count
        /\ UNCHANGED <<conservative, next>>

Times == clock .. Smaller(clock + 1, MaxTime)

Event ==
    \E acks \in SUBSET DOMAIN sentAt : \E losses \in SUBSET (DOMAIN sentAt \ acks) :
        /\ acks \union losses # {} /\ MayBeLost(losses, acks)
        /\ \E time \in Times, maxBandwidth \in MaxBandwidths :
               OnCongestionEvent(acks, losses, time, round + time - clock, maxBandwidth)

SamplerNext ==
    \/ \E time \in Times : OnPacketSent(time)
    \/ OnAckOnlySent
    \/ \E pn \in DOMAIN sentAt : LeavesFlight(pn)
    \/ OnAppLimited \/ ResetMaxAckHeightTracker
    \/ Event

SamplerSpec == SamplerInit /\ [][SamplerNext]_samplerVars

-------------------------------------------------------------------------------
(* Properties.                                                             *)

\* Removing what is obsolete never removes a packet that is still in flight: its entry is found,
\* with the time it was sent, when its acknowledgement or its loss comes; none is found for a packet
\* sent before the sampler was installed; and each packet counted as sent is in flight, or counted
\* once as acknowledged or lost, or left without a word, while of the packets not counted as sent
\* only the losses are counted.  It rests on the guess that the sender makes about the least
\* unacknowledged packet, on the queue's window of numbers and on the ring under it, that grows.
InFlightIsTracked ==
    /\ \A pn \in DOMAIN sentAt : GetEntry(queue, pn).sentTime = sentAt[pn]
    /\ b.sent + strays.strange = b.acked + b.lost + Cardinality(Known) + strays.silent
    /\ queue.present = Cardinality(DOMAIN Contents(queue))
    /\ queue.present = 0 <=> queue.first = InvalidPacket

\* What a sample says is about the network.  Its slope runs forward in time and over at least the
\* packet it is for; the candidates for its start, which are searched in order, are in order; and
\* a phase without data ends only with the acknowledgement of a packet that was sent after it
\* began, so that no sample of that phase passes for the rate of the path.
SamplesAreSound ==
    /\ sample # None =>
           /\ sample.ticks > 0 /\ sample.ackedBytes > 0
           /\ ~sample.newest \/ sample.a0.acked <= sample.ackedAtSend
    /\ \A i \in 0 .. RingLen(candidates) - 2 :
           /\ RingAt(candidates, i).time <= RingAt(candidates, i + 1).time
           /\ RingAt(candidates, i).acked <= RingAt(candidates, i + 1).acked
    /\ ~b.appLimited => largest > b.endOfAppLimited \/ b.endOfAppLimited = InvalidPacket
===============================================================================
