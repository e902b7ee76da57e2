----------------------------- MODULE PacketQueue -----------------------------
(***************************************************************************)
(* The queue that the bandwidth sampler keeps its packets in               *)
(* (congestion/bbr/packet_number_indexed_queue.go), on top of a growing    *)
(* ring (congestion/bbr/ringbuffer.go), as operators on their states.      *)
(***************************************************************************)
EXTENDS Integers, FiniteSets

InvalidPacket == -1

-------------------------------------------------------------------------------
(* The ring: positions are those of the Go slice, from 0.                  *)

NewRing(size, zero) == [ring |-> [i \in 0 .. size - 1 |-> zero], head |-> 0, tail |-> 0, full |-> FALSE]

RingSize(r) == Cardinality(DOMAIN r.ring)

RingEmpty(r) == ~r.full /\ r.head = r.tail

RingLen(r) == IF r.full THEN RingSize(r) ELSE (r.tail - r.head) % RingSize(r)

\* The i-th element from the front, of at least i + 1.
RingAt(r, i) == r.ring[(r.head + i) % RingSize(r)]

\* Variant: the two halves are copied as they lie.
GrowUnrotated(r, zero) ==
    LET n == RingSize(r)
    IN  [ring |-> [i \in 0 .. 2 * n - 1 |-> IF i < n THEN r.ring[i] ELSE zero], head |-> 0, tail |-> n, full |-> FALSE]

\* The elements in order from 0.
Grow(r, zero) ==
    LET n == RingSize(r)
    IN  [ring |-> [i \in 0 .. 2 * n - 1 |-> IF i < n THEN RingAt(r, i) ELSE zero],
         head |-> 0, tail |-> n, full |-> FALSE]

PushBack(r, e, zero) ==
    LET g == IF r.full THEN Grow(r, zero) ELSE r
        t == (g.tail + 1) % RingSize(g)
    IN  [g EXCEPT !.ring[g.tail] = e, !.tail = t, !.full = (t = g.head)]

\* PopFront n times, n at most the length.
PopFront(r, n, zero) ==
    LET popped == {(r.head + i) % RingSize(r) : i \in 0 .. n - 1}
    IN  [r EXCEPT !.ring = [i \in DOMAIN @ |-> IF i \in popped THEN zero ELSE @[i]],
                  !.head = (@ + n) % RingSize(r), !.full = @ /\ n = 0]

ClearRing(r, zero) == NewRing(RingSize(r), zero)

-------------------------------------------------------------------------------
(* The queue.  A slot is an entry or Absent.                               *)

Absent == [sentTime |-> 0]

NewQueue(size) == [entries |-> NewRing(size, Absent), present |-> 0, first |-> InvalidPacket]

QueueEmpty(q) == q.present = 0

LastPacket(q) == IF QueueEmpty(q) THEN InvalidPacket ELSE q.first + RingLen(q.entries) - 1

\* Absent slots for the numbers that were skipped.
PushGap(r, gap) ==
    LET pushed[k \in 0 .. gap] == IF k = 0 THEN r ELSE PushBack(pushed[k - 1], Absent, Absent)
    IN  IF gap > 0 THEN pushed[gap] ELSE r

Emplace(q, pn, e) ==
    IF QueueEmpty(q) THEN [entries |-> PushBack(q.entries, e, Absent), present |-> 1, first |-> pn]
    ELSE IF pn <= LastPacket(q) THEN q
    ELSE [q EXCEPT !.entries = PushBack(PushGap(@, pn - q.first - RingLen(@)), e, Absent), !.present = @ + 1]

GetEntry(q, pn) ==
    IF QueueEmpty(q) \/ pn < q.first \/ pn - q.first >= RingLen(q.entries) THEN Absent
    ELSE RingAt(q.entries, pn - q.first)

\* The slots that clearup pops: those in front of the first entry.
LeadingGap(q) ==
    CHOOSE n \in 0 .. RingLen(q.entries) :
        /\ \A i \in 0 .. n - 1 : RingAt(q.entries, i) = Absent
        /\ n < RingLen(q.entries) => RingAt(q.entries, n) # Absent

Clearup(q) ==
    LET n == LeadingGap(q) IN
    [q EXCEPT !.entries = PopFront(@, n, Absent),
              !.first = IF n = RingLen(q.entries) THEN InvalidPacket ELSE @ + n]

\* The slots below pn go, and the absent ones behind them.
RemoveUpTo(q, pn) ==
    LET len  == RingLen(q.entries)
        n    == IF q.first = InvalidPacket \/ pn <= q.first THEN 0
                ELSE IF pn - q.first < len THEN pn - q.first ELSE len
        gone == {i \in 0 .. n - 1 : RingAt(q.entries, i) # Absent}
    IN  Clearup([q EXCEPT !.entries = PopFront(@, n, Absent), !.first = @ + n, !.present = @ - Cardinality(gone)])

\* The present entries by packet number, which is all that the queue is meant to be.
Contents(q) ==
    [pn \in {q.first + i : i \in {j \in 0 .. RingLen(q.entries) - 1 : RingAt(q.entries, j) # Absent}}
        |-> RingAt(q.entries, pn - q.first)]
===============================================================================
