---------------------------- MODULE SamplerProofs -----------------------------
(***************************************************************************)
(* The bandwidth sampler, for rings of every size and every stream of      *)
(* packets and events; before it, what its parts rest on: the windowed     *)
(* maximum, which keeps its bounds for every window and every stream of    *)
(* samples, and the ring and the queue of packets, of which each operation *)
(* is shown to do to their contents what its name says.                    *)
(***************************************************************************)
EXTENDS BandwidthSampler, FiniteSetTheorems, WellFoundedInduction, TLAPS

-------------------------------------------------------------------------------
(* The windowed filter.                                                    *)

Fed(l) == \E v \in FilterSamples : l[v] >= 0

\* An estimate at time t, when l says when each value was last fed: no later value beats it.
Sound(e, t, l) ==
    /\ e.sample.v \in FilterSamples /\ e.time \in Nat /\ e.time <= t
    /\ l[e.sample.v] >= e.time
    /\ \A v \in FilterSamples : l[v] > e.time => v <= e.sample.v

\* Three sound estimates, the older ones the better ones.
Ordered(f, t, l) ==
    /\ f = <<f[1], f[2], f[3]>>
    /\ Sound(f[1], t, l) /\ Sound(f[2], t, l) /\ Sound(f[3], t, l)
    /\ f[1].time <= f[2].time /\ f[2].time <= f[3].time
    /\ f[1].sample.v >= f[2].sample.v /\ f[2].sample.v >= f[3].sample.v

FInv ==
    /\ now \in Nat /\ latest \in [FilterSamples -> Nat \cup {-1}]
    /\ \A v \in FilterSamples : latest[v] <= now
    /\ IF Fed(latest) THEN Ordered(estimates, now, latest) /\ ~Stale(estimates[1], now, FilterWindow)
                      ELSE estimates = Cleared([v |-> 0])

\* Sound estimates with the newest in the places that are free.
LEMMA Triples ==
    ASSUME NEW t \in Nat, NEW l, NEW x, NEW y, NEW z, Sound(x, t, l), Sound(y, t, l), Sound(z, t, l),
           x.time <= y.time, y.time <= z.time, x.sample.v >= y.sample.v, y.sample.v >= z.sample.v
    PROVE  Ordered(<<x, y, z>>, t, l)
BY DEF Ordered

\* Place leaves sound estimates, none below the new one, and a third that is not too old.
LEMMA PlaceStep ==
    ASSUME NEW f, NEW t \in Nat, NEW l \in [FilterSamples -> Nat \cup {-1}], NEW v \in FilterSamples,
           NEW time \in Nat, t <= time, Ordered(f, t, l), \A u \in FilterSamples : l[u] <= t,
           v < f[1].sample.v, ~Stale(f[3], time, FilterWindow)
    PROVE  LET new == At([v |-> v], time)
               p   == Place(f, new)
           IN  /\ Ordered(p, time, [l EXCEPT ![v] = time])
               /\ p[3].sample.v >= v /\ ~Stale(p[3], time, FilterWindow)
<1> DEFINE new == At([v |-> v], time)
           m   == [l EXCEPT ![v] = time]
<1> USE FilterAssumption
<1>1. new.sample.v = v /\ new.time = time
  BY DEF At
<1>2. Sound(new, time, m)
  BY <1>1 DEF Sound
<1>3. ASSUME NEW e, Sound(e, t, l), v <= e.sample.v PROVE Sound(e, time, m)
  <2>1. \A u \in FilterSamples : m[u] = IF u = v THEN time ELSE l[u]
    OBVIOUS
  <2> HIDE DEF m
  <2>2. e.time \in Nat /\ e.time <= time /\ e.sample.v \in FilterSamples /\ l[e.sample.v] >= e.time
    BY <1>3 DEF Sound
  <2>3. m[e.sample.v] >= e.time
    BY <2>1, <2>2
  <2> QED BY <1>3, <2>1, <2>2, <2>3 DEF Sound
<1>4. ~Stale(new, time, FilterWindow)
  BY <1>1 DEF Stale
<1>5. Sound(f[1], time, m) /\ f[1].time \in Nat /\ f[1].time <= time
  BY <1>3 DEF Ordered, Sound
<1> HIDE DEF new, m
<1>6. CASE v >= f[2].sample.v
  <2>1. Place(f, new) = <<f[1], new, new>>
    BY <1>1, <1>6 DEF Place
  <2>2. Ordered(<<f[1], new, new>>, time, m)
    <3>1. f[1].sample.v \in Nat /\ v \in Nat
      BY DEF Ordered, Sound
    <3> QED BY <1>1, <1>2, <1>5, <3>1, Triples
  <2> QED BY <1>1, <1>4, <2>1, <2>2 DEF new, m
<1>7. CASE v < f[2].sample.v /\ v >= f[3].sample.v
  <2>1. Place(f, new) = <<f[1], f[2], new>>
    BY <1>1, <1>7 DEF Place, Ordered, Sound
  <2>2. Sound(f[2], time, m) /\ f[2].time <= time
    BY <1>3, <1>7 DEF Ordered, Sound
  <2>3. Ordered(<<f[1], f[2], new>>, time, m)
    <3>1. f[1].time <= f[2].time /\ f[1].sample.v >= f[2].sample.v /\ f[2].sample.v >= v
      BY <1>7 DEF Ordered, Sound
    <3> QED BY <1>1, <1>2, <1>5, <2>2, <3>1, Triples
  <2> QED BY <1>1, <1>4, <2>1, <2>3 DEF new, m
<1>8. CASE v < f[2].sample.v /\ v < f[3].sample.v
  <2>1. Place(f, new) = f
    BY <1>1, <1>8 DEF Place, Ordered, Sound
  <2>2. Sound(f[2], time, m) /\ Sound(f[3], time, m)
    BY <1>3, <1>8 DEF Ordered, Sound
  <2>3. Ordered(f, time, m)
    BY <1>5, <2>2 DEF Ordered
  <2>4. f[3].sample.v >= v
    BY <1>8 DEF Ordered, Sound
  <2> QED BY <2>1, <2>3, <2>4 DEF new, m
<1>9. f[2].sample.v \in Nat /\ f[3].sample.v \in Nat /\ f[2].sample.v >= f[3].sample.v /\ v \in Nat
  BY DEF Ordered, Sound
<1> QED BY <1>6, <1>7, <1>8, <1>9

\* Update, the three ways it ends.
LEMMA UpdateStep ==
    ASSUME FInv, NEW v \in FilterSamples, NEW time \in now .. MaxRound, Feed(v, time)
    PROVE  FInv'
<1> DEFINE f   == estimates
           new == At([v |-> v], time)
           m   == [latest EXCEPT ![v] = time]
           p   == Place(f, new)
<1> USE FilterAssumption
<1>1. /\ time \in Nat /\ now <= time /\ v \in Nat /\ now \in Nat
      /\ latest' = m /\ now' = time /\ m \in [FilterSamples -> Nat \cup {-1}]
      /\ estimates' = UpdateFilter(f, [v |-> v], time, FilterWindow)
  BY DEF FInv, Feed
<1>2. Fed(m) /\ \A u \in FilterSamples : m[u] <= time
  BY <1>1 DEF FInv, Fed
<1>3. new.sample.v = v /\ new.time = time
  BY DEF At
<1>4. Sound(new, time, m)
  BY <1>1, <1>3 DEF Sound, FInv
<1>5. SUFFICES Ordered(estimates', time, m) /\ ~Stale(estimates'[1], time, FilterWindow)
  BY <1>1, <1>2 DEF FInv
<1>6. ~Stale(new, time, FilterWindow)
  BY <1>1, <1>3 DEF Stale
<1>7. CASE Best(f).v = 0 \/ v >= Best(f).v \/ Stale(f[3], time, FilterWindow)
  <2>1. estimates' = <<new, new, new>>
    BY <1>1, <1>7 DEF UpdateFilter, ResetFilter
  <2> HIDE DEF new, m
  <2>2. Ordered(<<new, new, new>>, time, m)
    BY <1>1, <1>3, <1>4, Triples
  <2> QED BY <1>6, <2>1, <2>2
<1>8. CASE ~(Best(f).v = 0 \/ v >= Best(f).v \/ Stale(f[3], time, FilterWindow))
  <2>1. Fed(latest) /\ Ordered(f, now, latest)
    BY <1>8 DEF FInv, Cleared, ResetFilter, At, Best
  <2>2. v < f[1].sample.v
    <3>1. f[1].sample.v \in Nat /\ ~(v >= f[1].sample.v)
      BY <1>8, <2>1 DEF Best, Ordered, Sound
    <3> QED BY <1>1, <3>1
  <2>3. \A u \in FilterSamples : latest[u] <= now
    BY DEF FInv
  <2>4. Ordered(p, time, m) /\ p[3].sample.v >= v /\ ~Stale(p[3], time, FilterWindow)
    BY <1>1, <1>8, <2>1, <2>2, <2>3, PlaceStep DEF FInv
  <2>5. estimates' = IF Stale(p[1], time, FilterWindow) THEN Promote(p, new, FilterWindow)
                     ELSE Refresh(p, new, FilterWindow)
    BY <1>1, <1>8 DEF UpdateFilter
  <2> HIDE DEF f, new, m, p
  <2>6. \A i \in 1 .. 3 : /\ Sound(p[i], time, m) /\ p[i].time \in Nat /\ p[i].time <= time
                          /\ p[i].sample.v \in Nat /\ p[i].sample.v >= v
    <3>1. /\ Sound(p[1], time, m) /\ Sound(p[2], time, m) /\ Sound(p[3], time, m)
          /\ p[1].sample.v >= p[2].sample.v /\ p[2].sample.v >= p[3].sample.v
      BY <2>4 DEF Ordered
    <3>2. \A i \in 1 .. 3 : Sound(p[i], time, m)
      BY <3>1
    <3>3. \A i \in 1 .. 3 : p[i].time \in Nat /\ p[i].time <= time /\ p[i].sample.v \in Nat
      BY <3>2 DEF Sound
    <3> QED BY <1>1, <2>4, <3>1, <3>2, <3>3
  <2>7. \A i \in 1 .. 3 : Ordered(<<p[i], new, new>>, time, m)
    BY <1>1, <1>3, <1>4, <2>6, Triples
  <2>8. Ordered(<<p[1], p[2], new>>, time, m) /\ Ordered(<<p[2], p[3], new>>, time, m)
    <3>1. /\ p[1].time <= p[2].time /\ p[2].time <= p[3].time
          /\ p[1].sample.v >= p[2].sample.v /\ p[2].sample.v >= p[3].sample.v
      BY <2>4 DEF Ordered
    <3> QED BY <1>1, <1>3, <1>4, <2>6, <3>1, Triples
  <2>9. CASE Stale(p[1], time, FilterWindow)
    <3>1. estimates' = IF Stale(p[2], time, FilterWindow) THEN <<p[3], new, new>> ELSE <<p[2], p[3], new>>
      BY <1>3, <2>5, <2>9 DEF Promote
    <3> QED BY <2>4, <2>7, <2>8, <3>1
  <2>10. CASE ~Stale(p[1], time, FilterWindow)
    <3>1. estimates' = Refresh(p, new, FilterWindow)
      BY <2>5, <2>10
    <3>2. Refresh(p, new, FilterWindow) \in {<<p[1], new, new>>, <<p[1], p[2], new>>, p}
      BY DEF Refresh
    <3> QED BY <2>4, <2>7, <2>8, <2>10, <3>1, <3>2
  <2> QED BY <2>9, <2>10
<1> QED BY <1>7, <1>8

\* The best estimate is recent and the best of what came later, whatever is fed.
THEOREM FilterIsBounded == FilterSpec => []FilterBounds
<1>1. FilterInit => FInv
  BY FilterAssumption DEF FilterInit, FInv, Fed
<1>2. FInv /\ [FilterNext]_filterVars => FInv'
  <2>1. FInv /\ UNCHANGED filterVars => FInv'
    BY DEF FInv, filterVars
  <2> QED BY <2>1, UpdateStep DEF FilterNext
<1>3. FInv => FilterBounds
  <2> SUFFICES ASSUME FInv, Fed(latest) PROVE FilterBounds
    BY DEF FilterBounds, Fed
  <2>1. Ordered(estimates, now, latest) /\ ~Stale(estimates[1], now, FilterWindow)
    BY DEF FInv
  <2> QED BY <2>1 DEF FilterBounds, Ordered, Sound, Best
<1> QED BY <1>1, <1>2, <1>3, PTL DEF FilterSpec

-------------------------------------------------------------------------------
(* The ring and the queue.                                                 *)

\* A ring of n slots that holds members of E; it is full only when head and tail meet.
IsRing(r, E, n) ==
    /\ n \in Nat \ {0}
    /\ r \in [ring : [0 .. n - 1 -> E], head : 0 .. n - 1, tail : 0 .. n - 1, full : BOOLEAN]
    /\ r.full => r.head = r.tail

\* The remainder of a number that is at most one turn away.
LEMMA Mod ==
    ASSUME NEW n \in Nat \ {0}, NEW a \in Int
    PROVE  /\ a \in 0 .. n - 1 => a % n = a
           /\ a \in n .. 2 * n - 1 => a % n = a - n
           /\ a \in 1 - n .. - 1 => a % n = a + n
  OBVIOUS

\* The size is that of the Go slice.
LEMMA SizeIs ==
    ASSUME NEW E, NEW n, NEW r, IsRing(r, E, n)
    PROVE  RingSize(r) = n
  <1>1. n \in Nat \ {0} /\ DOMAIN r.ring = 0 .. n - 1
    BY DEF IsRing
  <1>2. Cardinality(0 .. n - 1) = n
    BY <1>1, FS_Interval
  <1> QED
    BY <1>1, <1>2 DEF RingSize

\* The slot of the i-th place.
LEMMA Slots ==
    ASSUME NEW n \in Nat \ {0}, NEW h \in 0 .. n - 1, NEW i \in 0 .. n
    PROVE  (h + i) % n = IF h + i < n THEN h + i ELSE h + i - n
  BY Mod

\* Two places of a ring are two slots.
LEMMA SlotsDiffer ==
    ASSUME NEW n \in Nat \ {0}, NEW h \in 0 .. n - 1, NEW i \in 0 .. n - 1, NEW j \in 0 .. n - 1, i < j
    PROVE  (IF h + i < n THEN h + i ELSE h + i - n) # (IF h + j < n THEN h + j ELSE h + j - n)
  OBVIOUS

\* The length, counted forward from head to tail, is the size just when the ring is full.
LEMMA LenIs ==
    ASSUME NEW E, NEW n, NEW r, IsRing(r, E, n)
    PROVE  /\ RingLen(r) = IF r.full THEN n ELSE IF r.head <= r.tail THEN r.tail - r.head ELSE r.tail - r.head + n
           /\ RingLen(r) \in 0 .. n
           /\ RingLen(r) = n <=> r.full
           /\ RingEmpty(r) <=> RingLen(r) = 0
  <1>1. /\ n \in Nat \ {0} /\ r.head \in 0 .. n - 1 /\ r.tail \in 0 .. n - 1 /\ r.full \in BOOLEAN
        /\ r.full => r.head = r.tail
    BY DEF IsRing
  <1>2. RingSize(r) = n
    BY SizeIs
  <1>3. (r.tail - r.head) % n = IF r.head <= r.tail THEN r.tail - r.head ELSE r.tail - r.head + n
    BY <1>1, Mod
  <1>4. RingLen(r) = IF r.full THEN n ELSE IF r.head <= r.tail THEN r.tail - r.head ELSE r.tail - r.head + n
    BY <1>2, <1>3 DEF RingLen
  <1> QED
    BY <1>1, <1>4 DEF RingEmpty

\* The i-th element, without the remainder.
LEMMA AtIs ==
    ASSUME NEW E, NEW n, NEW r, IsRing(r, E, n), NEW i \in 0 .. n - 1
    PROVE  /\ RingAt(r, i) = r.ring[IF r.head + i < n THEN r.head + i ELSE r.head + i - n]
           /\ RingAt(r, i) \in E
  <1>1. n \in Nat \ {0} /\ r.head \in 0 .. n - 1 /\ r.ring \in [0 .. n - 1 -> E]
    BY DEF IsRing
  <1>0. i \in 0 .. n
    BY <1>1
  <1>2. (r.head + i) % n = IF r.head + i < n THEN r.head + i ELSE r.head + i - n
    BY <1>0, <1>1, Slots
  <1>3. RingAt(r, i) = r.ring[(r.head + i) % n]
    BY SizeIs DEF RingAt
  <1>4. (IF r.head + i < n THEN r.head + i ELSE r.head + i - n) \in 0 .. n - 1
    BY <1>1
  <1> QED
    BY <1>1, <1>2, <1>3, <1>4

\* A new ring is a ring without elements.
LEMMA NewRingIs ==
    ASSUME NEW E, NEW n \in Nat \ {0}, NEW zero \in E
    PROVE  IsRing(NewRing(n, zero), E, n) /\ RingLen(NewRing(n, zero)) = 0
  <1>1. IsRing(NewRing(n, zero), E, n)
    BY DEF IsRing, NewRing
  <1> QED
    BY <1>1, LenIs DEF NewRing

\* PushBack into a ring that has room.
LEMMA PushBackRoom ==
    ASSUME NEW E, NEW n, NEW r, IsRing(r, E, n), NEW e \in E, NEW zero, ~r.full
    PROVE  /\ IsRing(PushBack(r, e, zero), E, n)
           /\ RingLen(PushBack(r, e, zero)) = RingLen(r) + 1
           /\ \A i \in 0 .. RingLen(r) - 1 : RingAt(PushBack(r, e, zero), i) = RingAt(r, i)
           /\ RingAt(PushBack(r, e, zero), RingLen(r)) = e
  <1> DEFINE s == PushBack(r, e, zero)
             t == IF r.tail + 1 < n THEN r.tail + 1 ELSE 0
  <1>1. /\ n \in Nat \ {0} /\ r.head \in 0 .. n - 1 /\ r.tail \in 0 .. n - 1
        /\ r.ring \in [0 .. n - 1 -> E]
        /\ r = [ring |-> r.ring, head |-> r.head, tail |-> r.tail, full |-> r.full]
    BY DEF IsRing
  <1>2. t = (r.tail + 1) % n /\ t \in 0 .. n - 1
    <2>1. 1 \in 0 .. n
      BY <1>1
    <2>2. (r.tail + 1) % n = IF r.tail + 1 < n THEN r.tail + 1 ELSE r.tail + 1 - n
      BY <1>1, <2>1, Slots
    <2> QED
      BY <1>1, <2>2
  <1> HIDE DEF t
  <1>20. s = [r EXCEPT !.ring[r.tail] = e, !.tail = t, !.full = (t = r.head)]
    BY <1>2, SizeIs DEF PushBack
  <1>3. /\ s.ring = [r.ring EXCEPT ![r.tail] = e] /\ s.head = r.head
        /\ s.tail = t /\ s.full \in BOOLEAN /\ (s.full <=> t = r.head)
        /\ s = [ring |-> s.ring, head |-> s.head, tail |-> s.tail, full |-> s.full]
    BY <1>1, <1>20
  <1> HIDE DEF s
  <1>4. s.ring \in [0 .. n - 1 -> E]
    BY <1>1, <1>3
  <1>5. IsRing(s, E, n)
    BY <1>1, <1>2, <1>3, <1>4 DEF IsRing
  <1>60. /\ RingLen(r) = IF r.head <= r.tail THEN r.tail - r.head ELSE r.tail - r.head + n
        /\ RingLen(r) \in 0 .. n - 1
    BY <1>1, LenIs
  <1>61. RingLen(s) = IF s.full THEN n ELSE IF s.head <= s.tail THEN s.tail - s.head ELSE s.tail - s.head + n
    BY <1>5, LenIs
  <1>62. t = IF r.tail + 1 < n THEN r.tail + 1 ELSE 0
    BY DEF t
  <1>6. RingLen(s) = RingLen(r) + 1 /\ RingLen(r) \in 0 .. n - 1
    BY <1>1, <1>3, <1>60, <1>61, <1>62
  <1>7. ASSUME NEW i \in 0 .. RingLen(r) - 1
        PROVE  RingAt(s, i) = RingAt(r, i)
    <2>1. i \in 0 .. n - 1
      BY <1>1, <1>6
    <2> DEFINE j == IF r.head + i < n THEN r.head + i ELSE r.head + i - n
    <2>2. j # r.tail /\ j \in 0 .. n - 1
      BY <1>1, <1>60, <2>1, SMTT(30)
    <2>30. RingAt(s, i) = s.ring[IF s.head + i < n THEN s.head + i ELSE s.head + i - n]
      BY <1>5, <2>1, AtIs
    <2>3. RingAt(s, i) = s.ring[j]
      BY <1>3, <2>30
    <2>4. RingAt(r, i) = r.ring[j]
      BY <2>1, AtIs
    <2> QED
      BY <1>1, <1>3, <2>2, <2>3, <2>4
  <1>8. RingAt(s, RingLen(r)) = e
    <2> DEFINE i == RingLen(r)
    <2>2. RingAt(s, i) = s.ring[IF s.head + i < n THEN s.head + i ELSE s.head + i - n]
      BY <1>5, <1>6, AtIs
    <2>3. r.tail = IF s.head + i < n THEN s.head + i ELSE s.head + i - n
      BY <1>1, <1>3, <1>60
    <2>1. RingAt(s, i) = s.ring[r.tail]
      BY <2>2, <2>3
    <2> QED
      BY <1>1, <1>3, <2>1
  <1> QED
    BY <1>5, <1>6, <1>7, <1>8 DEF s

\* Grow doubles the ring and keeps what is in it, in order.
LEMMA GrowIs ==
    ASSUME NEW E, NEW n, NEW r, IsRing(r, E, n), r.full, NEW zero \in E
    PROVE  /\ IsRing(Grow(r, zero), E, 2 * n) /\ ~Grow(r, zero).full
           /\ RingLen(Grow(r, zero)) = RingLen(r)
           /\ \A i \in 0 .. RingLen(r) - 1 : RingAt(Grow(r, zero), i) = RingAt(r, i)
  <1> DEFINE g == Grow(r, zero)
  <1>1. n \in Nat \ {0} /\ 2 * n \in Nat \ {0} /\ RingLen(r) = n
    <2>1. n \in Nat \ {0}
      BY DEF IsRing
    <2>2. 2 * n \in Nat \ {0}
      BY <2>1
    <2>3. RingLen(r) = n
      BY LenIs
    <2> QED
      BY <2>1, <2>2, <2>3
  <1>2. /\ g.ring = [i \in 0 .. 2 * n - 1 |-> IF i < n THEN RingAt(r, i) ELSE zero]
        /\ g.head = 0 /\ g.tail = n /\ g.full = FALSE
        /\ g = [ring |-> g.ring, head |-> g.head, tail |-> g.tail, full |-> g.full]
    BY SizeIs DEF Grow
  <1> HIDE DEF g
  <1>3. \A i \in 0 .. 2 * n - 1 : (IF i < n THEN RingAt(r, i) ELSE zero) \in E
    <2> TAKE i \in 0 .. 2 * n - 1
    <2>1. CASE i < n
      <3>1. i \in 0 .. n - 1
        BY <1>1, <2>1
      <3> QED
        BY <2>1, <3>1, AtIs
    <2>2. CASE ~(i < n)
      BY <2>2
    <2> QED
      BY <2>1, <2>2
  <1>4. g.ring \in [0 .. 2 * n - 1 -> E]
    BY <1>2, <1>3
  <1>5. g.head \in 0 .. 2 * n - 1 /\ g.tail \in 0 .. 2 * n - 1
    BY <1>1, <1>2
  <1>6. IsRing(g, E, 2 * n)
    BY <1>1, <1>2, <1>4, <1>5 DEF IsRing
  <1>7. RingLen(g) = IF g.full THEN 2 * n ELSE IF g.head <= g.tail THEN g.tail - g.head ELSE g.tail - g.head + 2 * n
    BY <1>6, LenIs
  <1>8. RingLen(g) = n
    BY <1>1, <1>2, <1>7
  <1>9. ASSUME NEW i \in 0 .. n - 1
        PROVE  RingAt(g, i) = RingAt(r, i)
    <2>1. i \in 0 .. 2 * n - 1 /\ i < n /\ i < 2 * n
      BY <1>1
    <2>2. RingAt(g, i) = g.ring[IF g.head + i < 2 * n THEN g.head + i ELSE g.head + i - 2 * n]
      BY <1>6, <2>1, AtIs
    <2>3. (IF g.head + i < 2 * n THEN g.head + i ELSE g.head + i - 2 * n) = i
      BY <1>1, <1>2, <2>1
    <2>4. RingAt(g, i) = g.ring[i]
      BY <2>2, <2>3
    <2> QED
      BY <1>2, <2>1, <2>4
  <1> QED
    BY <1>1, <1>2, <1>6, <1>8, <1>9 DEF g

\* A ring, whatever its size.
RingOf(r, E) == \E n : IsRing(r, E, n)

\* What is in a ring, whatever its size.
LEMMA RingLenType ==
    ASSUME NEW E, NEW r, RingOf(r, E)
    PROVE  /\ RingLen(r) \in Nat
           /\ RingEmpty(r) <=> RingLen(r) = 0
           /\ \A i \in 0 .. RingLen(r) - 1 : RingAt(r, i) \in E
  <1>1. PICK n : IsRing(r, E, n)
    BY DEF RingOf
  <1>2. n \in Nat \ {0} /\ RingLen(r) \in 0 .. n
    BY <1>1, LenIs DEF IsRing
  <1>3. \A i \in 0 .. n - 1 : RingAt(r, i) \in E
    BY <1>1, AtIs
  <1>4. RingLen(r) \in Nat /\ \A i \in 0 .. RingLen(r) - 1 : i \in 0 .. n - 1
    BY <1>2
  <1> QED
    BY <1>1, <1>3, <1>4, LenIs

\* PushBack adds one element at the end, whether the ring has to grow or not.
LEMMA PushBackIs ==
    ASSUME NEW E, NEW r, RingOf(r, E), NEW e \in E, NEW zero \in E
    PROVE  /\ RingOf(PushBack(r, e, zero), E)
           /\ RingLen(PushBack(r, e, zero)) = RingLen(r) + 1
           /\ \A i \in 0 .. RingLen(r) - 1 : RingAt(PushBack(r, e, zero), i) = RingAt(r, i)
           /\ RingAt(PushBack(r, e, zero), RingLen(r)) = e
  <1>1. PICK n : IsRing(r, E, n)
    BY DEF RingOf
  <1>2. CASE ~r.full
    BY <1>1, <1>2, PushBackRoom DEF RingOf
  <1>3. CASE r.full
    <2> DEFINE g == Grow(r, zero)
    <2>1. /\ IsRing(g, E, 2 * n) /\ ~g.full /\ RingLen(g) = RingLen(r)
          /\ \A i \in 0 .. RingLen(r) - 1 : RingAt(g, i) = RingAt(r, i)
      BY <1>1, <1>3, GrowIs
    <2>2. PushBack(r, e, zero) = PushBack(g, e, zero)
      BY <1>3, <2>1 DEF PushBack
    <2> HIDE DEF g
    <2>3. /\ IsRing(PushBack(g, e, zero), E, 2 * n)
          /\ RingLen(PushBack(g, e, zero)) = RingLen(g) + 1
          /\ \A i \in 0 .. RingLen(g) - 1 : RingAt(PushBack(g, e, zero), i) = RingAt(g, i)
          /\ RingAt(PushBack(g, e, zero), RingLen(g)) = e
      BY <2>1, PushBackRoom
    <2> QED
      BY <2>1, <2>2, <2>3 DEF RingOf
  <1> QED
    BY <1>2, <1>3

\* PopFront takes the first elements away.
LEMMA PopFrontIs ==
    ASSUME NEW E, NEW r, RingOf(r, E), NEW zero \in E, NEW k \in 0 .. RingLen(r)
    PROVE  /\ RingOf(PopFront(r, k, zero), E)
           /\ RingLen(PopFront(r, k, zero)) = RingLen(r) - k
           /\ \A i \in 0 .. RingLen(r) - k - 1 : RingAt(PopFront(r, k, zero), i) = RingAt(r, i + k)
  <1>1. PICK n : IsRing(r, E, n)
    BY DEF RingOf
  <1> DEFINE s == PopFront(r, k, zero)
             m == RingLen(r)
             h == IF r.head + k < n THEN r.head + k ELSE r.head + k - n
             popped == {(r.head + i) % n : i \in 0 .. k - 1}
  <1>2. /\ n \in Nat \ {0} /\ r.head \in 0 .. n - 1 /\ r.tail \in 0 .. n - 1
        /\ r.full \in BOOLEAN /\ (r.full => r.head = r.tail) /\ r.ring \in [0 .. n - 1 -> E]
        /\ r = [ring |-> r.ring, head |-> r.head, tail |-> r.tail, full |-> r.full]
    BY <1>1 DEF IsRing
  <1>3. /\ m = IF r.full THEN n ELSE IF r.head <= r.tail THEN r.tail - r.head ELSE r.tail - r.head + n
        /\ m \in 0 .. n /\ (m = n <=> r.full)
    BY <1>1, LenIs
  <1>4. k \in 0 .. m /\ k \in 0 .. n
    <2>1. k \in 0 .. m
      OBVIOUS
    <2> HIDE DEF m
    <2> QED
      BY <1>2, <1>3, <2>1
  <1>5. (r.head + k) % n = h /\ h \in 0 .. n - 1
    <2>1. (r.head + k) % n = h
      BY <1>2, <1>4, Slots
    <2> QED
      BY <1>2, <1>4, <2>1
  <1>6. RingSize(r) = n
    BY <1>1, SizeIs
  <1>7. s = [r EXCEPT !.ring = [i \in DOMAIN r.ring |-> IF i \in popped THEN zero ELSE r.ring[i]],
                      !.head = (r.head + k) % n, !.full = r.full /\ k = 0]
    BY <1>6 DEF PopFront
  <1> HIDE DEF h, s, popped, m
  <1>8. /\ s.ring = [i \in 0 .. n - 1 |-> IF i \in popped THEN zero ELSE r.ring[i]]
        /\ s.head = h /\ s.tail = r.tail /\ s.full \in BOOLEAN /\ (s.full <=> r.full /\ k = 0)
        /\ s = [ring |-> s.ring, head |-> s.head, tail |-> s.tail, full |-> s.full]
    BY <1>2, <1>5, <1>7
  <1>9. s.ring \in [0 .. n - 1 -> E]
    BY <1>2, <1>8
  <1>10. k = 0 => h = r.head
    BY <1>2 DEF h
  <1>11. IsRing(s, E, n)
    BY <1>2, <1>5, <1>8, <1>9, <1>10 DEF IsRing
  <1>12. RingLen(s) = IF s.full THEN n ELSE IF s.head <= s.tail THEN s.tail - s.head ELSE s.tail - s.head + n
    BY <1>11, LenIs
  <1>13. RingLen(s) = m - k
    BY <1>2, <1>3, <1>4, <1>8, <1>12 DEF h
  <1>14. ASSUME NEW i \in 0 .. m - k - 1
         PROVE  RingAt(s, i) = RingAt(r, i + k)
    <2>1. i \in 0 .. n - 1 /\ i + k \in 0 .. n - 1
      BY <1>2, <1>3, <1>4, SMTT(30)
    <2> DEFINE j == IF s.head + i < n THEN s.head + i ELSE s.head + i - n
    <2>2. RingAt(s, i) = s.ring[j]
      BY <1>11, <2>1, AtIs
    <2>3. RingAt(r, i + k) = r.ring[IF r.head + (i + k) < n THEN r.head + (i + k) ELSE r.head + (i + k) - n]
      BY <1>1, <2>1, AtIs
    <2>4. j = IF r.head + (i + k) < n THEN r.head + (i + k) ELSE r.head + (i + k) - n
      BY <1>2, <1>4, <1>8, <2>1, SMTT(30) DEF h
    <2>5. j \in 0 .. n - 1
      BY <1>2, <2>1, <2>4
    <2> HIDE DEF j
    <2>6. j \notin popped
      <3> SUFFICES ASSUME NEW l \in 0 .. k - 1, j = (r.head + l) % n
                   PROVE  FALSE
        BY DEF popped
      <3>1. l \in 0 .. n
        BY <1>2, <1>4
      <3>2. (r.head + l) % n = IF r.head + l < n THEN r.head + l ELSE r.head + l - n
        BY <1>2, <3>1, Slots
      <3>3. j = IF r.head + l < n THEN r.head + l ELSE r.head + l - n
        BY <3>2
      <3>4. l \in 0 .. n - 1 /\ l < i + k
        BY <1>2, <1>4, <2>1
      <3> HIDE DEF j
      <3> QED
        BY <1>2, <2>1, <2>4, <3>3, <3>4, SlotsDiffer
    <2> QED
      BY <1>2, <1>8, <2>2, <2>3, <2>4, <2>5, <2>6
  <1> QED
    BY <1>11, <1>13, <1>14 DEF RingOf, s, m

\* Induction, over a set of numbers.
LEMMA Induction ==
    ASSUME NEW T, 0 \in T, \A n \in Nat : n \in T => n + 1 \in T
    PROVE  Nat \subseteq T
  <1> SUFFICES ASSUME Nat \ T # {}
               PROVE  FALSE
    OBVIOUS
  <1>1. \E n \in Nat \ T : \A m \in Nat \ T : ~(m < n)
    <2>1. PICK n \in Nat \ T : \A m \in Nat \ T : ~(<<m, n>> \in OpToRel(<, Nat))
      BY NatLessThanWellFounded, WFMin
    <2>2. \A m \in Nat \ T : ~(m < n)
      BY <2>1 DEF OpToRel
    <2>3. n \in Nat \ T
      BY <2>1
    <2> QED
      BY <2>2, <2>3
  <1>2. PICK n \in Nat \ T : \A m \in Nat \ T : ~(m < n)
    BY <1>1
  <1>3. n - 1 \in Nat /\ n - 1 < n
    BY <1>2
  <1>4. n - 1 \in T
    BY <1>2, <1>3
  <1>5. (n - 1) + 1 = n
    BY <1>2
  <1> QED
    BY <1>2, <1>3, <1>4, <1>5

\* Two ways to say what the slot of a packet holds: of any queue, and of one that keeps its front.
SlotOf(q, p) ==
    IF q.first <= p /\ p - q.first < RingLen(q.entries) THEN RingAt(q.entries, p - q.first) ELSE Absent

Held(q) == {p \in Nat : SlotOf(q, p) # Absent}

\* A queue whose front slots may be absent, as within RemoveUpTo.
Loose(q, E) ==
    /\ q = [entries |-> q.entries, present |-> q.present, first |-> q.first]
    /\ RingOf(q.entries, E \cup {Absent})
    /\ q.first \in Int /\ (RingLen(q.entries) > 0 => q.first \in Nat)
    /\ q.present = Cardinality(Held(q))

\* The queue between two calls: its front slot is present, and it has no first packet when it
\* has no slots.
QueueOf(q, E) ==
    /\ Loose(q, E)
    /\ RingLen(q.entries) = 0 <=> q.first = InvalidPacket
    /\ RingLen(q.entries) > 0 => RingAt(q.entries, 0) # Absent

\* A slot is an entry or absent, and only the packets of the window have one.
LEMMA SlotIs ==
    ASSUME NEW E, NEW q, Loose(q, E), NEW p \in Int
    PROVE  /\ SlotOf(q, p) \in E \cup {Absent}
           /\ SlotOf(q, p) # Absent => p \in Nat /\ q.first <= p /\ p <= q.first + RingLen(q.entries) - 1
  <1>1. PICK n \in Nat : n = RingLen(q.entries)
    BY RingLenType DEF Loose
  <1>2. \A i \in 0 .. n - 1 : RingAt(q.entries, i) \in E \cup {Absent}
    BY <1>1, RingLenType DEF Loose
  <1>3. q.first \in Int /\ (n > 0 => q.first \in Nat)
    BY <1>1 DEF Loose
  <1>4. SlotOf(q, p) = IF q.first <= p /\ p - q.first < n THEN RingAt(q.entries, p - q.first) ELSE Absent
    BY <1>1 DEF SlotOf
  <1>5. CASE q.first <= p /\ p - q.first < n
    <2>1. p - q.first \in 0 .. n - 1 /\ n > 0 /\ p \in Nat /\ p <= q.first + n - 1
      BY <1>3, <1>5
    <2> QED
      BY <1>1, <1>2, <1>3, <1>4, <1>5, <2>1
  <1>6. CASE ~(q.first <= p /\ p - q.first < n)
    BY <1>4, <1>6
  <1> QED
    BY <1>5, <1>6

\* The packets of a queue can be counted.
LEMMA HeldIsFinite ==
    ASSUME NEW E, NEW q, Loose(q, E)
    PROVE  /\ IsFiniteSet(Held(q)) /\ Cardinality(Held(q)) \in Nat
           /\ Held(q) = {} <=> Cardinality(Held(q)) = 0
  <1>1. PICK n \in Nat : n = RingLen(q.entries)
    BY RingLenType DEF Loose
  <1>2. q.first \in Int
    BY DEF Loose
  <1>3. Held(q) \subseteq q.first .. q.first + n - 1
    <2> SUFFICES ASSUME NEW p \in Held(q)
                 PROVE  p \in q.first .. q.first + n - 1
      OBVIOUS
    <2>1. p \in Nat /\ SlotOf(q, p) # Absent
      BY DEF Held
    <2>2. p \in Int
      BY <2>1
    <2>3. q.first <= p /\ p <= q.first + n - 1
      BY <1>1, <2>1, <2>2, SlotIs
    <2> QED
      BY <1>2, <2>2, <2>3
  <1>4. IsFiniteSet(q.first .. q.first + n - 1)
    BY <1>2, FS_Interval
  <1>5. IsFiniteSet(Held(q))
    BY <1>3, <1>4, FS_Subset
  <1> QED
    BY <1>5, FS_CardinalityType, FS_EmptySet

\* A queue is empty when it holds nothing, and then has no slots.
LEMMA EmptyIs ==
    ASSUME NEW E, NEW q, QueueOf(q, E)
    PROVE  QueueEmpty(q) <=> RingLen(q.entries) = 0
  <1>1. PICK n \in Nat : n = RingLen(q.entries)
    BY RingLenType DEF QueueOf, Loose
  <1>2. Loose(q, E)
    BY DEF QueueOf
  <1>3. QueueEmpty(q) <=> Held(q) = {}
    BY <1>2, HeldIsFinite DEF QueueEmpty, Loose
  <1>4. ASSUME n > 0
        PROVE  q.first \in Held(q)
    <2>1. q.first \in Nat /\ q.first <= q.first /\ q.first - q.first = 0
      BY <1>1, <1>2, <1>4 DEF Loose
    <2>2. RingAt(q.entries, 0) # Absent
      BY <1>1, <1>4 DEF QueueOf
    <2>3. SlotOf(q, q.first) = RingAt(q.entries, 0)
      BY <1>1, <1>4, <2>1 DEF SlotOf
    <2> QED
      BY <2>1, <2>2, <2>3 DEF Held
  <1>5. ASSUME n = 0
        PROVE  Held(q) = {}
    <2> SUFFICES ASSUME NEW p \in Nat, SlotOf(q, p) # Absent
                 PROVE  FALSE
      BY DEF Held
    <2>1. p \in Int
      OBVIOUS
    <2>2. q.first <= p /\ p <= q.first + n - 1 /\ q.first \in Int
      BY <1>1, <1>2, <2>1, SlotIs DEF Loose
    <2> QED
      BY <1>5, <2>1, <2>2
  <1> QED
    BY <1>1, <1>3, <1>4, <1>5

\* GetEntry finds what is in the slot of the packet.
LEMMA EntryIs ==
    ASSUME NEW E, NEW q, QueueOf(q, E), NEW p \in Int
    PROVE  GetEntry(q, p) = SlotOf(q, p)
  <1>1. PICK n \in Nat : n = RingLen(q.entries)
    BY RingLenType DEF QueueOf, Loose
  <1>2. QueueEmpty(q) <=> n = 0
    BY <1>1, EmptyIs
  <1>3. q.first \in Int
    BY DEF QueueOf, Loose
  <1>4. GetEntry(q, p) = IF n = 0 \/ p < q.first \/ p - q.first >= n THEN Absent ELSE RingAt(q.entries, p - q.first)
    BY <1>1, <1>2 DEF GetEntry
  <1>5. SlotOf(q, p) = IF q.first <= p /\ p - q.first < n THEN RingAt(q.entries, p - q.first) ELSE Absent
    BY <1>1 DEF SlotOf
  <1>6. (n = 0 \/ p < q.first \/ p - q.first >= n) <=> ~(q.first <= p /\ p - q.first < n)
    BY <1>3
  <1> QED
    BY <1>4, <1>5, <1>6

\* What Contents collects is what is held.
LEMMA ContentsIs ==
    ASSUME NEW E, NEW q, QueueOf(q, E)
    PROVE  DOMAIN Contents(q) = Held(q)
  <1>1. PICK n \in Nat : n = RingLen(q.entries)
    BY RingLenType DEF QueueOf, Loose
  <1>2. Loose(q, E) /\ q.first \in Int /\ (n > 0 => q.first \in Nat)
    BY <1>1 DEF QueueOf, Loose
  <1> DEFINE S == {q.first + i : i \in {j \in 0 .. n - 1 : RingAt(q.entries, j) # Absent}}
  <1>3. DOMAIN Contents(q) = S
    BY <1>1 DEF Contents
  <1>4. ASSUME NEW j \in 0 .. n - 1, RingAt(q.entries, j) # Absent
        PROVE  q.first + j \in Held(q)
    <2>1. q.first + j \in Nat /\ q.first <= q.first + j /\ (q.first + j) - q.first = j /\ j < n
      BY <1>2
    <2>2. SlotOf(q, q.first + j) = RingAt(q.entries, j)
      BY <1>1, <2>1 DEF SlotOf
    <2> QED
      BY <1>4, <2>1, <2>2 DEF Held
  <1>5. ASSUME NEW p \in Held(q)
        PROVE  p \in S
    <2>1. p \in Nat /\ SlotOf(q, p) # Absent
      BY DEF Held
    <2>2. SlotOf(q, p) = IF q.first <= p /\ p - q.first < n THEN RingAt(q.entries, p - q.first) ELSE Absent
      BY <1>1 DEF SlotOf
    <2>3. q.first <= p /\ p - q.first < n /\ RingAt(q.entries, p - q.first) # Absent
      BY <2>1, <2>2
    <2>4. p - q.first \in 0 .. n - 1 /\ q.first + (p - q.first) = p
      BY <1>2, <2>1, <2>3
    <2> QED
      BY <2>3, <2>4
  <1> QED
    BY <1>3, <1>4, <1>5

\* k slots were taken from the front of q, and first moved along.
MovedOn(q, k, r) == r.entries = PopFront(q.entries, k, Absent) /\ r.first = q.first + k

\* That leaves the other packets where they are.
LEMMA Popped ==
    ASSUME NEW E, NEW q, Loose(q, E), NEW k \in 0 .. RingLen(q.entries), NEW r, MovedOn(q, k, r)
    PROVE  /\ RingOf(r.entries, E \cup {Absent}) /\ RingLen(r.entries) = RingLen(q.entries) - k
           /\ \A p \in Int : SlotOf(r, p) = IF p < q.first + k THEN Absent ELSE SlotOf(q, p)
  <1>1. PICK n \in Nat : n = RingLen(q.entries)
    BY RingLenType DEF Loose
  <1>2. k \in 0 .. n /\ q.first \in Int
    BY <1>1 DEF Loose
  <1>3. Absent \in E \cup {Absent} /\ RingOf(q.entries, E \cup {Absent})
    BY DEF Loose
  <1>4. r.entries = PopFront(q.entries, k, Absent) /\ r.first = q.first + k
    BY DEF MovedOn
  <1>5. /\ RingOf(r.entries, E \cup {Absent}) /\ RingLen(r.entries) = n - k
        /\ \A i \in 0 .. n - k - 1 : RingAt(r.entries, i) = RingAt(q.entries, i + k)
    <2> DEFINE s == PopFront(q.entries, k, Absent)
    <2>1. /\ RingOf(s, E \cup {Absent}) /\ RingLen(s) = RingLen(q.entries) - k
          /\ \A i \in 0 .. RingLen(q.entries) - k - 1 : RingAt(s, i) = RingAt(q.entries, i + k)
      BY <1>3, PopFrontIs
    <2> HIDE DEF s
    <2> QED
      BY <1>1, <1>4, <2>1 DEF s
  <1>6. ASSUME NEW p \in Int
        PROVE  SlotOf(r, p) = IF p < q.first + k THEN Absent ELSE SlotOf(q, p)
    <2>1. SlotOf(r, p) = IF q.first + k <= p /\ p - (q.first + k) < n - k
                         THEN RingAt(r.entries, p - (q.first + k)) ELSE Absent
      BY <1>4, <1>5 DEF SlotOf
    <2>2. SlotOf(q, p) = IF q.first <= p /\ p - q.first < n THEN RingAt(q.entries, p - q.first) ELSE Absent
      BY <1>1 DEF SlotOf
    <2>3. CASE p < q.first + k
      BY <1>2, <2>1, <2>3
    <2>4. CASE ~(p < q.first + k) /\ p - q.first < n
      <3>1. /\ p - (q.first + k) \in 0 .. n - k - 1 /\ (p - (q.first + k)) + k = p - q.first
            /\ q.first <= p /\ q.first + k <= p /\ p - (q.first + k) < n - k
        BY <1>2, <2>4
      <3>2. RingAt(r.entries, p - (q.first + k)) = RingAt(q.entries, p - q.first)
        BY <1>5, <3>1
      <3> QED
        BY <2>1, <2>2, <2>4, <3>1, <3>2
    <2>5. CASE ~(p < q.first + k) /\ ~(p - q.first < n)
      <3>1. ~(p - (q.first + k) < n - k)
        BY <1>2, <2>5
      <3> QED
        BY <2>1, <2>2, <2>5, <3>1
    <2> QED
      BY <2>3, <2>4, <2>5
  <1> QED
    BY <1>1, <1>5, <1>6

\* clearup knows where to stop.
LEMMA LeadingGapIs ==
    ASSUME NEW E, NEW q, Loose(q, E), NEW len \in Nat, len = RingLen(q.entries)
    PROVE  /\ LeadingGap(q) \in 0 .. len
           /\ \A i \in 0 .. LeadingGap(q) - 1 : RingAt(q.entries, i) = Absent
           /\ LeadingGap(q) < len => RingAt(q.entries, LeadingGap(q)) # Absent
  <1> DEFINE gap(n) == /\ \A i \in 0 .. n - 1 : RingAt(q.entries, i) = Absent
                       /\ n < len => RingAt(q.entries, n) # Absent
             T == {n \in Nat : n <= len => \A i \in 0 .. n - 1 : RingAt(q.entries, i) = Absent}
  <1>1. \E n \in 0 .. len : gap(n)
    <2> SUFFICES ASSUME \A n \in 0 .. len : ~gap(n)
                 PROVE  FALSE
      OBVIOUS
    <2>1. 0 \in T
      OBVIOUS
    <2>2. ASSUME NEW n \in Nat, n \in T
          PROVE  n + 1 \in T
      <3> SUFFICES ASSUME n + 1 <= len, NEW i \in 0 .. (n + 1) - 1
                   PROVE  RingAt(q.entries, i) = Absent
        OBVIOUS
      <3>1. n \in 0 .. len /\ n < len
        OBVIOUS
      <3>2. \A j \in 0 .. n - 1 : RingAt(q.entries, j) = Absent
        BY <2>2, <3>1
      <3>3. RingAt(q.entries, n) = Absent
        BY <3>1, <3>2
      <3>4. i \in 0 .. n - 1 \/ i = n
        OBVIOUS
      <3> QED
        BY <3>2, <3>3, <3>4
    <2>3. len \in T
      <3> HIDE DEF T
      <3> QED
        BY <2>1, <2>2, Induction
    <2>4. gap(len) /\ len \in 0 .. len
      BY <2>3
    <2> QED
      BY <2>4
  <1>2. LeadingGap(q) = CHOOSE n \in 0 .. len : gap(n)
    BY DEF LeadingGap
  <1> HIDE DEF gap
  <1>3. LeadingGap(q) \in 0 .. len /\ gap(LeadingGap(q))
    BY <1>1, <1>2
  <1> QED
    BY <1>3 DEF gap

\* The last slot keeps its number, if there is one left.
SameEnd(q, r) ==
    RingLen(r.entries) > 0 =>
        RingLen(q.entries) > 0 /\ r.first + RingLen(r.entries) = q.first + RingLen(q.entries)

\* clearup forgets nothing, and leaves a queue whose front is present.
LEMMA ClearupIs ==
    ASSUME NEW E, NEW q, Loose(q, E)
    PROVE  /\ QueueOf(Clearup(q), E)
           /\ SameEnd(q, Clearup(q))
           /\ \A p \in Int : SlotOf(Clearup(q), p) = SlotOf(q, p)
  <1>1. PICK len \in Nat : len = RingLen(q.entries)
    BY RingLenType DEF Loose
  <1>2. PICK n : n = LeadingGap(q)
    OBVIOUS
  <1>3. /\ n \in 0 .. len
        /\ \A i \in 0 .. n - 1 : RingAt(q.entries, i) = Absent
        /\ n < len => RingAt(q.entries, n) # Absent
    BY <1>1, <1>2, LeadingGapIs
  <1> DEFINE c == Clearup(q)
             r == [q EXCEPT !.entries = PopFront(q.entries, n, Absent), !.first = q.first + n]
  <1>4. /\ q = [entries |-> q.entries, present |-> q.present, first |-> q.first]
        /\ q.first \in Int /\ (len > 0 => q.first \in Nat) /\ q.present = Cardinality(Held(q))
    BY <1>1 DEF Loose
  <1>5. /\ c.entries = PopFront(q.entries, n, Absent) /\ c.present = q.present
        /\ c.first = IF n = len THEN InvalidPacket ELSE q.first + n
        /\ c = [entries |-> c.entries, present |-> c.present, first |-> c.first]
    <2>1. c = [q EXCEPT !.entries = PopFront(q.entries, n, Absent),
                        !.first = IF n = len THEN InvalidPacket ELSE q.first + n]
      BY <1>1, <1>2 DEF Clearup
    <2> QED
      BY <1>4, <2>1
  <1>6. r.entries = PopFront(q.entries, n, Absent) /\ r.first = q.first + n
    BY <1>4
  <1> HIDE DEF c, r
  <1>7. /\ RingOf(c.entries, E \cup {Absent}) /\ RingLen(c.entries) = len - n
        /\ \A p \in Int : SlotOf(r, p) = IF p < q.first + n THEN Absent ELSE SlotOf(q, p)
    <2>1. n \in 0 .. RingLen(q.entries)
      BY <1>1, <1>3
    <2>2. /\ RingOf(r.entries, E \cup {Absent}) /\ RingLen(r.entries) = RingLen(q.entries) - n
          /\ \A p \in Int : SlotOf(r, p) = IF p < q.first + n THEN Absent ELSE SlotOf(q, p)
      <3>1. MovedOn(q, n, r)
        BY <1>6 DEF MovedOn
      <3> QED
        BY <2>1, <3>1, Popped
    <2> QED
      BY <1>1, <1>5, <1>6, <2>2
  <1>8. ASSUME NEW p \in Int
        PROVE  SlotOf(c, p) = SlotOf(q, p)
    <2>1. SlotOf(q, p) = IF q.first <= p /\ p - q.first < len THEN RingAt(q.entries, p - q.first) ELSE Absent
      BY <1>1 DEF SlotOf
    <2>2. ASSUME p < q.first + n
          PROVE  SlotOf(q, p) = Absent
      <3>1. CASE q.first <= p
        <4>1. p - q.first \in 0 .. n - 1
          BY <1>3, <1>4, <2>2, <3>1
        <4> QED
          BY <1>3, <2>1, <4>1
      <3>2. CASE ~(q.first <= p)
        BY <2>1, <3>2
      <3> QED
        BY <3>1, <3>2
    <2>3. SlotOf(r, p) = SlotOf(q, p)
      BY <1>7, <2>2
    <2>4. CASE n = len
      <3>1. RingLen(c.entries) = 0 /\ c.first = -1
        BY <1>5, <1>7, <2>4 DEF InvalidPacket
      <3>2. SlotOf(c, p) = Absent
        BY <3>1 DEF SlotOf
      <3>3. SlotOf(r, p) = Absent
        <4>1. RingLen(r.entries) = 0 /\ r.first = q.first + n
          BY <1>5, <1>6, <1>7, <2>4
        <4> QED
          BY <1>3, <1>4, <4>1 DEF SlotOf
      <3> QED
        BY <2>3, <3>2, <3>3
    <2>5. CASE n # len
      <3>1. SlotOf(c, p) = SlotOf(r, p)
        BY <1>5, <1>6, <2>5 DEF SlotOf
      <3> QED
        BY <2>3, <3>1
    <2> QED
      BY <2>4, <2>5
  <1>9. Held(c) = Held(q)
    BY <1>8 DEF Held
  <1>10. c.first \in Int /\ (len - n > 0 => c.first \in Nat) /\ (len - n = 0 <=> c.first = InvalidPacket)
    BY <1>3, <1>4, <1>5 DEF InvalidPacket
  <1>11. Loose(c, E)
    BY <1>4, <1>5, <1>7, <1>9, <1>10 DEF Loose
  <1>12. len - n > 0 => RingAt(c.entries, 0) # Absent
    <2> SUFFICES ASSUME len - n > 0
                 PROVE  RingAt(c.entries, 0) # Absent
      OBVIOUS
    <2>1. n < len /\ 0 \in 0 .. len - n - 1 /\ 0 + n = n
      BY <1>3
    <2>2. RingAt(PopFront(q.entries, n, Absent), 0) = RingAt(q.entries, 0 + n)
      <3>1. RingOf(q.entries, E \cup {Absent}) /\ Absent \in E \cup {Absent}
        BY DEF Loose
      <3> QED
        BY <1>1, <1>3, <2>1, <3>1, PopFrontIs
    <2> QED
      BY <1>3, <1>5, <2>1, <2>2
  <1>13. SameEnd(q, c)
    BY <1>1, <1>3, <1>4, <1>5, <1>7 DEF SameEnd
  <1> QED
    BY <1>7, <1>8, <1>10, <1>11, <1>12, <1>13 DEF QueueOf, c

\* As many packets as slots.
LEMMA SameNumber ==
    ASSUME NEW f \in Int, NEW n \in Nat, NEW S \in SUBSET (0 .. n - 1)
    PROVE  /\ IsFiniteSet({f + i : i \in S})
           /\ Cardinality({f + i : i \in S}) = Cardinality(S)
  <1> DEFINE T == {f + i : i \in S}
             g == [i \in S |-> f + i]
  <1>1. IsFiniteSet(S)
    <2>1. IsFiniteSet(0 .. n - 1) /\ S \subseteq 0 .. n - 1
      BY FS_Interval
    <2> QED
      BY <2>1, FS_Subset
  <1>2. \A i \in S : i \in Int
    OBVIOUS
  <1>3. g \in [S -> T] /\ \A i \in S : g[i] = f + i
    OBVIOUS
  <1>4. \A i, j \in S : g[i] = g[j] => i = j
    BY <1>2, <1>3
  <1>5. \A t \in T : \E i \in S : g[i] = t
    BY <1>3
  <1> HIDE DEF g, T
  <1>6. g \in Bijection(S, T)
    BY <1>3, <1>4, <1>5 DEF Bijection, Injection, Surjection, IsInjective
  <1> QED
    BY <1>1, <1>6, FS_Bijection DEF T, ExistsBijection

\* RemoveUpTo forgets the packets below pn and no others.
LEMMA RemoveIs ==
    ASSUME NEW E, NEW q, QueueOf(q, E), NEW pn \in Int
    PROVE  /\ QueueOf(RemoveUpTo(q, pn), E)
           /\ SameEnd(q, RemoveUpTo(q, pn))
           /\ \A p \in Int : SlotOf(RemoveUpTo(q, pn), p) = IF p < pn THEN Absent ELSE SlotOf(q, p)
  <1>1. PICK len \in Nat : len = RingLen(q.entries)
    BY RingLenType DEF QueueOf, Loose
  <1>2. /\ Loose(q, E) /\ RingOf(q.entries, E \cup {Absent})
        /\ q = [entries |-> q.entries, present |-> q.present, first |-> q.first]
        /\ q.first \in Int /\ (len > 0 => q.first \in Nat) /\ q.present = Cardinality(Held(q))
        /\ len = 0 <=> q.first = InvalidPacket
    BY <1>1 DEF QueueOf, Loose
  <1>3. PICK n \in Int : n = IF q.first = InvalidPacket \/ pn <= q.first THEN 0
                             ELSE IF pn - q.first < len THEN pn - q.first ELSE len
    BY <1>2
  <1>4. n \in 0 .. len
    BY <1>2, <1>3
  <1> DEFINE gone == {i \in 0 .. n - 1 : RingAt(q.entries, i) # Absent}
             m == [q EXCEPT !.entries = PopFront(q.entries, n, Absent), !.first = q.first + n,
                            !.present = q.present - Cardinality(gone)]
             removed == {q.first + i : i \in gone}
  <1>5. RemoveUpTo(q, pn) = Clearup(m)
    BY <1>1, <1>3 DEF RemoveUpTo
  <1>6. /\ m.entries = PopFront(q.entries, n, Absent) /\ m.first = q.first + n
        /\ m.present = q.present - Cardinality(gone)
        /\ m = [entries |-> m.entries, present |-> m.present, first |-> m.first]
    <2>1. q = [entries |-> q.entries, present |-> q.present, first |-> q.first]
      BY <1>2
    <2> HIDE DEF gone
    <2>2. m = [q EXCEPT !.entries = PopFront(q.entries, n, Absent), !.first = q.first + n,
                        !.present = q.present - Cardinality(gone)]
      OBVIOUS
    <2> HIDE DEF m
    <2> QED
      BY <2>1, <2>2
  <1> HIDE DEF m
  <1>7. /\ RingOf(m.entries, E \cup {Absent}) /\ RingLen(m.entries) = len - n
        /\ \A p \in Int : SlotOf(m, p) = IF p < q.first + n THEN Absent ELSE SlotOf(q, p)
    <2>1. n \in 0 .. RingLen(q.entries)
      BY <1>1, <1>4
    <2>2. /\ RingOf(m.entries, E \cup {Absent}) /\ RingLen(m.entries) = RingLen(q.entries) - n
          /\ \A p \in Int : SlotOf(m, p) = IF p < q.first + n THEN Absent ELSE SlotOf(q, p)
      <3>1. Loose(q, E) /\ MovedOn(q, n, m)
        BY <1>2, <1>6 DEF MovedOn
      <3> QED
        BY <2>1, <3>1, Popped, ZenonT(40)
    <2> QED
      BY <1>1, <2>2
  <1>8. \A p \in Int : SlotOf(q, p) = IF q.first <= p /\ p - q.first < len THEN RingAt(q.entries, p - q.first) ELSE Absent
    BY <1>1 DEF SlotOf
  <1>9. removed = {p \in Held(q) : p < q.first + n}
    <2>1. ASSUME NEW i \in gone
          PROVE  q.first + i \in Held(q) /\ q.first + i < q.first + n
      <3>1. i \in 0 .. n - 1 /\ RingAt(q.entries, i) # Absent
        OBVIOUS
      <3>2. /\ q.first + i \in Nat /\ q.first <= q.first + i /\ (q.first + i) - q.first = i
            /\ i < len /\ q.first + i < q.first + n /\ q.first + i \in Int
        BY <1>2, <1>4, <3>1
      <3>3. SlotOf(q, q.first + i) = RingAt(q.entries, i)
        BY <1>8, <3>2
      <3> QED
        BY <3>1, <3>2, <3>3 DEF Held
    <2>2. ASSUME NEW p \in Held(q), p < q.first + n
          PROVE  \E i \in gone : p = q.first + i
      <3>1. p \in Nat /\ p \in Int /\ SlotOf(q, p) # Absent
        BY DEF Held
      <3>2. q.first <= p /\ p - q.first < len /\ RingAt(q.entries, p - q.first) # Absent
        BY <1>8, <3>1
      <3>3. p - q.first \in 0 .. n - 1 /\ q.first + (p - q.first) = p
        BY <1>2, <1>4, <2>2, <3>1, <3>2
      <3> QED
        BY <3>2, <3>3
    <2> QED
      BY <2>1, <2>2
  <1>10. IsFiniteSet(removed) /\ Cardinality(removed) = Cardinality(gone)
    <2>1. n \in Nat /\ gone \in SUBSET (0 .. n - 1)
      BY <1>4
    <2> QED
      BY <1>2, <2>1, SameNumber
  <1>11. Held(m) = Held(q) \ removed
    <2>1. ASSUME NEW p \in Nat
          PROVE  SlotOf(m, p) # Absent <=> SlotOf(q, p) # Absent /\ ~(p < q.first + n)
      BY <1>7
    <2> HIDE DEF removed
    <2> QED
      BY <1>9, <2>1 DEF Held
  <1>12. m.present = Cardinality(Held(m))
    <2>1. IsFiniteSet(Held(q)) /\ removed \subseteq Held(q)
      BY <1>2, <1>9, HeldIsFinite
    <2> HIDE DEF removed, gone
    <2>2. Cardinality(Held(q) \ removed) = Cardinality(Held(q)) - Cardinality(Held(q) \cap removed)
      BY <2>1, FS_Difference
    <2>3. Held(q) \cap removed = removed
      BY <2>1
    <2> QED
      BY <1>2, <1>6, <1>10, <1>11, <2>2, <2>3
  <1>13. m.first \in Int /\ (len - n > 0 => m.first \in Nat)
    BY <1>2, <1>4, <1>6
  <1>14. Loose(m, E)
    BY <1>6, <1>7, <1>12, <1>13 DEF Loose
  <1>15. ASSUME NEW p \in Int
         PROVE  SlotOf(m, p) = IF p < pn THEN Absent ELSE SlotOf(q, p)
    <2>1. SlotOf(m, p) = IF p < q.first + n THEN Absent ELSE SlotOf(q, p)
      BY <1>7
    <2>2. CASE SlotOf(q, p) = Absent
      BY <2>1, <2>2
    <2>3. CASE SlotOf(q, p) # Absent
      <3>1. q.first <= p /\ p - q.first < len
        BY <1>8, <2>3
      <3>2. len > 0 /\ q.first # InvalidPacket
        BY <1>2, <3>1
      <3>3. p < q.first + n <=> p < pn
        BY <1>2, <1>3, <3>1, <3>2
      <3> QED
        BY <2>1, <3>3
    <2> QED
      BY <2>2, <2>3
  <1>16. SameEnd(q, Clearup(m))
    <2>1. SameEnd(m, Clearup(m)) /\ QueueOf(Clearup(m), E)
      BY <1>14, ClearupIs
    <2>2. PICK l \in Nat : l = RingLen(Clearup(m).entries)
      BY <2>1, RingLenType DEF QueueOf, Loose
    <2> QED
      BY <1>1, <1>2, <1>4, <1>6, <1>7, <2>1, <2>2 DEF SameEnd
  <1> QED
    BY <1>5, <1>14, <1>15, <1>16, ClearupIs

\* The absent slots of skipped numbers come behind what is there.
LEMMA PushGapIs ==
    ASSUME NEW E, Absent \in E, NEW r, RingOf(r, E), NEW gap \in Nat
    PROVE  /\ RingOf(PushGap(r, gap), E)
           /\ RingLen(PushGap(r, gap)) = RingLen(r) + gap
           /\ \A i \in 0 .. RingLen(r) - 1 : RingAt(PushGap(r, gap), i) = RingAt(r, i)
           /\ \A i \in RingLen(r) .. RingLen(r) + gap - 1 : RingAt(PushGap(r, gap), i) = Absent
  <1> DEFINE F(f, n) == [k \in 0 .. n |-> IF k = 0 THEN r ELSE PushBack(f[k - 1], Absent, Absent)]
             made == {n \in Nat : \E f : f = F(f, n)}
             pushed == CHOOSE f : f = F(f, gap)
  <1>1. 0 \in made
    <2> DEFINE f == [k \in 0 .. 0 |-> r]
    <2>1. \A k \in 0 .. 0 : k = 0
      OBVIOUS
    <2>2. f = F(f, 0)
      BY <2>1
    <2> QED
      BY <2>2
  <1>2. ASSUME NEW n \in Nat, n \in made
        PROVE  n + 1 \in made
    <2>1. PICK f : f = F(f, n)
      BY <1>2
    <2> DEFINE g == [k \in 0 .. n + 1 |-> IF k = n + 1 THEN PushBack(f[n], Absent, Absent) ELSE f[k]]
    <2>2. ASSUME NEW k \in 0 .. n + 1
          PROVE  g[k] = IF k = 0 THEN r ELSE PushBack(g[k - 1], Absent, Absent)
      <3>1. CASE k = n + 1
        <4>1. k # 0 /\ k - 1 = n /\ n \in 0 .. n + 1 /\ n # n + 1
          BY <3>1
        <4>2. g[k - 1] = f[n]
          BY <4>1
        <4> QED
          BY <3>1, <4>1, <4>2
      <3>2. CASE k # n + 1
        <4>1. k \in 0 .. n
          BY <3>2
        <4>2. f[k] = IF k = 0 THEN r ELSE PushBack(f[k - 1], Absent, Absent)
          BY <2>1, <4>1
        <4>3. k # 0 => k - 1 \in 0 .. n + 1 /\ k - 1 # n + 1
          BY <4>1
        <4>4. k # 0 => g[k - 1] = f[k - 1]
          BY <4>3
        <4> QED
          BY <3>2, <4>2, <4>4
      <3> QED
        BY <3>1, <3>2
    <2>3. g = F(g, n + 1)
      <3>1. g = [k \in 0 .. n + 1 |-> g[k]]
        OBVIOUS
      <3> HIDE DEF g
      <3> QED
        BY <2>2, <3>1
    <2> HIDE DEF F, g
    <2> QED
      BY <2>3
  <1>3. pushed = F(pushed, gap)
    <2> HIDE DEF F
    <2>1. gap \in made
      <3> HIDE DEF made
      <3> QED
        BY <1>1, <1>2, Induction
    <2> QED
      BY <2>1
  <1>4. PushGap(r, gap) = IF gap > 0 THEN pushed[gap] ELSE r
    BY DEF PushGap
  <1> HIDE DEF pushed
  <1>5. pushed[0] = r /\ \A k \in 1 .. gap : pushed[k] = PushBack(pushed[k - 1], Absent, Absent)
    <2>1. \A k \in 0 .. gap : pushed[k] = IF k = 0 THEN r ELSE PushBack(pushed[k - 1], Absent, Absent)
      BY <1>3
    <2> QED
      BY <2>1
  <1> HIDE DEF F, made
  <1>6. PICK len \in Nat : len = RingLen(r)
    BY RingLenType
  <1> DEFINE Right(x, n) == /\ RingOf(x, E) /\ RingLen(x) = len + n
                            /\ \A i \in 0 .. len - 1 : RingAt(x, i) = RingAt(r, i)
                            /\ \A i \in len .. len + n - 1 : RingAt(x, i) = Absent
             T == {n \in Nat : n <= gap => Right(pushed[n], n)}
  <1>7. Right(r, 0)
    BY <1>6
  <1>8. ASSUME NEW n \in Nat, n + 1 <= gap, Right(pushed[n], n)
        PROVE  Right(pushed[n + 1], n + 1)
    <2> DEFINE x == pushed[n]
               y == pushed[n + 1]
    <2>1. n + 1 \in 1 .. gap /\ (n + 1) - 1 = n
      BY <1>8
    <2>2. y = PushBack(x, Absent, Absent)
      BY <1>5, <2>1
    <2>3. RingOf(x, E) /\ RingLen(x) = len + n
      BY <1>8
    <2> HIDE DEF x, y
    <2>4. /\ RingOf(y, E) /\ RingLen(y) = RingLen(x) + 1
          /\ \A i \in 0 .. RingLen(x) - 1 : RingAt(y, i) = RingAt(x, i)
          /\ RingAt(y, RingLen(x)) = Absent
      BY <2>2, <2>3, PushBackIs
    <2>5. /\ RingLen(y) = len + (n + 1) /\ RingAt(y, len + n) = Absent
          /\ \A i \in 0 .. len + n - 1 : RingAt(y, i) = RingAt(x, i)
      BY <2>3, <2>4
    <2>6. ASSUME NEW i \in 0 .. len - 1
          PROVE  RingAt(y, i) = RingAt(r, i)
      <3>1. i \in 0 .. len + n - 1
        OBVIOUS
      <3> QED
        BY <1>8, <2>5, <3>1 DEF x
    <2>7. ASSUME NEW i \in len .. len + (n + 1) - 1
          PROVE  RingAt(y, i) = Absent
      <3>1. i = len + n \/ i \in len .. len + n - 1
        OBVIOUS
      <3>2. CASE i \in len .. len + n - 1
        <4>1. i \in 0 .. len + n - 1
          BY <3>2
        <4> QED
          BY <1>8, <2>5, <3>2, <4>1 DEF x
      <3> QED
        BY <2>5, <3>1, <3>2
    <2> QED
      BY <2>4, <2>5, <2>6, <2>7 DEF y
  <1>9. gap \in T
    <2> HIDE DEF Right
    <2>1. 0 \in T
      BY <1>5, <1>7
    <2>2. \A n \in Nat : n \in T => n + 1 \in T
      BY <1>8
    <2> HIDE DEF T
    <2> QED
      BY <2>1, <2>2, Induction
  <1>10. Right(PushGap(r, gap), gap)
    <2> HIDE DEF Right
    <2> QED
      BY <1>4, <1>7, <1>9
  <1> QED
    BY <1>6, <1>10

\* Emplace adds a packet that is newer than all, and its absent predecessors.
LEMMA EmplaceIs ==
    ASSUME NEW E, Absent \notin E, NEW q, QueueOf(q, E), NEW pn \in Nat, NEW e \in E,
           RingLen(q.entries) > 0 => q.first + RingLen(q.entries) <= pn
    PROVE  /\ QueueOf(Emplace(q, pn, e), E)
           /\ Emplace(q, pn, e).first + RingLen(Emplace(q, pn, e).entries) = pn + 1
           /\ \A p \in Int : SlotOf(Emplace(q, pn, e), p) = IF p = pn THEN e ELSE SlotOf(q, p)
  <1>1. PICK len \in Nat : len = RingLen(q.entries)
    BY RingLenType DEF QueueOf, Loose
  <1>2. /\ Loose(q, E) /\ RingOf(q.entries, E \cup {Absent})
        /\ q.first \in Int /\ (len > 0 => q.first \in Nat) /\ q.present = Cardinality(Held(q))
        /\ len = 0 <=> q.first = InvalidPacket
        /\ len > 0 => RingAt(q.entries, 0) # Absent
        /\ len > 0 => q.first + len <= pn
    BY <1>1 DEF QueueOf, Loose
  <1>3. q = [entries |-> q.entries, present |-> q.present, first |-> q.first]
    BY <1>2 DEF Loose
  <1>4. QueueEmpty(q) <=> len = 0
    BY <1>1, EmptyIs
  <1> DEFINE r == Emplace(q, pn, e)
             zero == Absent
             gap == IF len = 0 THEN 0 ELSE pn - q.first - len
             g == IF len = 0 THEN q.entries ELSE PushGap(q.entries, gap)
             first == IF len = 0 THEN pn ELSE q.first
  <1>5. gap \in Nat /\ first \in Nat /\ first + len + gap = pn
    BY <1>2
  <1>6. /\ RingOf(g, E \cup {Absent}) /\ RingLen(g) = len + gap
        /\ \A i \in 0 .. len - 1 : RingAt(g, i) = RingAt(q.entries, i)
        /\ \A i \in len .. len + gap - 1 : RingAt(g, i) = Absent
    <2>1. CASE len = 0
      <3>1. gap = 0 /\ g = q.entries
        BY <2>1
      <3>2. len + gap = len /\ len .. len + gap - 1 = {}
        BY <2>1, <3>1
      <3> HIDE DEF gap, g
      <3>3. RingOf(g, E \cup {Absent}) /\ RingLen(g) = len
        BY <1>1, <1>2, <3>1
      <3> QED
        BY <3>1, <3>2, <3>3
    <2>2. CASE len # 0
      <3>1. Absent \in E \cup {Absent}
        OBVIOUS
      <3>2. g = PushGap(q.entries, gap)
        BY <2>2
      <3> HIDE DEF gap, g
      <3>3. /\ RingOf(g, E \cup {Absent}) /\ RingLen(g) = RingLen(q.entries) + gap
            /\ \A i \in 0 .. RingLen(q.entries) - 1 : RingAt(g, i) = RingAt(q.entries, i)
            /\ \A i \in RingLen(q.entries) .. RingLen(q.entries) + gap - 1 : RingAt(g, i) = Absent
        BY <1>2, <1>5, <3>1, <3>2, PushGapIs
      <3> QED
        BY <1>1, <3>3
    <2> QED
      BY <2>1, <2>2
  <1>7. r = [entries |-> PushBack(g, e, Absent), present |-> q.present + 1, first |-> first]
    <2>1. CASE len = 0
      <3>1. q.present = 0
        BY <1>2, <1>4, <2>1 DEF QueueEmpty
      <3> QED
        BY <1>4, <2>1, <3>1 DEF Emplace
    <2>2. CASE len # 0
      <3>1. LastPacket(q) = q.first + len - 1 /\ ~(pn <= q.first + len - 1)
        BY <1>1, <1>2, <1>4, <2>2 DEF LastPacket
      <3>2. r = [q EXCEPT !.entries = PushBack(g, e, Absent), !.present = q.present + 1]
        BY <1>1, <1>4, <2>2, <3>1 DEF Emplace
      <3> HIDE DEF r, g
      <3> QED
        BY <1>3, <2>2, <3>2
    <2> QED
      BY <2>1, <2>2
  <1> HIDE DEF r, g, first, gap
  <1>8. /\ RingOf(r.entries, E \cup {Absent}) /\ RingLen(r.entries) = len + gap + 1
        /\ \A i \in 0 .. len + gap - 1 : RingAt(r.entries, i) = RingAt(g, i)
        /\ RingAt(r.entries, len + gap) = e
    <2>1. r.entries = PushBack(g, e, Absent)
      BY <1>7
    <2>2. e \in E \cup {Absent} /\ Absent \in E \cup {Absent}
      OBVIOUS
    <2>3. /\ RingOf(r.entries, E \cup {Absent}) /\ RingLen(r.entries) = RingLen(g) + 1
          /\ \A i \in 0 .. RingLen(g) - 1 : RingAt(r.entries, i) = RingAt(g, i)
          /\ RingAt(r.entries, RingLen(g)) = e
      <3>1. RingOf(g, E \cup {Absent})
        BY <1>6
      <3>2. /\ RingOf(PushBack(g, e, Absent), E \cup {Absent})
            /\ RingLen(PushBack(g, e, Absent)) = RingLen(g) + 1
            /\ \A i \in 0 .. RingLen(g) - 1 : RingAt(PushBack(g, e, Absent), i) = RingAt(g, i)
            /\ RingAt(PushBack(g, e, Absent), RingLen(g)) = e
        BY <2>2, <3>1, PushBackIs
      <3> QED
        BY <2>1, <3>2
    <2> QED
      BY <1>5, <1>6, <2>3
  <1>9. r.first = first /\ r.present = q.present + 1
        /\ r = [entries |-> r.entries, present |-> r.present, first |-> r.first]
    BY <1>7
  <1>10. ASSUME NEW p \in Int
         PROVE  SlotOf(r, p) = IF p = pn THEN e ELSE SlotOf(q, p)
    <2>1. SlotOf(r, p) = IF first <= p /\ p - first < len + gap + 1 THEN RingAt(r.entries, p - first) ELSE Absent
      BY <1>8, <1>9 DEF SlotOf
    <2>2. SlotOf(q, p) = IF q.first <= p /\ p - q.first < len THEN RingAt(q.entries, p - q.first) ELSE Absent
      BY <1>1 DEF SlotOf
    <2>3. CASE p = pn
      <3>1. first <= p /\ p - first = len + gap
        BY <1>5, <2>3
      <3> QED
        BY <1>5, <1>8, <2>1, <2>3, <3>1
    <2>4. CASE p # pn
      <3>1. CASE first <= p /\ p - first < len
        <4>1. len # 0 /\ first = q.first
          BY <1>5, <3>1 DEF first
        <4>2. p - first \in 0 .. len - 1 /\ p - first \in 0 .. len + gap - 1 /\ p - first < len + gap + 1
          BY <1>5, <3>1
        <4> QED
          BY <1>6, <1>8, <2>1, <2>2, <2>4, <3>1, <4>1, <4>2
      <3>2. CASE first <= p /\ ~(p - first < len) /\ p - first < len + gap + 1
        <4>1. p - first \in len .. len + gap - 1 /\ p - first \in 0 .. len + gap - 1
          BY <1>5, <2>4, <3>2
        <4>2. SlotOf(r, p) = Absent
          BY <1>6, <1>8, <2>1, <3>2, <4>1
        <4>3. ~(q.first <= p /\ p - q.first < len)
          BY <1>2, <1>5, <3>2 DEF first
        <4> QED
          BY <2>2, <2>4, <4>2, <4>3
      <3>3. CASE ~(first <= p) \/ ~(p - first < len + gap + 1)
        <4>1. ~(q.first <= p /\ p - q.first < len)
          BY <1>2, <1>5, <3>3 DEF first
        <4> QED
          BY <2>1, <2>2, <2>4, <3>3, <4>1
      <3> QED
        BY <1>5, <3>1, <3>2, <3>3
    <2> QED
      BY <2>3, <2>4
  <1>11. Held(r) = Held(q) \cup {pn} /\ pn \notin Held(q)
    <2>1. e # Absent
      OBVIOUS
    <2>2. ASSUME NEW p \in Nat
          PROVE  SlotOf(r, p) # Absent <=> p = pn \/ SlotOf(q, p) # Absent
      BY <1>10, <2>1
    <2>3. SlotOf(q, pn) = Absent
      <3>1. ~(q.first <= pn /\ pn - q.first < len)
        BY <1>2
      <3> QED
        BY <1>1, <3>1 DEF SlotOf
    <2> QED
      BY <2>2, <2>3 DEF Held
  <1>12. r.present = Cardinality(Held(r))
    <2>1. IsFiniteSet(Held(q)) /\ Cardinality(Held(q)) \in Nat
      BY <1>2, HeldIsFinite
    <2> QED
      BY <1>2, <1>9, <1>11, <2>1, FS_AddElement
  <1>13. Loose(r, E)
    BY <1>5, <1>8, <1>9, <1>12 DEF Loose
  <1>14. RingAt(r.entries, 0) # Absent
    <2>1. CASE len = 0
      <3>1. len + gap = 0
        BY <2>1 DEF gap
      <3> QED
        BY <1>8, <3>1
    <2>2. CASE len # 0
      <3>1. 0 \in 0 .. len - 1 /\ 0 \in 0 .. len + gap - 1 /\ len > 0
        BY <1>5, <2>2
      <3> QED
        BY <1>2, <1>6, <1>8, <3>1
    <2> QED
      BY <2>1, <2>2
  <1>15. RingLen(r.entries) # 0 /\ r.first # InvalidPacket
    BY <1>5, <1>8, <1>9 DEF InvalidPacket
  <1>16. r.first + RingLen(r.entries) = pn + 1
    BY <1>5, <1>8, <1>9
  <1> QED
    BY <1>10, <1>13, <1>14, <1>15, <1>16 DEF QueueOf, r

\* A new queue is empty.
LEMMA NewQueueIs ==
    ASSUME NEW E, NEW size \in Nat \ {0}
    PROVE  /\ QueueOf(NewQueue(size), E) /\ RingLen(NewQueue(size).entries) = 0
           /\ \A p \in Int : SlotOf(NewQueue(size), p) = Absent
  <1> DEFINE q == NewQueue(size)
  <1>1. q.entries = NewRing(size, Absent) /\ q.present = 0 /\ q.first = -1
        /\ q = [entries |-> q.entries, present |-> q.present, first |-> q.first]
    BY DEF NewQueue, InvalidPacket
  <1> HIDE DEF q
  <1>2. RingOf(q.entries, E \cup {Absent}) /\ RingLen(q.entries) = 0
    <2>1. /\ IsRing(NewRing(size, Absent), E \cup {Absent}, size)
          /\ RingLen(NewRing(size, Absent)) = 0
      BY NewRingIs
    <2> QED
      BY <1>1, <2>1 DEF RingOf
  <1>3. \A p \in Int : SlotOf(q, p) = Absent
    BY <1>1, <1>2 DEF SlotOf
  <1>4. Held(q) = {}
    BY <1>3 DEF Held
  <1>5. Cardinality(Held(q)) = 0
    BY <1>4, FS_EmptySet
  <1>6. Loose(q, E)
    BY <1>1, <1>2, <1>5 DEF Loose
  <1> QED
    BY <1>1, <1>2, <1>3, <1>6 DEF QueueOf, InvalidPacket, q

-------------------------------------------------------------------------------
(* The sampler.                                                            *)

\* Points on the ack line; an entry of the queue; the sampler's own fields.
Points == [time : Nat, acked : Nat]

Entries ==
    [sentTime : Nat \ {0}, sentAtLastAcked : Nat, lastAckedSentTime : Nat, lastAckedAckTime : Nat,
     appLimited : BOOLEAN, sent : Nat, acked : Nat, inFlight : Nat]

Fields ==
    [sent : Nat, acked : Nat, lost : Nat, sentAtLastAcked : Nat, lastAckedSentTime : Nat,
     lastAckedAckTime : Nat, lastSent : Int, lastAcked : Int, appLimited : BOOLEAN,
     endOfAppLimited : Int, ackedAfterLastEvent : Nat, recent : Points \X Points]

\* The types of the sampler, and that quic-go numbers the packets in the order they are sent.
STypes ==
    /\ conservative \in BOOLEAN /\ b \in Fields
    /\ QueueOf(queue, Entries) /\ RingOf(candidates, Points)
    /\ clock \in Nat \ {0} /\ next \in Nat
    /\ largest \in Nat \cup {-1} /\ largest < next
    /\ sentAt \in [DOMAIN sentAt -> Nat] /\ DOMAIN sentAt \subseteq 0 .. next - 1
    /\ strays \in [strange : Nat, silent : Nat]

\* The queue has what is in flight of the packets that the sampler was told of, and no number that
\* was not given yet.
Tracked ==
    /\ \A p \in DOMAIN sentAt : SlotOf(queue, p).sentTime = sentAt[p]
    /\ RingLen(queue.entries) > 0 => queue.first + RingLen(queue.entries) <= next
    /\ b.sent + strays.strange = b.acked + b.lost + Cardinality(Known) + strays.silent

\* An entry is told from an absent slot by the time it was sent.
LEMMA AbsentIs == Absent \notin Entries /\ Absent.sentTime = 0
  BY DEF Absent, Entries

\* The packets in flight can be counted.
LEMMA InFlight ==
    ASSUME STypes
    PROVE  /\ IsFiniteSet(DOMAIN sentAt) /\ Cardinality(DOMAIN sentAt) \in Nat
           /\ DOMAIN sentAt = {} <=> Cardinality(DOMAIN sentAt) = 0
           /\ \A p \in DOMAIN sentAt : p \in Nat /\ p \in Int
           /\ Known \subseteq DOMAIN sentAt /\ IsFiniteSet(Known) /\ Cardinality(Known) \in Nat
  <1>1. IsFiniteSet(0 .. next - 1)
    <2>1. next - 1 \in Int
      BY DEF STypes
    <2> QED
      BY <2>1, FS_Interval
  <1>2. DOMAIN sentAt \subseteq 0 .. next - 1 /\ next \in Nat
    BY DEF STypes
  <1>3. IsFiniteSet(DOMAIN sentAt)
    BY <1>1, <1>2, FS_Subset
  <1>4. Known \subseteq DOMAIN sentAt
    BY DEF Known
  <1>5. IsFiniteSet(Known)
    BY <1>3, <1>4, FS_Subset
  <1> QED
    BY <1>2, <1>3, <1>4, <1>5, FS_CardinalityType, FS_EmptySet

\* A packet in flight that the sampler was told of is in the queue, and GetEntry finds it.
LEMMA EntryInFlight ==
    ASSUME STypes, Tracked, NEW p \in Known
    PROVE  /\ SlotOf(queue, p) \in Entries /\ SlotOf(queue, p) # Absent
           /\ GetEntry(queue, p) = SlotOf(queue, p)
           /\ SlotOf(queue, p).sentTime = sentAt[p]
  <1>1. p \in Int
    BY InFlight
  <1>2. Loose(queue, Entries) /\ QueueOf(queue, Entries)
    BY DEF STypes, QueueOf
  <1>3. SlotOf(queue, p) \in Entries \cup {Absent}
    BY <1>1, <1>2, SlotIs
  <1>4. SlotOf(queue, p).sentTime = sentAt[p] /\ sentAt[p] # 0
    BY DEF Tracked, Known
  <1>5. SlotOf(queue, p) # Absent
    BY <1>4, AbsentIs
  <1> QED
    BY <1>1, <1>2, <1>3, <1>4, <1>5, EntryIs

\* A packet sent before the sampler was installed is not in the queue.
LEMMA NoEntry ==
    ASSUME STypes, Tracked, NEW p \in DOMAIN sentAt \ Known
    PROVE  GetEntry(queue, p) = Absent
  <1>1. p \in Int
    BY InFlight
  <1>2. Loose(queue, Entries) /\ QueueOf(queue, Entries)
    BY DEF STypes, QueueOf
  <1>3. SlotOf(queue, p) \in Entries \cup {Absent}
    BY <1>1, <1>2, SlotIs
  <1>4. SlotOf(queue, p).sentTime = 0
    BY DEF Tracked, Known
  <1>5. SlotOf(queue, p) \notin Entries
    BY <1>4 DEF Entries
  <1> QED
    BY <1>1, <1>2, <1>3, <1>5, EntryIs

\* The invariant gives the property of the run.
LEMMA TrackedIsEnough ==
    ASSUME STypes, Tracked
    PROVE  InFlightIsTracked
  <1>1. QueueOf(queue, Entries) /\ Loose(queue, Entries)
    BY DEF STypes, QueueOf
  <1>2. ASSUME NEW pn \in DOMAIN sentAt
        PROVE  GetEntry(queue, pn).sentTime = sentAt[pn]
    <2>1. CASE pn \in Known
      BY <2>1, EntryInFlight
    <2>2. CASE pn \notin Known
      BY <2>2, NoEntry, AbsentIs DEF Known
    <2> QED
      BY <2>1, <2>2
  <1>3. queue.present = Cardinality(DOMAIN Contents(queue))
    BY <1>1, ContentsIs DEF Loose
  <1>4. queue.present = 0 <=> queue.first = InvalidPacket
    BY <1>1, EmptyIs DEF QueueOf, QueueEmpty
  <1> QED
    BY <1>2, <1>3, <1>4 DEF InFlightIsTracked, Tracked

\* A new sampler was told of nothing that is in flight.
LEMMA SInit == SamplerInit => STypes /\ Tracked
  <1> SUFFICES ASSUME SamplerInit
               PROVE  STypes /\ Tracked
    OBVIOUS
  <1>1. PICK size \in RingSizes : queue = NewQueue(size) /\ candidates = NewRing(size, NoPoint)
    BY DEF SamplerInit
  <1>2. size \in Nat \ {0}
    BY SamplerAssumption
  <1>3. NoPoint \in Points
    BY DEF NoPoint, Point, Points
  <1>4. /\ QueueOf(queue, Entries) /\ RingLen(queue.entries) = 0
        /\ RingOf(candidates, Points)
    BY <1>1, <1>2, <1>3, NewQueueIs, NewRingIs DEF RingOf
  <1>5. b \in Fields /\ b.sent = 0 /\ b.acked = 0 /\ b.lost = 0
    <2>1. <<NoPoint, NoPoint>> \in Points \X Points
      BY <1>3
    <2> HIDE DEF Points
    <2> QED
      BY <2>1 DEF SamplerInit, Fields, InvalidPacket
  <1>6. next \in Nat /\ largest \in -1 .. next - 1
    BY SamplerAssumption DEF SamplerInit
  <1>7. PICK inFlight \in SUBSET {p \in 0 .. next - 1 : p > largest - PacketThreshold /\ p # largest} :
            sentAt = [p \in inFlight |-> 0]
    BY DEF SamplerInit
  <1>8. DOMAIN sentAt = inFlight /\ \A p \in inFlight : sentAt[p] = 0
    BY <1>7
  <1>9. /\ DOMAIN sentAt \subseteq 0 .. next - 1 /\ sentAt \in [DOMAIN sentAt -> Nat]
    BY <1>7, <1>8
  <1>10. Known = {} /\ Cardinality(Known) = 0
    <2>1. Known = {}
      BY <1>8 DEF Known
    <2> QED
      BY <2>1, FS_EmptySet
  <1>11. /\ conservative \in BOOLEAN /\ clock = 1 /\ strays = [strange |-> 0, silent |-> 0]
         /\ largest \in Nat \cup {-1} /\ largest < next
    BY <1>6 DEF SamplerInit
  <1>12. STypes
    BY <1>4, <1>5, <1>6, <1>9, <1>11 DEF STypes
  <1>13. \A p \in DOMAIN sentAt : SlotOf(queue, p).sentTime = sentAt[p]
    <2>1. \A p \in Int : SlotOf(queue, p) = Absent
      BY <1>1, <1>2, NewQueueIs
    <2>2. \A p \in DOMAIN sentAt : p \in Int
      BY <1>9
    <2> QED
      BY <1>8, <2>1, <2>2, AbsentIs
  <1> QED
    BY <1>4, <1>5, <1>10, <1>11, <1>12, <1>13 DEF Tracked

\* A record with the fields of the sampler.
HasFields(f) ==
    f = [sent |-> f.sent, acked |-> f.acked, lost |-> f.lost, sentAtLastAcked |-> f.sentAtLastAcked,
         lastAckedSentTime |-> f.lastAckedSentTime, lastAckedAckTime |-> f.lastAckedAckTime,
         lastSent |-> f.lastSent, lastAcked |-> f.lastAcked, appLimited |-> f.appLimited,
         endOfAppLimited |-> f.endOfAppLimited, ackedAfterLastEvent |-> f.ackedAfterLastEvent,
         recent |-> f.recent]

\* The sampler's fields are such a record, and such a record with the right types is that of a sampler.
LEMMA FieldsHave == ASSUME NEW f \in Fields PROVE HasFields(f)
  BY DEF HasFields, Fields

\* The converse of FieldsHave.
LEMMA FieldsAre ==
    ASSUME NEW f, HasFields(f), f.sent \in Nat, f.acked \in Nat, f.lost \in Nat,
           f.sentAtLastAcked \in Nat, f.lastAckedSentTime \in Nat, f.lastAckedAckTime \in Nat,
           f.lastSent \in Int, f.lastAcked \in Int, f.appLimited \in BOOLEAN,
           f.endOfAppLimited \in Int, f.ackedAfterLastEvent \in Nat, f.recent \in Points \X Points
    PROVE  f \in Fields
  BY DEF HasFields, Fields

\* The two recent points are in order, and not beyond what is acknowledged.
RecentOK(recent, total, time) ==
    /\ recent[1].time <= recent[2].time /\ recent[1].acked <= recent[2].acked
    /\ recent[2].acked <= total /\ recent[2].time <= time

\* One point is not after another, in time or in what is acknowledged.
NotBeyond(x, y) == x.time <= y.time /\ x.acked <= y.acked

\* The candidates are in order, and the point that may be pushed next is not before them.
InOrder(ring, recent) ==
    /\ \A i \in 0 .. RingLen(ring) - 2 : NotBeyond(RingAt(ring, i), RingAt(ring, i + 1))
    /\ \A i \in 0 .. RingLen(ring) - 1 : NotBeyond(RingAt(ring, i), LessRecent(recent))

\* What SamplesAreSound says of the sample.
SampleOK(s) ==
    s # None => /\ s.ticks > 0 /\ s.ackedBytes > 0
                /\ ~s.newest \/ s.a0.acked <= s.ackedAtSend

\* A packet that a sample may be made for: one sent when the time of an earlier one was noted.
Sampleable(p) == p \in Known /\ SlotOf(queue, p).lastAckedSentTime # 0

\* As long as a sampler that keeps candidates has none, it has counted nothing as acknowledged since
\* it began, and no packet in flight can give a sample: all were sent over those sent before it.
Fresh ==
    conservative /\ RingLen(candidates) = 0 =>
        /\ b.lastAckedSentTime = 0 /\ heights.start = 0 /\ b.ackedAfterLastEvent = b.acked
        /\ \A p \in DOMAIN sentAt : ~Sampleable(p)

\* What holds of the ack line and what was noted of it: the candidates reach back to what had been
\* acknowledged when the oldest packet left that is newer than any acknowledged one was sent.
Lines ==
    /\ RecentOK(b.recent, b.acked, clock)
    /\ InOrder(candidates, b.recent)
    /\ ~conservative => RingLen(candidates) = 0
    /\ \A p \in Known : SlotOf(queue, p).acked <= b.acked
    /\ \A p, q \in Known : p < q => SlotOf(queue, p).acked <= SlotOf(queue, q).acked
    /\ RingLen(candidates) > 0 =>
           \A p \in Known : p > largest /\ Sampleable(p) => RingAt(candidates, 0).acked <= SlotOf(queue, p).acked
    /\ ~b.appLimited => largest > b.endOfAppLimited \/ b.endOfAppLimited = InvalidPacket
    /\ SampleOK(sample)

\* The inductive invariant.
SInv == STypes /\ Tracked /\ Lines /\ Fresh

\* The invariant gives the other property of the run.
LEMMA LinesAreEnough ==
    ASSUME Lines
    PROVE  SamplesAreSound
  BY DEF Lines, InOrder, NotBeyond, SampleOK, SamplesAreSound

\* No sample is a sound one.
LEMMA NoneIsOK == SampleOK(None)
  BY DEF SampleOK

\* Points are points.
LEMMA PointsAre ==
    /\ NoPoint \in Points /\ NoPoint.time = 0 /\ NoPoint.acked = 0
    /\ \A time, total \in Nat : /\ Point(time, total) \in Points
                                /\ Point(time, total).time = time /\ Point(time, total).acked = total
  BY DEF NoPoint, Point, Points

\* The invariant holds at the beginning.
LEMMA SInitInv == SamplerInit => SInv
  <1> SUFFICES ASSUME SamplerInit
               PROVE  SInv
    OBVIOUS
  <1>1. STypes /\ Tracked
    BY SInit
  <1>2. PICK size \in RingSizes : candidates = NewRing(size, NoPoint)
    BY DEF SamplerInit
  <1>3. RingLen(candidates) = 0
    BY <1>2, SamplerAssumption, PointsAre, NewRingIs
  <1>4. /\ b.recent = <<NoPoint, NoPoint>> /\ b.acked = 0 /\ b.endOfAppLimited = InvalidPacket
        /\ b.lastAckedSentTime = 0 /\ b.ackedAfterLastEvent = 0 /\ heights.start = 0
    BY DEF SamplerInit
  <1>5. RecentOK(b.recent, b.acked, clock)
    BY <1>1, <1>4, PointsAre DEF RecentOK, STypes
  <1>6. InOrder(candidates, b.recent)
    BY <1>3 DEF InOrder
  <1>7. Known = {} /\ sample = None
    BY DEF SamplerInit, Known
  <1>8. Lines
    BY <1>3, <1>4, <1>5, <1>6, <1>7, NoneIsOK DEF Lines
  <1>9. Fresh
    BY <1>4, <1>7 DEF Fresh, Sampleable
  <1> QED
    BY <1>1, <1>8, <1>9 DEF SInv

\* A packet that only acknowledges keeps the invariant.
LEMMA AckOnlyKeeps == SInv /\ OnAckOnlySent => SInv'
  <1> SUFFICES ASSUME SInv, OnAckOnlySent
               PROVE  SInv'
    OBVIOUS
  <1>1. /\ next' = next + 1 /\ sample' = None
        /\ UNCHANGED <<conservative, queue, candidates, heights, clock, round, sentAt, largest, strays>>
        /\ b' = [b EXCEPT !.lastSent = next]
    BY DEF OnAckOnlySent
  <1>2. b \in Fields /\ next \in Nat
    BY DEF SInv, STypes
  <1>3. /\ b' \in Fields /\ b'.sent = b.sent /\ b'.acked = b.acked /\ b'.lost = b.lost
        /\ b'.appLimited = b.appLimited /\ b'.endOfAppLimited = b.endOfAppLimited /\ b'.recent = b.recent
        /\ b'.lastAckedSentTime = b.lastAckedSentTime /\ b'.ackedAfterLastEvent = b.ackedAfterLastEvent
    BY <1>1, <1>2 DEF Fields
  <1>30. Known' = Known /\ \A p : Sampleable(p)' <=> Sampleable(p)
    BY <1>1 DEF Known, Sampleable
  <1>4. STypes'
    BY <1>1, <1>2, <1>3 DEF SInv, STypes
  <1>5. Tracked'
    <2>1. PICK n \in Nat : n = RingLen(queue.entries)
      BY RingLenType DEF SInv, STypes, QueueOf, Loose
    <2>2. queue.first \in Int
      BY DEF SInv, STypes, QueueOf, Loose
    <2> QED
      BY <1>1, <1>2, <1>3, <1>30, <2>1, <2>2 DEF SInv, Tracked
  <1>6. Lines'
    BY <1>1, <1>3, <1>30, NoneIsOK DEF SInv, Lines
  <1>7. Fresh'
    BY <1>1, <1>3, <1>30 DEF SInv, Fresh
  <1> QED
    BY <1>4, <1>5, <1>6, <1>7 DEF SInv

\* OnAppLimited keeps the invariant: the phase has just begun.
LEMMA AppLimitedKeeps == SInv /\ OnAppLimited => SInv'
  <1> SUFFICES ASSUME SInv, OnAppLimited
               PROVE  SInv'
    OBVIOUS
  <1>1. /\ UNCHANGED <<conservative, queue, candidates, heights, sample, clock, round, next, sentAt, largest, strays>>
        /\ b' = [b EXCEPT !.appLimited = TRUE, !.endOfAppLimited = b.lastSent]
    BY DEF OnAppLimited
  <1>2. b \in Fields
    BY DEF SInv, STypes
  <1>3. /\ b' \in Fields /\ b'.sent = b.sent /\ b'.acked = b.acked /\ b'.lost = b.lost
        /\ b'.appLimited = TRUE /\ b'.recent = b.recent
        /\ b'.lastAckedSentTime = b.lastAckedSentTime /\ b'.ackedAfterLastEvent = b.ackedAfterLastEvent
    BY <1>1, <1>2 DEF Fields
  <1>30. Known' = Known /\ \A p : Sampleable(p)' <=> Sampleable(p)
    BY <1>1 DEF Known, Sampleable
  <1>4. STypes'
    BY <1>1, <1>3 DEF SInv, STypes
  <1>5. Tracked'
    BY <1>1, <1>3, <1>30 DEF SInv, Tracked
  <1>6. Lines'
    BY <1>1, <1>3, <1>30 DEF SInv, Lines
  <1>7. Fresh'
    BY <1>1, <1>3, <1>30 DEF SInv, Fresh
  <1> QED
    BY <1>4, <1>5, <1>6, <1>7 DEF SInv

\* A packet that leaves the flight keeps the invariant: what was noted of it stays in the queue.
LEMMA LeavesFlightKeeps ==
    ASSUME SInv, NEW pn \in DOMAIN sentAt, LeavesFlight(pn)
    PROVE  SInv'
  <1>1. STypes /\ Tracked /\ Lines /\ Fresh
    BY DEF SInv
  <1>2. /\ sentAt' = [p \in DOMAIN sentAt \ {pn} |-> sentAt[p]]
        /\ strays' = [strays EXCEPT !.silent = IF pn \in Known THEN strays.silent + 1 ELSE strays.silent]
        /\ sample' = None
        /\ UNCHANGED <<conservative, b, queue, candidates, heights, clock, next, largest>>
    BY DEF LeavesFlight
  <1>3. DOMAIN sentAt' = DOMAIN sentAt \ {pn} /\ \A p \in DOMAIN sentAt' : sentAt'[p] = sentAt[p]
    BY <1>2
  <1>4. strays \in [strange : Nat, silent : Nat]
    BY <1>1 DEF STypes
  <1>5. /\ strays' \in [strange : Nat, silent : Nat] /\ strays'.strange = strays.strange
        /\ strays'.silent = IF pn \in Known THEN strays.silent + 1 ELSE strays.silent
    BY <1>2, <1>4
  <1>6. Known' = Known \ {pn}
    BY <1>3 DEF Known
  <1>7. \A p : Sampleable(p)' => Sampleable(p)
    BY <1>2, <1>6 DEF Sampleable
  <1>8. STypes'
    <2>1. sentAt \in [DOMAIN sentAt -> Nat] /\ DOMAIN sentAt \subseteq 0 .. next - 1
      BY <1>1 DEF STypes
    <2>2. sentAt' \in [DOMAIN sentAt' -> Nat] /\ DOMAIN sentAt' \subseteq 0 .. next' - 1
      BY <1>2, <1>3, <2>1
    <2> QED
      BY <1>1, <1>2, <1>5, <2>2 DEF STypes
  <1>9. Tracked'
    <2>1. Cardinality(Known') + strays'.silent = Cardinality(Known) + strays.silent
      <3>1. Cardinality(Known) \in Nat /\ IsFiniteSet(Known) /\ strays.silent \in Nat
        BY <1>1, <1>4, InFlight
      <3>2. CASE pn \in Known
        <4>1. Cardinality(Known \ {pn}) = Cardinality(Known) - 1
          BY <3>1, <3>2, FS_RemoveElement
        <4> QED
          BY <1>5, <1>6, <3>1, <3>2, <4>1
      <3>3. CASE pn \notin Known
        <4>1. Known' = Known
          BY <1>6, <3>3
        <4> QED
          BY <1>5, <3>3, <4>1
      <3> QED
        BY <3>2, <3>3
    <2>2. /\ b.sent \in Nat /\ b.acked \in Nat /\ b.lost \in Nat /\ strays.strange \in Nat
          /\ strays.silent \in Nat /\ strays'.silent \in Nat
          /\ Cardinality(Known) \in Nat /\ Cardinality(Known') \in Nat
      <3>1. Cardinality(Known') \in Nat
        <4>1. IsFiniteSet(Known) /\ Known' \subseteq Known
          BY <1>1, <1>6, InFlight
        <4> QED
          BY <4>1, FS_Subset, FS_CardinalityType
      <3> QED
        BY <1>1, <1>4, <1>5, <3>1, InFlight DEF STypes, Fields
    <2>3. b'.sent + strays'.strange = b'.acked + b'.lost + Cardinality(Known') + strays'.silent
      BY <1>1, <1>2, <1>5, <2>1, <2>2 DEF Tracked
    <2> QED
      BY <1>1, <1>2, <1>3, <2>3 DEF Tracked
  <1>10. Lines'
    BY <1>1, <1>2, <1>6, <1>7, NoneIsOK DEF Lines
  <1>11. Fresh'
    BY <1>1, <1>2, <1>3, <1>7 DEF Fresh
  <1> QED
    BY <1>8, <1>9, <1>10, <1>11 DEF SInv

\* The reset of the heights keeps the invariant, which speaks of them for the other profile.
LEMMA ResetKeeps == SInv /\ ResetMaxAckHeightTracker => SInv'
  <1> SUFFICES ASSUME SInv, ResetMaxAckHeightTracker
               PROVE  SInv'
    OBVIOUS
  <1>1. /\ ~conservative
        /\ UNCHANGED <<conservative, b, queue, candidates, sample, clock, round, next, sentAt, largest, strays>>
    BY DEF ResetMaxAckHeightTracker
  <1>2. Known' = Known /\ \A p : Sampleable(p)' <=> Sampleable(p)
    BY <1>1 DEF Known, Sampleable
  <1>3. STypes' /\ Tracked'
    BY <1>1, <1>2 DEF SInv, STypes, Tracked
  <1>4. Lines' /\ Fresh'
    BY <1>1, <1>2 DEF SInv, Lines, Fresh
  <1> QED
    BY <1>3, <1>4 DEF SInv

\* What a packet that is sent does to the queue and the packets in flight.
LEMMA SentTracks ==
    ASSUME SInv, NEW time \in Nat \ {0}, time >= clock, OnPacketSent(time),
           b' \in Fields, b'.sent = b.sent + 1, b'.acked = b.acked, b'.lost = b.lost,
           RingOf(candidates', Points)
    PROVE  /\ STypes' /\ Tracked'
           /\ DOMAIN sentAt' = DOMAIN sentAt \cup {next} /\ next \notin DOMAIN sentAt
           /\ Known' = Known \cup {next} /\ next \notin Known
           /\ \A p \in DOMAIN sentAt : SlotOf(queue', p) = SlotOf(queue, p)
           /\ SlotOf(queue', next).acked = b.acked
           /\ SlotOf(queue', next).lastAckedSentTime = b'.lastAckedSentTime
  <1> DEFINE entry == SnapshotOf(b', time, Cardinality(DOMAIN sentAt))
  <1>1. STypes /\ Tracked
    BY DEF SInv
  <1>2. /\ queue' = Emplace(queue, next, entry)
        /\ sentAt' = [p \in DOMAIN sentAt \cup {next} |-> IF p = next THEN time ELSE sentAt[p]]
        /\ next' = next + 1 /\ clock' = time
        /\ UNCHANGED <<conservative, largest, strays>>
    BY DEF OnPacketSent
  <1>3. next \in Nat /\ QueueOf(queue, Entries)
    BY <1>1 DEF STypes
  <1>4. entry \in Entries /\ entry.sentTime = time /\ entry.acked = b.acked
        /\ entry.lastAckedSentTime = b'.lastAckedSentTime
    <2>1. Cardinality(DOMAIN sentAt) + 1 \in Nat
      BY <1>1, InFlight
    <2> QED
      BY <2>1 DEF SnapshotOf, Entries, Fields
  <1> HIDE DEF entry
  <1>5. RingLen(queue.entries) > 0 => queue.first + RingLen(queue.entries) <= next
    BY <1>1 DEF Tracked
  <1>6. /\ QueueOf(queue', Entries)
        /\ queue'.first + RingLen(queue'.entries) = next + 1
        /\ \A p \in Int : SlotOf(queue', p) = IF p = next THEN entry ELSE SlotOf(queue, p)
    BY <1>2, <1>3, <1>4, <1>5, AbsentIs, EmplaceIs
  <1>7. /\ DOMAIN sentAt \subseteq 0 .. next - 1 /\ sentAt \in [DOMAIN sentAt -> Nat]
        /\ next \notin DOMAIN sentAt /\ \A p \in DOMAIN sentAt : p \in Int
    <2>1. DOMAIN sentAt \subseteq 0 .. next - 1 /\ sentAt \in [DOMAIN sentAt -> Nat]
      BY <1>1 DEF STypes
    <2> QED
      BY <1>3, <2>1
  <1>8. /\ DOMAIN sentAt' = DOMAIN sentAt \cup {next} /\ sentAt'[next] = time
        /\ \A p \in DOMAIN sentAt : sentAt'[p] = sentAt[p]
    BY <1>2, <1>7
  <1>9. sentAt' \in [DOMAIN sentAt' -> Nat]
    BY <1>2, <1>7
  <1>10. DOMAIN sentAt' \subseteq 0 .. next' - 1
    BY <1>2, <1>3, <1>7, <1>8
  <1>11. STypes'
    <2>1. /\ conservative' \in BOOLEAN /\ clock' \in Nat \ {0} /\ next' \in Nat /\ largest' \in Nat \cup {-1}
          /\ largest' < next' /\ strays' \in [strange : Nat, silent : Nat]
      BY <1>1, <1>2 DEF STypes
    <2> QED
      BY <1>6, <1>9, <1>10, <2>1 DEF STypes
  <1>12. \A p \in DOMAIN sentAt : SlotOf(queue', p) = SlotOf(queue, p)
    BY <1>6, <1>7
  <1>13. SlotOf(queue', next) = entry
    BY <1>3, <1>6
  <1>130. Known' = Known \cup {next} /\ next \notin Known
    BY <1>7, <1>8 DEF Known
  <1>14. Tracked'
    <2>1. \A p \in DOMAIN sentAt' : SlotOf(queue', p).sentTime = sentAt'[p]
      BY <1>1, <1>4, <1>8, <1>12, <1>13 DEF Tracked
    <2>2. Cardinality(Known') = Cardinality(Known) + 1
      <3>1. IsFiniteSet(Known)
        BY <1>1, InFlight
      <3> QED
        BY <1>130, <3>1, FS_AddElement
    <2>3. /\ b.sent \in Nat /\ b.acked \in Nat /\ b.lost \in Nat /\ Cardinality(Known) \in Nat
          /\ strays.strange \in Nat /\ strays.silent \in Nat
      BY <1>1, InFlight DEF STypes, Fields
    <2>4. b'.sent + strays'.strange = b'.acked + b'.lost + Cardinality(Known') + strays'.silent
      BY <1>1, <1>2, <2>2, <2>3 DEF Tracked
    <2>5. queue'.first + RingLen(queue'.entries) <= next'
      BY <1>2, <1>3, <1>6
    <2> QED
      BY <2>1, <2>4, <2>5 DEF Tracked
  <1> QED
    BY <1>4, <1>7, <1>8, <1>11, <1>12, <1>13, <1>130, <1>14

\* The two recent points, and the less recent of them.
LEMMA RecentType ==
    ASSUME NEW f \in Fields
    PROVE  /\ f.recent = <<f.recent[1], f.recent[2]>>
           /\ f.recent[1] \in Points /\ f.recent[2] \in Points
           /\ LessRecent(f.recent) \in Points
  <1>1. f.recent \in Points \X Points
    BY DEF Fields
  <1> HIDE DEF Points
  <1>2. f.recent[1] \in Points /\ f.recent[2] \in Points /\ f.recent = <<f.recent[1], f.recent[2]>>
    BY <1>1
  <1> QED
    BY <1>2 DEF LessRecent

\* OnPacketSent keeps the invariant: a packet that goes out over others notes what is acknowledged
\* by now, and one that goes out alone starts the candidates anew.
LEMMA SentKeeps ==
    ASSUME SInv, NEW time \in Times, OnPacketSent(time)
    PROVE  SInv'
  <1>1. STypes /\ Tracked /\ Lines /\ Fresh
    BY DEF SInv
  <1>2. time \in Nat \ {0} /\ time >= clock
    <2>1. clock \in Nat \ {0} /\ MaxTime \in Nat
      BY <1>1, SamplerAssumption DEF STypes
    <2> QED
      BY <2>1 DEF Times, Smaller
  <1>3. /\ clock' = time /\ sample' = None /\ UNCHANGED <<conservative, largest, heights>>
        /\ IF Cardinality(DOMAIN sentAt) = 0 THEN Quiesced(time)
           ELSE b' = [b EXCEPT !.lastSent = next, !.sent = b.sent + 1] /\ UNCHANGED candidates
    BY DEF OnPacketSent
  <1>4. /\ b \in Fields /\ next \in Nat /\ RingOf(candidates, Points)
        /\ conservative \in BOOLEAN /\ largest \in Nat \cup {-1} /\ largest < next
    BY <1>1 DEF STypes
  <1>5. b.acked \in Nat
    BY <1>4 DEF Fields
  <1>6. CASE DOMAIN sentAt # {}
    <2>1. b' = [b EXCEPT !.lastSent = next, !.sent = b.sent + 1] /\ candidates' = candidates
      BY <1>1, <1>3, <1>6, InFlight
    <2>2. /\ b' \in Fields /\ b'.sent = b.sent + 1 /\ b'.acked = b.acked /\ b'.lost = b.lost
          /\ b'.appLimited = b.appLimited /\ b'.endOfAppLimited = b.endOfAppLimited /\ b'.recent = b.recent
          /\ b'.lastAckedSentTime = b.lastAckedSentTime /\ b'.ackedAfterLastEvent = b.ackedAfterLastEvent
      <3>1. /\ HasFields(b) /\ b.sent \in Nat /\ b.acked \in Nat /\ b.lost \in Nat
            /\ b.sentAtLastAcked \in Nat /\ b.lastAckedSentTime \in Nat /\ b.lastAckedAckTime \in Nat
            /\ b.lastSent \in Int /\ b.lastAcked \in Int /\ b.appLimited \in BOOLEAN
            /\ b.endOfAppLimited \in Int /\ b.ackedAfterLastEvent \in Nat /\ b.recent \in Points \X Points
        BY <1>4, FieldsHave DEF Fields
      <3>2. b.sent + 1 \in Nat
        BY <3>1
      <3>3. HasFields(b')
        BY <2>1, <3>1 DEF HasFields
      <3>4. /\ b'.sent = b.sent + 1 /\ b'.lastSent = next /\ b'.acked = b.acked /\ b'.lost = b.lost
            /\ b'.sentAtLastAcked = b.sentAtLastAcked /\ b'.lastAckedSentTime = b.lastAckedSentTime
            /\ b'.lastAckedAckTime = b.lastAckedAckTime /\ b'.lastAcked = b.lastAcked
            /\ b'.appLimited = b.appLimited /\ b'.endOfAppLimited = b.endOfAppLimited
            /\ b'.ackedAfterLastEvent = b.ackedAfterLastEvent /\ b'.recent = b.recent
        BY <2>1, <3>1 DEF HasFields
      <3> QED
        BY <1>4, <3>1, <3>2, <3>3, <3>4, FieldsAre
    <2>3. /\ STypes' /\ Tracked'
          /\ DOMAIN sentAt' = DOMAIN sentAt \cup {next} /\ Known' = Known \cup {next} /\ next \notin Known
          /\ \A p \in DOMAIN sentAt : SlotOf(queue', p) = SlotOf(queue, p)
          /\ SlotOf(queue', next).acked = b.acked
          /\ SlotOf(queue', next).lastAckedSentTime = b'.lastAckedSentTime
      BY <1>2, <1>4, <2>1, <2>2, SentTracks
    <2>30. /\ \A p \in Known : p \in DOMAIN sentAt /\ SlotOf(queue', p) = SlotOf(queue, p)
           /\ \A p \in Known : Sampleable(p)' <=> Sampleable(p)
           /\ \A p : p = next /\ Sampleable(p)' => b.lastAckedSentTime # 0
      <3>1. \A p \in Known : p \in DOMAIN sentAt /\ SlotOf(queue', p) = SlotOf(queue, p)
        BY <1>1, <2>3, InFlight
      <3>2. ASSUME NEW p \in Known
            PROVE  Sampleable(p)' <=> Sampleable(p)
        <4>1. p \in Known' /\ SlotOf(queue', p) = SlotOf(queue, p)
          BY <2>3, <3>1
        <4> QED
          BY <4>1 DEF Sampleable
      <3>3. \A p : p = next /\ Sampleable(p)' => b.lastAckedSentTime # 0
        BY <2>2, <2>3 DEF Sampleable
      <3> QED
        BY <3>1, <3>2, <3>3
    <2>4. RecentOK(b'.recent, b'.acked, clock')
      <3>1. RecentOK(b.recent, b.acked, clock) /\ b.recent[2].time \in Nat /\ clock \in Nat
        BY <1>1, <1>4, RecentType DEF Lines, STypes, Points
      <3> QED
        BY <1>2, <1>3, <2>2, <3>1 DEF RecentOK
    <2>5. InOrder(candidates', b'.recent)
      BY <1>1, <2>1, <2>2 DEF Lines
    <2>6. RingLen(candidates) > 0 => RingAt(candidates, 0).acked <= b.acked
      <3> SUFFICES ASSUME RingLen(candidates) > 0
                   PROVE  RingAt(candidates, 0).acked <= b.acked
        OBVIOUS
      <3>1. RingLen(candidates) \in Nat /\ 0 \in 0 .. RingLen(candidates) - 1
        BY <1>4, RingLenType
      <3>2. RingAt(candidates, 0).acked <= LessRecent(b.recent).acked
        BY <1>1, <3>1 DEF Lines, InOrder, NotBeyond
      <3>3. RingAt(candidates, 0) \in Points
        BY <1>4, <3>1, RingLenType
      <3>4. /\ b.recent[1].acked \in Nat /\ b.recent[2].acked \in Nat
            /\ b.recent[1].acked <= b.recent[2].acked /\ b.recent[2].acked <= b.acked
        BY <1>1, <1>4, RecentType DEF Lines, RecentOK, Points
      <3>5. LessRecent(b.recent).acked <= b.acked /\ LessRecent(b.recent).acked \in Nat
        BY <1>5, <3>4 DEF LessRecent
      <3>6. RingAt(candidates, 0).acked \in Nat
        BY <3>3 DEF Points
      <3> QED
        BY <1>5, <3>2, <3>5, <3>6
    <2>7. \A p \in Known : SlotOf(queue, p).acked <= b.acked /\ SlotOf(queue, p).acked \in Nat /\ p < next
      <3>1. \A p \in Known : SlotOf(queue, p).acked \in Nat
        BY <1>1, EntryInFlight DEF Entries
      <3>2. \A p \in Known : p < next
        <4>1. Known \subseteq DOMAIN sentAt /\ DOMAIN sentAt \subseteq 0 .. next - 1
          BY <1>1, InFlight DEF STypes
        <4> QED
          BY <1>4, <4>1
      <3> QED
        BY <1>1, <3>1, <3>2 DEF Lines
    <2>8. \A p \in Known' : SlotOf(queue', p).acked <= b'.acked
      BY <1>5, <2>2, <2>3, <2>30, <2>7
    <2>9. \A p, q \in Known' : p < q => SlotOf(queue', p).acked <= SlotOf(queue', q).acked
      <3> SUFFICES ASSUME NEW p \in Known', NEW q \in Known', p < q
                   PROVE  SlotOf(queue', p).acked <= SlotOf(queue', q).acked
        OBVIOUS
      <3>1. \A x \in Known : x \in Nat
        BY <1>1, InFlight
      <3>2. p \in Known
        BY <1>4, <2>3, <2>7, <3>1
      <3>3. CASE q = next
        BY <2>3, <2>30, <2>7, <3>2, <3>3
      <3>4. CASE q \in Known
        BY <1>1, <2>30, <3>2, <3>4 DEF Lines
      <3> QED
        BY <2>3, <3>3, <3>4
    <2>10. RingLen(candidates') > 0 =>
               \A p \in Known' : p > largest' /\ Sampleable(p)' =>
                   RingAt(candidates', 0).acked <= SlotOf(queue', p).acked
      BY <1>1, <1>3, <2>1, <2>3, <2>30, <2>6 DEF Lines
    <2>12. Fresh'
      <3> SUFFICES ASSUME conservative, RingLen(candidates) = 0
                   PROVE  /\ b'.lastAckedSentTime = 0 /\ heights'.start = 0 /\ b'.ackedAfterLastEvent = b'.acked
                          /\ \A p \in DOMAIN sentAt' : ~Sampleable(p)'
        BY <1>3, <2>1 DEF Fresh
      <3>1. /\ b.lastAckedSentTime = 0 /\ heights.start = 0 /\ b.ackedAfterLastEvent = b.acked
            /\ \A p \in DOMAIN sentAt : ~Sampleable(p)
        BY <1>1 DEF Fresh
      <3>2. ASSUME NEW p \in DOMAIN sentAt', Sampleable(p)'
            PROVE  FALSE
        <4>1. p \in Known \/ p = next
          BY <2>3, <3>2 DEF Sampleable
        <4>2. CASE p \in Known
          BY <2>30, <3>1, <3>2, <4>2
        <4>3. CASE p = next
          BY <2>30, <3>1, <3>2, <4>3
        <4> QED
          BY <4>1, <4>2, <4>3
      <3> QED
        BY <1>3, <2>2, <3>1, <3>2
    <2>11. Lines'
      <3>2. ~b'.appLimited => largest' > b'.endOfAppLimited \/ b'.endOfAppLimited = InvalidPacket
        BY <1>1, <1>3, <2>2 DEF Lines
      <3>3. SampleOK(sample')
        BY <1>3, NoneIsOK DEF SampleOK
      <3>4. ~conservative => RingLen(candidates) = 0
        BY <1>1 DEF Lines
      <3> QED
        BY <1>3, <2>1, <2>4, <2>5, <2>8, <2>9, <2>10, <3>2, <3>3, <3>4 DEF Lines
    <2> QED
      BY <2>3, <2>11, <2>12 DEF SInv
  <1>7. CASE DOMAIN sentAt = {}
    <2> DEFINE start == Point(time, b.acked)
    <2>1. start \in Points /\ start.time = time /\ start.acked = b.acked /\ NoPoint \in Points
      BY <1>2, <1>5, PointsAre
    <2>2. Quiesced(time)
      BY <1>1, <1>3, <1>7, InFlight
    <2> HIDE DEF start
    <2>3. b' = [b EXCEPT !.lastSent = next, !.sent = b.sent + 1, !.lastAckedAckTime = time,
                      !.sentAtLastAcked = b.sent + 1, !.lastAckedSentTime = time,
                      !.recent = IF conservative THEN <<NoPoint, start>> ELSE b.recent]
      BY <2>2 DEF Quiesced, start
    <2>4. PICK recent : recent = IF conservative THEN <<NoPoint, start>> ELSE b.recent
      OBVIOUS
    <2>5. recent \in Points \X Points
      <3>1. b.recent \in Points \X Points
        BY <1>4 DEF Fields
      <3> HIDE DEF Points
      <3> QED
        BY <2>1, <2>4, <3>1
    <2>6. /\ b' \in Fields /\ b'.sent = b.sent + 1 /\ b'.acked = b.acked /\ b'.lost = b.lost
          /\ b'.appLimited = b.appLimited /\ b'.endOfAppLimited = b.endOfAppLimited /\ b'.recent = recent
      <3>1. /\ HasFields(b) /\ b.sent \in Nat /\ b.acked \in Nat /\ b.lost \in Nat
            /\ b.lastAcked \in Int /\ b.appLimited \in BOOLEAN
            /\ b.endOfAppLimited \in Int /\ b.ackedAfterLastEvent \in Nat
        BY <1>4, FieldsHave DEF Fields
      <3>2. b.sent + 1 \in Nat
        BY <3>1
      <3>5. b' = [b EXCEPT !.lastSent = next, !.sent = b.sent + 1, !.lastAckedAckTime = time,
                      !.sentAtLastAcked = b.sent + 1, !.lastAckedSentTime = time, !.recent = recent]
        BY <2>3, <2>4
      <3>3. HasFields(b')
        BY <3>1, <3>5 DEF HasFields
      <3>4. /\ b'.sent = b.sent + 1 /\ b'.lastSent = next /\ b'.acked = b.acked /\ b'.lost = b.lost
            /\ b'.sentAtLastAcked = b.sent + 1 /\ b'.lastAckedSentTime = time
            /\ b'.lastAckedAckTime = time /\ b'.lastAcked = b.lastAcked
            /\ b'.appLimited = b.appLimited /\ b'.endOfAppLimited = b.endOfAppLimited
            /\ b'.ackedAfterLastEvent = b.ackedAfterLastEvent /\ b'.recent = recent
        BY <3>1, <3>5 DEF HasFields
      <3> QED
        BY <1>2, <1>4, <2>5, <3>1, <3>2, <3>3, <3>4, FieldsAre
    <2>7. candidates' = IF conservative THEN PushBack(ClearRing(candidates, NoPoint), start, NoPoint) ELSE candidates
      BY <2>2 DEF Quiesced, start
    <2>8. /\ RingOf(candidates', Points)
          /\ conservative => RingLen(candidates') = 1 /\ RingAt(candidates', 0) = start
      <3>1. PICK n \in Nat \ {0} : RingSize(candidates) = n
        BY <1>4, SizeIs DEF RingOf, IsRing
      <3> DEFINE cleared == ClearRing(candidates, NoPoint)
      <3>2. RingOf(cleared, Points) /\ RingLen(cleared) = 0
        BY <2>1, <3>1, NewRingIs DEF ClearRing, RingOf
      <3> HIDE DEF cleared
      <3>3. /\ RingOf(PushBack(cleared, start, NoPoint), Points)
            /\ RingLen(PushBack(cleared, start, NoPoint)) = RingLen(cleared) + 1
            /\ RingAt(PushBack(cleared, start, NoPoint), RingLen(cleared)) = start
        BY <2>1, <3>2, PushBackIs
      <3> QED
        BY <1>4, <2>7, <3>2, <3>3 DEF cleared
    <2>9. /\ STypes' /\ Tracked'
          /\ Known' = Known \cup {next} /\ SlotOf(queue', next).acked = b.acked
      BY <1>2, <1>4, <2>6, <2>8, SentTracks
    <2>10. RecentOK(b'.recent, b'.acked, clock')
      <3>1. CASE conservative
        BY <1>2, <1>3, <1>5, <2>1, <2>4, <2>6, <3>1, PointsAre DEF RecentOK
      <3>2. CASE ~conservative
        <4>1. RecentOK(b.recent, b.acked, clock) /\ b.recent[2].time \in Nat /\ clock \in Nat
          BY <1>1, <1>4, RecentType DEF Lines, STypes, Points
        <4> QED
          BY <1>2, <1>3, <2>4, <2>6, <3>2, <4>1 DEF RecentOK
      <3> QED
        BY <3>1, <3>2
    <2>11. InOrder(candidates', b'.recent)
      <3>1. CASE conservative
        <4>1. LessRecent(recent) = start
          BY <2>1, <2>4, <3>1, PointsAre DEF LessRecent
        <4>2. 0 .. RingLen(candidates') - 2 = {} /\ 0 .. RingLen(candidates') - 1 = {0}
          BY <2>8, <3>1
        <4>3. NotBeyond(start, start)
          BY <1>2, <1>5, <2>1 DEF NotBeyond
        <4> QED
          BY <2>6, <2>8, <3>1, <4>1, <4>2, <4>3 DEF InOrder
      <3>2. CASE ~conservative
        BY <1>1, <2>4, <2>6, <2>7, <3>2 DEF Lines
      <3> QED
        BY <3>1, <3>2
    <2>12. Known' = {next}
      <3>1. Known = {}
        BY <1>7 DEF Known
      <3> QED
        BY <2>9, <3>1
    <2>13. \A p, q \in Known' : p < q => SlotOf(queue', p).acked <= SlotOf(queue', q).acked
      BY <1>4, <2>12
    <2>14. RingLen(candidates') > 0 =>
               \A p \in Known' : p > largest' /\ Sampleable(p)' =>
                   RingAt(candidates', 0).acked <= SlotOf(queue', p).acked
      <3>1. CASE conservative
        BY <1>5, <2>1, <2>8, <2>9, <2>12, <3>1
      <3>2. CASE ~conservative
        BY <1>1, <2>7, <3>2 DEF Lines
      <3> QED
        BY <3>1, <3>2
    <2>15. Lines'
      <3>2. ~conservative => RingLen(candidates') = 0
        BY <1>1, <2>7 DEF Lines
      <3>3. ~b'.appLimited => largest' > b'.endOfAppLimited \/ b'.endOfAppLimited = InvalidPacket
        BY <1>1, <1>3, <2>6 DEF Lines
      <3>4. SampleOK(sample')
        BY <1>3, NoneIsOK DEF SampleOK
      <3>5. \A p \in Known' : SlotOf(queue', p).acked <= b'.acked
        BY <1>5, <2>6, <2>9, <2>12
      <3> QED
        BY <1>3, <2>10, <2>11, <2>13, <2>14, <3>2, <3>3, <3>4, <3>5 DEF Lines
    <2>16. Fresh'
      BY <1>3, <2>8 DEF Fresh
    <2> QED
      BY <2>9, <2>15, <2>16 DEF SInv
  <1> QED
    BY <1>6, <1>7

\* A set of natural numbers has a least member, which is Min.
LEMMA MinIs ==
    ASSUME NEW S, S \subseteq Nat, S # {}
    PROVE  Min(S) \in S /\ \A x \in S : Min(S) <= x
  <1>1. \E n \in S : \A m \in S : n <= m
    <2>1. PICK n \in S : \A m \in S : ~(<<m, n>> \in OpToRel(<, Nat))
      BY NatLessThanWellFounded, WFMin
    <2>2. \A m \in S : ~(m < n)
      BY <2>1 DEF OpToRel
    <2>3. n \in S
      BY <2>1
    <2>4. \A m \in S : n <= m
      BY <2>2, <2>3
    <2> QED
      BY <2>3, <2>4
  <1> QED
    BY <1>1 DEF Min

\* A set of integers with a bound has a greatest member, which is Max.
LEMMA MaxIs ==
    ASSUME NEW n \in Int, NEW S, S \subseteq {x \in Int : x <= n}, S # {}
    PROVE  Max(S) \in S /\ \A x \in S : x <= Max(S)
  <1> DEFINE T == {n - x : x \in S}
  <1>1. T \subseteq Nat /\ T # {}
    <2>1. \A x \in S : x \in Int /\ x <= n
      OBVIOUS
    <2>2. \A x \in S : n - x \in Nat
      BY <2>1
    <2> QED
      BY <2>2
  <1>2. Min(T) \in T /\ \A t \in T : Min(T) <= t
    BY <1>1, MinIs
  <1>3. PICK y \in S : Min(T) = n - y
    BY <1>2
  <1>4. \A x \in S : n - x \in T /\ x \in Int
    OBVIOUS
  <1>5. \A x \in S : n - y <= n - x
    BY <1>2, <1>3, <1>4
  <1>6. \A x \in S : y >= x
    BY <1>4, <1>5
  <1>7. Max(S) \in S /\ \A x \in S : Max(S) >= x
    BY <1>6 DEF Max
  <1> QED
    BY <1>4, <1>7

\* Where ChooseA0 finds its point and leaves the front: at the front, or at a point that is not
\* beyond what had been acknowledged when the packet was sent.
LEMMA ChooseA0Is ==
    ASSUME NEW ring, RingOf(ring, Points), NEW total \in Nat, RingLen(ring) > 0
    PROVE  \E k, j \in 0 .. RingLen(ring) - 1 :
               /\ ChooseA0(ring, total).a0 = RingAt(ring, j)
               /\ ChooseA0(ring, total).ring = PopFront(ring, k, NoPoint)
               /\ j = 0 \/ RingAt(ring, j).acked <= total
               /\ k = 0 \/ RingAt(ring, k).acked <= total
  <1>1. PICK len \in Nat : len = RingLen(ring)
    BY RingLenType
  <1>2. len > 0 /\ \A i \in 0 .. len - 1 : RingAt(ring, i).acked \in Nat
    <2>1. \A i \in 0 .. len - 1 : RingAt(ring, i) \in Points
      BY <1>1, RingLenType
    <2> QED
      BY <1>1, <2>1 DEF Points
  <1> DEFINE beyond == {i \in 1 .. len - 1 : RingAt(ring, i).acked > total}
             first  == Min(beyond)
             c == ChooseA0(ring, total)
  <1>3. c = IF beyond # {} THEN [a0 |-> RingAt(ring, first - 1), ring |-> PopFront(ring, first - 1, NoPoint)]
            ELSE [a0 |-> RingAt(ring, len - 1), ring |-> PopFront(ring, len \div 2, NoPoint)]
    BY <1>1 DEF ChooseA0
  <1> HIDE DEF c
  <1>4. CASE beyond # {}
    <2>1. first \in beyond /\ \A i \in beyond : first <= i
      <3>1. beyond \subseteq Nat
        OBVIOUS
      <3> HIDE DEF beyond
      <3> QED
        BY <1>4, <3>1, MinIs
    <2> HIDE DEF first
    <2>2. first \in 1 .. len - 1 /\ first - 1 \in 0 .. len - 1 /\ first - 1 \notin beyond
      BY <2>1
    <2>3. first - 1 = 0 \/ RingAt(ring, first - 1).acked <= total
      BY <1>2, <2>2
    <2>4. c.a0 = RingAt(ring, first - 1) /\ c.ring = PopFront(ring, first - 1, NoPoint)
      BY <1>3, <1>4
    <2> QED
      BY <1>1, <2>2, <2>3, <2>4 DEF c
  <1>5. CASE beyond = {}
    <2>1. len - 1 \in 0 .. len - 1 /\ len \div 2 \in 0 .. len - 1
      BY <1>2
    <2>2. \A i \in 0 .. len - 1 : i = 0 \/ RingAt(ring, i).acked <= total
      <3> SUFFICES ASSUME NEW i \in 0 .. len - 1, i # 0
                   PROVE  RingAt(ring, i).acked <= total
        OBVIOUS
      <3>1. i \in 1 .. len - 1 /\ i \notin beyond
        BY <1>5
      <3> QED
        BY <1>2, <3>1
    <2>3. c.a0 = RingAt(ring, len - 1) /\ c.ring = PopFront(ring, len \div 2, NoPoint)
      BY <1>3, <1>5
    <2> QED
      BY <1>1, <2>1, <2>2, <2>3 DEF c
  <1> QED
    BY <1>4, <1>5

\* Points taken from the front leave the others in order.
LEMMA PoppedInOrder ==
    ASSUME NEW ring, RingOf(ring, Points), NEW k \in 0 .. RingLen(ring) - 1,
           NEW recent, InOrder(ring, recent)
    PROVE  /\ RingOf(PopFront(ring, k, NoPoint), Points)
           /\ RingLen(PopFront(ring, k, NoPoint)) > 0
           /\ RingAt(PopFront(ring, k, NoPoint), 0) = RingAt(ring, k)
           /\ InOrder(PopFront(ring, k, NoPoint), recent)
  <1>1. PICK len \in Nat : len = RingLen(ring)
    BY RingLenType
  <1> DEFINE r == PopFront(ring, k, NoPoint)
  <1>2. k \in 0 .. len - 1 /\ k \in 0 .. len
    BY <1>1
  <1>3. /\ RingOf(r, Points) /\ RingLen(r) = len - k
        /\ \A i \in 0 .. len - k - 1 : RingAt(r, i) = RingAt(ring, i + k)
    BY <1>1, <1>2, PointsAre, PopFrontIs
  <1> HIDE DEF r
  <1>4. \A i \in 0 .. RingLen(r) - 2 : NotBeyond(RingAt(r, i), RingAt(r, i + 1))
    <2> SUFFICES ASSUME NEW i \in 0 .. len - k - 2
                 PROVE  NotBeyond(RingAt(r, i), RingAt(r, i + 1))
      BY <1>3
    <2>1. /\ i \in 0 .. len - k - 1 /\ i + 1 \in 0 .. len - k - 1
          /\ i + k \in 0 .. len - 2 /\ (i + 1) + k = (i + k) + 1
      BY <1>2
    <2>2. NotBeyond(RingAt(ring, i + k), RingAt(ring, (i + k) + 1))
      BY <1>1, <2>1 DEF InOrder
    <2> QED
      BY <1>3, <2>1, <2>2
  <1>5. \A i \in 0 .. RingLen(r) - 1 : NotBeyond(RingAt(r, i), LessRecent(recent))
    <2> SUFFICES ASSUME NEW i \in 0 .. len - k - 1
                 PROVE  NotBeyond(RingAt(r, i), LessRecent(recent))
      BY <1>3
    <2>1. i + k \in 0 .. len - 1
      BY <1>2
    <2> QED
      BY <1>1, <1>3, <2>1 DEF InOrder
  <1>6. RingAt(r, 0) = RingAt(ring, k) /\ RingLen(r) > 0
    <2>1. 0 \in 0 .. len - k - 1 /\ 0 + k = k
      BY <1>2
    <2> QED
      BY <1>2, <1>3, <2>1
  <1> QED
    BY <1>3, <1>4, <1>5, <1>6 DEF InOrder, r

\* The next point to be pushed only moves on.
LEMMA StaysInOrder ==
    ASSUME NEW ring, RingOf(ring, Points), NEW f \in Fields, NEW g \in Fields,
           InOrder(ring, f.recent), NotBeyond(LessRecent(f.recent), LessRecent(g.recent))
    PROVE  InOrder(ring, g.recent)
  <1>1. LessRecent(f.recent) \in Points /\ LessRecent(g.recent) \in Points
    BY RecentType
  <1>2. \A i \in 0 .. RingLen(ring) - 1 : RingAt(ring, i) \in Points
    BY RingLenType
  <1>3. \A x, y, z \in Points : NotBeyond(x, y) /\ NotBeyond(y, z) => NotBeyond(x, z)
    BY DEF NotBeyond, Points
  <1> QED
    BY <1>1, <1>2, <1>3 DEF InOrder

\* recentAckPoints.Update keeps the points in order and moves on.
LEMMA UpdateIs ==
    ASSUME NEW f \in Fields, NEW time \in Nat, RecentOK(f.recent, f.acked, time)
    PROVE  /\ UpdatePoints(f.recent, time, f.acked + 1) \in Points \X Points
           /\ RecentOK(UpdatePoints(f.recent, time, f.acked + 1), f.acked + 1, time)
           /\ NotBeyond(LessRecent(f.recent), LessRecent(UpdatePoints(f.recent, time, f.acked + 1)))
  <1> DEFINE new == Point(time, f.acked + 1)
             p1 == f.recent[1]
             p2 == f.recent[2]
             up == UpdatePoints(f.recent, time, f.acked + 1)
  <1>1. f.acked \in Nat
    BY DEF Fields
  <1>2. new \in Points /\ new.time = time /\ new.acked = f.acked + 1
    <2>1. f.acked + 1 \in Nat
      BY <1>1
    <2> QED
      BY <2>1, PointsAre
  <1>3. p1 \in Points /\ p2 \in Points
    BY RecentType
  <1>4. /\ p1.time \in Nat /\ p1.acked \in Nat /\ p2.time \in Nat /\ p2.acked \in Nat
        /\ p1.time <= p2.time /\ p1.acked <= p2.acked /\ p2.acked <= f.acked /\ p2.time <= time
    BY <1>3 DEF Points, RecentOK
  <1>5. up = <<IF time > p2.time THEN p2 ELSE p1, new>>
    BY DEF UpdatePoints
  <1>6. /\ LessRecent(f.recent) = IF p1.acked # 0 THEN p1 ELSE p2
        /\ LessRecent(up) = IF up[1].acked # 0 THEN up[1] ELSE up[2]
    BY DEF LessRecent
  <1> HIDE DEF new, p1, p2, up
  <1>7. CASE time > p2.time
    <2>1. up = <<p2, new>> /\ up[1] = p2 /\ up[2] = new
      BY <1>5, <1>7
    <2>2. RecentOK(up, f.acked + 1, time)
      BY <1>1, <1>2, <1>4, <2>1 DEF RecentOK
    <2>3. NotBeyond(LessRecent(f.recent), LessRecent(up))
      BY <1>1, <1>2, <1>4, <1>6, <2>1 DEF NotBeyond
    <2> QED
      BY <1>2, <1>3, <2>1, <2>2, <2>3 DEF up
  <1>8. CASE ~(time > p2.time)
    <2>1. up = <<p1, new>> /\ up[1] = p1 /\ up[2] = new
      BY <1>5, <1>8
    <2>2. RecentOK(up, f.acked + 1, time)
      BY <1>1, <1>2, <1>4, <2>1 DEF RecentOK
    <2>3. NotBeyond(LessRecent(f.recent), LessRecent(up))
      BY <1>1, <1>2, <1>4, <1>6, <2>1 DEF NotBeyond
    <2> QED
      BY <1>2, <1>3, <2>1, <2>2, <2>3 DEF up
  <1> QED
    BY <1>7, <1>8

\* The two parts of OnPacketAcknowledged, of a packet that is known.
AckedFields(f, entry, pn, time) ==
    [f EXCEPT !.lastAcked = pn, !.acked = f.acked + 1, !.sentAtLastAcked = entry.sent,
              !.lastAckedSentTime = entry.sentTime, !.lastAckedAckTime = time,
              !.recent = IF conservative THEN UpdatePoints(f.recent, time, f.acked + 1) ELSE f.recent,
              !.appLimited = f.appLimited /\ ~(\/ f.endOfAppLimited = InvalidPacket
                                               \/ pn > f.endOfAppLimited)]

\* Where the sample of the packet starts, and the candidates that are left.
Chosen(e, entry) ==
    IF conservative /\ ~RingEmpty(e.ring) THEN ChooseA0(e.ring, entry.acked)
    ELSE [a0 |-> Point(entry.lastAckedAckTime, entry.acked), ring |-> e.ring]

\* Together they are OnPacketAcknowledged.
LEMMA AckIs ==
    ASSUME NEW e, NEW pn, NEW time, NEW entry, entry = GetEntry(queue, pn), entry # Absent
    PROVE  OnPacketAcknowledged(e, pn, time) =
               IF entry.lastAckedSentTime = 0
               THEN [e EXCEPT !.fields = AckedFields(e.fields, entry, pn, time)]
               ELSE Sampled(e, entry, Chosen(e, entry).a0, Chosen(e, entry).ring,
                            AckedFields(e.fields, entry, pn, time), time)
  BY DEF OnPacketAcknowledged, AckedFields, Chosen

\* The fields after an acknowledgement count one packet more and keep the recent points in order.
LEMMA AckedFieldsAre ==
    ASSUME NEW f \in Fields, NEW entry \in Entries, NEW pn \in Nat, NEW time \in Nat,
           RecentOK(f.recent, f.acked, time)
    PROVE  /\ AckedFields(f, entry, pn, time) \in Fields
           /\ AckedFields(f, entry, pn, time).sent = f.sent
           /\ AckedFields(f, entry, pn, time).lost = f.lost
           /\ AckedFields(f, entry, pn, time).acked = f.acked + 1
           /\ AckedFields(f, entry, pn, time).lastAcked = pn
           /\ AckedFields(f, entry, pn, time).endOfAppLimited = f.endOfAppLimited
           /\ AckedFields(f, entry, pn, time).ackedAfterLastEvent = f.ackedAfterLastEvent
           /\ ~AckedFields(f, entry, pn, time).appLimited =>
                  \/ ~f.appLimited
                  \/ f.endOfAppLimited = InvalidPacket
                  \/ pn > f.endOfAppLimited
           /\ RecentOK(AckedFields(f, entry, pn, time).recent, f.acked + 1, time)
           /\ NotBeyond(LessRecent(f.recent), LessRecent(AckedFields(f, entry, pn, time).recent))
  <1>1. PICK recent : recent = IF conservative THEN UpdatePoints(f.recent, time, f.acked + 1) ELSE f.recent
    OBVIOUS
  <1>2. PICK limited : limited = (f.appLimited /\ ~(\/ f.endOfAppLimited = InvalidPacket
                                                    \/ pn > f.endOfAppLimited))
    OBVIOUS
  <1>3. limited \in BOOLEAN
    BY <1>2
  <1>4. PICK g : g = [f EXCEPT !.lastAcked = pn, !.acked = f.acked + 1, !.sentAtLastAcked = entry.sent,
                               !.lastAckedSentTime = entry.sentTime, !.lastAckedAckTime = time,
                               !.recent = recent, !.appLimited = limited]
    OBVIOUS
  <1>5. g = AckedFields(f, entry, pn, time)
    BY <1>1, <1>2, <1>4 DEF AckedFields
  <1>6. /\ HasFields(f) /\ f.sent \in Nat /\ f.acked \in Nat /\ f.lost \in Nat
        /\ f.lastSent \in Int /\ f.appLimited \in BOOLEAN
        /\ f.endOfAppLimited \in Int /\ f.ackedAfterLastEvent \in Nat
    BY FieldsHave DEF Fields
  <1>7. f.acked + 1 \in Nat /\ entry.sent \in Nat /\ entry.sentTime \in Nat
    BY <1>6 DEF Entries
  <1>8. HasFields(g)
    BY <1>4, <1>6 DEF HasFields
  <1>9. /\ g.sent = f.sent /\ g.lost = f.lost /\ g.acked = f.acked + 1 /\ g.lastAcked = pn
        /\ g.sentAtLastAcked = entry.sent /\ g.lastAckedSentTime = entry.sentTime
        /\ g.lastAckedAckTime = time /\ g.recent = recent /\ g.appLimited = limited
        /\ g.lastSent = f.lastSent /\ g.endOfAppLimited = f.endOfAppLimited
        /\ g.ackedAfterLastEvent = f.ackedAfterLastEvent
    BY <1>4, <1>6 DEF HasFields
  <1>10. /\ recent \in Points \X Points /\ RecentOK(recent, f.acked + 1, time)
         /\ NotBeyond(LessRecent(f.recent), LessRecent(recent))
    <2>1. CASE conservative
      BY <1>1, <2>1, UpdateIs
    <2>2. CASE ~conservative
      <3>1. recent = f.recent
        BY <1>1, <2>2
      <3>2. f.recent \in Points \X Points
        BY DEF Fields
      <3>3. RecentOK(f.recent, f.acked + 1, time)
        <4>1. f.recent[2].acked \in Nat
          BY RecentType DEF Points
        <4> QED
          BY <1>6, <4>1 DEF RecentOK
      <3>4. NotBeyond(LessRecent(f.recent), LessRecent(f.recent))
        BY RecentType DEF NotBeyond, Points
      <3> QED
        BY <3>1, <3>2, <3>3, <3>4
    <2> QED
      BY <2>1, <2>2
  <1>11. g \in Fields
    BY <1>3, <1>6, <1>7, <1>8, <1>9, <1>10, FieldsAre
  <1>12. ~g.appLimited => \/ ~f.appLimited
                          \/ f.endOfAppLimited = InvalidPacket
                          \/ pn > f.endOfAppLimited
    BY <1>2, <1>9
  <1> QED
    BY <1>5, <1>9, <1>10, <1>11, <1>12

\* The point that a sample starts at and the candidates that are left.
LEMMA ChosenIs ==
    ASSUME NEW e, NEW f \in Fields, RingOf(e.ring, Points), NEW entry \in Entries,
           InOrder(e.ring, f.recent),
           f.recent[2].acked <= f.acked, f.recent[1].acked <= f.recent[2].acked,
           entry.acked <= f.acked, ~conservative => RingLen(e.ring) = 0
    PROVE  /\ Chosen(e, entry).a0 \in Points /\ Chosen(e, entry).a0.acked <= f.acked
           /\ RingOf(Chosen(e, entry).ring, Points) /\ InOrder(Chosen(e, entry).ring, f.recent)
           /\ RingLen(e.ring) > 0 <=> RingLen(Chosen(e, entry).ring) > 0
           /\ \/ Chosen(e, entry).a0.acked <= entry.acked
              \/ RingLen(e.ring) > 0 /\ Chosen(e, entry).a0 = RingAt(e.ring, 0)
           /\ RingLen(e.ring) > 0 => \/ RingAt(Chosen(e, entry).ring, 0).acked <= entry.acked
                                     \/ RingAt(Chosen(e, entry).ring, 0) = RingAt(e.ring, 0)
  <1>1. PICK len \in Nat : len = RingLen(e.ring)
    BY RingLenType
  <1>2. entry.acked \in Nat /\ entry.lastAckedAckTime \in Nat /\ f.acked \in Nat
    BY DEF Entries, Fields
  <1>3. CASE len = 0
    <2>1. RingEmpty(e.ring)
      BY <1>1, <1>3, RingLenType
    <2>2. Chosen(e, entry).a0 = Point(entry.lastAckedAckTime, entry.acked) /\ Chosen(e, entry).ring = e.ring
      BY <2>1 DEF Chosen
    <2>3. Chosen(e, entry).a0 \in Points /\ Chosen(e, entry).a0.acked = entry.acked
      BY <1>2, <2>2, PointsAre
    <2>4. ~(RingLen(e.ring) > 0)
      BY <1>1, <1>3
    <2> QED
      BY <1>2, <2>2, <2>3, <2>4
  <1>4. CASE len > 0
    <2>1. ~RingEmpty(e.ring) /\ conservative
      BY <1>1, <1>4, RingLenType, SMT
    <2>2. Chosen(e, entry) = ChooseA0(e.ring, entry.acked)
      BY <2>1 DEF Chosen
    <2>3. PICK k, j \in 0 .. RingLen(e.ring) - 1 :
              /\ Chosen(e, entry).a0 = RingAt(e.ring, j)
              /\ Chosen(e, entry).ring = PopFront(e.ring, k, NoPoint)
              /\ j = 0 \/ RingAt(e.ring, j).acked <= entry.acked
              /\ k = 0 \/ RingAt(e.ring, k).acked <= entry.acked
      <3>1. RingLen(e.ring) > 0
        BY <1>1, <1>4
      <3>2. entry.acked \in Nat /\ RingOf(e.ring, Points)
        BY <1>2
      <3>3. \E k, j \in 0 .. RingLen(e.ring) - 1 :
                /\ ChooseA0(e.ring, entry.acked).a0 = RingAt(e.ring, j)
                /\ ChooseA0(e.ring, entry.acked).ring = PopFront(e.ring, k, NoPoint)
                /\ j = 0 \/ RingAt(e.ring, j).acked <= entry.acked
                /\ k = 0 \/ RingAt(e.ring, k).acked <= entry.acked
        BY <3>1, <3>2, ChooseA0Is, Zenon
      <3> QED
        BY <2>2, <3>3, Zenon
    <2>4. /\ RingOf(PopFront(e.ring, k, NoPoint), Points)
          /\ RingLen(PopFront(e.ring, k, NoPoint)) > 0
          /\ RingAt(PopFront(e.ring, k, NoPoint), 0) = RingAt(e.ring, k)
          /\ InOrder(PopFront(e.ring, k, NoPoint), f.recent)
      BY <1>1, PoppedInOrder
    <2>5. RingAt(e.ring, j) \in Points
      BY <1>1, RingLenType
    <2>6. RingAt(e.ring, j).acked <= f.acked
      <3>1. RingAt(e.ring, j).acked <= LessRecent(f.recent).acked
        BY <1>1 DEF InOrder, NotBeyond
      <3>2. f.recent[1].acked \in Nat /\ f.recent[2].acked \in Nat
        BY RecentType DEF Points
      <3>3. LessRecent(f.recent).acked <= f.acked /\ LessRecent(f.recent).acked \in Nat
        BY <1>2, <3>2 DEF LessRecent
      <3>4. RingAt(e.ring, j).acked \in Nat
        BY <2>5 DEF Points
      <3> QED
        BY <1>2, <3>1, <3>3, <3>4
    <2> QED
      BY <1>1, <1>4, <2>3, <2>4, <2>5, <2>6
  <1> QED
    BY <1>3, <1>4

\* What holds of an event whose acknowledgements up to pn have been counted.
Midway(e, acks, lost, pn, time) ==
    /\ e = [fields |-> e.fields, ring |-> e.ring, best |-> e.best]
    /\ e.fields \in Fields /\ RingOf(e.ring, Points)
    /\ e.fields.sent = b.sent /\ e.fields.lost = lost
    /\ e.fields.acked = b.acked + Cardinality({a \in acks \cap Known : a <= pn})
    /\ e.fields.endOfAppLimited = b.endOfAppLimited
    /\ e.fields.ackedAfterLastEvent = b.ackedAfterLastEvent
    /\ e.fields.lastAckedSentTime = b.lastAckedSentTime \/ e.fields.acked # b.acked
    /\ RecentOK(e.fields.recent, e.fields.acked, time)
    /\ InOrder(e.ring, e.fields.recent)
    /\ ~conservative => RingLen(e.ring) = 0
    /\ RingLen(e.ring) > 0 <=> RingLen(candidates) > 0
    /\ RingLen(e.ring) > 0 =>
           \A p \in Known : p > largest /\ p > pn /\ Sampleable(p) => RingAt(e.ring, 0).acked <= SlotOf(queue, p).acked
    /\ ~e.fields.appLimited => \/ b.endOfAppLimited = InvalidPacket \/ largest > b.endOfAppLimited
                               \/ \E a \in acks : a <= pn /\ a > b.endOfAppLimited
    /\ SampleOK(e.best)
    /\ acks = {} => e.ring = candidates

\* One sample more.
LEMMA SampledIs ==
    ASSUME NEW e, NEW entry \in Entries, NEW a0 \in Points, NEW ring, NEW fields \in Fields, NEW time \in Nat,
           SampleOK(e.best), a0.acked < fields.acked, fields.lastAcked > largest => a0.acked <= entry.acked
    PROVE  /\ Sampled(e, entry, a0, ring, fields, time).fields = fields
           /\ Sampled(e, entry, a0, ring, fields, time).ring = ring
           /\ SampleOK(Sampled(e, entry, a0, ring, fields, time).best)
           /\ Sampled(e, entry, a0, ring, fields, time) =
                  [fields |-> fields, ring |-> ring, best |-> Sampled(e, entry, a0, ring, fields, time).best]
  <1> DEFINE s == Sampled(e, entry, a0, ring, fields, time)
  <1>1. PICK rate : s = [fields |-> fields, ring |-> ring,
            best |-> IF time <= a0.time \/ rate <= e.best.bandwidth THEN e.best
                     ELSE [bandwidth |-> rate, appLimited |-> entry.appLimited, a0 |-> a0,
                           ackedAtSend |-> entry.acked, newest |-> fields.lastAcked > largest,
                           ackedBytes |-> fields.acked - a0.acked, ticks |-> time - a0.time]]
    BY DEF Sampled
  <1> HIDE DEF s
  <1>2. s.fields = fields /\ s.ring = ring /\ s = [fields |-> fields, ring |-> ring, best |-> s.best]
    BY <1>1
  <1>3. SampleOK(s.best)
    <2>1. CASE time <= a0.time \/ rate <= e.best.bandwidth
      <3>1. s.best = e.best
        BY <1>1, <2>1
      <3> QED
        BY <3>1
    <2>2. CASE ~(time <= a0.time \/ rate <= e.best.bandwidth)
      <3>1. /\ s.best.ticks = time - a0.time /\ s.best.ackedBytes = fields.acked - a0.acked
            /\ s.best.newest = (fields.lastAcked > largest)
            /\ s.best.a0 = a0 /\ s.best.ackedAtSend = entry.acked
        BY <1>1, <2>2
      <3>2. a0.time \in Nat /\ a0.acked \in Nat /\ fields.acked \in Nat
        BY DEF Points, Fields
      <3>3. s.best.ticks > 0 /\ s.best.ackedBytes > 0
        BY <2>2, <3>1, <3>2
      <3>4. ~s.best.newest \/ s.best.a0.acked <= s.best.ackedAtSend
        BY <3>1
      <3> QED
        BY <3>3, <3>4 DEF SampleOK
    <2> QED
      BY <2>1, <2>2
  <1> QED
    BY <1>2, <1>3 DEF s

\* One acknowledged packet more that the sampler was told of.
LEMMA AckStep ==
    ASSUME SInv, NEW acks \in SUBSET DOMAIN sentAt, NEW lost, NEW pn \in acks \cap Known, NEW time \in Nat \ {0}, NEW e,
           Midway(e, acks, lost, pn - 1, time)
    PROVE  Midway(OnPacketAcknowledged(e, pn, time), acks, lost, pn, time)
  <1> DEFINE entry == SlotOf(queue, pn)
             f == e.fields
             g == AckedFields(f, entry, pn, time)
             c == Chosen(e, entry)
             s == OnPacketAcknowledged(e, pn, time)
  <1>1. STypes /\ Tracked /\ Lines
    BY DEF SInv
  <1>2. pn \in Known /\ pn \in Nat /\ \A p \in DOMAIN sentAt : p \in Nat
    BY <1>1, InFlight
  <1>20. \A p \in Known : p \in Nat
    BY <1>1, <1>2, InFlight
  <1>3. entry \in Entries /\ entry # Absent /\ GetEntry(queue, pn) = entry
    BY <1>1, <1>2, EntryInFlight
  <1>4. f \in Fields /\ RingOf(e.ring, Points) /\ RecentOK(f.recent, f.acked, time) /\ InOrder(e.ring, f.recent)
    BY DEF Midway
  <1>5. /\ g \in Fields /\ g.sent = f.sent /\ g.lost = f.lost /\ g.acked = f.acked + 1 /\ g.lastAcked = pn
        /\ g.endOfAppLimited = f.endOfAppLimited /\ g.ackedAfterLastEvent = f.ackedAfterLastEvent
        /\ ~g.appLimited => ~f.appLimited \/ f.endOfAppLimited = InvalidPacket \/ pn > f.endOfAppLimited
        /\ RecentOK(g.recent, f.acked + 1, time)
        /\ NotBeyond(LessRecent(f.recent), LessRecent(g.recent))
    BY <1>2, <1>3, <1>4, AckedFieldsAre
  <1>6. s = IF entry.lastAckedSentTime = 0 THEN [e EXCEPT !.fields = g]
            ELSE Sampled(e, entry, c.a0, c.ring, g, time)
    BY <1>3, AckIs
  <1>7. Cardinality({a \in acks \cap Known : a <= pn}) = Cardinality({a \in acks \cap Known : a <= pn - 1}) + 1
    <2> DEFINE S == {a \in acks \cap Known : a <= pn - 1}
    <2>1. {a \in acks \cap Known : a <= pn} = S \cup {pn} /\ pn \notin S
      BY <1>2
    <2>2. IsFiniteSet(S)
      <3>1. S \subseteq DOMAIN sentAt
        OBVIOUS
      <3>2. IsFiniteSet(DOMAIN sentAt)
        BY <1>1, InFlight
      <3> QED
        BY <3>1, <3>2, FS_Subset
    <2> HIDE DEF S
    <2>3. Cardinality(S \cup {pn}) = Cardinality(S) + 1
      BY <2>1, <2>2, FS_AddElement
    <2> QED
      BY <2>1, <2>3 DEF S
  <1>8. /\ b.acked \in Nat /\ f.acked \in Nat
        /\ f.acked = b.acked + Cardinality({a \in acks \cap Known : a <= pn - 1})
        /\ Cardinality({a \in acks \cap Known : a <= pn - 1}) \in Nat
    <2>1. IsFiniteSet({a \in acks \cap Known : a <= pn - 1})
      <3>1. {a \in acks \cap Known : a <= pn - 1} \subseteq DOMAIN sentAt
        OBVIOUS
      <3>2. IsFiniteSet(DOMAIN sentAt)
        BY <1>1, InFlight
      <3> QED
        BY <3>1, <3>2, FS_Subset
    <2>2. b.acked \in Nat /\ f.acked \in Nat
      BY <1>1, <1>4 DEF STypes, Fields
    <2> QED
      BY <2>1, <2>2, FS_CardinalityType DEF Midway
  <1>9. g.acked = b.acked + Cardinality({a \in acks \cap Known : a <= pn}) /\ g.acked # b.acked
    BY <1>5, <1>7, <1>8
  <1>10. /\ c.a0 \in Points /\ c.a0.acked <= f.acked
         /\ RingOf(c.ring, Points) /\ InOrder(c.ring, f.recent)
         /\ RingLen(e.ring) > 0 <=> RingLen(c.ring) > 0
         /\ c.a0.acked <= entry.acked \/ (RingLen(e.ring) > 0 /\ c.a0 = RingAt(e.ring, 0))
         /\ RingLen(e.ring) > 0 => \/ RingAt(c.ring, 0).acked <= entry.acked
                                   \/ RingAt(c.ring, 0) = RingAt(e.ring, 0)
    <2>1. entry.acked \in Nat /\ entry.acked <= b.acked
      BY <1>1, <1>2, <1>3 DEF Lines, Entries
    <2>2. entry.acked <= f.acked
      BY <1>8, <2>1
    <2>3. f.recent[2].acked <= f.acked /\ f.recent[1].acked <= f.recent[2].acked
      BY <1>4 DEF RecentOK
    <2>4. ~conservative => RingLen(e.ring) = 0
      BY DEF Midway
    <2> HIDE DEF entry, f
    <2> QED
      BY <1>3, <1>4, <2>2, <2>3, <2>4, ChosenIs DEF f
  <1>11. InOrder(e.ring, g.recent) /\ InOrder(c.ring, g.recent)
    <2> HIDE DEF g, c
    <2> QED
      BY <1>4, <1>5, <1>10, StaysInOrder
  <1>12. ~g.appLimited => \/ b.endOfAppLimited = InvalidPacket \/ largest > b.endOfAppLimited
                          \/ \E a \in acks : a <= pn /\ a > b.endOfAppLimited
    <2> SUFFICES ASSUME ~g.appLimited, b.endOfAppLimited # InvalidPacket, ~(largest > b.endOfAppLimited)
                 PROVE  \E a \in acks : a <= pn /\ a > b.endOfAppLimited
      OBVIOUS
    <2>1. f.endOfAppLimited = b.endOfAppLimited
      BY DEF Midway
    <2>2. CASE pn > f.endOfAppLimited
      BY <1>2, <2>1, <2>2
    <2>3. CASE ~f.appLimited
      <3>1. PICK a \in acks : a <= pn - 1 /\ a > b.endOfAppLimited
        BY <2>3 DEF Midway
      <3>2. a \in Nat
        BY <1>2
      <3> QED
        BY <1>2, <3>1, <3>2
    <2> QED
      BY <1>5, <2>1, <2>2, <2>3
  <1>13. \A p \in Known : p > pn =>
             /\ entry.acked <= SlotOf(queue, p).acked
             /\ entry.acked \in Nat /\ SlotOf(queue, p).acked \in Nat
    <2>1. \A p \in Known : SlotOf(queue, p) \in Entries
      BY <1>1, EntryInFlight
    <2>2. \A p \in Known : SlotOf(queue, p).acked \in Nat
      BY <2>1 DEF Entries
    <2>3. \A p \in Known : p > pn => pn < p
      BY <1>2, <1>20
    <2> QED
      BY <1>1, <1>2, <2>2, <2>3 DEF Lines
  <1>14. ASSUME NEW ring, RingOf(ring, Points), RingLen(ring) > 0, RingLen(e.ring) > 0,
                \/ RingAt(ring, 0).acked <= entry.acked
                \/ RingAt(ring, 0) = RingAt(e.ring, 0),
                NEW p \in Known, p > largest, p > pn, Sampleable(p)
         PROVE  RingAt(ring, 0).acked <= SlotOf(queue, p).acked
    <2>1. p > pn - 1
      BY <1>2, <1>20, <1>14
    <2>2. RingAt(e.ring, 0).acked <= SlotOf(queue, p).acked
      BY <1>14, <2>1 DEF Midway
    <2>3. RingAt(ring, 0) \in Points
      <3>1. RingLen(ring) \in Nat /\ 0 \in 0 .. RingLen(ring) - 1
        BY <1>14, RingLenType
      <3> QED
        BY <1>14, <3>1, RingLenType
    <2>4. RingAt(ring, 0).acked \in Nat
      BY <2>3 DEF Points
    <2> HIDE DEF entry
    <2> QED
      BY <1>13, <1>14, <2>2, <2>4
  <1>15. ASSUME NEW ring, RingOf(ring, Points), InOrder(ring, g.recent),
                RingLen(e.ring) > 0 <=> RingLen(ring) > 0,
                RingLen(e.ring) > 0 => \/ RingAt(ring, 0).acked <= entry.acked
                                       \/ RingAt(ring, 0) = RingAt(e.ring, 0),
                s = [fields |-> g, ring |-> ring, best |-> s.best], SampleOK(s.best)
         PROVE  Midway(s, acks, lost, pn, time)
    <2> HIDE DEF s, g, entry
    <2>1. s.fields = g /\ s.ring = ring /\ s = [fields |-> s.fields, ring |-> s.ring, best |-> s.best]
      BY <1>15
    <2>2. g.sent = b.sent /\ g.lost = lost /\ g.endOfAppLimited = b.endOfAppLimited
      BY <1>5 DEF Midway
    <2>3. RecentOK(g.recent, g.acked, time)
      BY <1>5
    <2>4. /\ ~conservative => RingLen(ring) = 0
          /\ RingLen(ring) > 0 <=> RingLen(candidates) > 0
      <3>1. RingLen(ring) \in Nat /\ RingLen(e.ring) \in Nat
        BY <1>4, <1>15, RingLenType
      <3> QED
        BY <1>15, <3>1 DEF Midway
    <2>5. RingLen(ring) > 0 =>
              \A p \in Known : p > largest /\ p > pn /\ Sampleable(p) => RingAt(ring, 0).acked <= SlotOf(queue, p).acked
      BY <1>14, <1>15
    <2>7. g.ackedAfterLastEvent = b.ackedAfterLastEvent
      BY <1>5 DEF Midway
    <2>6. acks # {}
      OBVIOUS
    <2> QED
      BY <1>5, <1>9, <1>12, <1>15, <2>1, <2>2, <2>3, <2>4, <2>5, <2>6, <2>7 DEF Midway
  <1>16. CASE entry.lastAckedSentTime = 0
    <2>1. s = [e EXCEPT !.fields = g]
      BY <1>6, <1>16
    <2>2. e = [fields |-> e.fields, ring |-> e.ring, best |-> e.best] /\ SampleOK(e.best)
      BY DEF Midway
    <2> HIDE DEF s, g, entry, c
    <2>3. s = [fields |-> g, ring |-> e.ring, best |-> e.best]
      BY <2>1, <2>2
    <2>4. s.best = e.best
      BY <2>3
    <2>5. s = [fields |-> g, ring |-> e.ring, best |-> s.best] /\ SampleOK(s.best)
      BY <2>2, <2>3, <2>4
    <2>6. RingOf(e.ring, Points) /\ InOrder(e.ring, g.recent)
      BY <1>4, <1>11
    <2>7. Midway(s, acks, lost, pn, time)
      BY <1>15, <2>5, <2>6, Zenon
    <2> QED
      BY <2>7 DEF s
  <1>17. CASE entry.lastAckedSentTime # 0
    <2>1. s = Sampled(e, entry, c.a0, c.ring, g, time)
      BY <1>6, <1>17
    <2>2. SampleOK(e.best)
      BY DEF Midway
    <2>3. c.a0.acked < g.acked
      <3>1. c.a0.acked \in Nat
        BY <1>10 DEF Points
      <3> QED
        BY <1>5, <1>8, <1>10, <3>1
    <2>4. g.lastAcked > largest => c.a0.acked <= entry.acked
      <3> SUFFICES ASSUME pn > largest, RingLen(e.ring) > 0
                   PROVE  RingAt(e.ring, 0).acked <= entry.acked
        BY <1>5, <1>10
      <3>1. pn > pn - 1
        BY <1>2
      <3>2. Sampleable(pn)
        BY <1>2, <1>17 DEF Sampleable
      <3> QED
        BY <1>2, <3>1, <3>2 DEF Midway
    <2> HIDE DEF s, g, entry, c
    <2>5. entry \in Entries /\ c.a0 \in Points /\ g \in Fields /\ time \in Nat
      BY <1>3, <1>5, <1>10
    <2>6. /\ SampleOK(s.best)
          /\ s = [fields |-> g, ring |-> c.ring, best |-> s.best]
      <3> DEFINE m == Sampled(e, entry, c.a0, c.ring, g, time)
      <3>1. SampleOK(m.best) /\ m = [fields |-> g, ring |-> c.ring, best |-> m.best]
        <4> HIDE DEF f
        <4> QED
          BY <2>2, <2>3, <2>4, <2>5, SampledIs
      <3> HIDE DEF m
      <3> QED
        BY <2>1, <3>1 DEF m
    <2>7. /\ RingOf(c.ring, Points) /\ InOrder(c.ring, g.recent)
          /\ RingLen(e.ring) > 0 <=> RingLen(c.ring) > 0
          /\ RingLen(e.ring) > 0 => \/ RingAt(c.ring, 0).acked <= entry.acked
                                    \/ RingAt(c.ring, 0) = RingAt(e.ring, 0)
      BY <1>10, <1>11
    <2>8. Midway(s, acks, lost, pn, time)
      BY <1>15, <2>6, <2>7, Zenon
    <2> QED
      BY <2>8 DEF s
  <1> QED
    BY <1>16, <1>17

\* The largest acknowledged packet after an event.
LEMMA LargestIs ==
    ASSUME STypes, NEW acks \in SUBSET DOMAIN sentAt
    PROVE  /\ LargestAcked(acks) \in Nat \cup {-1} /\ LargestAcked(acks) < next
           /\ LargestAcked(acks) = largest \/ LargestAcked(acks) \in acks
           /\ LargestAcked(acks) >= largest /\ \A a \in acks : a <= LargestAcked(acks)
  <1> DEFINE S == acks \cup {largest}
  <1>1. next \in Nat /\ largest \in Nat \cup {-1} /\ largest < next /\ DOMAIN sentAt \subseteq 0 .. next - 1
    BY DEF STypes
  <1>2. \A a \in acks : a \in Nat /\ a <= next - 1
    BY <1>1
  <1>3. S \subseteq {x \in Int : x <= next - 1} /\ S # {}
    BY <1>1, <1>2
  <1>4. next - 1 \in Int
    BY <1>1
  <1> HIDE DEF S
  <1>5. Max(S) \in S /\ \A x \in S : x <= Max(S)
    BY <1>3, <1>4, MaxIs
  <1>6. LargestAcked(acks) = Max(S)
    BY DEF LargestAcked, S
  <1> QED
    BY <1>1, <1>2, <1>5, <1>6 DEF S

\* A number that is not acknowledged, or was not told of, changes nothing.
LEMMA SkipStep ==
    ASSUME STypes, NEW acks \in SUBSET DOMAIN sentAt, NEW lost, NEW pn \in Nat, pn \notin acks \cap Known,
           NEW time, NEW e,
           Midway(e, acks, lost, pn - 1, time)
    PROVE  Midway(e, acks, lost, pn, time)
  <1>1. \A p \in DOMAIN sentAt : p \in Nat
    BY InFlight
  <1>2. {a \in acks \cap Known : a <= pn} = {a \in acks \cap Known : a <= pn - 1}
    BY <1>1
  <1>3. \A p \in Known : p > pn => p > pn - 1
    BY <1>1, InFlight
  <1>4. \A a \in acks : a <= pn - 1 => a <= pn
    BY <1>1
  <1>5. RingLen(e.ring) > 0 =>
           \A p \in Known : p > largest /\ p > pn /\ Sampleable(p) => RingAt(e.ring, 0).acked <= SlotOf(queue, p).acked
    BY <1>3 DEF Midway
  <1>6. ~e.fields.appLimited => \/ b.endOfAppLimited = InvalidPacket \/ largest > b.endOfAppLimited
                                \/ \E a \in acks : a <= pn /\ a > b.endOfAppLimited
    BY <1>4 DEF Midway
  <1> QED
    BY <1>2, <1>5, <1>6 DEF Midway

\* One acknowledged packet more that was sent before the sampler was installed: its number is noted.
LEMMA StrangerStep ==
    ASSUME SInv, NEW acks \in SUBSET DOMAIN sentAt, NEW lost, NEW pn \in acks \ Known, NEW time, NEW e,
           Midway(e, acks, lost, pn - 1, time)
    PROVE  Midway(OnPacketAcknowledged(e, pn, time), acks, lost, pn, time)
  <1> DEFINE f == e.fields
             g == [f EXCEPT !.lastAcked = pn]
             s == OnPacketAcknowledged(e, pn, time)
  <1>1. STypes /\ Tracked
    BY DEF SInv
  <1>2. pn \in DOMAIN sentAt \ Known /\ pn \in Nat /\ pn \in Int
    BY <1>1, InFlight
  <1>3. GetEntry(queue, pn) = Absent
    BY <1>1, <1>2, NoEntry
  <1>4. s = [e EXCEPT !.fields.lastAcked = pn]
    BY <1>3 DEF OnPacketAcknowledged
  <1>5. Midway(e, acks, lost, pn, time)
    BY <1>1, <1>2, SkipStep
  <1>6. /\ e = [fields |-> e.fields, ring |-> e.ring, best |-> e.best]
        /\ f \in Fields
    BY <1>5 DEF Midway
  <1> HIDE DEF s
  <1>7. s = [fields |-> g, ring |-> e.ring, best |-> e.best]
    BY <1>4, <1>6
  <1> HIDE DEF f, g
  <1>8. /\ g \in Fields /\ g.sent = f.sent /\ g.lost = f.lost /\ g.acked = f.acked
        /\ g.endOfAppLimited = f.endOfAppLimited /\ g.ackedAfterLastEvent = f.ackedAfterLastEvent
        /\ g.lastAckedSentTime = f.lastAckedSentTime /\ g.recent = f.recent /\ g.appLimited = f.appLimited
    BY <1>2, <1>6 DEF Fields, g
  <1>9. /\ s.fields = g /\ s.ring = e.ring /\ s.best = e.best
        /\ s = [fields |-> s.fields, ring |-> s.ring, best |-> s.best]
    BY <1>7
  <1>10. Midway(s, acks, lost, pn, time)
    BY <1>5, <1>8, <1>9 DEF Midway, f
  <1> QED
    BY <1>10 DEF s

\* The loop over the acknowledged packets: its function exists, and carries Midway to the last.
LEMMA AcknowledgedIs ==
    ASSUME SInv, NEW acks \in SUBSET DOMAIN sentAt, NEW lost, NEW time \in Nat \ {0}, NEW begin,
           Midway(begin, acks, lost, -1, time)
    PROVE  Midway(Acknowledged(begin, acks, time), acks, lost, LargestAcked(acks), time)
  <1> DEFINE L == LargestAcked(acks)
             One(e, pn) == IF pn \in acks THEN OnPacketAcknowledged(e, pn, time) ELSE e
             F(f, m) == [pn \in -1 .. m |->
                            IF pn = -1 THEN begin
                            ELSE IF pn \in acks THEN OnPacketAcknowledged(f[pn - 1], pn, time) ELSE f[pn - 1]]
             G(f, m) == [pn \in -1 .. m |-> IF pn = -1 THEN begin ELSE One(f[pn - 1], pn)]
             made == {n \in Nat : \E f : f = G(f, n - 1)}
             event == CHOOSE f : f = F(f, L)
  <1>0. \A f, m : F(f, m) = G(f, m)
    OBVIOUS
  <1>1. L \in Nat \cup {-1} /\ STypes
    BY LargestIs DEF SInv
  <1>2. Acknowledged(begin, acks, time) = event[L]
    BY DEF Acknowledged
  <1>3. ASSUME NEW n \in Nat, n \in made
        PROVE  n + 1 \in made
    <2> HIDE DEF One
    <2>1. PICK f : f = G(f, n - 1)
      BY <1>3
    <2> DEFINE g == [pn \in -1 .. n |-> IF pn = n THEN One(f[n - 1], n) ELSE f[pn]]
    <2>2. ASSUME NEW pn \in -1 .. n
          PROVE  g[pn] = IF pn = -1 THEN begin ELSE One(g[pn - 1], pn)
      <3>1. CASE pn = n
        <4>1. pn # -1 /\ pn - 1 = n - 1 /\ n - 1 \in -1 .. n /\ n - 1 # n
          BY <3>1
        <4>2. g[pn - 1] = f[n - 1]
          BY <4>1
        <4> QED
          BY <3>1, <4>1, <4>2
      <3>2. CASE pn # n
        <4>1. pn \in -1 .. n - 1
          BY <3>2
        <4>2. f[pn] = IF pn = -1 THEN begin ELSE One(f[pn - 1], pn)
          BY <2>1, <4>1
        <4>3. pn # -1 => pn - 1 \in -1 .. n /\ pn - 1 # n
          BY <4>1
        <4>4. pn # -1 => g[pn - 1] = f[pn - 1]
          BY <4>3
        <4> QED
          BY <3>2, <4>2, <4>4
      <3> QED
        BY <3>1, <3>2
    <2>3. (n + 1) - 1 = n
      OBVIOUS
    <2>4. g = G(g, n)
      <3>1. g = [pn \in -1 .. n |-> g[pn]]
        OBVIOUS
      <3> HIDE DEF g
      <3> QED
        BY <2>2, <3>1
    <2> HIDE DEF G, g
    <2> QED
      BY <2>3, <2>4
  <1>4. 0 \in made
    <2> DEFINE f == [pn \in -1 .. -1 |-> begin]
    <2>1. \A pn \in -1 .. -1 : pn = -1
      OBVIOUS
    <2>2. f = G(f, -1)
      <3> HIDE DEF One
      <3> QED
        BY <2>1
    <2>3. 0 - 1 = -1
      OBVIOUS
    <2> HIDE DEF f, G
    <2> QED
      BY <2>2, <2>3
  <1>5. event = G(event, L)
    <2>1. L + 1 \in Nat /\ (L + 1) - 1 = L
      BY <1>1
    <2>2. L + 1 \in made
      <3> HIDE DEF made
      <3> QED
        BY <1>3, <1>4, <2>1, Induction
    <2>3. \E f : f = G(f, L)
      <3> HIDE DEF G
      <3> QED
        BY <2>1, <2>2
    <2>4. \E f : f = F(f, L)
      <3> HIDE DEF F, G
      <3> QED
        BY <1>0, <2>3
    <2>5. event = F(event, L)
      <3> HIDE DEF F
      <3> QED
        BY <2>4
    <2> HIDE DEF F, G, event
    <2> QED
      BY <1>0, <2>5
  <1> HIDE DEF event
  <1>6. event[-1] = begin /\ \A pn \in 0 .. L : event[pn] = One(event[pn - 1], pn)
    <2> HIDE DEF One
    <2>1. \A pn \in -1 .. L : event[pn] = IF pn = -1 THEN begin ELSE One(event[pn - 1], pn)
      BY <1>5
    <2>2. -1 \in -1 .. L /\ \A pn \in 0 .. L : pn \in -1 .. L /\ pn # -1
      BY <1>1
    <2> QED
      BY <2>1, <2>2
  <1> HIDE DEF F, G, made, L
  <1> DEFINE T == {n \in Nat : n - 1 <= L => Midway(event[n - 1], acks, lost, n - 1, time)}
  <1>7. 0 \in T
    <2>1. 0 - 1 = -1
      OBVIOUS
    <2> QED
      BY <1>6, <2>1
  <1>8. ASSUME NEW n \in Nat, n <= L, Midway(event[n - 1], acks, lost, n - 1, time)
        PROVE  Midway(event[n], acks, lost, n, time)
    <2>1. n \in 0 .. L
      BY <1>1, <1>8
    <2>2. event[n] = One(event[n - 1], n)
      BY <1>6, <2>1
    <2>3. CASE n \in acks
      <3>1. event[n] = OnPacketAcknowledged(event[n - 1], n, time)
        BY <2>2, <2>3
      <3>2. Midway(OnPacketAcknowledged(event[n - 1], n, time), acks, lost, n, time)
        <4>1. CASE n \in Known
          BY <1>8, <2>3, <4>1, AckStep
        <4>2. CASE n \notin Known
          BY <1>8, <2>3, <4>2, StrangerStep
        <4> QED
          BY <4>1, <4>2
      <3> QED
        BY <3>1, <3>2
    <2>4. CASE n \notin acks
      <3>1. event[n] = event[n - 1]
        BY <2>2, <2>4
      <3>2. Midway(event[n - 1], acks, lost, n, time)
        BY <1>1, <1>8, <2>4, SkipStep
      <3> QED
        BY <3>1, <3>2
    <2> QED
      BY <2>3, <2>4
  <1>9. \A n \in Nat : n \in T => n + 1 \in T
    <2> SUFFICES ASSUME NEW n \in Nat, n \in T, n <= L
                 PROVE  Midway(event[n], acks, lost, n, time)
      <3>1. \A n \in Nat : (n + 1) - 1 = n
        OBVIOUS
      <3> QED
        BY <3>1
    <2>1. n - 1 <= L
      BY <1>1
    <2> QED
      BY <1>8, <2>1
  <1>10. L + 1 \in T
    <2>1. L + 1 \in Nat
      BY <1>1
    <2> HIDE DEF T
    <2> QED
      BY <1>7, <1>9, <2>1, Induction
  <1>11. Midway(event[L], acks, lost, L, time)
    <2>1. (L + 1) - 1 = L /\ L <= L
      BY <1>1
    <2> QED
      BY <1>10, <2>1
  <1> QED
    BY <1>2, <1>11 DEF L

\* What the sender calls obsolete is never in flight: quic-go has declared lost what is three
\* behind, and by time it declares lost from the oldest on.
LEMMA LeastIs ==
    ASSUME STypes, NEW acks \in SUBSET DOMAIN sentAt, NEW losses \in SUBSET (DOMAIN sentAt \ acks),
           acks \cup losses # {}, MayBeLost(losses, acks)
    PROVE  /\ LeastUnacked(acks, losses) \in Int
           /\ \A p \in DOMAIN sentAt \ (acks \cup losses) : p >= LeastUnacked(acks, losses)
  <1>1. next \in Nat /\ next - 1 \in Int /\ \A p \in DOMAIN sentAt : p \in Nat /\ p <= next - 1
    <2>1. next \in Nat /\ DOMAIN sentAt \subseteq 0 .. next - 1
      BY DEF STypes
    <2> QED
      BY <2>1
  <1>2. CASE acks # {}
    <2>1. acks \subseteq {x \in Int : x <= next - 1}
      BY <1>1
    <2>2. Max(acks) \in acks
      BY <1>1, <1>2, <2>1, MaxIs
    <2>3. /\ Max(acks) \in Nat /\ LargestAcked(acks) \in Int /\ Max(acks) <= LargestAcked(acks)
      BY <1>1, <2>2, LargestIs
    <2>4. LeastUnacked(acks, losses) = Max(acks) - 2
      BY <1>2 DEF LeastUnacked
    <2>5. ASSUME NEW p \in DOMAIN sentAt \ (acks \cup losses)
          PROVE  p >= Max(acks) - 2
      <3>1. p \in DOMAIN sentAt \ acks /\ p \notin losses /\ p \in Nat
        BY <1>1
      <3>2. ~(p <= LargestAcked(acks) - PacketThreshold)
        BY <3>1 DEF MayBeLost
      <3>3. PacketThreshold \in 1 .. 3
        BY SamplerAssumption
      <3> QED
        BY <2>3, <3>1, <3>2, <3>3
    <2> QED
      BY <2>3, <2>4, <2>5
  <1>3. CASE acks = {}
    <2>1. losses \subseteq {x \in Int : x <= next - 1} /\ losses # {}
      BY <1>1, <1>3
    <2>2. Max(losses) \in losses
      BY <1>1, <2>1, MaxIs
    <2>3. Max(losses) \in Nat
      BY <1>1, <2>2
    <2>4. LeastUnacked(acks, losses) = Max(losses) + 1
      BY <1>3 DEF LeastUnacked
    <2>5. ASSUME NEW p \in DOMAIN sentAt \ (acks \cup losses)
          PROVE  p >= Max(losses) + 1
      <3>1. p \in DOMAIN sentAt \ acks /\ p \notin losses /\ p \in Nat
        BY <1>1
      <3>2. ~(p < Max(losses))
        BY <2>2, <3>1 DEF MayBeLost
      <3>3. p # Max(losses)
        BY <2>2, <3>1
      <3> QED
        BY <2>3, <3>1, <3>2, <3>3
    <2> QED
      BY <2>3, <2>4, <2>5
  <1> QED
    BY <1>2, <1>3

\* Two parts of a finite set and the rest of it.
LEMMA Parts ==
    ASSUME NEW D, IsFiniteSet(D), NEW x \in SUBSET D, NEW y \in SUBSET D, x \cap y = {}
    PROVE  /\ Cardinality(x) \in Nat /\ Cardinality(y) \in Nat /\ Cardinality(D \ (x \cup y)) \in Nat
           /\ Cardinality(D) = Cardinality(x) + Cardinality(y) + Cardinality(D \ (x \cup y))
  <1> DEFINE left == D \ (x \cup y)
  <1>1. IsFiniteSet(x) /\ IsFiniteSet(y) /\ IsFiniteSet(left)
    <2>1. x \subseteq D /\ y \subseteq D /\ left \subseteq D
      OBVIOUS
    <2> QED
      BY <2>1, FS_Subset
  <1>2. IsFiniteSet(x \cup y)
    BY <1>1, FS_Union
  <1>3. (x \cup y) \cap left = {} /\ (x \cup y) \cup left = D
    OBVIOUS
  <1>4. Cardinality({}) = 0
    BY FS_EmptySet
  <1>5. /\ Cardinality(x) \in Nat /\ Cardinality(y) \in Nat /\ Cardinality(left) \in Nat
        /\ Cardinality(x \cup y) \in Nat /\ Cardinality(D) \in Nat
    BY <1>1, <1>2, FS_CardinalityType
  <1>6. Cardinality(x \cup y) = Cardinality(x) + Cardinality(y) - Cardinality(x \cap y)
    BY <1>1, FS_Union
  <1> HIDE DEF left
  <1>7. Cardinality((x \cup y) \cup left) =
            Cardinality(x \cup y) + Cardinality(left) - Cardinality((x \cup y) \cap left)
    BY <1>1, <1>2, FS_Union
  <1>8. Cardinality(x \cap y) = 0
    BY <1>4, Zenon
  <1>9. Cardinality((x \cup y) \cap left) = 0
    BY <1>3, <1>4, Zenon
  <1>10. Cardinality(D) = Cardinality(x \cup y) + Cardinality(left) - Cardinality((x \cup y) \cap left)
    BY <1>3, <1>7, Zenon
  <1>11. Cardinality(D) = Cardinality(x) + Cardinality(y) + Cardinality(left)
    BY <1>5, <1>6, <1>8, <1>9, <1>10
  <1> QED
    BY <1>5, <1>11 DEF left

\* Of the packets told of that were in flight, each is acknowledged, lost or left.
LEMMA Counts ==
    ASSUME STypes, NEW acks \in SUBSET DOMAIN sentAt, NEW losses \in SUBSET (DOMAIN sentAt \ acks)
    PROVE  /\ Cardinality(losses) \in Nat /\ Cardinality(losses \ Known) \in Nat
           /\ Cardinality(acks \cap Known) \in Nat /\ Cardinality(Known \ (acks \cup losses)) \in Nat
           /\ Cardinality(Known) + Cardinality(losses \ Known) =
                  Cardinality(acks \cap Known) + Cardinality(losses) + Cardinality(Known \ (acks \cup losses))
  <1> DEFINE x == acks \cap Known
             y == losses \cap Known
  <1>1. IsFiniteSet(Known) /\ Cardinality(Known) \in Nat /\ IsFiniteSet(losses)
    <2>1. IsFiniteSet(DOMAIN sentAt) /\ losses \subseteq DOMAIN sentAt
      BY InFlight
    <2> QED
      BY <2>1, InFlight, FS_Subset
  <1>2. x \in SUBSET Known /\ y \in SUBSET Known /\ x \cap y = {} /\ Known \ (x \cup y) = Known \ (acks \cup losses)
    OBVIOUS
  <1> HIDE DEF x, y
  <1>3. /\ Cardinality(x) \in Nat /\ Cardinality(y) \in Nat /\ Cardinality(Known \ (acks \cup losses)) \in Nat
        /\ Cardinality(Known) = Cardinality(x) + Cardinality(y) + Cardinality(Known \ (acks \cup losses))
    <2>1. /\ Cardinality(x) \in Nat /\ Cardinality(y) \in Nat /\ Cardinality(Known \ (x \cup y)) \in Nat
          /\ Cardinality(Known) = Cardinality(x) + Cardinality(y) + Cardinality(Known \ (x \cup y))
      BY <1>1, <1>2, Parts
    <2> QED
      BY <1>2, <2>1
  <1>4. Cardinality(losses) \in Nat /\ Cardinality(losses \ Known) \in Nat
    BY <1>1, FS_Difference, FS_CardinalityType
  <1>5. Cardinality(losses) = Cardinality(y) + Cardinality(losses \ Known)
    <2>1. Cardinality(losses \ Known) = Cardinality(losses) - Cardinality(y)
      BY <1>1, FS_Difference DEF y
    <2> QED
      BY <1>3, <1>4, <2>1
  <1> QED
    BY <1>1, <1>3, <1>4, <1>5 DEF x

\* A point that is not before the others comes to the back.
LEMMA PushedInOrder ==
    ASSUME NEW ring, RingOf(ring, Points), NEW f \in Fields, InOrder(ring, f.recent)
    PROVE  /\ RingOf(PushBack(ring, LessRecent(f.recent), NoPoint), Points)
           /\ RingLen(PushBack(ring, LessRecent(f.recent), NoPoint)) > 0
           /\ RingLen(ring) > 0 => RingAt(PushBack(ring, LessRecent(f.recent), NoPoint), 0) = RingAt(ring, 0)
           /\ InOrder(PushBack(ring, LessRecent(f.recent), NoPoint), f.recent)
  <1> DEFINE new == LessRecent(f.recent)
             r == PushBack(ring, new, NoPoint)
  <1>1. PICK len \in Nat : len = RingLen(ring)
    BY RingLenType
  <1>2. new \in Points
    BY RecentType
  <1> HIDE DEF new
  <1>3. /\ RingOf(r, Points) /\ RingLen(r) = len + 1 /\ RingAt(r, len) = new
        /\ \A i \in 0 .. len - 1 : RingAt(r, i) = RingAt(ring, i)
    BY <1>1, <1>2, PointsAre, PushBackIs
  <1> HIDE DEF r
  <1>4. RingLen(ring) > 0 => RingAt(r, 0) = RingAt(ring, 0)
    BY <1>1, <1>3
  <1>5. \A i \in 0 .. len - 1 : NotBeyond(RingAt(ring, i), new)
    BY <1>1 DEF InOrder, new
  <1>6. NotBeyond(new, new)
    BY <1>2 DEF NotBeyond, Points
  <1>7. \A i \in 0 .. RingLen(r) - 1 : NotBeyond(RingAt(r, i), new)
    <2> SUFFICES ASSUME NEW i \in 0 .. len
                 PROVE  NotBeyond(RingAt(r, i), new)
      BY <1>3
    <2>1. i = len \/ i \in 0 .. len - 1
      OBVIOUS
    <2> QED
      BY <1>3, <1>5, <1>6, <2>1
  <1>8. \A i \in 0 .. RingLen(r) - 2 : NotBeyond(RingAt(r, i), RingAt(r, i + 1))
    <2> SUFFICES ASSUME NEW i \in 0 .. len - 1
                 PROVE  NotBeyond(RingAt(r, i), RingAt(r, i + 1))
      BY <1>3
    <2>1. CASE i + 1 = len
      BY <1>3, <1>5, <2>1
    <2>2. CASE i + 1 # len
      <3>1. i \in 0 .. len - 2 /\ i + 1 \in 0 .. len - 1
        BY <2>2
      <3>2. NotBeyond(RingAt(ring, i), RingAt(ring, i + 1))
        BY <1>1, <3>1 DEF InOrder
      <3> QED
        BY <1>3, <3>1, <3>2
    <2> QED
      BY <2>1, <2>2
  <1> QED
    BY <1>3, <1>4, <1>7, <1>8 DEF InOrder, new, r

\* What the end of an event leaves of the fields and the candidates.
LEMMA EndIs ==
    ASSUME NEW e, e.fields \in Fields, NEW maxBandwidth, NEW count, AckEventEnd(e, maxBandwidth, count)
    PROVE  /\ b' \in Fields /\ b'.sent = e.fields.sent /\ b'.acked = e.fields.acked /\ b'.lost = e.fields.lost
           /\ b'.appLimited = e.fields.appLimited /\ b'.endOfAppLimited = e.fields.endOfAppLimited
           /\ b'.recent = e.fields.recent
           /\ \/ candidates' = e.ring
              \/ conservative /\ candidates' = PushBack(e.ring, LessRecent(e.fields.recent), NoPoint)
           /\ e.fields.acked = e.fields.ackedAfterLastEvent =>
                  b' = e.fields /\ candidates' = e.ring /\ UNCHANGED heights
           /\ conservative /\ heights.start = 0 /\ e.fields.acked # e.fields.ackedAfterLastEvent =>
                  candidates' = PushBack(e.ring, LessRecent(e.fields.recent), NoPoint)
  <1> DEFINE f == e.fields
  <1>1. \/ b' = f /\ candidates' = e.ring
        \/ /\ b' = [f EXCEPT !.ackedAfterLastEvent = f.acked]
           /\ \/ candidates' = e.ring
              \/ conservative /\ candidates' = PushBack(e.ring, LessRecent(f.recent), NoPoint)
    BY DEF AckEventEnd
  <1>10. f \in Fields /\ f.acked \in Nat /\ f.ackedAfterLastEvent \in Nat
    BY DEF Fields
  <1>11. f.acked = f.ackedAfterLastEvent => b' = f /\ candidates' = e.ring /\ UNCHANGED heights
    BY <1>10 DEF AckEventEnd
  <1>12. conservative /\ heights.start = 0 /\ f.acked # f.ackedAfterLastEvent =>
             candidates' = PushBack(e.ring, LessRecent(f.recent), NoPoint)
    <2>1. \A rate, isNewMax, time, bytes :
              heights.start = 0 => TrackHeight(heights, rate, isNewMax, count, time, bytes).extra = 0
      BY DEF TrackHeight
    <2>2. f.acked # f.ackedAfterLastEvent => f.acked - f.ackedAfterLastEvent # 0
      BY <1>10
    <2> QED
      BY <2>1, <2>2 DEF AckEventEnd
  <1> HIDE DEF f
  <1>2. f \in Fields
    BY DEF f
  <1>3. CASE b' = f
    BY <1>1, <1>2, <1>3, <1>11, <1>12 DEF f
  <1>4. CASE b' = [f EXCEPT !.ackedAfterLastEvent = f.acked]
    <2>1. /\ b' \in Fields /\ b'.sent = f.sent /\ b'.acked = f.acked /\ b'.lost = f.lost
          /\ b'.appLimited = f.appLimited /\ b'.endOfAppLimited = f.endOfAppLimited
          /\ b'.recent = f.recent
      BY <1>2, <1>4 DEF Fields
    <2> QED
      BY <1>1, <1>11, <1>12, <2>1 DEF f
  <1> QED
    BY <1>1, <1>3, <1>4

\* An event begins from the sampler's fields with the losses counted.
LEMMA BeginIs ==
    ASSUME SInv, NEW acks \in SUBSET DOMAIN sentAt, NEW n \in Nat, NEW time \in Nat, time >= clock
    PROVE  Midway([fields |-> [b EXCEPT !.lost = b.lost + n], ring |-> candidates, best |-> None],
                  acks, b.lost + n, -1, time)
  <1> DEFINE f == [b EXCEPT !.lost = b.lost + n]
             e == [fields |-> f, ring |-> candidates, best |-> None]
  <1>1. STypes /\ Tracked /\ Lines
    BY DEF SInv
  <1>2. b \in Fields /\ RingOf(candidates, Points) /\ conservative \in BOOLEAN
    BY <1>1 DEF STypes
  <1>3. b.lost \in Nat /\ b.lost + n \in Nat /\ b.acked \in Nat
    BY <1>2 DEF Fields
  <1>4. /\ f \in Fields /\ f.sent = b.sent /\ f.acked = b.acked /\ f.lost = b.lost + n
        /\ f.appLimited = b.appLimited /\ f.endOfAppLimited = b.endOfAppLimited /\ f.recent = b.recent
        /\ f.ackedAfterLastEvent = b.ackedAfterLastEvent /\ f.lastAckedSentTime = b.lastAckedSentTime
    BY <1>2, <1>3 DEF Fields
  <1> HIDE DEF f
  <1>5. e.fields = f /\ e.ring = candidates /\ e.best = None
    OBVIOUS
  <1>6. e = [fields |-> e.fields, ring |-> e.ring, best |-> e.best]
    OBVIOUS
  <1> HIDE DEF e
  <1>7. f.acked = b.acked + Cardinality({a \in acks \cap Known : a <= -1})
    <2>1. \A p \in DOMAIN sentAt : p \in Nat
      BY <1>1, InFlight
    <2>2. {a \in acks \cap Known : a <= -1} = {}
      BY <2>1
    <2>3. Cardinality({a \in acks \cap Known : a <= -1}) = 0
      BY <2>2, FS_EmptySet
    <2> QED
      BY <1>3, <1>4, <2>3
  <1>8. RecentOK(f.recent, f.acked, time)
    <2>1. RecentOK(b.recent, b.acked, clock) /\ clock \in Nat
      BY <1>1 DEF Lines, STypes
    <2>2. b.recent[2].time \in Nat
      BY <1>2, RecentType DEF Points
    <2> QED
      BY <1>4, <2>1, <2>2 DEF RecentOK
  <1>9. InOrder(candidates, f.recent)
    BY <1>1, <1>4 DEF Lines
  <1>10. ~conservative => RingLen(candidates) = 0
    BY <1>1 DEF Lines
  <1>11. RingLen(candidates) > 0 =>
            \A p \in Known : p > largest /\ p > -1 /\ Sampleable(p) => RingAt(candidates, 0).acked <= SlotOf(queue, p).acked
    BY <1>1 DEF Lines
  <1>12. ~f.appLimited => b.endOfAppLimited = InvalidPacket \/ largest > b.endOfAppLimited
    BY <1>1, <1>4 DEF Lines
  <1> QED
    <2>1. Midway(e, acks, b.lost + n, -1, time)
      BY <1>2, <1>4, <1>5, <1>6, <1>7, <1>8, <1>9, <1>10, <1>11, <1>12, NoneIsOK DEF Midway
    <2> QED
      BY <2>1 DEF e, f

\* The types and the counts after an event.
LEMMA EventTracks ==
    ASSUME STypes, Tracked, NEW acks \in SUBSET DOMAIN sentAt, NEW losses \in SUBSET (DOMAIN sentAt \ acks),
           acks \cup losses # {}, MayBeLost(losses, acks), NEW time \in Nat \ {0},
           queue' = RemoveUpTo(queue, LeastUnacked(acks, losses)),
           sentAt' = [p \in DOMAIN sentAt \ (acks \cup losses) |-> sentAt[p]],
           largest' = LargestAcked(acks), clock' = time, conservative' = conservative, next' = next,
           strays' = [strays EXCEPT !.strange = strays.strange + Cardinality(losses \ Known)],
           b' \in Fields, RingOf(candidates', Points), b'.sent = b.sent,
           b'.acked = b.acked + Cardinality(acks \cap Known), b'.lost = b.lost + Cardinality(losses)
    PROVE  /\ STypes' /\ Tracked'
           /\ DOMAIN sentAt' \subseteq DOMAIN sentAt /\ Known' = Known \ (acks \cup losses)
           /\ \A p \in DOMAIN sentAt' : SlotOf(queue', p) = SlotOf(queue, p)
  <1>1. DOMAIN sentAt' = DOMAIN sentAt \ (acks \cup losses) /\ \A p \in DOMAIN sentAt' : sentAt'[p] = sentAt[p]
    OBVIOUS
  <1>2. QueueOf(queue, Entries) /\ LeastUnacked(acks, losses) \in Int
    BY LeastIs DEF STypes
  <1>3. /\ QueueOf(queue', Entries) /\ SameEnd(queue, queue')
        /\ \A p \in Int : SlotOf(queue', p) = IF p < LeastUnacked(acks, losses) THEN Absent ELSE SlotOf(queue, p)
    BY <1>2, RemoveIs
  <1>4. \A p \in DOMAIN sentAt : p \in Int
    BY InFlight
  <1>5. ASSUME NEW p \in DOMAIN sentAt'
        PROVE  SlotOf(queue', p) = SlotOf(queue, p)
    <2>1. p \in Int /\ p >= LeastUnacked(acks, losses)
      BY <1>1, <1>4, LeastIs
    <2>2. ~(p < LeastUnacked(acks, losses))
      BY <1>2, <2>1
    <2> QED
      BY <1>3, <2>1, <2>2
  <1>6. /\ strays \in [strange : Nat, silent : Nat] /\ strays' \in [strange : Nat, silent : Nat]
        /\ strays'.strange = strays.strange + Cardinality(losses \ Known) /\ strays'.silent = strays.silent
    <2>1. strays \in [strange : Nat, silent : Nat] /\ Cardinality(losses \ Known) \in Nat
      BY Counts DEF STypes
    <2>2. strays.strange + Cardinality(losses \ Known) \in Nat
      BY <2>1
    <2> QED
      BY <2>1, <2>2
  <1>7. Known' = Known \ (acks \cup losses)
    BY <1>1 DEF Known
  <1>8. STypes'
    <2>1. /\ largest' \in Nat \cup {-1} /\ largest' < next'
      BY LargestIs
    <2>2. sentAt \in [DOMAIN sentAt -> Nat] /\ DOMAIN sentAt \subseteq 0 .. next - 1
          /\ conservative \in BOOLEAN /\ next \in Nat
      BY DEF STypes
    <2>3. sentAt' \in [DOMAIN sentAt' -> Nat] /\ DOMAIN sentAt' \subseteq 0 .. next' - 1
      BY <1>1, <2>2
    <2> QED
      BY <1>3, <1>6, <2>1, <2>2, <2>3 DEF STypes
  <1>9. Tracked'
    <2>1. \A p \in DOMAIN sentAt' : SlotOf(queue', p).sentTime = sentAt'[p]
      BY <1>1, <1>5 DEF Tracked
    <2>2. RingLen(queue'.entries) > 0 => queue'.first + RingLen(queue'.entries) <= next'
      BY <1>3 DEF SameEnd, Tracked
    <2>3. b'.sent + strays'.strange = b'.acked + b'.lost + Cardinality(Known') + strays'.silent
      <3>1. /\ b.sent \in Nat /\ b.acked \in Nat /\ b.lost \in Nat /\ Cardinality(Known) \in Nat
            /\ strays.strange \in Nat /\ strays.silent \in Nat
        BY <1>6, InFlight DEF STypes, Fields
      <3>2. b.sent + strays.strange = b.acked + b.lost + Cardinality(Known) + strays.silent
        BY DEF Tracked
      <3>3. /\ Cardinality(losses) \in Nat /\ Cardinality(losses \ Known) \in Nat
            /\ Cardinality(acks \cap Known) \in Nat /\ Cardinality(Known') \in Nat
            /\ Cardinality(Known) + Cardinality(losses \ Known) =
                   Cardinality(acks \cap Known) + Cardinality(losses) + Cardinality(Known')
        BY <1>7, Counts
      <3> QED
        BY <1>6, <3>1, <3>2, <3>3
    <2> QED
      BY <2>1, <2>2, <2>3 DEF Tracked
  <1> QED
    BY <1>1, <1>5, <1>7, <1>8, <1>9

\* OnCongestionEvent keeps the invariant, whatever it brings.
LEMMA EventKeeps ==
    ASSUME SInv, NEW acks \in SUBSET DOMAIN sentAt, NEW losses \in SUBSET (DOMAIN sentAt \ acks),
           acks \cup losses # {}, MayBeLost(losses, acks), NEW time \in Times, NEW count, NEW maxBandwidth,
           OnCongestionEvent(acks, losses, time, count, maxBandwidth)
    PROVE  SInv'
  <1> DEFINE lost == b.lost + Cardinality(losses)
             begin == [fields |-> [b EXCEPT !.lost = lost], ring |-> candidates, best |-> None]
             e == Acknowledged(begin, acks, time)
             f == e.fields
             L == LargestAcked(acks)
  <1>1. STypes /\ Tracked /\ Lines /\ Fresh
    BY DEF SInv
  <1>2. time \in Nat \ {0} /\ time >= clock /\ clock \in Nat
    <2>1. clock \in Nat \ {0} /\ MaxTime \in Nat
      BY <1>1, SamplerAssumption DEF STypes
    <2> QED
      BY <2>1 DEF Times, Smaller
  <1>3. /\ IF acks = {} THEN b' = f /\ UNCHANGED <<candidates, heights>> ELSE AckEventEnd(e, maxBandwidth, count)
        /\ sample' = e.best
        /\ queue' = RemoveUpTo(queue, LeastUnacked(acks, losses))
        /\ sentAt' = [p \in DOMAIN sentAt \ (acks \cup losses) |-> sentAt[p]]
        /\ largest' = L /\ clock' = time /\ conservative' = conservative /\ next' = next
        /\ strays' = [strays EXCEPT !.strange = strays.strange + Cardinality(losses \ Known)]
    BY DEF OnCongestionEvent
  <1>4. Cardinality(losses) \in Nat /\ Cardinality(acks \cap Known) \in Nat
    BY <1>1, Counts
  <1>5. Midway(begin, acks, lost, -1, time)
    BY <1>2, <1>4, BeginIs
  <1> HIDE DEF begin, lost
  <1>6. Midway(e, acks, lost, L, time)
    BY <1>2, <1>5, AcknowledgedIs
  <1> HIDE DEF e
  <1>7. /\ L \in Nat \cup {-1} /\ L >= largest /\ largest \in Nat \cup {-1}
        /\ \A a \in acks : a <= L /\ a \in Nat
    BY <1>1, LargestIs, InFlight DEF STypes
  <1> HIDE DEF L
  <1>8. {a \in acks \cap Known : a <= L} = acks \cap Known
    BY <1>7
  <1>9. /\ f \in Fields /\ RingOf(e.ring, Points) /\ f.sent = b.sent /\ f.lost = lost
        /\ f.acked = b.acked + Cardinality(acks \cap Known) /\ f.endOfAppLimited = b.endOfAppLimited
        /\ f.ackedAfterLastEvent = b.ackedAfterLastEvent
        /\ f.lastAckedSentTime = b.lastAckedSentTime \/ f.acked # b.acked
        /\ RecentOK(f.recent, f.acked, time) /\ InOrder(e.ring, f.recent)
        /\ ~conservative => RingLen(e.ring) = 0
        /\ RingLen(e.ring) > 0 <=> RingLen(candidates) > 0
        /\ SampleOK(e.best) /\ (acks = {} => e.ring = candidates)
    BY <1>6, <1>8 DEF Midway
  <1>10. /\ b' \in Fields /\ b'.sent = f.sent /\ b'.acked = f.acked /\ b'.lost = f.lost
         /\ b'.appLimited = f.appLimited /\ b'.endOfAppLimited = f.endOfAppLimited /\ b'.recent = f.recent
         /\ \/ candidates' = e.ring
            \/ conservative /\ candidates' = PushBack(e.ring, LessRecent(f.recent), NoPoint)
         /\ f.acked = f.ackedAfterLastEvent => b' = f /\ candidates' = e.ring /\ UNCHANGED heights
         /\ conservative /\ heights.start = 0 /\ f.acked # f.ackedAfterLastEvent =>
                acks = {} \/ candidates' = PushBack(e.ring, LessRecent(f.recent), NoPoint)
    <2>1. CASE acks = {}
      BY <1>3, <1>9, <2>1
    <2>2. CASE acks # {}
      BY <1>3, <1>9, <2>2, EndIs
    <2> QED
      BY <2>1, <2>2
  <1>11. /\ RingOf(candidates', Points) /\ InOrder(candidates', f.recent)
         /\ ~conservative => RingLen(candidates') = 0
         /\ RingLen(e.ring) > 0 => RingLen(candidates') > 0 /\ RingAt(candidates', 0) = RingAt(e.ring, 0)
         /\ RingLen(candidates') = 0 => candidates' = e.ring
    <2>1. CASE candidates' = e.ring
      BY <1>9, <2>1
    <2>2. CASE conservative /\ candidates' = PushBack(e.ring, LessRecent(f.recent), NoPoint)
      <3> HIDE DEF f
      <3> QED
        BY <1>9, <2>2, PushedInOrder
    <2> QED
      BY <1>10, <2>1, <2>2
  <1>12. /\ STypes' /\ Tracked' /\ DOMAIN sentAt' \subseteq DOMAIN sentAt /\ Known' \subseteq Known
         /\ Known' \subseteq DOMAIN sentAt'
         /\ \A p \in DOMAIN sentAt' : SlotOf(queue', p) = SlotOf(queue, p)
    <2>1. b'.sent = b.sent /\ b'.acked = b.acked + Cardinality(acks \cap Known) /\ b'.lost = b.lost + Cardinality(losses)
      BY <1>9, <1>10 DEF lost
    <2>2. Known' \subseteq DOMAIN sentAt'
      BY DEF Known
    <2> QED
      BY <1>1, <1>2, <1>3, <1>10, <1>11, <2>1, <2>2, EventTracks DEF L
  <1>13. RecentOK(b'.recent, b'.acked, clock') /\ InOrder(candidates', b'.recent)
    BY <1>3, <1>9, <1>10, <1>11
  <1>14. \A p : Sampleable(p)' => Sampleable(p)
    BY <1>12 DEF Sampleable
  <1>15. ~conservative' => RingLen(candidates') = 0
    BY <1>3, <1>11
  <1>16. \A p \in Known' : SlotOf(queue', p).acked <= b'.acked
    <2> SUFFICES ASSUME NEW p \in Known'
                 PROVE  SlotOf(queue, p).acked <= b'.acked
      BY <1>12
    <2>1. SlotOf(queue, p) \in Entries /\ p \in Known
      BY <1>1, <1>12, EntryInFlight
    <2>2. SlotOf(queue, p).acked \in Nat /\ SlotOf(queue, p).acked <= b.acked
      BY <1>1, <2>1 DEF Lines, Entries
    <2>3. b.acked \in Nat /\ Cardinality(acks \cap Known) \in Nat
      BY <1>1, <1>4 DEF STypes, Fields
    <2> QED
      BY <1>9, <1>10, <2>2, <2>3
  <1>17. \A p, q \in Known' : p < q => SlotOf(queue', p).acked <= SlotOf(queue', q).acked
    BY <1>1, <1>12 DEF Lines
  <1>170. RingLen(candidates) \in Nat /\ RingLen(e.ring) \in Nat /\ RingLen(candidates') \in Nat
    BY <1>1, <1>9, <1>11, RingLenType DEF STypes
  <1>18. RingLen(candidates') > 0 =>
             \A p \in Known' : p > largest' /\ Sampleable(p)' => RingAt(candidates', 0).acked <= SlotOf(queue', p).acked
    <2> SUFFICES ASSUME RingLen(candidates') > 0, NEW p \in Known', p > L, Sampleable(p)'
                 PROVE  RingAt(candidates', 0).acked <= SlotOf(queue, p).acked
      BY <1>3, <1>12
    <2>1. p \in Known /\ p \in DOMAIN sentAt /\ p \in Nat /\ Sampleable(p)
      BY <1>1, <1>12, <1>14, InFlight
    <2>2. p > largest
      BY <1>7, <2>1
    <2>3. CASE RingLen(e.ring) > 0
      BY <1>6, <1>11, <2>1, <2>2, <2>3 DEF Midway
    <2>4. CASE ~(RingLen(e.ring) > 0)
      <3>1. conservative /\ RingLen(candidates) = 0
        BY <1>9, <1>10, <1>11, <1>170, <2>4
      <3> QED
        BY <1>1, <2>1, <3>1 DEF Fresh
    <2> QED
      BY <2>3, <2>4
  <1>22. Fresh'
    <2> SUFFICES ASSUME conservative, RingLen(candidates') = 0
                 PROVE  /\ b'.lastAckedSentTime = 0 /\ heights'.start = 0 /\ b'.ackedAfterLastEvent = b'.acked
                        /\ \A p \in DOMAIN sentAt' : ~Sampleable(p)'
      BY <1>3 DEF Fresh
    <2>1. candidates' = e.ring /\ RingLen(candidates) = 0
      BY <1>9, <1>11, <1>170
    <2>2. /\ b.lastAckedSentTime = 0 /\ heights.start = 0 /\ b.ackedAfterLastEvent = b.acked
          /\ \A p \in DOMAIN sentAt : ~Sampleable(p)
      BY <1>1, <2>1 DEF Fresh
    <2>3. f.acked = f.ackedAfterLastEvent
      <3>1. CASE acks = {}
        <4>1. Cardinality(acks \cap Known) = 0
          <5>1. acks \cap Known = {}
            BY <3>1
          <5> QED
            BY <5>1, FS_EmptySet
        <4>2. b.acked \in Nat
          BY <1>1 DEF STypes, Fields
        <4> QED
          BY <1>9, <2>2, <4>1, <4>2
      <3>2. CASE acks # {} /\ f.acked # f.ackedAfterLastEvent
        <4>1. candidates' = PushBack(e.ring, LessRecent(f.recent), NoPoint)
          BY <1>10, <2>2, <3>2
        <4>2. RingLen(candidates') > 0
          <5> HIDE DEF f
          <5> QED
            BY <1>9, <4>1, PushedInOrder
        <4> QED
          BY <4>2
      <3> QED
        BY <3>1, <3>2
    <2>4. b' = f /\ heights' = heights /\ f.lastAckedSentTime = b.lastAckedSentTime
      BY <1>9, <1>10, <2>2, <2>3
    <2> QED
      BY <1>12, <1>14, <2>2, <2>3, <2>4
  <1>19. ~b'.appLimited => largest' > b'.endOfAppLimited \/ b'.endOfAppLimited = InvalidPacket
    <2> SUFFICES ASSUME ~f.appLimited, b.endOfAppLimited # InvalidPacket
                 PROVE  L > b.endOfAppLimited
      BY <1>3, <1>9, <1>10
    <2>1. b.endOfAppLimited \in Int
      BY <1>1 DEF STypes, Fields
    <2>2. largest > b.endOfAppLimited \/ \E a \in acks : a <= L /\ a > b.endOfAppLimited
      BY <1>6 DEF Midway
    <2> QED
      BY <1>7, <2>1, <2>2
  <1>20. SampleOK(sample')
    BY <1>3, <1>9
  <1>21. Lines'
    BY <1>13, <1>15, <1>16, <1>17, <1>18, <1>19, <1>20 DEF Lines
  <1> QED
    BY <1>12, <1>21, <1>22 DEF SInv

\* Every step keeps the invariant.
LEMMA SNext == SInv /\ [SamplerNext]_samplerVars => SInv'
  <1> SUFFICES ASSUME SInv, [SamplerNext]_samplerVars
               PROVE  SInv'
    OBVIOUS
  <1>1. ASSUME NEW time \in Times, OnPacketSent(time)
        PROVE  SInv'
    BY <1>1, SentKeeps
  <1>2. CASE OnAckOnlySent
    BY <1>2, AckOnlyKeeps
  <1>3. CASE OnAppLimited
    BY <1>3, AppLimitedKeeps
  <1>4. ASSUME NEW pn \in DOMAIN sentAt, LeavesFlight(pn)
        PROVE  SInv'
    BY <1>4, LeavesFlightKeeps
  <1>5. CASE ResetMaxAckHeightTracker
    BY <1>5, ResetKeeps
  <1>6. CASE Event
    <2>1. PICK acks \in SUBSET DOMAIN sentAt : \E losses \in SUBSET (DOMAIN sentAt \ acks) :
              /\ acks \cup losses # {} /\ MayBeLost(losses, acks)
              /\ \E time \in Times, maxBandwidth \in MaxBandwidths :
                     OnCongestionEvent(acks, losses, time, round + time - clock, maxBandwidth)
      BY <1>6 DEF Event
    <2>2. PICK losses \in SUBSET (DOMAIN sentAt \ acks) :
              /\ acks \cup losses # {} /\ MayBeLost(losses, acks)
              /\ \E time \in Times, maxBandwidth \in MaxBandwidths :
                     OnCongestionEvent(acks, losses, time, round + time - clock, maxBandwidth)
      BY <2>1
    <2>3. PICK time \in Times, maxBandwidth \in MaxBandwidths :
              OnCongestionEvent(acks, losses, time, round + time - clock, maxBandwidth)
      BY <2>2
    <2> QED
      BY <2>2, <2>3, EventKeeps
  <1>7. CASE UNCHANGED samplerVars
    <2>1. UNCHANGED <<conservative, b, queue, candidates, heights, sample, clock, next, sentAt, largest, strays>>
      BY <1>7 DEF samplerVars
    <2>2. Known' = Known /\ \A p : Sampleable(p)' <=> Sampleable(p)
      BY <2>1 DEF Known, Sampleable
    <2>3. STypes' /\ Tracked'
      BY <2>1, <2>2 DEF SInv, STypes, Tracked
    <2>4. Lines' /\ Fresh'
      BY <2>1, <2>2 DEF SInv, Lines, Fresh
    <2> QED
      BY <2>3, <2>4 DEF SInv
  <1> QED
    BY <1>1, <1>2, <1>3, <1>4, <1>5, <1>6, <1>7 DEF SamplerNext

\* The invariant always holds.
THEOREM SamplerInvHolds == SamplerSpec => []SInv
  BY SInitInv, SNext, PTL DEF SamplerSpec

\* For any sizes of rings, any packets and any that were in flight before: a packet that the sampler was
\* told of and that is in flight is found in connectionStateMap with the time it was sent, an earlier one
\* is not, the bytes sent and the losses of earlier packets are what was acknowledged, lost, is in flight
\* or left without a word, and the queue's count of its entries is right
\* (packet_number_indexed_queue.go, OnPacketSent, OnCongestionEvent).
THEOREM PacketsAreTracked == SamplerSpec => []InFlightIsTracked
  <1>1. SInv => InFlightIsTracked
    BY TrackedIsEnough DEF SInv
  <1> QED
    BY <1>1, SamplerInvHolds, PTL

\* For any sizes of rings and any packets: the slope of a sample runs forward, the candidates of
\* chooseA0Point are in order, and a phase without data ends no earlier than with the acknowledgement
\* of a packet sent after it began (onPacketAcknowledged, chooseA0Point, OnAppLimited).
THEOREM SoundSamples == SamplerSpec => []SamplesAreSound
  <1>1. SInv => SamplesAreSound
    BY LinesAreEnough DEF SInv
  <1> QED
    BY <1>1, SamplerInvHolds, PTL
===============================================================================
