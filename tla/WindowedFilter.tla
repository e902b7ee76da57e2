---------------------------- MODULE WindowedFilter ----------------------------
(***************************************************************************)
(* Kathleen Nichols' windowed maximum (congestion/bbr/windowed_filter.go): *)
(* the best, second and third estimate, each with its time.  A sample is a *)
(* record whose field v is what MaxFilter and maxExtraAckedEventFunc       *)
(* compare.  As operators on the three estimates, and as a machine that    *)
(* feeds one filter any stream of samples.                                 *)
(***************************************************************************)
EXTENDS Integers

At(sample, time) == [sample |-> sample, time |-> time]

ResetFilter(sample, time) == <<At(sample, time), At(sample, time), At(sample, time)>>

\* Clear: estimates of the zero value, which counts as not initialised.
Cleared(zero) == ResetFilter(zero, 0)

Best(f) == f[1].sample

Stale(estimate, time, age) == time - estimate.time > age

\* A sample that is no new best takes the places it is good enough for.
Place(f, new) ==
    IF new.sample.v >= f[2].sample.v THEN <<f[1], new, new>>
    ELSE IF new.sample.v >= f[3].sample.v THEN <<f[1], f[2], new>> ELSE f

\* Variant: a promoted estimate is not looked at again.
PromoteOnce(f, new, window) == <<f[2], f[3], new>>

\* The best is too old: the others move up, twice when the second is too old as well.
Promote(f, new, window) ==
    IF Stale(f[2], new.time, window) THEN <<f[3], new, new>> ELSE <<f[2], f[3], new>>

\* No better sample for a part of the window: the lower estimates are taken anew.
Refresh(f, new, window) ==
    IF f[2].sample.v = f[1].sample.v /\ Stale(f[2], new.time, window \div 4) THEN <<f[1], new, new>>
    ELSE IF f[3].sample.v = f[2].sample.v /\ Stale(f[3], new.time, window \div 2) THEN <<f[1], f[2], new>>
    ELSE f

UpdateFilter(f, sample, time, window) ==
    LET new == At(sample, time)
        placed == Place(f, new)
    IN  IF Best(f).v = 0 \/ sample.v >= Best(f).v \/ Stale(f[3], time, window) THEN ResetFilter(sample, time)
        ELSE IF Stale(placed[1], time, window) THEN Promote(placed, new, window)
        ELSE Refresh(placed, new, window)

-------------------------------------------------------------------------------
CONSTANTS
    FilterWindow,   \* windowLength
    FilterSamples,  \* the values fed in, from 0
    MaxRound        \* bound on the time

ASSUME FilterAssumption == FilterWindow \in Nat \ {0} /\ FilterSamples \subseteq Nat /\ MaxRound \in Nat

VARIABLES
    estimates,   \* the filter's three
    now,         \* the time of the last sample
    latest       \* ghost: when each value was last fed, or -1

filterVars == <<estimates, now, latest>>

FilterInit ==
    /\ estimates = Cleared([v |-> 0])
    /\ now = 0
    /\ latest = [v \in FilterSamples |-> -1]

\* The times of a stream never go back.
Feed(v, time) ==
    /\ estimates' = UpdateFilter(estimates, [v |-> v], time, FilterWindow)
    /\ now' = time
    /\ latest' = [latest EXCEPT ![v] = time]

FilterNext == \E v \in FilterSamples, time \in now .. MaxRound : Feed(v, time)

FilterSpec == FilterInit /\ [][FilterNext]_filterVars

\* What a reader of GetBest relies on: the best estimate was fed within the window, nothing fed
\* later beats it (of the samples of its own round, one that is better may have been dropped),
\* and the three are ordered by age and by value.  The second promotion in Update is what keeps
\* an expired sample from coming back as the best.
FilterBounds ==
    (\E v \in FilterSamples : latest[v] >= 0) =>
        /\ \A i \in 1 .. 3 : latest[estimates[i].sample.v] >= estimates[i].time
        /\ ~Stale(estimates[1], now, FilterWindow)
        /\ \A v \in FilterSamples : latest[v] > estimates[1].time => v <= Best(estimates).v
        /\ \A i \in 1 .. 2 : /\ estimates[i].time <= estimates[i + 1].time
                             /\ estimates[i].sample.v >= estimates[i + 1].sample.v
===============================================================================
