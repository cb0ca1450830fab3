---------------------------- MODULE LatencyRing -----------------------------
(* internal/session/stats.go's latencies: a ring of the newest samples, and   *)
(* the percentiles a snapshot takes of it.                                    *)
EXTENDS Integers, Sequences, FiniteSets, Functions

CONSTANTS
    MaxLatencySamples,   \* the samples the ring keeps
    Latencies,           \* the latencies measured
    MaxRequests          \* bound: forwarded requests

RingAssumption ==
    /\ MaxLatencySamples \in Nat \ {0} /\ MaxRequests \in Nat
    /\ Latencies \subseteq Nat

VARIABLES
    latencies, next,     \* the ring, and where the next sample goes
    timed                \* history: the latency of every timed request, in order

vars == <<latencies, next, timed>>

----------------------------------------------------------------------------
(* The ring.  Its slots count from 1 here.                                  *)

\* Mutant: the ring goes round one slot early.
AdvanceShort(at) == (at + 1) % (MaxLatencySamples - 1)

Advance(at) == (at + 1) % MaxLatencySamples

Place(latency) ==
    IF Len(latencies) < MaxLatencySamples
    THEN Append(latencies, latency)
    ELSE [latencies EXCEPT ![next + 1] = latency]

\* add, of a forwarded request that got a response or timed out.
AddTimed(latency) ==
    /\ latencies' = Place(latency)
    /\ next' = Advance(next)
    /\ timed' = Append(timed, latency)

\* A snapshot is taken with every add; the view reads it.
Order ==
    CHOOSE p \in [DOMAIN latencies -> DOMAIN latencies] :
        /\ IsInjective(p)
        /\ \A i, j \in DOMAIN latencies : i < j => latencies[p[i]] <= latencies[p[j]]

Sorted == [i \in DOMAIN latencies |-> latencies[Order[i]]]

Rank(n, p) == (n * p + 99) \div 100

Percentile(p) == Sorted[Rank(Len(latencies), p)]

Init == latencies = <<>> /\ next = 0 /\ timed = <<>>

Next == Len(timed) < MaxRequests /\ \E latency \in Latencies : AddTimed(latency)

Spec == Init /\ [][Next]_vars

----------------------------------------------------------------------------
(* Properties.                                                              *)

\* Every variable has its type, and the ring its size.
TypeOK ==
    /\ latencies \in Seq(Latencies) /\ Len(latencies) <= MaxLatencySamples
    /\ next \in 0..MaxLatencySamples - 1
    /\ timed \in Seq(Latencies)

Newest == SubSeq(timed, Len(timed) - Len(latencies) + 1, Len(timed))

\* The ring holds the newest samples, as many as it can, each once: those before
\* next are newer than those from it on.
RingHoldsTheNewest ==
    /\ Len(latencies) = IF Len(timed) < MaxLatencySamples THEN Len(timed) ELSE MaxLatencySamples
    /\ Newest = IF Len(latencies) < MaxLatencySamples THEN latencies
                ELSE SubSeq(latencies, next + 1, Len(latencies)) \o SubSeq(latencies, 1, next)

\* The samples of a sequence that are at most a value.
AtMost(s, value) == Cardinality({i \in DOMAIN s : s[i] <= value})

\* value is the least of the samples that p percent of them do not exceed.
IsNearestRank(value, s, p) ==
    /\ value \in Range(s)
    /\ 100 * AtMost(s, value) >= p * Len(s)
    /\ \A x \in Range(s) : x < value => 100 * AtMost(s, x) < p * Len(s)

\* P50, P95 and Max "cover the newest maxLatencySamples forwarded requests that
\* got a response or timed out", and are "the nearest-rank percentile" of them.
PercentilesCoverTheNewest ==
    latencies # <<>> =>
        /\ IsNearestRank(Percentile(50), Newest, 50)
        /\ IsNearestRank(Percentile(95), Newest, 95)
        /\ IsNearestRank(Sorted[Len(Sorted)], Newest, 100)
=============================================================================
