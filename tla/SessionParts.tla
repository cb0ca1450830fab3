---------------------------- MODULE SessionParts -----------------------------
(* What internal/session computes and writes of its records, each part with   *)
(* its own state, and what it promises: the windows of statistics and the     *)
(* comparison, which bring their own names, the latencies, and the files x    *)
(* and c write.                                                               *)
EXTENDS StatsWindow, ResponseDiff

----------------------------------------------------------------------------
(* The latencies.                                                           *)

CONSTANTS
    MaxLatencySamples,   \* the samples the ring keeps
    Latencies,           \* the latencies measured
    MaxSamples           \* bound: forwarded requests

VARIABLES latencies, next, timed

ringVars == <<latencies, next, timed>>

Ring == INSTANCE LatencyRing WITH MaxRequests <- MaxSamples

----------------------------------------------------------------------------
(* Fixtures and copied commands.                                            *)

CONSTANTS
    History,             \* what each listen run recorded
    Large, Unprintable,  \* the deliveries with a body or headers too much for a command line
    MaxCommands          \* bound: x and c presses

VARIABLES runs, disk, commands

exportsVars == <<runs, disk, commands>>

Exports == INSTANCE Exports

----------------------------------------------------------------------------
(* Properties, beside StatisticsAreTrue and ComparisonIsTrue.                 *)

\* stats.go: P50, P95 and Max are the nearest-rank percentiles of the newest
\* samples, which the ring holds however often it went round.
PercentilesCoverTheNewest ==
    Ring!TypeOK /\ Ring!RingHoldsTheNewest /\ Ring!PercentilesCoverTheNewest

\* What x and c report they wrote is there in full until another command or a
\* run's end disturbs it, in a file no other delivery's bytes go to; and a half
\* file has a command that did not finish.
FilesKeepTheirDelivery ==
    /\ Exports!TypeOK /\ Exports!FilesKeepTheirDelivery
    /\ Exports!ReturnedFilesAreWhole /\ Exports!HalfFilesAreKnown
=============================================================================
