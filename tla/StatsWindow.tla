---------------------------- MODULE StatsWindow -----------------------------
(* internal/session/stats.go's requests per minute: a window of counters that *)
(* moves on with the wall clock, which may be set back or jump.  A delivery   *)
(* is stamped when it arrives and counted once it is forwarded, and by then   *)
(* the window may have moved on.  Every record hands the view a copy of the   *)
(* statistics it touches, which the view moves on again when it draws.        *)
EXTENDS Integers, FiniteSets

CONSTANTS
    StatsMinutes,   \* the minutes a window covers
    FirstMinute,    \* the first minute the wall clock shows
    MaxMinute,      \* bound: the last one
    MaxRequests,    \* bound: deliveries
    Routes,         \* the listed routes
    Unrouted        \* the RouteUID of a delivery to no listed route

ASSUME WindowAssumption ==
    /\ StatsMinutes \in Nat \ {0} /\ {FirstMinute, MaxMinute, MaxRequests} \subseteq Nat
    /\ FirstMinute >= StatsMinutes
    /\ Unrouted \notin Routes /\ "totals" \notin Routes

VARIABLES
    clock,          \* the wall clock's minute
    handling,       \* the deliveries Handle is forwarding, one or none
    stats,          \* the totals' and each route's window
    received,       \* history: the deliveries recorded, per minute they came in
    requests        \* counter for the bound

vars == <<clock, handling, stats, received, requests>>

\* The zero time.Time's minute, which minutes are counted from.
Never == 0

Minutes == FirstMinute..MaxMinute
Slots == 0..StatsMinutes - 1
Kinds == {"totals"} \cup Routes
Delivery == [received : Minutes, route : Routes \cup {Unrouted}]

Empty == [minutes |-> [i \in Slots |-> 0], minute |-> Never]

\* The statistics an entry counts in.
CountedIn(route) == {"totals", route} \cap Kinds

----------------------------------------------------------------------------
(* The window.                                                              *)

Shift(s, minute) ==
    LET gone == minute - s.minute
    IN  IF gone <= 0 THEN s
        ELSE [minute |-> minute,
              minutes |-> [i \in Slots |-> IF i + gone \in Slots THEN s.minutes[i + gone] ELSE 0]]

\* Mutant: a request counts in the window's last minute.
CountInLast(s, minute) ==
    LET w == Shift(s, minute)
    IN  [w EXCEPT !.minutes[StatsMinutes - 1] = @ + 1]

\* add: a delivery older than the window isn't in it.
CountIn(s, minute) ==
    LET w == Shift(s, minute)
        back == w.minute - minute
    IN  IF back < StatsMinutes THEN [w EXCEPT !.minutes[StatsMinutes - 1 - back] = @ + 1] ELSE w

PerMinuteAt(s, now) == Shift(s, now).minutes

----------------------------------------------------------------------------
(* The session.                                                             *)

\* The clock is read from the wall: it may move either way, by any step.
SetClock ==
    /\ clock' \in Minutes
    /\ UNCHANGED <<handling, stats, received, requests>>

\* Handle runs on the websocket's goroutine, one delivery at a time.
Receive ==
    /\ handling = {} /\ requests < MaxRequests
    /\ requests' = requests + 1
    /\ \E route \in Routes \cup {Unrouted} :
          handling' = {[received |-> clock, route |-> route]}
    /\ UNCHANGED <<clock, stats, received>>

\* record, of a delivery: the totals and the entry's route count it, and the
\* snapshots move them on to now.
Record(d) ==
    /\ d \in handling /\ handling' = {}
    /\ stats' = [k \in Kinds |-> IF k \in CountedIn(d.route)
                                 THEN Shift(CountIn(stats[k], d.received), clock)
                                 ELSE stats[k]]
    /\ received' = [k \in Kinds |-> IF k \in CountedIn(d.route)
                                    THEN [received[k] EXCEPT ![d.received] = @ + 1]
                                    ELSE received[k]]
    /\ UNCHANGED <<clock, requests>>

\* record, of a replay: it counts nowhere, but its event has the same snapshots.
RecordReplay ==
    /\ \E route \in Routes \cup {Unrouted} :
          stats' = [k \in Kinds |-> IF k \in CountedIn(route) THEN Shift(stats[k], clock) ELSE stats[k]]
    /\ UNCHANGED <<clock, handling, received, requests>>

Init ==
    /\ clock \in Minutes
    /\ handling = {}
    /\ stats = [k \in Kinds |-> Empty]
    /\ received = [k \in Kinds |-> [m \in Minutes |-> 0]]
    /\ requests = 0

Next == SetClock \/ Receive \/ (\E d \in handling : Record(d)) \/ RecordReplay

Spec == Init /\ [][Next]_vars

----------------------------------------------------------------------------
(* Properties.                                                              *)

\* Every variable has its type, and nothing is counted before it came in.
TypeOK ==
    /\ clock \in Minutes
    /\ handling \in SUBSET Delivery /\ Cardinality(handling) <= 1
    /\ stats \in [Kinds -> [minutes : [Slots -> Nat], minute : Minutes \cup {Never}]]
    /\ received \in [Kinds -> [Minutes -> Nat]]
    /\ requests \in 0..MaxRequests

Received(k, minute) == IF minute \in Minutes THEN received[k][minute] ELSE 0

\* What a window that ends at a minute should show.
Window(k, last) == [i \in Slots |-> Received(k, last - (StatsMinutes - 1) + i)]

\* "PerMinute counts requests in each of the StatsMinutes minutes up to Minute":
\* whenever they came in and were recorded, and whatever the clock did between.
WindowCountsEachMinute == \A k \in Kinds : stats[k].minutes = Window(k, stats[k].minute)

Later(a, b) == IF a > b THEN a ELSE b

\* The sparkline drawn now from a snapshot taken earlier has each request in the
\* minute it came in, up to now or to the snapshot's minute if the clock was set
\* back since.
SparklineIsTrue ==
    \A k \in Kinds : PerMinuteAt(stats[k], clock) = Window(k, Later(stats[k].minute, clock))

\* Each request counts in the minute it came in, in the statistics and in what is
\* drawn of them later.
StatisticsAreTrue == WindowCountsEachMinute /\ SparklineIsTrue
=============================================================================
