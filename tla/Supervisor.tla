----------------------------- MODULE Supervisor -----------------------------
(* cmd/listen.go: superviseListen calls Listen again and again, and         *)
(* connectionNotices tells the sink how the connection is.                  *)
EXTENDS Integers, Sequences

CONSTANTS
    MaxInitialAttempts,      \* policy.MaxInitialAttempts
    FirstCeiling, MaxCeiling,   \* the reconnect delay's ceilings, in seconds
    MaxFailures,             \* bound: failures counts no further
    MaxOffline               \* bound: an outage is timed no further

ASSUME PolicyAssumption ==
    /\ MaxInitialAttempts \in Nat \ {0} /\ MaxFailures \in Nat
    /\ MaxInitialAttempts <= MaxFailures
    /\ FirstCeiling \in Nat \ {0} /\ MaxCeiling \in Nat /\ FirstCeiling <= MaxCeiling
    /\ MaxOffline \in Nat

VARIABLES
    call, failure,           \* the Listen call under way: ListenCall
    cancelled,               \* ctx is done
    exit,                    \* "running", or how superviseListen returned
    failures, connectedOnce,
    ready, offline,          \* connectionNotices; now - offlineSince, -1 when zero
    left,                    \* seconds waitForReconnect has left, -1 outside it
    said,                    \* the latest step's events, as far as the sink took them
    broken,                  \* the sink failed one of them
    shown,                   \* the connection state the sink shows
    outage                   \* seconds offline since the last joined session; -1 before one

notices == <<ready, offline>>
policy == <<failures, connectedOnce>>
output == <<said, broken, shown>>
vars == <<call, failure, cancelled, exit, policy, notices, left, output, outage>>

Ws == INSTANCE ListenCall

----------------------------------------------------------------------------
Least(a, b) == IF a < b THEN a ELSE b

\* The ceiling's loop: doubled with every failure until it is at the last one.
Doubled[n \in 0..MaxFailures] ==
    IF n <= 1 THEN FirstCeiling
    ELSE LET c == Doubled[n - 1] IN IF c < MaxCeiling THEN 2 * c ELSE c

ReconnectCeiling(n) == Least(Doubled[n], MaxCeiling)

\* Counting failures no further loses nothing.
ASSUME FailuresAssumption == Doubled[MaxFailures] >= MaxCeiling

Say(what) == [event |-> what, offline |-> 0]

Shows(event) ==
    CASE event \in {"Ready", "Reconnected"} -> "online"
      [] event = "ConnectionLost" -> "offline"
      [] event = "Notice" -> shown

\* The sink takes n of the events, and fails the next if there is one.
Emit(events, n) ==
    /\ said' = SubSeq(events, 1, n)
    /\ broken' = (n < Len(events))
    /\ shown' = IF \E i \in 1..n : events[i].event # "Notice"
                THEN Shows(events[CHOOSE i \in 1..n : events[i].event # "Notice"].event)
                ELSE shown

Quiet == said' = <<>> /\ UNCHANGED <<broken, shown>>

JoinEvents ==
    IF ready THEN <<[event |-> "Reconnected", offline |-> offline], Say("Notice")>>
    ELSE <<Say("Notice"), Say("Ready")>>

\* connectionNotices.joined, from Listen's goroutine.
Joined ==
    /\ exit = "running"
    /\ Ws!Join
    /\ \E n \in 0..Len(JoinEvents) : Emit(JoinEvents, n)
    /\ ready' = TRUE
    /\ offline' = IF ready THEN -1 ELSE offline
    /\ outage' = 0
    /\ UNCHANGED <<cancelled, exit, policy, left>>

\* superviseListen's first Listen.
Listen ==
    /\ exit = "running" /\ call = "none"
    /\ Ws!Start
    /\ Quiet
    /\ UNCHANGED <<cancelled, exit, policy, notices, left, outage>>

\* Mutant: nothing closes a joined session's socket when the context is done.
ReturnsUnwatched(e) ==
    /\ exit = "running"
    /\ cancelled /\ call = "joined" => broken
    /\ e = Ws!Canceled => cancelled
    /\ broken => e \in {Ws!Error("Handler", TRUE), Ws!Canceled}
    /\ Ws!Return(e)
    /\ Quiet
    /\ UNCHANGED <<cancelled, exit, policy, notices, left, outage>>

\* Listen returns: the context's error only once it is done, and a Handler
\* error when the sink failed.
Returns(e) ==
    /\ exit = "running"
    /\ e = Ws!Canceled => cancelled
    /\ broken => e \in {Ws!Error("Handler", TRUE), Ws!Canceled}
    /\ Ws!Return(e)
    /\ Quiet
    /\ UNCHANGED <<cancelled, exit, policy, notices, left, outage>>

----------------------------------------------------------------------------
(* What superviseListen makes of the error.                                 *)

Judging == exit = "running" /\ call = "returned" /\ left = -1
Ended == cancelled \/ failure = Ws!Canceled

\* The failures since the last join, the latest included.
FailuresNow == Least(IF failure.connected THEN 1 ELSE failures + 1, MaxFailures)

GivesUp ==
    /\ ~ connectedOnce /\ ~ failure.connected
    /\ FailuresNow >= MaxInitialAttempts

\* Mutant: a failed session that had joined does not start the count again.
BackoffGoesOn == Least(failures + 1, MaxFailures)

Backoff == FailuresNow

\* Mutant: every failed attempt starts the outage's clock.
LostLatest == IF ready THEN 0 ELSE offline

\* connectionNotices.lost
LostSince == IF ready /\ offline = -1 THEN 0 ELSE offline

Stop(how) ==
    /\ exit' = how
    /\ Quiet
    /\ UNCHANGED <<call, failure, cancelled, policy, notices, left, outage>>

Cancelled == Judging /\ Ended /\ Stop("cancelled")

Fatal == Judging /\ ~ Ended /\ ~ Ws!Retryable(failure) /\ Stop("fatal")

GiveUp == Judging /\ ~ Ended /\ Ws!Retryable(failure) /\ GivesUp /\ Stop("gave up")

\* The notice, and the wait when the sink took it.
Lost ==
    /\ Judging /\ ~ Ended /\ Ws!Retryable(failure) /\ ~ GivesUp
    /\ failures' = Backoff
    /\ connectedOnce' = (connectedOnce \/ failure.connected)
    /\ offline' = LostSince
    /\ \/ /\ Emit(<<Say("ConnectionLost")>>, 1)
          /\ left' \in 0..ReconnectCeiling(Backoff)
          /\ UNCHANGED exit
       \/ /\ Emit(<<Say("ConnectionLost")>>, 0)
          /\ exit' = "fatal"
          /\ UNCHANGED left
    /\ UNCHANGED <<call, failure, cancelled, ready, outage>>

\* waitForReconnect's timer, and the next Listen.
Retry ==
    /\ exit = "running" /\ left = 0
    /\ Ws!Start
    /\ left' = -1
    /\ Quiet
    /\ UNCHANGED <<cancelled, exit, policy, notices, outage>>

\* waitForReconnect's context.
Interrupted == exit = "running" /\ left >= 0 /\ cancelled /\ Stop("cancelled")

Cancel ==
    /\ exit = "running" /\ ~ cancelled
    /\ cancelled' = TRUE
    /\ Quiet
    /\ UNCHANGED <<call, failure, exit, policy, notices, left, outage>>

Later(t) == IF t = -1 THEN t ELSE Least(t + 1, MaxOffline)

\* A second passes: in a dial, a joined session or a wait.
Tick ==
    /\ exit = "running"
    /\ call \in {"connecting", "joined"} \/ left > 0
    /\ left' = IF left > 0 THEN left - 1 ELSE left
    /\ offline' = Later(offline)
    /\ outage' = IF call = "joined" THEN outage ELSE Later(outage)
    /\ Quiet
    /\ UNCHANGED <<call, failure, cancelled, exit, policy, ready>>

Init ==
    /\ Ws!CallInit
    /\ cancelled = FALSE /\ exit = "running"
    /\ failures = 0 /\ connectedOnce = FALSE
    /\ ready = FALSE /\ offline = -1
    /\ left = -1
    /\ said = <<>> /\ broken = FALSE /\ shown = "none"
    /\ outage = -1

Next ==
    \/ Listen \/ Joined \/ \E e \in Ws!Errors : Returns(e)
    \/ Cancelled \/ Fatal \/ GiveUp \/ Lost
    \/ Retry \/ Interrupted \/ Cancel \/ Tick

Spec == Init /\ [][Next]_vars

\* superviseListen runs on, and the clock with it; dial and join time out, and
\* a joined Listen returns once the context is done or its handler failed.
Progress ==
    \/ call = "connecting" /\ (Joined \/ \E e \in Ws!Errors : Returns(e))
    \/ call = "joined" /\ (cancelled \/ broken) /\ \E e \in Ws!Errors : Returns(e)

Fairness ==
    /\ WF_vars(Listen \/ Cancelled \/ Fatal \/ GiveUp \/ Lost \/ Retry \/ Interrupted)
    /\ WF_vars(Progress)
    /\ WF_vars(left > 0 /\ Tick)

FairSpec == Spec /\ Fairness

----------------------------------------------------------------------------
(* Properties.                                                              *)

Event ==
    [event : {"Notice", "Ready", "Reconnected", "ConnectionLost"}, offline : -1..MaxOffline]

\* Every variable has its type, failures stays under the bound while no session
\* has joined, and the two clocks of connectionNotices run only after a join.
TypeOK ==
    /\ Ws!CallTypeOK
    /\ cancelled \in BOOLEAN /\ exit \in {"running", "cancelled", "fatal", "gave up"}
    /\ failures \in 0..MaxFailures /\ connectedOnce \in BOOLEAN
    /\ ready \in BOOLEAN /\ offline \in -1..MaxOffline
    /\ left \in -1..MaxCeiling
    /\ said \in Seq(Event) /\ broken \in BOOLEAN
    /\ shown \in {"none", "online", "offline"}
    /\ outage \in -1..MaxOffline

\* What the sink shows is what the connection is: online exactly in a joined
\* session, and offline in every wait for a reconnect.
SinkShowsTheConnection ==
    /\ exit = "running" /\ ~ broken /\ call = "joined" => shown = "online"
    /\ left >= 0 => shown = "offline"
    /\ call = "connecting" => shown = IF outage = -1 /\ failures = 0 THEN "none" ELSE "offline"

\* Ready reports the first join and only that; Reconnected reports every later
\* one, with the whole outage, from the end of the last joined session through
\* every failed attempt.
OutagesAreTimedWhole ==
    [][\A i \in 1..Len(said') :
          /\ said'[i].event = "Ready" => outage = -1
          /\ said'[i].event = "Reconnected" => outage >= 0 /\ said'[i].offline = outage]_vars

\* Every outage is shown while it lasts, and told of with its length when it ends.
OutagesAreShown == []SinkShowsTheConnection /\ OutagesAreTimedWhole

\* Every variable has its type.  The number of attempts is bounded only until
\* the first join: after it a retryable failure never ends the run, and before
\* it at most MaxInitialAttempts sessions fail.  A wait never exceeds the last
\* ceiling, and one after a session that had joined never the first: what
\* failed before the join no longer counts.
FailuresCountSinceAJoin ==
    /\ TypeOK
    /\ exit = "gave up" => outage = -1 /\ failures + 1 = MaxInitialAttempts
    /\ outage = -1 => failures < MaxInitialAttempts
    /\ exit = "fatal" => broken \/ failure.kind \notin {"Connect", "Disconnected"}
    /\ left > 0 => left <= (IF failure.connected THEN FirstCeiling ELSE MaxCeiling)

\* Cancelling ends the run whatever it is doing, and a session's failure is
\* followed by another attempt or by the end.
RunGoesOnOrEnds ==
    /\ cancelled ~> exit # "running"
    /\ call = "returned" ~> call = "connecting" \/ exit # "running"
=============================================================================
