-------------------------- MODULE SupervisorProofs --------------------------
(* For every policy, however long the run: the sink shows the connection as  *)
(* it is, and an outage is told of once and timed whole.                     *)
EXTENDS Supervisor, SequenceTheorems, FiniteSetTheorems, TLAPS

----------------------------------------------------------------------------
(* The inductive invariant.                                                 *)

\* The types the argument needs; how long a wait may be is not among them.
KindsOK ==
    /\ Ws!CallTypeOK
    /\ exit \in {"running", "cancelled", "fatal", "gave up"}
    /\ failures \in 0..MaxFailures
    /\ ready \in BOOLEAN /\ offline \in -1..MaxOffline
    /\ left \in Int /\ left >= -1
    /\ broken \in BOOLEAN
    /\ outage \in -1..MaxOffline

\* connectionNotices' clock against the outage's: it runs from the first failure after
\* a joined session to the next join, and then shows the same time.
ClocksOK ==
    /\ ready <=> outage # -1
    /\ offline # -1 => ready /\ offline = outage
    /\ call = "joined" => ready /\ offline = -1
    /\ ready /\ offline = -1 => outage = 0 /\ left = -1 /\ call # "connecting"

\* Where superviseListen is: nothing has been shown before the first Listen, and a wait
\* follows a failure that was shown.
PlaceOK ==
    /\ call = "none" => shown = "none" /\ failures = 0 /\ outage = -1
    /\ left >= 0 => call = "returned" /\ failures >= 1

SupervisorInv == KindsOK /\ ClocksOK /\ PlaceOK /\ SinkShowsTheConnection

----------------------------------------------------------------------------
(* What the sink took.                                                      *)

LEMMA EmitSays ==
    ASSUME NEW S, NEW events \in Seq(S), NEW n \in 0..Len(events), Emit(events, n)
    PROVE  \A i \in 1..Len(said') : i \in 1..n /\ said'[i] = events[i]
<1>1. Len(SubSeq(events, 1, n)) = n /\ \A i \in 1..n : SubSeq(events, 1, n)[i] = events[i]
    BY SubSeqProperties
<1>2. QED
    BY <1>1 DEF Emit

\* A join: the first says the notice and Ready, a later one Reconnected and the notice.
LEMMA JoinSays ==
    ASSUME NEW n \in 0..Len(JoinEvents), Emit(JoinEvents, n)
    PROVE  /\ \A i \in 1..Len(said') :
                /\ said'[i].event = "Ready" => ~ ready
                /\ said'[i].event = "Reconnected" => ready /\ said'[i].offline = offline
           /\ ~ broken' => shown' = "online"
           /\ broken' \in BOOLEAN
<1> DEFINE S == [event : {"Notice", "Ready", "Reconnected"}, offline : {0, offline}]
<1>1. CASE ready
    <2> DEFINE events == <<[event |-> "Reconnected", offline |-> offline], Say("Notice")>>
    <2>1. JoinEvents = events /\ events \in Seq(S) /\ Len(events) = 2
        BY <1>1 DEF JoinEvents, Say
    <2>2. \A i \in 1..Len(said') : i \in 1..2 /\ said'[i] = events[i]
        <3> HIDE DEF events, S
        <3>1. n \in 0..Len(events) /\ Emit(events, n)
            BY <2>1
        <3>2. \A i \in 1..Len(said') : i \in 1..n /\ said'[i] = events[i]
            BY <2>1, <3>1, EmitSays, Zenon
        <3>3. n \in 0..2
            BY <2>1, <3>1
        <3>4. QED
            BY <3>2, <3>3
    <2>3. events[1].event = "Reconnected" /\ events[1].offline = offline /\ events[2].event = "Notice"
        BY DEF Say
    <2>4. \A i \in 1..2 : events[i].event # "Notice" <=> i = 1
        BY <2>3
    <2>5. n = 2 => shown' = "online"
        BY <2>1, <2>3, <2>4 DEF Emit, Shows
    <2> HIDE DEF events
    <2>6. QED
        <3>1. broken' \in BOOLEAN /\ (~ broken' => n = 2)
            <4>1. broken' = (n < 2) /\ n \in 0..2
                BY <2>1 DEF Emit
            <4>2. CASE n < 2
                BY <4>1, <4>2
            <4>3. CASE n = 2
                BY <4>1, <4>3
            <4>4. QED
                BY <4>1, <4>2, <4>3
        <3>2. \A i \in 1..Len(said') :
                  /\ said'[i].event = "Ready" => ~ ready
                  /\ said'[i].event = "Reconnected" => ready /\ said'[i].offline = offline
            BY <1>1, <2>2, <2>3
        <3>3. QED
            BY <2>5, <3>1, <3>2
<1>2. CASE ~ ready
    <2> DEFINE events == <<Say("Notice"), Say("Ready")>>
    <2>1. JoinEvents = events /\ events \in Seq(S) /\ Len(events) = 2
        BY <1>2 DEF JoinEvents, Say
    <2>2. \A i \in 1..Len(said') : i \in 1..2 /\ said'[i] = events[i]
        <3> HIDE DEF events, S
        <3>1. n \in 0..Len(events) /\ Emit(events, n)
            BY <2>1
        <3>2. \A i \in 1..Len(said') : i \in 1..n /\ said'[i] = events[i]
            BY <2>1, <3>1, EmitSays, Zenon
        <3>3. n \in 0..2
            BY <2>1, <3>1
        <3>4. QED
            BY <3>2, <3>3
    <2>3. events[1].event = "Notice" /\ events[2].event = "Ready"
        BY DEF Say
    <2>4. \A i \in 1..2 : events[i].event # "Notice" <=> i = 2
        BY <2>3
    <2>5. n = 2 => shown' = "online"
        BY <2>1, <2>3, <2>4 DEF Emit, Shows
    <2> HIDE DEF events
    <2>6. QED
        <3>1. broken' \in BOOLEAN /\ (~ broken' => n = 2)
            <4>1. broken' = (n < 2) /\ n \in 0..2
                BY <2>1 DEF Emit
            <4>2. CASE n < 2
                BY <4>1, <4>2
            <4>3. CASE n = 2
                BY <4>1, <4>3
            <4>4. QED
                BY <4>1, <4>2, <4>3
        <3>2. \A i \in 1..Len(said') :
                  /\ said'[i].event = "Ready" => ~ ready
                  /\ said'[i].event = "Reconnected" => ready /\ said'[i].offline = offline
            BY <1>2, <2>2, <2>3
        <3>3. QED
            BY <2>5, <3>1, <3>2
<1>3. QED
    BY <1>1, <1>2

LEMMA LostSays ==
    ASSUME NEW n \in 0..1, Emit(<<Say("ConnectionLost")>>, n)
    PROVE  /\ \A i \in 1..Len(said') : said'[i].event = "ConnectionLost"
           /\ n = 1 => shown' = "offline"
           /\ broken' \in BOOLEAN
<1> DEFINE events == <<Say("ConnectionLost")>>
           S == [event : {"ConnectionLost"}, offline : {0}]
<1>1. events \in Seq(S) /\ Len(events) = 1
    BY DEF Say
<1>2. \A i \in 1..Len(said') : i \in 1..1 /\ said'[i] = events[i]
    <2> HIDE DEF events, S
    <2>1. n \in 0..Len(events) /\ Emit(events, n)
        BY <1>1 DEF events
    <2>2. QED
        BY <1>1, <2>1, EmitSays
<1>3. events[1].event = "ConnectionLost"
    BY DEF Say
<1>4. n = 1 => shown' = "offline"
    BY <1>1, <1>3 DEF Emit, Shows
<1>5. \A i \in 1..Len(said') : said'[i].event = "ConnectionLost"
    BY <1>2, <1>3
<1>6. QED
    BY <1>1, <1>4, <1>5 DEF Emit

----------------------------------------------------------------------------
(* One lemma per action.                                                    *)

LEMMA InitSupervisorInv == Init => SupervisorInv
<1> SUFFICES ASSUME Init PROVE SupervisorInv
    OBVIOUS
<1> USE PolicyAssumption DEF Init, Ws!CallInit
<1>1. KindsOK
    <2>1. Ws!CallTypeOK
        BY DEF Ws!CallTypeOK
    <2>2. ready \in BOOLEAN /\ broken \in BOOLEAN
        OBVIOUS
    <2>3. failures \in 0..MaxFailures /\ offline \in -1..MaxOffline /\ outage \in -1..MaxOffline
        OBVIOUS
    <2>4. left \in Int /\ left >= -1 /\ exit = "running"
        OBVIOUS
    <2>5. QED
        BY <2>1, <2>2, <2>3, <2>4 DEF KindsOK
<1>2. ClocksOK /\ PlaceOK
    BY DEF ClocksOK, PlaceOK
<1>3. SinkShowsTheConnection
    BY DEF SinkShowsTheConnection
<1>4. QED
    BY <1>1, <1>2, <1>3 DEF SupervisorInv

LEMMA ListenKeeps == SupervisorInv /\ Listen => SupervisorInv'
BY DEF Listen, Ws!Start, Quiet, policy, notices, SupervisorInv, KindsOK, ClocksOK, PlaceOK,
   SinkShowsTheConnection, Ws!CallTypeOK, Ws!NoError

LEMMA JoinedKeeps == SupervisorInv /\ Joined => SupervisorInv'
<1> SUFFICES ASSUME SupervisorInv, Joined PROVE SupervisorInv'
    OBVIOUS
<1> USE DEF SupervisorInv, Joined, Ws!Join, policy
<1>1. (~ broken' => shown' = "online") /\ broken' \in BOOLEAN
    BY JoinSays
<1>2. KindsOK'
    BY <1>1, PolicyAssumption DEF KindsOK, Ws!CallTypeOK
<1>3. ClocksOK' /\ PlaceOK'
    BY DEF ClocksOK, PlaceOK, KindsOK
<1>4. SinkShowsTheConnection'
    BY <1>1 DEF SinkShowsTheConnection, PlaceOK
<1>5. QED
    BY <1>2, <1>3, <1>4

LEMMA ReturnsKeeps ==
    ASSUME NEW e \in Ws!Errors, SupervisorInv, Returns(e)
    PROVE  SupervisorInv'
BY DEF Returns, Ws!Return, Quiet, policy, notices, SupervisorInv, KindsOK, ClocksOK, PlaceOK,
   SinkShowsTheConnection, Ws!CallTypeOK

LEMMA StopKeeps ==
    ASSUME NEW how \in {"cancelled", "fatal", "gave up"}, SupervisorInv, Stop(how)
    PROVE  SupervisorInv'
BY DEF Stop, Quiet, policy, notices, SupervisorInv, KindsOK, ClocksOK, PlaceOK,
   SinkShowsTheConnection, Ws!CallTypeOK

LEMMA LostKeeps == SupervisorInv /\ Lost => SupervisorInv'
<1> SUFFICES ASSUME SupervisorInv, Lost PROVE SupervisorInv'
    OBVIOUS
<1> USE DEF SupervisorInv, Lost, Judging
<1>1. failures' \in 1..MaxFailures
    BY PolicyAssumption DEF KindsOK, Backoff, FailuresNow, Least
<1>2. /\ offline' = IF ready /\ offline = -1 THEN 0 ELSE offline
      /\ UNCHANGED <<call, failure, ready, outage>>
    BY DEF LostSince
<1>3. CASE exit' = "fatal" /\ left' = -1 /\ broken' \in BOOLEAN
    BY <1>1, <1>2, <1>3, PolicyAssumption
       DEF KindsOK, ClocksOK, PlaceOK, SinkShowsTheConnection, Ws!CallTypeOK
<1>4. CASE exit' = exit /\ left' \in Int /\ left' >= 0 /\ shown' = "offline" /\ broken' \in BOOLEAN
    BY <1>1, <1>2, <1>4, PolicyAssumption
       DEF KindsOK, ClocksOK, PlaceOK, SinkShowsTheConnection, Ws!CallTypeOK
<1>5. QED
    BY <1>3, <1>4, LostSays

LEMMA RetryKeeps == SupervisorInv /\ Retry => SupervisorInv'
BY DEF Retry, Ws!Start, Quiet, policy, notices, SupervisorInv, KindsOK, ClocksOK, PlaceOK,
   SinkShowsTheConnection, Ws!CallTypeOK, Ws!NoError

LEMMA CancelKeeps == SupervisorInv /\ Cancel => SupervisorInv'
BY DEF Cancel, Quiet, policy, notices, SupervisorInv, KindsOK, ClocksOK, PlaceOK,
   SinkShowsTheConnection, Ws!CallTypeOK

\* Both clocks run on together, or neither.
LEMMA TickKeeps == SupervisorInv /\ Tick => SupervisorInv'
<1> SUFFICES ASSUME SupervisorInv, Tick PROVE SupervisorInv'
    OBVIOUS
<1> USE PolicyAssumption DEF SupervisorInv, Tick, Quiet, policy
<1>1. \A t \in -1..MaxOffline : Later(t) \in -1..MaxOffline /\ (Later(t) = -1 <=> t = -1)
    BY DEF Later, Least
<1>2. KindsOK'
    BY <1>1 DEF KindsOK, Ws!CallTypeOK
<1>3. ClocksOK'
    BY <1>1 DEF ClocksOK, PlaceOK, KindsOK, Ws!CallTypeOK
<1>4. PlaceOK' /\ SinkShowsTheConnection'
    BY <1>1 DEF PlaceOK, KindsOK, SinkShowsTheConnection
<1>5. QED
    BY <1>2, <1>3, <1>4

----------------------------------------------------------------------------
(* The theorems.                                                            *)

LEMMA NextKeeps == SupervisorInv /\ [Next]_vars => SupervisorInv'
<1> SUFFICES ASSUME SupervisorInv, [Next]_vars PROVE SupervisorInv'
    OBVIOUS
<1>1. CASE Cancelled \/ Fatal \/ GiveUp \/ Interrupted
    BY <1>1, StopKeeps DEF Cancelled, Fatal, GiveUp, Interrupted
<1>2. CASE UNCHANGED vars
    BY <1>2 DEF vars, policy, notices, output, SupervisorInv, KindsOK, ClocksOK, PlaceOK,
                SinkShowsTheConnection, Ws!CallTypeOK
<1>3. QED
    BY <1>1, <1>2, ListenKeeps, JoinedKeeps, ReturnsKeeps, LostKeeps, RetryKeeps, CancelKeeps,
       TickKeeps DEF Next

THEOREM SupervisorInvariance == Spec => []SupervisorInv
<1>1. QED
    BY InitSupervisorInv, NextKeeps, PTL DEF Spec

\* Whatever the policy's attempts and ceilings, every outage is shown while it lasts,
\* Ready is said once and before any outage, and each later join says Reconnected with
\* the whole time since the last joined session.
THEOREM OutagesCorrect == Spec => OutagesAreShown
<1> DEFINE Told(i) == /\ said'[i].event = "Ready" => outage = -1
                      /\ said'[i].event = "Reconnected" => outage >= 0 /\ said'[i].offline = outage
<1>1. SupervisorInv => SinkShowsTheConnection
    BY DEF SupervisorInv
<1>2. ASSUME SupervisorInv, Next
      PROVE  \A i \in 1..Len(said') : Told(i)
    <2>1. CASE Joined
        <3>1. \A i \in 1..Len(said') :
                  /\ said'[i].event = "Ready" => ~ ready
                  /\ said'[i].event = "Reconnected" => ready /\ said'[i].offline = offline
            BY <2>1, JoinSays DEF Joined
        <3>2. ready => offline = outage /\ outage >= 0
            BY <1>2, <2>1 DEF SupervisorInv, ClocksOK, KindsOK, Joined, Ws!Join
        <3>3. ~ ready => outage = -1
            BY <1>2 DEF SupervisorInv, ClocksOK, KindsOK
        <3>4. QED
            BY <3>1, <3>2, <3>3
    <2>2. CASE Lost
        <3>1. \A i \in 1..Len(said') : said'[i].event = "ConnectionLost"
            BY <2>2, LostSays DEF Lost
        <3>2. QED
            BY <3>1
    <2>3. CASE said' = <<>>
        BY <2>3
    <2>4. QED
        BY <1>2, <2>1, <2>2, <2>3 DEF Next, Listen, Returns, Cancelled, Fatal, GiveUp, Interrupted,
           Stop, Retry, Cancel, Tick, Quiet
<1>3. SupervisorInv /\ [Next]_vars => [\A i \in 1..Len(said') : Told(i)]_vars
    BY <1>2
<1>4. Spec => []SinkShowsTheConnection
    BY <1>1, SupervisorInvariance, PTL
<1>5. Spec => OutagesAreTimedWhole
    BY <1>3, SupervisorInvariance, PTL DEF Spec, OutagesAreTimedWhole
<1>6. QED
    BY <1>4, <1>5 DEF OutagesAreShown

----------------------------------------------------------------------------
(* The ceilings.                                                            *)

\* Induction over the numbers, for a set of them.
LEMMA SetInduction ==
    ASSUME NEW S \in SUBSET Nat, 0 \in S, \A n \in S : n + 1 \in S
    PROVE  S = Nat
<1> SUFFICES ASSUME NEW n \in Nat, n \notin S PROVE FALSE
    OBVIOUS
<1> DEFINE T == {0..k : k \in Nat \ S}
           R == StrictSubsetOrdering(Nat)
<1>1. T \subseteq FiniteSubsetsOf(Nat) /\ T # {}
    <2>1. \A k \in Nat : IsFiniteSet(0..k) /\ 0..k \subseteq Nat
        BY FS_Interval
    <2>2. QED
        BY <2>1 DEF FiniteSubsetsOf
<1>2. PICK s \in T : \A t \in T : <<t, s>> \notin R
    <2>1. IsWellFoundedOn(R, FiniteSubsetsOf(Nat))
        BY FS_StrictSubsetOrderingWellFounded
    <2> HIDE DEF T, R
    <2>2. QED
        BY <1>1, <2>1, WFMin
<1>3. PICK k \in Nat \ S : s = 0..k
    OBVIOUS
<1>4. k # 0 /\ k - 1 \in Nat \ S
    OBVIOUS
<1>5. 0..(k - 1) \in T
    BY <1>4
<1>6. /\ 0..(k - 1) \in SUBSET Nat /\ 0..k \in SUBSET Nat
      /\ 0..(k - 1) \subseteq 0..k /\ k \in 0..k /\ k \notin 0..(k - 1)
    BY <1>4
<1>7. <<0..(k - 1), 0..k>> \in R
    BY <1>6 DEF StrictSubsetOrdering
<1>8. QED
    BY <1>2, <1>3, <1>5, <1>7

\* Doubled is what its equation says.
LEMMA DoubledDef ==
    Doubled = [n \in 0..MaxFailures |->
                 IF n <= 1 THEN FirstCeiling
                 ELSE LET c == Doubled[n - 1] IN IF c < MaxCeiling THEN 2 * c ELSE c]
<1> DEFINE Next1(c) == IF c < MaxCeiling THEN 2 * c ELSE c
           Solves(g, N) == g = [n \in 0..N |-> IF n <= 1 THEN FirstCeiling ELSE Next1(g[n - 1])]
           Solved == {N \in Nat : \E g : Solves(g, N)}
<1>1. 0 \in Solved
    <2>1. Solves([n \in 0..0 |-> FirstCeiling], 0)
        OBVIOUS
    <2>2. QED
        BY <2>1
<1>2. ASSUME NEW N \in Solved PROVE N + 1 \in Solved
    <2>1. PICK g : Solves(g, N)
        OBVIOUS
    <2> DEFINE h == [n \in 0..(N + 1) |-> IF n # N + 1 THEN g[n]
                                          ELSE IF N = 0 THEN FirstCeiling ELSE Next1(g[N])]
    <2>2. ASSUME NEW n \in 0..(N + 1)
          PROVE  h[n] = IF n <= 1 THEN FirstCeiling ELSE Next1(h[n - 1])
        <3>1. CASE n = N + 1
            BY <3>1
        <3>2. CASE n \in 0..N
            BY <2>1, <3>2
        <3>3. QED
            BY <3>1, <3>2
    <2>3. Solves(h, N + 1)
        BY <2>2
    <2> HIDE DEF Solves, h
    <2>4. QED
        BY <2>3
<1> HIDE DEF Solved
<1>3. Solved = Nat
    <2>1. Solved \in SUBSET Nat
        BY DEF Solved
    <2>2. QED
        BY <1>1, <1>2, <2>1, SetInduction
<1>4. PICK g : Solves(g, MaxFailures)
    BY <1>3, PolicyAssumption DEF Solved
<1>5. QED
    BY <1>4 DEF Doubled

\* The first failure's ceiling is the first; none is above the last.
LEMMA CeilingsBound ==
    /\ ReconnectCeiling(1) = FirstCeiling
    /\ \A n \in 0..MaxFailures : ReconnectCeiling(n) \in 0..MaxCeiling
<1> USE PolicyAssumption
<1> DEFINE Typed == {n \in Nat : n <= MaxFailures => Doubled[n] \in Nat}
<1>1. 0 \in Typed
    BY DoubledDef
<1>2. ASSUME NEW n \in Typed PROVE n + 1 \in Typed
    <2>1. CASE n + 1 <= MaxFailures
        <3>1. Doubled[n + 1] = IF n + 1 <= 1 THEN FirstCeiling
                               ELSE IF Doubled[n] < MaxCeiling THEN 2 * Doubled[n] ELSE Doubled[n]
            BY <2>1, DoubledDef
        <3>2. QED
            BY <2>1, <3>1
    <2>2. QED
        BY <2>1
<1> HIDE DEF Typed
<1>3. Typed = Nat
    <2>1. Typed \in SUBSET Nat
        BY DEF Typed
    <2>2. QED
        BY <1>1, <1>2, <2>1, SetInduction
<1>4. \A n \in 0..MaxFailures : Doubled[n] \in Nat
    BY <1>3 DEF Typed
<1>5. 1 \in 0..MaxFailures
    OBVIOUS
<1>6. Doubled[1] = FirstCeiling
    BY <1>5, DoubledDef
<1>7. QED
    BY <1>4, <1>6 DEF ReconnectCeiling, Least

----------------------------------------------------------------------------
(* Counting the failures.                                                   *)

\* What no clock shows: the rest of the types, and how long a wait may be.
WaitOK ==
    /\ cancelled \in BOOLEAN /\ connectedOnce \in BOOLEAN
    /\ said \in Seq(Event) /\ shown \in {"none", "online", "offline"}
    /\ left <= MaxCeiling
    /\ left > 0 => left <= (IF failure.connected THEN FirstCeiling ELSE MaxCeiling)

\* superviseListen knows of every join, at the latest when it judges the failed session;
\* and a run that never joined has few failures behind it.
CountOK ==
    /\ outage # -1 =>
          connectedOnce \/ call = "joined" \/ failure.connected \/ failure = Ws!Canceled
    /\ left >= 0 => outage = -1 \/ connectedOnce
    /\ call # "returned" => failure = Ws!NoError
    /\ outage = -1 => ~ connectedOnce /\ ~ failure.connected /\ failures < MaxInitialAttempts

EndOK ==
    /\ exit = "gave up" => outage = -1 /\ failures + 1 = MaxInitialAttempts
    /\ exit = "fatal" => broken \/ failure.kind \notin {"Connect", "Disconnected"}

CountInv == WaitOK /\ CountOK /\ EndOK

LEMMA EmitTypes ==
    ASSUME NEW events \in Seq(Event), NEW n \in 0..Len(events), Emit(events, n),
           shown \in {"none", "online", "offline"}
    PROVE  said' \in Seq(Event) /\ shown' \in {"none", "online", "offline"}
<1>1. said' \in Seq(Event)
    <2>1. said' = SubSeq(events, 1, n)
        BY DEF Emit
    <2>2. QED
        BY <2>1, SubSeqProperties
<1>2. shown' \in {"none", "online", "offline"}
    <2>1. CASE \E i \in 1..n : events[i].event # "Notice"
        <3> DEFINE k == CHOOSE i \in 1..n : events[i].event # "Notice"
        <3>1. k \in 1..n /\ events[k].event # "Notice"
            BY <2>1
        <3>2. events[k].event \in {"Ready", "Reconnected", "ConnectionLost"}
            <4>1. k \in 1..Len(events)
                BY <3>1
            <4> HIDE DEF k
            <4>2. events[k] \in Event
                BY <4>1
            <4>3. QED
                BY <3>1, <4>2 DEF Event
        <3>3. shown' = Shows(events[k].event)
            BY <2>1 DEF Emit
        <3> HIDE DEF k
        <3>4. QED
            BY <3>2, <3>3 DEF Shows
    <2>2. CASE ~ \E i \in 1..n : events[i].event # "Notice"
        BY <2>2 DEF Emit
    <2>3. QED
        BY <2>1, <2>2
<1>3. QED
    BY <1>1, <1>2

\* A step that says nothing and decides nothing.
LEMMA CountStays ==
    ASSUME CountInv, UNCHANGED <<exit, failures, connectedOnce, broken, shown, failure>>,
           cancelled' \in BOOLEAN, said' \in {said, <<>>}, left' \in Int, left \in Int,
           left' <= left \/ left' = -1,
           outage' = -1 <=> outage = -1, UNCHANGED call
    PROVE  CountInv'
<1>1. said' \in Seq(Event)
    <2>1. <<>> \in Seq(Event) /\ said \in Seq(Event)
        BY DEF CountInv, WaitOK
    <2>2. QED
        BY <2>1
<1>2. WaitOK'
    BY <1>1, PolicyAssumption DEF CountInv, WaitOK
<1>3. CountOK'
    <2>1. left' >= 0 => left >= 0
        OBVIOUS
    <2>2. QED
        BY <2>1 DEF CountInv, CountOK
<1>4. EndOK'
    <2>1. outage = -1 => outage' = -1
        OBVIOUS
    <2>2. QED
        BY <2>1 DEF CountInv, EndOK
<1>5. QED
    BY <1>2, <1>3, <1>4 DEF CountInv

LEMMA InitCountInv == Init => CountInv
<1> SUFFICES ASSUME Init PROVE CountInv
    OBVIOUS
<1>1. ~ failure.connected /\ said \in Seq(Event)
    BY DEF Init, Ws!CallInit, Ws!NoError, Ws!Error
<1>2. WaitOK
    <2>1. cancelled \in BOOLEAN /\ connectedOnce \in BOOLEAN
        BY DEF Init
    <2>2. left = -1 /\ shown = "none"
        BY DEF Init
    <2>3. QED
        BY <1>1, <2>1, <2>2, PolicyAssumption DEF WaitOK
<1>3. CountOK /\ EndOK
    BY <1>1, PolicyAssumption DEF Init, Ws!CallInit, CountOK, EndOK
<1>4. QED
    BY <1>2, <1>3 DEF CountInv

\* A new call: what the last one failed with has been counted.
LEMMA StartCounts ==
    ASSUME SupervisorInv, CountInv, exit = "running", Ws!Start, Quiet,
           call = "none" \/ left = 0, left' \in {left, -1}, call = "none" => left = -1,
           UNCHANGED <<exit, failures, connectedOnce, outage, cancelled>>,
           call = "returned" => outage = -1 \/ connectedOnce
    PROVE  CountInv'
<1>1. said' \in Seq(Event) /\ broken' = broken /\ shown' = shown
    BY DEF Quiet
<1>2. /\ call' = "connecting" /\ ~ failure'.connected
    BY DEF Ws!Start, Ws!NoError, Ws!Error
<1>3. WaitOK'
    BY <1>1, PolicyAssumption DEF CountInv, WaitOK
<1>4. CountOK'
    BY <1>2 DEF CountInv, CountOK, Ws!Start, SupervisorInv, PlaceOK
<1>5. EndOK'
    BY DEF EndOK
<1>6. QED
    BY <1>3, <1>4, <1>5 DEF CountInv

LEMMA JoinedCounts == SupervisorInv /\ CountInv /\ Joined => CountInv'
<1> SUFFICES ASSUME SupervisorInv, CountInv, Joined PROVE CountInv'
    OBVIOUS
<1>1. PICK n \in 0..Len(JoinEvents) : Emit(JoinEvents, n)
    BY DEF Joined
<1>2. JoinEvents \in Seq(Event)
    <2>1. Say("Notice") \in Event /\ Say("Ready") \in Event
        BY PolicyAssumption DEF Say, Event
    <2>3. [event |-> "Reconnected", offline |-> offline] \in Event
        <3>1. offline \in -1..MaxOffline
            BY DEF SupervisorInv, KindsOK
        <3>2. QED
            BY <3>1 DEF Event
    <2>2. QED
        BY <2>1, <2>3 DEF JoinEvents
<1>3. said' \in Seq(Event) /\ shown' \in {"none", "online", "offline"}
    BY <1>1, <1>2, EmitTypes DEF CountInv, WaitOK
<1>4. WaitOK'
    BY <1>3 DEF CountInv, WaitOK, Joined, Ws!Join, policy
<1>5. CountOK' /\ EndOK'
    BY DEF CountInv, CountOK, EndOK, Joined, Ws!Join, policy, SupervisorInv, PlaceOK
<1>6. QED
    BY <1>4, <1>5 DEF CountInv

LEMMA ReturnsCounts ==
    ASSUME NEW e \in Ws!Errors, SupervisorInv, CountInv, Returns(e)
    PROVE  CountInv'
<1>1. /\ call \in {"connecting", "joined"} /\ call' = "returned" /\ failure' = e
      /\ left = -1 /\ left' = left /\ outage' = outage /\ exit' = "running" /\ broken' = broken
      /\ UNCHANGED <<failures, connectedOnce>>
    BY DEF Returns, Ws!Return, SupervisorInv, PlaceOK, KindsOK, policy, Quiet
<1>2. e = Ws!Canceled \/ e.connected = (call = "joined")
    BY DEF Returns, Ws!Return
<1>3. said' = <<>> /\ shown' = shown /\ cancelled' = cancelled
    BY DEF Returns, Quiet
<1>4. WaitOK'
    BY <1>1, <1>3, PolicyAssumption DEF CountInv, WaitOK
<1>5. call = "joined" => outage # -1
    BY DEF SupervisorInv, ClocksOK
<1>6. ~ Ws!Canceled.connected
    BY DEF Ws!Canceled, Ws!Error
<1>7. call = "connecting" => outage = -1 \/ connectedOnce
    <2>1. ~ Ws!NoError.connected /\ Ws!NoError # Ws!Canceled
        BY DEF Ws!NoError, Ws!Canceled, Ws!Error
    <2>2. QED
        BY <2>1 DEF CountInv, CountOK
<1>8. CountOK' /\ EndOK'
    BY <1>1, <1>2, <1>5, <1>6, <1>7 DEF CountInv, CountOK, EndOK
<1>9. QED
    BY <1>4, <1>8 DEF CountInv

LEMMA NothingEmitted == ASSUME NEW S PROVE <<>> \in Seq(S)
    OBVIOUS

LEMMA StopCounts ==
    ASSUME NEW how \in {"cancelled", "fatal", "gave up"}, SupervisorInv, CountInv, Stop(how),
           how = "gave up" => outage = -1 /\ failures + 1 = MaxInitialAttempts,
           how = "fatal" => failure.kind \notin {"Connect", "Disconnected"}
    PROVE  CountInv'
<1>1. /\ UNCHANGED <<call, failure, cancelled, policy, left, outage, shown, broken>>
      /\ said' = <<>> /\ exit' = how
    BY DEF Stop, Quiet
<1>2. WaitOK'
    <2>1. /\ cancelled' \in BOOLEAN /\ connectedOnce' \in BOOLEAN
          /\ shown' \in {"none", "online", "offline"}
        BY <1>1 DEF CountInv, WaitOK, policy
    <2>2. said' \in Seq(Event)
        <3>1. <<>> \in Seq(Event)
            BY NothingEmitted
        <3>2. said' = <<>>
            BY <1>1
        <3>3. QED
            BY <3>1, <3>2
    <2>3. QED
        BY <1>1, <2>1, <2>2 DEF CountInv, WaitOK
<1>3. CountOK' /\ EndOK'
    BY <1>1 DEF CountInv, CountOK, EndOK, policy
<1>4. QED
    BY <1>2, <1>3 DEF CountInv

LEMMA GiveUpCounts == SupervisorInv /\ CountInv /\ GiveUp => CountInv'
<1> SUFFICES ASSUME SupervisorInv, CountInv, GiveUp PROVE CountInv'
    OBVIOUS
<1>1. ~ connectedOnce /\ ~ failure.connected /\ call = "returned" /\ failure # Ws!Canceled
    BY DEF GiveUp, GivesUp, Judging, Ended
<1>2. outage = -1 /\ failures < MaxInitialAttempts
    BY <1>1 DEF CountInv, CountOK
<1>3. failures + 1 = MaxInitialAttempts
    <2>1. failures \in 0..MaxFailures
        BY DEF SupervisorInv, KindsOK
    <2>2. Least(failures + 1, MaxFailures) >= MaxInitialAttempts
        BY <1>1 DEF GiveUp, GivesUp, FailuresNow
    <2>3. QED
        BY <1>2, <2>1, <2>2, PolicyAssumption DEF Least
<1>4. QED
    BY <1>2, <1>3, StopCounts DEF GiveUp

LEMMA LostCounts == SupervisorInv /\ CountInv /\ Lost => CountInv'
<1> SUFFICES ASSUME SupervisorInv, CountInv, Lost PROVE CountInv'
    OBVIOUS
<1>1. /\ call = "returned" /\ failure # Ws!Canceled /\ left = -1 /\ exit = "running"
      /\ UNCHANGED <<call, failure, cancelled, outage>>
      /\ connectedOnce' = (connectedOnce \/ failure.connected)
    BY DEF Lost, Judging, Ended
<1>2. /\ failures' = Least(IF failure.connected THEN 1 ELSE failures + 1, MaxFailures)
      /\ failures' \in 1..MaxFailures
    <2>1. failures' = Least(IF failure.connected THEN 1 ELSE failures + 1, MaxFailures)
        BY DEF Lost, Backoff, FailuresNow
    <2>2. failures \in 0..MaxFailures
        BY DEF SupervisorInv, KindsOK
    <2>3. \A k \in 1..(MaxFailures + 1) : Least(k, MaxFailures) \in 1..MaxFailures
        BY PolicyAssumption DEF Least
    <2>4. (IF failure.connected THEN 1 ELSE failures + 1) \in 1..(MaxFailures + 1)
        BY <2>2, PolicyAssumption
    <2>5. QED
        BY <2>1, <2>3, <2>4
<1>3. failure.connected => failures' = 1
    BY <1>2, PolicyAssumption DEF Least
<1>4. PICK n \in 0..1 : Emit(<<Say("ConnectionLost")>>, n)
    BY DEF Lost
<1>5. said' \in Seq(Event) /\ shown' \in {"none", "online", "offline"}
    <2> DEFINE events == <<Say("ConnectionLost")>>
    <2>1. events \in Seq(Event) /\ Len(events) = 1
        BY PolicyAssumption DEF Say, Event
    <2> HIDE DEF events
    <2>2. n \in 0..Len(events) /\ Emit(events, n)
        BY <1>4, <2>1 DEF events
    <2>3. QED
        BY <2>1, <2>2, EmitTypes DEF CountInv, WaitOK
<1>6. /\ left' \in 0..ReconnectCeiling(failures') \/ left' = -1
      /\ exit' = "running" \/ (exit' = "fatal" /\ broken')
    <2>1. Emit(<<Say("ConnectionLost")>>, 0) => broken'
        <3>1. Len(<<Say("ConnectionLost")>>) = 1
            OBVIOUS
        <3>2. Emit(<<Say("ConnectionLost")>>, 0) => broken' = (0 < 1)
            BY <3>1 DEF Emit
        <3>3. 0 < 1
            OBVIOUS
        <3>4. QED
            BY <3>2, <3>3
    <2>2. QED
        BY <1>1, <2>1 DEF Lost, Judging, Backoff
<1>7. left' <= MaxCeiling /\ (left' > 0 => left' <= (IF failure.connected THEN FirstCeiling ELSE MaxCeiling))
    <2>1. ReconnectCeiling(failures') \in 0..MaxCeiling
        BY <1>2, CeilingsBound
    <2>2. failure.connected => ReconnectCeiling(failures') = FirstCeiling
        BY <1>3, CeilingsBound
    <2>3. QED
        BY <1>6, <2>1, <2>2, PolicyAssumption
<1>8. WaitOK'
    <2>1. connectedOnce' \in BOOLEAN
        BY <1>1
    <2>2. QED
        BY <1>1, <1>5, <1>7, <2>1 DEF CountInv, WaitOK
<1>9. CountOK'
    <2>1. outage # -1 => connectedOnce'
        BY <1>1 DEF CountInv, CountOK
    <2>2. outage = -1 => ~ connectedOnce' /\ ~ failure.connected
        BY <1>1 DEF CountInv, CountOK
    <2>3. outage = -1 => failures' < MaxInitialAttempts
        BY <1>2, <2>2, PolicyAssumption DEF Lost, GivesUp, FailuresNow, CountInv, CountOK
    <2>4. QED
        BY <1>1, <2>1, <2>2, <2>3 DEF CountOK
<1>10. EndOK'
    BY <1>6 DEF EndOK
<1>11. QED
    BY <1>8, <1>9, <1>10 DEF CountInv

LEMMA TickCounts == SupervisorInv /\ CountInv /\ Tick => CountInv'
<1> SUFFICES ASSUME SupervisorInv, CountInv, Tick PROVE CountInv'
    OBVIOUS
<1>1. \A t \in -1..MaxOffline : Later(t) = -1 <=> t = -1
    BY PolicyAssumption DEF Later, Least
<1>2. outage' = -1 <=> outage = -1
    BY <1>1 DEF Tick, SupervisorInv, KindsOK
<1>3. left \in Int /\ left' \in Int /\ left' <= left /\ (left' >= 0 => left >= 0)
    BY DEF Tick, SupervisorInv, KindsOK
<1>4. /\ UNCHANGED <<exit, failures, connectedOnce, broken, shown, failure, call, cancelled>>
      /\ said' = <<>>
    BY DEF Tick, Quiet, policy
<1>5. cancelled' \in BOOLEAN
    BY <1>4 DEF CountInv, WaitOK
<1>6. QED
    BY <1>2, <1>3, <1>4, <1>5, CountStays

LEMMA NextCounts == SupervisorInv /\ CountInv /\ [Next]_vars => CountInv'
<1> SUFFICES ASSUME SupervisorInv, CountInv, [Next]_vars PROVE CountInv'
    OBVIOUS
<1>0. left \in Int /\ cancelled \in BOOLEAN /\ exit \in {"running", "cancelled", "fatal", "gave up"}
    BY DEF SupervisorInv, KindsOK, CountInv, WaitOK
<1>1. CASE Listen
    <2>1. call = "none" /\ left = -1 /\ left' = left /\ exit = "running"
        BY <1>0, <1>1 DEF Listen, SupervisorInv, PlaceOK, KindsOK
    <2>2. QED
        BY <1>1, <2>1, StartCounts DEF Listen, policy
<1>2. CASE Retry
    <2>1. call = "returned" /\ (outage = -1 \/ connectedOnce)
        BY <1>2 DEF Retry, SupervisorInv, PlaceOK, CountInv, CountOK
    <2>2. QED
        BY <1>2, <2>1, StartCounts DEF Retry, policy
<1>3. CASE Cancelled \/ Interrupted
    BY <1>3, StopCounts DEF Cancelled, Interrupted
<1>4. CASE Fatal
    BY <1>4, StopCounts DEF Fatal, Ws!Retryable
<1>5. CASE Cancel
    BY <1>0, <1>5, CountStays DEF Cancel, Quiet, policy
<1>6. CASE UNCHANGED vars
    <2>1. /\ UNCHANGED <<exit, failures, connectedOnce, broken, shown, failure>>
          /\ UNCHANGED <<cancelled, said, left, outage, call>>
        BY <1>6 DEF vars, policy, output
    <2>2. cancelled' \in BOOLEAN /\ left' \in Int /\ left' <= left
        <3>1. cancelled' = cancelled /\ left' = left
            BY <2>1
        <3>2. left \in Int => left <= left
            OBVIOUS
        <3>3. QED
            BY <1>0, <3>1, <3>2
    <2>3. QED
        BY <1>0, <2>1, <2>2, CountStays
<1>7. QED
    BY <1>1, <1>2, <1>3, <1>4, <1>5, <1>6, JoinedCounts, ReturnsCounts, GiveUpCounts, LostCounts,
       TickCounts DEF Next

\* Whatever the policy: attempts are bounded until the first join and by it, no
\* retryable failure ends the run after it, and a wait keeps to its ceiling, to
\* the first one after a session that had joined.
THEOREM FailuresCorrect == Spec => []FailuresCountSinceAJoin
<1>1. SupervisorInv /\ CountInv => FailuresCountSinceAJoin
    <2> SUFFICES ASSUME SupervisorInv, CountInv PROVE FailuresCountSinceAJoin
        OBVIOUS
    <2>1. TypeOK
        <3>1. left \in -1..MaxCeiling
            <4>1. left \in Int /\ left >= -1 /\ left <= MaxCeiling
                BY DEF SupervisorInv, KindsOK, CountInv, WaitOK
            <4>2. QED
                BY <4>1, PolicyAssumption
        <3>2. /\ cancelled \in BOOLEAN /\ connectedOnce \in BOOLEAN
              /\ said \in Seq(Event) /\ shown \in {"none", "online", "offline"}
            BY DEF CountInv, WaitOK
        <3>3. KindsOK
            BY DEF SupervisorInv
        <3>4. QED
            BY <3>1, <3>2, <3>3, Zenon DEF TypeOK, KindsOK
    <2>2. QED
        BY <2>1 DEF FailuresCountSinceAJoin, CountInv, WaitOK, CountOK, EndOK
<1>2. QED
    BY <1>1, SupervisorInvariance, InitCountInv, NextCounts, PTL DEF Spec
=============================================================================
