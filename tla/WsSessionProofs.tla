--------------------------- MODULE WsSessionProofs --------------------------
(* One call of Listen, for any deliveries, limits and bounds: what it sends,  *)
(* what it answers, which replies count, and what its caller sees.            *)
EXTENDS WsSession, FiniteSetTheorems, TLAPS

----------------------------------------------------------------------------
(* The invariants.                                                            *)

Started == {"awaiting", "hook", "reading", "handling", "answering", "sending"}
InHand == {"handling", "answering", "sending"}
Gone == {"leaving", "returned"}

\* Where Listen is says who writes, what was logged and how it fails.
PlacesOK ==
    /\ pc \in {"none", "dialing", "joining", "awaiting"} => ~ joined
    /\ pc \in {"hook", "reading"} \cup InHand => joined
    /\ pc \in {"none", "dialing", "joining", "awaiting", "hook"} => heart = "none" /\ current = None
    /\ pc \in {"none", "dialing", "joining"} => log = <<>>
    /\ pc \in Started \/ heart # "none" => log # <<>>
    /\ pc \in Started => conn # "none"
    /\ writer = "listen" <=> pc = "sending"
    /\ writer = "heartbeat" <=> heart \in {"writing", "written"}
    /\ reason = "none" <=> pc \notin Gone
    /\ pc = "handling" => ~ handlerErr
    /\ pc \notin Gone => result = Call!NoError
    /\ pc \in Gone => /\ result \in Call!Errors
                      /\ result # Call!Canceled => result.connected = joined

\* A writer has taken a ref and its frame has not reached Hookspot.
Unwritten == writer # "free" /\ heart # "written"

\* Every ref in the log is older than the one a writer has yet to use.
LogOK ==
    /\ \A i \in 1..Len(log) : log[i].ref <= ref /\ (Unwritten => log[i].ref < ref)
    /\ \A i, j \in 1..Len(log) : i < j => log[i].ref < log[j].ref
    /\ \A i \in 1..Len(log) : log[i].kind = "join" <=> i = 1

\* A delivery is on its way, in hand or answered, and only one of these.
DeliveriesOK ==
    /\ \A i, j \in Responses : log[i].delivery = log[j].delivery => i = j
    /\ Answered \subseteq pushed
    /\ \A i \in 1..Len(inbox) : inbox[i].kind = "delivery" =>
          /\ inbox[i].delivery \in pushed \ Answered
          /\ pc \in InHand => inbox[i].delivery # current
          /\ \A j \in 1..Len(inbox) :
                inbox[j].kind = "delivery" /\ inbox[j].delivery = inbox[i].delivery => i = j
    /\ pc \in InHand => current \in pushed \ Answered
    /\ pc = "reading" => current \in Answered \cup {None}
    /\ reason = "handler" /\ handlerErr => current \in Answered

AnswersInv == TypeOK /\ PlacesOK /\ LogOK /\ DeliveriesOK

\* A failed heartbeat is in heartbeatErr before it closes the connection.
ClosedOK ==
    /\ heart = "reported" => heartErr
    /\ closedBy = "heartbeat" => heartErr
    /\ reason = "read message" => conn = "closed" /\ closedBy # "heartbeat"

\* The tracker holds the heartbeats whose reply is awaited, and no others.
TrackerHolds == awaited = {pending[i] : i \in 1..Len(pending)}

BeatsInv == ClosedOK /\ TrackerHolds

----------------------------------------------------------------------------
(* Types, in parts.                                                           *)

Replies == {"delivery", "bad delivery", "close", "pong", "malformed"} \cup JoinReplies

PlainOK ==
    /\ pc \in {"none", "dialing", "joining"} \cup Started \cup Gone
    /\ joined \in BOOLEAN /\ handlerErr \in BOOLEAN /\ cancelled \in BOOLEAN
    /\ heartErr \in BOOLEAN /\ done \in BOOLEAN /\ beat \in BOOLEAN
    /\ result \in Call!Errors \cup {Call!NoError}
    /\ current \in Deliveries \cup {None}
    /\ conn \in {"none", "open", "broken", "closed"}
    /\ closedBy \in {"nobody", "listen", "heartbeat", "watcher"}
    /\ watcher \in {"none", "watching", "ended"}
    /\ heart \in {"none", "waiting", "writing", "written", "failed", "reported", "ended"}
    /\ writer \in {"free", "listen", "heartbeat"}
    /\ ref \in Nat /\ idle \in 0..IdleTicks
    /\ server \in {"up", "zombie", "gone"}

TrackerOK ==
    /\ pending \in Seq(1..ref) /\ Len(pending) <= MaxPending
    /\ \A i, j \in 1..Len(pending) : i < j => pending[i] < pending[j]
    /\ {heard, awaited} \subseteq SUBSET (1..ref)

FramesOK ==
    /\ inbox \in Seq(FrameOf(Replies))
    /\ log \in Seq(FrameOf({"join", "heartbeat", "response"}))
    /\ pushed \subseteq Deliveries

LEMMA TypeParts == TypeOK <=> PlainOK /\ TrackerOK /\ FramesOK
<1>1. {joined, handlerErr, cancelled, heartErr, done, beat} \subseteq BOOLEAN
      <=> /\ joined \in BOOLEAN /\ handlerErr \in BOOLEAN /\ cancelled \in BOOLEAN
          /\ heartErr \in BOOLEAN /\ done \in BOOLEAN /\ beat \in BOOLEAN
    BY Zenon
<1>2. QED
    BY <1>1, Zenon DEF TypeOK, PlainOK, TrackerOK, FramesOK, Replies, Started, Gone

----------------------------------------------------------------------------
(* Leaving, with an error that tells whether Listen had joined.               *)

Left(why) ==
    /\ pc' = "leaving" /\ reason' = why /\ done' = TRUE
    /\ conn' = IF conn = "none" THEN conn ELSE "closed"
    /\ closedBy' = IF conn \in {"open", "broken"} THEN "listen" ELSE closedBy
    /\ UNCHANGED <<joined, current, handlerErr>>
    /\ result' \in Call!Errors
    /\ result' # Call!Canceled => result'.connected = joined

LEMMA LeavesEarly ==
    ASSUME NEW kind \in {"Connect", "Authentication", "Protocol", "NotFound", "Outdated"}, NEW why,
           joined = FALSE, LeaveUnlessCancelled(Error(kind), why)
    PROVE  Left(why)
BY DEF LeaveUnlessCancelled, Leave, Left, Error, Call!Error, Call!Errors, Call!BeforeJoin,
       Call!Canceled

LEMMA LeavesLate ==
    ASSUME NEW kind \in {"Disconnected", "Protocol", "Handler"}, NEW why, joined = TRUE,
           LeaveUnlessCancelled(Error(kind), why) \/ Leave(Error(kind), why)
    PROVE  Left(why)
<1>1. Error(kind) \in Call!Errors /\ Error(kind).connected = joined
    BY DEF Error, Call!Error, Call!Errors, Call!AfterJoin
<1>2. Call!Canceled \in Call!Errors
    BY DEF Call!Errors
<1>3. \E e \in {Error(kind), Call!Canceled} : Leave(e, why)
    BY DEF LeaveUnlessCancelled
<1>4. QED
    BY <1>1, <1>2, <1>3 DEF Leave, Left

LEMMA LeavesCancelled ==
    ASSUME NEW why, Leave(Call!Canceled, why)
    PROVE  Left(why)
BY DEF Leave, Left, Call!Errors

----------------------------------------------------------------------------
(* Sequences.                                                                 *)

LEMMA SeqFacts ==
    ASSUME NEW S, NEW s \in Seq(S)
    PROVE  Len(s) \in Nat /\ \A i \in 1..Len(s) : s[i] \in S
OBVIOUS

LEMMA AppendFacts ==
    ASSUME NEW S, NEW s \in Seq(S), NEW e \in S
    PROVE  /\ Append(s, e) \in Seq(S) /\ Len(Append(s, e)) = Len(s) + 1 /\ Len(s) \in Nat
           /\ \A i \in 1..Len(s) : Append(s, e)[i] = s[i]
           /\ Append(s, e)[Len(s) + 1] = e
OBVIOUS

LEMMA TailFacts ==
    ASSUME NEW S, NEW s \in Seq(S), s # <<>>
    PROVE  /\ Tail(s) \in Seq(S) /\ Len(Tail(s)) = Len(s) - 1 /\ Len(s) \in Nat \ {0}
           /\ \A i \in 1..Len(Tail(s)) : i + 1 \in 1..Len(s) /\ Tail(s)[i] = s[i + 1]
           /\ Head(s) = s[1] /\ s[1] \in S
OBVIOUS

LEMMA WiderSeq ==
    ASSUME NEW m \in Nat, NEW n \in Nat, m <= n, NEW s \in Seq(1..m)
    PROVE  s \in Seq(1..n)
<1>1. \A i \in 1..Len(s) : s[i] \in 1..n
    OBVIOUS
<1>2. QED
    BY <1>1

\* t is p with at most one place left out.
LeavesOneOut(t, p) ==
    \E k \in 1..(Len(p) + 1) :
        \A i \in 1..Len(t) :
            /\ IF i < k THEN i \in 1..Len(p) ELSE i + 1 \in 1..Len(p)
            /\ t[i] = IF i < k THEN p[i] ELSE p[i + 1]

LEMMA TakenFacts ==
    ASSUME NEW S, NEW p \in Seq(S), NEW r,
           \A i, j \in 1..Len(p) : p[i] = p[j] => i = j
    PROVE  /\ Taken(p, r) \in Seq(S) /\ Len(Taken(p, r)) \in Nat /\ Len(Taken(p, r)) <= Len(p)
           /\ LeavesOneOut(Taken(p, r), p)
           /\ \A i \in 1..Len(p) : p[i] # r => \E j \in 1..Len(Taken(p, r)) : Taken(p, r)[j] = p[i]
           /\ \A j \in 1..Len(Taken(p, r)) : Taken(p, r)[j] # r
<1>1. CASE \E i \in 1..Len(p) : p[i] = r
    <2> DEFINE k == CHOOSE i \in 1..Len(p) : p[i] = r
    <2>1. k \in 1..Len(p) /\ p[k] = r
        BY <1>1
    <2>2. Taken(p, r) = SubSeq(p, 1, k - 1) \o SubSeq(p, k + 1, Len(p))
        BY <1>1 DEF Taken, RemoveAt
    <2> HIDE DEF k
    <2> DEFINE t == SubSeq(p, 1, k - 1) \o SubSeq(p, k + 1, Len(p))
    <2> DEFINE front == SubSeq(p, 1, k - 1)
               back == SubSeq(p, k + 1, Len(p))
    <2>10. /\ front \in Seq(S) /\ Len(front) = k - 1
           /\ \A i \in 1..(k - 1) : front[i] = p[i]
        BY <2>1
    <2>11. /\ back \in Seq(S) /\ Len(back) = Len(p) - k
           /\ \A i \in 1..(Len(p) - k) : back[i] = p[k + i]
        BY <2>1
    <2>12. t = front \o back
        OBVIOUS
    <2> HIDE DEF t, front, back
    <2>3. /\ t \in Seq(S) /\ Len(t) = Len(p) - 1 /\ Len(p) \in Nat
          /\ \A i \in 1..Len(t) : t[i] = IF i < k THEN front[i] ELSE back[i - (k - 1)]
        BY <2>1, <2>10, <2>11, <2>12
    <2>4. \A i \in 1..Len(t) : /\ IF i < k THEN i \in 1..Len(p) ELSE i + 1 \in 1..Len(p)
                               /\ t[i] = IF i < k THEN p[i] ELSE p[i + 1]
        BY <2>1, <2>3, <2>10, <2>11
    <2>5. \A i \in 1..Len(p) : p[i] # r => \E j \in 1..Len(t) : t[j] = p[i]
        <3> SUFFICES ASSUME NEW i \in 1..Len(p), p[i] # r PROVE \E j \in 1..Len(t) : t[j] = p[i]
            OBVIOUS
        <3>1. CASE i < k
            <4>1. i \in 1..Len(t) /\ t[i] = p[i]
                BY <3>1, <2>1, <2>3, <2>4
            <4>2. QED
                BY <4>1
        <3>2. CASE i > k
            <4>1. i - 1 \in 1..Len(t) /\ t[i - 1] = p[i]
                BY <3>2, <2>1, <2>3, <2>4
            <4>2. QED
                BY <4>1
        <3>3. QED
            BY <3>1, <3>2, <2>1
    <2>6. \A j \in 1..Len(t) : t[j] # r
        <3> SUFFICES ASSUME NEW j \in 1..Len(t), t[j] = r PROVE FALSE
            OBVIOUS
        <3>1. CASE j < k
            <4>1. j \in 1..Len(p) /\ p[j] = r
                BY <3>1, <2>4
            <4>2. QED
                BY <3>1, <4>1, <2>1
        <3>2. CASE ~ j < k
            <4>1. j + 1 \in 1..Len(p) /\ p[j + 1] = r
                BY <3>2, <2>4
            <4>2. j + 1 = k
                BY <4>1, <2>1
            <4>3. QED
                BY <3>2, <4>2, <2>1, <2>3
        <3>3. QED
            BY <3>1, <3>2
    <2>7. t = Taken(p, r)
        BY <2>2 DEF t
    <2>8. k \in 1..(Len(p) + 1) /\ Len(t) \in Nat /\ Len(t) <= Len(p)
        BY <2>1, <2>3
    <2>9. LeavesOneOut(t, p)
        BY <2>4, <2>8 DEF LeavesOneOut
    <2>13. QED
        BY <2>3, <2>5, <2>6, <2>7, <2>8, <2>9
<1>2. CASE ~ \E i \in 1..Len(p) : p[i] = r
    <2>1. Taken(p, r) = p /\ Len(p) \in Nat
        BY <1>2 DEF Taken
    <2>2. Len(p) + 1 \in 1..(Len(p) + 1) /\ \A i \in 1..Len(p) : i < Len(p) + 1
        BY <2>1
    <2>3. LeavesOneOut(p, p)
        BY <2>2 DEF LeavesOneOut
    <2>4. QED
        BY <1>2, <2>1, <2>3
<1>3. QED
    BY <1>1, <1>2

----------------------------------------------------------------------------
(* Where Listen is, and how it fails.                                         *)

Flow == PlainOK /\ PlacesOK /\ FramesOK

LEMMA FlowLeaves ==
    ASSUME NEW why, why # "none", Flow, Left(why), pc \notin Gone,
           UNCHANGED <<heartVars, server, cancelled, watcher>>,
           idle' \in 0..IdleTicks, ref' \in Nat, log' = log \/ log' # <<>>,
           writer' = IF pc = "sending" THEN "free" ELSE writer
    PROVE  PlainOK' /\ PlacesOK'
<1>1. PlainOK'
    BY DEF Flow, PlainOK, Left, heartVars, Gone
<1>2. PlacesOK'
    BY DEF Flow, PlainOK, PlacesOK, Left, heartVars, Gone, InHand, Started
<1>3. QED
    BY <1>1, <1>2

LEMMA FlowDials == Flow /\ (Dial \/ Acquire \/ Upgrade) => PlainOK' /\ PlacesOK'
<1> SUFFICES ASSUME Flow, Dial \/ Acquire \/ Upgrade PROVE PlainOK' /\ PlacesOK'
    OBVIOUS
<1> USE DEF Flow, PlainOK, PlacesOK, Stay, loopVars, connVars, heartVars, writerVars, serverVars,
            Gone, InHand, Started
<1>1. CASE Dial
    BY <1>1 DEF Dial
<1>2. CASE Acquire
    BY <1>2 DEF Acquire
<1>3. CASE Upgrade
    BY <1>3 DEF Upgrade
<1>4. QED
    BY <1>1, <1>2, <1>3

LEMMA FlowDialFails == Flow /\ DialFails => PlainOK' /\ PlacesOK'
<1> SUFFICES ASSUME Flow, DialFails PROVE PlainOK' /\ PlacesOK'
    OBVIOUS
<1>1. pc = "dialing" /\ joined = FALSE
    BY DEF DialFails, Flow, PlainOK, PlacesOK
<1>2. Left("dial")
    BY <1>1, LeavesEarly DEF DialFails
<1>3. QED
    BY <1>1, <1>2, FlowLeaves DEF DialFails, Flow, PlainOK, writerVars, serverVars, Gone

LEMMA FlowJoins == Flow /\ Join => PlainOK' /\ PlacesOK'
<1> SUFFICES ASSUME Flow, Join PROVE PlainOK' /\ PlacesOK'
    OBVIOUS
<1>0. pc = "joining" /\ joined = FALSE
    BY DEF Join, Flow, PlainOK, PlacesOK
<1>1. ref' \in Nat /\ ref \in Nat /\ idle' \in 0..IdleTicks
    <2>1. ref \in Nat /\ ref' = ref + 1 /\ idle' = 1
        BY DEF Join, Flow, PlainOK
    <2>2. QED
        BY <2>1, LimitAssumption
<1>2. CASE conn = "open" /\ log' = Append(log, Frame("join", ref', None)) /\ Stay("awaiting")
    <2>1. log' # <<>>
        <3>1. Frame("join", ref', None) \in FrameOf({"join", "heartbeat", "response"})
            BY <1>1 DEF Frame, FrameOf
        <3>2. Len(log') = Len(log) + 1 /\ Len(log) \in Nat
            BY <1>2, <3>1, AppendFacts DEF Flow, FramesOK
        <3>3. QED
            BY <3>2
    <2>2. QED
        BY <1>0, <1>1, <1>2, <2>1 DEF Join, Flow, PlainOK, PlacesOK, Stay, loopVars, connVars, heartVars,
           writerVars, serverVars, Gone, InHand, Started
<1>3. CASE LeaveUnlessCancelled(Error("Connect"), "send join") /\ UNCHANGED log
    <2>1. Left("send join")
        BY <1>0, <1>1, <1>3, LeavesEarly
    <2>2. QED
        BY <1>0, <1>1, <1>3, <2>1, FlowLeaves DEF Join, Flow, serverVars, Gone
<1>4. QED
    BY <1>2, <1>3 DEF Join

LEMMA FlowAwaits == Flow /\ (AwaitFails \/ Await) => PlainOK' /\ PlacesOK'
<1> SUFFICES ASSUME Flow, AwaitFails \/ Await PROVE PlainOK' /\ PlacesOK'
    OBVIOUS
<1>1. /\ pc = "awaiting" /\ joined = FALSE /\ ref \in Nat /\ idle \in 0..IdleTicks
      /\ UNCHANGED <<heartVars, writerVars, serverVars, cancelled, watcher, idle, log>>
    BY DEF AwaitFails, Await, Flow, PlainOK, PlacesOK
<1>2. CASE \E why \in {"read join reply", "join rejected", "invalid frame"} : Left(why)
    BY <1>1, <1>2, FlowLeaves DEF Flow, writerVars, serverVars, Gone
<1>3. CASE AwaitFails
    BY <1>1, <1>2, <1>3, LeavesEarly DEF AwaitFails
<1>4. CASE Await
    <2>1. CASE pc' = "hook" /\ joined' = TRUE
               /\ UNCHANGED <<result, reason, current, handlerErr, connVars>>
        BY <1>1, <2>1 DEF Flow, PlainOK, PlacesOK, Stay, connVars, heartVars,
           writerVars, serverVars, Gone, InHand, Started
    <2>2. CASE Stay("awaiting")
        BY <1>1, <2>2 DEF Flow, PlainOK, PlacesOK, Stay, connVars, heartVars,
           writerVars, serverVars, Gone, InHand, Started
    <2>3. CASE /\ Next1.kind \in {"Authentication", "NotFound", "Outdated", "Protocol"}
               /\ LeaveUnlessCancelled(Error(Next1.kind), "join rejected")
        BY <1>1, <1>2, <2>3, LeavesEarly
    <2>4. CASE LeaveUnlessCancelled(Error("Protocol"), "invalid frame")
        BY <1>1, <1>2, <2>4, LeavesEarly
    <2>5. QED
        BY <1>4, <2>1, <2>2, <2>3, <2>4 DEF Await
<1>5. QED
    BY <1>3, <1>4

LEMMA FlowHooks == Flow /\ Hook => PlainOK' /\ PlacesOK'
<1> SUFFICES ASSUME Flow, Hook PROVE PlainOK' /\ PlacesOK'
    OBVIOUS
<1>1. pc = "hook" /\ joined = TRUE /\ ref \in Nat /\ idle \in 0..IdleTicks
    BY DEF Hook, Flow, PlainOK, PlacesOK
<1>2. CASE (\E why \in {"on joined", "set deadline"} : Left(why)) /\ UNCHANGED <<heart, idle>>
    BY <1>1, <1>2, FlowLeaves DEF Hook, Flow, heartVars, writerVars, serverVars, Gone
<1>3. CASE Stay("reading") /\ idle' = IdleTicks /\ heart' = "waiting"
    BY <1>1, <1>3, LimitAssumption DEF Hook, Flow, PlainOK, PlacesOK, Stay, connVars, heartVars,
       writerVars, serverVars, Gone, InHand, Started
<1>4. QED
    BY <1>1, <1>2, <1>3, LeavesLate DEF Hook

LEMMA FlowReads == Flow /\ (ReadFails \/ ReadReply \/ ReadFrame) => PlainOK' /\ PlacesOK'
<1> SUFFICES ASSUME Flow, ReadFails \/ ReadReply \/ ReadFrame PROVE PlainOK' /\ PlacesOK'
    OBVIOUS
<1>1. /\ pc = "reading" /\ joined = TRUE /\ ref \in Nat /\ idle \in 0..IdleTicks
      /\ UNCHANGED <<heartVars, writer, ref, serverVars, cancelled, watcher, log>>
    BY DEF ReadFails, ReadReply, ReadFrame, Flow, PlainOK, PlacesOK, writerVars
<1>2. ASSUME NEW why, why # "none", Left(why), UNCHANGED idle PROVE PlainOK' /\ PlacesOK'
    BY <1>1, <1>2, FlowLeaves DEF Flow, serverVars, Gone
<1>3. CASE Stay("reading") /\ (idle' = idle \/ idle' = IdleTicks)
    BY <1>1, <1>3, LimitAssumption DEF Flow, PlainOK, PlacesOK, Stay, connVars, heartVars,
       serverVars, Gone, InHand, Started
<1>4. CASE ReadFails
    BY <1>1, <1>2, <1>4, LeavesLate DEF ReadFails
<1>5. CASE ReadReply
    <2>1. CASE Rearm
        BY <1>1, <1>2, <1>3, <2>1, LeavesLate DEF Rearm
    <2>2. CASE ~ Rearm
        BY <1>3, <1>5, <2>2 DEF ReadReply
    <2>3. QED
        BY <2>1, <2>2
<1>6. CASE ReadFrame
    <2>1. UNCHANGED idle
        BY <1>6 DEF ReadFrame
    <2>2. CASE /\ ~ cancelled /\ Next1.kind = "delivery"
               /\ pc' = "handling" /\ current' = Next1.delivery /\ handlerErr' = FALSE
               /\ UNCHANGED <<joined, result, reason, connVars>>
        <3>1. inbox # <<>> /\ inbox \in Seq(FrameOf(Replies))
            BY <1>6 DEF ReadFrame, Frames, Flow, FramesOK
        <3>2. Next1 \in FrameOf(Replies)
            BY <3>1, TailFacts DEF Next1
        <3>3. current' \in Deliveries \cup {None}
            BY <2>2, <3>2 DEF FrameOf
        <3>4. PlainOK'
            <4>1. /\ joined' \in BOOLEAN /\ handlerErr' \in BOOLEAN /\ cancelled' \in BOOLEAN
                  /\ heartErr' \in BOOLEAN /\ done' \in BOOLEAN /\ beat' \in BOOLEAN
                BY <1>1, <2>2 DEF Flow, PlainOK, connVars, heartVars
            <4>2. pc' \in Started /\ UNCHANGED <<result, conn, closedBy, watcher, heart, writer, ref, idle, server>>
                BY <1>1, <2>1, <2>2 DEF connVars, heartVars, serverVars, Started
            <4>3. QED
                BY <4>1, <4>2, <3>3 DEF Flow, PlainOK
        <3>5. PlacesOK'
            BY <1>1, <2>2 DEF Flow, PlainOK, PlacesOK, connVars, heartVars, serverVars, Gone, InHand, Started
        <3>6. QED
            BY <3>4, <3>5
    <2>3. CASE Leave(Call!Canceled, "delivery")
        BY <1>2, <2>1, <2>3, LeavesCancelled
    <2>4. CASE Leave(Error("Protocol"), "bad delivery")
        BY <1>1, <1>2, <2>1, <2>4, LeavesLate
    <2>5. CASE Leave(Error("Disconnected"), "channel closed")
        BY <1>1, <1>2, <2>1, <2>5, LeavesLate
    <2>6. CASE Stay("reading")
        BY <1>3, <2>1, <2>6
    <2>7. QED
        BY <1>6, <2>2, <2>3, <2>4, <2>5, <2>6 DEF ReadFrame
<1>7. QED
    BY <1>4, <1>5, <1>6

LEMMA FlowHandles == Flow /\ (HandlerReturns \/ Answer \/ Finish) => PlainOK' /\ PlacesOK'
<1> SUFFICES ASSUME Flow, HandlerReturns \/ Answer \/ Finish PROVE PlainOK' /\ PlacesOK'
    OBVIOUS
<1>1. CASE HandlerReturns
    <2>1. pc = "handling" /\ joined = TRUE /\ ref \in Nat /\ idle \in 0..IdleTicks
        BY <1>1 DEF HandlerReturns, Flow, PlainOK, PlacesOK, InHand
    <2>2. CASE /\ handlerErr' \in BOOLEAN /\ pc' = "answering"
               /\ UNCHANGED <<joined, result, reason, current, connVars>>
        BY <1>1, <2>1, <2>2 DEF HandlerReturns, Flow, PlainOK, PlacesOK, connVars, heartVars,
           writerVars, serverVars, Gone, InHand, Started
    <2>3. CASE Left("handler")
        BY <1>1, <2>1, <2>3, FlowLeaves DEF HandlerReturns, Flow, writerVars, serverVars, Gone
    <2>4. QED
        <3>1. CASE Leave(Call!Canceled, "handler")
            BY <2>3, <3>1, LeavesCancelled
        <3>2. CASE Leave(Error("Handler"), "handler")
            BY <2>1, <2>3, <3>2, LeavesLate
        <3>3. CASE ~ Leave(Call!Canceled, "handler") /\ ~ Leave(Error("Handler"), "handler")
            BY <1>1, <2>2, <3>3 DEF HandlerReturns
        <3>4. QED
            BY <3>1, <3>2, <3>3
<1>2. CASE Answer
    BY <1>2 DEF Answer, Stay, Flow, PlainOK, PlacesOK, connVars, heartVars, serverVars, Gone, InHand,
       Started
<1>3. CASE Finish
    BY <1>3 DEF Finish, Stay, Flow, PlainOK, PlacesOK, connVars, heartVars, writerVars, serverVars,
       Gone, InHand, Started
<1>4. QED
    BY <1>1, <1>2, <1>3

\* What Send does: it hands the writer back, the response logged or not.
LEMMA Sends ==
    ASSUME Flow, Send
    PROVE  /\ pc = "sending" /\ writer' = "free"
           /\ UNCHANGED <<heartVars, ref, trackerVars, serverVars, cancelled, watcher, inbox>>
           /\ \/ /\ log' = Append(log, Frame("response", ref, current))
                 /\ \/ Left("handler") /\ handlerErr /\ UNCHANGED idle
                    \/ Left("renew deadline") /\ ~ handlerErr /\ UNCHANGED idle
                    \/ Stay("reading") /\ ~ handlerErr /\ idle' = IdleTicks
              \/ Left("send response") /\ UNCHANGED <<log, idle>>
<1>1. pc = "sending" /\ joined = TRUE
    BY DEF Send, Flow, PlainOK, PlacesOK, InHand
<1>2. CASE /\ log' = Append(log, Frame("response", ref, current))
           /\ IF handlerErr THEN Leave(Error("Handler"), "handler") /\ UNCHANGED idle ELSE Rearm
    <2>1. CASE handlerErr
        <3>1. Left("handler")
            BY <1>1, <1>2, <2>1, LeavesLate
        <3>2. QED
            BY <1>1, <1>2, <2>1, <3>1 DEF Send
    <2>2. CASE ~ handlerErr
        <3>1. \/ Stay("reading") /\ idle' = IdleTicks
              \/ LeaveUnlessCancelled(Error("Disconnected"), "renew deadline") /\ UNCHANGED idle
            BY <1>2, <2>2 DEF Rearm
        <3>2. \/ Stay("reading") /\ idle' = IdleTicks
              \/ Left("renew deadline") /\ UNCHANGED idle
            BY <1>1, <3>1, LeavesLate
        <3>3. QED
            BY <1>1, <1>2, <2>2, <3>2 DEF Send
    <2>3. QED
        BY <2>1, <2>2
<1>3. CASE /\ LeaveUnlessCancelled(Error(IF handlerErr THEN "Handler" ELSE "Disconnected"), "send response")
           /\ UNCHANGED <<log, idle>>
    <2>1. Left("send response")
        BY <1>1, <1>3, LeavesLate
    <2>2. QED
        BY <1>1, <1>3, <2>1 DEF Send
<1>4. QED
    BY <1>2, <1>3 DEF Send

LEMMA FlowSends == Flow /\ Send => PlainOK' /\ PlacesOK'
<1> SUFFICES ASSUME Flow, Send PROVE PlainOK' /\ PlacesOK'
    OBVIOUS
<1>1. /\ pc = "sending" /\ joined = TRUE /\ ref \in Nat /\ idle \in 0..IdleTicks
      /\ writer' = "free" /\ UNCHANGED <<heartVars, ref, server, cancelled, watcher>>
    BY Sends DEF Flow, PlainOK, PlacesOK, InHand, serverVars
<1>2. log' # <<>>
    <2>1. Frame("response", ref, current) \in FrameOf({"join", "heartbeat", "response"})
        BY <1>1 DEF Frame, FrameOf, Flow, PlainOK
    <2>2. CASE log' = Append(log, Frame("response", ref, current))
        <3>1. Len(log') = Len(log) + 1 /\ Len(log) \in Nat
            BY <2>1, <2>2, AppendFacts DEF Flow, FramesOK
        <3>2. QED
            BY <3>1
    <2>3. CASE log' = log
        BY <1>1, <2>3 DEF Flow, PlacesOK, Started
    <2>4. QED
        BY <2>2, <2>3, Sends
<1>3. CASE (\E why \in {"handler", "renew deadline", "send response"} : Left(why)) /\ UNCHANGED idle
    BY <1>1, <1>2, <1>3, FlowLeaves DEF Flow, Gone
<1>4. CASE Stay("reading") /\ idle' = IdleTicks
    BY <1>1, <1>2, <1>4, LimitAssumption DEF Stay, Flow, PlainOK, PlacesOK, connVars, heartVars, Gone,
       InHand, Started
<1>5. QED
    BY <1>3, <1>4, Sends

LEMMA FlowBeats == Flow /\ Heart => PlainOK' /\ PlacesOK'
<1> SUFFICES ASSUME Flow, Heart PROVE PlainOK' /\ PlacesOK'
    OBVIOUS
<1>1. CASE Beat
    <2>1. PlainOK'
        <3>1. heart' = "writing" /\ writer' = "heartbeat" /\ beat' = FALSE /\ ref' = ref + 1
            BY <1>1 DEF Beat
        <3>2. ref' \in Nat
            BY <3>1 DEF Flow, PlainOK
        <3>3. beat' \in BOOLEAN
            BY <3>1
        <3>4. UNCHANGED <<loopVars, connVars, heartErr, server, cancelled, watcher, idle>>
            BY <1>1 DEF Beat, serverVars
        <3>5. QED
            BY <3>1, <3>2, <3>3, <3>4 DEF Flow, PlainOK, loopVars, connVars
    <2>2. PlacesOK'
        BY <1>1 DEF Beat, Flow, PlainOK, PlacesOK, loopVars, connVars
    <2>3. QED
        BY <2>1, <2>2
<1>2. CASE BeatReaches
    <2>1. log # <<>> /\ writer = "heartbeat" /\ ref \in Nat
        BY <1>2 DEF BeatReaches, Flow, PlainOK, PlacesOK
    <2>2. log' # <<>>
        <3>1. Frame("heartbeat", ref, None) \in FrameOf({"join", "heartbeat", "response"})
            BY <2>1 DEF Frame, FrameOf
        <3>2. CASE log' = Append(log, Frame("heartbeat", ref, None))
            <4>1. Len(log') = Len(log) + 1 /\ Len(log) \in Nat
                BY <3>1, <3>2, AppendFacts DEF Flow, FramesOK
            <4>2. QED
                BY <4>1
        <3>3. QED
            BY <1>2, <2>1, <3>2 DEF BeatReaches
    <2>3. PlainOK'
        BY <1>2 DEF BeatReaches, Flow, PlainOK, loopVars, connVars, writerVars
    <2>4. PlacesOK'
        BY <1>2, <2>2 DEF BeatReaches, Flow, PlainOK, PlacesOK, loopVars, connVars, writerVars, Gone, InHand,
           Started
    <2>5. QED
        BY <2>3, <2>4
<1>6. CASE BeatWritten
    <2>1. PlainOK'
        BY <1>6 DEF BeatWritten, Flow, PlainOK, loopVars, serverVars
    <2>2. PlacesOK'
        BY <1>6 DEF BeatWritten, Flow, PlainOK, PlacesOK, loopVars, Gone, InHand, Started
    <2>3. QED
        BY <2>1, <2>2
<1>3. CASE BeatFails
    <2>1. PlainOK'
        <3>1. /\ heart' \in {"reported", "ended"} /\ heartErr' \in BOOLEAN
              /\ conn' \in {conn, "closed"} /\ closedBy' \in {closedBy, "heartbeat"}
            BY <1>3 DEF BeatFails, Flow, PlainOK
        <3>2. QED
            BY <1>3, <3>1 DEF BeatFails, Flow, PlainOK, loopVars, writerVars, serverVars
    <2>2. PlacesOK'
        BY <1>3 DEF BeatFails, Flow, PlainOK, PlacesOK, loopVars, writerVars, Started
    <2>3. QED
        BY <2>1, <2>2
<1>4. CASE HeartEnds
    BY <1>4 DEF HeartEnds, Flow, PlainOK, PlacesOK, loopVars, connVars, writerVars, serverVars, Gone,
       InHand, Started
<1>5. QED
    BY <1>1, <1>2, <1>3, <1>4, <1>6 DEF Heart

LEMMA FlowElsewhere == Flow /\ (Watch \/ Cancel \/ Tick \/ Hookspot) => PlainOK' /\ PlacesOK'
<1> SUFFICES ASSUME Flow, Watch \/ Cancel \/ Tick \/ Hookspot PROVE PlainOK' /\ PlacesOK'
    OBVIOUS
<1>1. CASE Watch
    BY <1>1 DEF Watch, Flow, PlainOK, PlacesOK, loopVars, heartVars, writerVars, serverVars, Gone,
       InHand, Started
<1>2. CASE Cancel
    BY <1>2 DEF Cancel, Flow, PlainOK, PlacesOK, loopVars, connVars, heartVars, writerVars,
       serverVars, Gone, InHand, Started
<1>3. CASE Tick
    <2>1. idle' \in 0..IdleTicks /\ beat' \in BOOLEAN
        BY <1>3, LimitAssumption DEF Tick, Flow, PlainOK
    <2>2. QED
        BY <1>3, <2>1 DEF Tick, Flow, PlainOK, PlacesOK, loopVars, connVars, writerVars,
           serverVars, Gone, InHand, Started
<1>4. CASE Hookspot
    <2>1. /\ UNCHANGED <<loopVars, connVars, heartVars, writerVars, cancelled, watcher, idle, log>>
          /\ server' \in {"up", "zombie", "gone"}
        BY <1>4 DEF Hookspot, HookspotJoins, HookspotDelivers, HookspotAnswersBeat, HookspotBabbles,
           HookspotEnds, HookspotFails, Push, Flow, PlainOK, serverVars
    <2>2. QED
        BY <2>1 DEF Flow, PlainOK, PlacesOK, loopVars, connVars, heartVars, writerVars, Gone, InHand,
           Started
<1>5. QED
    BY <1>1, <1>2, <1>3, <1>4

LEMMA FlowStep == Flow /\ [Next]_vars => PlainOK' /\ PlacesOK'
<1>1. Flow /\ UNCHANGED vars => PlainOK' /\ PlacesOK'
    BY DEF Flow, PlainOK, PlacesOK, vars, loopVars, connVars, heartVars, writerVars, serverVars, Gone,
       InHand, Started
<1>2. QED
    BY <1>1, FlowDials, FlowDialFails, FlowJoins, FlowAwaits, FlowHooks, FlowReads, FlowHandles,
       FlowSends, FlowBeats, FlowElsewhere DEF Next, Loop

----------------------------------------------------------------------------
(* What reaches Hookspot.                                                     *)

\* A step leaves the log alone, or appends the join or a frame of the writer's ref.
LEMMA LogSteps ==
    ASSUME Flow, [Next]_vars
    PROVE  \/ UNCHANGED <<log, ref>> /\ (Unwritten' => Unwritten)
           \/ UNCHANGED log /\ ref' = ref + 1
           \/ /\ log' = Append(log, Frame("join", ref + 1, None)) /\ ref' = ref + 1
              /\ log = <<>> /\ ~ Unwritten'
           \/ /\ log' = Append(log, Frame("heartbeat", ref, None)) /\ ref' = ref
              /\ log # <<>> /\ Unwritten /\ ~ Unwritten'
           \/ /\ log' = Append(log, Frame("response", ref, current)) /\ ref' = ref
              /\ log # <<>> /\ Unwritten /\ ~ Unwritten'
<1> USE DEF heartVars, Unwritten
<1>1. CASE Join
    <2>1. log = <<>> /\ writer = "free"
        BY <1>1 DEF Join, Flow, PlacesOK, PlainOK
    <2>2. QED
        BY <1>1, <2>1 DEF Join
<1>2. CASE Answer \/ Beat
    BY <1>2 DEF Answer, Beat
<1>3. CASE Send
    <2>1. log # <<>> /\ writer = "listen" /\ heart # "written"
        BY <1>3 DEF Send, Flow, PlacesOK, Started
    <2>2. QED
        BY <1>3, <2>1, Sends
<1>4. CASE BeatReaches
    <2>1. log # <<>> /\ writer = "heartbeat" /\ heart = "writing"
        BY <1>4 DEF BeatReaches, Flow, PlacesOK
    <2>2. QED
        BY <1>4, <2>1 DEF BeatReaches, writerVars
<1>5. CASE Dial \/ Acquire \/ DialFails \/ Upgrade \/ AwaitFails \/ Await \/ ReadFails
           \/ ReadReply \/ ReadFrame \/ HandlerReturns \/ Finish
    BY <1>5 DEF Dial, Acquire, DialFails, Upgrade, AwaitFails, Await, ReadFails,
       ReadReply, ReadFrame, HandlerReturns, Finish, writerVars
<1>6. CASE Hook
    BY <1>6 DEF Hook, writerVars, Flow, PlacesOK
<1>7. CASE BeatWritten
    BY <1>7 DEF BeatWritten
<1>8. CASE BeatFails \/ HeartEnds
    BY <1>8 DEF BeatFails, HeartEnds, writerVars, Flow, PlacesOK
<1>9. CASE Watch \/ Cancel \/ Tick
    BY <1>9 DEF Watch, Cancel, Tick, writerVars
<1>10. CASE Hookspot
    BY <1>10 DEF Hookspot, HookspotJoins, HookspotDelivers, HookspotAnswersBeat, HookspotBabbles,
       HookspotEnds, HookspotFails, Push, writerVars
<1>11. CASE UNCHANGED vars
    BY <1>11 DEF vars, writerVars
<1>12. QED
    BY <1>1, <1>2, <1>3, <1>4, <1>5, <1>6, <1>7, <1>8, <1>9, <1>10, <1>11 DEF Next, Loop, Heart

LEMMA LogStep ==
    ASSUME Flow, LogOK, [Next]_vars
    PROVE  LogOK' /\ log' \in Seq(FrameOf({"join", "heartbeat", "response"}))
<1> DEFINE Sent == FrameOf({"join", "heartbeat", "response"})
<1>1. log \in Seq(Sent) /\ ref \in Nat /\ Len(log) \in Nat
      /\ \A i \in 1..Len(log) : log[i].ref \in Nat /\ log[i].ref <= ref
    <2>1. log \in Seq(Sent) /\ ref \in Nat
        BY DEF Flow, FramesOK, PlainOK
    <2>2. Len(log) \in Nat /\ \A i \in 1..Len(log) : log[i] \in Sent
        BY <2>1
    <2>3. \A f \in Sent : f.ref \in Nat
        BY DEF FrameOf
    <2>4. \A i \in 1..Len(log) : log[i].ref <= ref
        BY DEF LogOK
    <2>5. QED
        BY <2>1, <2>2, <2>3, <2>4
<1>2. CASE UNCHANGED <<log, ref>> /\ (Unwritten' => Unwritten)
    BY <1>1, <1>2 DEF LogOK
<1>3. CASE UNCHANGED log /\ ref' = ref + 1
    <2>1. \A i \in 1..Len(log) : log[i].ref < ref + 1
        BY <1>1
    <2>2. QED
        BY <1>1, <1>3, <2>1 DEF LogOK
<1>5. ASSUME NEW f \in Sent, log' = Append(log, f), f.ref = ref', ~ Unwritten',
             \A i \in 1..Len(log) : log[i].ref < ref', f.kind = "join" <=> log = <<>>
      PROVE  LogOK' /\ log' \in Seq(Sent)
    <2>1. /\ log' \in Seq(Sent) /\ Len(log') = Len(log) + 1
          /\ \A i \in 1..Len(log) : log'[i] = log[i]
          /\ log'[Len(log) + 1] = f
        BY <1>1, <1>5, AppendFacts
    <2>2. f.ref \in Nat
        BY DEF FrameOf
    <2>3. \A i \in 1..Len(log') : log'[i].ref <= ref'
        BY <1>1, <1>5, <2>1, <2>2
    <2>4. \A i, j \in 1..Len(log') : i < j => log'[i].ref < log'[j].ref
        <3>1. ASSUME NEW i \in 1..Len(log'), NEW j \in 1..Len(log'), i < j
              PROVE  log'[i].ref < log'[j].ref
            <4>1. CASE j = Len(log) + 1
                BY <1>1, <1>5, <2>1, <3>1, <4>1
            <4>2. CASE j # Len(log) + 1
                <5>1. i \in 1..Len(log) /\ j \in 1..Len(log)
                    BY <1>1, <2>1, <3>1, <4>2
                <5>2. log[i].ref < log[j].ref
                    BY <3>1, <5>1 DEF LogOK
                <5>3. QED
                    BY <2>1, <5>1, <5>2
            <4>3. QED
                BY <4>1, <4>2
        <3>2. QED
            BY <3>1
    <2>5. \A i \in 1..Len(log') : log'[i].kind = "join" <=> i = 1
        <3>1. log = <<>> <=> Len(log) = 0
            BY <1>1
        <3>2. QED
            BY <1>1, <1>5, <2>1, <3>1 DEF LogOK
    <2>6. QED
        BY <1>5, <2>1, <2>3, <2>4, <2>5 DEF LogOK
<1>6. CASE /\ log' = Append(log, Frame("join", ref + 1, None)) /\ ref' = ref + 1
           /\ log = <<>> /\ ~ Unwritten'
    <2>1. Frame("join", ref + 1, None) \in Sent /\ Frame("join", ref + 1, None).ref = ref + 1
          /\ Frame("join", ref + 1, None).kind = "join"
        BY <1>1 DEF Frame, FrameOf
    <2>2. \A i \in 1..Len(log) : log[i].ref < ref'
        BY <1>1, <1>6
    <2>3. QED
        BY <1>5, <1>6, <2>1, <2>2
<1>7. ASSUME NEW k \in {"heartbeat", "response"}, NEW d \in Deliveries \cup {None},
             log' = Append(log, Frame(k, ref, d)), ref' = ref,
             log # <<>>, Unwritten, ~ Unwritten'
      PROVE  LogOK' /\ log' \in Seq(Sent)
    <2>1. Frame(k, ref, d) \in Sent /\ Frame(k, ref, d).ref = ref /\ Frame(k, ref, d).kind # "join"
        BY <1>1 DEF Frame, FrameOf
    <2>2. \A i \in 1..Len(log) : log[i].ref < ref'
        BY <1>7 DEF LogOK
    <2>3. QED
        BY <1>5, <1>7, <2>1, <2>2
<1>8. current \in Deliveries \cup {None} /\ None \in Deliveries \cup {None}
    BY DEF Flow, PlainOK
<1>9. QED
    BY <1>1, <1>2, <1>3, <1>6, <1>7, <1>8, LogSteps

----------------------------------------------------------------------------
(* What is on its way to the client, and what the tracker holds.              *)

LEMMA FrameFacts ==
    ASSUME NEW k \in Replies, NEW r \in Nat, NEW d \in Deliveries \cup {None}
    PROVE  /\ Frame(k, r, d) \in FrameOf(Replies)
           /\ Frame(k, r, d).kind = k /\ Frame(k, r, d).ref = r /\ Frame(k, r, d).delivery = d
BY DEF Frame, FrameOf

Pushes ==
    HookspotJoins \/ HookspotDelivers \/ HookspotAnswersBeat \/ HookspotBabbles \/ HookspotEnds

\* A frame that Hookspot may send.
LEMMA HookspotPushes ==
    ASSUME Flow, TrackerOK, Pushes
    PROVE  \E f \in FrameOf(Replies) :
         /\ inbox' = Append(inbox, f)
         /\ UNCHANGED <<loopVars, connVars, heart, writerVars, log>>
         /\ \/ /\ f.kind = "delivery" /\ f.delivery \in Deliveries \ pushed
               /\ pushed' = pushed \cup {f.delivery} /\ heard' = heard
            \/ f.kind # "delivery" /\ UNCHANGED <<pushed, heard>>
<1> USE DEF Push, heartVars, serverVars
<1>1. CASE HookspotJoins
    <2>1. PICK k \in JoinReplies : inbox' = Append(inbox, Frame(k, 1, None))
        BY <1>1 DEF HookspotJoins
    <2>2. k \in Replies /\ k \notin {"delivery", "pong"}
        BY DEF Replies, JoinReplies
    <2>3. Frame(k, 1, None) \in FrameOf(Replies) /\ Frame(k, 1, None).kind = k
        BY <2>2, FrameFacts
    <2>4. QED
        BY <1>1, <2>1, <2>2, <2>3 DEF HookspotJoins
<1>2. CASE HookspotDelivers
    <2>1. PICK d \in Deliveries \ pushed : pushed' = pushed \cup {d} /\ Push(Frame("delivery", 0, d))
        BY <1>2 DEF HookspotDelivers
    <2>2. Frame("delivery", 0, d) \in FrameOf(Replies) /\ Frame("delivery", 0, d).kind = "delivery"
          /\ Frame("delivery", 0, d).delivery = d
        <3>1. "delivery" \in Replies /\ 0 \in Nat /\ d \in Deliveries \cup {None}
            BY DEF Replies
        <3>2. QED
            BY <3>1, FrameFacts
    <2>3. QED
        BY <1>2, <2>1, <2>2 DEF HookspotDelivers
<1>3. CASE HookspotAnswersBeat
    <2>1. PICK r \in heard : Push(Frame("pong", r, None))
        BY <1>3 DEF HookspotAnswersBeat
    <2>2. r \in Nat
        BY DEF TrackerOK, Flow, PlainOK
    <2>3. Frame("pong", r, None) \in FrameOf(Replies) /\ Frame("pong", r, None).kind = "pong"
        <3>1. "pong" \in Replies /\ None \in Deliveries \cup {None}
            BY DEF Replies
        <3>2. QED
            BY <2>2, <3>1, FrameFacts
    <2>4. QED
        BY <1>3, <2>1, <2>3 DEF HookspotAnswersBeat
<1>4. CASE HookspotBabbles \/ HookspotEnds
    <2>1. PICK k \in {"pong", "malformed", "bad delivery", "close"} :
              Push(Frame(k, 0, None)) /\ UNCHANGED <<pushed, heard>>
        BY <1>4 DEF HookspotBabbles, HookspotEnds
    <2>2. Frame(k, 0, None) \in FrameOf(Replies) /\ Frame(k, 0, None).kind # "delivery"
        <3>1. k \in Replies /\ k # "delivery" /\ 0 \in Nat /\ None \in Deliveries \cup {None}
            BY DEF Replies
        <3>2. Frame(k, 0, None).kind = k
            BY DEF Frame
        <3>3. QED
            BY <3>1, <3>2, FrameFacts
    <2>3. QED
        BY <2>1, <2>2
<1>5. QED
    BY <1>1, <1>2, <1>3, <1>4 DEF Pushes

\* Every other step takes a frame or leaves the inbox alone.
LEMMA QuietInbox ==
    ASSUME Flow, TrackerOK, [Next]_vars, ~ Pushes
    PROVE  \/ UNCHANGED <<inbox, pushed>>
           \/ Frames /\ Consume /\ (Await \/ ReadReply \/ ReadFrame)
                /\ UNCHANGED pushed
<1> USE DEF heartVars, serverVars
<1>2. CASE HookspotFails
    BY <1>2 DEF HookspotFails
<1>3. CASE Await \/ ReadReply \/ ReadFrame
    BY <1>3 DEF Await, ReadReply, ReadFrame, writerVars
<1>4. CASE Dial \/ Acquire \/ DialFails \/ Upgrade \/ AwaitFails \/ Join \/ Hook \/ ReadFails
           \/ HandlerReturns \/ Finish \/ Answer \/ Send
    BY <1>4 DEF Dial, Acquire, DialFails, Upgrade, AwaitFails, Join, Hook, ReadFails, HandlerReturns,
       Finish, Answer, Send
<1>5. CASE Heart \/ Watch \/ Cancel \/ Tick
    BY <1>5 DEF Heart, Beat, BeatReaches, BeatWritten, BeatFails, HeartEnds, Watch, Cancel, Tick
<1>6. CASE UNCHANGED vars
    BY <1>6 DEF vars
<1>7. QED
    BY <1>2, <1>3, <1>4, <1>5, <1>6 DEF Next, Loop, Hookspot, Pushes

LEMMA FramesStep ==
    ASSUME Flow, TrackerOK, LogOK, [Next]_vars
    PROVE  FramesOK'
<1>1. log' \in Seq(FrameOf({"join", "heartbeat", "response"}))
    BY LogStep
<1>2. inbox \in Seq(FrameOf(Replies)) /\ pushed \subseteq Deliveries
    BY DEF Flow, FramesOK
<1>3. CASE UNCHANGED <<inbox, pushed>>
    BY <1>1, <1>2, <1>3 DEF FramesOK
<1>4. CASE Frames /\ Consume /\ UNCHANGED pushed
    BY <1>1, <1>2, <1>4, TailFacts DEF FramesOK, Frames, Consume
<1>5. ASSUME NEW f \in FrameOf(Replies), inbox' = Append(inbox, f), pushed' \subseteq Deliveries
      PROVE  FramesOK'
    BY <1>1, <1>2, <1>5, AppendFacts DEF FramesOK
<1>6. QED
    BY <1>2, <1>3, <1>4, <1>5, QuietInbox, HookspotPushes

\* The tracker forgets a reply's ref, takes a new heartbeat's, or stays.
LEMMA TrackerSteps ==
    ASSUME Flow, TrackerOK, [Next]_vars
    PROVE  /\ \/ UNCHANGED trackerVars /\ ref' \in {ref, ref + 1}
              \/ /\ pending' = Taken(pending, Next1.ref) /\ awaited' = awaited \ {Next1.ref}
                 /\ ref' = ref
              \/ /\ pending' = Added(pending, ref + 1) /\ awaited' = Newest(awaited \cup {ref + 1})
                 /\ ref' = ref + 1
           /\ \/ heard' = heard
              \/ heard' = heard \cup {ref} /\ BeatReaches
<1> USE DEF writerVars, serverVars, trackerVars
<1>1. CASE ReadReply
    BY <1>1 DEF ReadReply
<1>2. CASE Beat
    BY <1>2 DEF Beat
<1>3. CASE BeatReaches
    BY <1>3 DEF BeatReaches
<1>4. CASE Dial \/ Acquire \/ DialFails \/ Upgrade \/ AwaitFails \/ Await \/ Join \/ Hook \/ ReadFails
           \/ ReadFrame \/ HandlerReturns \/ Finish \/ Answer \/ Send
    BY <1>4 DEF Dial, Acquire, DialFails, Upgrade, AwaitFails, Await, Join, Hook, ReadFails, ReadFrame,
       HandlerReturns, Finish, Answer, Send
<1>5. CASE BeatWritten \/ BeatFails \/ HeartEnds \/ Watch \/ Cancel \/ Tick
    BY <1>5 DEF BeatWritten, BeatFails, HeartEnds, Watch, Cancel, Tick
<1>6. CASE Hookspot
    BY <1>6 DEF Hookspot, HookspotJoins, HookspotDelivers, HookspotAnswersBeat, HookspotBabbles,
       HookspotEnds, HookspotFails, Push
<1>7. CASE UNCHANGED vars
    BY <1>7 DEF vars
<1>8. QED
    BY <1>1, <1>2, <1>3, <1>4, <1>5, <1>6, <1>7 DEF Next, Loop, Heart

LEMMA AddedFacts ==
    ASSUME TrackerOK, ref \in Nat
    PROVE  /\ Added(pending, ref + 1) \in Seq(1..(ref + 1))
           /\ Len(Added(pending, ref + 1)) \in 1..MaxPending
           /\ \E drop \in {0, 1} :
                /\ drop = 1 <=> Len(pending) = MaxPending
                /\ Len(Added(pending, ref + 1)) = Len(pending) - drop + 1
                /\ \A i \in 1..(Len(pending) - drop) : Added(pending, ref + 1)[i] = pending[i + drop]
                /\ Added(pending, ref + 1)[Len(pending) - drop + 1] = ref + 1
<1>1. pending \in Seq(1..(ref + 1)) /\ Len(pending) \in Nat /\ Len(pending) <= MaxPending
    <2>1. pending \in Seq(1..ref) /\ Len(pending) \in Nat /\ Len(pending) <= MaxPending
        BY DEF TrackerOK
    <2>2. QED
        BY <2>1, WiderSeq
<1>2. ref + 1 \in 1..(ref + 1) /\ MaxPending \in Nat \ {0}
    BY LimitAssumption
<1>3. CASE Len(pending) = MaxPending
    <2>1. pending # <<>>
        BY <1>1, <1>2, <1>3
    <2>2. /\ Tail(pending) \in Seq(1..(ref + 1)) /\ Len(Tail(pending)) = Len(pending) - 1
          /\ \A i \in 1..(Len(pending) - 1) : Tail(pending)[i] = pending[i + 1]
        BY <1>1, <2>1, TailFacts
    <2>3. PICK rest : rest = Tail(pending)
        OBVIOUS
    <2>4. Added(pending, ref + 1) = Append(rest, ref + 1)
        BY <1>3, <2>3 DEF Added
    <2>5. /\ rest \in Seq(1..(ref + 1)) /\ Len(rest) = Len(pending) - 1
          /\ \A i \in 1..(Len(pending) - 1) : rest[i] = pending[i + 1]
        BY <2>2, <2>3
    <2>6. /\ Append(rest, ref + 1) \in Seq(1..(ref + 1)) /\ Len(Append(rest, ref + 1)) = Len(rest) + 1
          /\ \A i \in 1..Len(rest) : Append(rest, ref + 1)[i] = rest[i]
          /\ Append(rest, ref + 1)[Len(rest) + 1] = ref + 1
        BY <1>2, <2>5, AppendFacts
    <2>7. /\ Added(pending, ref + 1) \in Seq(1..(ref + 1))
          /\ Len(Added(pending, ref + 1)) = Len(pending)
          /\ \A i \in 1..(Len(pending) - 1) : Added(pending, ref + 1)[i] = pending[i + 1]
          /\ Added(pending, ref + 1)[Len(pending)] = ref + 1
        <3>1. Len(rest) + 1 = Len(pending) /\ 1..Len(rest) = 1..(Len(pending) - 1)
            BY <1>1, <2>5
        <3>2. QED
            BY <2>4, <2>5, <2>6, <3>1
    <2>8. QED
        BY <1>1, <1>2, <1>3, <2>7
<1>4. CASE Len(pending) # MaxPending
    <2>1. Added(pending, ref + 1) = Append(pending, ref + 1)
        BY <1>4 DEF Added
    <2>2. QED
        BY <1>1, <1>2, <1>4, <2>1, AppendFacts
<1>5. QED
    BY <1>3, <1>4

LEMMA WritersRef ==
    ASSUME Flow, LogOK, Unwritten
    PROVE  ref \in Nat \ {0}
<1>1. log # <<>>
    BY DEF Flow, PlainOK, PlacesOK, Started, Unwritten
<1>2. log \in Seq(FrameOf({"join", "heartbeat", "response"})) /\ ref \in Nat
    BY DEF Flow, FramesOK, PlainOK
<1>3. 1 \in 1..Len(log) /\ log[1] \in FrameOf({"join", "heartbeat", "response"})
    BY <1>1, <1>2, TailFacts
<1>4. log[1].ref \in Nat
    BY <1>3 DEF FrameOf
<1>5. log[1].ref < ref
    BY <1>3 DEF LogOK
<1>6. QED
    BY <1>2, <1>4, <1>5

LEMMA TrackerStep ==
    ASSUME Flow, TrackerOK, LogOK, [Next]_vars
    PROVE  TrackerOK'
<1>1. ref \in Nat /\ MaxPending \in Nat
    BY LimitAssumption DEF Flow, PlainOK
<1>2. /\ pending \in Seq(1..ref) /\ Len(pending) \in Nat /\ Len(pending) <= MaxPending
      /\ \A i \in 1..Len(pending) : pending[i] \in 1..ref
      /\ \A i, j \in 1..Len(pending) : i < j => pending[i] < pending[j]
    <2>1. pending \in Seq(1..ref) /\ Len(pending) <= MaxPending
          /\ \A i, j \in 1..Len(pending) : i < j => pending[i] < pending[j]
        BY DEF TrackerOK
    <2>2. Len(pending) \in Nat /\ \A i \in 1..Len(pending) : pending[i] \in 1..ref
        BY <2>1, SeqFacts
    <2>3. QED
        BY <2>1, <2>2
<1>3. ref' \in {ref, ref + 1}
    BY TrackerSteps
<1>4. {heard', awaited'} \subseteq SUBSET (1..ref')
    <2>1. heard \subseteq 1..ref /\ awaited \subseteq 1..ref
        BY DEF TrackerOK
    <2>2. heard' \subseteq 1..ref'
        <3>1. CASE heard' = heard
            BY <1>1, <1>3, <2>1, <3>1
        <3>2. CASE heard' = heard \cup {ref} /\ BeatReaches
            <4>1. Unwritten
                BY <3>2 DEF BeatReaches, Flow, PlacesOK, Unwritten
            <4>2. ref \in Nat \ {0}
                BY <4>1, WritersRef
            <4>3. QED
                BY <1>3, <2>1, <3>2, <4>2
        <3>3. QED
            BY <3>1, <3>2, TrackerSteps
    <2>3. awaited' \subseteq 1..ref'
        <3>1. \/ awaited' \subseteq awaited
              \/ awaited' = Newest(awaited \cup {ref + 1}) /\ ref' = ref + 1
            BY TrackerSteps DEF trackerVars
        <3>2. \A S : Newest(S) \subseteq S
            BY DEF Newest
        <3>3. awaited \cup {ref + 1} \subseteq 1..(ref + 1) /\ 1..ref \subseteq 1..ref'
            BY <1>1, <1>3, <2>1
        <3>4. QED
            BY <2>1, <3>1, <3>2, <3>3
    <2>4. QED
        BY <2>2, <2>3
<1>5. CASE UNCHANGED pending
    <2>1. pending \in Seq(1..ref')
        BY <1>1, <1>2, <1>3, WiderSeq
    <2>2. QED
        BY <1>2, <1>4, <1>5, <2>1 DEF TrackerOK
<1>6. CASE pending' = Taken(pending, Next1.ref) /\ ref' = ref
    <2>1. \A i, j \in 1..Len(pending) : pending[i] = pending[j] => i = j
        BY <1>2
    <2>2. PICK r, t : r = Next1.ref /\ t = Taken(pending, r)
        OBVIOUS
    <2>3. /\ t \in Seq(1..ref) /\ Len(t) \in Nat /\ Len(t) <= Len(pending)
          /\ LeavesOneOut(t, pending)
        BY <1>2, <2>1, <2>2, TakenFacts
    <2>4. \A i, j \in 1..Len(t) : i < j => t[i] < t[j]
        <3>1. PICK k \in 1..(Len(pending) + 1) :
                \A i \in 1..Len(t) :
                    /\ IF i < k THEN i \in 1..Len(pending) ELSE i + 1 \in 1..Len(pending)
                    /\ t[i] = IF i < k THEN pending[i] ELSE pending[i + 1]
            BY <2>3 DEF LeavesOneOut
        <3> SUFFICES ASSUME NEW i \in 1..Len(t), NEW j \in 1..Len(t), i < j PROVE t[i] < t[j]
            OBVIOUS
        <3>2. CASE j < k
            BY <1>2, <3>1, <3>2
        <3>3. CASE ~ j < k /\ i < k
            BY <1>2, <3>1, <3>3
        <3>4. CASE ~ j < k /\ ~ i < k
            BY <1>2, <3>1, <3>4
        <3>5. QED
            BY <3>2, <3>3, <3>4
    <2>5. pending' = t
        BY <1>6, <2>2
    <2>6. Len(t) <= MaxPending
        BY <1>1, <1>2, <2>3
    <2>7. QED
        BY <1>4, <1>6, <2>3, <2>4, <2>5, <2>6 DEF TrackerOK
<1>7. CASE pending' = Added(pending, ref + 1) /\ ref' = ref + 1
    <2>1. PICK t : t = Added(pending, ref + 1)
        OBVIOUS
    <2>2. /\ t \in Seq(1..(ref + 1)) /\ Len(t) \in 1..MaxPending
          /\ \E drop \in {0, 1} :
                /\ Len(t) = Len(pending) - drop + 1
                /\ \A i \in 1..(Len(pending) - drop) : t[i] = pending[i + drop]
                /\ t[Len(pending) - drop + 1] = ref + 1
        BY <1>1, <2>1, AddedFacts
    <2>3. PICK drop \in {0, 1} :
                /\ Len(t) = Len(pending) - drop + 1
                /\ \A i \in 1..(Len(pending) - drop) : t[i] = pending[i + drop]
                /\ t[Len(pending) - drop + 1] = ref + 1
        BY <2>2
    <2>4. ASSUME NEW i \in 1..Len(t), NEW j \in 1..Len(t), i < j PROVE t[i] < t[j]
        <3>1. i \in 1..(Len(pending) - drop) /\ i + drop \in 1..Len(pending) /\ t[i] = pending[i + drop]
            BY <1>2, <2>3, <2>4
        <3>2. CASE j = Len(pending) - drop + 1
            <4>1. t[j] = ref + 1
                BY <2>3, <3>2
            <4>2. QED
                BY <1>1, <1>2, <3>1, <4>1
        <3>3. CASE j # Len(pending) - drop + 1
            <4>1. j \in 1..(Len(pending) - drop) /\ j + drop \in 1..Len(pending) /\ t[j] = pending[j + drop]
                BY <1>2, <2>3, <3>3
            <4>2. i + drop < j + drop
                BY <2>4
            <4>3. QED
                BY <1>2, <3>1, <4>1, <4>2
        <3>4. QED
            BY <3>2, <3>3
    <2>5. pending' = t /\ Len(t) <= MaxPending
        BY <1>1, <1>7, <2>1, <2>2
    <2>6. QED
        BY <1>4, <1>7, <2>2, <2>4, <2>5 DEF TrackerOK
<1>8. QED
    BY <1>5, <1>6, <1>7, TrackerSteps DEF trackerVars

----------------------------------------------------------------------------
(* Each delivery is on its way, in hand or answered.                          *)

LEMMA OtherFrame ==
    ASSUME log \in Seq(FrameOf({"join", "heartbeat", "response"})),
           NEW f \in FrameOf({"join", "heartbeat"}), log' = Append(log, f)
    PROVE  /\ UNCHANGED <<Responses, Answered>>
           /\ \A i \in Responses : log'[i] = log[i]
<1>1. f \in FrameOf({"join", "heartbeat", "response"}) /\ f.kind # "response"
    BY DEF FrameOf
<1>2. /\ Len(log') = Len(log) + 1 /\ Len(log) \in Nat
      /\ \A i \in 1..Len(log) : log'[i] = log[i]
      /\ log'[Len(log) + 1] = f
    BY <1>1, AppendFacts
<1>3. Responses' = Responses
    BY <1>1, <1>2 DEF Responses
<1>4. \A i \in Responses : log'[i] = log[i]
    BY <1>2 DEF Responses
<1>5. QED
    BY <1>3, <1>4 DEF Answered

LEMMA ResponseFrame ==
    ASSUME log \in Seq(FrameOf({"join", "heartbeat", "response"})), ref \in Nat,
           current \in Deliveries \cup {None},
           log' = Append(log, Frame("response", ref, current))
    PROVE  \E n \in Nat \ Responses :
              /\ Responses' = Responses \cup {n}
              /\ log'[n].delivery = current /\ log'[n].ref = ref
              /\ \A i \in Responses : log'[i] = log[i]
              /\ Answered' = Answered \cup {current}
<1> DEFINE n == Len(log) + 1
           f == Frame("response", ref, current)
<1>1. f \in FrameOf({"join", "heartbeat", "response"}) /\ f.kind = "response"
      /\ f.delivery = current /\ f.ref = ref
    BY DEF Frame, FrameOf
<1> HIDE DEF f
<1>2. /\ Len(log') = n /\ Len(log) \in Nat
      /\ \A i \in 1..Len(log) : log'[i] = log[i]
      /\ log'[n] = f
    BY <1>1, AppendFacts DEF f
<1>3. n \in Nat \ Responses
    BY <1>2 DEF Responses
<1>4. Responses' = Responses \cup {n}
    BY <1>1, <1>2 DEF Responses
<1>5. \A i \in Responses : log'[i] = log[i]
    BY <1>2 DEF Responses
<1>6. Answered' = Answered \cup {current}
    <2>1. log'[n].delivery = current
        BY <1>1, <1>2
    <2>2. QED
        BY <1>4, <1>5, <2>1 DEF Answered
<1>7. QED
    BY <1>1, <1>2, <1>3, <1>4, <1>5, <1>6

InboxOK ==
    \A i \in 1..Len(inbox) : inbox[i].kind = "delivery" =>
          /\ inbox[i].delivery \in pushed \ Answered
          /\ pc \in InHand => inbox[i].delivery # current
          /\ \A j \in 1..Len(inbox) :
                inbox[j].kind = "delivery" /\ inbox[j].delivery = inbox[i].delivery => i = j

AnsweredOK ==
    /\ \A i, j \in Responses : log[i].delivery = log[j].delivery => i = j
    /\ Answered \subseteq pushed
    /\ pc \in InHand => current \in pushed \ Answered
    /\ pc = "reading" => current \in Answered \cup {None}
    /\ reason = "handler" /\ handlerErr => current \in Answered

LEMMA DeliveriesParts == DeliveriesOK <=> InboxOK /\ AnsweredOK
BY DEF DeliveriesOK, InboxOK, AnsweredOK

\* Nothing is handed over, nothing answered: the loop moves or stays.
LEMMA AnsweredStays ==
    ASSUME AnsweredOK, UNCHANGED <<Responses, Answered, current>>,
           \A i \in Responses : log'[i] = log[i], pushed \subseteq pushed',
           pc' \in InHand => pc \in InHand /\ pushed' = pushed,
           pc' = "reading" => pc = "reading" \/ current = None,
           reason' = "handler" /\ handlerErr' => reason = "handler" /\ handlerErr
    PROVE  AnsweredOK'
BY DEF AnsweredOK

LEMMA InboxStays ==
    ASSUME InboxOK, UNCHANGED <<inbox, Answered>>, pushed \subseteq pushed',
           pc' \in InHand => pc \in InHand /\ UNCHANGED current
    PROVE  InboxOK'
BY DEF InboxOK

LEMMA InboxTaken ==
    ASSUME InboxOK, inbox \in Seq(FrameOf(Replies)), Frames, Consume, UNCHANGED <<Answered, pushed>>,
           pc' \in InHand => Next1.kind = "delivery" /\ current' = Next1.delivery
    PROVE  InboxOK'
<1>1. /\ Len(inbox') = Len(inbox) - 1 /\ Len(inbox) \in Nat \ {0} /\ Next1 = inbox[1]
      /\ \A i \in 1..Len(inbox') : i + 1 \in 1..Len(inbox) /\ inbox'[i] = inbox[i + 1]
    BY TailFacts DEF Frames, Consume, Next1
<1> SUFFICES ASSUME NEW i \in 1..Len(inbox'), inbox'[i].kind = "delivery"
             PROVE  /\ inbox'[i].delivery \in pushed \ Answered
                    /\ pc' \in InHand => inbox'[i].delivery # current'
                    /\ \A j \in 1..Len(inbox') :
                          inbox'[j].kind = "delivery" /\ inbox'[j].delivery = inbox'[i].delivery => i = j
    BY DEF InboxOK
<1>2. i + 1 \in 1..Len(inbox) /\ inbox'[i] = inbox[i + 1]
    BY <1>1
<1>3. inbox'[i].delivery \in pushed \ Answered
    BY <1>2 DEF InboxOK
<1>4. pc' \in InHand => inbox'[i].delivery # current'
    <2> SUFFICES ASSUME pc' \in InHand, inbox'[i].delivery = current' PROVE FALSE
        OBVIOUS
    <2>1. 1 \in 1..Len(inbox) /\ inbox[1].kind = "delivery" /\ inbox[1].delivery = inbox[i + 1].delivery
        BY <1>1, <1>2
    <2>2. i + 1 = 1
        BY <1>2, <2>1 DEF InboxOK
    <2>3. QED
        BY <2>2, <1>1
<1>5. ASSUME NEW j \in 1..Len(inbox'), inbox'[j].kind = "delivery",
             inbox'[j].delivery = inbox'[i].delivery
      PROVE  i = j
    <2>1. j + 1 \in 1..Len(inbox) /\ inbox'[j] = inbox[j + 1]
        BY <1>1
    <2>2. i + 1 = j + 1
        BY <1>2, <1>5, <2>1 DEF InboxOK
    <2>3. QED
        BY <2>2, <1>1
<1>6. QED
    BY <1>3, <1>4, <1>5

LEMMA PushedArrives ==
    ASSUME InboxOK, AnsweredOK, inbox \in Seq(FrameOf(Replies)), NEW f \in FrameOf(Replies),
           inbox' = Append(inbox, f), UNCHANGED <<Answered, loopVars>>,
           \/ f.kind = "delivery" /\ f.delivery \notin pushed /\ pushed' = pushed \cup {f.delivery}
           \/ f.kind # "delivery" /\ pushed' = pushed
    PROVE  InboxOK'
<1>1. /\ Len(inbox') = Len(inbox) + 1 /\ Len(inbox) \in Nat
      /\ \A i \in 1..Len(inbox) : inbox'[i] = inbox[i]
      /\ inbox'[Len(inbox) + 1] = f
    BY AppendFacts
<1>2. /\ \A i \in 1..Len(inbox) : inbox[i].kind = "delivery" => inbox[i].delivery \in pushed
      /\ Answered \subseteq pushed /\ (pc \in InHand => current \in pushed)
    BY DEF InboxOK, AnsweredOK
<1>3. UNCHANGED <<pc, current>>
    BY DEF loopVars
<1> SUFFICES ASSUME NEW i \in 1..Len(inbox'), inbox'[i].kind = "delivery"
             PROVE  /\ inbox'[i].delivery \in pushed' \ Answered
                    /\ pc \in InHand => inbox'[i].delivery # current
                    /\ \A j \in 1..Len(inbox') :
                          inbox'[j].kind = "delivery" /\ inbox'[j].delivery = inbox'[i].delivery => i = j
    BY <1>3 DEF InboxOK
<1>4. CASE i = Len(inbox) + 1
    <2>1. inbox'[i] = f /\ f.kind = "delivery" /\ f.delivery \notin pushed /\ f.delivery \in pushed'
        BY <1>1, <1>4
    <2>2. ASSUME NEW j \in 1..Len(inbox'), inbox'[j].kind = "delivery",
                 inbox'[j].delivery = inbox'[i].delivery
          PROVE  i = j
        <3>1. j \notin 1..Len(inbox)
            BY <1>1, <1>2, <2>1, <2>2
        <3>2. QED
            BY <1>1, <1>4, <3>1
    <2>3. QED
        BY <1>2, <2>1, <2>2
<1>5. CASE i # Len(inbox) + 1
    <2>1. i \in 1..Len(inbox) /\ inbox'[i] = inbox[i] /\ inbox[i].kind = "delivery"
        BY <1>1, <1>5
    <2>2. inbox[i].delivery \in pushed \ Answered /\ (pc \in InHand => inbox[i].delivery # current)
        BY <2>1 DEF InboxOK
    <2>3. ASSUME NEW j \in 1..Len(inbox'), inbox'[j].kind = "delivery",
                 inbox'[j].delivery = inbox'[i].delivery
          PROVE  i = j
        <3>1. CASE j = Len(inbox) + 1
            BY <1>1, <2>1, <2>2, <2>3, <3>1
        <3>2. CASE j # Len(inbox) + 1
            <4>1. j \in 1..Len(inbox) /\ inbox'[j] = inbox[j]
                BY <1>1, <3>2
            <4>2. QED
                BY <2>1, <2>3, <4>1 DEF InboxOK
        <3>3. QED
            BY <3>1, <3>2
    <2>4. QED
        BY <2>1, <2>2, <2>3
<1>6. QED
    BY <1>4, <1>5

LEMMA LoopMoves ==
    ASSUME Flow, Dial \/ Acquire \/ DialFails \/ Upgrade \/ AwaitFails \/ Hook \/ ReadFails \/ Answer
                 \/ Finish
    PROVE  /\ UNCHANGED <<log, inbox, pushed, current, handlerErr>>
           /\ pc' \in InHand => pc \in InHand
           /\ pc' = "reading" => current = None
           /\ reason' = "handler" => reason = "handler"
<1> USE DEF Flow, PlacesOK, LeaveUnlessCancelled, Leave, Stay, InHand, loopVars, serverVars
<1>1. CASE Dial \/ Acquire \/ DialFails \/ Upgrade
    BY <1>1 DEF Dial, Acquire, DialFails, Upgrade
<1>2. CASE AwaitFails \/ Hook
    BY <1>2 DEF AwaitFails, Hook
<1>3. CASE ReadFails
    BY <1>3 DEF ReadFails
<1>4. CASE Answer \/ Finish
    BY <1>4 DEF Answer, Finish
<1>5. QED
    BY <1>1, <1>2, <1>3, <1>4

LEMMA DeliveriesMove ==
    ASSUME Flow, DeliveriesOK,
           Dial \/ Acquire \/ DialFails \/ Upgrade \/ AwaitFails \/ Hook \/ ReadFails \/ Answer \/ Finish
    PROVE  DeliveriesOK'
<1>1. UNCHANGED <<Responses, Answered>>
    BY LoopMoves DEF Responses, Answered
<1>2. AnsweredOK'
    BY <1>1, LoopMoves, DeliveriesParts, AnsweredStays
<1>3. InboxOK'
    BY <1>1, LoopMoves, DeliveriesParts, InboxStays
<1>4. QED
    BY <1>2, <1>3 DEF DeliveriesOK, InboxOK, AnsweredOK

LEMMA DeliveriesElsewhere ==
    ASSUME Flow, DeliveriesOK,
           Join \/ Heart \/ Watch \/ Cancel \/ Tick \/ HookspotFails \/ UNCHANGED vars
    PROVE  DeliveriesOK'
<1>1. /\ UNCHANGED <<inbox, pushed, current, handlerErr>>
      /\ pc' \in InHand => pc \in InHand
      /\ pc' = "reading" => pc = "reading"
      /\ reason' = "handler" => reason = "handler"
      /\ \/ log' = log
         \/ \E k \in {"join", "heartbeat"}, r \in Nat : log' = Append(log, Frame(k, r, None))
    <2> USE DEF LeaveUnlessCancelled, Leave, Stay, InHand, loopVars, serverVars
    <2>0. ref \in Nat
        BY DEF Flow, PlainOK
    <2>1. CASE Join
        <3>1. ref' = ref + 1 /\ UNCHANGED <<inbox, pushed>>
            BY <2>1 DEF Join
        <3>2. CASE log' = Append(log, Frame("join", ref', None)) /\ Stay("awaiting")
            <4>1. log' = Append(log, Frame("join", ref + 1, None)) /\ ref + 1 \in Nat
                BY <2>0, <3>1, <3>2
            <4>2. QED
                BY <3>1, <3>2, <4>1
        <3>3. CASE UNCHANGED log /\ LeaveUnlessCancelled(Error("Connect"), "send join")
            BY <3>1, <3>3
        <3>4. QED
            BY <2>1, <3>2, <3>3 DEF Join
    <2>2. CASE Beat \/ BeatWritten \/ BeatFails \/ HeartEnds
        BY <2>2 DEF Beat, BeatWritten, BeatFails, HeartEnds
    <2>3. CASE BeatReaches
        BY <2>0, <2>3 DEF BeatReaches
    <2>4. CASE Watch \/ Cancel \/ Tick \/ HookspotFails \/ UNCHANGED vars
        BY <2>4 DEF Watch, Cancel, Tick, HookspotFails, vars
    <2>5. QED
        BY <2>1, <2>2, <2>3, <2>4 DEF Heart
<1>2. UNCHANGED <<Responses, Answered>> /\ \A i \in Responses : log'[i] = log[i]
    <2>1. CASE log' = log
        BY <2>1 DEF Responses, Answered
    <2>2. CASE \E k \in {"join", "heartbeat"}, r \in Nat : log' = Append(log, Frame(k, r, None))
        <3>1. PICK k \in {"join", "heartbeat"}, r \in Nat : log' = Append(log, Frame(k, r, None))
            BY <2>2
        <3>2. Frame(k, r, None) \in FrameOf({"join", "heartbeat"})
            BY DEF Frame, FrameOf
        <3>3. QED
            BY <3>1, <3>2, OtherFrame DEF Flow, FramesOK
    <2>3. QED
        BY <1>1, <2>1, <2>2
<1>3. AnsweredOK'
    BY <1>1, <1>2, DeliveriesParts, AnsweredStays
<1>4. InboxOK'
    BY <1>1, <1>2, DeliveriesParts, InboxStays
<1>5. QED
    BY <1>3, <1>4 DEF DeliveriesOK, InboxOK, AnsweredOK

LEMMA DeliveryHandled ==
    ASSUME Flow, DeliveriesOK, HandlerReturns
    PROVE  DeliveriesOK'
<1>1. /\ UNCHANGED <<inbox, pushed, current, log>> /\ pc = "handling" /\ ~ handlerErr
      /\ pc' \notin {"reading", "handling", "sending"}
    BY DEF HandlerReturns, Leave, Flow, PlacesOK, serverVars
<1>2. UNCHANGED <<Responses, Answered>>
    BY <1>1 DEF Responses, Answered
<1>3. ~ (reason' = "handler" /\ handlerErr')
    <2>1. CASE pc' = "answering"
        BY <2>1 DEF HandlerReturns, Leave, Flow, PlacesOK, Gone
    <2>2. CASE pc' # "answering"
        BY <1>1, <2>2 DEF HandlerReturns, Leave
    <2>3. QED
        BY <2>1, <2>2
<1>4. AnsweredOK'
    BY <1>1, <1>2, <1>3, DeliveriesParts, AnsweredStays DEF InHand
<1>5. InboxOK'
    BY <1>1, <1>2, DeliveriesParts, InboxStays DEF InHand
<1>6. QED
    BY <1>4, <1>5 DEF DeliveriesOK, InboxOK, AnsweredOK

LEMMA DeliveryAnswered ==
    ASSUME Flow, DeliveriesOK, Send
    PROVE  DeliveriesOK'
<1>1. pc = "sending" /\ UNCHANGED <<inbox, pushed, current, handlerErr>> /\ pc' \notin InHand
    BY Sends DEF Left, Stay, InHand, serverVars
<1>2. current \in pushed \ Answered /\ current \in Deliveries
    BY <1>1 DEF DeliveriesOK, InHand, Flow, FramesOK
<1>3. CASE Left("send response") /\ log' = log
    <2>1. UNCHANGED <<Responses, Answered>>
        BY <1>3 DEF Responses, Answered
    <2>2. AnsweredOK'
        BY <1>1, <1>3, <2>1, DeliveriesParts, AnsweredStays DEF Left
    <2>3. InboxOK'
        BY <1>1, <2>1, DeliveriesParts, InboxStays
    <2>4. QED
        BY <2>2, <2>3 DEF DeliveriesOK, InboxOK, AnsweredOK
<1>4. CASE log' = Append(log, Frame("response", ref, current))
    <2>1. PICK n \in Nat \ Responses :
              /\ Responses' = Responses \cup {n} /\ log'[n].delivery = current
              /\ \A i \in Responses : log'[i] = log[i]
              /\ Answered' = Answered \cup {current}
        BY <1>2, <1>4, ResponseFrame DEF Flow, FramesOK, PlainOK
    <2>2. AnsweredOK'
        <3>1. \A i \in Responses : log[i].delivery # current
            BY <1>2 DEF Answered
        <3>2. \A i, j \in Responses' : log'[i].delivery = log'[j].delivery => i = j
            BY <2>1, <3>1 DEF DeliveriesOK
        <3>3. Answered' \subseteq pushed' /\ current' \in Answered'
            BY <1>1, <1>2, <2>1 DEF DeliveriesOK
        <3>4. QED
            BY <1>1, <3>2, <3>3 DEF AnsweredOK
    <2>3. InboxOK'
        <3>1. \A i \in 1..Len(inbox) : inbox[i].kind = "delivery" =>
                  inbox[i].delivery \in pushed \ (Answered \cup {current})
            BY <1>1 DEF DeliveriesOK, InHand
        <3>2. QED
            BY <1>1, <2>1, <3>1 DEF DeliveriesOK, InboxOK
    <2>4. QED
        BY <2>2, <2>3 DEF DeliveriesOK, InboxOK, AnsweredOK
<1>5. QED
    BY <1>3, <1>4, Sends

LEMMA FrameRead ==
    ASSUME Flow, DeliveriesOK, Await \/ ReadReply \/ ReadFrame
    PROVE  DeliveriesOK'
<1>1. /\ Frames /\ Consume /\ UNCHANGED <<pushed, log>>
    BY DEF Await, ReadReply, ReadFrame, serverVars
<1>2. UNCHANGED <<Responses, Answered>> /\ inbox \in Seq(FrameOf(Replies))
    BY <1>1 DEF Responses, Answered, Flow, FramesOK
<1>3. CASE pc' = "handling" /\ Next1.kind = "delivery" /\ current' = Next1.delivery /\ handlerErr' = FALSE
    <2>1. InboxOK'
        BY <1>1, <1>2, <1>3, DeliveriesParts, InboxTaken
    <2>2. 1 \in 1..Len(inbox) /\ Next1 = inbox[1]
        BY <1>1, <1>2, TailFacts DEF Frames, Next1
    <2>3. Next1.delivery \in pushed \ Answered
        BY <1>3, <2>2 DEF DeliveriesOK
    <2>4. AnsweredOK'
        BY <1>1, <1>2, <1>3, <2>3 DEF DeliveriesOK, AnsweredOK
    <2>5. QED
        BY <2>1, <2>4 DEF DeliveriesOK, InboxOK, AnsweredOK
<1>4. CASE /\ pc' \notin InHand /\ UNCHANGED <<current, handlerErr>>
           /\ pc' = "reading" => pc = "reading"
           /\ reason' = "handler" => reason = "handler"
    <2>1. InboxOK'
        BY <1>1, <1>2, <1>4, DeliveriesParts, InboxTaken
    <2>2. AnsweredOK'
        BY <1>1, <1>2, <1>4, DeliveriesParts, AnsweredStays
    <2>3. QED
        BY <2>1, <2>2 DEF DeliveriesOK, InboxOK, AnsweredOK
<1>5. CASE Await
    <2>1. pc' \notin InHand \cup {"reading"} /\ UNCHANGED <<current, handlerErr>>
          /\ (reason' = "handler" => reason = "handler")
        BY <1>5 DEF Await, LeaveUnlessCancelled, Leave, Stay, InHand
    <2>2. QED
        BY <1>4, <2>1
<1>6. CASE ReadReply
    <2>1. pc' \notin InHand /\ UNCHANGED <<current, handlerErr>> /\ pc = "reading"
          /\ (reason' = "handler" => reason = "handler")
        BY <1>6 DEF ReadReply, Rearm, LeaveUnlessCancelled, Leave, Stay, InHand
    <2>2. QED
        BY <1>4, <2>1
<1>7. CASE ReadFrame
    <2>1. pc = "reading"
        BY <1>7 DEF ReadFrame
    <2>2. CASE pc' = "handling" /\ Next1.kind = "delivery" /\ current' = Next1.delivery
               /\ handlerErr' = FALSE
        BY <1>3, <2>2
    <2>3. CASE \E e, why : why # "handler" /\ Leave(e, why)
        BY <1>4, <2>1, <2>3 DEF Leave, InHand
    <2>4. CASE Stay("reading")
        BY <1>4, <2>1, <2>4 DEF Stay, InHand
    <2>5. QED
        BY <1>7, <2>2, <2>3, <2>4 DEF ReadFrame
<1>8. QED
    BY <1>5, <1>6, <1>7

LEMMA FramePushed ==
    ASSUME Flow, TrackerOK, DeliveriesOK,
           NEW f \in FrameOf(Replies), inbox' = Append(inbox, f), UNCHANGED <<loopVars, log>>,
           \/ f.kind = "delivery" /\ f.delivery \notin pushed /\ pushed' = pushed \cup {f.delivery}
           \/ f.kind # "delivery" /\ pushed' = pushed
    PROVE  DeliveriesOK'
<1>1. UNCHANGED <<Responses, Answered>> /\ inbox \in Seq(FrameOf(Replies))
    BY DEF Responses, Answered, Flow, FramesOK
<1>2. InboxOK'
    BY <1>1, DeliveriesParts, PushedArrives
<1>3. AnsweredOK'
    BY <1>1 DEF DeliveriesOK, AnsweredOK, loopVars
<1>4. QED
    BY <1>2, <1>3 DEF DeliveriesOK, InboxOK, AnsweredOK

LEMMA DeliveriesStep ==
    ASSUME Flow, TrackerOK, DeliveriesOK, [Next]_vars
    PROVE  DeliveriesOK'
<1>1. CASE Pushes
    <2>1. UNCHANGED loopVars /\ UNCHANGED log
        BY <1>1, HookspotPushes
    <2>2. QED
        BY <1>1, <2>1, HookspotPushes, FramePushed
<1>2. QED
    BY <1>1, DeliveriesMove, DeliveriesElsewhere, DeliveryHandled, DeliveryAnswered, FrameRead
       DEF Next, Loop, Hookspot, Pushes

----------------------------------------------------------------------------
(* What Listen sends and answers, and what its caller sees.                   *)

LEMMA AnswersInit == Init => AnswersInv
<1> SUFFICES ASSUME Init PROVE AnswersInv
    OBVIOUS
<1>1. PlainOK
    <2>1. /\ joined \in BOOLEAN /\ handlerErr \in BOOLEAN /\ cancelled \in BOOLEAN
          /\ heartErr \in BOOLEAN /\ done \in BOOLEAN /\ beat \in BOOLEAN
        BY DEF Init
    <2>2. ref \in Nat /\ idle \in 0..IdleTicks
        BY LimitAssumption DEF Init
    <2>3. QED
        BY <2>1, <2>2 DEF Init, PlainOK
<1>2. TrackerOK
    <2>1. <<>> \in Seq(1..ref)
        OBVIOUS
    <2>2. QED
        BY <2>1, LimitAssumption DEF Init, TrackerOK
<1>3. FramesOK
    <2>1. <<>> \in Seq(FrameOf(Replies))
        OBVIOUS
    <2>2. <<>> \in Seq(FrameOf({"join", "heartbeat", "response"}))
        OBVIOUS
    <2>3. QED
        BY <2>1, <2>2 DEF Init, FramesOK
<1>4. PlacesOK
    BY DEF Init, PlacesOK, Started, InHand, Gone
<1>5. LogOK
    BY DEF Init, LogOK
<1>6. DeliveriesOK
    BY DEF Init, DeliveriesOK, Responses, Answered, InHand
<1>7. QED
    BY <1>1, <1>2, <1>3, <1>4, <1>5, <1>6, TypeParts DEF AnswersInv

LEMMA FlowHolds == AnswersInv => Flow /\ TrackerOK /\ LogOK /\ DeliveriesOK
BY TypeParts DEF AnswersInv, Flow

LEMMA AnswersStep == AnswersInv /\ [Next]_vars => AnswersInv'
<1> SUFFICES ASSUME AnswersInv, [Next]_vars PROVE AnswersInv'
    OBVIOUS
<1>1. PlainOK' /\ PlacesOK'
    BY FlowHolds, FlowStep
<1>2. LogOK' /\ FramesOK' /\ TrackerOK'
    BY FlowHolds, LogStep, FramesStep, TrackerStep
<1>3. DeliveriesOK'
    BY FlowHolds, DeliveriesStep
<1>4. TypeOK'
    BY <1>1, <1>2, TypeParts, PTL
<1>5. QED
    BY <1>1, <1>2, <1>3, <1>4 DEF AnswersInv

LEMMA AnswersHold == Spec => []AnswersInv
<1>1. QED
    BY AnswersInit, AnswersStep, PTL DEF Spec

\* The client's side of the channel: refs that rise, the join first, no delivery
\* answered twice or unpushed, and none left behind while the loop reads on.
THEOREM AnswersCorrect == Spec => []AnswersMatchDeliveries
<1>1. AnswersInv => AnswersMatchDeliveries
    BY DEF AnswersInv, LogOK, DeliveriesOK, AnswersMatchDeliveries
<1>2. QED
    BY <1>1, AnswersHold, PTL

LEMMA CallInits == Init => Call!CallInit
BY DEF Init, Call!CallInit, CallState, Call!NoError, Call!Error

LEMMA CallSteps == AnswersInv /\ [Next]_vars => [Call!CallNext]_(Call!callVars)
<1> DEFINE failed == IF pc = "returned" THEN result ELSE [kind |-> "none", connected |-> FALSE]
<1> SUFFICES ASSUME AnswersInv, [Next]_vars PROVE Call!CallNext \/ UNCHANGED Call!callVars
    BY DEF Call!callVars
<1>1. Flow
    BY FlowHolds
<1>2. CASE Dial
    <2>1. pc = "none" /\ pc' = "dialing" /\ joined' = joined /\ ~ joined
        BY <1>1, <1>2 DEF Dial, Stay, Flow, PlacesOK
    <2>2. QED
        BY <2>1 DEF CallState, Call!CallNext, Call!Start, Call!NoError, Call!Error
<1>3. CASE Finish
    <2>1. pc = "leaving" /\ pc' = "returned" /\ UNCHANGED <<joined, result>>
        BY <1>3 DEF Finish, Stay
    <2>2. result \in Call!Errors /\ (result # Call!Canceled => result.connected = joined)
        BY <1>1, <2>1 DEF Flow, PlacesOK, Gone
    <2>3. Call!Return(result)
        <3>1. joined = TRUE \/ joined = FALSE
            BY <1>1 DEF Flow, PlainOK
        <3>2. (CallState = "joined") = joined
            BY <2>1, <3>1 DEF CallState
        <3>3. result # Call!Canceled => result.connected = (CallState = "joined")
            BY <2>2, <3>2
        <3>4. CallState \in {"connecting", "joined"} /\ CallState' = "returned"
            BY <2>1 DEF CallState
        <3>5. QED
            BY <2>1, <3>3, <3>4 DEF Call!Return
    <2>4. QED
        BY <2>2, <2>3 DEF Call!CallNext
<1>4. CASE Await /\ pc' = "hook" /\ joined' = TRUE
    <2>1. pc = "awaiting" /\ ~ joined
        BY <1>1, <1>4 DEF Await, Flow, PlacesOK
    <2>2. QED
        BY <1>4, <2>1 DEF CallState, Call!CallNext, Call!Join
<1>5. CASE /\ pc' \notin {"none", "returned"} /\ pc \notin {"none", "returned"}
           /\ joined' = joined
    BY <1>5 DEF CallState, Call!callVars
<1>6. CASE UNCHANGED <<pc, joined, result>>
    BY <1>6 DEF CallState, Call!callVars
<1>7. CASE Await /\ ~ (pc' = "hook" /\ joined' = TRUE)
    BY <1>5, <1>7 DEF Await, LeaveUnlessCancelled, Leave, Stay
<1>8. CASE DialFails \/ Upgrade \/ Join \/ AwaitFails \/ Hook
    BY <1>5, <1>8 DEF DialFails, Upgrade, Join, AwaitFails, Hook, LeaveUnlessCancelled, Leave, Stay
<1>9. CASE ReadFails \/ ReadReply \/ ReadFrame
    BY <1>5, <1>9 DEF ReadFails, ReadReply, ReadFrame, Rearm, LeaveUnlessCancelled, Leave, Stay
<1>10. CASE HandlerReturns \/ Answer \/ Send
    BY <1>5, <1>10 DEF HandlerReturns, Answer, Send, Rearm, LeaveUnlessCancelled, Leave, Stay
<1>11. CASE Acquire \/ Heart \/ Watch \/ Cancel \/ Tick
    BY <1>6, <1>11 DEF Acquire, Heart, Beat, BeatReaches, BeatWritten, BeatFails, HeartEnds, Watch, Cancel, Tick,
       loopVars
<1>12. CASE Hookspot
    BY <1>6, <1>12 DEF Hookspot, HookspotJoins, HookspotDelivers, HookspotAnswersBeat, HookspotBabbles,
       HookspotEnds, HookspotFails, Push, loopVars
<1>13. CASE UNCHANGED vars
    BY <1>6, <1>13 DEF vars, loopVars
<1>14. QED
    BY <1>2, <1>3, <1>4, <1>7, <1>8, <1>9, <1>10, <1>11, <1>12, <1>13 DEF Next, Loop

\* Listen keeps its caller's contract, the one the supervisor is proved against:
\* it joins at most once, and returns an error that says whether it had.
THEOREM ListenKeepsItsContract == Spec => ImplementsListenCall
BY CallInits, CallSteps, AnswersHold, PTL DEF Spec, ImplementsListenCall, Call!CallSpec

----------------------------------------------------------------------------
(* Heartbeats.                                                                *)

LEMMA ClosedStep ==
    ASSUME Flow, ClosedOK, [Next]_vars
    PROVE  ClosedOK'
<1>1. CASE ReadFails
    <2>1. /\ UNCHANGED <<heart, heartErr>> /\ conn # "none" /\ conn' = "closed"
          /\ closedBy' \in {closedBy, "listen"}
          /\ reason' = "read message" => ~ heartErr
        BY <1>1 DEF ReadFails, LeaveUnlessCancelled, Leave, heartVars, Flow, PlacesOK, Started
    <2>2. QED
        BY <2>1 DEF ClosedOK
<1>2. CASE BeatFails
    <2>1. CASE heart = "failed"
        BY <1>2, <2>1 DEF BeatFails, ClosedOK, loopVars
    <2>2. CASE heart # "failed"
        BY <1>2, <2>2 DEF BeatFails, ClosedOK, loopVars
    <2>3. QED
        BY <2>1, <2>2
<1>3. CASE Beat \/ BeatReaches \/ BeatWritten \/ HeartEnds
    BY <1>3 DEF Beat, BeatReaches, BeatWritten, HeartEnds, ClosedOK, loopVars, connVars
<1>4. CASE Watch
    BY <1>4 DEF Watch, ClosedOK, loopVars, heartVars
<1>5. CASE Cancel \/ Tick \/ UNCHANGED vars
    BY <1>5 DEF Cancel, Tick, vars, ClosedOK, loopVars, connVars, heartVars
<1>6. CASE Hookspot
    BY <1>6 DEF Hookspot, HookspotJoins, HookspotDelivers, HookspotAnswersBeat, HookspotBabbles,
       HookspotEnds, HookspotFails, Push, ClosedOK, loopVars, connVars, heartVars
<1>7. ASSUME reason' # "read message", heart' = "reported" => heart = "reported",
             heartErr' = heartErr, closedBy' \in {closedBy, "listen"}
      PROVE  ClosedOK'
    BY <1>7 DEF ClosedOK
<1>8. CASE Acquire
    BY <1>8 DEF Acquire, ClosedOK, loopVars, heartVars, Flow, PlacesOK, Gone
<1>9. CASE Finish
    BY <1>9 DEF Finish, Stay, ClosedOK, connVars, heartVars
<1>10. CASE Dial \/ DialFails \/ Upgrade \/ Join \/ AwaitFails \/ Await \/ Hook
    <2>1. reason = "none"
        BY <1>10 DEF Dial, DialFails, Upgrade, Join, AwaitFails, Await, Hook, Flow, PlacesOK, Gone
    <2>2. QED
        BY <1>7, <1>10, <2>1 DEF Dial, DialFails, Upgrade, Join, AwaitFails, Await, Hook, Stay,
           LeaveUnlessCancelled, Leave, connVars, heartVars
<1>11. CASE ReadReply \/ ReadFrame \/ HandlerReturns \/ Answer \/ Send
    <2>1. reason = "none"
        BY <1>11 DEF ReadReply, ReadFrame, HandlerReturns, Answer, Send, Flow, PlacesOK, Gone
    <2>2. QED
        BY <1>7, <1>11, <2>1 DEF ReadReply, ReadFrame, HandlerReturns, Answer, Send, Rearm, Stay,
           LeaveUnlessCancelled, Leave, connVars, heartVars
<1>12. QED
    BY <1>1, <1>2, <1>3, <1>4, <1>5, <1>6, <1>8, <1>9, <1>10, <1>11 DEF Next, Loop, Heart

\* In a sequence that rises, as many elements are larger than one as stand after it.
LEMMA LargerInOrder ==
    ASSUME NEW q \in Seq(Nat), \A i, j \in 1..Len(q) : i < j => q[i] < q[j], NEW i \in 1..Len(q)
    PROVE  Cardinality({r \in {q[k] : k \in 1..Len(q)} : r > q[i]}) = Len(q) - i
<1> DEFINE T == {r \in {q[k] : k \in 1..Len(q)} : r > q[i]}
           S == (i + 1)..Len(q)
           f == [k \in S |-> q[k]]
<1>1. Len(q) \in Nat /\ \A k \in 1..Len(q) : q[k] \in Nat
    BY SeqFacts
<1>2. \A k \in S : k \in 1..Len(q) /\ q[k] > q[i]
    BY <1>1
<1>3. f \in [S -> T]
    BY <1>2
<1>4. \A k, m \in S : f[k] = f[m] => k = m
    <2> SUFFICES ASSUME NEW k \in S, NEW m \in S, f[k] = f[m], k < m PROVE FALSE
        BY <1>1
    <2>1. q[k] < q[m] /\ q[k] = q[m] /\ q[k] \in Nat
        BY <1>1, <1>2
    <2>2. QED
        BY <2>1
<1>5. \A r \in T : \E k \in S : f[k] = r
    <2> SUFFICES ASSUME NEW k \in 1..Len(q), q[k] > q[i] PROVE k \in S
        OBVIOUS
    <2>1. ~ k < i /\ k # i
        BY <1>1
    <2>2. QED
        BY <1>1, <2>1
<1>6. f \in Bijection(S, T)
    BY <1>3, <1>4, <1>5 DEF Bijection, Injection, Surjection, IsInjective
<1>7. IsFiniteSet(S) /\ Cardinality(S) = Len(q) - i
    <2>1. i + 1 \in Int /\ Len(q) \in Int /\ i <= Len(q)
        BY <1>1
    <2>2. QED
        BY <2>1, FS_Interval
<1>8. Cardinality(T) = Cardinality(S)
    <2>1. ExistsBijection(S, T)
        BY <1>6 DEF ExistsBijection
    <2>2. QED
        BY <1>7, <2>1, FS_Bijection
<1>9. QED
    BY <1>7, <1>8

\* add: the tracker keeps the newest of what is awaited, the new heartbeat among it.
LEMMA AddKeepsNewest ==
    ASSUME TrackerOK, TrackerHolds, ref \in Nat
    PROVE  LET p == Added(pending, ref + 1)
           IN  Newest(awaited \cup {ref + 1}) = {p[i] : i \in 1..Len(p)}
<1>1. /\ MaxPending \in Nat \ {0} /\ pending \in Seq(1..ref)
      /\ Len(pending) \in Nat /\ Len(pending) <= MaxPending
      /\ \A i \in 1..Len(pending) : pending[i] \in 1..ref
      /\ \A i, j \in 1..Len(pending) : i < j => pending[i] < pending[j]
    BY LimitAssumption DEF TrackerOK
<1>2. PICK q, p : q = Append(pending, ref + 1) /\ p = Added(pending, ref + 1)
    OBVIOUS
<1>3. /\ q \in Seq(Nat) /\ Len(q) = Len(pending) + 1
      /\ \A i \in 1..Len(pending) : q[i] = pending[i]
      /\ q[Len(pending) + 1] = ref + 1
    <2>1. pending \in Seq(Nat) /\ ref + 1 \in Nat
        BY <1>1
    <2>2. QED
        BY <1>2, <2>1, AppendFacts
<1>4. \A i, j \in 1..Len(q) : i < j => q[i] < q[j]
    <2> SUFFICES ASSUME NEW i \in 1..Len(q), NEW j \in 1..Len(q), i < j PROVE q[i] < q[j]
        OBVIOUS
    <2>1. i \in 1..Len(pending) /\ q[i] = pending[i]
        BY <1>1, <1>3
    <2>2. CASE j = Len(pending) + 1
        BY <1>1, <1>3, <2>1, <2>2
    <2>3. CASE j # Len(pending) + 1
        <3>1. j \in 1..Len(pending)
            <4>1. PICK n \in Nat : n = Len(pending)
                BY <1>1
            <4>2. j \in 1..(n + 1) /\ j # n + 1
                BY <1>3, <2>3, <4>1
            <4>3. QED
                BY <4>1, <4>2
        <3>2. q[j] = pending[j]
            BY <1>3, <3>1
        <3>3. QED
            BY <1>1, <2>1, <3>1, <3>2
    <2>4. QED
        BY <2>2, <2>3
<1>5. PICK drop \in {0, 1} :
          /\ drop = 1 <=> Len(pending) = MaxPending
          /\ Len(p) = Len(pending) - drop + 1
          /\ \A i \in 1..(Len(pending) - drop) : p[i] = pending[i + drop]
          /\ p[Len(pending) - drop + 1] = ref + 1
    BY <1>2, AddedFacts
<1> DEFINE R == {q[k] : k \in 1..Len(q)}
<1>6. awaited \cup {ref + 1} = R
    <2>1. ASSUME NEW r \in awaited \cup {ref + 1} PROVE r \in R
        <3>1. CASE r = ref + 1
            BY <1>1, <1>3, <3>1
        <3>2. CASE r # ref + 1
            <4>1. PICK i \in 1..Len(pending) : r = pending[i]
                BY <2>1, <3>2 DEF TrackerHolds
            <4>2. i \in 1..Len(q) /\ q[i] = r
                BY <1>1, <1>3, <4>1
            <4>3. QED
                BY <4>2
        <3>3. QED
            BY <3>1, <3>2
    <2>2. ASSUME NEW k \in 1..Len(q) PROVE q[k] \in awaited \cup {ref + 1}
        <3>1. CASE k = Len(pending) + 1
            BY <1>3, <3>1
        <3>2. CASE k # Len(pending) + 1
            <4>1. k \in 1..Len(pending)
                BY <1>1, <1>3, <3>2
            <4>2. QED
                BY <1>3, <4>1 DEF TrackerHolds
        <3>3. QED
            BY <3>1, <3>2
    <2>3. QED
        BY <2>1, <2>2
<1>7. \A k \in 1..Len(q) : Cardinality({r \in R : r > q[k]}) = Len(q) - k
    BY <1>3, <1>4, LargerInOrder
<1>8. \A i \in 1..Len(p) : i + drop \in 1..Len(q) /\ p[i] = q[i + drop]
    <2> SUFFICES ASSUME NEW i \in 1..Len(p) PROVE i + drop \in 1..Len(q) /\ p[i] = q[i + drop]
        OBVIOUS
    <2>1. CASE i = Len(pending) - drop + 1
        <3>1. i + drop = Len(pending) + 1
            BY <1>1, <2>1
        <3>2. QED
            BY <1>1, <1>3, <1>5, <2>1, <3>1
    <2>2. CASE i # Len(pending) - drop + 1
        <3>1. i \in 1..(Len(pending) - drop) /\ i + drop \in 1..Len(pending)
            BY <1>1, <1>5, <2>2
        <3>2. QED
            BY <1>1, <1>3, <1>5, <3>1
    <2>3. QED
        BY <2>1, <2>2
<1> HIDE DEF R
<1>9. ASSUME NEW i \in 1..Len(p) PROVE p[i] \in Newest(R)
    <2>1. Len(q) - (i + drop) < MaxPending
        BY <1>1, <1>3, <1>5
    <2>2. q[i + drop] \in R /\ Cardinality({r \in R : r > q[i + drop]}) < MaxPending
        BY <1>7, <1>8, <2>1 DEF R
    <2>3. QED
        BY <1>8, <2>2 DEF Newest
<1>10. ASSUME NEW x \in Newest(R) PROVE \E i \in 1..Len(p) : x = p[i]
    <2>1. PICK k \in 1..Len(q) : x = q[k]
        BY <1>10 DEF Newest, R
    <2>2. Len(q) - k < MaxPending
        <3>1. Cardinality({r \in R : r > q[k]}) < MaxPending
            BY <2>1, <1>10 DEF Newest
        <3>2. QED
            BY <1>7, <3>1
    <2>3. k - drop \in 1..Len(p) /\ (k - drop) + drop = k
        BY <1>1, <1>3, <1>5, <2>2
    <2>4. QED
        BY <1>8, <2>1, <2>3
<1>11. QED
    BY <1>2, <1>6, <1>9, <1>10

\* take: the tracker loses the ref, if it holds it, and nothing else.
LEMMA TakeDropsOne ==
    ASSUME TrackerOK, TrackerHolds, NEW r
    PROVE  LET p == Taken(pending, r)
           IN  awaited \ {r} = {p[i] : i \in 1..Len(p)}
<1>1. /\ pending \in Seq(1..ref) /\ \A i \in 1..Len(pending) : pending[i] \in 1..ref
      /\ \A i, j \in 1..Len(pending) : i < j => pending[i] < pending[j]
    BY SeqFacts DEF TrackerOK
<1>2. \A i, j \in 1..Len(pending) : pending[i] = pending[j] => i = j
    <2> SUFFICES ASSUME NEW i \in 1..Len(pending), NEW j \in 1..Len(pending), pending[i] = pending[j],
                        i < j
                 PROVE  FALSE
        BY <1>1
    <2>1. pending[i] < pending[j] /\ pending[i] \in Int
        BY <1>1
    <2>2. QED
        BY <2>1
<1>3. PICK p : p = Taken(pending, r)
    OBVIOUS
<1>4. /\ LeavesOneOut(p, pending)
      /\ \A i \in 1..Len(pending) : pending[i] # r => \E j \in 1..Len(p) : p[j] = pending[i]
      /\ \A j \in 1..Len(p) : p[j] # r
    <2>1. pending \in Seq(1..ref)
        BY <1>1
    <2>2. LeavesOneOut(p, pending)
        <3>1. LeavesOneOut(Taken(pending, r), pending)
            BY <1>2, <2>1, TakenFacts
        <3>2. QED
            BY <1>3, <3>1, Zenon
    <2>3. \A i \in 1..Len(pending) : pending[i] # r => \E j \in 1..Len(p) : p[j] = pending[i]
        <3>1. \A i \in 1..Len(pending) :
                pending[i] # r => \E j \in 1..Len(Taken(pending, r)) : Taken(pending, r)[j] = pending[i]
            BY <1>2, <2>1, TakenFacts
        <3>2. QED
            BY <1>3, <3>1, Zenon
    <2>4. \A j \in 1..Len(p) : p[j] # r
        <3>1. \A j \in 1..Len(Taken(pending, r)) : Taken(pending, r)[j] # r
            BY <1>2, <2>1, TakenFacts
        <3>2. QED
            BY <1>3, <3>1, Zenon
    <2>5. QED
        BY <2>2, <2>3, <2>4
<1>5. \A i \in 1..Len(p) : \E j \in 1..Len(pending) : p[i] = pending[j]
    BY <1>4 DEF LeavesOneOut
<1>6. ASSUME NEW x \in awaited \ {r} PROVE \E j \in 1..Len(p) : x = p[j]
    <2>1. PICK i \in 1..Len(pending) : x = pending[i]
        BY <1>6 DEF TrackerHolds
    <2>2. QED
        BY <1>4, <1>6, <2>1
<1>7. ASSUME NEW j \in 1..Len(p) PROVE p[j] \in awaited \ {r}
    <2>1. p[j] \in awaited
        BY <1>5 DEF TrackerHolds
    <2>2. QED
        BY <1>4, <2>1
<1>8. awaited \ {r} = {p[j] : j \in 1..Len(p)}
    BY <1>6, <1>7
<1>9. QED
    BY <1>3, <1>8

LEMMA HoldsStep ==
    ASSUME Flow, TrackerOK, TrackerHolds, [Next]_vars
    PROVE  TrackerHolds'
<1>1. CASE UNCHANGED trackerVars
    BY <1>1 DEF TrackerHolds, trackerVars
<1>2. CASE pending' = Taken(pending, Next1.ref) /\ awaited' = awaited \ {Next1.ref}
    BY <1>2, TakeDropsOne DEF TrackerHolds
<1>3. CASE pending' = Added(pending, ref + 1) /\ awaited' = Newest(awaited \cup {ref + 1})
    BY <1>3, AddKeepsNewest DEF TrackerHolds, Flow, PlainOK
<1>4. QED
    BY <1>1, <1>2, <1>3, TrackerSteps

LEMMA BeatsInit == Init => BeatsInv
BY DEF Init, BeatsInv, ClosedOK, TrackerHolds

LEMMA BeatsHold == Spec => [](AnswersInv /\ BeatsInv)
<1>1. AnswersInv /\ BeatsInv /\ [Next]_vars => BeatsInv'
    BY FlowHolds, ClosedStep, HoldsStep DEF BeatsInv
<1>2. QED
    BY <1>1, BeatsInit, AnswersHold, PTL DEF Spec

\* Each step's part of HeartbeatsCount.
LEMMA BeatsCounted ==
    BeatsInv /\ BeatsInv' /\ [Next]_vars
    =>  [/\ reason' = "read message" => closedBy' # "heartbeat"
         /\ ReadReply =>
            /\ Next1.ref \in awaited /\ conn # "closed" => idle' = IdleTicks
            /\ Next1.ref \notin awaited => idle' = idle]_vars
<1> SUFFICES ASSUME BeatsInv, BeatsInv', [Next]_vars
             PROVE  /\ reason' = "read message" => closedBy' # "heartbeat"
                    /\ ReadReply =>
                        /\ Next1.ref \in awaited /\ conn # "closed" => idle' = IdleTicks
                        /\ Next1.ref \notin awaited => idle' = idle
    OBVIOUS
<1>1. reason' = "read message" => closedBy' # "heartbeat"
    BY DEF BeatsInv, ClosedOK
<1>2. ASSUME ReadReply
      PROVE  /\ Next1.ref \in awaited /\ conn # "closed" => idle' = IdleTicks
             /\ Next1.ref \notin awaited => idle' = idle
    <2>1. Next1.kind = "pong" /\ IF Matches(Next1) THEN Rearm ELSE UNCHANGED idle
        BY <1>2 DEF ReadReply
    <2>2. Matches(Next1) <=> Next1.ref \in awaited
        BY <2>1 DEF BeatsInv, TrackerHolds, Matches
    <2>3. CASE Next1.ref \notin awaited
        BY <2>1, <2>2, <2>3
    <2>4. CASE Next1.ref \in awaited /\ conn # "closed"
        BY <2>1, <2>2, <2>4 DEF Rearm
    <2>5. QED
        BY <2>3, <2>4
<1>3. QED
    BY <1>1, <1>2

\* A reply renews the read deadline exactly when it is the first one read to a
\* heartbeat that no MaxPending later unanswered ones have overtaken, even before
\* that heartbeat's write returned; a reply that is repeated, too late or to
\* nothing sent leaves the deadline alone; and a failed heartbeat is reported as one.
THEOREM HeartbeatsCorrect == Spec => HeartbeatsCount
BY BeatsCounted, BeatsHold, PTL DEF Spec, HeartbeatsCount
=============================================================================
