----------------------------- MODULE WsSession -----------------------------
(* internal/ws: one Client.Listen.  Its read loop, the heartbeat goroutine   *)
(* and the socket's watcher share the connection, the connWriter and the     *)
(* heartbeatTracker; Hookspot's side of the channel is external.             *)
EXTENDS Integers, Sequences, FiniteSets, SequencesExt

CONSTANTS
    Deliveries,      \* the deliveries Hookspot may push, each once
    None,            \* no delivery in hand
    MaxPending,      \* maxPendingHeartbeats
    IdleTicks,       \* receiveIdle, in heartbeat intervals
    MaxRef,          \* bound: no heartbeat is sent after this ref
    MaxQueue         \* bound: frames on their way to the client

ASSUME LimitAssumption ==
    MaxPending \in Nat \ {0} /\ IdleTicks \in Nat \ {0} /\ MaxRef \in Nat /\ MaxQueue \in Nat

ASSUME None \notin Deliveries

VARIABLES
    pc,          \* where Listen is
    joined,      \* OnJoined was called
    result,      \* what Listen is about to return
    reason,      \* the read loop's words for a disconnect
    current,     \* the delivery in hand
    handlerErr,  \* the handler returned an error with its response
    cancelled,   \* ctx is done
    conn,        \* "none", "open", "broken" (a write failed) or "closed" here
    closedBy,    \* who closed it first
    watcher, heart, heartErr,   \* the two goroutines, and heartbeatErr's slot
    done,        \* the channel Listen closes on its way out
    writer,      \* who holds connWriter.mu
    ref,         \* connWriter.ref
    pending,     \* heartbeatTracker.order
    beat,        \* the ticker has fired
    idle,        \* intervals left until the read deadline
    inbox,       \* frames on their way to the client
    server,      \* "up", "zombie" (keeps the socket, takes nothing more) or "gone"
    pushed,      \* deliveries Hookspot pushed
    heard,       \* heartbeats that reached Hookspot
    log,         \* what reached Hookspot, in order
    awaited      \* observes: the heartbeats a reply to which is news of Hookspot

loopVars == <<pc, joined, result, reason, current, handlerErr>>
connVars == <<conn, closedBy, done>>
heartVars == <<heart, heartErr, beat>>
trackerVars == <<pending, awaited>>
writerVars == <<writer, ref, trackerVars>>
serverVars == <<server, pushed, heard>>
vars == <<loopVars, connVars, heartVars, writerVars, serverVars, cancelled, watcher,
          idle, inbox, log>>

\* The call, as its caller sees it.
CallState ==
    CASE pc = "none" -> "none"
      [] pc = "returned" -> "returned"
      [] OTHER -> IF joined THEN "joined" ELSE "connecting"

Call == INSTANCE ListenCall WITH
    call <- CallState, failure <- IF pc = "returned" THEN result ELSE [kind |-> "none", connected |-> FALSE]

\* Mutant: a failure after the join looks like one before it.
ErrorBeforeJoin(kind) == Call!Error(kind, FALSE)

\* sessionError, after OnJoined or before it.
Error(kind) == Call!Error(kind, joined)

Frame(kind, r, d) == [kind |-> kind, ref |-> r, delivery |-> d]

----------------------------------------------------------------------------
(* Leaving.                                                                 *)

\* The deferred close of done and of the socket; workers.Wait is Finish.
Leave(e, why) ==
    /\ pc' = "leaving"
    /\ result' = e /\ reason' = why
    /\ done' = TRUE
    /\ conn' = IF conn = "none" THEN conn ELSE "closed"
    /\ closedBy' = IF conn \in {"open", "broken"} THEN "listen" ELSE closedBy
    /\ UNCHANGED <<joined, current, handlerErr>>

\* Most returns prefer the context's error.
LeaveUnlessCancelled(e, why) == Leave(IF cancelled THEN Call!Canceled ELSE e, why)

Stay(where) == pc' = where /\ UNCHANGED <<joined, result, reason, current, handlerErr, connVars>>

Finish ==
    /\ pc = "leaving"
    /\ watcher # "watching" /\ heart \in {"none", "ended"}
    /\ Stay("returned")
    /\ UNCHANGED <<heartVars, writerVars, serverVars, cancelled, watcher, idle, inbox, log>>

----------------------------------------------------------------------------
(* Dial and join.                                                           *)

Dial ==
    /\ pc = "none"
    /\ Stay("dialing")
    /\ UNCHANGED <<heartVars, writerVars, serverVars, cancelled, watcher, idle, inbox, log>>

\* NetDialContext: the TCP socket, watched before the upgrade.
Acquire ==
    /\ pc = "dialing" /\ conn = "none"
    /\ conn' = "open" /\ watcher' = "watching"
    /\ UNCHANGED <<loopVars, closedBy, done, heartVars, writerVars, serverVars, cancelled,
                   idle, inbox, log>>

DialFails ==
    /\ pc = "dialing"
    /\ \E kind \in {"Connect"} \cup (IF conn = "none" THEN {} ELSE {"Authentication"}) :
          LeaveUnlessCancelled(Error(kind), "dial")
    /\ UNCHANGED <<heartVars, writerVars, serverVars, cancelled, watcher, idle, inbox, log>>

Upgrade ==
    /\ pc = "dialing" /\ conn = "open" /\ server = "up"
    /\ Stay("joining")
    /\ UNCHANGED <<heartVars, writerVars, serverVars, cancelled, watcher, idle, inbox, log>>

\* The join deadline, and phx_join.
Join ==
    /\ pc = "joining"
    /\ ref' = ref + 1
    /\ idle' = 1
    /\ \/ /\ conn = "open"
          /\ log' = Append(log, Frame("join", ref', None))
          /\ Stay("awaiting")
       \/ /\ LeaveUnlessCancelled(Error("Connect"), "send join")
          /\ UNCHANGED log
    /\ UNCHANGED <<heartVars, writer, trackerVars, serverVars, cancelled, watcher, inbox>>

\* Nothing to read any more: closed here, ended by Hookspot, or too late.
ReadError == conn = "closed" \/ idle = 0 \/ (server = "gone" /\ inbox = <<>>)

Frames == inbox # <<>>
Next1 == Head(inbox)
Consume == inbox' = Tail(inbox)

AwaitFails ==
    /\ pc = "awaiting" /\ ReadError
    /\ LeaveUnlessCancelled(Error("Connect"), "read join reply")
    /\ UNCHANGED <<heartVars, writerVars, serverVars, cancelled, watcher, idle, inbox, log>>

\* A frame while the join's reply is due: others are skipped, deliveries too.
Await ==
    /\ pc = "awaiting" /\ Frames
    /\ Consume
    /\ \/ /\ Next1.kind = "joined"
          /\ pc' = "hook" /\ joined' = TRUE
          /\ UNCHANGED <<result, reason, current, handlerErr, connVars>>
       \/ /\ Next1.kind \in {"Authentication", "NotFound", "Outdated", "Protocol"}
          /\ LeaveUnlessCancelled(Error(Next1.kind), "join rejected")
       \/ /\ Next1.kind = "malformed"
          /\ LeaveUnlessCancelled(Error("Protocol"), "invalid frame")
       \/ /\ Next1.kind \in {"delivery", "bad delivery", "close", "pong"}
          /\ Stay("awaiting")
    /\ UNCHANGED <<heartVars, writerVars, serverVars, cancelled, watcher, idle, log>>

\* OnJoined; then the idle deadline, and the heartbeat goroutine.
Hook ==
    /\ pc = "hook"
    /\ \/ /\ Leave(Error("Handler"), "on joined")
          /\ UNCHANGED <<heart, idle>>
       \/ /\ conn = "closed"
          /\ LeaveUnlessCancelled(Error("Disconnected"), "set deadline")
          /\ UNCHANGED <<heart, idle>>
       \/ /\ conn # "closed"
          /\ idle' = IdleTicks
          /\ heart' = "waiting"
          /\ Stay("reading")
    /\ UNCHANGED <<heartErr, beat, writerVars, serverVars, cancelled, watcher, inbox, log>>

----------------------------------------------------------------------------
(* The read loop.                                                           *)

\* rearmReceiveIdle, which a closed connection refuses.
Rearm ==
    \/ conn # "closed" /\ idle' = IdleTicks /\ Stay("reading")
    \/ /\ conn = "closed"
       /\ LeaveUnlessCancelled(Error("Disconnected"), "renew deadline")
       /\ UNCHANGED idle

\* heartbeatErr is asked before the read error is reported.
ReadFails ==
    /\ pc = "reading" /\ ReadError
    /\ LeaveUnlessCancelled(Error("Disconnected"),
                            IF heartErr THEN "send heartbeat" ELSE "read message")
    /\ UNCHANGED <<heartVars, writerVars, serverVars, cancelled, watcher, idle, inbox, log>>

\* Mutant: a ref is not taken from the tracker.
StillHeld(p, r) == p

\* heartbeatTracker.take, for a ref it may not hold; its refs are distinct.
Taken(p, r) ==
    IF \E i \in 1..Len(p) : p[i] = r THEN RemoveAt(p, CHOOSE i \in 1..Len(p) : p[i] = r) ELSE p

\* matchingHeartbeatReply, and heartbeatTracker.take's answer.
Matches(frame) == frame.kind = "pong" /\ \E i \in 1..Len(pending) : pending[i] = frame.ref

ReadReply ==
    /\ pc = "reading" /\ Frames /\ Next1.kind = "pong"
    /\ Consume
    /\ pending' = Taken(pending, Next1.ref)
    /\ awaited' = awaited \ {Next1.ref}
    /\ IF Matches(Next1) THEN Rearm ELSE Stay("reading") /\ UNCHANGED idle
    /\ UNCHANGED <<heartVars, writer, ref, serverVars, cancelled, watcher, log>>

\* A delivery, the channel's end, and frames for no one.
ReadFrame ==
    /\ pc = "reading" /\ Frames /\ Next1.kind # "pong"
    /\ Consume
    /\ \/ /\ Next1.kind = "delivery"
          /\ IF cancelled THEN Leave(Call!Canceled, "delivery")
             ELSE /\ pc' = "handling" /\ current' = Next1.delivery /\ handlerErr' = FALSE
                  /\ UNCHANGED <<joined, result, reason, connVars>>
       \/ Next1.kind = "bad delivery" /\ Leave(Error("Protocol"), "bad delivery")
       \/ Next1.kind = "close" /\ Leave(Error("Disconnected"), "channel closed")
       \/ Next1.kind = "malformed" /\ Stay("reading")
    /\ UNCHANGED <<heartVars, writerVars, serverVars, cancelled, watcher, idle, log>>

\* handleDelivery, once the handler returned: with a response or not, and with
\* an error or not.
HandlerReturns ==
    /\ pc = "handling"
    /\ IF cancelled THEN Leave(Call!Canceled, "handler")
       ELSE \/ /\ \E failed \in BOOLEAN : handlerErr' = failed
               /\ pc' = "answering"
               /\ UNCHANGED <<joined, result, reason, current, connVars>>
            \/ Leave(Error("Handler"), "handler")
    /\ UNCHANGED <<heartVars, writerVars, serverVars, cancelled, watcher, idle, inbox, log>>

\* Mutant: the response does not wait for the writer.
AnswerAtOnce ==
    /\ pc = "answering"
    /\ writer' = "listen" /\ ref' = ref + 1
    /\ Stay("sending")
    /\ UNCHANGED <<heartVars, trackerVars, serverVars, cancelled, watcher, idle, inbox, log>>

\* sendMessage takes the mutex and the next ref ...
Answer ==
    /\ pc = "answering" /\ writer = "free"
    /\ writer' = "listen" /\ ref' = ref + 1
    /\ Stay("sending")
    /\ UNCHANGED <<heartVars, trackerVars, serverVars, cancelled, watcher, idle, inbox, log>>

\* ... and writes.  The delivery's deadline is renewed after its response.
Send ==
    /\ pc = "sending"
    /\ writer' = "free"
    /\ \/ /\ conn = "open"
          /\ log' = Append(log, Frame("response", ref, current))
          /\ IF handlerErr THEN Leave(Error("Handler"), "handler") /\ UNCHANGED idle
             ELSE Rearm
       \/ /\ LeaveUnlessCancelled(Error(IF handlerErr THEN "Handler" ELSE "Disconnected"),
                                  "send response")
          /\ UNCHANGED <<log, idle>>
    /\ UNCHANGED <<heartVars, ref, trackerVars, serverVars, cancelled, watcher, inbox>>

----------------------------------------------------------------------------
(* The heartbeat goroutine and the watcher.                                 *)

\* heartbeatTracker.add: the oldest makes room.
Added(p, r) == Append(IF Len(p) = MaxPending THEN Tail(p) ELSE p, r)

\* What a tracker is to hold: the newest MaxPending of the heartbeats whose reply
\* was not read.
Newest(refs) == {r \in refs : Cardinality({later \in refs : later > r}) < MaxPending}

\* A tick: the ref is pending before the frame is written.
Beat ==
    /\ heart = "waiting" /\ beat /\ writer = "free" /\ ref < MaxRef
    /\ writer' = "heartbeat" /\ ref' = ref + 1
    /\ pending' = Added(pending, ref')
    /\ awaited' = Newest(awaited \cup {ref'})
    /\ heart' = "writing" /\ beat' = FALSE
    /\ UNCHANGED <<loopVars, connVars, heartErr, serverVars, cancelled, watcher,
                   idle, inbox, log>>

\* The frame reaches Hookspot, which may answer before WriteMessage returns ...
BeatReaches ==
    /\ heart = "writing" /\ conn = "open"
    /\ log' = Append(log, Frame("heartbeat", ref, None))
    /\ heard' = IF server = "up" THEN heard \cup {ref} ELSE heard
    /\ heart' = "written"
    /\ UNCHANGED <<loopVars, connVars, heartErr, beat, writerVars, server, pushed, cancelled,
                   watcher, idle, inbox>>

\* ... or the write fails.
BeatWritten ==
    /\ writer' = "free"
    /\ \/ heart = "written" /\ heart' = "waiting" /\ UNCHANGED conn
       \/ /\ heart = "writing" /\ heart' = "failed"
          /\ conn' = IF conn = "open" THEN "broken" ELSE conn
    /\ UNCHANGED <<loopVars, closedBy, done, heartErr, beat, ref, trackerVars, serverVars,
                   cancelled, watcher, idle, inbox, log>>

\* The failed write is left in heartbeatErr, then the connection is closed.
BeatFails ==
    /\ heart \in {"failed", "reported"}
    /\ heart' = IF heart = "failed" THEN "reported" ELSE "ended"
    /\ IF heart = "failed"
       THEN heartErr' = TRUE /\ UNCHANGED <<conn, closedBy>>
       ELSE /\ conn' = "closed" /\ closedBy' = IF conn = "closed" THEN closedBy ELSE "heartbeat"
            /\ UNCHANGED heartErr
    /\ UNCHANGED <<loopVars, done, beat, writerVars, serverVars, cancelled, watcher,
                   idle, inbox, log>>

HeartEnds ==
    /\ heart = "waiting" /\ done
    /\ heart' = "ended"
    /\ UNCHANGED <<loopVars, connVars, heartErr, beat, writerVars, serverVars, cancelled,
                   watcher, idle, inbox, log>>

\* Mutant: only Listen's return ends the watch.
WatchDone ==
    /\ watcher = "watching" /\ done
    /\ watcher' = "ended"
    /\ UNCHANGED <<loopVars, connVars, heartVars, writerVars, serverVars, cancelled, idle,
                   inbox, log>>

\* watchSocket: the context closes the socket under every blocked read.
Watch ==
    /\ watcher = "watching" /\ (cancelled \/ done)
    /\ watcher' = "ended"
    /\ \/ /\ cancelled
          /\ conn' = "closed" /\ closedBy' = IF conn = "closed" THEN closedBy ELSE "watcher"
       \/ done /\ UNCHANGED <<conn, closedBy>>
    /\ UNCHANGED <<loopVars, done, heartVars, writerVars, serverVars, cancelled, idle,
                   inbox, log>>

Cancel ==
    /\ ~ cancelled /\ pc # "returned"
    /\ cancelled' = TRUE
    /\ UNCHANGED <<loopVars, connVars, heartVars, writerVars, serverVars, watcher, idle,
                   inbox, log>>

\* One heartbeat interval passes.
Tick ==
    /\ pc # "returned" /\ heart \in {"none", "waiting"}
    /\ idle > 0 \/ (heart = "waiting" /\ ~ beat)
    /\ idle' = IF idle > 0 THEN idle - 1 ELSE 0
    /\ beat' = (heart = "waiting")
    /\ UNCHANGED <<loopVars, connVars, heart, heartErr, writerVars, serverVars, cancelled,
                   watcher, inbox, log>>

----------------------------------------------------------------------------
(* Hookspot and the network.                                                *)

Push(frame) ==
    /\ conn \in {"open", "broken"} /\ Len(inbox) < MaxQueue
    /\ inbox' = Append(inbox, frame)
    /\ UNCHANGED <<loopVars, connVars, heartVars, writerVars, cancelled, watcher, idle, log>>

\* It answers the join once, and pushes deliveries from then on.
JoinSeen == log # <<>>
JoinReplies == {"joined", "Authentication", "NotFound", "Outdated", "Protocol"}

HookspotJoins ==
    /\ server = "up" /\ pc = "awaiting"
    /\ \A i \in 1..Len(inbox) : inbox[i].kind \notin JoinReplies
    /\ \E kind \in JoinReplies : Push(Frame(kind, 1, None))
    /\ UNCHANGED serverVars

HookspotDelivers ==
    /\ server = "up" /\ JoinSeen
    /\ \E d \in Deliveries \ pushed :
          /\ pushed' = pushed \cup {d}
          /\ Push(Frame("delivery", 0, d))
    /\ UNCHANGED <<server, heard>>

\* It answers a heartbeat soon, late or not at all; and a proxy or a stuck server
\* may repeat a reply.
HookspotAnswersBeat ==
    /\ server \in {"up", "zombie"}
    /\ \E r \in heard : Push(Frame("pong", r, None))
    /\ UNCHANGED serverVars

\* What either may send besides: replies to nothing, and frames
\* the loop skips.
HookspotBabbles ==
    /\ server \in {"up", "zombie"} /\ JoinSeen
    /\ \E kind \in {"pong", "malformed"} : Push(Frame(kind, 0, None))
    /\ UNCHANGED serverVars

HookspotEnds ==
    /\ server = "up" /\ JoinSeen
    /\ \E kind \in {"bad delivery", "close"} : Push(Frame(kind, 0, None))
    /\ UNCHANGED serverVars

HookspotFails ==
    /\ server = "up" /\ conn \in {"open", "broken"}
    /\ server' \in {"zombie", "gone"}
    /\ UNCHANGED <<loopVars, connVars, heartVars, writerVars, pushed, heard, cancelled,
                   watcher, idle, inbox, log>>

----------------------------------------------------------------------------
Init ==
    /\ pc = "none" /\ joined = FALSE /\ result = Call!NoError /\ reason = "none"
    /\ current = None /\ handlerErr = FALSE
    /\ cancelled = FALSE
    /\ conn = "none" /\ closedBy = "nobody" /\ done = FALSE
    /\ watcher = "none" /\ heart = "none" /\ heartErr = FALSE /\ beat = FALSE
    /\ writer = "free" /\ ref = 0 /\ pending = <<>> /\ awaited = {}
    /\ idle = 0
    /\ inbox = <<>> /\ server = "up" /\ pushed = {} /\ heard = {}
    /\ log = <<>>

Loop ==
    \/ Dial \/ Acquire \/ DialFails \/ Upgrade \/ Join \/ AwaitFails \/ Await \/ Hook
    \/ ReadFails \/ ReadReply \/ ReadFrame \/ HandlerReturns \/ Answer \/ Send \/ Finish

Heart == Beat \/ BeatReaches \/ BeatWritten \/ BeatFails \/ HeartEnds

Hookspot ==
    \/ HookspotJoins \/ HookspotDelivers \/ HookspotAnswersBeat \/ HookspotBabbles
    \/ HookspotEnds \/ HookspotFails

Next == Loop \/ Heart \/ Watch \/ Cancel \/ Tick \/ Hookspot

Spec == Init /\ [][Next]_vars

\* The goroutines run on, and dial and handler end (the handshake's and the
\* forward's timeouts).  Time passes, but need not once the run is cancelled:
\* no deadline is needed to end it then.
Fairness ==
    /\ WF_vars(Dial \/ DialFails \/ Join \/ Hook \/ HandlerReturns \/ Answer \/ Send \/ Finish)
    /\ WF_vars(AwaitFails \/ ReadFails)
    /\ WF_vars(Await \/ ReadReply \/ ReadFrame)
    /\ WF_vars(Heart) /\ WF_vars(Watch)
    /\ WF_vars(Tick /\ ~ cancelled)

FairSpec == Spec /\ Fairness

----------------------------------------------------------------------------
(* Properties.                                                              *)

FrameOf(kinds) == [kind : kinds, ref : Nat, delivery : Deliveries \cup {None}]

\* Every variable has its type; the tracker never outgrows its limit, and its
\* refs are distinct and in the order they were sent.
TypeOK ==
    /\ pc \in {"none", "dialing", "joining", "awaiting", "hook", "reading", "handling",
               "answering", "sending", "leaving", "returned"}
    /\ {joined, handlerErr, cancelled, heartErr, done, beat} \subseteq BOOLEAN
    /\ result \in Call!Errors \cup {Call!NoError}
    /\ current \in Deliveries \cup {None}
    /\ conn \in {"none", "open", "broken", "closed"}
    /\ closedBy \in {"nobody", "listen", "heartbeat", "watcher"}
    /\ watcher \in {"none", "watching", "ended"}
    /\ heart \in {"none", "waiting", "writing", "written", "failed", "reported", "ended"}
    /\ writer \in {"free", "listen", "heartbeat"}
    /\ ref \in Nat /\ idle \in 0..IdleTicks
    /\ pending \in Seq(1..ref) /\ Len(pending) <= MaxPending
    /\ \A i, j \in 1..Len(pending) : i < j => pending[i] < pending[j]
    /\ inbox \in Seq(FrameOf({"delivery", "bad delivery", "close", "pong", "malformed"} \cup JoinReplies))
    /\ server \in {"up", "zombie", "gone"}
    /\ pushed \subseteq Deliveries /\ {heard, awaited} \subseteq SUBSET (1..ref)
    /\ log \in Seq(FrameOf({"join", "heartbeat", "response"}))

Responses == {i \in 1..Len(log) : log[i].kind = "response"}
Answered == {log[i].delivery : i \in Responses}

\* Every variable has its type.  Two goroutines write, yet every message
\* reaches Hookspot with a ref of its own and in ref order, the join first; no
\* delivery is answered twice or before it was pushed; and the loop reads on
\* only when the delivery in hand was answered, also if the handler had failed
\* after a completed forward.
AnswersMatchDeliveries ==
    /\ TypeOK
    /\ \A i, j \in 1..Len(log) : i < j => log[i].ref < log[j].ref
    /\ \A i \in 1..Len(log) : log[i].kind = "join" <=> i = 1
    /\ \A i, j \in Responses : log[i].delivery = log[j].delivery => i = j
    /\ Answered \subseteq pushed
    /\ pc = "reading" => current \in Answered \cup {None}
    /\ reason = "handler" /\ handlerErr => current \in Answered

\* A reply renews the read deadline exactly when it is the first one read to a
\* heartbeat sent in this call that MaxPending later unanswered ones have not
\* overtaken, however early it is read: before its own write returns, too.  A
\* reply that is repeated, too late, or to nothing sent here leaves the deadline
\* alone.  And when a failed heartbeat closed the connection, that is the failure
\* Listen reports, not the read it woke.
HeartbeatsCount ==
    [][/\ reason' = "read message" => closedBy' # "heartbeat"
       /\ ReadReply =>
          /\ Next1.ref \in awaited /\ conn # "closed" => idle' = IdleTicks
          /\ Next1.ref \notin awaited => idle' = idle]_vars

\* Listen returns from a server that stopped answering, even one that still
\* sends other frames; and cancelling ends Listen and its goroutines, with no
\* deadline needed.
ListenEnds ==
    /\ server # "up" ~> pc = "returned"
    /\ cancelled ~> pc = "returned"

\* Listen keeps its caller's contract: one join, and an error that says whether
\* it came before or after.
ImplementsListenCall == Call!CallSpec
=============================================================================
