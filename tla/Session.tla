------------------------------ MODULE Session ------------------------------
(* internal/session: one listen run's core.  The websocket handler (Ws) and *)
(* the terminal's command goroutines (Commands) forward requests outside    *)
(* Session.mu and then record them: number, history, stats and the sink's   *)
(* events, all under the mutex.                                             *)
EXTENDS Integers, Sequences, FiniteSets, SequencesExt

CONSTANTS
    Deliveries,       \* records [route, size, test, root]: what Hookspot sends
    KnownRoutes,      \* the routes of the sources this run listens to
    NoRoute, NoTest,  \* Entry.RouteUID = "" and a delivery without a test id
    NoEntry,          \* a goroutine that builds no entry
    TestIds,          \* the ids rand.Text can return, and other runs' ids
    OthersTests,      \* ids of test events other runs sent
    Answers,          \* records [kind, status, size]: what the local target does
    Commands, Ws,     \* goroutines: Replay/ReplayLast/SendTest, and Handle
    Free,             \* Session.mu is unlocked
    MaxEntries, MaxBytes, MaxResponseBytes,
    MaxRequests       \* bound: requests one behaviour starts

Threads == Commands \cup {Ws}

ASSUME SizeAssumption ==
    /\ MaxEntries \in Nat \ {0}
    /\ MaxBytes \in Nat
    /\ MaxResponseBytes \in Nat
    /\ MaxRequests \in Nat

ASSUME ThreadAssumption == Ws \notin Commands /\ Free \notin Threads

ASSUME DataAssumption ==
    /\ NoRoute \notin KnownRoutes
    /\ NoTest \notin TestIds
    /\ OthersTests \subseteq TestIds
    /\ \A d \in Deliveries :
          d.size \in Nat /\ d.root \in BOOLEAN /\ d.test \in TestIds \cup {NoTest}
    /\ \A a \in Answers : a.status \in Nat \ {0} /\ a.size \in Nat

VARIABLES
    forwarding,  \* FALSE in inspect mode: Session.forwarder is nil
    mu,          \* who holds Session.mu, or Free
    pc,          \* pc[t]: where goroutine t is
    work,        \* work[t]: the Entry t is building
    wanted,      \* wanted[t]: the number ReplayLast read
    entries, bytes, last,   \* history
    evicted,     \* what history.add dropped for the entry being recorded
    totals, routes, rootHinted, tests,
    sink,        \* the events the sink accepted, in order
    answers,     \* what Handle returned, in order
    everything,  \* every entry ever recorded: history before eviction
    posting,     \* test ids handed to a POST
    posted       \* test ids whose POST reached Hookspot

history == <<entries, bytes, last, evicted, everything>>
stats == <<totals, routes>>
vars == <<forwarding, mu, pc, work, wanted, history, stats, rootHinted, tests,
          sink, answers, posting, posted>>

----------------------------------------------------------------------------
(* Entries, answers and events.                                             *)

Unanswered == [status |-> 0, size |-> 0, failed |-> FALSE]

RouteOf(d) == IF d.route \in KnownRoutes THEN d.route ELSE NoRoute

NewEntry(d, isTest) ==
    [number |-> 0, delivery |-> d, route |-> RouteOf(d), forwarded |-> FALSE,
     response |-> Unanswered, test |-> isTest, replayOf |-> 0, was |-> Unanswered]

\* A replay keeps its own copy of the original; was is what Compare takes
\* from it.
ReplayEntry(n, original) ==
    [NewEntry(original.delivery, FALSE) EXCEPT
        !.route = original.route, !.replayOf = n, !.was = original.response]

\* No response, a body that breaks off, or one over the limit.
Fails(a) == a.kind # "response" \/ a.size > MaxResponseBytes

Response(a) ==
    IF Fails(a) THEN [Unanswered EXCEPT !.failed = TRUE]
    ELSE [status |-> a.status, size |-> a.size, failed |-> FALSE]

Success(status) == status \in 200..299

\* Entry.Failed
Failed(e) == e.forwarded /\ (e.response.failed \/ ~ Success(e.response.status))

BodyBytes(e) == e.delivery.size + e.response.size

\* Mutant: Hookspot hears that the delivery came in, not what it got.
ReceiptOnly(e, ok) == [number |-> e.number, status |-> 200, size |-> 0]

\* What Handle returns for e: the forward's response or 502, with the sink's
\* error if there is one; in inspect mode 200, or the zero Response with it.
HandleAnswer(e, ok) ==
    [number |-> e.number,
     status |-> IF ~ forwarding THEN IF ok THEN 200 ELSE 0
                ELSE IF e.response.failed THEN 502 ELSE e.response.status,
     size |-> IF forwarding /\ ~ e.response.failed THEN e.response.size ELSE 0]

Event(kind, number, dropped, count) ==
    [kind |-> kind, number |-> number, evicted |-> dropped, count |-> count]

Plain(kind) == Event(kind, 0, <<>>, 0)

----------------------------------------------------------------------------
(* history.go and stats.go.                                                 *)

First == last - Len(entries) + 1

\* Mutants: no exception for the newest entry; an entry too few.
EvictsTheNewest == Len(entries) > MaxEntries \/ bytes > MaxBytes
EvictsEarly == Len(entries) > 1 /\ (Len(entries) >= MaxEntries \/ bytes > MaxBytes)

OverCaps ==
    /\ Len(entries) > 1
    /\ Len(entries) > MaxEntries \/ bytes > MaxBytes

\* Mutant: the newest entry, whichever was asked for.
GetNewest(n) == entries[Len(entries)]

\* history.get, for a number inside the window.
Get(n) == entries[n - First + 1]

ZeroCounts == [count |-> 0, ok |-> 0, failed |-> 0]

\* stats.add, less the latencies and the minutes.
Counted(c, e) ==
    [count |-> c.count + 1,
     ok |-> c.ok + (IF e.forwarded /\ ~ Failed(e) THEN 1 ELSE 0),
     failed |-> c.failed + (IF Failed(e) THEN 1 ELSE 0)]

Counts(e) == e.replayOf = 0

----------------------------------------------------------------------------
(* Goroutines.                                                              *)

Critical == {"evict", "emit", "hint"}
Locked(t) == pc[t] \in Critical

\* Mutant: no mutex.
LockAlways == TRUE

CanLock == mu = Free

\* Mutant: an error returns without unlocking.
UnlockOnSuccess(ok) == mu' = IF ok THEN Free ELSE mu

\* The deferred unlock, whatever the sink answered.
Unlock(ok) == mu' = Free

Goto(t, where) == pc' = [pc EXCEPT ![t] = where]

Busy == {t \in Threads : pc[t] \notin {"idle", "posting", "stopped"}}
MayStart == Len(everything) + Cardinality(Busy) < MaxRequests

Joined == \E i \in 1..Len(sink) : sink[i].kind = "Ready"

\* Emit, from the websocket's goroutine: a connection event, Ready once.
Emit(kind) ==
    /\ pc[Ws] = "idle" /\ CanLock
    /\ \A i \in 1..Len(sink) : sink[i].kind # kind
    /\ \/ /\ sink' = Append(sink, Plain(kind)) \o
                     (IF kind = "Ready" /\ last = 0 THEN <<Plain("TestHint")>> ELSE <<>>)
          /\ UNCHANGED pc
       \/ /\ sink' \in {sink} \cup
                       (IF kind = "Ready" /\ last = 0 THEN {Append(sink, Plain(kind))} ELSE {})
          /\ Goto(Ws, "stopped")
    /\ UNCHANGED <<forwarding, mu, work, wanted, history, stats, rootHinted, tests,
                   answers, posting, posted>>

\* sentTest: one of this run's ids.
SentTest(d) == d.test \in tests

\* Handle, up to the forward.
Handle(d) ==
    /\ pc[Ws] = "idle" /\ Joined /\ MayStart /\ CanLock
    /\ d.test # NoTest => d.test \in posted
    /\ work' = [work EXCEPT ![Ws] = NewEntry(d, SentTest(d))]
    /\ Goto(Ws, IF forwarding THEN "forward" ELSE "record")
    /\ UNCHANGED <<forwarding, mu, wanted, history, stats, rootHinted, tests, sink,
                   answers, posting, posted>>

\* Session.entry, and the replay it starts: out of the window is ErrUnknown or
\* ErrEvicted.
Fetch(t, n) ==
    /\ CanLock
    /\ \/ /\ n \in First..last
          /\ work' = [work EXCEPT ![t] = ReplayEntry(n, Get(n))]
          /\ Goto(t, "forward")
       \/ /\ n \notin First..last
          /\ Goto(t, "idle")
          /\ UNCHANGED work
    /\ wanted' = [wanted EXCEPT ![t] = 0]
    /\ UNCHANGED <<forwarding, mu, history, stats, rootHinted, tests, sink, answers,
                   posting, posted>>

\* Replay(n).  In inspect mode it is ErrNoTarget.
Replay(t, n) == pc[t] = "idle" /\ forwarding /\ MayStart /\ Fetch(t, n)

\* ReplayLast reads last and lets go of the mutex before Replay takes it again.
ReplayLast(t) ==
    /\ pc[t] = "idle" /\ forwarding /\ MayStart /\ CanLock /\ last # 0
    /\ wanted' = [wanted EXCEPT ![t] = last]
    /\ Goto(t, "replay")
    /\ UNCHANGED <<forwarding, mu, work, history, stats, rootHinted, tests, sink,
                   answers, posting, posted>>

ReplayRead(t) == pc[t] = "replay" /\ Fetch(t, wanted[t])

\* Session.forward, without the mutex.
Forward(t) ==
    /\ pc[t] = "forward"
    /\ \E a \in Answers :
          work' = [work EXCEPT ![t] = [@ EXCEPT !.forwarded = TRUE, !.response = Response(a)]]
    /\ Goto(t, "record")
    /\ UNCHANGED <<forwarding, mu, wanted, history, stats, rootHinted, tests, sink,
                   answers, posting, posted>>

\* record: history.add numbers the entry ...
RecordAdd(t) ==
    /\ pc[t] = "record" /\ CanLock
    /\ mu' = t
    /\ LET e == [work[t] EXCEPT !.number = last + 1]
       IN  /\ work' = [work EXCEPT ![t] = e]
           /\ entries' = Append(entries, e)
           /\ everything' = Append(everything, e)
           /\ bytes' = bytes + BodyBytes(e)
    /\ last' = last + 1
    /\ evicted' = <<>>
    /\ Goto(t, "evict")
    /\ UNCHANGED <<forwarding, wanted, stats, rootHinted, tests, sink, answers, posting, posted>>

\* ... and evicts, one turn of its loop at a time.
RecordEvict(t) ==
    /\ pc[t] = "evict" /\ OverCaps
    /\ entries' = Tail(entries)
    /\ bytes' = bytes - BodyBytes(Head(entries))
    /\ evicted' = Append(evicted, Head(entries).number)
    /\ UNCHANGED <<forwarding, mu, pc, work, wanted, last, everything, stats,
                   rootHinted, tests, sink, answers, posting, posted>>

RecordCount(t) ==
    /\ pc[t] = "evict" /\ ~ OverCaps
    /\ LET e == work[t]
       IN  IF Counts(e)
           THEN /\ totals' = Counted(totals, e)
                /\ routes' = IF e.route = NoRoute THEN routes
                             ELSE [routes EXCEPT ![e.route] = Counted(@, e)]
           ELSE UNCHANGED stats
    /\ Goto(t, "emit")
    /\ UNCHANGED <<forwarding, mu, work, wanted, history, rootHinted, tests, sink,
                   answers, posting, posted>>

\* The once-per-run hint after a 404 or 405 at the bare --forward-to root.
HintDue(e) ==
    /\ ~ rootHinted
    /\ e.response.status \in {404, 405}
    /\ e.delivery.root

\* record returns, and Handle or Replay with it.  A sink error ends the
\* websocket's session; a command reports it.
Return(t, ok) ==
    /\ Unlock(ok)
    /\ work' = [work EXCEPT ![t] = NoEntry]
    /\ IF t = Ws
       THEN /\ answers' = Append(answers, HandleAnswer(work[t], ok))
            /\ Goto(t, IF ok THEN "idle" ELSE "stopped")
       ELSE Goto(t, "idle") /\ UNCHANGED answers

RecordEmit(t) ==
    /\ pc[t] = "emit"
    /\ \/ /\ sink' = Append(sink, Event("Recorded", work[t].number, evicted, totals.count))
          /\ IF HintDue(work[t])
             THEN rootHinted' = TRUE /\ Goto(t, "hint") /\ UNCHANGED <<mu, work, answers>>
             ELSE Return(t, TRUE) /\ UNCHANGED rootHinted
       \/ Return(t, FALSE) /\ UNCHANGED <<sink, rootHinted>>
    /\ UNCHANGED <<forwarding, wanted, history, stats, tests, posting, posted>>

RecordHint(t) ==
    /\ pc[t] = "hint"
    /\ \/ sink' = Append(sink, Event("RootNotFound", work[t].number, <<>>, 0)) /\ Return(t, TRUE)
       \/ UNCHANGED sink /\ Return(t, FALSE)
    /\ UNCHANGED <<forwarding, wanted, history, stats, rootHinted, tests, posting, posted>>

\* SendTest keeps the id before it posts: Hookspot may deliver the event before
\* it answers.
SendTest(t, id) ==
    /\ pc[t] = "idle" /\ CanLock
    /\ id \notin posting \cup OthersTests
    /\ tests' = tests \cup {id}
    /\ posting' = posting \cup {id}
    /\ Goto(t, "posting")
    /\ UNCHANGED <<forwarding, mu, work, wanted, history, stats, rootHinted, sink,
                   answers, posted>>

\* The POST arrives, perhaps after SendTest gave up on it ...
PostArrives(id) ==
    /\ id \in posting \ posted
    /\ posted' = posted \cup {id}
    /\ UNCHANGED <<forwarding, mu, pc, work, wanted, history, stats, rootHinted, tests,
                   sink, answers, posting>>

\* ... which returns on an answer, an error or its timeout.
PostReturns(t) ==
    /\ pc[t] = "posting"
    /\ Goto(t, "idle")
    /\ UNCHANGED <<forwarding, mu, work, wanted, history, stats, rootHinted, tests,
                   sink, answers, posting, posted>>

----------------------------------------------------------------------------
Init ==
    /\ forwarding \in BOOLEAN
    /\ mu = Free
    /\ pc = [t \in Threads |-> "idle"]
    /\ work = [t \in Threads |-> NoEntry]
    /\ wanted = [t \in Threads |-> 0]
    /\ entries = <<>> /\ bytes = 0 /\ last = 0
    /\ evicted = <<>> /\ everything = <<>>
    /\ totals = ZeroCounts
    /\ routes = [r \in KnownRoutes |-> ZeroCounts]
    /\ rootHinted = FALSE
    /\ tests = {} /\ posting = {} /\ posted = OthersTests
    /\ sink = <<>> /\ answers = <<>>

Record(t) == RecordAdd(t) \/ RecordEvict(t) \/ RecordCount(t) \/ RecordEmit(t) \/ RecordHint(t)

Next ==
    \/ \E kind \in {"Ready", "ConnectionLost"} : Emit(kind)
    \/ \E d \in Deliveries : Handle(d)
    \/ \E t \in Commands :
          \/ \E n \in 1..MaxRequests : Replay(t, n)
          \/ ReplayLast(t)
          \/ ReplayRead(t)
          \/ \E id \in TestIds : SendTest(t, id)
          \/ PostReturns(t)
    \/ \E id \in TestIds : PostArrives(id)
    \/ \E t \in Threads : Forward(t) \/ Record(t)

Spec == Init /\ [][Next]_vars

\* proxy.ForwardTimeout and testTimeout end every forward and every POST, the
\* sink returns, and sync.Mutex lets no waiter starve.
Fairness ==
    \A t \in Threads :
        /\ WF_vars(Forward(t) \/ Record(t))
        /\ t # Ws => WF_vars(ReplayRead(t) \/ PostReturns(t))

FairSpec == Spec /\ Fairness

----------------------------------------------------------------------------
(* Properties.                                                              *)

Answer == [status : Nat, size : Nat, failed : BOOLEAN]

Entry == [number : Nat, delivery : Deliveries, route : KnownRoutes \cup {NoRoute},
          forwarded : BOOLEAN, response : Answer, test : BOOLEAN,
          replayOf : Nat, was : Answer]

Count == [count : Nat, ok : Nat, failed : Nat]

SinkEvent ==
    [kind : {"Ready", "TestHint", "ConnectionLost", "Recorded", "RootNotFound"},
     number : Nat, evicted : Seq(Nat), count : Nat]

PcStates == {"idle", "replay", "forward", "record", "posting", "stopped"} \cup Critical
Working(t) == pc[t] \in {"forward", "record"} \cup Critical

LockOK ==
    /\ mu \in Threads \cup {Free}
    /\ pc \in [Threads -> PcStates]
    /\ \A t \in Threads : Locked(t) <=> mu = t

WorkOK ==
    /\ work \in [Threads -> Entry \cup {NoEntry}]
    /\ \A t \in Threads : Working(t) => work[t] \in Entry
    /\ wanted \in [Threads -> Nat]

HistoryOK ==
    /\ entries \in Seq(Entry) /\ everything \in Seq(Entry)
    /\ bytes \in Int /\ last \in Nat /\ evicted \in Seq(Nat)

OutputOK ==
    /\ totals \in Count /\ routes \in [KnownRoutes -> Count]
    /\ sink \in Seq(SinkEvent)
    /\ answers \in Seq([number : Nat, status : Nat, size : Nat])

FlagsOK ==
    /\ forwarding \in BOOLEAN /\ rootHinted \in BOOLEAN
    /\ tests \subseteq TestIds /\ posting \subseteq TestIds /\ posted \subseteq TestIds

\* Every variable has its type; Session.mu is held by the one goroutine inside
\* record, or by nobody; and every goroutine that forwards or records has an
\* entry in hand.
TypeOK == LockOK /\ WorkOK /\ HistoryOK /\ OutputOK /\ FlagsOK

\* history: its entries are the newest ones recorded, numbered without a gap up
\* to last, each as it was recorded, and the newest of all is never evicted.
HistoryIsTheNewest ==
    /\ last = Len(everything)
    /\ Len(entries) <= last
    /\ last > 0 => Len(entries) > 0
    /\ \A n \in 1..last : everything[n].number = n
    /\ \A n \in First..last : Get(n) = everything[n]

\* The bytes of the first n entries of s.
TotalBytes(s) ==
    LET total[n \in 0..Len(s)] == IF n = 0 THEN 0 ELSE total[n - 1] + BodyBytes(s[n])
    IN  total

\* history.add keeps its byte count right and evicts until the history is
\* within its caps, yet never more than it has to: the entry evicted last would
\* not fit.
HistoryFillsItsCaps ==
    /\ bytes = TotalBytes(entries)[Len(entries)]
    /\ OverCaps => mu # Free /\ pc[mu] = "evict"
    /\ First > 1 =>
          \/ Len(entries) + 1 > MaxEntries
          \/ bytes + BodyBytes(everything[First - 1]) > MaxBytes

Recorded == {i \in 1..Len(sink) : sink[i].kind = "Recorded"}

DeliveriesUpTo(n) == {i \in 1..n : everything[i].replayOf = 0}

Shown(upTo) ==
    {sink[i].number : i \in Recorded \cap (1..upTo)}
        \ UNION {Range(sink[i].evicted) : i \in Recorded \cap (1..upTo)}

\* "Numbers always match the order events reach the sink": entries reach it in
\* number order, each with the totals as of that entry; and a sink that missed
\* none and dropped what it was told to drop shows exactly the history.
EventsMatchHistory ==
    /\ \A i, j \in Recorded : i < j => sink[i].number < sink[j].number
    /\ \A i \in Recorded : sink[i].count = Cardinality(DeliveriesUpTo(sink[i].number))
    /\ mu = Free /\ Cardinality(Recorded) = last => Shown(Len(sink)) = First..last

\* A replay repeats an earlier request, its delivery and its route, and compares
\* itself with what forwarding that request got, even when the request was
\* evicted while the replay was under way.  A replay is never a test.
ReplaysMatchTheirOriginal ==
    \A n \in 1..Len(everything) :
        LET e == everything[n]
        IN  e.replayOf # 0 =>
              /\ e.replayOf < n
              /\ e.delivery = everything[e.replayOf].delivery
              /\ e.route = everything[e.replayOf].route
              /\ e.was = everything[e.replayOf].response
              /\ e.forwarded /\ ~ e.test

\* Between records, the totals count each delivery once and no replay, ok and
\* failed split the forwarded ones, and each route's stats count its own.
CountsAgree ==
    mu = Free =>
        LET Numbers(P(_)) == Cardinality({n \in DeliveriesUpTo(last) : P(everything[n])})
            Ok(e) == e.forwarded /\ ~ Failed(e)
        IN  /\ totals.count = Cardinality(DeliveriesUpTo(last))
            /\ totals.ok = Numbers(Ok) /\ totals.failed = Numbers(Failed)
            /\ \A r \in KnownRoutes :
                  LET OnRoute(e) == e.route = r
                      OkOnRoute(e) == OnRoute(e) /\ Ok(e)
                      FailedOnRoute(e) == OnRoute(e) /\ Failed(e)
                  IN  routes[r] = [count |-> Numbers(OnRoute), ok |-> Numbers(OkOnRoute),
                                   failed |-> Numbers(FailedOnRoute)]

\* What is kept by hand beside the history agrees with it: the bytes the caps are
\* held to, and the totals and routes' counts.
CountersAgree == HistoryFillsItsCaps /\ CountsAgree

AtBareRoot(n) ==
    everything[n].response.status \in {404, 405} /\ everything[n].delivery.root

\* The root hint comes once a run, right after the first 404 or 405 at the bare
\* root that reached the sink; the test hint only before any request, right
\* after Ready.
HintsInOrder ==
    /\ \A i \in 1..Len(sink) :
          /\ sink[i].kind = "RootNotFound" =>
                /\ i - 1 \in Recorded
                /\ sink[i - 1].number = sink[i].number /\ AtBareRoot(sink[i].number)
                /\ \A j \in Recorded : j < i - 1 => ~ AtBareRoot(sink[j].number)
          /\ sink[i].kind = "TestHint" =>
                /\ i > 1 /\ sink[i - 1].kind = "Ready"
                /\ \A j \in Recorded : j > i
    /\ rootHinted <=> \E i \in Recorded : AtBareRoot(sink[i].number)

\* The sink hears of the entries, and of the hints between them, in one order.
EventsInOrder == EventsMatchHistory /\ HintsInOrder

\* The sink took entry n.
Told(n) == \E j \in Recorded : sink[j].number = n

\* An answer is the recorded response to the delivery, status and body, or 502
\* for the failure recorded in its place, whatever the sink did; in inspect mode
\* it is an empty 200 for the deliveries the sink took, and no response for one
\* it did not.
AnswerIsTrue(a) ==
    LET got == everything[a.number].response
    IN  /\ forwarding /\ ~ got.failed =>
              a.status # 0 /\ a.status = got.status /\ a.size = got.size
        /\ forwarding /\ got.failed => a.status = 502 /\ a.size = 0
        /\ ~ forwarding => a.size = 0 /\ a.status = IF Told(a.number) THEN 200 ELSE 0

\* Handle answers every delivery it recorded, once, in order and with what
\* forwarding it got, also when the sink failed after a completed forward.
DeliveriesAnswered ==
    /\ {answers[i].number : i \in 1..Len(answers)}
          = DeliveriesUpTo(last) \ (IF Locked(Ws) THEN {last} ELSE {})
    /\ \A i, j \in 1..Len(answers) : i < j => answers[i].number < answers[j].number
    /\ \A i \in 1..Len(answers) : AnswerIsTrue(answers[i])

\* A delivery is marked as a test exactly when this run sent its event, however
\* early Hookspot delivers it.
TestsMarked ==
    \A n \in DeliveriesUpTo(last) :
        everything[n].test <=> everything[n].delivery.test \in posting

\* A delivery leaves Handle answered as it was forwarded, and recorded as a test
\* if it was one, whatever the sink and Hookspot's order of events.
DeliveriesHandled == DeliveriesAnswered /\ TestsMarked

\* A request or command under way ends.
EverythingEnds ==
    \A t \in Threads : pc[t] # "idle" ~> pc[t] \in {"idle", "stopped"}

\* The abstract log, with history's window as what is still available.
AbstractLog ==
    [n \in 1..Len(everything) |->
        [payload |-> everything[n].delivery, replayOf |-> everything[n].replayOf]]

Log == INSTANCE RequestLog WITH
    Payloads <- Deliveries, log <- AbstractLog, oldest <- First

\* A session is a request log.
ImplementsRequestLog == Log!Spec
=============================================================================
