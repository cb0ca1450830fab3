--------------------------- MODULE SessionProofs ---------------------------
(* Proofs about Session, for any deliveries, answers, commands and caps:    *)
(* its histories, and what it keeps and says beside them - the counters, the *)
(* sink's events and Handle's answers.                                      *)
EXTENDS Session, TLAPS, FiniteSetTheorems

----------------------------------------------------------------------------
(* Entries keep their type.                                                 *)

LEMMA NewEntryType ==
    ASSUME NEW d \in Deliveries, NEW isTest \in BOOLEAN
    PROVE  NewEntry(d, isTest) \in Entry
BY DEF NewEntry, Entry, RouteOf, Unanswered, Answer

LEMMA ReplayEntryType ==
    ASSUME NEW n \in Nat, NEW e \in Entry
    PROVE  ReplayEntry(n, e) \in Entry
BY DEF ReplayEntry, NewEntry, Entry, RouteOf, Unanswered, Answer

LEMMA ResponseType ==
    ASSUME NEW a \in Answers
    PROVE  Response(a) \in Answer
BY DataAssumption DEF Response, Fails, Unanswered, Answer

LEMMA CountedType ==
    ASSUME NEW c \in Count, NEW e \in Entry
    PROVE  Counted(c, e) \in Count
BY DEF Counted, Count, Failed

\* history.get stays inside the slice for every number of the window.
LEMMA GetType ==
    ASSUME HistoryOK, NEW n \in Nat, n \in First..last
    PROVE  Get(n) \in Entry
<1>1. n - First + 1 \in 1..Len(entries)
  BY DEF HistoryOK, First
<1> QED
  BY <1>1 DEF HistoryOK, Get

LEMMA BodyBytesType ==
    ASSUME NEW e \in Entry
    PROVE  BodyBytes(e) \in Nat
BY DataAssumption DEF BodyBytes, Entry, Answer

LEMMA AppendType ==
    ASSUME NEW S, NEW s \in Seq(S), NEW e \in S
    PROVE  Append(s, e) \in Seq(S)
OBVIOUS

----------------------------------------------------------------------------
(* Type correctness, one part at a time.                                    *)

LEMMA TypeInit == Init => TypeOK
<1> SUFFICES ASSUME Init PROVE TypeOK
  OBVIOUS
<1>1. FlagsOK
  BY DataAssumption DEF Init, FlagsOK
<1>2. LockOK
  BY ThreadAssumption DEF Init, LockOK, Locked, Critical, PcStates
<1>3. WorkOK
  BY DEF Init, WorkOK, Working, Critical
<1>4. HistoryOK
  BY DEF Init, HistoryOK
<1>5. OutputOK
  BY DEF Init, OutputOK, ZeroCounts, Count
<1> QED
  BY <1>1, <1>2, <1>3, <1>4, <1>5 DEF TypeOK

\* A goroutine that moves between places outside record leaves the mutex alone.
LEMMA MovesOutside ==
    ASSUME LockOK, NEW t \in Threads, NEW where \in PcStates,
           pc[t] \notin Critical, where \notin Critical, Goto(t, where), UNCHANGED mu
    PROVE  LockOK'
BY DEF LockOK, Goto, Locked

\* So does one that moves inside it.
LEMMA MovesInside ==
    ASSUME LockOK, NEW t \in Threads, NEW where \in Critical,
           pc[t] \in Critical, Goto(t, where), UNCHANGED mu
    PROVE  LockOK'
BY DEF LockOK, Goto, Locked, PcStates

\* Work stays an entry while its goroutine moves on with it.
LEMMA KeepsWork ==
    ASSUME WorkOK, LockOK, NEW t \in Threads, NEW where \in PcStates, Goto(t, where),
           UNCHANGED <<work, wanted>>,
           where \in {"forward", "record"} \cup Critical => Working(t)
    PROVE  WorkOK'
BY DEF WorkOK, LockOK, Goto, Working

\* A goroutine takes up an entry.
LEMMA TakesWork ==
    ASSUME WorkOK, LockOK, NEW t \in Threads, NEW where \in PcStates, Goto(t, where),
           NEW e \in Entry, work' = [work EXCEPT ![t] = e], wanted' \in [Threads -> Nat]
    PROVE  WorkOK'
BY DEF WorkOK, LockOK, Goto, Working

LEMMA HistoryStays ==
    ASSUME HistoryOK, UNCHANGED history
    PROVE  HistoryOK'
BY DEF HistoryOK, history

LEMMA FlagsStay ==
    ASSUME FlagsOK, UNCHANGED <<forwarding, rootHinted, tests, posting, posted>>
    PROVE  FlagsOK'
BY DEF FlagsOK

LEMMA OutputStays ==
    ASSUME OutputOK, UNCHANGED <<stats, sink, answers>>
    PROVE  OutputOK'
BY DEF OutputOK, stats

LEMMA FetchType ==
    ASSUME TypeOK, NEW t \in Commands, NEW n \in Nat, pc[t] \in {"idle", "replay"}, Fetch(t, n)
    PROVE  TypeOK'
<1> USE DEF Threads
<1>1. pc[t] \notin Critical
  BY DEF Critical
<1>2. wanted' \in [Threads -> Nat]
  BY DEF Fetch, TypeOK, WorkOK
<1>3. LockOK' /\ WorkOK'
  <2>1. CASE n \in First..last /\ Goto(t, "forward") /\ work' = [work EXCEPT ![t] = ReplayEntry(n, Get(n))]
    <3>1. ReplayEntry(n, Get(n)) \in Entry
      BY <2>1, GetType, ReplayEntryType DEF TypeOK
    <3>2. "forward" \in PcStates /\ "forward" \notin Critical
      BY DEF PcStates, Critical
    <3> QED
      BY <1>1, <1>2, <2>1, <3>1, <3>2, MovesOutside, TakesWork DEF Fetch, TypeOK
  <2>2. CASE Goto(t, "idle") /\ UNCHANGED work
    <3>1. "idle" \in PcStates /\ "idle" \notin Critical /\ "idle" \notin {"forward", "record"} \cup Critical
      BY DEF PcStates, Critical
    <3>2. LockOK'
      BY <1>1, <2>2, <3>1, MovesOutside DEF Fetch, TypeOK
    <3>3. WorkOK'
      BY <1>2, <2>2, <3>1 DEF Goto, WorkOK, LockOK, Working, TypeOK
    <3> QED
      BY <3>2, <3>3
  <2> QED
    BY <2>1, <2>2 DEF Fetch
<1> QED
  BY <1>3, HistoryStays, FlagsStay, OutputStays DEF Fetch, TypeOK

LEMMA ReturnType ==
    ASSUME TypeOK, NEW t \in Threads, NEW ok \in BOOLEAN, Locked(t), Return(t, ok),
           UNCHANGED <<forwarding, wanted, history, stats, tests, posting, posted>>,
           sink' \in Seq(SinkEvent), rootHinted' \in BOOLEAN
    PROVE  TypeOK'
<1>1. work[t] \in Entry
  BY DEF Locked, Working, TypeOK, WorkOK
<1>2. HandleAnswer(work[t], ok) \in [number : Nat, status : Nat, size : Nat]
  BY <1>1 DEF HandleAnswer, Entry, Answer, TypeOK, FlagsOK
<1>3. OutputOK'
  <2>1. answers' \in Seq([number : Nat, status : Nat, size : Nat])
    <3> DEFINE r == HandleAnswer(work[t], ok)
               R == [number : Nat, status : Nat, size : Nat]
    <3>1. answers' = answers \/ answers' = Append(answers, r)
      BY DEF Return
    <3>2. r \in R
      BY <1>2
    <3>3. answers \in Seq(R)
      BY DEF OutputOK, TypeOK
    <3> HIDE DEF r, R
    <3>4. Append(answers, r) \in Seq(R)
      BY <3>2, <3>3, AppendType
    <3>5. answers' \in Seq(R)
      BY <3>1, <3>3, <3>4
    <3> QED
      BY <3>5 DEF R
  <2> QED
    BY <2>1 DEF OutputOK, TypeOK, stats
<1>4. \/ Goto(t, "idle") \/ Goto(t, "stopped")
  BY DEF Return
<1>5. LockOK'
  BY <1>4, ThreadAssumption DEF Return, Unlock, Goto, LockOK, Locked, Critical, PcStates, TypeOK
<1>6. WorkOK'
  BY <1>4 DEF Return, Goto, WorkOK, LockOK, Working, Critical, TypeOK
<1> QED
  BY <1>3, <1>5, <1>6, HistoryStays DEF TypeOK, FlagsOK

\* Every action keeps every type.
LEMMA TypeStep == TypeOK /\ [Next]_vars => TypeOK'
<1> SUFFICES ASSUME TypeOK, [Next]_vars PROVE TypeOK'
  OBVIOUS
<1> USE DEF Threads
<1>a. {"idle", "replay", "forward", "record", "posting", "stopped"} \subseteq PcStates \ Critical
  BY DEF PcStates, Critical
<1>b. Critical = {"evict", "emit", "hint"} /\ Critical \subseteq PcStates
  BY DEF PcStates, Critical
<1>1. ASSUME NEW kind \in {"Ready", "ConnectionLost"}, Emit(kind) PROVE TypeOK'
  <2>1. Plain(kind) \in SinkEvent /\ Plain("TestHint") \in SinkEvent
    BY DEF Plain, Event, SinkEvent
  <2>2. sink' \in Seq(SinkEvent)
    <3>1. sink \in Seq(SinkEvent)
      BY DEF TypeOK, OutputOK
    <3>2. Append(sink, Plain(kind)) \in Seq(SinkEvent)
      BY <2>1, <3>1, AppendType
    <3>3. <<Plain("TestHint")>> \in Seq(SinkEvent) /\ <<>> \in Seq(SinkEvent)
      BY <2>1
    <3>4. \A tail \in Seq(SinkEvent) : Append(sink, Plain(kind)) \o tail \in Seq(SinkEvent)
      BY <3>2
    <3> QED
      BY <1>1, <3>1, <3>2, <3>3, <3>4 DEF Emit
  <2>3. LockOK' /\ WorkOK'
    <3>1. CASE UNCHANGED pc
      BY <1>1, <3>1 DEF Emit, TypeOK, LockOK, WorkOK, Locked, Working
    <3>2. CASE Goto(Ws, "stopped")
      BY <1>1, <1>a, <3>2, MovesOutside, KeepsWork DEF Emit, TypeOK
    <3> QED
      BY <1>1, <3>1, <3>2 DEF Emit
  <2>4. OutputOK'
    BY <1>1, <2>2 DEF Emit, TypeOK, OutputOK, stats
  <2> QED
    BY <1>1, <2>3, <2>4, HistoryStays, FlagsStay DEF Emit, TypeOK
<1>2. ASSUME NEW d \in Deliveries, Handle(d) PROVE TypeOK'
  <2>1. NewEntry(d, SentTest(d)) \in Entry
    <3>1. SentTest(d) \in BOOLEAN
      BY DEF SentTest
    <3> QED
      BY <3>1, NewEntryType
  <2>2. PICK where \in {"forward", "record"} : Goto(Ws, where)
    BY <1>2 DEF Handle
  <2>3. LockOK' /\ WorkOK'
    BY <1>2, <1>a, <2>1, <2>2, MovesOutside, TakesWork DEF Handle, TypeOK, WorkOK
  <2> QED
    BY <1>2, <2>3, HistoryStays, FlagsStay, OutputStays DEF Handle, TypeOK
<1>3. ASSUME NEW t \in Commands, NEW n \in 1..MaxRequests, Replay(t, n) PROVE TypeOK'
  BY <1>3, FetchType, SizeAssumption DEF Replay
<1>4. ASSUME NEW t \in Commands, ReplayLast(t) PROVE TypeOK'
  <2>1. LockOK'
    BY <1>4, <1>a, MovesOutside DEF ReplayLast, TypeOK
  <2>2. WorkOK'
    BY <1>4, <1>a, <1>b DEF ReplayLast, Goto, TypeOK, WorkOK, LockOK, HistoryOK, Working
  <2> QED
    BY <1>4, <2>1, <2>2, HistoryStays, FlagsStay, OutputStays DEF ReplayLast, TypeOK
<1>5. ASSUME NEW t \in Commands, ReplayRead(t) PROVE TypeOK'
  <2>1. wanted[t] \in Nat
    BY DEF TypeOK, WorkOK
  <2> QED
    BY <1>5, <2>1, FetchType DEF ReplayRead
<1>6. ASSUME NEW t \in Threads, Forward(t) PROVE TypeOK'
  <2>1. PICK a \in Answers :
          work' = [work EXCEPT ![t] = [@ EXCEPT !.forwarded = TRUE, !.response = Response(a)]]
    BY <1>6 DEF Forward
  <2>2. work[t] \in Entry
    BY <1>6 DEF Forward, Working, TypeOK, WorkOK
  <2>3. [work[t] EXCEPT !.forwarded = TRUE, !.response = Response(a)] \in Entry
    BY <2>2, ResponseType DEF Entry
  <2>4. work' = [work EXCEPT ![t] = [work[t] EXCEPT !.forwarded = TRUE, !.response = Response(a)]]
    BY <2>1 DEF TypeOK, WorkOK
  <2>5. LockOK' /\ WorkOK'
    BY <1>6, <1>a, <2>3, <2>4, MovesOutside, TakesWork DEF Forward, TypeOK, WorkOK
  <2> QED
    BY <1>6, <2>5, HistoryStays, FlagsStay, OutputStays DEF Forward, TypeOK
<1>7. ASSUME NEW t \in Threads, RecordAdd(t) PROVE TypeOK'
  <2> DEFINE e == [work[t] EXCEPT !.number = last + 1]
  <2>1. e \in Entry
    <3>1. work[t] \in Entry
      BY <1>7 DEF RecordAdd, Working, TypeOK, WorkOK
    <3>2. last + 1 \in Nat
      BY DEF TypeOK, HistoryOK
    <3> QED
      BY <3>1, <3>2 DEF Entry
  <2>2. HistoryOK'
    BY <1>7, <2>1, BodyBytesType DEF RecordAdd, TypeOK, HistoryOK
  <2>3. LockOK'
    BY <1>7, <1>b, ThreadAssumption DEF RecordAdd, CanLock, Goto, TypeOK, LockOK, Locked
  <2>4. WorkOK'
    BY <1>7, <1>b, <2>1, TakesWork DEF RecordAdd, TypeOK, WorkOK
  <2> QED
    BY <1>7, <2>2, <2>3, <2>4, FlagsStay, OutputStays DEF RecordAdd, TypeOK
<1>8. ASSUME NEW t \in Threads, RecordEvict(t) PROVE TypeOK'
  <2>1. Head(entries) \in Entry /\ Tail(entries) \in Seq(Entry)
    BY <1>8 DEF RecordEvict, OverCaps, TypeOK, HistoryOK
  <2>2. Head(entries).number \in Nat
    BY <2>1 DEF Entry
  <2>3. HistoryOK'
    BY <1>8, <2>1, <2>2, BodyBytesType DEF RecordEvict, TypeOK, HistoryOK
  <2>4. LockOK' /\ WorkOK'
    BY <1>8 DEF RecordEvict, TypeOK, LockOK, WorkOK, Locked, Working
  <2> QED
    BY <1>8, <2>3, <2>4, FlagsStay, OutputStays DEF RecordEvict, TypeOK
<1>9. ASSUME NEW t \in Threads, RecordCount(t) PROVE TypeOK'
  <2>1. work[t] \in Entry
    BY <1>9, <1>b DEF RecordCount, Working, TypeOK, WorkOK
  <2>2. work[t].route \in KnownRoutes \cup {NoRoute}
    BY <2>1 DEF Entry
  <2>3. OutputOK'
    <3>1. totals' \in Count
      BY <1>9, <2>1, CountedType DEF RecordCount, stats, TypeOK, OutputOK
    <3>2. routes' \in [KnownRoutes -> Count]
      <4>1. CASE routes' = routes
        BY <4>1 DEF TypeOK, OutputOK
      <4>2. CASE /\ work[t].route \in KnownRoutes
                 /\ routes' = [routes EXCEPT ![work[t].route] = Counted(@, work[t])]
        BY <2>1, <4>2, CountedType DEF TypeOK, OutputOK
      <4> QED
        BY <1>9, <2>2, <4>1, <4>2 DEF RecordCount, stats
    <3> QED
      BY <1>9, <3>1, <3>2 DEF RecordCount, TypeOK, OutputOK
  <2>4. LockOK' /\ WorkOK'
    BY <1>9, <1>b, MovesInside, KeepsWork DEF RecordCount, TypeOK, Working
  <2> QED
    BY <1>9, <2>3, <2>4, HistoryStays, FlagsStay DEF RecordCount, TypeOK
<1>10. ASSUME NEW t \in Threads, RecordEmit(t) PROVE TypeOK'
  <2>1. work[t] \in Entry /\ Locked(t)
    BY <1>10, <1>b DEF RecordEmit, Working, Locked, TypeOK, WorkOK
  <2>2. Event("Recorded", work[t].number, evicted, totals.count) \in SinkEvent
    BY <2>1 DEF Event, SinkEvent, Entry, Count, TypeOK, HistoryOK, OutputOK
  <2>3. sink' \in Seq(SinkEvent) /\ rootHinted' \in BOOLEAN
    <3>1. Append(sink, Event("Recorded", work[t].number, evicted, totals.count)) \in Seq(SinkEvent)
      BY <2>2, AppendType DEF TypeOK, OutputOK
    <3> QED
      BY <1>10, <3>1 DEF RecordEmit, TypeOK, OutputOK, FlagsOK
  <2>4. CASE UNCHANGED <<mu, work, answers>> /\ Goto(t, "hint")
    <3>1. LockOK' /\ WorkOK'
      BY <1>10, <1>b, <2>4, MovesInside, KeepsWork DEF RecordEmit, TypeOK, Working
    <3>2. OutputOK' /\ FlagsOK'
      BY <1>10, <2>3, <2>4 DEF RecordEmit, TypeOK, OutputOK, FlagsOK, stats
    <3> QED
      BY <1>10, <3>1, <3>2, HistoryStays DEF RecordEmit, TypeOK
  <2>5. CASE \E ok \in BOOLEAN : Return(t, ok)
    BY <1>10, <2>1, <2>3, <2>5, ReturnType DEF RecordEmit
  <2> QED
    BY <1>10, <2>4, <2>5 DEF RecordEmit
<1>11. ASSUME NEW t \in Threads, RecordHint(t) PROVE TypeOK'
  <2>1. work[t] \in Entry /\ Locked(t)
    BY <1>11, <1>b DEF RecordHint, Working, Locked, TypeOK, WorkOK
  <2>2. Event("RootNotFound", work[t].number, <<>>, 0) \in SinkEvent
    BY <2>1 DEF Event, SinkEvent, Entry
  <2>3. sink' \in Seq(SinkEvent) /\ rootHinted' \in BOOLEAN
    <3>1. Append(sink, Event("RootNotFound", work[t].number, <<>>, 0)) \in Seq(SinkEvent)
      BY <2>2, AppendType DEF TypeOK, OutputOK
    <3> QED
      BY <1>11, <3>1 DEF RecordHint, TypeOK, OutputOK, FlagsOK
  <2> QED
    BY <1>11, <2>1, <2>3, ReturnType DEF RecordHint
<1>12. ASSUME NEW t \in Commands, NEW id \in TestIds, SendTest(t, id) PROVE TypeOK'
  <2>1. LockOK' /\ WorkOK'
    BY <1>12, <1>a, MovesOutside, KeepsWork DEF SendTest, TypeOK
  <2>2. FlagsOK'
    BY <1>12 DEF SendTest, TypeOK, FlagsOK
  <2> QED
    BY <1>12, <2>1, <2>2, HistoryStays, OutputStays DEF SendTest, TypeOK
<1>13. ASSUME NEW t \in Commands, PostReturns(t) PROVE TypeOK'
  <2>1. LockOK' /\ WorkOK'
    BY <1>13, <1>a, <1>b, MovesOutside, KeepsWork DEF PostReturns, TypeOK
  <2> QED
    BY <1>13, <2>1, HistoryStays, FlagsStay, OutputStays DEF PostReturns, TypeOK
<1>14. ASSUME NEW id \in TestIds, PostArrives(id) PROVE TypeOK'
  <2>1. LockOK' /\ WorkOK'
    BY <1>14 DEF PostArrives, TypeOK, LockOK, WorkOK, Locked, Working
  <2>2. FlagsOK'
    BY <1>14 DEF PostArrives, TypeOK, FlagsOK
  <2> QED
    BY <1>14, <2>1, <2>2, HistoryStays, OutputStays DEF PostArrives, TypeOK
<1>15. CASE UNCHANGED vars
  <2>1. LockOK' /\ WorkOK'
    BY <1>15 DEF vars, TypeOK, LockOK, WorkOK, Locked, Working
  <2> QED
    BY <1>15, <2>1, HistoryStays, FlagsStay, OutputStays DEF vars, TypeOK
<1> QED
  BY <1>1, <1>2, <1>3, <1>4, <1>5, <1>6, <1>7, <1>8, <1>9, <1>10, <1>11, <1>12, <1>13,
     <1>14, <1>15 DEF Next, Record

\* Type correctness, and with it the mutual exclusion Session.mu gives record.
THEOREM TypeCorrect == Spec => []TypeOK
<1> QED
  BY TypeInit, TypeStep, PTL DEF Spec

----------------------------------------------------------------------------
(* The history, its replays and the refinement of RequestLog.               *)


\* Only history.add changes the history.
LEMMA HistorySteps ==
    ASSUME [Next]_vars
    PROVE  \/ UNCHANGED history
           \/ \E t \in Threads : RecordAdd(t)
           \/ \E t \in Threads : RecordEvict(t)
BY DEF Next, vars, Emit, Handle, Replay, ReplayLast, ReplayRead, Fetch, SendTest, PostReturns,
       PostArrives, Forward, Record, RecordCount, RecordEmit, RecordHint

----------------------------------------------------------------------------
(* The window of the history.                                               *)

LEMMA WindowInit == Init => HistoryIsTheNewest
BY DEF Init, HistoryIsTheNewest, First, Get

LEMMA WindowStep == TypeOK /\ HistoryIsTheNewest /\ [Next]_vars => HistoryIsTheNewest'
<1> SUFFICES ASSUME TypeOK, HistoryIsTheNewest, [Next]_vars PROVE HistoryIsTheNewest'
  OBVIOUS
<1> USE DEF First
<1>0. HistoryOK
  BY DEF TypeOK
<1>1. CASE UNCHANGED history
  BY <1>1 DEF HistoryIsTheNewest, history, Get
<1>2. ASSUME NEW t \in Threads, RecordAdd(t) PROVE HistoryIsTheNewest'
  <2> DEFINE e == [work[t] EXCEPT !.number = last + 1]
  <2>1. work[t] \in Entry
    BY <1>2 DEF RecordAdd, Working, TypeOK, WorkOK
  <2>2. e.number = last + 1
    BY <2>1 DEF Entry
  <2>3. entries' = Append(entries, e) /\ everything' = Append(everything, e) /\ last' = last + 1
    BY <1>2 DEF RecordAdd
  <2> HIDE DEF e
  <2>4. last' = Len(everything') /\ Len(entries') = Len(entries) + 1 /\ First' = First
    BY <1>0, <2>3 DEF HistoryIsTheNewest, HistoryOK
  <2>5. \A n \in 1..last' : everything'[n].number = n
    BY <1>0, <2>2, <2>3 DEF HistoryIsTheNewest, HistoryOK
  <2>6. ASSUME NEW n \in First'..last' PROVE Get(n)' = everything'[n]
    <3>1. CASE n = last'
      BY <1>0, <2>3, <3>1 DEF HistoryIsTheNewest, HistoryOK, Get
    <3>2. CASE n \in First..last
      <4>1. n - First + 1 \in 1..Len(entries) /\ n \in 1..Len(everything)
        BY <1>0, <3>2 DEF HistoryIsTheNewest, HistoryOK
      <4>2. Get(n)' = Get(n)
        BY <1>0, <2>3, <2>4, <4>1 DEF HistoryOK, Get
      <4>3. everything'[n] = everything[n]
        BY <1>0, <2>3, <4>1 DEF HistoryOK
      <4> QED
        BY <3>2, <4>2, <4>3 DEF HistoryIsTheNewest
    <3>3. n = last' \/ n \in First..last
      <4>1. First \in Int /\ last \in Int
        BY <1>0 DEF HistoryOK
      <4>2. First' = First /\ last' = last + 1
        BY <2>3, <2>4
      <4> HIDE DEF First
      <4> QED
        BY <4>1, <4>2
    <3> QED
      BY <3>1, <3>2, <3>3
  <2> QED
    BY <1>0, <2>3, <2>4, <2>5, <2>6 DEF HistoryIsTheNewest, HistoryOK
<1>3. ASSUME NEW t \in Threads, RecordEvict(t) PROVE HistoryIsTheNewest'
  <2>1. Len(entries) > 1 /\ entries' = Tail(entries) /\ UNCHANGED <<last, everything>>
    BY <1>3 DEF RecordEvict, OverCaps
  <2>2. Len(entries') = Len(entries) - 1 /\ First' = First + 1
    <3>1. Len(Tail(entries)) = Len(entries) - 1
      BY <1>0, <2>1 DEF HistoryOK
    <3>2. Len(entries) \in Int /\ last \in Int
      BY <1>0 DEF HistoryOK
    <3>3. Len(entries') = Len(entries) - 1 /\ last' = last
      BY <2>1, <3>1
    <3> QED
      BY <3>2, <3>3
  <2>3. ASSUME NEW n \in First'..last' PROVE Get(n)' = everything'[n]
    <3>1. n \in First..last /\ n - First' + 1 \in 1..Len(entries')
      BY <1>0, <2>1, <2>2 DEF HistoryIsTheNewest, HistoryOK
    <3>2. Get(n)' = Get(n)
      BY <1>0, <2>1, <2>2, <3>1 DEF HistoryOK, Get
    <3> QED
      BY <2>1, <3>1, <3>2 DEF HistoryIsTheNewest
  <2> QED
    BY <1>0, <2>1, <2>2, <2>3 DEF HistoryIsTheNewest, HistoryOK
<1> QED
  BY <1>1, <1>2, <1>3, HistorySteps

\* The history is the newest recorded entries, without a gap, each as it was
\* recorded: history.add's append, renumbering and eviction keep it so.
THEOREM HistoryCorrect == Spec => []HistoryIsTheNewest
<1> QED
  BY TypeCorrect, WindowInit, WindowStep, PTL DEF Spec

----------------------------------------------------------------------------
(* Replays.                                                                 *)

\* What is true of a replay from its start: it names a recorded original, and
\* its copy of the delivery, route and response is that original's.
Follows(e) ==
    e.replayOf # 0 =>
        /\ e.replayOf \in 1..last
        /\ e.delivery = everything[e.replayOf].delivery
        /\ e.route = everything[e.replayOf].route
        /\ e.was = everything[e.replayOf].response
        /\ ~ e.test

\* The entry a goroutine brings to record follows its original: record runs
\* without looking at the history it came from, which may have moved on.
InHand(t) ==
    /\ pc[t] \in {"forward", "record"} => Follows(work[t])
    /\ pc[t] = "record" /\ work[t].replayOf # 0 => work[t].forwarded

ReplaysInHand == \A t \in Threads : InHand(t)

ReplayInv == ReplaysMatchTheirOriginal /\ ReplaysInHand

LEMMA ReplayInit == Init => ReplayInv
BY DEF Init, ReplayInv, ReplaysMatchTheirOriginal, ReplaysInHand, InHand

\* One goroutine moves, with an entry that follows its original; the others and
\* the history stay.
LEMMA OneMoves ==
    ASSUME TypeOK, ReplayInv, NEW t \in Threads, NEW where \in PcStates,
           Goto(t, where), UNCHANGED history,
           \A u \in Threads \ {t} : work'[u] = work[u],
           InHand(t)'
    PROVE  ReplayInv'
<1>1. ReplaysMatchTheirOriginal'
  BY DEF ReplayInv, ReplaysMatchTheirOriginal, history
<1>2. ASSUME NEW u \in Threads, u # t PROVE InHand(u)'
  <2>1. pc'[u] = pc[u] /\ work'[u] = work[u]
    BY <1>2 DEF Goto, TypeOK, LockOK
  <2> QED
    BY <2>1 DEF ReplayInv, ReplaysInHand, InHand, Follows, history
<1> QED
  BY <1>1, <1>2 DEF ReplayInv, ReplaysInHand

\* Leaving for anywhere but forward and record, there is nothing to follow.
LEMMA OneLeaves ==
    ASSUME TypeOK, ReplayInv, NEW t \in Threads,
           NEW where \in PcStates \ {"forward", "record"},
           Goto(t, where), UNCHANGED history,
           \A u \in Threads \ {t} : work'[u] = work[u]
    PROVE  ReplayInv'
<1>1. InHand(t)'
  BY DEF InHand, Goto, TypeOK, LockOK
<1> QED
  BY <1>1, OneMoves

LEMMA NothingMoves ==
    ASSUME ReplayInv, UNCHANGED <<pc, work, history>>
    PROVE  ReplayInv'
BY DEF ReplayInv, ReplaysMatchTheirOriginal, ReplaysInHand, InHand, Follows, history

LEMMA FetchReplays ==
    ASSUME TypeOK, HistoryIsTheNewest, ReplayInv,
           NEW t \in Commands, NEW n \in Nat, Fetch(t, n)
    PROVE  ReplayInv'
<1> USE DEF Threads
<1>1. CASE /\ n \in First..last
           /\ work' = [work EXCEPT ![t] = ReplayEntry(n, Get(n))]
           /\ Goto(t, "forward")
  <2> DEFINE original == everything[n]
  <2>1. Get(n) = original /\ Get(n) \in Entry
    BY <1>1, GetType DEF HistoryIsTheNewest, TypeOK
  <2>2. n \in 1..last
    BY <1>1 DEF First, HistoryIsTheNewest, TypeOK, HistoryOK
  <2>3. work'[t] = ReplayEntry(n, original) /\ pc'[t] = "forward"
    BY <1>1, <2>1 DEF Goto, TypeOK, LockOK, WorkOK
  <2>4. Follows(ReplayEntry(n, original))
    BY <2>1, <2>2 DEF Follows, ReplayEntry, NewEntry, Entry
  <2>5. InHand(t)'
    BY <2>3, <2>4 DEF InHand, Follows, Fetch, history
  <2>6. \A u \in Threads \ {t} : work'[u] = work[u]
    BY <1>1 DEF TypeOK, WorkOK
  <2>7. "forward" \in PcStates
    BY DEF PcStates
  <2> QED
    BY <1>1, <2>5, <2>6, <2>7, OneMoves DEF Fetch
<1>2. CASE Goto(t, "idle") /\ UNCHANGED work
  BY <1>2, OneLeaves DEF Fetch, PcStates
<1> QED
  BY <1>1, <1>2 DEF Fetch

\* What record adds is what the goroutine had in hand.
LEMMA AddReplays ==
    ASSUME TypeOK, HistoryIsTheNewest, ReplayInv, NEW t \in Threads, RecordAdd(t)
    PROVE  ReplayInv'
<1> DEFINE e == [work[t] EXCEPT !.number = last + 1]
<1>0. last = Len(everything) /\ everything \in Seq(Entry) /\ last \in Nat
  BY DEF HistoryIsTheNewest, TypeOK, HistoryOK
<1>1. work[t] \in Entry
  BY DEF RecordAdd, Working, TypeOK, WorkOK
<1>2. /\ e.replayOf = work[t].replayOf /\ e.delivery = work[t].delivery /\ e.test = work[t].test
      /\ e.route = work[t].route /\ e.was = work[t].was /\ e.forwarded = work[t].forwarded
  BY <1>1 DEF Entry
<1>3. Follows(work[t]) /\ (work[t].replayOf # 0 => work[t].forwarded)
  BY DEF RecordAdd, ReplayInv, ReplaysInHand, InHand
<1>4. everything' = Append(everything, e) /\ last' = last + 1
  BY DEF RecordAdd
<1> HIDE DEF e
<1>5. /\ Len(everything') = last + 1 /\ everything'[last + 1] = e
      /\ \A n \in 1..last : everything'[n] = everything[n]
  BY <1>0, <1>4
<1>6. ReplaysMatchTheirOriginal'
  <2> SUFFICES ASSUME NEW n \in 1..(last + 1), everything'[n].replayOf # 0
               PROVE  LET f == everything'[n]
                      IN  /\ f.replayOf < n
                          /\ f.replayOf \in 1..last
                          /\ f.delivery = everything[f.replayOf].delivery
                          /\ f.route = everything[f.replayOf].route
                          /\ f.was = everything[f.replayOf].response
                          /\ f.forwarded /\ ~ f.test
    BY <1>5 DEF ReplaysMatchTheirOriginal
  <2>1. CASE n = last + 1
    BY <1>0, <1>2, <1>3, <1>5, <2>1 DEF Follows
  <2>2. CASE n \in 1..last
    <3>1. everything'[n] = everything[n] /\ everything[n] \in Entry
      BY <1>0, <1>5, <2>2
    <3>2. everything[n].replayOf \in Nat
      BY <3>1 DEF Entry
    <3> QED
      BY <1>0, <2>2, <3>1, <3>2 DEF ReplayInv, ReplaysMatchTheirOriginal
  <2> QED
    BY <1>0, <2>1, <2>2
<1>7. ASSUME NEW u \in Threads PROVE InHand(u)'
  <2>1. CASE u = t
    BY <2>1 DEF RecordAdd, InHand, Goto, TypeOK, LockOK
  <2>2. CASE u # t
    <3>1. pc'[u] = pc[u] /\ work'[u] = work[u]
      BY <2>2 DEF RecordAdd, Goto, TypeOK, LockOK, WorkOK
    <3>2. InHand(u)
      BY DEF ReplayInv, ReplaysInHand
    <3>3. \A n \in 1..last : n \in 1..last' /\ everything'[n] = everything[n]
      BY <1>0, <1>4, <1>5
    <3> QED
      BY <3>1, <3>2, <3>3 DEF InHand, Follows
  <2> QED
    BY <2>1, <2>2
<1> QED
  BY <1>6, <1>7 DEF ReplayInv, ReplaysInHand

LEMMA ReplayStep == TypeOK /\ HistoryIsTheNewest /\ ReplayInv /\ [Next]_vars => ReplayInv'
<1> SUFFICES ASSUME TypeOK, HistoryIsTheNewest, ReplayInv, [Next]_vars PROVE ReplayInv'
  OBVIOUS
<1> USE DEF Threads
<1>a. {"idle", "replay", "forward", "record", "posting", "stopped", "evict", "emit", "hint"} = PcStates
  BY DEF PcStates, Critical
<1>1. ASSUME NEW kind \in {"Ready", "ConnectionLost"}, Emit(kind) PROVE ReplayInv'
  <2>1. UNCHANGED history /\ UNCHANGED work /\ (UNCHANGED pc \/ Goto(Ws, "stopped"))
    BY <1>1 DEF Emit
  <2> QED
    BY <1>a, <2>1, OneLeaves, NothingMoves
<1>2. ASSUME NEW d \in Deliveries, Handle(d) PROVE ReplayInv'
  <2> DEFINE e == NewEntry(d, SentTest(d))
  <2>1. PICK where \in {"forward", "record"} : Goto(Ws, where)
    BY <1>2 DEF Handle
  <2>2. work'[Ws] = e /\ (\A u \in Threads \ {Ws} : work'[u] = work[u])
    BY <1>2 DEF Handle, TypeOK, WorkOK
  <2>3. InHand(Ws)'
    BY <2>2 DEF InHand, Follows, NewEntry
  <2> QED
    BY <1>2, <1>a, <2>1, <2>2, <2>3, OneMoves DEF Handle
<1>3. ASSUME NEW t \in Commands, NEW n \in 1..MaxRequests, Replay(t, n) PROVE ReplayInv'
  BY <1>3, FetchReplays, SizeAssumption DEF Replay
<1>4. ASSUME NEW t \in Commands, ReplayLast(t) PROVE ReplayInv'
  BY <1>4, <1>a, OneLeaves DEF ReplayLast
<1>5. ASSUME NEW t \in Commands, ReplayRead(t) PROVE ReplayInv'
  <2>1. wanted[t] \in Nat
    BY DEF TypeOK, WorkOK
  <2> QED
    BY <1>5, <2>1, FetchReplays DEF ReplayRead
<1>6. ASSUME NEW t \in Threads, Forward(t) PROVE ReplayInv'
  <2>1. PICK a \in Answers :
          work' = [work EXCEPT ![t] = [@ EXCEPT !.forwarded = TRUE, !.response = Response(a)]]
    BY <1>6 DEF Forward
  <2>2. work[t] \in Entry /\ Follows(work[t])
    BY <1>6 DEF Forward, Working, TypeOK, WorkOK, ReplayInv, ReplaysInHand, InHand
  <2>3. work'[t] = [work[t] EXCEPT !.forwarded = TRUE, !.response = Response(a)]
    BY <2>1 DEF TypeOK, WorkOK
  <2>4. /\ work'[t].replayOf = work[t].replayOf /\ work'[t].delivery = work[t].delivery
        /\ work'[t].route = work[t].route /\ work'[t].was = work[t].was
        /\ work'[t].test = work[t].test /\ work'[t].forwarded
    BY <2>2, <2>3 DEF Entry
  <2>5. InHand(t)'
    BY <1>6, <2>2, <2>4 DEF Forward, InHand, Follows, history
  <2>6. \A u \in Threads \ {t} : work'[u] = work[u]
    BY <2>1 DEF TypeOK, WorkOK
  <2> QED
    BY <1>6, <1>a, <2>5, <2>6, OneMoves DEF Forward
<1>7. ASSUME NEW t \in Threads, RecordAdd(t) PROVE ReplayInv'
  BY <1>7, AddReplays
<1>8. ASSUME NEW t \in Threads, RecordEvict(t) PROVE ReplayInv'
  BY <1>8 DEF RecordEvict, ReplayInv, ReplaysMatchTheirOriginal, ReplaysInHand, InHand, Follows
<1>9. ASSUME NEW t \in Threads, RecordCount(t) PROVE ReplayInv'
  BY <1>9, <1>a, OneLeaves DEF RecordCount
<1>10. ASSUME NEW t \in Threads, RecordEmit(t) \/ RecordHint(t) PROVE ReplayInv'
  <2>1. \E where \in {"hint", "idle", "stopped"} : Goto(t, where)
    BY <1>10 DEF RecordEmit, RecordHint, Return
  <2>2. \A u \in Threads \ {t} : work'[u] = work[u]
    BY <1>10 DEF RecordEmit, RecordHint, Return, TypeOK, WorkOK
  <2> QED
    BY <1>10, <1>a, <2>1, <2>2, OneLeaves DEF RecordEmit, RecordHint
<1>11. ASSUME NEW t \in Commands, NEW id \in TestIds, SendTest(t, id) PROVE ReplayInv'
  BY <1>11, <1>a, OneLeaves DEF SendTest
<1>12. ASSUME NEW t \in Commands, PostReturns(t) PROVE ReplayInv'
  BY <1>12, <1>a, OneLeaves DEF PostReturns
<1>13. ASSUME NEW id \in TestIds, PostArrives(id) PROVE ReplayInv'
  BY <1>13, NothingMoves DEF PostArrives
<1>14. CASE UNCHANGED vars
  BY <1>14, NothingMoves DEF vars
<1> QED
  BY <1>1, <1>2, <1>3, <1>4, <1>5, <1>6, <1>7, <1>8, <1>9, <1>10, <1>11, <1>12, <1>13, <1>14
     DEF Next, Record

\* Every recorded replay repeats an earlier request and compares itself with
\* what that request got, whatever was recorded or evicted between the time it
\* copied the original and the time it was recorded.
THEOREM ReplaysCorrect == Spec => []ReplaysMatchTheirOriginal
<1>1. ReplayInv => ReplaysMatchTheirOriginal
  BY DEF ReplayInv
<1> QED
  BY <1>1, TypeCorrect, HistoryCorrect, ReplayInit, ReplayStep, PTL DEF Spec

----------------------------------------------------------------------------
(* A session is a request log.                                              *)

LEMMA LogInit == Init => Log!Init
BY DEF Init, Log!Init, AbstractLog, First

\* record's append numbers a request; each turn of the eviction forgets one;
\* nothing else shows.
LEMMA LogStep ==
    TypeOK /\ HistoryIsTheNewest /\ ReplayInv /\ [Next]_vars => [Log!Next]_(Log!vars)
<1> SUFFICES ASSUME TypeOK, HistoryIsTheNewest, ReplayInv, [Next]_vars
             PROVE  Log!Next \/ UNCHANGED Log!vars
  OBVIOUS
<1>0. /\ last = Len(everything) /\ everything \in Seq(Entry) /\ entries \in Seq(Entry)
      /\ last \in Nat /\ Len(entries) \in Nat /\ Len(AbstractLog) = last
  BY DEF HistoryIsTheNewest, TypeOK, HistoryOK, AbstractLog
<1>1. CASE UNCHANGED history
  BY <1>1 DEF history, Log!vars, AbstractLog, First
<1>2. ASSUME NEW t \in Threads, RecordAdd(t) PROVE Log!Next
  <2> DEFINE e == [work[t] EXCEPT !.number = last + 1]
  <2>1. work[t] \in Entry /\ Follows(work[t])
    BY <1>2 DEF RecordAdd, Working, TypeOK, WorkOK, ReplayInv, ReplaysInHand, InHand
  <2>2. e.replayOf = work[t].replayOf /\ e.delivery = work[t].delivery
    BY <2>1 DEF Entry
  <2>3. everything' = Append(everything, e) /\ last' = last + 1 /\ entries' = Append(entries, e)
    BY <1>2 DEF RecordAdd
  <2> HIDE DEF e
  <2>4. UNCHANGED First
    BY <1>0, <2>3 DEF First
  <2>5. AbstractLog' = Append(AbstractLog, Log!Request(e.delivery, e.replayOf))
    BY <1>0, <2>3 DEF AbstractLog, Log!Request
  <2>6. e.replayOf # 0 =>
          e.replayOf \in 1..Len(AbstractLog) /\ AbstractLog[e.replayOf].payload = e.delivery
    BY <1>0, <2>1, <2>2 DEF Follows, AbstractLog
  <2>7. e.delivery \in Deliveries /\ e.replayOf \in 0..Len(AbstractLog)
    BY <1>0, <2>1, <2>2 DEF Entry, Follows
  <2> QED
    BY <2>4, <2>5, <2>6, <2>7 DEF Log!Next, Log!Number
<1>3. ASSUME NEW t \in Threads, RecordEvict(t) PROVE Log!Next
  <2>1. Len(entries) > 1 /\ entries' = Tail(entries) /\ UNCHANGED <<last, everything>>
    BY <1>3 DEF RecordEvict, OverCaps
  <2>2. Len(entries') = Len(entries) - 1
    BY <1>0, <2>1
  <2>3. First' = First + 1 /\ First < Len(AbstractLog)
    <3>1. last' = last
      BY <2>1
    <3>2. First' = last - (Len(entries) - 1) + 1
      BY <2>2, <3>1 DEF First
    <3>3. First = last - Len(entries) + 1 /\ Len(AbstractLog) = last
      BY <1>0 DEF First
    <3> QED
      BY <1>0, <2>1, <3>2, <3>3
  <2>4. UNCHANGED AbstractLog
    BY <2>1 DEF AbstractLog
  <2> QED
    BY <2>3, <2>4 DEF Log!Next, Log!ForgetOldest
<1> QED
  BY <1>1, <1>2, <1>3, HistorySteps

\* A session implements the request log: requests are numbered in one order,
\* never change, replay only what came before, and are forgotten oldest first.
THEOREM SessionIsARequestLog == Spec => ImplementsRequestLog
<1> QED
  BY TypeCorrect, HistoryCorrect, ReplayInit, ReplayStep, LogInit, LogStep, PTL
     DEF Spec, ImplementsRequestLog, Log!Spec

----------------------------------------------------------------------------
(* Inside record the totals and the sink lag behind the history.            *)

Uncounted == mu # Free /\ pc[mu] = "evict"
Untold == mu # Free /\ pc[mu] \in {"evict", "emit"}

CountedUpTo == IF Uncounted THEN last - 1 ELSE last
ToldUpTo == IF Untold THEN last - 1 ELSE last

\* The goroutine inside record has the newest entry in hand.
RecordsNewest == \A t \in Threads : Locked(t) => last > 0 /\ work[t] = everything[last]

----------------------------------------------------------------------------
(* The counters.                                                            *)

\* The deliveries up to n that are of the entries X.
DeliveriesIn(n, X) == {m \in DeliveriesUpTo(n) : everything[m] \in X}

OkEntries == {e \in Entry : e.forwarded /\ ~ Failed(e)}
FailedEntries == {e \in Entry : Failed(e)}
EntriesOn(r) == {e \in Entry : e.route = r}

\* c counts the deliveries up to n that are of X.
CountOf(c, n, X) ==
    /\ c.count = Cardinality(DeliveriesIn(n, X))
    /\ c.ok = Cardinality(DeliveriesIn(n, X \cap OkEntries))
    /\ c.failed = Cardinality(DeliveriesIn(n, X \cap FailedEntries))

CountersOK ==
    /\ CountOf(totals, CountedUpTo, Entry)
    /\ \A r \in KnownRoutes : CountOf(routes[r], CountedUpTo, EntriesOn(r))

CountersInv == RecordsNewest /\ HistoryFillsItsCaps /\ CountersOK

----------------------------------------------------------------------------
(* The sink.                                                                *)

Heard == {sink[i].number : i \in Recorded}
Dropped == UNION {Range(sink[i].evicted) : i \in Recorded}

NumbersOK ==
    /\ \A i \in Recorded : sink[i].number \in 1..ToldUpTo
    /\ \A i, j \in Recorded : i < j => sink[i].number < sink[j].number

SinkCountsOK == \A i \in Recorded : sink[i].count = Cardinality(DeliveriesUpTo(sink[i].number))

\* A sink that heard of every entry was told to drop what history has evicted.
DropsOK ==
    Heard = 1..ToldUpTo => Dropped \cup (IF Untold THEN Range(evicted) ELSE {}) = 1..(First - 1)

\* The hint is due right after its entry.
HintOK ==
    \A t \in Threads : pc[t] = "hint" =>
        /\ Len(sink) \in Recorded /\ sink[Len(sink)].number = last /\ AtBareRoot(last)
        /\ \A j \in Recorded : j < Len(sink) => ~ AtBareRoot(sink[j].number)

EventsInv == NumbersOK /\ SinkCountsOK /\ DropsOK /\ HintsInOrder /\ HintOK

----------------------------------------------------------------------------
(* Handle.                                                                  *)

Building(t) == pc[t] \in {"forward", "record"} \cup Critical

\* The websocket's goroutine builds deliveries, the commands replays.
KindsOK ==
    /\ Building(Ws) => work[Ws].replayOf = 0
    /\ \A t \in Commands : Building(t) => work[t].replayOf # 0

\* What is forwarded got a failure or a status; in inspect mode nothing is.
ForwardsOK ==
    /\ pc[Ws] = "forward" => forwarding
    /\ pc[Ws] \in {"record"} \cup Critical =>
          IF forwarding THEN work[Ws].response.failed \/ work[Ws].response.status # 0
          ELSE work[Ws].response = Unanswered

\* A test id was handed out before its event could come.
IdsOK == tests = posting /\ posted \subseteq posting \cup OthersTests /\ posting \cap OthersTests = {}

Marked(e) ==
    /\ e.test <=> e.delivery.test \in posting
    /\ e.delivery.test \in posting \cup OthersTests \cup {NoTest}

MarksOK ==
    /\ \A n \in DeliveriesUpTo(last) : Marked(everything[n])
    /\ Building(Ws) => Marked(work[Ws])

HandledInv == KindsOK /\ ForwardsOK /\ IdsOK /\ MarksOK /\ DeliveriesAnswered

----------------------------------------------------------------------------
(* Which steps are record's.                                                *)

\* Whoever is inside record stays where it is, with its entry.
RecordRests ==
    /\ UNCHANGED <<history, stats, mu, rootHinted>>
    /\ \A t \in Threads : Locked(t) => pc'[t] = pc[t] /\ work'[t] = work[t]
    /\ \A t \in Threads : pc'[t] \in Critical => Locked(t)

LEMMA OneRests ==
    ASSUME TypeOK, NEW t \in Threads, NEW where \in PcStates \ Critical,
           pc[t] \notin Critical, Goto(t, where),
           UNCHANGED <<history, stats, mu, rootHinted>>,
           \A u \in Threads \ {t} : work'[u] = work[u]
    PROVE  RecordRests
BY DEF RecordRests, Goto, TypeOK, LockOK, Locked

\* Only record's own steps disturb it.
LEMMA RestOrRecord ==
    ASSUME TypeOK, [Next]_vars
    PROVE  RecordRests \/ \E t \in Threads : Record(t)
<1> USE DEF Threads
<1>a. {"idle", "replay", "forward", "record", "posting", "stopped"} \subseteq PcStates \ Critical
  BY DEF PcStates, Critical
<1>b. work \in [Threads -> Entry \cup {NoEntry}]
  BY DEF TypeOK, WorkOK
<1>1. ASSUME NEW kind \in {"Ready", "ConnectionLost"}, Emit(kind) PROVE RecordRests
  <2>1. CASE UNCHANGED pc
    BY <1>1, <2>1 DEF Emit, RecordRests, Locked
  <2>2. CASE Goto(Ws, "stopped")
    BY <1>1, <1>a, <2>2, OneRests DEF Emit
  <2> QED
    BY <1>1, <2>1, <2>2 DEF Emit
<1>2. ASSUME NEW d \in Deliveries, Handle(d) PROVE RecordRests
  <2>1. PICK where \in {"forward", "record"} : Goto(Ws, where)
    BY <1>2 DEF Handle
  <2> QED
    BY <1>2, <1>a, <1>b, <2>1, OneRests DEF Handle
<1>3. ASSUME NEW t \in Commands, NEW n, pc[t] \in {"idle", "replay"}, Fetch(t, n) PROVE RecordRests
  <2>1. PICK where \in {"forward", "idle"} : Goto(t, where)
    BY <1>3 DEF Fetch
  <2> QED
    BY <1>3, <1>a, <1>b, <2>1, OneRests DEF Fetch
<1>4. ASSUME NEW t \in Commands, ReplayLast(t) PROVE RecordRests
  BY <1>4, <1>a, OneRests DEF ReplayLast
<1>5. ASSUME NEW t \in Threads, Forward(t) PROVE RecordRests
  BY <1>5, <1>a, <1>b, OneRests DEF Forward
<1>6. ASSUME NEW t \in Commands, NEW id \in TestIds, SendTest(t, id) PROVE RecordRests
  BY <1>6, <1>a, OneRests DEF SendTest
<1>7. ASSUME NEW t \in Commands, PostReturns(t) PROVE RecordRests
  BY <1>7, <1>a, OneRests DEF PostReturns
<1>8. CASE (\E id \in TestIds : PostArrives(id)) \/ UNCHANGED vars
  BY <1>8 DEF PostArrives, vars, RecordRests, Locked
<1> QED
  BY <1>1, <1>2, <1>3, <1>4, <1>5, <1>6, <1>7, <1>8 DEF Next, Replay, ReplayRead

\* The lags, too, are record's alone.
LEMMA LagsRest ==
    ASSUME TypeOK, RecordRests
    PROVE  UNCHANGED <<Uncounted, Untold, CountedUpTo, ToldUpTo>>
BY DEF RecordRests, history, Uncounted, Untold, CountedUpTo, ToldUpTo, TypeOK, LockOK, Locked

LEMMA NewestRests ==
    ASSUME TypeOK, RecordsNewest, RecordRests
    PROVE  RecordsNewest'
BY DEF RecordsNewest, RecordRests, history, Locked

\* Where each of record's steps stands in the lags.
LEMMA LagsInRecord ==
    ASSUME TypeOK, NEW t \in Threads, Locked(t)
    PROVE  /\ mu = t /\ mu # Free
           /\ \A u \in Threads : Locked(u) => u = t
           /\ Uncounted <=> pc[t] = "evict"
           /\ Untold <=> pc[t] \in {"evict", "emit"}
BY ThreadAssumption DEF TypeOK, LockOK, Uncounted, Untold

LEMMA NewestStep ==
    ASSUME TypeOK, HistoryIsTheNewest, RecordsNewest, NEW t \in Threads, Record(t)
    PROVE  RecordsNewest'
<1> USE DEF Threads
<1>0. /\ last = Len(everything) /\ everything \in Seq(Entry) /\ last \in Nat
      /\ work \in [Threads -> Entry \cup {NoEntry}] /\ pc \in [Threads -> PcStates]
  BY DEF HistoryIsTheNewest, TypeOK, HistoryOK, WorkOK, LockOK
<1>1. CASE RecordAdd(t)
  <2> DEFINE e == [work[t] EXCEPT !.number = last + 1]
  <2>1. everything' = Append(everything, e) /\ last' = last + 1 /\ work'[t] = e /\ mu = Free
    BY <1>0, <1>1 DEF RecordAdd, CanLock
  <2> HIDE DEF e
  <2>2. everything'[last'] = e
    BY <1>0, <2>1
  <2>3. \A u \in Threads : Locked(u)' => u = t
    BY <1>0, <1>1, <2>1, ThreadAssumption DEF RecordAdd, Goto, Locked, TypeOK, LockOK
  <2> QED
    BY <1>0, <2>1, <2>2, <2>3 DEF RecordsNewest
<1>2. CASE RecordEvict(t)
  BY <1>2 DEF RecordEvict, RecordsNewest, Locked
<1>3. CASE RecordCount(t)
  BY <1>0, <1>3 DEF RecordCount, RecordsNewest, Locked, Goto, Critical, history
<1>4. CASE RecordEmit(t) \/ RecordHint(t)
  <2>1. UNCHANGED history /\ \A u \in Threads \ {t} : pc'[u] = pc[u] /\ work'[u] = work[u]
    BY <1>0, <1>4 DEF RecordEmit, RecordHint, Return, Goto
  <2>2. pc'[t] \in Critical => work' = work /\ Locked(t)
    BY <1>0, <1>4 DEF RecordEmit, RecordHint, Return, Goto, Critical, Locked
  <2> QED
    BY <2>1, <2>2 DEF RecordsNewest, Locked, history
<1> QED
  BY <1>1, <1>2, <1>3, <1>4 DEF Record

----------------------------------------------------------------------------
(* The bytes of a sequence of entries.                                      *)

\* Induction over the numbers, for a set of them.
LEMMA SetInduction ==
    ASSUME NEW S \in SUBSET Nat, 0 \in S, \A n \in S : n + 1 \in S
    PROVE  S = Nat
<1> SUFFICES ASSUME NEW n \in Nat, n \notin S PROVE FALSE
  OBVIOUS
<1> DEFINE T == {0..k : k \in Nat \ S}
           R == StrictSubsetOrdering(Nat)
<1>1. T \subseteq FiniteSubsetsOf(Nat) /\ T # {}
  <2>1. \A k \in Nat : IsFiniteSet(0..k) /\ 0..k \subseteq Nat
    BY FS_Interval
  <2> QED
    BY <2>1 DEF FiniteSubsetsOf
<1>2. PICK s \in T : \A t \in T : <<t, s>> \notin R
  <2>1. IsWellFoundedOn(R, FiniteSubsetsOf(Nat))
    BY FS_StrictSubsetOrderingWellFounded
  <2> HIDE DEF T, R
  <2> QED
    BY <1>1, <2>1, WFMin
<1>3. PICK k \in Nat \ S : s = 0..k
  OBVIOUS
<1>4. k # 0 /\ k - 1 \in Nat \ S
  OBVIOUS
<1>5. 0..(k - 1) \in T
  BY <1>4
<1>6. /\ 0..(k - 1) \in SUBSET Nat /\ 0..k \in SUBSET Nat
      /\ 0..(k - 1) \subseteq 0..k /\ k \in 0..k /\ k \notin 0..(k - 1)
  BY <1>4
<1>7. <<0..(k - 1), 0..k>> \in R
  BY <1>6 DEF StrictSubsetOrdering
<1> QED
  BY <1>2, <1>3, <1>5, <1>7

\* TotalBytes is what its equation says.
LEMMA TotalBytesDef ==
    ASSUME NEW s \in Seq(Entry)
    PROVE  TotalBytes(s) = [n \in 0..Len(s) |->
                              IF n = 0 THEN 0 ELSE TotalBytes(s)[n - 1] + BodyBytes(s[n])]
<1> DEFINE Solves(g, N) == g = [n \in 0..N |-> IF n = 0 THEN 0 ELSE g[n - 1] + BodyBytes(s[n])]
           Solved == {N \in Nat : \E g : Solves(g, N)}
<1>1. 0 \in Solved
  <2>1. Solves([n \in 0..0 |-> 0], 0)
    OBVIOUS
  <2> QED
    BY <2>1
<1>2. ASSUME NEW N \in Solved PROVE N + 1 \in Solved
  <2>1. PICK g : Solves(g, N)
    OBVIOUS
  <2> DEFINE h == [n \in 0..(N + 1) |-> IF n = N + 1 THEN g[N] + BodyBytes(s[N + 1]) ELSE g[n]]
  <2>2. ASSUME NEW n \in 0..(N + 1)
        PROVE  h[n] = IF n = 0 THEN 0 ELSE h[n - 1] + BodyBytes(s[n])
    BY <2>1
  <2>3. Solves(h, N + 1)
    BY <2>2
  <2> HIDE DEF Solves, h
  <2> QED
    BY <2>3
<1> HIDE DEF Solved
<1>3. Solved = Nat
  <2>1. Solved \in SUBSET Nat
    BY DEF Solved
  <2> QED
    BY <1>1, <1>2, <2>1, SetInduction
<1>4. PICK g : Solves(g, Len(s))
  BY <1>3 DEF Solved
<1> QED
  BY <1>4 DEF TotalBytes

LEMMA TotalBytesType ==
    ASSUME NEW s \in Seq(Entry)
    PROVE  \A n \in 0..Len(s) : TotalBytes(s)[n] \in Nat
<1> DEFINE Typed == {n \in Nat : n <= Len(s) => TotalBytes(s)[n] \in Nat}
<1>1. 0 \in Typed
  BY TotalBytesDef
<1>2. ASSUME NEW n \in Typed PROVE n + 1 \in Typed
  <2>1. CASE n + 1 <= Len(s)
    <3>1. s[n + 1] \in Entry
      BY <2>1
    <3>2. TotalBytes(s)[n + 1] = TotalBytes(s)[n] + BodyBytes(s[n + 1])
      BY <2>1, TotalBytesDef
    <3> QED
      BY <2>1, <3>1, <3>2, BodyBytesType
  <2> QED
    BY <2>1
<1> HIDE DEF Typed
<1>3. Typed = Nat
  <2>1. Typed \in SUBSET Nat
    BY DEF Typed
  <2> QED
    BY <1>1, <1>2, <2>1, SetInduction
<1> QED
  BY <1>3 DEF Typed

\* One more entry, at the end ...
LEMMA TotalBytesAppend ==
    ASSUME NEW s \in Seq(Entry), NEW e \in Entry
    PROVE  TotalBytes(Append(s, e))[Len(s) + 1] = TotalBytes(s)[Len(s)] + BodyBytes(e)
<1> DEFINE t == Append(s, e)
           Same == {n \in Nat : n <= Len(s) => TotalBytes(t)[n] = TotalBytes(s)[n]}
<1>0. /\ t \in Seq(Entry) /\ Len(t) = Len(s) + 1 /\ t[Len(s) + 1] = e
      /\ \A n \in 1..Len(s) : t[n] = s[n]
  OBVIOUS
<1> HIDE DEF t
<1>1. 0 \in Same
  BY <1>0, TotalBytesDef
<1>2. ASSUME NEW n \in Same PROVE n + 1 \in Same
  <2>1. CASE n + 1 <= Len(s)
    <3>0. n + 1 \in 0..Len(t) /\ n + 1 # 0 /\ (n + 1) - 1 = n
      BY <1>0, <2>1
    <3>1. TotalBytes(t)[n + 1] = TotalBytes(t)[n] + BodyBytes(t[n + 1])
      BY <1>0, <3>0, TotalBytesDef
    <3>2. TotalBytes(s)[n + 1] = TotalBytes(s)[n] + BodyBytes(s[n + 1])
      BY <2>1, TotalBytesDef
    <3> QED
      BY <1>0, <2>1, <3>1, <3>2
  <2> QED
    BY <2>1
<1> HIDE DEF Same
<1>3. Same = Nat
  <2>1. Same \in SUBSET Nat
    BY DEF Same
  <2> QED
    BY <1>1, <1>2, <2>1, SetInduction
<1>4. TotalBytes(t)[Len(s) + 1] = TotalBytes(t)[Len(s)] + BodyBytes(e)
  BY <1>0, TotalBytesDef
<1> QED
  BY <1>3, <1>4 DEF t, Same

\* ... and one less, at the front.
LEMMA TotalBytesTail ==
    ASSUME NEW s \in Seq(Entry), Len(s) > 0
    PROVE  TotalBytes(Tail(s))[Len(s) - 1] = TotalBytes(s)[Len(s)] - BodyBytes(Head(s))
<1> DEFINE t == Tail(s)
           Less == {n \in Nat : n < Len(s) =>
                      TotalBytes(t)[n] = TotalBytes(s)[n + 1] - BodyBytes(s[1])}
<1>0. /\ t \in Seq(Entry) /\ Len(t) = Len(s) - 1 /\ Head(s) = s[1] /\ s[1] \in Entry
      /\ \A n \in 1..Len(t) : t[n] = s[n + 1]
  OBVIOUS
<1> HIDE DEF t
<1>1. 0 \in Less
  <2>1. TotalBytes(t)[0] = 0 /\ TotalBytes(s)[0] = 0 /\ TotalBytes(s)[1] = 0 + BodyBytes(s[1])
    BY <1>0, TotalBytesDef
  <2> QED
    BY <1>0, <2>1, BodyBytesType
<1>2. ASSUME NEW n \in Less PROVE n + 1 \in Less
  <2>1. CASE n + 1 < Len(s)
    <3>0. n + 1 \in 0..Len(t) /\ n + 1 # 0 /\ (n + 1) - 1 = n
      BY <1>0, <2>1
    <3>1. TotalBytes(t)[n + 1] = TotalBytes(t)[n] + BodyBytes(t[n + 1])
      BY <1>0, <3>0, TotalBytesDef
    <3>2. TotalBytes(s)[n + 2] = TotalBytes(s)[n + 1] + BodyBytes(s[n + 2])
      BY <2>1, TotalBytesDef
    <3>3. s[n + 2] \in Entry /\ t[n + 1] = s[n + 2]
      BY <1>0, <2>1
    <3>4. TotalBytes(s)[n + 1] \in Nat
      BY <2>1, TotalBytesType
    <3> QED
      <4>1. BodyBytes(s[1]) \in Nat /\ BodyBytes(s[n + 2]) \in Nat
        BY <1>0, <3>3, BodyBytesType
      <4> QED
        BY <2>1, <3>1, <3>2, <3>3, <3>4, <4>1
  <2> QED
    BY <2>1
<1> HIDE DEF Less
<1>3. Less = Nat
  <2>1. Less \in SUBSET Nat
    BY DEF Less
  <2> QED
    BY <1>1, <1>2, <2>1, SetInduction
<1> QED
  BY <1>0, <1>3 DEF t, Less

----------------------------------------------------------------------------
(* The counters.                                                            *)

\* What was recorded stays, and with it what is counted of it.
LEMMA CountsOfThePast ==
    ASSUME NEW e, everything \in Seq(Entry), everything' \in {everything, Append(everything, e)}
    PROVE  /\ \A n \in 0..Len(everything) : DeliveriesUpTo(n)' = DeliveriesUpTo(n)
           /\ \A X : \A n \in 0..Len(everything) : DeliveriesIn(n, X)' = DeliveriesIn(n, X)
<1>1. \A n \in 1..Len(everything) : everything'[n] = everything[n]
  OBVIOUS
<1> QED
  BY <1>1 DEF DeliveriesUpTo, DeliveriesIn

LEMMA DeliveriesAreFinite ==
    ASSUME NEW n \in Nat
    PROVE  /\ IsFiniteSet(DeliveriesUpTo(n))
           /\ \A X : IsFiniteSet(DeliveriesIn(n, X))
<1>1. IsFiniteSet(1..n)
  BY FS_Interval
<1>2. DeliveriesUpTo(n) \in SUBSET (1..n) /\ \A X : DeliveriesIn(n, X) \in SUBSET (1..n)
  BY DEF DeliveriesUpTo, DeliveriesIn
<1> QED
  BY <1>1, <1>2, FS_Subset

\* The next entry counts once, if it is a delivery of X's.
LEMMA OneMoreDelivery ==
    ASSUME NEW n \in Nat, NEW X
    PROVE  Cardinality(DeliveriesIn(n + 1, X)) =
             Cardinality(DeliveriesIn(n, X)) +
               (IF everything[n + 1].replayOf = 0 /\ everything[n + 1] \in X THEN 1 ELSE 0)
<1>1. IsFiniteSet(DeliveriesIn(n, X)) /\ n + 1 \notin DeliveriesIn(n, X)
  <2>1. IsFiniteSet(DeliveriesIn(n, X))
    BY DeliveriesAreFinite
  <2>2. n + 1 \notin DeliveriesIn(n, X)
    BY DEF DeliveriesIn, DeliveriesUpTo
  <2> QED
    BY <2>1, <2>2
<1>2. Cardinality(DeliveriesIn(n, X)) \in Nat
  BY <1>1, FS_CardinalityType
<1>3. CASE everything[n + 1].replayOf = 0 /\ everything[n + 1] \in X
  <2>1. DeliveriesIn(n + 1, X) = DeliveriesIn(n, X) \cup {n + 1}
    BY <1>3 DEF DeliveriesIn, DeliveriesUpTo
  <2> QED
    BY <1>1, <1>3, <2>1, FS_AddElement
<1>4. CASE ~ (everything[n + 1].replayOf = 0 /\ everything[n + 1] \in X)
  <2>1. DeliveriesIn(n + 1, X) = DeliveriesIn(n, X)
    BY <1>4 DEF DeliveriesIn, DeliveriesUpTo
  <2> QED
    BY <1>2, <1>4, <2>1
<1> QED
  BY <1>3, <1>4

\* stats.add counts the next entry ...
LEMMA CountedCounts ==
    ASSUME NEW c \in Count, NEW n \in Nat, NEW X, CountOf(c, n, X),
           everything[n + 1] \in Entry \cap X, everything[n + 1].replayOf = 0
    PROVE  CountOf(Counted(c, everything[n + 1]), n + 1, X)
<1> DEFINE e == everything[n + 1]
<1>1. /\ e \in X \cap OkEntries <=> e.forwarded /\ ~ Failed(e)
      /\ e \in X \cap FailedEntries <=> Failed(e)
  BY DEF OkEntries, FailedEntries
<1>2. c.count \in Nat /\ c.ok \in Nat /\ c.failed \in Nat
  BY DEF Count
<1> QED
  BY <1>1, <1>2, OneMoreDelivery DEF CountOf, Counted

\* ... and what does not count leaves every count as it is.
LEMMA UncountedCounts ==
    ASSUME NEW c \in Count, NEW n \in Nat, NEW X, CountOf(c, n, X),
           everything[n + 1] \notin X \/ everything[n + 1].replayOf # 0
    PROVE  CountOf(c, n + 1, X)
<1>1. c.count \in Nat /\ c.ok \in Nat /\ c.failed \in Nat
  BY DEF Count
<1> QED
  BY <1>1, OneMoreDelivery DEF CountOf

LEMMA CountStays ==
    ASSUME NEW e, everything \in Seq(Entry), everything' \in {everything, Append(everything, e)},
           NEW c, NEW n \in 0..Len(everything), NEW X, CountOf(c, n, X)
    PROVE  CountOf(c, n, X)'
BY CountsOfThePast DEF CountOf

LEMMA CountersInit == Init => CountersInv
<1> SUFFICES ASSUME Init PROVE CountersInv
  OBVIOUS
<1>1. RecordsNewest
  BY DEF Init, RecordsNewest, Locked, Critical
<1>2. HistoryFillsItsCaps
  <2> DEFINE none == <<>>
  <2>1. none \in Seq(Entry) /\ Len(none) = 0
    OBVIOUS
  <2>2. TotalBytes(none) = [n \in 0..0 |-> IF n = 0 THEN 0 ELSE TotalBytes(none)[n - 1] + BodyBytes(none[n])]
    <3> HIDE DEF none
    <3> QED
      BY <2>1, TotalBytesDef
  <2>3. TotalBytes(none)[Len(none)] = 0
    BY <2>1, <2>2
  <2> QED
    BY <2>1, <2>3 DEF Init, HistoryFillsItsCaps, OverCaps, First
<1>3. CountersOK
  <2>1. \A X : DeliveriesIn(0, X) = {}
    BY DEF DeliveriesIn, DeliveriesUpTo
  <2>2. \A X : CountOf(ZeroCounts, 0, X)
    BY <2>1, FS_EmptySet DEF CountOf, ZeroCounts
  <2>3. CountedUpTo = 0
    BY DEF Init, CountedUpTo, Uncounted
  <2> QED
    BY <2>2, <2>3 DEF Init, CountersOK
<1> QED
  BY <1>1, <1>2, <1>3 DEF CountersInv

----------------------------------------------------------------------------
(* The counters, step by step.                                              *)

LEMMA CountedIsRecorded ==
    ASSUME TypeOK, RecordsNewest
    PROVE  CountedUpTo \in 0..last /\ ToldUpTo \in 0..last
BY ThreadAssumption DEF CountedUpTo, ToldUpTo, Uncounted, Untold, RecordsNewest, TypeOK, LockOK,
       HistoryOK, Locked, Critical

\* A step that counts nothing leaves the counts right.
LEMMA CountersStay ==
    ASSUME TypeOK, HistoryIsTheNewest, RecordsNewest, CountersOK,
           UNCHANGED <<totals, routes>>, UNCHANGED CountedUpTo,
           NEW e, everything' \in {everything, Append(everything, e)}
    PROVE  CountersOK'
<1>1. PICK n \in 0..Len(everything) : n = CountedUpTo
  BY CountedIsRecorded DEF HistoryIsTheNewest
<1>2. everything \in Seq(Entry)
  BY DEF TypeOK, HistoryOK
<1>3. \A c, X : CountOf(c, n, X) => CountOf(c, n, X)'
  BY <1>2, CountStays
<1>4. PICK c : c = totals
  OBVIOUS
<1>5. PICK cs : cs = routes
  OBVIOUS
<1>6. c = totals' /\ cs = routes' /\ n = CountedUpTo'
  BY <1>1, <1>4, <1>5
<1>7. CountOf(c, n, Entry) /\ \A r \in KnownRoutes : CountOf(cs[r], n, EntriesOn(r))
  BY <1>1, <1>4, <1>5 DEF CountersOK
<1>8. CountOf(c, n, Entry)' /\ \A r \in KnownRoutes : CountOf(cs[r], n, EntriesOn(r))'
  BY <1>3, <1>7
<1> QED
  BY <1>6, <1>8 DEF CountersOK, CountOf, DeliveriesIn, DeliveriesUpTo

\* With the history unchanged the caps are kept, if the eviction is still due.
LEMMA CapsStay ==
    ASSUME HistoryFillsItsCaps, UNCHANGED history,
           OverCaps /\ Uncounted => Uncounted'
    PROVE  HistoryFillsItsCaps'
BY DEF HistoryFillsItsCaps, history, OverCaps, Uncounted, First

LEMMA CapsAdd ==
    ASSUME TypeOK, HistoryIsTheNewest, HistoryFillsItsCaps, NEW t \in Threads, RecordAdd(t)
    PROVE  HistoryFillsItsCaps'
<1> DEFINE e == [work[t] EXCEPT !.number = last + 1]
<1>0. /\ last = Len(everything) /\ everything \in Seq(Entry) /\ last \in Nat
      /\ entries \in Seq(Entry) /\ Len(entries) <= last /\ bytes \in Int
  BY DEF HistoryIsTheNewest, TypeOK, HistoryOK
<1>1. e \in Entry
  <2>1. work[t] \in Entry /\ last + 1 \in Nat
    BY <1>0 DEF RecordAdd, Working, TypeOK, WorkOK
  <2> QED
    BY <2>1 DEF Entry
<1>2. /\ entries' = Append(entries, e) /\ everything' = Append(everything, e)
      /\ last' = last + 1 /\ bytes' = bytes + BodyBytes(e)
  BY DEF RecordAdd
<1>3. Uncounted'
  BY ThreadAssumption DEF RecordAdd, Uncounted, Goto, TypeOK, LockOK
<1> HIDE DEF e
<1>4. Len(entries') = Len(entries) + 1 /\ First' = First /\ First \in 1..(last + 1)
  BY <1>0, <1>2 DEF First
<1>5. bytes' = TotalBytes(entries')[Len(entries')]
  BY <1>0, <1>1, <1>2, <1>4, TotalBytesAppend DEF HistoryFillsItsCaps
<1>6. First > 1 => everything'[First' - 1] = everything[First - 1]
  BY <1>0, <1>2, <1>4
<1>7. BodyBytes(e) \in Nat
  BY <1>1, BodyBytesType
<1>8. First > 1 => BodyBytes(everything[First - 1]) \in Nat
  BY <1>0, <1>4, BodyBytesType
<1>9. First' > 1 => \/ Len(entries') + 1 > MaxEntries
                    \/ bytes' + BodyBytes(everything'[First' - 1]) > MaxBytes
  <2> SUFFICES ASSUME First > 1 PROVE Len(entries) + 2 > MaxEntries
                      \/ bytes + BodyBytes(e) + BodyBytes(everything[First - 1]) > MaxBytes
    BY <1>0, <1>2, <1>4, <1>6, <1>7, <1>8
  <2>1. Len(entries) + 1 > MaxEntries \/ bytes + BodyBytes(everything[First - 1]) > MaxBytes
    BY DEF HistoryFillsItsCaps
  <2> QED
    BY <1>0, <1>7, <1>8, <2>1, SizeAssumption
<1> QED
  BY <1>3, <1>5, <1>9 DEF HistoryFillsItsCaps, Uncounted

LEMMA CapsEvict ==
    ASSUME TypeOK, HistoryIsTheNewest, HistoryFillsItsCaps, NEW t \in Threads, RecordEvict(t)
    PROVE  HistoryFillsItsCaps'
<1>0. /\ last \in Nat /\ entries \in Seq(Entry) /\ Len(entries) <= last /\ bytes \in Int
      /\ Len(entries) > 1
  BY DEF HistoryIsTheNewest, TypeOK, HistoryOK, RecordEvict, OverCaps
<1>1. /\ entries' = Tail(entries) /\ bytes' = bytes - BodyBytes(Head(entries))
      /\ UNCHANGED <<last, everything, pc, mu>>
  BY DEF RecordEvict
<1>2. Len(entries') = Len(entries) - 1 /\ First' - 1 = First
  <2>1. Len(entries') = Len(entries) - 1 /\ last' = last /\ Len(entries) \in Nat
    BY <1>0, <1>1
  <2>2. First' = last' - Len(entries') + 1 /\ First = last - Len(entries) + 1
    BY DEF First
  <2> QED
    BY <1>0, <2>1, <2>2
<1>3. bytes' = TotalBytes(entries')[Len(entries')]
  BY <1>0, <1>1, <1>2, TotalBytesTail DEF HistoryFillsItsCaps
<1>4. everything[First] = Head(entries)
  BY <1>0 DEF HistoryIsTheNewest, Get, First
<1>5. Uncounted'
  BY <1>1, ThreadAssumption DEF RecordEvict, Uncounted, TypeOK, LockOK, Locked, Critical
<1>6. Len(entries') + 1 > MaxEntries \/ bytes' + BodyBytes(everything'[First' - 1]) > MaxBytes
  <2>1. Len(entries) > MaxEntries \/ bytes > MaxBytes
    BY DEF RecordEvict, OverCaps
  <2>2. BodyBytes(Head(entries)) \in Nat
    BY <1>0, BodyBytesType
  <2>3. everything'[First' - 1] = Head(entries)
    BY <1>1, <1>2, <1>4
  <2> QED
    BY <1>0, <1>1, <1>2, <2>1, <2>2, <2>3, SizeAssumption
<1> QED
  BY <1>3, <1>5, <1>6 DEF HistoryFillsItsCaps, Uncounted

\* stats.add counts the entry in hand, the newest one.
LEMMA CountersCount ==
    ASSUME TypeOK, HistoryIsTheNewest, RecordsNewest, CountersOK,
           NEW t \in Threads, RecordCount(t)
    PROVE  CountersOK'
<1>0. Locked(t) /\ pc[t] = "evict" /\ mu = t /\ pc \in [Threads -> PcStates] /\ mu # Free
  BY ThreadAssumption DEF RecordCount, Locked, Critical, TypeOK, LockOK
<1>1. /\ last \in Nat /\ last > 0 /\ everything \in Seq(Entry) /\ last = Len(everything)
      /\ work[t] = everything[last]
  BY <1>0 DEF RecordsNewest, HistoryIsTheNewest, TypeOK, HistoryOK
<1>2. PICK n \in Nat : n = last - 1
  BY <1>1
<1>3. PICK e : e = everything[n + 1]
  OBVIOUS
<1>4. e \in Entry /\ e = work[t] /\ n + 1 = last
  BY <1>1, <1>2, <1>3
<1>5. CountedUpTo = n /\ CountedUpTo' = n + 1 /\ everything' = everything
  BY <1>0, <1>1, <1>2 DEF RecordCount, CountedUpTo, Uncounted, Goto, history
<1>6. totals \in Count /\ routes \in [KnownRoutes -> Count]
  BY DEF TypeOK, OutputOK
<1>7. /\ CountOf(totals, n, Entry)
      /\ \A r \in KnownRoutes : CountOf(routes[r], n, EntriesOn(r))
  BY <1>5 DEF CountersOK
<1>8. /\ CountOf(totals', n + 1, Entry)
      /\ \A r \in KnownRoutes : CountOf(routes'[r], n + 1, EntriesOn(r))
  <2>1. CASE Counts(e)
    <3>1. CountOf(totals', n + 1, Entry)
      <4>1. totals' = Counted(totals, e)
        BY <1>4, <2>1 DEF RecordCount
      <4>2. everything[n + 1] \in Entry \cap Entry /\ everything[n + 1].replayOf = 0
        BY <1>3, <1>4, <2>1 DEF Counts
      <4>3. CountOf(Counted(totals, everything[n + 1]), n + 1, Entry)
        BY <1>6, <1>7, <4>2, CountedCounts
      <4> QED
        BY <1>3, <4>1, <4>3
    <3>2. ASSUME NEW r \in KnownRoutes PROVE CountOf(routes'[r], n + 1, EntriesOn(r))
      <4>1. CASE e.route = r
        <5>1. routes'[r] = Counted(routes[r], e)
          BY <1>4, <1>6, <2>1, <4>1, DataAssumption DEF RecordCount
        <5> QED
          BY <1>3, <1>4, <1>6, <1>7, <2>1, <4>1, <5>1, CountedCounts DEF EntriesOn, Counts
      <4>2. CASE e.route # r
        <5>1. routes'[r] = routes[r]
          BY <1>4, <1>6, <2>1, <4>2 DEF RecordCount
        <5> QED
          BY <1>3, <1>6, <1>7, <4>2, <5>1, UncountedCounts DEF EntriesOn
      <4> QED
        BY <4>1, <4>2
    <3> QED
      BY <3>1, <3>2
  <2>2. CASE ~ Counts(e)
    <3>1. totals' = totals /\ routes' = routes
      BY <1>4, <2>2 DEF RecordCount, stats
    <3> QED
      BY <1>3, <1>6, <1>7, <2>2, <3>1, UncountedCounts DEF Counts
  <2> QED
    BY <2>1, <2>2
<1>9. \A c, X : CountOf(c, n + 1, X) => CountOf(c, n + 1, X)'
  BY <1>1, <1>4, <1>5, CountStays
<1>10. PICK c : c = totals'
  OBVIOUS
<1>11. PICK cs : cs = routes'
  OBVIOUS
<1>12. CountOf(c, n + 1, Entry)' /\ \A r \in KnownRoutes : CountOf(cs[r], n + 1, EntriesOn(r))'
  BY <1>8, <1>9, <1>10, <1>11
<1> QED
  BY <1>5, <1>10, <1>11, <1>12 DEF CountersOK, CountOf, DeliveriesIn, DeliveriesUpTo

LEMMA CountersStep ==
    TypeOK /\ HistoryIsTheNewest /\ CountersInv /\ [Next]_vars => CountersInv'
<1> SUFFICES ASSUME TypeOK, HistoryIsTheNewest, CountersInv, [Next]_vars PROVE CountersInv'
  OBVIOUS
<1>0. RecordsNewest /\ HistoryFillsItsCaps /\ CountersOK
  BY DEF CountersInv
<1>1. CASE RecordRests
  <2>1. UNCHANGED history /\ UNCHANGED <<totals, routes>> /\ UNCHANGED everything
    BY <1>1 DEF RecordRests, history, stats
  <2>2. UNCHANGED <<Uncounted, CountedUpTo>>
    BY <1>1, LagsRest
  <2>3. CountersOK'
    BY <1>0, <2>1, <2>2, CountersStay
  <2> QED
    BY <1>0, <1>1, <2>1, <2>2, <2>3, CapsStay, NewestRests DEF CountersInv
<1>2. ASSUME NEW t \in Threads, Record(t) PROVE CountersInv'
  <2>0. RecordsNewest'
    BY <1>0, <1>2, NewestStep
  <2>a. pc \in [Threads -> PcStates] /\ last \in Nat
    BY DEF TypeOK, LockOK, HistoryOK
  <2>1. CASE RecordAdd(t)
    <3>1. PICK e : everything' = Append(everything, e)
      BY <2>1 DEF RecordAdd
    <3>2. CountedUpTo' = CountedUpTo /\ UNCHANGED <<totals, routes>>
      BY <2>1, <2>a, ThreadAssumption
         DEF RecordAdd, CanLock, CountedUpTo, Uncounted, Goto, stats
    <3>3. CountersOK'
      BY <1>0, <3>1, <3>2, CountersStay
    <3> QED
      BY <1>0, <2>0, <2>1, <3>3, CapsAdd DEF CountersInv
  <2>2. CASE RecordEvict(t)
    <3>1. CountedUpTo' = CountedUpTo /\ UNCHANGED <<totals, routes>> /\ UNCHANGED everything
      BY <2>2 DEF RecordEvict, CountedUpTo, Uncounted, stats
    <3>2. CountersOK'
      BY <1>0, <3>1, CountersStay
    <3> QED
      BY <1>0, <2>0, <2>2, <3>2, CapsEvict DEF CountersInv
  <2>3. CASE RecordCount(t)
    <3>1. UNCHANGED history /\ ~ OverCaps
      BY <2>3 DEF RecordCount
    <3> QED
      BY <1>0, <2>0, <2>3, <3>1, CountersCount, CapsStay DEF CountersInv
  <2>4. CASE RecordEmit(t) \/ RecordHint(t)
    <3>1. UNCHANGED history /\ UNCHANGED <<totals, routes>> /\ UNCHANGED everything
      BY <2>4 DEF RecordEmit, RecordHint, history, stats
    <3>2. ~ Uncounted /\ ~ Uncounted'
      BY <2>4, <2>a, ThreadAssumption DEF RecordEmit, RecordHint, Return, Unlock, Goto,
         Uncounted, TypeOK, LockOK, Locked, Critical
    <3>3. CountedUpTo' = CountedUpTo
      BY <3>1, <3>2 DEF CountedUpTo, history
    <3>4. CountersOK'
      BY <1>0, <3>1, <3>3, CountersStay
    <3> QED
      BY <1>0, <2>0, <3>1, <3>2, <3>4, CapsStay DEF CountersInv
  <2> QED
    BY <1>2, <2>1, <2>2, <2>3, <2>4 DEF Record
<1> QED
  BY <1>1, <1>2, RestOrRecord

\* Between records, what has been counted is all there is.
LEMMA CountersEnough == TypeOK /\ HistoryIsTheNewest /\ CountersInv => CountersAgree
<1> SUFFICES ASSUME TypeOK, HistoryIsTheNewest, CountersInv, mu = Free PROVE CountsAgree
  BY DEF CountersInv, CountersAgree, CountsAgree
<1>1. CountedUpTo = last
  BY DEF CountedUpTo, Uncounted
<1>2. /\ CountOf(totals, last, Entry)
      /\ \A r \in KnownRoutes : CountOf(routes[r], last, EntriesOn(r))
  BY <1>1 DEF CountersInv, CountersOK
<1>3. \A n \in DeliveriesUpTo(last) : everything[n] \in Entry
  BY DEF HistoryIsTheNewest, TypeOK, HistoryOK, DeliveriesUpTo
<1> DEFINE N(P(_)) == Cardinality({n \in DeliveriesUpTo(last) : P(everything[n])})
           Ok(e) == e.forwarded /\ ~ Failed(e)
<1>4. /\ totals.count = Cardinality(DeliveriesUpTo(last))
      /\ totals.ok = N(Ok) /\ totals.failed = N(Failed)
  <2>1. /\ DeliveriesIn(last, Entry) = DeliveriesUpTo(last)
        /\ DeliveriesIn(last, Entry \cap OkEntries) = {n \in DeliveriesUpTo(last) : Ok(everything[n])}
        /\ DeliveriesIn(last, Entry \cap FailedEntries) =
              {n \in DeliveriesUpTo(last) : Failed(everything[n])}
    BY <1>3 DEF DeliveriesIn, OkEntries, FailedEntries
  <2> QED
    BY <1>2, <2>1 DEF CountOf
<1>5. ASSUME NEW r \in KnownRoutes
      PROVE  LET OnRoute(e) == e.route = r
                 OkOnRoute(e) == OnRoute(e) /\ Ok(e)
                 FailedOnRoute(e) == OnRoute(e) /\ Failed(e)
             IN  routes[r] = [count |-> N(OnRoute), ok |-> N(OkOnRoute), failed |-> N(FailedOnRoute)]
  <2>1. /\ DeliveriesIn(last, EntriesOn(r)) = {n \in DeliveriesUpTo(last) : everything[n].route = r}
        /\ DeliveriesIn(last, EntriesOn(r) \cap OkEntries) =
              {n \in DeliveriesUpTo(last) : everything[n].route = r /\ Ok(everything[n])}
        /\ DeliveriesIn(last, EntriesOn(r) \cap FailedEntries) =
              {n \in DeliveriesUpTo(last) : everything[n].route = r /\ Failed(everything[n])}
    BY <1>3 DEF DeliveriesIn, EntriesOn, OkEntries, FailedEntries
  <2>2. routes[r] \in Count
    BY DEF TypeOK, OutputOK
  <2>3. routes[r] = [count |-> routes[r].count, ok |-> routes[r].ok, failed |-> routes[r].failed]
    BY <2>2 DEF Count
  <2> QED
    BY <1>2, <2>1, <2>3 DEF CountOf
<1> QED
  BY <1>4, <1>5 DEF CountsAgree

\* The bytes history.add holds its caps to, the totals and each route's counts
\* are those of the entries, for any caps and routes: no path through record,
\* evicting, counting or failing to emit, lets them drift.
THEOREM CountersCorrect == Spec => []CountersAgree
<1> QED
  BY TypeCorrect, HistoryCorrect, CountersInit, CountersStep, CountersEnough, PTL DEF Spec

----------------------------------------------------------------------------
(* The sink, step by step.                                                  *)

\* What the sink was told of entries stays told.
ToldStays == Recorded' = Recorded /\ \A i \in Recorded : sink'[i] = sink[i]

LEMMA RecordedType ==
    ASSUME TypeOK
    PROVE  /\ sink \in Seq(SinkEvent) /\ Len(sink) \in Nat
           /\ Recorded \subseteq 1..Len(sink)
           /\ \A i \in 1..Len(sink) : sink[i] \in SinkEvent /\ sink[i].number \in Nat
<1>1. sink \in Seq(SinkEvent)
  BY DEF TypeOK, OutputOK
<1>2. \A i \in 1..Len(sink) : sink[i] \in SinkEvent
  BY <1>1
<1>3. \A e \in SinkEvent : e.number \in Nat
  BY DEF SinkEvent
<1> QED
  BY <1>1, <1>2, <1>3 DEF Recorded

\* An event of another kind joins the sink.
LEMMA OtherEvent ==
    ASSUME TypeOK, NEW e \in SinkEvent, e.kind # "Recorded", sink' = Append(sink, e)
    PROVE  /\ ToldStays /\ Len(sink') = Len(sink) + 1 /\ sink'[Len(sink) + 1] = e
           /\ \A i \in 1..Len(sink) : sink'[i] = sink[i]
<1>0. sink \in Seq(SinkEvent)
  BY RecordedType
<1>1. /\ Len(sink') = Len(sink) + 1 /\ sink'[Len(sink) + 1] = e
      /\ \A i \in 1..Len(sink) : sink'[i] = sink[i]
  BY <1>0
<1> QED
  BY <1>0, <1>1 DEF ToldStays, Recorded

LEMMA ToldStaysTold ==
    ASSUME TypeOK, HistoryIsTheNewest, RecordsNewest, NumbersOK, SinkCountsOK,
           ToldStays, ToldUpTo' \in {ToldUpTo, ToldUpTo + 1},
           NEW e, everything' \in {everything, Append(everything, e)}
    PROVE  /\ NumbersOK' /\ SinkCountsOK' /\ Heard' = Heard /\ Dropped' = Dropped
           /\ \A i \in Recorded :
                 /\ sink'[i].number = sink[i].number
                 /\ AtBareRoot(sink[i].number)' <=> AtBareRoot(sink[i].number)
<1>0. everything \in Seq(Entry) /\ ToldUpTo \in 0..Len(everything) /\ last = Len(everything)
  BY CountedIsRecorded DEF TypeOK, HistoryOK, HistoryIsTheNewest
<1>1. \A n \in 1..Len(everything) : everything'[n] = everything[n]
  BY <1>0
<1>2. \A i \in Recorded : sink[i].number \in 1..Len(everything) /\ sink'[i].number = sink[i].number
  BY <1>0 DEF NumbersOK, ToldStays
<1>3. NumbersOK'
  BY <1>0 DEF NumbersOK, ToldStays
<1>4. SinkCountsOK'
  <2> SUFFICES ASSUME NEW i \in Recorded
               PROVE  sink'[i].count = Cardinality(DeliveriesUpTo(sink[i].number)')
    BY DEF SinkCountsOK, ToldStays
  <2>1. DeliveriesUpTo(sink[i].number)' = DeliveriesUpTo(sink[i].number)
    BY <1>0, <1>1, <1>2 DEF DeliveriesUpTo
  <2> QED
    BY <2>1 DEF SinkCountsOK, ToldStays
<1>5. Heard' = Heard /\ Dropped' = Dropped
  BY DEF Heard, Dropped, ToldStays
<1>6. \A i \in Recorded : AtBareRoot(sink[i].number)' <=> AtBareRoot(sink[i].number)
  BY <1>1, <1>2 DEF AtBareRoot
<1> QED
  BY <1>2, <1>3, <1>4, <1>5, <1>6

\* A step that tells the sink nothing, and hints at nothing.
LEMMA QuietEvents ==
    ASSUME TypeOK, HistoryIsTheNewest, RecordsNewest, NumbersOK, SinkCountsOK, HintsInOrder,
           UNCHANGED <<sink, rootHinted>>, ToldUpTo' \in {ToldUpTo, ToldUpTo + 1},
           NEW e, everything' \in {everything, Append(everything, e)}
    PROVE  /\ NumbersOK' /\ SinkCountsOK' /\ HintsInOrder'
           /\ Heard' = Heard /\ Dropped' = Dropped
<1>1. ToldStays
  BY DEF ToldStays, Recorded
<1>2. /\ NumbersOK' /\ SinkCountsOK' /\ Heard' = Heard /\ Dropped' = Dropped
      /\ \A i \in Recorded : AtBareRoot(sink[i].number)' <=> AtBareRoot(sink[i].number)
  BY <1>1, ToldStaysTold
<1>3. HintsInOrder'
  <2>1. Recorded' = Recorded /\ sink' = sink /\ rootHinted' = rootHinted
    BY <1>1 DEF ToldStays
  <2>2. ASSUME NEW i \in 1..Len(sink), sink[i].kind = "RootNotFound"
        PROVE  /\ i - 1 \in Recorded
               /\ sink[i - 1].number = sink[i].number
               /\ AtBareRoot(sink[i].number)'
               /\ \A j \in Recorded : j < i - 1 => ~ AtBareRoot(sink[j].number)'
    <3>1. /\ i - 1 \in Recorded /\ sink[i - 1].number = sink[i].number
          /\ AtBareRoot(sink[i - 1].number)
          /\ \A j \in Recorded : j < i - 1 => ~ AtBareRoot(sink[j].number)
      BY <2>2 DEF HintsInOrder
    <3>2. AtBareRoot(sink[i - 1].number)'
      BY <1>2, <3>1
    <3>3. AtBareRoot(sink[i].number)'
      BY <2>1, <3>1, <3>2 DEF AtBareRoot
    <3> QED
      BY <1>2, <3>1, <3>3
  <2>3. \A i \in 1..Len(sink) : sink[i].kind = "TestHint" =>
           i > 1 /\ sink[i - 1].kind = "Ready" /\ \A j \in Recorded : j > i
    BY DEF HintsInOrder
  <2>4. rootHinted <=> \E i \in Recorded : AtBareRoot(sink[i].number)'
    BY <1>2 DEF HintsInOrder
  <2> QED
    BY <2>1, <2>2, <2>3, <2>4 DEF HintsInOrder
<1> QED
  BY <1>2, <1>3

LEMMA EventsInit == Init => EventsInv
<1> SUFFICES ASSUME Init PROVE EventsInv
  OBVIOUS
<1>1. Recorded = {} /\ Len(sink) = 0
  BY DEF Init, Recorded
<1>2. ToldUpTo = 0 /\ ~ Untold /\ First = 1
  BY DEF Init, ToldUpTo, Untold, First
<1>3. Heard = {} /\ Dropped = {}
  BY <1>1 DEF Heard, Dropped
<1> QED
  BY <1>1, <1>2, <1>3 DEF Init, EventsInv, NumbersOK, SinkCountsOK, DropsOK, HintsInOrder, HintOK

\* The sink only changes by these.
LEMMA SinkSteps ==
    ASSUME [Next]_vars
    PROVE  \/ UNCHANGED sink
           \/ \E kind \in {"Ready", "ConnectionLost"} : Emit(kind)
           \/ \E t \in Threads : RecordEmit(t) \/ RecordHint(t)
BY DEF Next, vars, Handle, Replay, ReplayLast, ReplayRead, Fetch, SendTest, PostReturns,
       PostArrives, Forward, Record, RecordAdd, RecordEvict, RecordCount

LEMMA EventsRest ==
    ASSUME TypeOK, HistoryIsTheNewest, RecordsNewest, EventsInv, RecordRests, UNCHANGED sink
    PROVE  EventsInv'
<1>1. UNCHANGED <<entries, last, evicted, everything, rootHinted>>
  BY DEF RecordRests, history
<1>2. UNCHANGED <<Untold, ToldUpTo>>
  BY LagsRest
<1>3. /\ NumbersOK' /\ SinkCountsOK' /\ HintsInOrder'
      /\ Heard' = Heard /\ Dropped' = Dropped
  BY <1>1, <1>2, QuietEvents DEF EventsInv
<1>4. DropsOK'
  BY <1>1, <1>2, <1>3 DEF EventsInv, DropsOK, First
<1>5. HintOK'
  BY <1>1 DEF EventsInv, HintOK, RecordRests, Critical, Recorded, AtBareRoot
<1> QED
  BY <1>3, <1>4, <1>5 DEF EventsInv

\* record's steps before it emits.
LEMMA EventsUntilEmit ==
    ASSUME TypeOK, HistoryIsTheNewest, RecordsNewest, EventsInv, NEW t \in Threads,
           RecordAdd(t) \/ RecordEvict(t) \/ RecordCount(t)
    PROVE  EventsInv'
<1>0. /\ last = Len(everything) /\ last \in Nat /\ entries \in Seq(Entry)
      /\ Len(entries) <= last /\ evicted \in Seq(Nat) /\ pc \in [Threads -> PcStates]
  BY DEF TypeOK, HistoryOK, HistoryIsTheNewest, LockOK
<1>1. UNCHANGED <<sink, rootHinted>>
  BY DEF RecordAdd, RecordEvict, RecordCount
<1>2. PICK e : everything' \in {everything, Append(everything, e)}
  BY DEF RecordAdd, RecordEvict, RecordCount, history
<1>3. UNCHANGED ToldUpTo
  <2>1. CASE RecordAdd(t)
    BY <1>0, <2>1, ThreadAssumption DEF RecordAdd, CanLock, ToldUpTo, Untold, Goto
  <2>2. CASE RecordEvict(t)
    BY <2>2 DEF RecordEvict, ToldUpTo, Untold
  <2>3. CASE RecordCount(t)
    <3>1. mu = t /\ mu # Free
      BY <2>3, ThreadAssumption DEF RecordCount, TypeOK, LockOK, Locked, Critical
    <3> QED
      BY <1>0, <2>3, <3>1 DEF RecordCount, ToldUpTo, Untold, Goto, history
  <2> QED
    BY <2>1, <2>2, <2>3
<1>4. /\ NumbersOK' /\ SinkCountsOK' /\ HintsInOrder'
      /\ Heard' = Heard /\ Dropped' = Dropped
  BY <1>1, <1>2, <1>3, QuietEvents DEF EventsInv
<1>5. HintOK'
  <2>1. \A u \in Threads : pc'[u] # "hint"
    <3>1. \A u \in Threads : pc[u] = "hint" => u = t
      BY ThreadAssumption DEF RecordAdd, RecordEvict, RecordCount, CanLock, TypeOK, LockOK, Locked, Critical
    <3> QED
      BY <1>0, <3>1 DEF RecordAdd, RecordEvict, RecordCount, Goto
  <2> QED
    BY <2>1 DEF HintOK
<1>6. DropsOK'
  <2>1. CASE RecordAdd(t)
    <3>1. ~ Untold /\ Untold'
      BY <1>0, <2>1, ThreadAssumption DEF RecordAdd, CanLock, Untold, Goto
    <3>2. evicted' = <<>> /\ First' = First
      BY <1>0, <2>1 DEF RecordAdd, First
    <3>3. Range(evicted') = {}
      BY <3>2 DEF Range
    <3> QED
      BY <1>3, <1>4, <3>1, <3>2, <3>3 DEF EventsInv, DropsOK
  <2>2. CASE RecordEvict(t)
    <3>1. Untold /\ Untold'
      BY <2>2, ThreadAssumption DEF RecordEvict, Untold, TypeOK, LockOK, Locked, Critical
    <3>2. First' = First + 1 /\ First \in 1..last
      <4>1. Len(entries) > 1 /\ Len(entries') = Len(entries) - 1 /\ last' = last
        BY <1>0, <2>2 DEF RecordEvict, OverCaps
      <4>2. First' = last' - Len(entries') + 1 /\ First = last - Len(entries) + 1
        BY DEF First
      <4> QED
        BY <1>0, <4>1, <4>2
    <3>3. evicted' = Append(evicted, First)
      <4>1. Head(entries) = Get(First)
        BY <1>0, <2>2 DEF RecordEvict, OverCaps, Get, First
      <4> QED
        BY <2>2, <3>2, <4>1 DEF RecordEvict, HistoryIsTheNewest
    <3>4. Range(evicted') = Range(evicted) \cup {First}
      <4>1. /\ DOMAIN evicted' = 1..(Len(evicted) + 1) /\ DOMAIN evicted = 1..Len(evicted)
            /\ evicted'[Len(evicted) + 1] = First /\ Len(evicted) \in Nat
            /\ \A i \in 1..Len(evicted) : evicted'[i] = evicted[i]
        BY <1>0, <3>2, <3>3
      <4> QED
        BY <4>1 DEF Range
    <3>5. 1..(First' - 1) = 1..(First - 1) \cup {First}
      BY <3>2
    <3> QED
      BY <1>3, <1>4, <3>1, <3>4, <3>5 DEF EventsInv, DropsOK
  <2>3. CASE RecordCount(t)
    <3>1. mu = t /\ mu # Free
      BY <2>3, ThreadAssumption DEF RecordCount, TypeOK, LockOK, Locked, Critical
    <3>2. Untold /\ Untold'
      BY <1>0, <2>3, <3>1 DEF RecordCount, Untold, Goto
    <3>3. UNCHANGED <<evicted, entries, last>>
      BY <2>3 DEF RecordCount, history
    <3> QED
      BY <1>3, <1>4, <3>2, <3>3 DEF EventsInv, DropsOK, First
  <2> QED
    BY <2>1, <2>2, <2>3
<1> QED
  BY <1>4, <1>5, <1>6 DEF EventsInv

\* A connection event, and the test hint with it.
LEMMA EventsConnection ==
    ASSUME TypeOK, HistoryIsTheNewest, RecordsNewest, EventsInv,
           NEW kind \in {"Ready", "ConnectionLost"}, Emit(kind)
    PROVE  EventsInv'
<1>0. /\ mu = Free /\ pc \in [Threads -> PcStates]
      /\ UNCHANGED <<mu, entries, bytes, last, evicted, everything, rootHinted>>
  BY DEF Emit, CanLock, TypeOK, LockOK, history
<1>1. UNCHANGED ToldUpTo /\ ~ Untold /\ ~ Untold' /\ ToldUpTo = last
  BY <1>0 DEF ToldUpTo, Untold
<1>2. \A u \in Threads : pc'[u] # "hint"
  <2>1. \A u \in Threads : pc[u] # "hint"
    BY <1>0, ThreadAssumption DEF TypeOK, LockOK, Locked, Critical
  <2> QED
    BY <1>0, <2>1 DEF Emit, Goto
<1>3. /\ Plain(kind) \in SinkEvent /\ Plain("TestHint") \in SinkEvent
      /\ Plain(kind).kind = kind /\ Plain("TestHint").kind = "TestHint"
  BY DEF Plain, Event, SinkEvent
<1>4. PICK tail \in {<<>>, <<Plain("TestHint")>>} :
        /\ sink' = sink \/ sink' = Append(sink, Plain(kind)) \o tail
        /\ tail # <<>> => kind = "Ready" /\ last = 0
  BY DEF Emit
<1>5. /\ sink \in Seq(SinkEvent) /\ Len(sink) \in Nat /\ Recorded \subseteq 1..Len(sink)
  BY RecordedType
<1>6. /\ \A i \in 1..Len(sink) : sink'[i] = sink[i]
      /\ Len(sink') \in Len(sink)..(Len(sink) + 2)
      /\ Len(sink') > Len(sink) => sink'[Len(sink) + 1] = Plain(kind)
      /\ Len(sink') > Len(sink) + 1 =>
            sink'[Len(sink) + 2] = Plain("TestHint") /\ kind = "Ready" /\ last = 0
  <2>1. CASE sink' = sink
    BY <1>5, <2>1
  <2>2. CASE sink' = Append(sink, Plain(kind)) \o <<>>
    BY <1>3, <1>5, <2>2
  <2>3. CASE /\ sink' = Append(sink, Plain(kind)) \o <<Plain("TestHint")>>
             /\ kind = "Ready" /\ last = 0
    BY <1>3, <1>5, <2>3
  <2> QED
    BY <1>4, <2>1, <2>2, <2>3
<1>7. ToldStays
  BY <1>3, <1>5, <1>6 DEF ToldStays, Recorded
<1>8. /\ NumbersOK' /\ SinkCountsOK' /\ Heard' = Heard /\ Dropped' = Dropped
      /\ \A i \in Recorded : AtBareRoot(sink[i].number)' <=> AtBareRoot(sink[i].number)
      /\ \A i \in Recorded : sink'[i].number = sink[i].number
  BY <1>0, <1>1, <1>7, ToldStaysTold DEF EventsInv
<1>9. DropsOK'
  BY <1>0, <1>1, <1>8 DEF EventsInv, DropsOK, First
<1>10. HintOK'
  BY <1>2 DEF HintOK
<1>11. last = 0 => Recorded = {}
  BY <1>1 DEF EventsInv, NumbersOK
<1>12. HintsInOrder'
  <2>1. ASSUME NEW i \in 1..Len(sink'), sink'[i].kind = "RootNotFound"
        PROVE  /\ i - 1 \in Recorded
               /\ sink'[i - 1].number = sink'[i].number
               /\ AtBareRoot(sink[i].number)'
               /\ \A j \in Recorded : j < i - 1 => ~ AtBareRoot(sink[j].number)'
    <3>1. i \in 1..Len(sink)
      BY <1>3, <1>5, <1>6, <2>1
    <3>2. /\ i - 1 \in Recorded /\ sink[i - 1].number = sink[i].number
          /\ AtBareRoot(sink[i - 1].number)
          /\ \A j \in Recorded : j < i - 1 => ~ AtBareRoot(sink[j].number)
      BY <1>6, <2>1, <3>1 DEF HintsInOrder, EventsInv
    <3>3. sink'[i] = sink[i] /\ sink'[i - 1] = sink[i - 1]
      BY <1>5, <1>6, <3>1, <3>2
    <3> QED
      BY <1>8, <3>2, <3>3 DEF AtBareRoot
  <2>2. ASSUME NEW i \in 1..Len(sink'), sink'[i].kind = "TestHint"
        PROVE  i > 1 /\ sink'[i - 1].kind = "Ready" /\ \A j \in Recorded : j > i
    <3>1. CASE i \in 1..Len(sink)
      <4>1. i > 1 /\ sink[i - 1].kind = "Ready" /\ \A j \in Recorded : j > i
        BY <1>6, <2>2, <3>1 DEF HintsInOrder, EventsInv
      <4> QED
        BY <1>5, <1>6, <3>1, <4>1
    <3>2. CASE i \notin 1..Len(sink)
      <4>1. i = Len(sink) + 2 /\ Len(sink') > Len(sink) + 1
        BY <1>3, <1>5, <1>6, <2>2, <3>2
      <4> QED
        BY <1>3, <1>5, <1>6, <1>11, <4>1
    <3> QED
      BY <3>1, <3>2
  <2>3. rootHinted' <=> \E i \in Recorded : AtBareRoot(sink[i].number)'
    BY <1>0, <1>8 DEF HintsInOrder, EventsInv
  <2>4. Recorded' = Recorded /\ \A i \in Recorded : sink'[i] = sink[i]
    BY <1>7 DEF ToldStays
  <2> QED
    BY <2>1, <2>2, <2>3, <2>4 DEF HintsInOrder
<1> QED
  BY <1>8, <1>9, <1>10, <1>12 DEF EventsInv

\* Who emits or hints holds the mutex and the newest entry, which is counted.
LEMMA EmitsNewest ==
    ASSUME TypeOK, HistoryIsTheNewest, CountersInv, NEW t \in Threads,
           pc[t] \in {"emit", "hint"}
    PROVE  /\ mu = t /\ mu # Free /\ last \in Nat \ {0}
           /\ \A u \in Threads : Locked(u) => u = t
           /\ work[t] = everything[last] /\ work[t].number = last /\ work[t] \in Entry
           /\ totals.count = Cardinality(DeliveriesUpTo(last))
           /\ ToldUpTo = IF pc[t] = "emit" THEN last - 1 ELSE last
           /\ Untold <=> pc[t] = "emit"
<1>1. Locked(t)
  BY DEF Locked, Critical
<1>2. /\ mu = t /\ mu # Free /\ (\A u \in Threads : Locked(u) => u = t)
      /\ ~ Uncounted /\ (Untold <=> pc[t] = "emit")
  BY <1>1, LagsInRecord
<1>3. last \in Nat \ {0} /\ work[t] = everything[last]
  BY <1>1 DEF CountersInv, RecordsNewest, TypeOK, HistoryOK
<1>4. work[t].number = last /\ work[t] \in Entry
  BY <1>3 DEF HistoryIsTheNewest, TypeOK, HistoryOK
<1>5. totals.count = Cardinality(DeliveriesIn(last, Entry))
  BY <1>2 DEF CountersInv, CountersOK, CountedUpTo, CountOf
<1>6. DeliveriesIn(last, Entry) = DeliveriesUpTo(last)
  BY <1>3 DEF DeliveriesIn, DeliveriesUpTo, HistoryIsTheNewest, TypeOK, HistoryOK
<1> QED
  BY <1>2, <1>3, <1>4, <1>5, <1>6 DEF ToldUpTo

\* The sink refuses: the entry, or its hint, is missed.
LEMMA EventsRefused ==
    ASSUME TypeOK, HistoryIsTheNewest, CountersInv, EventsInv, NEW t \in Threads,
           pc[t] \in {"emit", "hint"}, Return(t, FALSE), UNCHANGED <<sink, rootHinted, history>>
    PROVE  EventsInv'
<1>0. /\ last \in Nat \ {0} /\ (ToldUpTo = IF pc[t] = "emit" THEN last - 1 ELSE last)
      /\ (Untold <=> pc[t] = "emit") /\ pc \in [Threads -> PcStates] /\ mu' = Free
      /\ \A u \in Threads : Locked(u) => u = t
  BY EmitsNewest DEF Return, Unlock, TypeOK, LockOK
<1>1. ~ Untold' /\ ToldUpTo' = last
  BY <1>0 DEF Untold, ToldUpTo, history
<1>2. RecordsNewest /\ UNCHANGED <<everything, entries, last>>
  BY DEF CountersInv, history
<1>3. /\ NumbersOK' /\ SinkCountsOK' /\ HintsInOrder'
      /\ Heard' = Heard /\ Dropped' = Dropped
  BY <1>0, <1>1, <1>2, QuietEvents DEF EventsInv
<1>4. DropsOK'
  <2>1. CASE pc[t] = "emit"
    <3>1. last \notin Heard
      BY <1>0, <2>1 DEF EventsInv, NumbersOK, Heard
    <3> QED
      BY <1>0, <1>1, <1>3, <3>1 DEF DropsOK
  <2>2. CASE pc[t] = "hint"
    BY <1>0, <1>1, <1>2, <1>3, <2>2 DEF EventsInv, DropsOK, First
  <2> QED
    BY <2>1, <2>2
<1>5. HintOK'
  <2>1. \A u \in Threads : pc'[u] # "hint"
    BY <1>0 DEF Return, Goto, Locked, Critical
  <2> QED
    BY <2>1 DEF HintOK
<1> QED
  BY <1>3, <1>4, <1>5 DEF EventsInv

\* The sink takes the entry.
LEMMA EventsEmitted ==
    ASSUME TypeOK, HistoryIsTheNewest, CountersInv, EventsInv, NEW t \in Threads,
           pc[t] = "emit", UNCHANGED history,
           sink' = Append(sink, Event("Recorded", work[t].number, evicted, totals.count)),
           IF HintDue(work[t])
             THEN rootHinted' = TRUE /\ Goto(t, "hint") /\ UNCHANGED mu
             ELSE Return(t, TRUE) /\ UNCHANGED rootHinted
    PROVE  EventsInv'
<1>a. PICK new : new = Len(sink) + 1
  OBVIOUS
<1>b. PICK told : told = Event("Recorded", work[t].number, evicted, totals.count)
  OBVIOUS
<1>0. /\ last \in Nat \ {0} /\ ToldUpTo = last - 1 /\ Untold
      /\ pc \in [Threads -> PcStates] /\ mu = t /\ mu # Free
      /\ \A u \in Threads : Locked(u) => u = t
      /\ work[t] = everything[last] /\ work[t].number = last
      /\ totals.count = Cardinality(DeliveriesUpTo(last))
  BY EmitsNewest DEF TypeOK, LockOK
<1>1. /\ told.kind = "Recorded" /\ told.number = last /\ told.evicted = evicted
      /\ told.count = Cardinality(DeliveriesUpTo(last))
  BY <1>0, <1>b DEF Event
<1>2. UNCHANGED <<everything, entries, last, evicted>>
  BY DEF history
<1>3. ~ Untold' /\ ToldUpTo' = last
  BY <1>0, <1>2 DEF Untold, ToldUpTo, Return, Unlock, Goto
<1>4. /\ sink \in Seq(SinkEvent) /\ Len(sink) \in Nat /\ Recorded \subseteq 1..Len(sink)
  BY RecordedType
<1>5. sink' = Append(sink, told)
  BY <1>b
<1>6. /\ Len(sink') = new /\ sink'[new] = told
      /\ \A i \in 1..Len(sink) : sink'[i] = sink[i]
  BY <1>4, <1>5, <1>a
<1>7. Recorded' = Recorded \cup {new}
  BY <1>1, <1>4, <1>6, <1>a DEF Recorded
<1>8. \A i \in Recorded : i < new /\ sink'[i] = sink[i] /\ sink[i].number \in 1..(last - 1)
  BY <1>0, <1>4, <1>6, <1>a DEF EventsInv, NumbersOK
<1>c. last \in Nat /\ last > 0
  BY <1>0
<1>e. \A n \in 1..(last - 1) : n < last /\ n \in 1..last
  BY <1>c
<1>f. last \in 1..last
  BY <1>c
<1>d. sink'[new].number = last /\ sink'[new].evicted = evicted
  BY <1>1, <1>6
<1>9. NumbersOK'
  <2>1. \A i \in Recorded' : sink'[i].number \in 1..last
    BY <1>7, <1>8, <1>d, <1>e, <1>f, Zenon
  <2>2. ASSUME NEW i \in Recorded', NEW j \in Recorded', i < j
        PROVE  sink'[i].number < sink'[j].number
    <3>1. i \in Recorded /\ sink'[i] = sink[i] /\ sink[i].number \in 1..(last - 1)
      BY <1>4, <1>7, <1>8, <1>a, <2>2
    <3>2. CASE j = new
      BY <1>d, <1>e, <3>1, <3>2, Zenon
    <3>3. CASE j \in Recorded
      BY <1>8, <2>2, <3>1, <3>3 DEF EventsInv, NumbersOK
    <3> QED
      BY <1>7, <3>2, <3>3
  <2> QED
    BY <1>3, <2>1, <2>2 DEF NumbersOK
<1>10. SinkCountsOK'
  <2>1. \A n : DeliveriesUpTo(n)' = DeliveriesUpTo(n)
    BY <1>2 DEF DeliveriesUpTo
  <2>2. ASSUME NEW i \in Recorded' PROVE sink'[i].count = Cardinality(DeliveriesUpTo(sink[i].number)')
    <3>1. PICK n : n = sink'[i].number
      OBVIOUS
    <3>2. sink'[i].count = Cardinality(DeliveriesUpTo(n))
      BY <1>1, <1>6, <1>7, <1>8, <2>2, <3>1 DEF EventsInv, SinkCountsOK
    <3> QED
      BY <1>2, <3>1, <3>2 DEF DeliveriesUpTo
  <2> QED
    BY <2>2 DEF SinkCountsOK
<1>11. DropsOK'
  <2>1. Heard' = Heard \cup {last} /\ Heard \subseteq 1..(last - 1)
    BY <1>7, <1>8, <1>d DEF Heard
  <2>2. Dropped' = Dropped \cup Range(evicted)
    BY <1>7, <1>8, <1>d DEF Dropped
  <2>3. Heard' = 1..last => Heard = 1..ToldUpTo
    <3>1. 1..last = (1..(last - 1)) \cup {last} /\ last \notin 1..(last - 1)
      BY <1>c
    <3>2. ToldUpTo = last - 1
      BY <1>0
    <3> QED
      BY <2>1, <3>1, <3>2
  <2> QED
    BY <1>0, <1>2, <1>3, <2>2, <2>3 DEF EventsInv, DropsOK, First
<1>12. \A i \in Recorded : AtBareRoot(sink[i].number)' <=> AtBareRoot(sink[i].number)
  BY <1>2, <1>8 DEF AtBareRoot
<1>13. AtBareRoot(sink[new].number)' <=> AtBareRoot(last)
  BY <1>1, <1>2, <1>6 DEF AtBareRoot
<1>14. HintDue(work[t]) <=> ~ rootHinted /\ AtBareRoot(last)
  BY <1>0 DEF HintDue, AtBareRoot
<1>15. rootHinted <=> \E i \in Recorded : AtBareRoot(sink[i].number)
  BY DEF EventsInv, HintsInOrder
<1>16. HintsInOrder'
  <2>1. ASSUME NEW i \in 1..Len(sink'), sink'[i].kind = "RootNotFound"
        PROVE  /\ i - 1 \in Recorded'
               /\ sink'[i - 1].number = sink'[i].number
               /\ AtBareRoot(sink[i].number)'
               /\ \A j \in Recorded' : j < i - 1 => ~ AtBareRoot(sink[j].number)'
    <3>1. i \in 1..Len(sink)
      BY <1>1, <1>4, <1>6, <1>a, <2>1
    <3>2. /\ i - 1 \in Recorded /\ sink[i - 1].number = sink[i].number
          /\ AtBareRoot(sink[i - 1].number)
          /\ \A j \in Recorded : j < i - 1 => ~ AtBareRoot(sink[j].number)
      BY <1>6, <2>1, <3>1 DEF HintsInOrder, EventsInv
    <3>3. sink'[i] = sink[i] /\ sink'[i - 1] = sink[i - 1]
      BY <1>6, <1>8, <3>1, <3>2
    <3>4. AtBareRoot(sink[i].number)'
      BY <1>2, <3>2, <3>3 DEF AtBareRoot
    <3> QED
      BY <1>4, <1>7, <1>12, <1>a, <3>1, <3>2, <3>3, <3>4
  <2>2. ASSUME NEW i \in 1..Len(sink'), sink'[i].kind = "TestHint"
        PROVE  i > 1 /\ sink'[i - 1].kind = "Ready" /\ \A j \in Recorded' : j > i
    <3>1. i \in 1..Len(sink)
      BY <1>1, <1>4, <1>6, <1>a, <2>2
    <3>2. i > 1 /\ sink[i - 1].kind = "Ready" /\ \A j \in Recorded : j > i
      BY <1>6, <2>2, <3>1 DEF HintsInOrder, EventsInv
    <3> QED
      BY <1>4, <1>6, <1>7, <1>a, <3>1, <3>2
  <2>3. rootHinted' <=> \E i \in Recorded' : AtBareRoot(sink[i].number)'
    BY <1>7, <1>12, <1>13, <1>14, <1>15
  <2> QED
    BY <2>1, <2>2, <2>3 DEF HintsInOrder
<1>17. HintOK'
  <2>1. \A u \in Threads : pc'[u] = "hint" => u = t /\ HintDue(work[t])
    BY <1>0 DEF Return, Goto, Locked, Critical
  <2> SUFFICES ASSUME HintDue(work[t])
               PROVE  /\ new \in Recorded' /\ sink'[new].number = last /\ AtBareRoot(last)'
                      /\ \A j \in Recorded' : j < new => ~ AtBareRoot(sink[j].number)'
    BY <1>2, <1>6, <2>1 DEF HintOK
  <2>2. AtBareRoot(last)'
    BY <1>2, <1>14 DEF AtBareRoot
  <2> QED
    BY <1>1, <1>4, <1>6, <1>7, <1>8, <1>12, <1>14, <1>15, <1>a, <2>2
<1> QED
  BY <1>9, <1>10, <1>11, <1>16, <1>17 DEF EventsInv

\* The sink takes the hint.
LEMMA EventsHinted ==
    ASSUME TypeOK, HistoryIsTheNewest, CountersInv, EventsInv, NEW t \in Threads,
           pc[t] = "hint", UNCHANGED <<history, rootHinted>>, Return(t, TRUE),
           sink' = Append(sink, Event("RootNotFound", work[t].number, <<>>, 0))
    PROVE  EventsInv'
<1>a. PICK new : new = Len(sink) + 1
  OBVIOUS
<1>b. PICK told : told = Event("RootNotFound", work[t].number, <<>>, 0)
  OBVIOUS
<1>0. /\ last \in Nat \ {0} /\ ToldUpTo = last /\ ~ Untold
      /\ pc \in [Threads -> PcStates] /\ mu' = Free
      /\ \A u \in Threads : Locked(u) => u = t
      /\ work[t].number = last /\ work[t] \in Entry
  BY EmitsNewest DEF Return, Unlock, TypeOK, LockOK
<1>1. told \in SinkEvent /\ told.kind = "RootNotFound" /\ told.number = last
  BY <1>0, <1>b DEF Event, SinkEvent
<1>2. UNCHANGED <<everything, entries, last, evicted>>
  BY DEF history
<1>3. ~ Untold' /\ UNCHANGED ToldUpTo
  BY <1>0, <1>2 DEF Untold, ToldUpTo
<1>4. /\ sink \in Seq(SinkEvent) /\ Len(sink) \in Nat /\ Recorded \subseteq 1..Len(sink)
  BY RecordedType
<1>5. /\ ToldStays /\ Len(sink') = new /\ sink'[new] = told
      /\ \A i \in 1..Len(sink) : sink'[i] = sink[i]
  BY <1>1, <1>a, <1>b, OtherEvent
<1>6. RecordsNewest
  BY DEF CountersInv
<1>7. /\ NumbersOK' /\ SinkCountsOK' /\ Heard' = Heard /\ Dropped' = Dropped
      /\ \A i \in Recorded : AtBareRoot(sink[i].number)' <=> AtBareRoot(sink[i].number)
      /\ \A i \in Recorded : sink'[i].number = sink[i].number
  BY <1>2, <1>3, <1>5, <1>6, ToldStaysTold DEF EventsInv
<1>8. DropsOK'
  BY <1>0, <1>2, <1>3, <1>7 DEF EventsInv, DropsOK, First
<1>9. HintOK'
  <2>1. \A u \in Threads : pc'[u] # "hint"
    BY <1>0 DEF Return, Goto, Locked, Critical
  <2> QED
    BY <2>1 DEF HintOK
<1>10. Recorded' = Recorded /\ \A i \in Recorded : sink'[i] = sink[i]
  BY <1>5 DEF ToldStays
<1>11. HintsInOrder'
  <2>1. ASSUME NEW i \in 1..Len(sink'), sink'[i].kind = "RootNotFound"
        PROVE  /\ i - 1 \in Recorded
               /\ sink'[i - 1].number = sink'[i].number
               /\ AtBareRoot(sink[i].number)'
               /\ \A j \in Recorded : j < i - 1 => ~ AtBareRoot(sink[j].number)'
    <3>1. CASE i = new
      <4>1. /\ Len(sink) \in Recorded /\ sink[Len(sink)].number = last /\ AtBareRoot(last)
            /\ \A j \in Recorded : j < Len(sink) => ~ AtBareRoot(sink[j].number)
        BY DEF EventsInv, HintOK
      <4>2. i - 1 = Len(sink)
        BY <1>4, <1>a, <3>1
      <4>3. sink'[i - 1].number = last /\ sink'[i].number = last
        BY <1>1, <1>5, <1>7, <3>1, <4>1, <4>2
      <4>4. AtBareRoot(sink[i].number)'
        BY <1>2, <4>1, <4>3 DEF AtBareRoot
      <4> QED
        BY <1>7, <4>1, <4>2, <4>3, <4>4
    <3>2. CASE i \in 1..Len(sink)
      <4>1. /\ i - 1 \in Recorded /\ sink[i - 1].number = sink[i].number
            /\ AtBareRoot(sink[i - 1].number)
            /\ \A j \in Recorded : j < i - 1 => ~ AtBareRoot(sink[j].number)
        BY <1>5, <2>1, <3>2 DEF HintsInOrder, EventsInv
      <4>2. sink'[i] = sink[i] /\ sink'[i - 1] = sink[i - 1]
        BY <1>5, <1>10, <3>2, <4>1
      <4>3. AtBareRoot(sink[i].number)'
        BY <1>2, <4>1, <4>2 DEF AtBareRoot
      <4> QED
        BY <1>7, <4>1, <4>2, <4>3
    <3>3. i = new \/ i \in 1..Len(sink)
      BY <1>4, <1>5, <1>a
    <3> QED
      BY <3>1, <3>2, <3>3
  <2>2. ASSUME NEW i \in 1..Len(sink'), sink'[i].kind = "TestHint"
        PROVE  i > 1 /\ sink'[i - 1].kind = "Ready" /\ \A j \in Recorded : j > i
    <3>1. i \in 1..Len(sink)
      BY <1>1, <1>4, <1>5, <1>a, <2>2
    <3>2. i > 1 /\ sink[i - 1].kind = "Ready" /\ \A j \in Recorded : j > i
      BY <1>5, <2>2, <3>1 DEF HintsInOrder, EventsInv
    <3> QED
      BY <1>4, <1>5, <3>1, <3>2
  <2>3. rootHinted' <=> \E i \in Recorded : AtBareRoot(sink[i].number)'
    BY <1>7 DEF HintsInOrder, EventsInv
  <2> QED
    BY <1>10, <2>1, <2>2, <2>3 DEF HintsInOrder
<1> QED
  BY <1>7, <1>8, <1>9, <1>11 DEF EventsInv

LEMMA EventsStep ==
    TypeOK /\ HistoryIsTheNewest /\ CountersInv /\ EventsInv /\ [Next]_vars => EventsInv'
<1> SUFFICES ASSUME TypeOK, HistoryIsTheNewest, CountersInv, EventsInv, [Next]_vars
             PROVE  EventsInv'
  OBVIOUS
<1>0. RecordsNewest
  BY DEF CountersInv
<1>1. ASSUME NEW kind \in {"Ready", "ConnectionLost"}, Emit(kind) PROVE EventsInv'
  BY <1>0, <1>1, EventsConnection
<1>2. ASSUME NEW t \in Threads, RecordEmit(t) PROVE EventsInv'
  <2>1. CASE Return(t, FALSE) /\ UNCHANGED <<sink, rootHinted>>
    BY <1>2, <2>1, EventsRefused DEF RecordEmit
  <2>2. CASE /\ sink' = Append(sink, Event("Recorded", work[t].number, evicted, totals.count))
             /\ IF HintDue(work[t])
                THEN rootHinted' = TRUE /\ Goto(t, "hint") /\ UNCHANGED mu
                ELSE Return(t, TRUE) /\ UNCHANGED rootHinted
    BY <1>2, <2>2, EventsEmitted DEF RecordEmit
  <2> QED
    BY <1>2, <2>1, <2>2 DEF RecordEmit
<1>3. ASSUME NEW t \in Threads, RecordHint(t) PROVE EventsInv'
  BY <1>3, EventsRefused, EventsHinted DEF RecordHint
<1>4. CASE UNCHANGED sink /\ RecordRests
  BY <1>0, <1>4, EventsRest
<1>5. ASSUME NEW t \in Threads, RecordAdd(t) \/ RecordEvict(t) \/ RecordCount(t)
      PROVE  EventsInv'
  BY <1>0, <1>5, EventsUntilEmit
<1> QED
  BY <1>1, <1>2, <1>3, <1>4, <1>5, SinkSteps, RestOrRecord DEF Record

\* A sink that missed none heard every number, so it shows the history.
LEMMA EventsEnough ==
    TypeOK /\ HistoryIsTheNewest /\ EventsInv => EventsInOrder
<1> SUFFICES ASSUME TypeOK, HistoryIsTheNewest, EventsInv,
                    mu = Free, Cardinality(Recorded) = last
             PROVE  Shown(Len(sink)) = First..last
  BY DEF EventsInv, EventsInOrder, EventsMatchHistory, NumbersOK, SinkCountsOK
<1>0. /\ last \in Nat /\ Len(sink) \in Nat /\ Recorded \subseteq 1..Len(sink)
      /\ Len(entries) \in 0..last /\ ~ Untold /\ ToldUpTo = last
  BY RecordedType DEF TypeOK, HistoryOK, HistoryIsTheNewest, Untold, ToldUpTo
<1>1. IsFiniteSet(1..last) /\ Cardinality(1..last) = last
  BY <1>0, FS_Interval
<1> DEFINE f == [i \in Recorded |-> sink[i].number]
<1>2. f \in Injection(Recorded, 1..last)
  <2>1. \A i \in Recorded : sink[i].number \in 1..last
    BY <1>0 DEF EventsInv, NumbersOK
  <2>2. \A i, j \in Recorded : i # j => sink[i].number # sink[j].number
    BY <1>0, <2>1 DEF EventsInv, NumbersOK
  <2> QED
    BY <2>1, <2>2 DEF Injection, IsInjective
<1> HIDE DEF f
<1>3. Heard = 1..last
  <2>1. f \in Surjection(Recorded, 1..last)
    BY <1>1, <1>2, FS_Injection
  <2> QED
    BY <2>1 DEF Surjection, Heard, f
<1>4. Shown(Len(sink)) = Heard \ Dropped
  BY <1>0 DEF Shown, Heard, Dropped
<1>5. Dropped = 1..(First - 1)
  BY <1>0, <1>3 DEF EventsInv, DropsOK
<1> QED
  BY <1>0, <1>3, <1>4, <1>5 DEF First

\* Events reach the sink in number order, each with the totals of its moment and
\* after it the hint it earned, whichever goroutine records and whichever emit
\* fails; a sink that missed none shows exactly the history.
THEOREM EventsCorrect == Spec => []EventsInOrder
<1> QED
  BY TypeCorrect, HistoryCorrect, CountersInit, CountersStep, EventsInit, EventsStep,
     EventsEnough, PTL DEF Spec

----------------------------------------------------------------------------
(* Handle, step by step.                                                    *)

LEMMA HandledInit == Init => HandledInv
<1> SUFFICES ASSUME Init PROVE HandledInv
  OBVIOUS
<1>1. \A t \in Threads : ~ Building(t) /\ ~ Locked(t)
  BY DEF Init, Building, Locked, Critical
<1>2. Ws \in Threads /\ Commands \subseteq Threads
  BY DEF Threads
<1>3. KindsOK /\ ForwardsOK
  BY <1>1, <1>2 DEF KindsOK, ForwardsOK, Building
<1>4. IdsOK
  BY DEF Init, IdsOK
<1>5. DeliveriesUpTo(last) = {} /\ Len(answers) = 0
  BY DEF Init, DeliveriesUpTo
<1>6. MarksOK /\ DeliveriesAnswered
  BY <1>1, <1>2, <1>5 DEF MarksOK, DeliveriesAnswered
<1> QED
  BY <1>3, <1>4, <1>6 DEF HandledInv

\* The websocket's goroutine keeps what it builds, or builds nothing.
WsKeeps ==
    Building(Ws)' =>
        /\ work'[Ws] = work[Ws]
        /\ pc'[Ws] = pc[Ws] \/ {pc[Ws], pc'[Ws]} \subseteq Critical

CommandsReplay == \A t \in Commands : Building(t)' => work'[t].replayOf # 0

HandsOK == KindsOK /\ ForwardsOK /\ IdsOK /\ MarksOK

LEMMA HandsStay ==
    ASSUME TypeOK, HandsOK, WsKeeps, CommandsReplay,
           UNCHANGED <<forwarding, tests, posting, posted, everything, last>>
    PROVE  HandsOK'
<1>1. IdsOK'
  BY DEF HandsOK, IdsOK
<1>2. Building(Ws)' => Building(Ws) /\ work'[Ws] = work[Ws]
  BY DEF WsKeeps, Building
<1>3. KindsOK'
  BY <1>2 DEF HandsOK, KindsOK, CommandsReplay
<1>4. ForwardsOK'
  BY <1>2 DEF HandsOK, ForwardsOK, WsKeeps, Building, Critical
<1>5. MarksOK'
  <2>1. DeliveriesUpTo(last)' = DeliveriesUpTo(last)
    BY DEF DeliveriesUpTo
  <2> QED
    BY <1>2, <2>1 DEF HandsOK, MarksOK, Marked
<1> QED
  BY <1>1, <1>3, <1>4, <1>5 DEF HandsOK

\* Nothing is answered, and the sink hears of nothing that was.
LEMMA AnswersStay ==
    ASSUME DeliveriesAnswered, UNCHANGED <<answers, forwarding, everything, last>>,
           Locked(Ws)' <=> Locked(Ws),
           \A j \in Recorded : j \in Recorded' /\ sink'[j].number = sink[j].number,
           \A j \in Recorded' :
              \/ j \in Recorded
              \/ \A i \in 1..Len(answers) : answers[i].number # sink'[j].number
    PROVE  DeliveriesAnswered'
<1>1. DeliveriesUpTo(last)' = DeliveriesUpTo(last)
  BY DEF DeliveriesUpTo
<1>2. ASSUME NEW i \in 1..Len(answers) PROVE AnswerIsTrue(answers[i])'
  <2>1. Told(answers[i].number)' <=> Told(answers[i].number)
    BY DEF Told
  <2>2. AnswerIsTrue(answers[i])
    BY DEF DeliveriesAnswered
  <2> QED
    BY <2>1, <2>2 DEF AnswerIsTrue
<1> QED
  BY <1>1, <1>2 DEF DeliveriesAnswered

LEMMA HandledHandle ==
    ASSUME TypeOK, HandledInv, NEW d \in Deliveries, Handle(d)
    PROVE  HandledInv'
<1> DEFINE e == NewEntry(d, SentTest(d))
<1>0. /\ UNCHANGED <<forwarding, mu, tests, posting, posted, everything, last, answers, sink>>
      /\ work \in [Threads -> Entry \cup {NoEntry}] /\ pc \in [Threads -> PcStates]
      /\ Ws \in Threads /\ forwarding \in BOOLEAN
  BY DEF Handle, history, TypeOK, WorkOK, LockOK, Threads, FlagsOK
<1>1. work'[Ws] = e /\ \A u \in Threads \ {Ws} : work'[u] = work[u] /\ pc'[u] = pc[u]
  BY <1>0 DEF Handle, Goto
<1>2. pc'[Ws] = IF forwarding THEN "forward" ELSE "record"
  BY <1>0 DEF Handle, Goto
<1>3. /\ e.replayOf = 0 /\ e.response = Unanswered /\ e.delivery = d
      /\ e.test = (d.test \in tests)
  BY DEF NewEntry, SentTest
<1> HIDE DEF e
<1>4. KindsOK' /\ ForwardsOK'
  <2>1. Commands \subseteq Threads \ {Ws}
    BY ThreadAssumption DEF Threads
  <2> QED
    BY <1>0, <1>1, <1>2, <1>3, <2>1 DEF HandledInv, KindsOK, ForwardsOK, Building, Critical
<1>5. IdsOK'
  BY <1>0 DEF HandledInv, IdsOK
<1>6. MarksOK'
  <2>1. DeliveriesUpTo(last)' = DeliveriesUpTo(last)
    BY <1>0 DEF DeliveriesUpTo
  <2>2. \A n \in DeliveriesUpTo(last) : Marked(everything[n])'
    BY <1>0 DEF HandledInv, MarksOK, Marked
  <2>3. d.test \in posting \cup OthersTests \cup {NoTest} /\ tests = posting
    BY DEF Handle, HandledInv, IdsOK
  <2>4. Marked(work[Ws])'
    BY <1>0, <1>1, <1>3, <2>3 DEF Marked
  <2> QED
    BY <1>0, <2>1, <2>2, <2>4 DEF MarksOK
<1>7. DeliveriesAnswered'
  <2>1. ~ Locked(Ws) /\ ~ Locked(Ws)'
    BY <1>0, <1>2 DEF Handle, Locked, Critical
  <2>2. Recorded' = Recorded
    BY <1>0 DEF Recorded
  <2> QED
    BY <1>0, <2>1, <2>2, AnswersStay DEF HandledInv
<1> QED
  BY <1>4, <1>5, <1>6, <1>7 DEF HandledInv

LEMMA HandledForward ==
    ASSUME TypeOK, HandledInv, NEW t \in Threads, Forward(t)
    PROVE  HandledInv'
<1>0. /\ UNCHANGED <<forwarding, tests, posting, posted, everything, last, answers, sink>>
      /\ work \in [Threads -> Entry \cup {NoEntry}] /\ pc \in [Threads -> PcStates]
      /\ work[t] \in Entry /\ pc[t] = "forward"
  BY DEF Forward, history, TypeOK, WorkOK, LockOK, Working
<1>1. PICK a \in Answers :
        work' = [work EXCEPT ![t] = [@ EXCEPT !.forwarded = TRUE, !.response = Response(a)]]
  BY DEF Forward
<1>2. work'[t] = [work[t] EXCEPT !.forwarded = TRUE, !.response = Response(a)]
  BY <1>0, <1>1
<1>3. /\ work'[t].replayOf = work[t].replayOf /\ work'[t].delivery = work[t].delivery
      /\ work'[t].test = work[t].test /\ work'[t].response = Response(a)
  BY <1>0, <1>2 DEF Entry
<1>4. \A u \in Threads \ {t} : work'[u] = work[u] /\ pc'[u] = pc[u]
  BY <1>0, <1>1 DEF Forward, Goto
<1>5. pc'[t] = "record"
  BY <1>0 DEF Forward, Goto
<1>6. Ws \in Threads /\ Commands \subseteq Threads
  BY DEF Threads
<1>7. \A u \in Threads : /\ Building(u)' => Building(u)
                         /\ work'[u].replayOf = work[u].replayOf
                         /\ work'[u].delivery = work[u].delivery /\ work'[u].test = work[u].test
  BY <1>0, <1>3, <1>4 DEF Building
<1>8. KindsOK' /\ IdsOK'
  BY <1>0, <1>6, <1>7 DEF HandledInv, KindsOK, IdsOK
<1>9. ForwardsOK'
  <2>1. CASE t = Ws
    <3>1. Response(a).failed \/ Response(a).status # 0
      BY DataAssumption DEF Response, Unanswered
    <3>2. forwarding' /\ forwarding
      BY <1>0, <2>1 DEF HandledInv, ForwardsOK
    <3> QED
      BY <1>3, <1>5, <2>1, <3>1, <3>2 DEF ForwardsOK
  <2>2. CASE t # Ws
    BY <1>0, <1>4, <1>6, <2>2 DEF HandledInv, ForwardsOK
  <2> QED
    BY <2>1, <2>2
<1>10. MarksOK'
  <2>1. DeliveriesUpTo(last)' = DeliveriesUpTo(last)
    BY <1>0 DEF DeliveriesUpTo
  <2> QED
    BY <1>0, <1>6, <1>7, <2>1 DEF HandledInv, MarksOK, Marked
<1>11. DeliveriesAnswered'
  <2>1. Locked(Ws)' <=> Locked(Ws)
    BY <1>0, <1>4, <1>5, <1>6 DEF Locked, Critical
  <2>2. Recorded' = Recorded
    BY <1>0 DEF Recorded
  <2> QED
    BY <1>0, <2>1, <2>2, AnswersStay DEF HandledInv
<1> QED
  BY <1>8, <1>9, <1>10, <1>11 DEF HandledInv

\* A command takes up a replay, or moves while it builds nothing.
LEMMA HandledCommand ==
    ASSUME TypeOK, HandledInv, NEW t \in Commands, ~ Locked(t),
           NEW where \in PcStates \ Critical, Goto(t, where),
           \A u \in Threads \ {t} : work'[u] = work[u],
           Building(t)' => work'[t].replayOf # 0,
           UNCHANGED <<forwarding, tests, posting, posted, everything, last, answers, sink>>
    PROVE  HandledInv'
<1>0. /\ pc \in [Threads -> PcStates] /\ Ws \in Threads \ {t} /\ t \in Threads
      /\ Commands \subseteq Threads
  BY ThreadAssumption DEF TypeOK, LockOK, Threads
<1>1. \A u \in Threads \ {t} : pc'[u] = pc[u] /\ (Building(u)' <=> Building(u))
  BY <1>0 DEF Goto, Building
<1>2. WsKeeps
  BY <1>0, <1>1 DEF WsKeeps
<1>3. CommandsReplay
  <2> SUFFICES ASSUME NEW u \in Commands, Building(u)' PROVE work'[u].replayOf # 0
    BY DEF CommandsReplay
  <2>1. CASE u # t
    BY <1>0, <1>1, <2>1 DEF HandledInv, KindsOK
  <2> QED
    BY <2>1
<1>4. HandsOK'
  BY <1>2, <1>3, HandsStay DEF HandledInv, HandsOK
<1>5. DeliveriesAnswered'
  <2>1. Locked(Ws)' <=> Locked(Ws)
    BY <1>0, <1>1 DEF Locked
  <2>2. Recorded' = Recorded
    BY DEF Recorded
  <2> QED
    BY <2>1, <2>2, AnswersStay DEF HandledInv
<1> QED
  BY <1>4, <1>5 DEF HandledInv, HandsOK

LEMMA HandledFetch ==
    ASSUME TypeOK, HistoryIsTheNewest, HandledInv, NEW t \in Commands, NEW n \in Nat,
           pc[t] \in {"idle", "replay"}, Fetch(t, n)
    PROVE  HandledInv'
<1>0. /\ work \in [Threads -> Entry \cup {NoEntry}] /\ pc \in [Threads -> PcStates]
      /\ ~ Locked(t) /\ t \in Threads
      /\ UNCHANGED <<forwarding, tests, posting, posted, everything, last, answers, sink>>
      /\ {"forward", "idle"} \subseteq PcStates \ Critical
  BY DEF TypeOK, WorkOK, LockOK, Locked, Critical, Threads, Fetch, history, PcStates
<1>1. CASE /\ n \in First..last /\ Goto(t, "forward")
           /\ work' = [work EXCEPT ![t] = ReplayEntry(n, Get(n))]
  <2>1. n # 0
    BY <1>1 DEF HistoryIsTheNewest, First, TypeOK, HistoryOK
  <2>2. ReplayEntry(n, Get(n)).replayOf = n
    BY DEF ReplayEntry, NewEntry
  <2> QED
    BY <1>0, <1>1, <2>1, <2>2, HandledCommand
<1>2. CASE Goto(t, "idle") /\ UNCHANGED work
  <2>1. ~ Building(t)'
    BY <1>0, <1>2 DEF Building, Goto, Critical
  <2> QED
    BY <1>0, <1>2, <2>1, HandledCommand
<1> QED
  BY <1>1, <1>2 DEF Fetch

\* Nobody knew the id before SendTest drew it.
LEMMA HandledSend ==
    ASSUME TypeOK, HandledInv, NEW t \in Commands, NEW id \in TestIds, SendTest(t, id)
    PROVE  HandledInv'
<1>0. /\ pc \in [Threads -> PcStates] /\ Ws \in Threads \ {t} /\ t \in Threads
      /\ Commands \subseteq Threads
      /\ UNCHANGED <<forwarding, posted, everything, last, answers, sink, work>>
  BY ThreadAssumption DEF SendTest, history, TypeOK, LockOK, Threads
<1>1. /\ pc'[t] = "posting" /\ pc[t] = "idle"
      /\ \A u \in Threads \ {t} : pc'[u] = pc[u]
  BY <1>0 DEF SendTest, Goto
<1>2. \A u \in Threads : (Building(u)' <=> Building(u)) /\ (Locked(u)' <=> Locked(u))
  BY <1>0, <1>1 DEF Building, Locked, Critical
<1>3. KindsOK' /\ ForwardsOK'
  BY <1>0, <1>1, <1>2 DEF HandledInv, KindsOK, ForwardsOK
<1>4. IdsOK'
  BY <1>0 DEF SendTest, HandledInv, IdsOK
<1>5. MarksOK'
  <2>1. \A e : Marked(e) => Marked(e)'
    BY DataAssumption DEF SendTest, Marked
  <2>2. DeliveriesUpTo(last)' = DeliveriesUpTo(last)
    BY <1>0 DEF DeliveriesUpTo
  <2>3. \A n \in DeliveriesUpTo(last) : Marked(everything[n])'
    <3>1. ASSUME NEW n \in DeliveriesUpTo(last) PROVE Marked(everything[n])'
      <4>1. PICK e : e = everything[n]
        OBVIOUS
      <4>2. Marked(e)'
        BY <2>1, <4>1 DEF HandledInv, MarksOK
      <4> QED
        BY <1>0, <4>1, <4>2 DEF Marked
    <3> QED
      BY <3>1
  <2>4. Building(Ws)' => Marked(work[Ws])'
    <3>1. PICK e : e = work[Ws]
      OBVIOUS
    <3>2. Building(Ws)' => Marked(e)'
      BY <1>0, <1>2, <2>1, <3>1 DEF HandledInv, MarksOK
    <3> QED
      BY <1>0, <3>1, <3>2 DEF Marked
  <2> QED
    BY <1>0, <2>2, <2>3, <2>4 DEF MarksOK
<1>6. DeliveriesAnswered'
  <2>1. Recorded' = Recorded
    BY <1>0 DEF Recorded
  <2> QED
    BY <1>0, <1>2, <2>1, AnswersStay DEF HandledInv
<1> QED
  BY <1>3, <1>4, <1>5, <1>6 DEF HandledInv

\* A delivery recorded is one answer owed, by the goroutine that recorded it.
LEMMA HandledAdd ==
    ASSUME TypeOK, HistoryIsTheNewest, HandledInv, NEW t \in Threads, RecordAdd(t)
    PROVE  HandledInv'
<1>a. PICK e : e = [work[t] EXCEPT !.number = last + 1]
  OBVIOUS
<1>0. /\ last = Len(everything) /\ everything \in Seq(Entry) /\ last \in Nat
      /\ work \in [Threads -> Entry \cup {NoEntry}] /\ pc \in [Threads -> PcStates]
      /\ work[t] \in Entry /\ Ws \in Threads /\ Commands \subseteq Threads
      /\ UNCHANGED <<forwarding, tests, posting, posted, answers, sink>>
  BY DEF HistoryIsTheNewest, TypeOK, HistoryOK, WorkOK, LockOK, Working, RecordAdd, Threads
<1>1. /\ everything' = Append(everything, e) /\ last' = last + 1 /\ work'[t] = e
      /\ \A u \in Threads \ {t} : work'[u] = work[u] /\ pc'[u] = pc[u]
      /\ pc'[t] = "evict" /\ pc[t] = "record"
  BY <1>0, <1>a DEF RecordAdd, Goto
<1>2. /\ e.replayOf = work[t].replayOf /\ e.delivery = work[t].delivery
      /\ e.test = work[t].test /\ e.response = work[t].response
  BY <1>0, <1>a DEF Entry
<1>3. /\ everything'[last + 1] = e
      /\ \A n \in 1..last : everything'[n] = everything[n]
  BY <1>0, <1>1
<1>4. \A u \in Threads : /\ Building(u)' <=> Building(u)
                         /\ work'[u].replayOf = work[u].replayOf
                         /\ work'[u].delivery = work[u].delivery /\ work'[u].test = work[u].test
                         /\ work'[u].response = work[u].response
  BY <1>1, <1>2 DEF Building, Critical
<1>5. KindsOK' /\ IdsOK'
  BY <1>0, <1>4 DEF HandledInv, KindsOK, IdsOK
<1>6. ForwardsOK'
  BY <1>0, <1>1, <1>4 DEF HandledInv, ForwardsOK, Critical
<1>7. DeliveriesUpTo(last)' = DeliveriesUpTo(last) \cup (IF t = Ws THEN {last + 1} ELSE {})
  <2>1. e.replayOf = 0 <=> t = Ws
    <3>1. Building(t)
      BY <1>1 DEF Building
    <3> QED
      BY <1>2, <3>1 DEF HandledInv, KindsOK, Threads
  <2>2. DeliveriesUpTo(last)' = {n \in 1..(last + 1) : everything'[n].replayOf = 0}
    BY <1>1 DEF DeliveriesUpTo
  <2>3. 1..(last + 1) = (1..last) \cup {last + 1}
    BY <1>0
  <2> QED
    BY <1>3, <2>1, <2>2, <2>3 DEF DeliveriesUpTo
<1>8. MarksOK'
  <2>1. ASSUME NEW n \in DeliveriesUpTo(last)' PROVE Marked(everything[n])'
    <3>1. CASE n \in DeliveriesUpTo(last)
      <4>1. Marked(everything[n]) /\ everything'[n] = everything[n]
        BY <1>3, <3>1 DEF HandledInv, MarksOK, DeliveriesUpTo
      <4> QED
        BY <1>0, <4>1 DEF Marked
    <3>2. CASE n = last + 1 /\ t = Ws
      <4>1. Marked(work[Ws]) /\ everything'[n] = e
        BY <1>1, <1>3, <3>2 DEF HandledInv, MarksOK, Building
      <4> QED
        BY <1>0, <1>2, <3>2, <4>1 DEF Marked
    <3> QED
      BY <1>7, <2>1, <3>1, <3>2
  <2>2. Building(Ws)' => Marked(work[Ws])'
    BY <1>0, <1>4 DEF HandledInv, MarksOK, Marked
  <2> QED
    BY <2>1, <2>2 DEF MarksOK
<1>9. DeliveriesAnswered'
  <2>1. ~ Locked(Ws) /\ (Locked(Ws)' <=> t = Ws)
    BY <1>0, <1>1, ThreadAssumption DEF RecordAdd, CanLock, TypeOK, LockOK, Locked, Critical
  <2>2. last + 1 \notin DeliveriesUpTo(last)
    BY <1>0 DEF DeliveriesUpTo
  <2>3. DeliveriesUpTo(last) = DeliveriesUpTo(last)' \ (IF Locked(Ws)' THEN {last'} ELSE {})
    BY <1>1, <1>7, <2>1, <2>2
  <2>4. Recorded' = Recorded
    BY <1>0 DEF Recorded
  <2>5. ASSUME NEW i \in 1..Len(answers) PROVE AnswerIsTrue(answers[i])'
    <3>1. answers[i].number \in 1..last
      BY DEF HandledInv, DeliveriesAnswered, DeliveriesUpTo
    <3>2. everything'[answers[i].number] = everything[answers[i].number]
      BY <1>3, <3>1
    <3>3. Told(answers[i].number)' <=> Told(answers[i].number)
      BY <1>0, <2>4 DEF Told
    <3>4. AnswerIsTrue(answers[i])
      BY DEF HandledInv, DeliveriesAnswered
    <3> QED
      BY <1>0, <3>2, <3>3, <3>4 DEF AnswerIsTrue
  <2> QED
    BY <1>0, <2>1, <2>3, <2>5 DEF HandledInv, DeliveriesAnswered
<1> QED
  BY <1>5, <1>6, <1>8, <1>9 DEF HandledInv

\* Evicting and counting leave what is in hand.
LEMMA HandledInside ==
    ASSUME TypeOK, HandledInv, NEW t \in Threads, RecordEvict(t) \/ RecordCount(t)
    PROVE  HandledInv'
<1>0. /\ pc \in [Threads -> PcStates] /\ Ws \in Threads /\ Commands \subseteq Threads
      /\ UNCHANGED <<forwarding, tests, posting, posted, everything, last, answers, sink, work>>
  BY DEF RecordEvict, RecordCount, history, TypeOK, LockOK, Threads
<1>1. \A u \in Threads : pc'[u] = pc[u] \/ {pc[u], pc'[u]} \subseteq Critical
  BY <1>0 DEF RecordEvict, RecordCount, Goto, Critical
<1>2. \A u \in Threads : (Building(u)' <=> Building(u)) /\ (Locked(u)' <=> Locked(u))
  BY <1>1 DEF Building, Locked
<1>3. WsKeeps /\ CommandsReplay
  BY <1>0, <1>1, <1>2 DEF WsKeeps, CommandsReplay, HandledInv, KindsOK
<1>4. HandsOK'
  BY <1>0, <1>3, HandsStay DEF HandledInv, HandsOK
<1>5. DeliveriesAnswered'
  <2>1. Recorded' = Recorded
    BY <1>0 DEF Recorded
  <2> QED
    BY <1>0, <1>2, <2>1, AnswersStay DEF HandledInv
<1> QED
  BY <1>4, <1>5 DEF HandledInv, HandsOK

\* The newest entry is the one the sink hears of next.
NewestTold ==
    /\ \A j \in Recorded : j \in Recorded' /\ sink'[j].number = sink[j].number
    /\ \A j \in Recorded' : j \in Recorded \/ sink'[j].number = last

\* record returns with its goroutine's answer, if it owes one.
LEMMA HandledReturn ==
    ASSUME TypeOK, HistoryIsTheNewest, CountersInv, EventsInv, HandledInv,
           NEW t \in Threads, NEW ok \in BOOLEAN,
           pc[t] \in {"emit", "hint"}, Return(t, ok), NewestTold,
           UNCHANGED <<forwarding, tests, posting, posted, everything, last>>,
           IF ok THEN Told(last)' ELSE UNCHANGED sink
    PROVE  HandledInv'
<1>0. /\ pc \in [Threads -> PcStates] /\ Ws \in Threads /\ Commands \subseteq Threads
      /\ work \in [Threads -> Entry \cup {NoEntry}]
      /\ answers \in Seq([number : Nat, status : Nat, size : Nat])
      /\ last \in Nat \ {0} /\ work[t] = everything[last] /\ work[t].number = last
      /\ work[t] \in Entry /\ (ToldUpTo = IF pc[t] = "emit" THEN last - 1 ELSE last)
      /\ \A u \in Threads : Locked(u) => u = t
  BY EmitsNewest DEF TypeOK, LockOK, WorkOK, OutputOK, Threads
<1>1. /\ pc'[t] \in {"idle", "stopped"}
      /\ \A u \in Threads \ {t} : pc'[u] = pc[u] /\ work'[u] = work[u]
  BY <1>0 DEF Return, Goto
<1>2. ~ Building(t)' /\ ~ Locked(t)' /\ Locked(t)
  BY <1>1 DEF Building, Locked, Critical
<1>3. WsKeeps /\ CommandsReplay
  BY <1>0, <1>1, <1>2 DEF WsKeeps, CommandsReplay, HandledInv, KindsOK, Building
<1>4. HandsOK'
  BY <1>3, HandsStay DEF HandledInv, HandsOK
<1>5. DeliveriesUpTo(last)' = DeliveriesUpTo(last)
  BY DEF DeliveriesUpTo
<1>6. Building(t)
  BY DEF Building, Critical
<1>7. CASE t # Ws
  <2>1. last \notin DeliveriesUpTo(last) /\ ~ Locked(Ws) /\ ~ Locked(Ws)'
    <3>1. t \in Commands
      BY <1>7 DEF Threads
    <3>2. everything[last].replayOf # 0
      BY <1>0, <1>6, <3>1 DEF HandledInv, KindsOK
    <3>3. ~ Locked(Ws) /\ ~ Locked(Ws)'
      BY <1>0, <1>1, <1>7 DEF Locked
    <3> QED
      BY <3>2, <3>3 DEF DeliveriesUpTo
  <2>2. UNCHANGED answers
    BY <1>7 DEF Return
  <2>3. \A i \in 1..Len(answers) : answers[i].number # last
    BY <2>1 DEF HandledInv, DeliveriesAnswered
  <2>4. DeliveriesAnswered'
    BY <2>1, <2>2, <2>3, AnswersStay DEF HandledInv, NewestTold
  <2> QED
    BY <1>4, <2>4 DEF HandledInv, HandsOK
<1>8. CASE t = Ws
  <2>a. PICK new : new = Len(answers) + 1
    OBVIOUS
  <2>b. PICK r : r = HandleAnswer(work[Ws], ok)
    OBVIOUS
  <2>1. answers' = Append(answers, r) /\ r.number = last
    BY <1>0, <1>8, <2>b DEF Return, HandleAnswer
  <2>2. /\ Len(answers) \in Nat /\ Len(answers') = new /\ answers'[new] = r
        /\ 1..Len(answers') = (1..Len(answers)) \cup {new} /\ new \notin 1..Len(answers)
        /\ \A i \in 1..Len(answers) : answers'[i] = answers[i] /\ i < new
    BY <1>0, <2>1, <2>a
  <2>3. /\ {answers[i].number : i \in 1..Len(answers)} = DeliveriesUpTo(last) \ {last}
        /\ ~ Locked(Ws)'
    BY <1>2, <1>8 DEF HandledInv, DeliveriesAnswered
  <2>4. last \in DeliveriesUpTo(last)
    BY <1>0, <1>6, <1>8 DEF HandledInv, KindsOK, DeliveriesUpTo
  <2>5. {answers'[i].number : i \in 1..Len(answers')} = DeliveriesUpTo(last)
    BY <2>1, <2>2, <2>3, <2>4
  <2>6. \A i \in 1..Len(answers) : answers[i].number \in 1..(last - 1)
    <3>1. DeliveriesUpTo(last) \ {last} \subseteq 1..(last - 1)
      BY <1>0 DEF DeliveriesUpTo
    <3> QED
      BY <2>3, <3>1
  <2>7. \A i, j \in 1..Len(answers') : i < j => answers'[i].number < answers'[j].number
    <3> SUFFICES ASSUME NEW i \in 1..Len(answers'), NEW j \in 1..Len(answers'), i < j
                 PROVE  answers'[i].number < answers'[j].number
      OBVIOUS
    <3>1. i \in 1..Len(answers)
      BY <2>2
    <3>2. CASE j = new
      <4>1. answers'[i].number \in 1..(last - 1) /\ answers'[j].number = last
        BY <2>1, <2>2, <2>6, <3>1, <3>2
      <4> QED
        BY <1>0, <4>1
    <3>3. CASE j \in 1..Len(answers)
      BY <2>2, <3>1, <3>3 DEF HandledInv, DeliveriesAnswered
    <3> QED
      BY <2>2, <3>2, <3>3
  <2>8. ~ forwarding /\ ~ ok => ~ Told(last)'
    <3> SUFFICES ASSUME ~ forwarding, ~ ok PROVE ~ \E j \in Recorded' : sink'[j].number = last
      BY DEF Told
    <3>1. work[Ws].response.status = 0
      BY <1>8 DEF HandledInv, ForwardsOK, Critical, Unanswered
    <3>2. pc[t] = "emit"
      <4>1. ~ AtBareRoot(last)
        BY <1>0, <1>8, <3>1 DEF AtBareRoot
      <4> QED
        BY <4>1 DEF EventsInv, HintOK
    <3>3. \A j \in Recorded : sink[j].number \in 1..(last - 1)
      BY <1>0, <3>2 DEF EventsInv, NumbersOK
    <3>4. sink' = sink /\ Recorded' = Recorded
      BY DEF Recorded
    <3> QED
      BY <1>0, <3>3, <3>4
  <2>9. AnswerIsTrue(r)'
    <3>1. /\ r.status = IF ~ forwarding THEN IF ok THEN 200 ELSE 0
                        ELSE IF work[Ws].response.failed THEN 502 ELSE work[Ws].response.status
          /\ r.size = IF forwarding /\ ~ work[Ws].response.failed THEN work[Ws].response.size ELSE 0
      BY <2>b DEF HandleAnswer
    <3>2. forwarding => work[Ws].response.failed \/ work[Ws].response.status # 0
      BY <1>8 DEF HandledInv, ForwardsOK, Critical
    <3>3. everything'[r.number].response = work[Ws].response /\ forwarding' = forwarding
      BY <1>0, <1>8, <2>1
    <3>4. ~ forwarding => r.size = 0 /\ r.status = IF Told(r.number)' THEN 200 ELSE 0
      BY <2>1, <2>8, <3>1
    <3> QED
      BY <3>1, <3>2, <3>3, <3>4 DEF AnswerIsTrue
  <2>10. ASSUME NEW i \in 1..Len(answers) PROVE AnswerIsTrue(answers[i])'
    <3>1. answers[i].number # last
      BY <1>0, <2>6
    <3>2. answers'[i] = answers[i]
      BY <2>2
    <3>3. AnswerIsTrue(answers[i])
      BY DEF HandledInv, DeliveriesAnswered
    <3>4. Told(answers[i].number)' <=> Told(answers[i].number)
      BY <3>1, <3>2 DEF Told, NewestTold
    <3> QED
      BY <3>2, <3>3, <3>4 DEF AnswerIsTrue
  <2>11. ASSUME NEW i \in 1..Len(answers') PROVE AnswerIsTrue(answers[i])'
    <3>1. CASE i = new
      BY <2>2, <2>9, <3>1 DEF AnswerIsTrue
    <3>2. CASE i \in 1..Len(answers)
      BY <2>10, <3>2
    <3> QED
      BY <2>2, <3>1, <3>2
  <2>12. DeliveriesAnswered'
    <3>1. DeliveriesUpTo(last)' \ (IF Locked(Ws)' THEN {last'} ELSE {}) = DeliveriesUpTo(last)
      BY <1>5, <2>3
    <3> QED
      BY <2>5, <2>7, <2>11, <3>1 DEF DeliveriesAnswered
  <2> QED
    BY <1>4, <2>12 DEF HandledInv, HandsOK
<1> QED
  BY <1>7, <1>8

\* The sink has the entry and the hint for it is still to come.
LEMMA HandledEmitting ==
    ASSUME TypeOK, HistoryIsTheNewest, CountersInv, EventsInv, HandledInv,
           NEW t \in Threads, pc[t] = "emit", Goto(t, "hint"), NewestTold,
           UNCHANGED <<forwarding, tests, posting, posted, everything, last, answers, work>>
    PROVE  HandledInv'
<1>0. /\ pc \in [Threads -> PcStates] /\ Ws \in Threads /\ Commands \subseteq Threads
      /\ work[t] = everything[last] /\ \A u \in Threads : Locked(u) => u = t
  BY EmitsNewest DEF TypeOK, LockOK, Threads
<1>1. \A u \in Threads : pc'[u] = pc[u] \/ {pc[u], pc'[u]} \subseteq Critical
  BY <1>0 DEF Goto, Critical
<1>2. \A u \in Threads : (Building(u)' <=> Building(u)) /\ (Locked(u)' <=> Locked(u))
  BY <1>1 DEF Building, Locked
<1>3. WsKeeps /\ CommandsReplay
  BY <1>0, <1>1, <1>2 DEF WsKeeps, CommandsReplay, HandledInv, KindsOK
<1>4. HandsOK'
  BY <1>3, HandsStay DEF HandledInv, HandsOK
<1>5. \A i \in 1..Len(answers) : answers[i].number # last
  <2>1. CASE t = Ws
    BY <2>1 DEF HandledInv, DeliveriesAnswered, Locked, Critical
  <2>2. CASE t # Ws
    <3>1. t \in Commands /\ Building(t)
      BY <2>2 DEF Threads, Building, Critical
    <3>2. last \notin DeliveriesUpTo(last)
      BY <1>0, <3>1 DEF HandledInv, KindsOK, DeliveriesUpTo
    <3> QED
      BY <3>2 DEF HandledInv, DeliveriesAnswered
  <2> QED
    BY <2>1, <2>2
<1>6. DeliveriesAnswered'
  BY <1>0, <1>2, <1>5, AnswersStay DEF HandledInv, NewestTold
<1> QED
  BY <1>4, <1>6 DEF HandledInv, HandsOK

LEMMA HandledEmit ==
    ASSUME TypeOK, HistoryIsTheNewest, CountersInv, EventsInv, HandledInv,
           NEW t \in Threads, RecordEmit(t) \/ RecordHint(t)
    PROVE  HandledInv'
<1>0. pc[t] \in {"emit", "hint"} /\ work[t].number = last
  BY EmitsNewest DEF RecordEmit, RecordHint
<1>1. UNCHANGED <<forwarding, tests, posting, posted, everything, last>>
  BY DEF RecordEmit, RecordHint, history
<1>2. CASE UNCHANGED sink
  <2>1. NewestTold
    BY <1>2 DEF NewestTold, Recorded
  <2>2. Return(t, FALSE)
    <3>1. sink \in Seq(SinkEvent)
      BY RecordedType
    <3>2. \A e : sink # Append(sink, e)
      BY <3>1
    <3> QED
      BY <1>2, <3>2 DEF RecordEmit, RecordHint
  <2> QED
    BY <1>0, <1>1, <1>2, <2>1, <2>2, HandledReturn
<1>3. CASE \E e : sink' = Append(sink, e) /\ e.number = last
  <2>1. PICK e : sink' = Append(sink, e) /\ e.number = last
    BY <1>3
  <2>2. sink \in Seq(SinkEvent) /\ Len(sink) \in Nat
    BY RecordedType
  <2>3. /\ Len(sink') = Len(sink) + 1 /\ sink'[Len(sink) + 1] = e
        /\ \A i \in 1..Len(sink) : sink'[i] = sink[i]
    BY <2>1, <2>2
  <2>4. NewestTold
    <3>1. \A j \in Recorded' : j \in 1..Len(sink) \/ j = Len(sink) + 1
      BY <2>2, <2>3 DEF Recorded
    <3> QED
      BY <2>1, <2>3, <3>1 DEF NewestTold, Recorded
  <2>5. sink' # sink
    BY <2>2, <2>3
  <2>6. \/ Return(t, TRUE)
        \/ pc[t] = "emit" /\ Goto(t, "hint") /\ UNCHANGED <<work, answers>>
    BY <2>5 DEF RecordEmit, RecordHint
  <2>7. Told(last)'
    <3>1. CASE pc[t] = "emit"
      <4>1. sink' = Append(sink, Event("Recorded", work[t].number, evicted, totals.count))
        BY <2>5, <3>1 DEF RecordEmit, RecordHint
      <4>2. sink'[Len(sink) + 1].kind = "Recorded"
        BY <2>2, <4>1 DEF Event
      <4>3. Len(sink) + 1 \in Recorded'
        BY <2>2, <2>3, <4>2 DEF Recorded
      <4> QED
        BY <1>1, <2>1, <2>3, <4>3 DEF Told
    <3>2. CASE pc[t] = "hint"
      <4>1. Len(sink) \in Recorded /\ sink[Len(sink)].number = last
        BY <3>2 DEF EventsInv, HintOK
      <4> QED
        BY <1>1, <2>4, <4>1 DEF Told, NewestTold
    <3> QED
      BY <1>0, <3>1, <3>2
  <2> QED
    BY <1>0, <1>1, <2>4, <2>6, <2>7, HandledReturn, HandledEmitting
<1>4. UNCHANGED sink \/ \E e : sink' = Append(sink, e) /\ e.number = last
  <2>1. \A kind, d, c : Event(kind, work[t].number, d, c).number = last
    BY <1>0 DEF Event
  <2> QED
    BY <2>1 DEF RecordEmit, RecordHint
<1> QED
  BY <1>2, <1>3, <1>4

LEMMA HandledStep ==
    TypeOK /\ HistoryIsTheNewest /\ CountersInv /\ EventsInv /\ HandledInv /\ [Next]_vars
      => HandledInv'
<1> SUFFICES ASSUME TypeOK, HistoryIsTheNewest, CountersInv, EventsInv, HandledInv, [Next]_vars
             PROVE  HandledInv'
  OBVIOUS
<1>0. /\ pc \in [Threads -> PcStates] /\ Ws \in Threads /\ Commands \subseteq Threads
      /\ Ws \notin Commands
      /\ {"idle", "replay", "forward", "record", "posting", "stopped"} \subseteq PcStates \ Critical
  BY ThreadAssumption DEF TypeOK, LockOK, Threads, PcStates, Critical
<1>1. ASSUME NEW kind \in {"Ready", "ConnectionLost"}, Emit(kind) PROVE HandledInv'
  <2>1. UNCHANGED <<forwarding, tests, posting, posted, everything, last, answers, work>>
    BY <1>1 DEF Emit, history
  <2>2. ~ Building(Ws)' /\ ~ Locked(Ws) /\ ~ Locked(Ws)'
    BY <1>0, <1>1 DEF Emit, Goto, Building, Locked, Critical
  <2>3. \A u \in Commands : pc'[u] = pc[u]
    BY <1>0, <1>1 DEF Emit, Goto
  <2>4. HandsOK'
    BY <1>0, <2>1, <2>2, <2>3, HandsStay
       DEF WsKeeps, CommandsReplay, HandledInv, HandsOK, KindsOK, Building
  <2>5. ToldStays
    <3>1. /\ Plain(kind) \in SinkEvent /\ Plain(kind).kind # "Recorded"
          /\ Plain("TestHint") \in SinkEvent /\ Plain("TestHint").kind # "Recorded"
      BY DEF Plain, Event, SinkEvent
    <3>2. sink \in Seq(SinkEvent) /\ Len(sink) \in Nat
      BY RecordedType
    <3>3. CASE UNCHANGED sink
      BY <3>3 DEF ToldStays, Recorded
    <3>4. CASE sink' = Append(sink, Plain(kind)) \o <<>>
      <4>1. sink' = Append(sink, Plain(kind))
        BY <3>1, <3>2, <3>4
      <4> QED
        BY <3>1, <4>1, OtherEvent
    <3>5. CASE sink' = Append(sink, Plain(kind))
      BY <3>1, <3>5, OtherEvent
    <3>6. CASE sink' = Append(sink, Plain(kind)) \o <<Plain("TestHint")>>
      <4>1. /\ Len(sink') = Len(sink) + 2 /\ sink'[Len(sink) + 1] = Plain(kind)
            /\ sink'[Len(sink) + 2] = Plain("TestHint")
            /\ \A i \in 1..Len(sink) : sink'[i] = sink[i]
        BY <3>1, <3>2, <3>6
      <4> QED
        BY <3>1, <3>2, <4>1 DEF ToldStays, Recorded
    <3> QED
      BY <1>1, <3>3, <3>4, <3>5, <3>6 DEF Emit
  <2>6. DeliveriesAnswered'
    BY <2>1, <2>2, <2>5, AnswersStay DEF HandledInv, ToldStays
  <2> QED
    BY <2>4, <2>6 DEF HandledInv, HandsOK
<1>2. ASSUME NEW d \in Deliveries, Handle(d) PROVE HandledInv'
  BY <1>2, HandledHandle
<1>3. ASSUME NEW t \in Commands, NEW n \in 1..MaxRequests, Replay(t, n) PROVE HandledInv'
  BY <1>3, HandledFetch, SizeAssumption DEF Replay
<1>4. ASSUME NEW t \in Commands, ReplayRead(t) PROVE HandledInv'
  <2>1. wanted[t] \in Nat
    BY <1>0 DEF TypeOK, WorkOK
  <2> QED
    BY <1>4, <2>1, HandledFetch DEF ReplayRead
<1>5. ASSUME NEW t \in Commands, ReplayLast(t) \/ PostReturns(t) PROVE HandledInv'
  <2>1. PICK where \in {"replay", "idle"} : Goto(t, where)
    BY <1>5 DEF ReplayLast, PostReturns
  <2>2. ~ Building(t)' /\ ~ Locked(t)
    BY <1>0, <1>5, <2>1 DEF ReplayLast, PostReturns, Goto, Building, Locked, Critical
  <2>3. UNCHANGED <<forwarding, tests, posting, posted, everything, last, answers, sink, work>>
    BY <1>5 DEF ReplayLast, PostReturns, history
  <2> QED
    BY <1>0, <2>1, <2>2, <2>3, HandledCommand
<1>6. ASSUME NEW t \in Commands, NEW id \in TestIds, SendTest(t, id) PROVE HandledInv'
  BY <1>6, HandledSend
<1>7. ASSUME NEW t \in Threads, Forward(t) PROVE HandledInv'
  BY <1>7, HandledForward
<1>8. ASSUME NEW t \in Threads, Record(t) PROVE HandledInv'
  BY <1>8, HandledAdd, HandledInside, HandledEmit DEF Record
<1>9. CASE UNCHANGED vars \/ \E id \in TestIds : PostArrives(id)
  <2>1. UNCHANGED <<forwarding, tests, posting, everything, last, answers, sink, work, pc>>
    BY <1>9 DEF vars, history, PostArrives
  <2>2. KindsOK' /\ ForwardsOK'
    BY <2>1 DEF HandledInv, KindsOK, ForwardsOK, Building
  <2>3. IdsOK'
    BY <1>9, <2>1 DEF vars, PostArrives, HandledInv, IdsOK
  <2>4. MarksOK'
    BY <2>1 DEF HandledInv, MarksOK, Marked, Building, DeliveriesUpTo
  <2>5. Recorded' = Recorded /\ (Locked(Ws)' <=> Locked(Ws))
    BY <2>1 DEF Recorded, Locked
  <2>6. DeliveriesAnswered'
    BY <2>1, <2>5, AnswersStay DEF HandledInv
  <2> QED
    BY <2>2, <2>3, <2>4, <2>6 DEF HandledInv
<1> QED
  BY <1>1, <1>2, <1>3, <1>4, <1>5, <1>6, <1>7, <1>8, <1>9 DEF Next

\* Handle answers each delivery once, in order and as it was forwarded, also when
\* the sink fails after the forward; and it marks a delivery as a test exactly
\* when this run sent the event, however early the event comes back.
THEOREM DeliveriesCorrect == Spec => []DeliveriesHandled
<1>1. HandledInv => DeliveriesHandled
  BY DEF HandledInv, DeliveriesHandled, TestsMarked, MarksOK, Marked
<1> QED
  BY <1>1, TypeCorrect, HistoryCorrect, CountersInit, CountersStep, EventsInit, EventsStep,
     HandledInit, HandledStep, PTL DEF Spec
=============================================================================
