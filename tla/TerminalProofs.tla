---------------------------- MODULE TerminalProofs ---------------------------
(* The terminal program, for any number of replays and events: what it        *)
(* receives, and how it shuts down; and the parts of its full-screen view,    *)
(* for any requests, keys, projects and sizes of the screen.                  *)
EXTENDS Terminal, FullScreen, FiniteSetsExt, FiniteSetTheorems, TLAPS

----------------------------------------------------------------------------
(* The invariant.                                                             *)

Sinks == {"print", "printing", "printed", "sending", "sent"}
Leaving == {"unwind", "stopped", "quit", "listened"}
Over == {"ended", "closing", "finished"}

\* Each emitter keeps to its own places, and no card is printed before a frame.
PlacesOK ==
    /\ pc[Listener] \in {"idle"} \cup Sinks \cup Leaving
    /\ pc[Updater] \in {"checking", "found", "sending", "sent", "done"}
    /\ \A t \in Replays : pc[t] \in {"idle", "done"} \cup Sinks
    /\ \A t \in Emitters : pc[t] \in {"printing", "printed"} => drawn

\* The update check emits once, past the bound if need be.
CountOK ==
    /\ count \in 0..(MaxEvents + 1)
    /\ pc[Updater] \in {"checking", "found"} => count <= MaxEvents

\* Whoever holds Session.mu emits the newest event, and the loop received of it
\* only what its emitter is past.
NewestOK ==
    /\ \A i \in 1..Len(received) : received[i].id <= count
    /\ \A t \in Emitters : Holding(t) => event[t].id = count /\ count > 0
    /\ \A t \in Emitters : \A i \in 1..Len(received) : received[i].id = count =>
          /\ pc[t] \notin {"print", "printing"}
          /\ pc[t] \in {"printed", "sending"} => received[i].part = "print"

\* Listen stops with a result of its own, before the program does unless that
\* fails, and the program is never finished without its context cancelled.
ShutdownOK ==
    /\ loop \in {"closing", "finished"} => cancelled
    /\ loop \in Over => failed \/ pc[Listener] = "listened"
    /\ result # "closed" /\ exit # "closed"
    /\ pc[Listener] \in Leaving => result # "none"
    /\ pc[Listener] \in {"stopped", "quit", "listened"} => pc[Updater] = "done"

\* The status, once listening has stopped or the user has asked for it.
StateOK ==
    /\ stopping => state \in {"stopping", "stopped"}
    /\ ~ failed /\ ~ stopping /\ ~ fullscreen /\ pc[Listener] \in {"quit", "listened"}
          => state = "stopped"

Inv == TypeOK /\ PlacesOK /\ CountOK /\ NewestOK /\ ShutdownOK /\ StateOK /\ CardsInOrder

----------------------------------------------------------------------------
(* Types, in parts.                                                           *)

PlainOK ==
    /\ fullscreen \in BOOLEAN
    /\ loop \in {"off", "running", "ended", "closing", "finished"}
    /\ drawn \in BOOLEAN /\ stopping \in BOOLEAN /\ failed \in BOOLEAN
    /\ state \in {"connecting", "live", "offline", "stopping", "stopped"}
    /\ cancelled \in BOOLEAN
    /\ result \in {"none", "cancelled", "fatal", "closed"}
    /\ exit \in {"running", "cancelled", "fatal", "closed", "failed", "killed"}

LockOK ==
    /\ mu \in Emitters \cup {Free}
    /\ pc \in [Emitters -> Places]
    /\ \A t \in Emitters : Holding(t) <=> mu = t

Kinds == {"Ready", "ConnectionLost", "Recorded", "UpdateAvailable"}
Event == [id : 0..(MaxEvents + 1), kind : {"none"} \cup Kinds]
Receipt == [id : 1..(MaxEvents + 1), part : {"print", "event"}]

EventsOK ==
    /\ event \in [Emitters -> Event]
    /\ received \in Seq(Receipt)

LEMMA TypeParts == TypeOK /\ CountOK <=> PlainOK /\ LockOK /\ EventsOK /\ CountOK
BY DEF TypeOK, PlainOK, LockOK, EventsOK, CountOK, Event, Kinds, Receipt

----------------------------------------------------------------------------
(* The kinds of steps, as the emitters and the loop see them.                 *)

Emits(t) ==
    \E kind \in Kinds :
        /\ mu = Free /\ mu' = t /\ count' = count + 1
        /\ event' = [event EXCEPT ![t] = [id |-> count + 1, kind |-> kind]]
        /\ Goto(t, IF HasText(kind) THEN "print" ELSE "sending")
        /\ UNCHANGED <<received, drawn>>
        /\ \/ t = Updater /\ pc[t] = "found" /\ kind = "UpdateAvailable"
           \/ t # Updater /\ pc[t] = "idle" /\ count < MaxEvents

\* One step through the sink: from one place to the next.
Passes(t, from, to) ==
    /\ pc[t] = from /\ Goto(t, to)
    /\ UNCHANGED <<mu, event, count, drawn>>

Sinking(t) ==
    \/ Passes(t, "print", "printing") /\ drawn /\ UNCHANGED received
    \/ Passes(t, "printing", "printed") /\ Receive(t, "print")
    \/ Passes(t, "printed", "sending") /\ UNCHANGED received
    \/ Passes(t, "sending", "sent") /\ Receive(t, "event")

Returned(t) ==
    /\ pc[t] \in Sinks /\ (t = Updater => pc[t] \in {"sending", "sent"})
    /\ mu' = Free
    /\ \E ok \in BOOLEAN : Goto(t, AfterEmit(t, ok)) /\ (t = Updater => ok)
    /\ UNCHANGED <<event, count, received, drawn>>

\* Outside the sink: listen's end and the update check's.
Elsewhere ==
    /\ \/ pc[Listener] \in {"idle"} \cup Leaving /\ \E to \in Leaving : Goto(Listener, to)
       \/ pc[Updater] = "checking" /\ \E to \in {"found", "done"} : Goto(Updater, to)
    /\ UNCHANGED <<mu, event, count, received, drawn>>

Quiet == UNCHANGED <<mu, pc, event, count, received>> /\ (drawn => drawn')

LEMMA EmitterSteps ==
    ASSUME PlacesOK, [Next]_vars
    PROVE  \/ \E t \in Emitters : Emits(t) \/ Sinking(t) \/ Returned(t)
           \/ Elsewhere
           \/ Quiet
<1> USE DEF program
<1>1. CASE Run \/ Draw \/ FirstCtrlC \/ SecondCtrlC \/ Fail \/ Close \/ Signal \/ Exit \/ UNCHANGED vars
    BY <1>1 DEF Quiet, Run, Draw, FirstCtrlC, SecondCtrlC, Fail, Close, Signal, Exit, vars
<1>2. CASE ListenerEmits
    <2>1. Listener \in Emitters /\ Listener # Updater
        BY EmittersAssumption DEF Emitters
    <2>2. Emits(Listener)
        BY <1>2, <2>1 DEF ListenerEmits, Emit, CanLock, Emits, Kinds
    <2>3. QED
        BY <2>1, <2>2
<1>3. CASE UpdaterEmits
    BY <1>3 DEF UpdaterEmits, Emit, CanLock, Emits, Kinds, Emitters
<1>4. ASSUME NEW t \in Replays, ReplayEmits(t)
      PROVE  \E u \in Emitters : Emits(u)
    <2>1. t \in Emitters /\ t # Updater
        BY EmittersAssumption DEF Emitters
    <2>2. Emits(t)
        BY <1>4, <2>1 DEF ReplayEmits, Emit, CanLock, Emits, Kinds
    <2>3. QED
        BY <2>1, <2>2
<1>5. CASE Listening
    <2>1. CASE ListenReturns
        BY <2>1 DEF ListenReturns, Elsewhere, Leaving
    <2>2. CASE StopCheck \/ QuitEnded
        BY <2>2 DEF StopCheck, QuitEnded, ListenTo, Elsewhere, Leaving
    <2>3. CASE ReceiveStopped \/ ReceiveQuit
        BY <2>3 DEF ReceiveStopped, ReceiveQuit, Elsewhere, Leaving
    <2>4. QED
        BY <1>5, <2>1, <2>2, <2>3 DEF Listening
<1>6. CASE CheckDone
    BY <1>6 DEF CheckDone, Elsewhere
<1>7. ASSUME NEW t \in Emitters, Emitting(t) \/ Receiving(t)
      PROVE  Sinking(t) \/ Returned(t)
    <2>0. t = Updater => pc[t] \in {"checking", "found", "sending", "sent", "done"}
        BY DEF PlacesOK
    <2>1. CASE Println(t)
        <3>1. CASE /\ pc[t] = "print" /\ drawn /\ Goto(t, "printing")
                   /\ UNCHANGED <<program, mu, event, count>>
            BY <3>1 DEF Sinking, Passes
        <3>2. CASE pc[t] \in {"print", "printing", "printed"} /\ Returns(t, FALSE)
            BY <2>0, <3>2 DEF Returns, Returned, Sinks
        <3>3. QED
            BY <2>1, <3>1, <3>2 DEF Println
    <2>2. CASE Printed(t)
        BY <2>2 DEF Printed, Sinking, Passes
    <2>3. CASE Send(t)
        BY <2>3 DEF Send, Returns, Returned, Sinks
    <2>4. CASE Receiving(t)
        BY <2>4 DEF Receiving, ReceivePrint, ReceiveEvent, Sinking, Passes, Receive
    <2>5. QED
        BY <1>7, <2>1, <2>2, <2>3, <2>4 DEF Emitting
<1>8. QED
    BY <1>1, <1>2, <1>3, <1>4, <1>5, <1>6, <1>7 DEF Next

----------------------------------------------------------------------------
(* Who holds Session.mu, and where each emitter is.                           *)

LEMMA Goes ==
    ASSUME pc \in [Emitters -> Places], NEW t \in Emitters, NEW to \in Places, Goto(t, to)
    PROVE  /\ pc' \in [Emitters -> Places]
           /\ pc'[t] = to /\ \A u \in Emitters : u # t => pc'[u] = pc[u]
BY DEF Goto

LEMMA Apart ==
    /\ Listener \in Emitters /\ Updater \in Emitters /\ Listener # Updater
    /\ Replays \subseteq Emitters /\ Listener \notin Replays /\ Updater \notin Replays
    /\ Free \notin Emitters /\ MaxEvents \in Nat
    /\ \A t \in Emitters : t = Listener \/ t = Updater \/ t \in Replays
BY EmittersAssumption DEF Emitters

LEMMA AfterEmitFacts ==
    ASSUME NEW t \in Emitters, NEW ok \in BOOLEAN
    PROVE  /\ t = Listener => AfterEmit(t, ok) \in {"idle", "unwind"}
           /\ t # Listener => AfterEmit(t, ok) = "done"
BY Apart DEF AfterEmit

\* One emitter's move keeps the places and the lock.
LEMMA MoveKeeps ==
    ASSUME LockOK, PlacesOK, drawn => drawn', NEW t \in Emitters, NEW to \in Places, Goto(t, to),
           t = Listener => to \in {"idle"} \cup Sinks \cup Leaving,
           t = Updater => to \in {"checking", "found", "sending", "sent", "done"},
           t \in Replays => to \in {"idle", "done"} \cup Sinks,
           to \in {"printing", "printed"} => drawn',
           \/ to \in Sinks /\ mu' = t /\ mu \in {t, Free}
           \/ to \notin Sinks /\ mu' = Free /\ mu \in {t, Free}
           \/ to \notin Sinks /\ mu' = mu /\ pc[t] \notin Sinks
    PROVE  LockOK' /\ PlacesOK'
<1>1. /\ pc' \in [Emitters -> Places] /\ mu \in Emitters \cup {Free}
      /\ pc'[t] = to /\ \A u \in Emitters : u # t => pc'[u] = pc[u]
    BY Goes DEF LockOK
<1>2. PlacesOK'
    <2>1. pc'[Listener] \in {"idle"} \cup Sinks \cup Leaving
        BY <1>1, Apart DEF PlacesOK
    <2>2. pc'[Updater] \in {"checking", "found", "sending", "sent", "done"}
        BY <1>1, Apart DEF PlacesOK
    <2>3. \A u \in Replays : pc'[u] \in {"idle", "done"} \cup Sinks
        BY <1>1, Apart DEF PlacesOK
    <2>4. \A u \in Emitters : pc'[u] \in {"printing", "printed"} => drawn'
        BY <1>1 DEF PlacesOK
    <2>5. QED
        BY <2>1, <2>2, <2>3, <2>4 DEF PlacesOK
<1>3. \A u \in Emitters : pc[u] \in Sinks <=> mu = u
    BY DEF LockOK, Holding, Sinks
<1>4. mu' \in Emitters \cup {Free}
    BY <1>1
<1>5. \A u \in Emitters : pc'[u] \in Sinks <=> mu' = u
    BY <1>1, <1>3, Apart
<1>6. QED
    BY <1>1, <1>2, <1>4, <1>5 DEF LockOK, Holding, Sinks

LEMMA LockStep ==
    ASSUME LockOK, PlacesOK, [Next]_vars
    PROVE  LockOK' /\ PlacesOK'
<1>1. /\ \A t \in Emitters : pc[t] \in Sinks <=> mu = t
      /\ \A t \in Emitters : t # Updater => pc[t] \notin {"checking", "found"}
      /\ \A t \in Emitters : pc[t] \in {"printing", "printed"} => drawn
      /\ pc[Updater] \in {"checking", "found", "sending", "sent", "done"}
    BY Apart DEF LockOK, PlacesOK, Holding, Sinks, Leaving
<1>2. ASSUME NEW t \in Emitters, Emits(t)
      PROVE  LockOK' /\ PlacesOK'
    <2>1. PICK to \in {"print", "sending"} :
            /\ Goto(t, to) /\ mu = Free /\ mu' = t /\ drawn' = drawn
            /\ t = Updater => to = "sending"
        BY <1>2 DEF Emits, HasText
    <2>2. to \in Places /\ to \in Sinks
        BY DEF Places, Sinks
    <2>3. QED
        BY <2>1, <2>2, MoveKeeps
<1>3. ASSUME NEW t \in Emitters, Sinking(t)
      PROVE  LockOK' /\ PlacesOK'
    <2>1. PICK to \in {"printing", "printed", "sending", "sent"} :
            /\ Goto(t, to) /\ mu' = mu /\ pc[t] \in Sinks /\ drawn' = drawn
            /\ to \in {"printing", "printed"} => drawn
            /\ t = Updater => to = "sent"
        BY <1>1, <1>3 DEF Sinking, Passes, Sinks
    <2>2. mu = t /\ to \in Places /\ to \in Sinks
        BY <1>1, <2>1 DEF Places, Sinks
    <2>3. QED
        BY <2>1, <2>2, MoveKeeps
<1>4. ASSUME NEW t \in Emitters, Returned(t)
      PROVE  LockOK' /\ PlacesOK'
    <2>1. PICK ok \in BOOLEAN : Goto(t, AfterEmit(t, ok))
        BY <1>4 DEF Returned
    <2>2. PICK to : to = AfterEmit(t, ok)
        OBVIOUS
    <2>3. /\ t = Listener => to \in {"idle", "unwind"}
          /\ t # Listener => to = "done"
        BY <2>2, AfterEmitFacts
    <2>4. mu = t /\ mu' = Free /\ drawn' = drawn
        BY <1>1, <1>4 DEF Returned
    <2>5. to \in Places /\ to \notin Sinks /\ to \in {"idle", "unwind", "done"}
        BY <2>3 DEF Places, Sinks
    <2>6. Goto(t, to)
        BY <2>1, <2>2
    <2>7. t \in Replays => t # Listener
        BY Apart
    <2>8. t = Updater => t # Listener
        BY Apart
    <2>9. QED
        BY <2>3, <2>4, <2>5, <2>6, <2>7, <2>8, MoveKeeps DEF Leaving
<1>5. CASE Elsewhere
    <2>1. CASE pc[Listener] \in {"idle"} \cup Leaving /\ \E to \in Leaving : Goto(Listener, to)
        <3>1. PICK to \in Leaving : Goto(Listener, to)
            BY <2>1
        <3>2. to \in Places /\ to \notin Sinks /\ pc[Listener] \notin Sinks
            BY <2>1 DEF Places, Sinks, Leaving
        <3>3. mu' = mu /\ drawn' = drawn /\ to \notin {"printing", "printed"}
            BY <1>5 DEF Elsewhere, Leaving
        <3>4. QED
            BY <3>1, <3>2, <3>3, Apart, MoveKeeps
    <2>2. CASE pc[Updater] = "checking" /\ \E to \in {"found", "done"} : Goto(Updater, to)
        <3>1. PICK to \in {"found", "done"} : Goto(Updater, to)
            BY <2>2
        <3>2. to \in Places /\ to \notin Sinks /\ pc[Updater] \notin Sinks
            BY <2>2 DEF Places, Sinks
        <3>3. mu' = mu /\ drawn' = drawn
            BY <1>5 DEF Elsewhere
        <3>4. QED
            BY <3>1, <3>2, <3>3, Apart, MoveKeeps
    <2>3. QED
        BY <1>5, <2>1, <2>2 DEF Elsewhere
<1>6. CASE Quiet
    BY <1>6 DEF Quiet, LockOK, PlacesOK, Holding
<1>7. QED
    BY <1>2, <1>3, <1>4, <1>5, <1>6, EmitterSteps

----------------------------------------------------------------------------
(* What the loop received.                                                    *)

LEMMA CountStep ==
    ASSUME LockOK, PlacesOK, CountOK, [Next]_vars
    PROVE  CountOK'
<1>1. pc \in [Emitters -> Places] /\ pc' \in [Emitters -> Places]
    BY LockStep DEF LockOK
<1>2. ASSUME NEW t \in Emitters, Emits(t)
      PROVE  CountOK'
    <2>1. PICK to \in {"print", "sending"} : Goto(t, to)
        BY <1>2 DEF Emits, HasText
    <2>2. count' = count + 1 /\ count \in 0..(MaxEvents + 1) /\ MaxEvents \in Nat
        BY <1>2, Apart DEF Emits, CountOK
    <2>3. CASE t = Updater
        <3>1. pc[Updater] = "found" /\ pc'[Updater] = to
            BY <1>1, <1>2, <2>1, <2>3, Apart DEF Emits, Goto
        <3>2. QED
            BY <2>2, <3>1 DEF CountOK
    <2>4. CASE t # Updater
        <3>1. count < MaxEvents
            BY <1>2, <2>4 DEF Emits
        <3>2. QED
            BY <2>2, <3>1 DEF CountOK
    <2>5. QED
        BY <2>3, <2>4
<1>3. ASSUME count' = count, pc'[Updater] \in {"checking", "found"} => pc[Updater] \in {"checking", "found"}
      PROVE  CountOK'
    BY <1>3 DEF CountOK
<1>4. ASSUME NEW t \in Emitters, Sinking(t)
      PROVE  CountOK'
    <2>1. PICK to \in {"printing", "printed", "sending", "sent"} : Goto(t, to) /\ count' = count
        BY <1>4 DEF Sinking, Passes
    <2>2. pc'[Updater] \in {pc[Updater], to}
        BY <1>1, <2>1, Apart DEF Goto
    <2>3. QED
        BY <1>3, <2>1, <2>2
<1>5. ASSUME NEW t \in Emitters, Returned(t)
      PROVE  CountOK'
    <2>1. PICK ok \in BOOLEAN : Goto(t, AfterEmit(t, ok)) /\ count' = count
        BY <1>5 DEF Returned
    <2>2. AfterEmit(t, ok) \in {"idle", "unwind", "done"}
        BY AfterEmitFacts
    <2>3. pc'[Updater] \in {pc[Updater], AfterEmit(t, ok)}
        BY <1>1, <2>1, Apart DEF Goto
    <2>4. QED
        BY <1>3, <2>1, <2>2, <2>3
<1>6. CASE Elsewhere
    BY <1>1, <1>3, <1>6, Apart DEF Elsewhere, Goto
<1>7. CASE Quiet
    BY <1>3, <1>7 DEF Quiet
<1>8. QED
    BY <1>2, <1>4, <1>5, <1>6, <1>7, EmitterSteps

LEMMA AppendFacts ==
    ASSUME NEW S, NEW s \in Seq(S), NEW e \in S
    PROVE  /\ Append(s, e) \in Seq(S) /\ Len(Append(s, e)) = Len(s) + 1 /\ Len(s) \in Nat
           /\ \A i \in 1..Len(s) : Append(s, e)[i] = s[i]
           /\ Append(s, e)[Len(s) + 1] = e
OBVIOUS

ReceivedInv == EventsOK /\ NewestOK /\ CardsInOrder

\* Nothing arrives, and who holds the lock goes on.
LEMMA ReceivedStays ==
    ASSUME ReceivedInv, UNCHANGED <<received, event, count>>, drawn => drawn',
           \A t \in Emitters : Holding(t)' => Holding(t),
           \A t \in Emitters : pc'[t] = "print" => pc[t] = "print",
           \A t \in Emitters : pc'[t] = "printing" => pc[t] \in {"print", "printing"},
           \A t \in Emitters : pc'[t] \in {"printed", "sending"} => pc[t] \in {"printed", "sending"}
    PROVE  ReceivedInv'
<1>1. EventsOK'
    BY DEF ReceivedInv, EventsOK
<1>2. NewestOK'
    BY DEF ReceivedInv, NewestOK
<1>3. CardsInOrder'
    BY DEF ReceivedInv, CardsInOrder
<1>4. QED
    BY <1>1, <1>2, <1>3 DEF ReceivedInv

\* The lock's holder has the loop take its event, or its card before that.
LEMMA ReceivedArrives ==
    ASSUME ReceivedInv, LockOK, PlacesOK, CountOK, NEW t \in Emitters, NEW part,
           \/ Passes(t, "printing", "printed") /\ part = "print"
           \/ Passes(t, "sending", "sent") /\ part = "event",
           Receive(t, part)
    PROVE  ReceivedInv'
<1> DEFINE r == [id |-> event[t].id, part |-> part]
<1>1. /\ received \in Seq(Receipt) /\ event \in [Emitters -> Event] /\ count \in 0..(MaxEvents + 1)
      /\ pc \in [Emitters -> Places] /\ MaxEvents \in Nat
    BY Apart DEF ReceivedInv, EventsOK, LockOK, CountOK
<1>2. /\ Holding(t) /\ mu = t /\ UNCHANGED <<mu, event, count, drawn>>
      /\ pc'[t] \in {"printed", "sent"} /\ \A u \in Emitters : u # t => pc'[u] = pc[u]
    BY <1>1 DEF Passes, Goto, LockOK, Holding
<1>3. \A u \in Emitters : u # t => ~ Holding(u)
    BY <1>2 DEF LockOK
<1>4. r.id = count /\ count > 0 /\ r.part = part /\ part \in {"print", "event"}
    BY <1>2 DEF ReceivedInv, NewestOK
<1>5. r \in Receipt
    BY <1>1, <1>4 DEF Receipt
<1> HIDE DEF r
<1>6. /\ received' \in Seq(Receipt)
      /\ Len(received') = Len(received) + 1 /\ Len(received) \in Nat
      /\ \A i \in 1..Len(received) : received'[i] = received[i]
      /\ received'[Len(received) + 1] = r
    BY <1>1, <1>5, AppendFacts DEF Receive, r
<1>7. EventsOK'
    BY <1>1, <1>2, <1>6 DEF EventsOK
<1>8. \A i \in 1..Len(received) : received[i].id <= count /\ received[i].id \in Nat
    <2>1. \A i \in 1..Len(received) : received[i] \in Receipt
        BY <1>1
    <2>2. QED
        BY <2>1 DEF ReceivedInv, NewestOK, Receipt
<1>9. \A i \in 1..Len(received) : received[i].id = count => received[i].part = "print" /\ part = "event"
    BY DEF ReceivedInv, NewestOK, Passes
<1>10. NewestOK'
    <2>1. \A i \in 1..Len(received') : received'[i].id <= count
        BY <1>1, <1>4, <1>6, <1>8
    <2>2. \A u \in Emitters : Holding(u)' => event'[u].id = count /\ count > 0
        <3> SUFFICES ASSUME NEW u \in Emitters, Holding(u)' PROVE event[u].id = count /\ count > 0
            BY <1>2
        <3>1. u = t
            BY <1>2, <1>3 DEF Holding
        <3>2. QED
            BY <1>2, <3>1 DEF ReceivedInv, NewestOK
    <2>3. ASSUME NEW u \in Emitters, NEW i \in 1..Len(received'), received'[i].id = count
          PROVE  /\ pc'[u] \notin {"print", "printing"}
                 /\ pc'[u] \in {"printed", "sending"} => received'[i].part = "print"
        <3>1. CASE u # t
            BY <1>2, <1>3, <3>1 DEF Holding
        <3>2. CASE u = t
            <4>1. pc'[t] \in {"printed", "sending"} => part = "print"
                BY <1>1 DEF Passes, Goto
            <4>2. i \in 1..Len(received) => received'[i].part = "print"
                BY <1>6, <1>9, <2>3
            <4>3. i \notin 1..Len(received) => received'[i] = r
                BY <1>6
            <4>4. QED
                BY <1>2, <1>4, <3>2, <4>1, <4>2, <4>3
        <3>3. QED
            BY <3>1, <3>2
    <2>4. QED
        BY <1>2, <2>1, <2>2, <2>3 DEF NewestOK
<1>11. CardsInOrder'
    <2>1. ASSUME ~ drawn', NEW i \in 1..Len(received')
          PROVE  received'[i].part = "event"
        <3>1. part = "event"
            BY <1>2, <2>1 DEF PlacesOK, Passes
        <3>2. CASE i \in 1..Len(received)
            <4>1. received # <<>>
                BY <1>6, <3>2
            <4>2. QED
                BY <1>2, <1>6, <2>1, <3>2, <4>1 DEF ReceivedInv, CardsInOrder
        <3>3. CASE i \notin 1..Len(received)
            BY <1>4, <1>6, <3>1, <3>3
        <3>4. QED
            BY <3>2, <3>3
    <2>2. ASSUME NEW i \in 1..Len(received'), NEW j \in 1..Len(received'), i < j
          PROVE  \/ received'[i].id < received'[j].id
                 \/ /\ received'[i].id = received'[j].id
                    /\ received'[i].part = "print" /\ received'[j].part = "event"
        <3>1. i \in 1..Len(received) /\ received'[i] = received[i]
            BY <1>6, <2>2
        <3>2. CASE j \in 1..Len(received)
            BY <1>6, <2>2, <3>1, <3>2 DEF ReceivedInv, CardsInOrder
        <3>3. CASE j \notin 1..Len(received)
            <4>1. received'[j] = r
                BY <1>6, <3>3
            <4>2. QED
                BY <1>1, <1>4, <1>8, <1>9, <3>1, <4>1
        <3>4. QED
            BY <3>2, <3>3
    <2>3. QED
        BY <2>1, <2>2 DEF CardsInOrder
<1>12. QED
    BY <1>7, <1>10, <1>11 DEF ReceivedInv

LEMMA ReceivedStep ==
    ASSUME ReceivedInv, LockOK, PlacesOK, CountOK, [Next]_vars
    PROVE  ReceivedInv'
<1>1. pc \in [Emitters -> Places] /\ LockOK' /\ CountOK'
    BY LockStep, CountStep DEF LockOK
<1>2. ASSUME NEW t \in Emitters, Emits(t)
      PROVE  ReceivedInv'
    <2>1. PICK kind \in Kinds :
            /\ event' = [event EXCEPT ![t] = [id |-> count + 1, kind |-> kind]]
            /\ count' = count + 1 /\ mu' = t /\ UNCHANGED <<received, drawn>>
        BY <1>2 DEF Emits
    <2>2. /\ count' \in 0..(MaxEvents + 1) /\ count \in 0..(MaxEvents + 1) /\ MaxEvents \in Nat
          /\ event \in [Emitters -> Event] /\ received \in Seq(Receipt)
        BY <1>1, Apart DEF CountOK, ReceivedInv, EventsOK
    <2>3. [id |-> count + 1, kind |-> kind] \in Event
        BY <2>1, <2>2 DEF Event
    <2>4. event' \in [Emitters -> Event] /\ event'[t].id = count'
        BY <2>1, <2>2, <2>3
    <2>5. \A i \in 1..Len(received) : received[i].id <= count /\ received[i].id \in Nat
        <3>1. \A i \in 1..Len(received) : received[i] \in Receipt
            BY <2>2
        <3>2. QED
            BY <3>1 DEF ReceivedInv, NewestOK, Receipt
    <2>6. \A i \in 1..Len(received) : received[i].id <= count' /\ received[i].id # count'
        BY <2>1, <2>2, <2>5
    <2>7. \A u \in Emitters : Holding(u)' => event'[u].id = count' /\ count' > 0
        <3>1. \A u \in Emitters : Holding(u)' => mu' = u
            BY <1>1 DEF LockOK
        <3>2. QED
            BY <2>1, <2>2, <2>4, <3>1
    <2>8. NewestOK'
        BY <2>1, <2>6, <2>7 DEF NewestOK
    <2>9. CardsInOrder'
        BY <2>1 DEF ReceivedInv, CardsInOrder
    <2>10. QED
        BY <2>1, <2>2, <2>4, <2>8, <2>9 DEF ReceivedInv, EventsOK
<1>3. ASSUME NEW t \in Emitters, Sinking(t)
      PROVE  ReceivedInv'
    <2>1. CASE Passes(t, "printing", "printed") /\ Receive(t, "print")
        BY <2>1, ReceivedArrives
    <2>2. CASE Passes(t, "sending", "sent") /\ Receive(t, "event")
        BY <2>2, ReceivedArrives
    <2>3. CASE Passes(t, "print", "printing") /\ UNCHANGED received
        <3>1. \A u \in Emitters : pc'[u] = IF u = t THEN "printing" ELSE pc[u]
            BY <1>1, <2>3 DEF Passes, Goto
        <3>2. QED
            BY <2>3, <3>1, ReceivedStays DEF Passes, Holding
    <2>4. CASE Passes(t, "printed", "sending") /\ UNCHANGED received
        <3>1. \A u \in Emitters : pc'[u] = IF u = t THEN "sending" ELSE pc[u]
            BY <1>1, <2>4 DEF Passes, Goto
        <3>2. QED
            BY <2>4, <3>1, ReceivedStays DEF Passes, Holding
    <2>5. QED
        BY <1>3, <2>1, <2>2, <2>3, <2>4 DEF Sinking
<1>4. ASSUME NEW t \in Emitters, Returned(t)
      PROVE  ReceivedInv'
    <2>1. PICK ok \in BOOLEAN : Goto(t, AfterEmit(t, ok))
        BY <1>4 DEF Returned
    <2>2. AfterEmit(t, ok) \notin Sinks
        BY AfterEmitFacts DEF Sinks
    <2>3. \A u \in Emitters : pc'[u] = IF u = t THEN AfterEmit(t, ok) ELSE pc[u]
        BY <1>1, <2>1 DEF Goto
    <2>4. QED
        BY <1>4, <2>2, <2>3, ReceivedStays DEF Returned, Holding, Sinks
<1>5. CASE Elsewhere
    <2>1. \A u \in Emitters : pc'[u] = pc[u] \/ pc'[u] \notin Sinks
        BY <1>1, <1>5, Apart DEF Elsewhere, Goto, Sinks, Leaving
    <2>2. QED
        BY <1>5, <2>1, ReceivedStays DEF Elsewhere, Holding, Sinks
<1>6. CASE Quiet
    BY <1>6, ReceivedStays DEF Quiet, Holding
<1>7. QED
    BY <1>2, <1>3, <1>4, <1>5, <1>6, EmitterSteps

----------------------------------------------------------------------------
(* How it ends.                                                               *)

End == PlainOK /\ LockOK /\ PlacesOK /\ ShutdownOK /\ StateOK

\* A move of an emitter other than the listener's to its end, and no new result.
LEMMA EndKeeps ==
    ASSUME End, NEW t \in Emitters, NEW to \in Places, Goto(t, to),
           t = Listener => to \notin Leaving /\ pc[Listener] \notin Leaving,
           pc[Updater] = "done" => t # Updater,
           UNCHANGED <<loop, failed, cancelled, stopping, fullscreen, result, exit>>,
           state' = state \/ \E kind : state' = StateAfter(kind)
    PROVE  ShutdownOK' /\ StateOK'
<1>1. /\ pc' \in [Emitters -> Places]
      /\ pc'[t] = to /\ \A u \in Emitters : u # t => pc'[u] = pc[u]
    BY Goes DEF End, LockOK
<1>2. /\ pc'[Listener] \in Leaving <=> pc[Listener] \in Leaving
      /\ pc[Listener] \in Leaving => pc'[Listener] = pc[Listener]
      /\ pc[Updater] = "done" => pc'[Updater] = "done"
    BY <1>1, Apart
<1>3. ShutdownOK'
    BY <1>2 DEF End, ShutdownOK, Leaving
<1>4. state \in {"stopping", "stopped"} => state' = state
    BY DEF StateAfter, Follow
<1>5. StateOK'
    BY <1>2, <1>4 DEF End, StateOK, Leaving
<1>6. QED
    BY <1>3, <1>5

LEMMA EndEmits ==
    ASSUME End, [Next]_vars,
           ListenerEmits \/ UpdaterEmits \/ CheckDone \/ \E t \in Replays : ReplayEmits(t)
    PROVE  ShutdownOK' /\ StateOK'
<1>1. ASSUME NEW t \in Emitters, NEW kind, Emit(t, kind), pc[t] \in {"idle", "found"}
      PROVE  ShutdownOK' /\ StateOK'
    <2>1. PICK to \in {"print", "sending"} : Goto(t, to)
        BY <1>1 DEF Emit
    <2>2. to \in Places /\ to \notin Leaving /\ pc[t] \notin Leaving
        BY <1>1 DEF Places, Leaving
    <2>3. UNCHANGED <<loop, failed, cancelled, stopping, fullscreen, result, exit, state>>
        BY <1>1 DEF Emit, program
    <2>4. pc[Updater] = "done" => t # Updater
        BY <1>1
    <2>5. t = Listener => pc[Listener] \notin Leaving
        BY <2>2
    <2>6. QED
        BY <2>1, <2>2, <2>3, <2>4, <2>5, EndKeeps
<1>2. CASE CheckDone
    <2>1. PICK to \in {"done", "found"} : Goto(Updater, to)
        BY <1>2 DEF CheckDone
    <2>2. to \in Places /\ pc[Updater] = "checking" /\ Updater # Listener /\ Updater \in Emitters
        BY <1>2, Apart DEF CheckDone, Places
    <2>3. UNCHANGED <<loop, failed, cancelled, stopping, fullscreen, result, exit, state>>
        BY <1>2 DEF CheckDone, program
    <2>4. QED
        BY <2>1, <2>2, <2>3, EndKeeps
<1>3. CASE ListenerEmits \/ UpdaterEmits \/ \E t \in Replays : ReplayEmits(t)
    BY <1>1, <1>3, Apart DEF ListenerEmits, UpdaterEmits, ReplayEmits
<1>4. QED
    BY <1>2, <1>3

LEMMA EndSinks ==
    ASSUME End, NEW t \in Emitters, Emitting(t) \/ Receiving(t)
    PROVE  ShutdownOK' /\ StateOK'
<1> USE DEF program
<1>1. CASE ReceivePrint(t) \/ ReceiveEvent(t) \/ Printed(t)
           \/ (Println(t) /\ Goto(t, "printing"))
    <2>1. PICK to \in {"printing", "printed", "sending", "sent"} :
            Goto(t, to) /\ pc[t] \in {"print", "printing", "printed", "sending"}
        BY <1>1 DEF ReceivePrint, ReceiveEvent, Printed, Println
    <2>2. to \in Places /\ to \notin Leaving /\ pc[t] \notin Leaving /\ pc[t] # "done"
        BY <2>1 DEF Places, Leaving
    <2>3. state' = state \/ \E kind : state' = StateAfter(kind)
        BY <1>1 DEF ReceivePrint, ReceiveEvent, Printed, Println, Returns
    <2>4. CASE ~ (Println(t) /\ Goto(t, "printing"))
        <3>1. UNCHANGED <<loop, failed, cancelled, stopping, fullscreen, result, exit>>
            BY <1>1, <2>4 DEF ReceivePrint, ReceiveEvent, Printed
        <3>2. QED
            BY <2>1, <2>2, <2>3, <3>1, EndKeeps
    <2>5. CASE /\ pc[t] = "print" /\ drawn /\ Goto(t, "printing")
               /\ UNCHANGED <<fullscreen, program, cancelled, result, exit>>
        <3>1. UNCHANGED <<loop, failed, cancelled, stopping, fullscreen, result, exit>>
            BY <2>5
        <3>2. QED
            BY <2>1, <2>2, <2>3, <3>1, EndKeeps
    <2>6. ASSUME Goto(t, "printing"), Returns(t, FALSE)
          PROVE  FALSE
        <3>1. pc \in [Emitters -> Places] /\ AfterEmit(t, FALSE) \in {"idle", "unwind", "done"}
            BY AfterEmitFacts DEF End, LockOK
        <3>2. QED
            BY <2>6, <3>1 DEF Returns, Goto
    <2>7. QED
        BY <1>1, <2>4, <2>5, <2>6 DEF Println
<1>2. ASSUME NEW ok \in BOOLEAN, Returns(t, ok), pc[t] \in Sinks, ~ ok => cancelled,
             t = Updater => ok
      PROVE  ShutdownOK' /\ StateOK'
    <2>1. PICK to : to = AfterEmit(t, ok)
        OBVIOUS
    <2>2. /\ t = Listener => to \in {"idle", "unwind"}
          /\ t # Listener => to = "done"
          /\ t = Listener => to = IF ok THEN "idle" ELSE "unwind"
        BY <2>1, AfterEmitFacts, Apart DEF AfterEmit
    <2>3. to \in Places /\ pc[t] # "done" /\ pc[t] \notin Leaving
        BY <1>2, <2>2 DEF Places, Sinks, Leaving
    <2>4. Goto(t, to) /\ UNCHANGED <<loop, failed, cancelled, stopping, fullscreen, exit, state>>
        BY <1>2, <2>1 DEF Returns
    <2>5. CASE t # Listener \/ ok
        <3>1. UNCHANGED result
            BY <1>2, <2>5 DEF Returns
        <3>2. t = Listener => to \notin Leaving
            BY <2>2, <2>5 DEF Leaving
        <3>3. QED
            BY <2>3, <2>4, <3>1, <3>2, EndKeeps
    <2>6. CASE t = Listener /\ ~ ok
        <3>1. /\ pc' \in [Emitters -> Places]
              /\ pc'[Listener] = "unwind" /\ pc'[Updater] = pc[Updater]
            BY <2>2, <2>3, <2>4, <2>6, Goes, Apart DEF End, LockOK
        <3>2. result' = "cancelled"
            BY <1>2, <2>6 DEF Returns
        <3>3. ShutdownOK'
            BY <2>3, <2>4, <2>6, <3>1, <3>2 DEF End, ShutdownOK, Leaving
        <3>4. StateOK'
            BY <2>4, <3>1 DEF End, StateOK
        <3>5. QED
            BY <3>3, <3>4
    <2>7. QED
        BY <2>5, <2>6
<1>3. CASE Send(t)
    BY <1>2, <1>3 DEF Send, Sinks
<1>4. CASE pc[t] \in {"print", "printing", "printed"} /\ Finished /\ Returns(t, FALSE)
    <2>1. cancelled
        BY <1>4 DEF End, ShutdownOK, Finished
    <2>2. t # Updater
        BY <1>4 DEF End, PlacesOK
    <2>3. QED
        BY <1>2, <1>4, <2>1, <2>2 DEF Sinks
<1>5. CASE Println(t)
    <2>1. \/ Goto(t, "printing")
          \/ pc[t] \in {"print", "printing", "printed"} /\ Finished /\ Returns(t, FALSE)
        BY <1>5 DEF Println
    <2>2. QED
        BY <1>1, <1>4, <1>5, <2>1
<1>6. QED
    BY <1>1, <1>3, <1>5 DEF Emitting, Receiving

LEMMA EndListens ==
    ASSUME End, Listening
    PROVE  ShutdownOK' /\ StateOK'
<1> USE DEF program
<1>0. pc \in [Emitters -> Places] /\ Listener \in Emitters /\ Updater # Listener /\ Updater \in Emitters
    BY Apart DEF End, LockOK
<1>1. CASE ListenReturns
    <2>1. pc'[Listener] = "unwind" /\ result' \in {"cancelled", "fatal"}
        BY <1>0, <1>1 DEF ListenReturns, Goto
    <2>2. QED
        BY <1>1, <2>1 DEF ListenReturns, End, ShutdownOK, StateOK, Leaving
<1>2. CASE StopCheck
    <2>1. pc'[Listener] = "stopped" /\ pc'[Updater] = "done"
        BY <1>0, <1>2 DEF StopCheck, ListenTo, Goto
    <2>2. QED
        BY <1>2, <2>1 DEF StopCheck, ListenTo, End, ShutdownOK, StateOK, Leaving
<1>3. CASE QuitEnded
    <2>1. pc'[Listener] = "listened" /\ pc'[Updater] = pc[Updater]
        BY <1>0, <1>3 DEF QuitEnded, ListenTo, Goto
    <2>2. failed
        BY <1>3 DEF QuitEnded, End, ShutdownOK, Over
    <2>3. QED
        BY <1>3, <2>1, <2>2 DEF QuitEnded, ListenTo, End, ShutdownOK, StateOK, Leaving
<1>4. CASE ReceiveStopped
    <2>1. pc'[Listener] = "quit" /\ pc'[Updater] = pc[Updater]
        BY <1>0, <1>4 DEF ReceiveStopped, Goto
    <2>2. QED
        BY <1>4, <2>1 DEF ReceiveStopped, Running, End, ShutdownOK, StateOK, Leaving, Over
<1>5. CASE ReceiveQuit
    <2>1. pc'[Listener] = "listened" /\ pc'[Updater] = pc[Updater]
        BY <1>0, <1>5 DEF ReceiveQuit, Goto
    <2>2. QED
        BY <1>5, <2>1 DEF ReceiveQuit, Running, End, ShutdownOK, StateOK, Leaving, Over
<1>6. QED
    BY <1>1, <1>2, <1>3, <1>4, <1>5 DEF Listening

LEMMA EndElsewhere ==
    ASSUME End, Run \/ Draw \/ FirstCtrlC \/ SecondCtrlC \/ Fail \/ Close \/ Signal \/ Exit
                \/ UNCHANGED vars
    PROVE  ShutdownOK' /\ StateOK'
<1> USE DEF End, ShutdownOK, StateOK, program, Running, Over
<1>1. CASE Run \/ Draw \/ SecondCtrlC \/ Signal
    BY <1>1 DEF Run, Draw, SecondCtrlC, Signal
<1>2. CASE FirstCtrlC \/ Fail
    BY <1>2 DEF FirstCtrlC, Fail
<1>3. CASE Close
    BY <1>3 DEF Close
<1>4. CASE Exit
    BY <1>4 DEF Exit
<1>5. CASE UNCHANGED vars
    BY <1>5 DEF vars
<1>6. QED
    BY <1>1, <1>2, <1>3, <1>4, <1>5

LEMMA EndStep ==
    ASSUME End, [Next]_vars
    PROVE  ShutdownOK' /\ StateOK'
BY EndEmits, EndSinks, EndListens, EndElsewhere DEF Next

LEMMA PlainStep ==
    ASSUME PlainOK, LockOK, ShutdownOK, [Next]_vars
    PROVE  PlainOK'
<1> USE DEF PlainOK, program
<1>1. CASE Run \/ Draw \/ FirstCtrlC \/ SecondCtrlC
    BY <1>1 DEF Run, Draw, FirstCtrlC, SecondCtrlC
<1>2. CASE Fail \/ Signal
    BY <1>2 DEF Fail, Signal
<1>3. CASE UNCHANGED vars
    BY <1>3 DEF vars
<1>4. CASE Close
    <2>1. /\ loop' \in {"closing", "finished"} /\ cancelled' \in {cancelled, TRUE}
          /\ UNCHANGED <<fullscreen, drawn, stopping, state, failed, result, exit>>
        BY <1>4 DEF Close
    <2>2. cancelled' \in BOOLEAN
        BY <2>1
    <2>3. QED
        BY <2>1, <2>2
<1>5. CASE Exit
    BY <1>5 DEF Exit, ShutdownOK, Leaving
<1>6. CASE ListenerEmits \/ UpdaterEmits \/ CheckDone \/ \E t \in Replays : ReplayEmits(t)
    BY <1>6 DEF ListenerEmits, UpdaterEmits, CheckDone, ReplayEmits, Emit
<1>7. CASE ListenReturns \/ StopCheck \/ QuitEnded
    BY <1>7 DEF ListenReturns, StopCheck, QuitEnded, ListenTo
<1>8. CASE ReceiveStopped \/ ReceiveQuit
    BY <1>8 DEF ReceiveStopped, ReceiveQuit
<1>9. ASSUME NEW t \in Emitters, Emitting(t) \/ Receiving(t)
      PROVE  PlainOK'
    <2>1. ASSUME NEW ok \in BOOLEAN, Returns(t, ok)
          PROVE  PlainOK'
        BY <2>1 DEF Returns
    <2>2. CASE Println(t)
        <3>1. \/ UNCHANGED <<fullscreen, program, cancelled, result, exit>>
              \/ Returns(t, FALSE)
            BY <2>2 DEF Println
        <3>2. CASE UNCHANGED <<fullscreen, program, cancelled, result, exit>>
            BY <3>2
        <3>3. QED
            BY <2>1, <3>1, <3>2
    <2>3. CASE Send(t)
        BY <2>1, <2>3 DEF Send
    <2>4. CASE Printed(t) \/ ReceivePrint(t)
        BY <2>4 DEF Printed, ReceivePrint
    <2>5. CASE ReceiveEvent(t)
        BY <2>5 DEF ReceiveEvent, StateAfter, Follow
    <2>6. QED
        BY <1>9, <2>2, <2>3, <2>4, <2>5 DEF Emitting, Receiving
<1>10. QED
    BY <1>1, <1>2, <1>3, <1>4, <1>5, <1>6, <1>7, <1>8, <1>9 DEF Next, Listening

----------------------------------------------------------------------------
(* The program.                                                               *)

LEMMA InvParts ==
    Inv <=> PlainOK /\ LockOK /\ EventsOK /\ PlacesOK /\ CountOK /\ NewestOK /\ ShutdownOK
            /\ StateOK /\ CardsInOrder
BY TypeParts DEF Inv

LEMMA InvInit == Init => Inv
<1> SUFFICES ASSUME Init PROVE Inv
    OBVIOUS
<1>1. /\ pc = [t \in Emitters |-> IF t = Updater THEN "checking" ELSE "idle"]
      /\ event = [t \in Emitters |-> [id |-> 0, kind |-> "none"]] /\ received = <<>> /\ mu = Free
    BY DEF Init
<1>2. PlainOK /\ ShutdownOK /\ StateOK
    BY <1>1, Apart DEF Init, PlainOK, ShutdownOK, StateOK, Over, Leaving
<1>3. pc \in [Emitters -> Places] /\ \A t \in Emitters : pc[t] \in {"checking", "idle"}
    BY <1>1 DEF Places
<1>4. LockOK /\ PlacesOK
    BY <1>1, <1>3, Apart DEF LockOK, PlacesOK, Holding
<1>5. [id |-> 0, kind |-> "none"] \in Event /\ count \in 0..(MaxEvents + 1) /\ count = 0
    BY Apart DEF Event, Init
<1>6. received \in Seq(Receipt) /\ Len(received) = 0
    BY <1>1
<1>7. EventsOK
    BY <1>1, <1>5, <1>6 DEF EventsOK
<1>8. CountOK
    BY <1>5, Apart DEF CountOK
<1>9. NewestOK /\ CardsInOrder
    BY <1>1, <1>3, <1>6 DEF NewestOK, CardsInOrder, Holding
<1>10. QED
    BY <1>2, <1>4, <1>7, <1>8, <1>9, InvParts

LEMMA InvStep == Inv /\ [Next]_vars => Inv'
<1> SUFFICES ASSUME Inv, [Next]_vars PROVE Inv'
    OBVIOUS
<1>1. PlainOK /\ LockOK /\ EventsOK /\ PlacesOK /\ CountOK /\ NewestOK /\ ShutdownOK /\ StateOK
      /\ CardsInOrder
    BY InvParts
<1>2. LockOK' /\ PlacesOK' /\ CountOK'
    BY <1>1, LockStep, CountStep
<1>3. EventsOK' /\ NewestOK' /\ CardsInOrder'
    BY <1>1, ReceivedStep DEF ReceivedInv
<1>4. ShutdownOK' /\ StateOK' /\ PlainOK'
    BY <1>1, EndStep, PlainStep DEF End
<1>5. (PlainOK /\ LockOK /\ EventsOK /\ PlacesOK /\ CountOK /\ NewestOK /\ ShutdownOK
       /\ StateOK /\ CardsInOrder)'
    BY <1>2, <1>3, <1>4
<1>6. QED
    BY <1>5, InvParts, PTL

LEMMA InvHolds == Spec => []Inv
BY InvInit, InvStep, PTL DEF Spec

\* What the terminal receives is in the events' order, each card above the
\* status that counts it, and none before the first frame.
THEOREM CardsCorrect == Spec => []CardsInOrder
<1>1. Inv => CardsInOrder
    BY DEF Inv
<1>2. QED
    BY <1>1, InvHolds, PTL

\* Listening has stopped before output is closed, no update alert follows it,
\* and a late connection event never takes the status back.
THEOREM ShutdownCorrect == Spec => []ShutdownIsClean
<1>1. Inv => ShutdownIsClean
    BY DEF Inv, ShutdownOK, StateOK, ShutdownIsClean
<1>2. QED
    BY <1>1, InvHolds, PTL

----------------------------------------------------------------------------
(* Numbers.                                                                   *)

\* Induction over the numbers, for a set of them.
LEMMA SetInduction ==
    ASSUME NEW S \in SUBSET Nat, 0 \in S, \A n \in S : n + 1 \in S
    PROVE  S = Nat
<1> SUFFICES ASSUME NEW n \in Nat, n \notin S PROVE FALSE
    OBVIOUS
<1> DEFINE T == {0..k : k \in Nat \ S}
           R == StrictSubsetOrdering(Nat)
<1>1. T \subseteq FiniteSubsetsOf(Nat) /\ T # {}
    <2>1. \A k \in Nat : IsFiniteSet(0..k) /\ 0..k \subseteq Nat
        BY FS_Interval
    <2>2. QED
        BY <2>1 DEF FiniteSubsetsOf
<1>2. PICK s \in T : \A t \in T : <<t, s>> \notin R
    <2>1. IsWellFoundedOn(R, FiniteSubsetsOf(Nat))
        BY FS_StrictSubsetOrderingWellFounded
    <2> HIDE DEF T, R
    <2>2. QED
        BY <1>1, <2>1, WFMin
<1>3. PICK k \in Nat \ S : s = 0..k
    OBVIOUS
<1>4. k # 0 /\ k - 1 \in Nat \ S
    OBVIOUS
<1>5. 0..(k - 1) \in T
    BY <1>4
<1>6. /\ 0..(k - 1) \in SUBSET Nat /\ 0..k \in SUBSET Nat
      /\ 0..(k - 1) \subseteq 0..k /\ k \in 0..k /\ k \notin 0..(k - 1)
    BY <1>4
<1>7. <<0..(k - 1), 0..k>> \in R
    BY <1>6 DEF StrictSubsetOrdering
<1>8. QED
    BY <1>2, <1>3, <1>5, <1>7

\* A bounded set of numbers has a greatest one.
LEMMA MaxIsGreatest ==
    ASSUME NEW S \in SUBSET Nat, S # {}, NEW n \in Nat, \A s \in S : s <= n
    PROVE  Max(S) \in S /\ \A s \in S : s <= Max(S)
<1>1. \E x \in S : \A y \in S : x >= y
    <2> SUFFICES ASSUME \A x \in S : \E y \in S : y > x PROVE FALSE
        OBVIOUS
    <2> DEFINE U == {k \in Nat : \A s \in S : s <= n - k}
    <2>1. 0 \in U
        OBVIOUS
    <2>2. ASSUME NEW k \in U PROVE k + 1 \in U
        <3>1. ASSUME NEW s \in S PROVE s <= n - (k + 1)
            <4>1. PICK y \in S : y > s
                OBVIOUS
            <4>2. QED
                BY <4>1
        <3>2. QED
            BY <3>1
    <2>3. U = Nat
        <3>1. U \in SUBSET Nat
            OBVIOUS
        <3> HIDE DEF U
        <3>2. QED
            BY <2>1, <2>2, <3>1, SetInduction
    <2>4. n + 1 \in U
        <3> HIDE DEF U
        <3>1. QED
            BY <2>3
    <2>5. \A s \in S : s <= n - (n + 1) /\ s \in Nat
        BY <2>4
    <2>6. PICK s \in S : TRUE
        OBVIOUS
    <2>7. s <= n - (n + 1) /\ s \in Nat
        BY <2>5
    <2>8. QED
        BY <2>7
<1>2. QED
    BY <1>1 DEF Max

----------------------------------------------------------------------------
(* Definitions by recursion over a sequence's indices.                         *)

GoesBy(f, n, base, step) == f[0] = base /\ \A i \in 1..n : f[i] = step[<<i, f[i - 1]>>]

\* A value at each of 0..n, each made of the one before, exists.
LEMMA PrefixRecursion ==
    ASSUME NEW n \in Nat, NEW V, NEW base \in V, NEW step \in [(1..n) \X V -> V]
    PROVE  \E f \in [0..n -> V] : GoesBy(f, n, base, step)
<1> DEFINE Upto(m, f) == f[0] = base /\ \A i \in 1..m : f[i] = step[<<i, f[i - 1]>>]
           S == {m \in Nat : m <= n => \E f \in [0..m -> V] : Upto(m, f)}
<1>1. 0 \in S
    <2> DEFINE g == [i \in 0..0 |-> base]
    <2>1. g \in [0..0 -> V] /\ Upto(0, g)
        OBVIOUS
    <2>2. QED
        BY <2>1
<1>2. ASSUME NEW m \in S PROVE m + 1 \in S
    <2> SUFFICES ASSUME m + 1 <= n PROVE \E f \in [0..(m + 1) -> V] : Upto(m + 1, f)
        OBVIOUS
    <2>1. PICK f \in [0..m -> V] : Upto(m, f)
        OBVIOUS
    <2> DEFINE g == [i \in 0..(m + 1) |-> IF i = m + 1 THEN step[<<m + 1, f[m]>>] ELSE f[i]]
    <2>2. f[m] \in V /\ step[<<m + 1, f[m]>>] \in V
        OBVIOUS
    <2>3. g \in [0..(m + 1) -> V]
        BY <2>2
    <2>4. g[0] = base
        BY <2>1
    <2>5. ASSUME NEW i \in 1..(m + 1) PROVE g[i] = step[<<i, g[i - 1]>>]
        <3>1. CASE i = m + 1
            <4>1. i - 1 = m /\ m \in 0..(m + 1) /\ m # m + 1 /\ i \in 0..(m + 1)
                BY <3>1
            <4>2. g[i] = step[<<m + 1, f[m]>>] /\ g[m] = f[m]
                BY <3>1, <4>1
            <4>3. QED
                BY <3>1, <4>1, <4>2
        <3>2. CASE i # m + 1
            <4>1. i \in 1..m /\ i - 1 # m + 1 /\ i - 1 \in 0..(m + 1)
                BY <3>2
            <4>2. g[i] = f[i] /\ g[i - 1] = f[i - 1]
                BY <4>1, <3>2
            <4>3. QED
                BY <4>1, <4>2, <2>1
        <3>3. QED
            BY <3>1, <3>2
    <2>6. QED
        BY <2>3, <2>4, <2>5
<1>3. S = Nat
    <2>1. S \in SUBSET Nat
        OBVIOUS
    <2> HIDE DEF S
    <2>2. QED
        BY <1>1, <1>2, <2>1, SetInduction
<1>4. n \in S
    <2> HIDE DEF S
    <2>1. QED
        BY <1>3
<1>5. QED
    BY <1>4 DEF GoesBy

----------------------------------------------------------------------------
(* The request list.  Its rows are a set of numbers in order: a number's row  *)
(* is how many of the set come before it.                                     *)

LEMMA BeforeIs ==
    ASSUME NEW S, NEW n
    PROVE  List!Before(S, n) = Cardinality({m \in S : m < n})
<1>1. \A T : List!Cardinality(T) = Cardinality(T)
    BY Zenon DEF List!Cardinality, Cardinality
<1>2. QED
    BY <1>1 DEF List!Before

\* Rows are counted from 0, and a greater number has a later one.
LEMMA RowBounds ==
    ASSUME NEW S \in SUBSET Nat, IsFiniteSet(S), NEW n \in Nat
    PROVE  /\ List!Before(S, n) \in Nat /\ List!Before(S, n) <= Cardinality(S)
           /\ Cardinality(S) \in Nat
           /\ n \in S => List!Before(S, n) < Cardinality(S)
           /\ \A m \in S : m < n => List!Before(S, m) < List!Before(S, n)
<1> DEFINE Below(k) == {m \in S : m < k}
<1>1. ASSUME NEW k \in Nat
      PROVE  /\ IsFiniteSet(Below(k)) /\ Cardinality(Below(k)) \in Nat
             /\ Cardinality(Below(k)) <= Cardinality(S)
             /\ List!Before(S, k) = Cardinality(Below(k))
    <2>1. Below(k) \in SUBSET S
        OBVIOUS
    <2> HIDE DEF Below
    <2>2. IsFiniteSet(Below(k)) /\ Cardinality(Below(k)) <= Cardinality(S)
        BY <2>1, FS_Subset
    <2>3. Cardinality(Below(k)) \in Nat
        BY <2>2, FS_CardinalityType
    <2>4. List!Before(S, k) = Cardinality(Below(k))
        BY BeforeIs DEF Below
    <2>5. QED
        BY <2>2, <2>3, <2>4
<1>2. Cardinality(S) \in Nat
    BY FS_CardinalityType
<1>3. ASSUME NEW m \in S, m < n
      PROVE  Cardinality(Below(m)) < Cardinality(Below(n))
    <2>1. m \in Nat /\ m \notin Below(m) /\ Below(m) \cup {m} \in SUBSET Below(n)
        <3>1. m \in Nat /\ n \in Nat /\ ~ m < m
            OBVIOUS
        <3>2. \A k \in S : k < m => k < n
            BY <1>3
        <3>3. QED
            BY <1>3, <3>1, <3>2
    <2> HIDE DEF Below
    <2>2. Cardinality(Below(m) \cup {m}) = Cardinality(Below(m)) + 1
        BY <1>1, <2>1, FS_AddElement
    <2>3. Cardinality(Below(m) \cup {m}) <= Cardinality(Below(n))
        BY <1>1, <2>1, FS_Subset
    <2>4. QED
        BY <1>1, <2>1, <2>2, <2>3
<1>4. ASSUME n \in S PROVE Cardinality(Below(n)) < Cardinality(S)
    <2>1. Below(n) \in SUBSET S /\ n \notin Below(n)
        OBVIOUS
    <2> HIDE DEF Below
    <2>2. Cardinality(Below(n)) # Cardinality(S)
        BY <1>4, <2>1, FS_Subset
    <2>3. QED
        BY <1>1, <1>2, <2>2
<1> HIDE DEF Below
<1>5. ASSUME NEW m \in S, m < n PROVE List!Before(S, m) < List!Before(S, n)
    BY <1>1, <1>3, <1>5
<1>6. QED
    BY <1>1, <1>2, <1>4, <1>5

\* Each row has a number of the set, and one only.
LEMMA RowsAreTaken ==
    ASSUME NEW S \in SUBSET Nat, IsFiniteSet(S)
    PROVE  /\ \A m, n \in S : List!Before(S, m) = List!Before(S, n) => m = n
           /\ \A row \in 0..Cardinality(S) - 1 :
                 /\ List!InRow(S, row) \in S
                 /\ List!Before(S, List!InRow(S, row)) = row
           /\ \A n \in S : List!InRow(S, List!Before(S, n)) = n
<1> DEFINE T == 0..Cardinality(S) - 1
           f == [n \in S |-> List!Before(S, n)]
<1>1. Cardinality(S) \in Nat
    BY FS_CardinalityType
<1>2. ASSUME NEW n \in S
      PROVE  /\ n \in Nat /\ List!Before(S, n) \in T
             /\ \A m \in S : m < n => List!Before(S, m) < List!Before(S, n)
    <2>1. n \in Nat
        OBVIOUS
    <2>2. QED
        BY <1>1, <2>1, RowBounds
<1>3. ASSUME NEW m \in S, NEW n \in S, List!Before(S, m) = List!Before(S, n)
      PROVE  m = n
    <2>1. m \in Nat /\ n \in Nat /\ List!Before(S, m) \in Int
        BY <1>2
    <2>2. ~ m < n /\ ~ n < m
        BY <1>2, <1>3, <2>1
    <2>3. QED
        BY <2>1, <2>2
<1>4. ASSUME NEW row \in T PROVE \E n \in S : List!Before(S, n) = row
    <2>1. f \in Injection(S, T)
        BY <1>2, <1>3 DEF Injection, IsInjective
    <2>2. IsFiniteSet(T) /\ Cardinality(T) = Cardinality(S)
        BY <1>1, FS_Interval
    <2> HIDE DEF T, f
    <2>3. f \in Surjection(S, T)
        BY <2>1, <2>2, FS_Injection
    <2>4. PICK n \in S : f[n] = row
        BY <2>3 DEF Surjection
    <2>5. QED
        BY <2>4 DEF f
<1>5. ASSUME NEW row \in T
      PROVE  List!InRow(S, row) \in S /\ List!Before(S, List!InRow(S, row)) = row
    BY <1>4 DEF List!InRow
<1>6. ASSUME NEW n \in S PROVE List!InRow(S, List!Before(S, n)) = n
    BY <1>2, <1>3, <1>5
<1> HIDE DEF T
<1>7. QED
    BY <1>3, <1>5, <1>6 DEF T

\* Leaving out the first numbers moves each up by as many rows.
LEMMA RowsMoveUp ==
    ASSUME NEW S \in SUBSET Nat, IsFiniteSet(S), NEW first \in Nat
    PROVE  LET rest == {m \in S : m >= first}
               gone == {m \in S : m < first}
           IN  /\ IsFiniteSet(rest) /\ Cardinality(rest) \in Nat
               /\ Cardinality(gone) = List!Before(S, first)
               /\ Cardinality(S) = List!Before(S, first) + Cardinality(rest)
               /\ \A n \in rest : List!Before(S, n) = List!Before(S, first) + List!Before(rest, n)
<1> DEFINE rest == {m \in S : m >= first}
           gone == {m \in S : m < first}
           Below(k) == {m \in S : m < k}
           RestBelow(k) == {m \in rest : m < k}
<1>1. ASSUME NEW A \in SUBSET S, NEW B \in SUBSET S, A \cap B = {}
      PROVE  /\ IsFiniteSet(A) /\ Cardinality(A) \in Nat /\ Cardinality(B) \in Nat
             /\ Cardinality(A \cup B) = Cardinality(A) + Cardinality(B)
    <2>1. IsFiniteSet(A) /\ IsFiniteSet(B) /\ Cardinality({}) = 0
        BY FS_Subset, FS_EmptySet
    <2>2. Cardinality(A \cup B) = Cardinality(A) + Cardinality(B) - Cardinality({})
        BY <1>1, <2>1, FS_Union
    <2>3. Cardinality(A) \in Nat /\ Cardinality(B) \in Nat
        BY <2>1, FS_CardinalityType
    <2>4. QED
        BY <2>1, <2>2, <2>3
<1>2. /\ \A k : List!Before(S, k) = Cardinality(Below(k))
      /\ \A k : List!Before(rest, k) = Cardinality(RestBelow(k))
    BY BeforeIs
<1>3. rest \in SUBSET S /\ gone \in SUBSET S /\ rest \cap gone = {} /\ gone \cup rest = S
    <2>1. \A m \in S : (m < first \/ m >= first) /\ ~ (m < first /\ m >= first)
        <3>1. \A m \in Nat : (m < first \/ m >= first) /\ ~ (m < first /\ m >= first)
            OBVIOUS
        <3>2. QED
            BY <3>1
    <2>2. QED
        BY <2>1
<1>4. ASSUME NEW n \in rest
      PROVE  /\ Below(n) = gone \cup RestBelow(n) /\ gone \cap RestBelow(n) = {}
             /\ RestBelow(n) \in SUBSET S
    <2>1. \A m \in gone : m < n
        <3>1. n \in Nat /\ n >= first
            OBVIOUS
        <3>2. ASSUME NEW m \in gone PROVE m < n
            <4>1. m \in Nat /\ m < first
                OBVIOUS
            <4>2. QED
                BY <3>1, <4>1
        <3>3. QED
            BY <3>2
    <2> DEFINE Below1 == Below(n)
               Rest1 == RestBelow(n)
    <2>2. \A m : m \in Below1 <=> m \in S /\ m < n
        OBVIOUS
    <2>3. \A m : m \in Rest1 <=> m \in rest /\ m < n
        OBVIOUS
    <2>4. \A m \in rest : m \notin gone
        BY <1>3
    <2> HIDE DEF Below1, Rest1, rest, gone
    <2>5. Below1 = gone \cup Rest1 /\ gone \cap Rest1 = {} /\ Rest1 \in SUBSET S
        BY <1>3, <2>1, <2>2, <2>3, <2>4
    <2>6. QED
        BY <2>5 DEF Below1, Rest1
<1>5. gone = Below(first)
    OBVIOUS
<1> HIDE DEF rest, gone, Below, RestBelow
<1>6. /\ IsFiniteSet(rest) /\ Cardinality(rest) \in Nat /\ Cardinality(gone) \in Nat
      /\ Cardinality(gone) = List!Before(S, first)
      /\ Cardinality(S) = List!Before(S, first) + Cardinality(rest)
    <2>1. gone \cap rest = {}
        BY <1>3
    <2>2. /\ IsFiniteSet(rest) /\ Cardinality(rest) \in Nat /\ Cardinality(gone) \in Nat
          /\ Cardinality(gone \cup rest) = Cardinality(gone) + Cardinality(rest)
        BY <1>1, <1>3, <2>1
    <2>3. QED
        BY <1>2, <1>3, <1>5, <2>2
<1>7. ASSUME NEW n \in rest
      PROVE  List!Before(S, n) = List!Before(S, first) + List!Before(rest, n)
    <2>1. Cardinality(gone \cup RestBelow(n)) = Cardinality(gone) + Cardinality(RestBelow(n))
        BY <1>1, <1>3, <1>4
    <2>2. QED
        BY <1>2, <1>4, <1>6, <2>1
<1>8. QED
    BY <1>6, <1>7 DEF rest, gone

\* A number after all the others has the last row, and moves none.
LEMMA RowAfterAll ==
    ASSUME NEW S \in SUBSET Nat, IsFiniteSet(S), NEW n \in Nat, \A m \in S : m < n
    PROVE  /\ IsFiniteSet(S \cup {n}) /\ Cardinality(S \cup {n}) = Cardinality(S) + 1
           /\ List!Before(S \cup {n}, n) = Cardinality(S)
           /\ \A m \in S : List!Before(S \cup {n}, m) = List!Before(S, m)
<1>1. n \notin S
    <2>1. ~ n < n
        OBVIOUS
    <2>2. QED
        BY <2>1
<1>2. IsFiniteSet(S \cup {n}) /\ Cardinality(S \cup {n}) = Cardinality(S) + 1
    BY <1>1, FS_AddElement
<1>3. {m \in S \cup {n} : m < n} = S
    <2>1. ~ n < n
        OBVIOUS
    <2>2. QED
        BY <2>1
<1>4. ASSUME NEW m \in S PROVE {k \in S \cup {n} : k < m} = {k \in S : k < m}
    <2>1. ~ n < m
        OBVIOUS
    <2>2. QED
        BY <2>1
<1>5. QED
    BY <1>2, <1>3, <1>4, BeforeIs

\* All of a set's numbers in order.
LEMMA InOrderRows ==
    ASSUME NEW S \in SUBSET Nat, IsFiniteSet(S)
    PROVE  /\ List!InOrder(S) \in Seq(Nat) /\ Len(List!InOrder(S)) = Cardinality(S)
           /\ Cardinality(S) \in Nat
           /\ \A i \in 1..Cardinality(S) : List!InOrder(S)[i] = List!InRow(S, i - 1)
           /\ List!Range(List!InOrder(S)) = S
<1> DEFINE s == List!InOrder(S)
           n == Cardinality(S)
<1>1. n \in Nat /\ List!Cardinality(S) = n
    <2>1. List!Cardinality(S) = Cardinality(S)
        BY Zenon DEF List!Cardinality, Cardinality
    <2>2. QED
        BY <2>1, FS_CardinalityType
<1>2. s = [i \in 1..n |-> List!InRow(S, i - 1)]
    BY <1>1 DEF List!InOrder
<1>3. ASSUME NEW i \in 1..n PROVE List!InRow(S, i - 1) \in S
    <2>1. i - 1 \in 0..n - 1
        BY <1>1
    <2>2. QED
        BY <2>1, RowsAreTaken
<1>4. ASSUME NEW m \in S PROVE \E i \in 1..n : List!InRow(S, i - 1) = m
    <2>1. /\ m \in Nat /\ List!Before(S, m) \in Nat /\ List!Before(S, m) < n
          /\ List!InRow(S, List!Before(S, m)) = m
        BY RowBounds, RowsAreTaken
    <2>2. List!Before(S, m) + 1 \in 1..n /\ (List!Before(S, m) + 1) - 1 = List!Before(S, m)
        BY <1>1, <2>1
    <2>3. QED
        BY <2>1, <2>2
<1> HIDE DEF s, n
<1>5. s \in Seq(Nat) /\ Len(s) = n /\ DOMAIN s = 1..n
    <2>1. \A i \in 1..n : List!InRow(S, i - 1) \in Nat
        BY <1>3
    <2>2. s \in [1..n -> Nat] /\ DOMAIN s = 1..n
        BY <1>2, <2>1
    <2>3. s \in Seq(Nat)
        BY <1>1, <2>2
    <2>4. QED
        BY <1>1, <2>2, <2>3
<1>6. \A i \in 1..n : s[i] = List!InRow(S, i - 1)
    BY <1>2
<1>7. List!Range(s) = S
    <2>1. List!Range(s) = {s[i] : i \in 1..n}
        BY <1>5 DEF List!Range
    <2>2. \A i \in 1..n : s[i] \in S
        BY <1>3, <1>6
    <2>3. ASSUME NEW m \in S PROVE \E i \in 1..n : s[i] = m
        <3>1. PICK i \in 1..n : List!InRow(S, i - 1) = m
            BY <1>4
        <3>2. s[i] = m
            BY <1>6, <3>1
        <3>3. QED
            BY <3>2
    <2>4. QED
        BY <2>1, <2>2, <2>3
<1>8. QED
    BY <1>1, <1>5, <1>6, <1>7 DEF s, n

\* Leaving out the first numbers, in order, is what the filter does to its numbers.
LEMMA FromNumberInOrder ==
    ASSUME NEW S \in SUBSET Nat, IsFiniteSet(S), NEW first \in Nat
    PROVE  List!FromNumber(List!InOrder(S), first) = List!InOrder({m \in S : m >= first})
<1> DEFINE rest == {m \in S : m >= first}
           b == List!Before(S, first)
           c == Cardinality(rest)
           s == List!InOrder(S)
           t == List!InOrder(rest)
<1>1. /\ IsFiniteSet(rest) /\ c \in Nat /\ Cardinality(S) = b + c
      /\ \A n \in rest : List!Before(S, n) = b + List!Before(rest, n)
    BY RowsMoveUp
<1>2. b \in Nat
    BY RowBounds
<1>3. rest \in SUBSET Nat /\ rest \in SUBSET S
    OBVIOUS
<1>4. /\ s \in Seq(Nat) /\ Len(s) = b + c /\ List!Range(s) = S
      /\ \A i \in 1..(b + c) : s[i] = List!InRow(S, i - 1)
    BY <1>1, InOrderRows
<1> HIDE DEF rest
<1>5. /\ t \in Seq(Nat) /\ Len(t) = c /\ \A i \in 1..c : t[i] = List!InRow(rest, i - 1)
    BY <1>1, <1>3, InOrderRows
<1>6. ASSUME NEW i \in 1..c PROVE List!InRow(S, b + i - 1) = List!InRow(rest, i - 1)
    <2> DEFINE m == List!InRow(rest, i - 1)
    <2>1. i - 1 \in 0..c - 1
        BY <1>1
    <2>2. m \in rest /\ List!Before(rest, m) = i - 1
        BY <1>1, <1>3, <2>1, RowsAreTaken
    <2> HIDE DEF m
    <2>3. m \in S /\ List!Before(S, m) = b + (i - 1) /\ List!InRow(S, List!Before(S, m)) = m
        BY <1>1, <1>3, <2>2, RowsAreTaken
    <2>4. b + (i - 1) = b + i - 1
        BY <1>2, <2>1
    <2>5. QED
        BY <2>3, <2>4 DEF m
<1>7. List!FromNumber(s, first) = SubSeq(s, b + 1, b + c)
    BY <1>4 DEF List!FromNumber
<1> HIDE DEF b, c, s, t
<1>8. /\ SubSeq(s, b + 1, b + c) \in Seq(Nat) /\ Len(SubSeq(s, b + 1, b + c)) = c
      /\ \A i \in 1..c : SubSeq(s, b + 1, b + c)[i] = s[b + i]
    BY <1>1, <1>2, <1>4
<1>9. ASSUME NEW i \in 1..c PROVE SubSeq(s, b + 1, b + c)[i] = t[i]
    <2>1. b + i \in 1..(b + c) /\ (b + i) - 1 = b + i - 1
        BY <1>1, <1>2
    <2>2. s[b + i] = List!InRow(S, b + i - 1)
        BY <1>4, <2>1
    <2>3. QED
        BY <1>5, <1>6, <1>8, <2>2
<1>10. SubSeq(s, b + 1, b + c) = t
    <2> DEFINE u == SubSeq(s, b + 1, b + c)
    <2>1. u \in Seq(Nat) /\ Len(u) = c /\ \A i \in 1..c : u[i] = t[i]
        BY <1>8, <1>9
    <2> HIDE DEF u
    <2>2. u = t
        BY <1>1, <1>5, <2>1
    <2>3. QED
        BY <2>2 DEF u
<1>11. QED
    BY <1>7, <1>10 DEF s, t, rest

\* A later number goes at the end.
LEMMA LaterInOrder ==
    ASSUME NEW S \in SUBSET Nat, IsFiniteSet(S), NEW n \in Nat, \A m \in S : m < n
    PROVE  List!InOrder(S) \o <<n>> = List!InOrder(S \cup {n})
<1> DEFINE T == S \cup {n}
           c == Cardinality(S)
           s == List!InOrder(S)
           t == List!InOrder(T)
<1>1. /\ IsFiniteSet(T) /\ Cardinality(T) = c + 1 /\ List!Before(T, n) = c
      /\ \A m \in S : List!Before(T, m) = List!Before(S, m)
    BY RowAfterAll
<1>2. T \in SUBSET Nat /\ n \in T /\ S \in SUBSET T
    OBVIOUS
<1>3. s \in Seq(Nat) /\ Len(s) = c /\ c \in Nat /\ \A i \in 1..c : s[i] = List!InRow(S, i - 1)
    BY InOrderRows
<1> HIDE DEF T
<1>4. t \in Seq(Nat) /\ Len(t) = c + 1 /\ \A i \in 1..(c + 1) : t[i] = List!InRow(T, i - 1)
    BY <1>1, <1>2, InOrderRows
<1>5. ASSUME NEW i \in 1..c PROVE t[i] = s[i]
    <2> DEFINE m == List!InRow(S, i - 1)
    <2>1. i - 1 \in 0..c - 1
        BY <1>3
    <2>2. m \in S /\ List!Before(S, m) = i - 1
        BY <2>1, RowsAreTaken
    <2> HIDE DEF m
    <2>3. List!Before(T, m) = i - 1 /\ List!InRow(T, List!Before(T, m)) = m
        BY <1>1, <1>2, <2>2, RowsAreTaken
    <2>4. t[i] = m
        BY <1>3, <1>4, <2>3
    <2>5. QED
        BY <1>3, <2>4 DEF m
<1>6. t[c + 1] = n
    <2>1. List!InRow(T, c) = n
        BY <1>1, <1>2, RowsAreTaken
    <2>2. (c + 1) - 1 = c /\ c + 1 \in 1..(c + 1)
        BY <1>3
    <2>3. QED
        BY <1>4, <2>1, <2>2
<1> HIDE DEF c, s, t
<1>7. s \o <<n>> = t
    <2>1. /\ s \o <<n>> \in Seq(Nat) /\ Len(s \o <<n>>) = c + 1
          /\ \A i \in 1..c : (s \o <<n>>)[i] = s[i]
          /\ (s \o <<n>>)[c + 1] = n
        BY <1>3
    <2>2. \A i \in 1..(c + 1) : i \in 1..c \/ i = c + 1
        BY <1>3
    <2>3. QED
        BY <1>3, <1>4, <1>5, <1>6, <2>1, <2>2
<1>8. QED
    BY <1>7 DEF s, t, T

----------------------------------------------------------------------------
(* The first row.                                                           *)

\* Wherever the list was, its first row shows the selected one and leaves no row of
\* the screen empty that could show one.
LEMMA FirstRowFits ==
    ASSUME NEW from \in Int, NEW row \in Nat, NEW rows \in Nat, NEW rowCount \in Nat
    PROVE  /\ List!FirstRow(from, row, rows, rowCount) \in Nat
           /\ List!FirstRow(from, row, rows, rowCount) <= rowCount
           /\ List!FirstRow(from, row, rows, rowCount) <= List!MaxOf(0, rowCount - rows)
           /\ row < rowCount /\ rows > 0 =>
                 /\ List!FirstRow(from, row, rows, rowCount) <= row
                 /\ row < List!FirstRow(from, row, rows, rowCount) + rows
BY DEF List!FirstRow, List!MaxOf, List!MinOf

\* A first row that shows it and leaves none empty stays.
LEMMA FirstRowStays ==
    ASSUME NEW from \in Nat, NEW row \in Nat, NEW rows \in Nat, NEW rowCount \in Nat,
           from <= row, row < from + rows, from <= List!MaxOf(0, rowCount - rows)
    PROVE  List!FirstRow(from, row, rows, rowCount) = from
BY DEF List!FirstRow, List!MaxOf, List!MinOf

----------------------------------------------------------------------------
(* The request list's invariant: what a step keeps whatever it scrolls to,    *)
(* and the first row.                                                         *)

EntryType == [number : Nat, failed : BOOLEAN]

FilterType ==
    [editing : BOOLEAN, input : List!Texts, text : List!Texts, numbers : Seq(Nat)]

Numbered(es, top) ==
    /\ es \in Seq(EntryType) /\ Len(es) <= top
    /\ \A i \in 1..Len(es) : es[i].number = top - Len(es) + i

ListState ==
    /\ List!ListAssumption
    /\ listLast \in Nat /\ Numbered(listEntries, listLast)
    /\ listSelected \in 0..listLast /\ listHeight \in ListHeights
    /\ listFilter \in FilterType /\ List!FilterIsFresh
    /\ listWaiting \in BOOLEAN /\ listToast \in BOOLEAN /\ alert \in BOOLEAN

SelectionShows ==
    List!HasSelection /\ List!Rows > 0 =>
        /\ offset <= List!SelectedRow /\ List!SelectedRow < offset + List!Rows
        /\ offset <= List!MaxOf(0, List!Count - List!Rows)

ListInv == ListState /\ offset \in 0..Len(listEntries) /\ SelectionShows

\* The numbers of the entries are those up to the last, each once.
LEMMA EntryNumbers ==
    ASSUME NEW es, NEW top \in Nat, Numbered(es, top)
    PROVE  /\ List!Numbers(es) = (top - Len(es) + 1)..top
           /\ Len(es) \in Nat /\ DOMAIN es = 1..Len(es)
           /\ IsFiniteSet(List!Numbers(es)) /\ Cardinality(List!Numbers(es)) = Len(es)
<1>1. Len(es) \in Nat /\ DOMAIN es = 1..Len(es) /\ Len(es) <= top
    BY DEF Numbered
<1>2. List!Numbers(es) = (top - Len(es) + 1)..top
    <2>1. \A i \in 1..Len(es) : es[i].number = top - Len(es) + i
        BY DEF Numbered
    <2>2. ASSUME NEW n \in (top - Len(es) + 1)..top PROVE \E i \in 1..Len(es) : es[i].number = n
        <3>1. n - top + Len(es) \in 1..Len(es) /\ top - Len(es) + (n - top + Len(es)) = n
            BY <1>1
        <3>2. QED
            BY <2>1, <3>1
    <2>3. \A i \in 1..Len(es) : top - Len(es) + i \in (top - Len(es) + 1)..top
        BY <1>1
    <2> DEFINE number(i) == es[i].number
    <2>4. List!Numbers(es) = {number(i) : i \in 1..Len(es)}
        BY <1>1 DEF List!Numbers
    <2>5. \A i \in 1..Len(es) : number(i) \in (top - Len(es) + 1)..top
        BY <2>1, <2>3
    <2>6. \A n \in (top - Len(es) + 1)..top : \E i \in 1..Len(es) : number(i) = n
        BY <2>2
    <2> HIDE DEF number
    <2>7. QED
        BY <2>4, <2>5, <2>6
<1>3. /\ IsFiniteSet((top - Len(es) + 1)..top)
      /\ Cardinality((top - Len(es) + 1)..top) = Len(es)
    <2>1. top - Len(es) + 1 \in Int /\ top \in Int /\ top - (top - Len(es) + 1) + 1 = Len(es)
          /\ ~ (top - Len(es) + 1 > top /\ Len(es) # 0)
        BY <1>1
    <2>2. QED
        BY <1>1, <2>1, FS_Interval
<1>4. QED
    BY <1>1, <1>2, <1>3

\* The numbers that match a text.
LEMMA MatchingIs ==
    ASSUME ListState, NEW text
    PROVE  /\ List!Matching(text) =
                 {listEntries[i].number : i \in {j \in 1..Len(listEntries) :
                                                    List!Matches(listEntries[j], text)}}
           /\ List!Matching(text) \in SUBSET List!Numbers(listEntries)
           /\ text = NoText => List!Matching(text) = List!Numbers(listEntries)
<1>1. DOMAIN listEntries = 1..Len(listEntries)
    BY DEF ListState, Numbered
<1>2. List!Range(listEntries) = {listEntries[i] : i \in 1..Len(listEntries)}
    BY <1>1 DEF List!Range
<1>3. List!Numbers(listEntries) = {listEntries[i].number : i \in 1..Len(listEntries)}
    BY <1>1 DEF List!Numbers
<1>4. List!Matching(text) =
          {e.number : e \in {f \in List!Range(listEntries) : List!Matches(f, text)}}
    BY DEF List!Matching
<1>5. List!Matching(text) =
          {listEntries[i].number : i \in {j \in 1..Len(listEntries) :
                                             List!Matches(listEntries[j], text)}}
    BY <1>2, <1>4
<1>6. text = NoText => \A e : List!Matches(e, text)
    BY DEF List!Matches
<1>7. QED
    BY <1>3, <1>5, <1>6

\* What the list shows is what matches its filter.
ShownIsMatching ==
    /\ List!Shown = List!Matching(listFilter.text)
    /\ List!Shown \in SUBSET (1..listLast) /\ List!Shown \in SUBSET Nat
    /\ IsFiniteSet(List!Shown) /\ Cardinality(List!Shown) = List!Count
    /\ List!Count \in Nat /\ List!Count <= Len(listEntries) /\ Len(listEntries) \in Nat

LEMMA ShownIs == ListState => ShownIsMatching
<1> SUFFICES ASSUME ListState PROVE ShownIsMatching
    OBVIOUS
<1> DEFINE N == List!Numbers(listEntries)
           M == List!Matching(listFilter.text)
<1>1. /\ N = (listLast - Len(listEntries) + 1)..listLast /\ Len(listEntries) \in Nat
      /\ IsFiniteSet(N) /\ Cardinality(N) = Len(listEntries) /\ Len(listEntries) <= listLast
    BY EntryNumbers DEF ListState, Numbered
<1>2. M \in SUBSET N /\ (listFilter.text = NoText => M = N)
    BY MatchingIs
<1>3. N \in SUBSET (1..listLast) /\ N \in SUBSET Nat
    BY <1>1 DEF ListState
<1>4. List!Shown = {n \in N : listFilter.text = NoText \/ n \in List!Range(listFilter.numbers)}
    BY DEF List!Shown, List!ShownOf, List!Shows
<1> HIDE DEF N, M
<1>5. IsFiniteSet(M) /\ Cardinality(M) <= Len(listEntries) /\ M \in SUBSET Nat
    BY <1>1, <1>2, <1>3, FS_Subset
<1>6. Cardinality(M) \in Nat
    BY <1>5, FS_CardinalityType
<1>7. List!Shown = M
    <2>1. CASE listFilter.text = NoText
        BY <1>2, <1>4, <2>1
    <2>2. CASE listFilter.text # NoText
        <3>1. listFilter.numbers = List!InOrder(M)
            <4>1. listFilter.numbers = List!Applied(listFilter.text).numbers
                BY DEF ListState, List!FilterIsFresh
            <4>2. List!Applied(listFilter.text).numbers = List!InOrder(M)
                BY <2>2 DEF List!Applied, List!NoFilter, M
            <4>3. QED
                BY <4>1, <4>2
        <3>2. List!Range(listFilter.numbers) = M
            BY <1>5, <3>1, InOrderRows
        <3>3. QED
            BY <1>2, <1>4, <2>2, <3>2
    <2>3. QED
        BY <2>1, <2>2
<1>8. List!Count = Cardinality(M)
    <2>1. List!Cardinality(M) = Cardinality(M)
        BY Zenon DEF List!Cardinality, Cardinality
    <2>2. QED
        BY <1>7, <2>1 DEF List!Count
<1>9. QED
    BY <1>1, <1>2, <1>3, <1>5, <1>6, <1>7, <1>8 DEF M, ShownIsMatching

\* The selected row is one of those shown.
SelectionIsShown ==
    /\ List!Rows \in Nat /\ (List!HasSelection <=> List!Count > 0)
    /\ List!HasSelection =>
          /\ List!SelectedRow \in 0..List!Count - 1
          /\ List!SelectedNumber \in List!Shown
          /\ List!Before(List!Shown, List!SelectedNumber) = List!SelectedRow
    /\ List!MaxOf(0, List!SelectedRow) \in Nat
    /\ List!HasSelection => List!MaxOf(0, List!SelectedRow) = List!SelectedRow

LEMMA SelectionIs == ListState => SelectionIsShown
<1> SUFFICES ASSUME ListState PROVE SelectionIsShown
    OBVIOUS
<1>1. ShownIsMatching
    BY ShownIs
<1>2. List!Rows \in Nat
    <2>1. listHeight \in Nat /\ \A shown : List!Line(shown) \in {0, 1}
        BY DEF ListState, List!ListAssumption, List!Line
    <2>2. ASSUME NEW a \in {0, 1}, NEW b \in {0, 1}, NEW c \in {0, 1}
          PROVE  List!MaxOf(0, listHeight - a - b - c) \in Nat
        BY <2>1 DEF List!MaxOf
    <2>3. QED
        BY <2>1, <2>2 DEF List!Rows
<1>3. List!HasSelection <=> List!Count > 0
    <2>1. List!Shown = {} <=> List!Count = 0
        BY <1>1, FS_EmptySet DEF ShownIsMatching
    <2>2. QED
        BY <1>1, <2>1 DEF List!HasSelection, ShownIsMatching
<1>4. List!Before(List!Shown, listSelected) \in Nat
    <2>1. listSelected \in Nat
        BY DEF ListState
    <2>2. QED
        BY <1>1, <2>1, RowBounds DEF ShownIsMatching
<1>5. /\ List!HasSelection => List!SelectedRow \in 0..List!Count - 1
      /\ List!SelectedRow \in Int
    BY <1>1, <1>3, <1>4 DEF List!SelectedRow, List!MinOf, ShownIsMatching
<1>6. ASSUME List!HasSelection
      PROVE  /\ List!SelectedNumber \in List!Shown
             /\ List!Before(List!Shown, List!SelectedNumber) = List!SelectedRow
    BY <1>1, <1>5, <1>6, RowsAreTaken DEF List!SelectedNumber, ShownIsMatching
<1>7. /\ List!MaxOf(0, List!SelectedRow) \in Nat
      /\ List!HasSelection => List!MaxOf(0, List!SelectedRow) = List!SelectedRow
    BY <1>1, <1>5 DEF List!MaxOf, ShownIsMatching
<1>8. QED
    BY <1>2, <1>3, <1>5, <1>6, <1>7 DEF SelectionIsShown

\* Every message ends with a first row that fits what it left.
LEMMA ScrollingFits ==
    ASSUME ListState', NEW from \in Int, List!Scrolled(from)
    PROVE  ListInv'
<1>1. ShownIsMatching' /\ SelectionIsShown'
    <2>1. ListState' => ShownIsMatching'
        BY ShownIs, PTL
    <2>2. ListState' => SelectionIsShown'
        BY SelectionIs, PTL
    <2>3. QED
        BY <2>1, <2>2
<1> DEFINE row == List!MaxOf(0, List!SelectedRow)'
           rows == List!Rows'
           rowCount == List!Count'
<1>2. /\ row \in Nat /\ rows \in Nat /\ rowCount \in Nat /\ rowCount <= Len(listEntries')
      /\ Len(listEntries') \in Nat
      /\ List!HasSelection' => row = List!SelectedRow' /\ row < rowCount
    <2>1. /\ row \in Nat /\ rows \in Nat
          /\ List!HasSelection' => row = List!SelectedRow' /\ List!SelectedRow' \in 0..rowCount - 1
        BY <1>1 DEF SelectionIsShown
    <2>2. rowCount \in Nat /\ rowCount <= Len(listEntries') /\ Len(listEntries') \in Nat
        BY <1>1 DEF ShownIsMatching
    <2> HIDE DEF row, rows, rowCount
    <2>3. QED
        BY <2>1, <2>2
<1>3. offset' = List!FirstRow(from, row, rows, rowCount)
    BY DEF List!Scrolled
<1> HIDE DEF row, rows, rowCount
<1>4. /\ offset' \in Nat /\ offset' <= rowCount /\ offset' <= List!MaxOf(0, rowCount - rows)
      /\ row < rowCount /\ rows > 0 => offset' <= row /\ row < offset' + rows
    BY <1>2, <1>3, FirstRowFits
<1>5. offset' \in 0..Len(listEntries')
    BY <1>2, <1>4
<1>6. List!HasSelection' /\ rows > 0 =>
          /\ offset' <= List!SelectedRow' /\ List!SelectedRow' < offset' + rows
          /\ offset' <= List!MaxOf(0, rowCount - rows)
    BY <1>2, <1>4
<1>7. SelectionShows'
    BY <1>6 DEF SelectionShows, rows, rowCount, List!MaxOf
<1>8. QED
    BY <1>5, <1>7 DEF ListInv

----------------------------------------------------------------------------
(* The list's steps.                                                        *)

LEMMA ListInit == List!ListAssumption /\ List!Init => ListInv
<1> SUFFICES ASSUME List!ListAssumption, List!Init PROVE ListInv
    OBVIOUS
<1>1. /\ listEntries = <<>> /\ listLast = 0 /\ listSelected = 0 /\ offset = 0
      /\ listHeight \in ListHeights /\ listFilter = List!NoFilter
      /\ listWaiting = FALSE /\ listToast = FALSE /\ alert = FALSE
    BY DEF List!Init
<1>2. Numbered(listEntries, listLast)
    BY <1>1 DEF Numbered
<1>3. listFilter \in FilterType /\ List!FilterIsFresh
    BY <1>1 DEF List!NoFilter, List!FilterIsFresh, List!Applied, FilterType, List!Texts
<1>4. ListState
    <2>1. listLast \in Nat /\ listSelected \in 0..listLast
        BY <1>1
    <2>2. listWaiting \in BOOLEAN /\ listToast \in BOOLEAN /\ alert \in BOOLEAN
        BY <1>1
    <2>3. QED
        BY <1>1, <1>2, <1>3, <2>1, <2>2 DEF ListState
<1>5. ~ List!HasSelection
    <2>1. ShownIsMatching
        BY <1>4, ShownIs
    <2>2. 1..listLast = {}
        BY <1>1
    <2>3. QED
        BY <2>1, <2>2 DEF ShownIsMatching, List!HasSelection
<1>6. QED
    BY <1>1, <1>4, <1>5 DEF ListInv, SelectionShows

\* What matches depends on the entries alone.
LEMMA MatchingKept ==
    ASSUME listEntries' = listEntries
    PROVE  \A text : List!Matching(text)' = List!Matching(text)
BY DEF List!Matching, List!Matches, List!Range

\* An edit that keeps the text, or applies one, keeps the numbers up to date.
LEMMA EditIsFresh ==
    ASSUME ListState, listEntries' = listEntries,
           \/ listFilter'.text = listFilter.text /\ listFilter'.numbers = listFilter.numbers
           \/ \E text : listFilter' = List!Applied(text)
           \/ listFilter' = List!NoFilter
    PROVE  List!FilterIsFresh'
<1> DEFINE fresh(text) == IF text = NoText THEN <<>> ELSE List!InOrder(List!Matching(text))
<1>1. \A text : List!Applied(text).numbers = fresh(text) /\ List!Applied(text).text = text
    BY DEF List!Applied, List!NoFilter
<1>2. List!FilterIsFresh' <=> listFilter'.numbers = fresh(listFilter'.text)
    <2>1. List!Matching(listFilter.text)' = List!Matching(listFilter'.text)
        BY DEF List!Matching, List!Matches, List!Range
    <2>2. List!FilterIsFresh' <=>
            listFilter'.numbers =
                (IF listFilter'.text = NoText THEN <<>>
                 ELSE List!InOrder(List!Matching(listFilter.text)'))
        BY DEF List!FilterIsFresh, List!Applied, List!NoFilter
    <2>3. QED
        BY <2>1, <2>2
<1>3. listFilter.numbers = fresh(listFilter.text)
    <2>1. listFilter.numbers = List!Applied(listFilter.text).numbers
        BY DEF ListState, List!FilterIsFresh
    <2>2. QED
        BY <1>1, <2>1
<1>4. List!NoFilter.text = NoText /\ List!NoFilter.numbers = <<>>
    BY DEF List!NoFilter
<1> DEFINE Text == listFilter'.text
           Nums == listFilter'.numbers
<1>5. CASE Text = listFilter.text /\ Nums = listFilter.numbers
    BY <1>2, <1>3, <1>5
<1>6. CASE \E text : listFilter' = List!Applied(text)
    <2>1. PICK text : listFilter' = List!Applied(text)
        BY <1>6
    <2>2. Text = text /\ Nums = fresh(text)
        BY <1>1, <2>1
    <2>3. QED
        BY <1>2, <2>2
<1>7. CASE listFilter' = List!NoFilter
    BY <1>2, <1>4, <1>7
<1>8. QED
    BY <1>5, <1>6, <1>7

\* A filter's type.
LEMMA AppliedType ==
    ASSUME ListState, NEW text \in List!Texts
    PROVE  List!Applied(text) \in FilterType /\ List!NoFilter \in FilterType
<1>1. List!InOrder(List!Matching(text)) \in Seq(Nat)
    <2>1. /\ List!Numbers(listEntries) = (listLast - Len(listEntries) + 1)..listLast
          /\ IsFiniteSet(List!Numbers(listEntries)) /\ Len(listEntries) \in Nat
        BY EntryNumbers DEF ListState
    <2>2. Len(listEntries) <= listLast /\ listLast \in Nat
        BY DEF ListState, Numbered
    <2>3. List!Numbers(listEntries) \in SUBSET Nat
        BY <2>1, <2>2
    <2>4. List!Matching(text) \in SUBSET List!Numbers(listEntries)
        BY MatchingIs
    <2>5. List!Matching(text) \in SUBSET Nat /\ IsFiniteSet(List!Matching(text))
        BY <2>1, <2>3, <2>4, FS_Subset
    <2>6. QED
        BY <2>5, InOrderRows
<1>2. NoText \in List!Texts /\ <<>> \in Seq(Nat)
    BY DEF List!Texts
<1>3. List!NoFilter \in FilterType
    BY <1>2 DEF List!NoFilter, FilterType
<1> DEFINE nums == IF text = NoText THEN <<>> ELSE List!InOrder(List!Matching(text))
<1>4. List!Applied(text) = [List!NoFilter EXCEPT !.text = text, !.numbers = nums]
    BY Zenon DEF List!Applied
<1>5. nums \in Seq(Nat)
    BY <1>1, <1>2
<1> HIDE DEF nums
<1>6. QED
    BY <1>3, <1>4, <1>5 DEF FilterType

\* Of the steps that record nothing, a key selects a request or edits the filter,
\* and a message touches neither.
LEMMA ListKeeps ==
    ASSUME ListState, listEntries' = listEntries, listLast' = listLast,
           listSelected' \in 0..listLast, listHeight' \in ListHeights,
           listFilter' \in FilterType, List!FilterIsFresh',
           listWaiting' \in BOOLEAN, listToast' \in BOOLEAN, alert' \in BOOLEAN
    PROVE  ListState'
BY DEF ListState, Numbered, List!ListAssumption

LEMMA ListQuiet ==
    ASSUME ListState, List!Key \/ List!EditFilter \/ List!Message
    PROVE  ListState' /\ listLast' = listLast
<1>1. /\ listSelected \in 0..listLast /\ listHeight \in ListHeights /\ listFilter \in FilterType
      /\ List!FilterIsFresh /\ listLast \in Nat
      /\ listWaiting \in BOOLEAN /\ listToast \in BOOLEAN /\ alert \in BOOLEAN
    BY DEF ListState
<1>2. ASSUME NEW n \in 0..listLast, List!Selects(n), listWaiting' \in BOOLEAN
      PROVE  ListState' /\ listLast' = listLast
    <2>1. /\ listSelected' = n /\ listEntries' = listEntries /\ listLast' = listLast
          /\ listHeight' = listHeight /\ listFilter' = listFilter
          /\ listToast' = listToast /\ alert' = alert
        BY <1>2 DEF List!Selects
    <2>2. List!FilterIsFresh'
        BY <2>1, EditIsFresh
    <2>3. QED
        BY <1>1, <1>2, <2>1, <2>2, ListKeeps
<1>3. ASSUME NEW f \in FilterType, List!Edits(f),
             \/ f.text = listFilter.text /\ f.numbers = listFilter.numbers
             \/ \E text : f = List!Applied(text)
             \/ f = List!NoFilter
      PROVE  ListState' /\ listLast' = listLast
    <2>1. /\ listFilter' = f /\ listEntries' = listEntries /\ listLast' = listLast
          /\ listSelected' = listSelected /\ listHeight' = listHeight
          /\ listWaiting' = listWaiting /\ listToast' = listToast /\ alert' = alert
        BY <1>3 DEF List!Edits
    <2>2. List!FilterIsFresh'
        BY <1>3, <2>1, EditIsFresh
    <2>3. QED
        BY <1>1, <2>1, <2>2, ListKeeps
<1>4. ASSUME UNCHANGED <<listEntries, listLast, listSelected, listFilter>>,
             listHeight' \in ListHeights, listWaiting' \in BOOLEAN, listToast' \in BOOLEAN,
             alert' \in BOOLEAN
      PROVE  ListState' /\ listLast' = listLast
    <2>1. List!FilterIsFresh'
        BY <1>4, EditIsFresh
    <2>2. QED
        BY <1>1, <1>4, <2>1, ListKeeps
<1>5. List!HasSelection =>
          /\ List!SelectedNumber \in 0..listLast
          /\ \A row \in 0..List!Count - 1 : List!InRow(List!Shown, row) \in 0..listLast
    <2>1. ShownIsMatching /\ SelectionIsShown
        BY ShownIs, SelectionIs
    <2>2. List!Shown \in SUBSET (0..listLast)
        BY <1>1, <2>1 DEF ShownIsMatching
    <2>3. QED
        BY <2>1, <2>2, RowsAreTaken DEF ShownIsMatching, SelectionIsShown
<1>6. ASSUME NEW delta \in {-1, 1}, List!Move(delta) PROVE ListState' /\ listLast' = listLast
    <2> DEFINE row == List!MinOf(List!MaxOf(0, List!SelectedRow + delta), List!Count - 1)
    <2>1. /\ List!HasSelection /\ List!Selects(List!InRow(List!Shown, row))
          /\ listWaiting' = listWaiting
        BY <1>6 DEF List!Move
    <2>2. row \in 0..List!Count - 1
        <3>1. /\ List!SelectedRow \in Int /\ List!Count \in Int /\ List!Count > 0
            BY <2>1, ShownIs, SelectionIs DEF ShownIsMatching, SelectionIsShown
        <3>2. QED
            BY <3>1 DEF List!MinOf, List!MaxOf
    <2> HIDE DEF row
    <2>3. QED
        BY <1>1, <1>2, <1>5, <2>1, <2>2
<1>7. ASSUME NEW waits \in BOOLEAN, List!Hold(waits) PROVE ListState' /\ listLast' = listLast
    <2>1. List!HasSelection /\ List!Selects(List!SelectedNumber) /\ listWaiting' = waits
        BY <1>7 DEF List!Hold
    <2>2. QED
        BY <1>2, <1>5, <2>1
<1>8. ASSUME List!Follow PROVE ListState' /\ listLast' = listLast
    <2>1. List!Selects(0) /\ listWaiting' = listWaiting /\ 0 \in 0..listLast
        BY <1>1, <1>8 DEF List!Follow
    <2>2. QED
        BY <1>1, <1>2, <2>1
<1>9. \A text \in List!Texts : List!Applied(text) \in FilterType /\ List!NoFilter \in FilterType
    BY AppliedType
<1>10. NoText \in List!Texts /\ List!NoFilter \in FilterType
    BY <1>9 DEF List!Texts
<1>11. ASSUME List!OpenFilter PROVE ListState' /\ listLast' = listLast
    <2> DEFINE f == [listFilter EXCEPT !.editing = TRUE, !.input = listFilter.text]
    <2>1. List!Edits(f)
        BY <1>11 DEF List!OpenFilter
    <2>2. f \in FilterType /\ f.text = listFilter.text /\ f.numbers = listFilter.numbers
        BY <1>1 DEF FilterType
    <2> HIDE DEF f
    <2>3. QED
        BY <1>3, <2>1, <2>2
<1>12. ASSUME List!Edits(List!NoFilter) PROVE ListState' /\ listLast' = listLast
    BY <1>3, <1>10, <1>12
<1>13. ASSUME List!Escape PROVE ListState' /\ listLast' = listLast
    <2>1. CASE listWaiting
        <3>1. /\ listWaiting' = FALSE
              /\ UNCHANGED <<listEntries, listLast, listSelected, listFilter, listHeight,
                             listToast, alert>>
            BY <1>13, <2>1 DEF List!Escape
        <3>2. QED
            BY <1>1, <1>4, <3>1
    <2>2. CASE ~ listWaiting /\ alert
        <3>1. /\ alert' = FALSE
              /\ UNCHANGED <<listEntries, listLast, listSelected, listFilter, listHeight,
                             listToast, listWaiting>>
            BY <1>13, <2>2 DEF List!Escape
        <3>2. QED
            BY <1>1, <1>4, <3>1
    <2>3. CASE ~ listWaiting /\ ~ alert
        BY <1>12, <1>13, <2>3 DEF List!Escape
    <2>4. QED
        BY <1>1, <2>1, <2>2, <2>3
<1>14. ASSUME NEW text \in List!Texts, List!Edits([listFilter EXCEPT !.input = text])
       PROVE  ListState' /\ listLast' = listLast
    <2> DEFINE f == [listFilter EXCEPT !.input = text]
    <2>1. f \in FilterType /\ f.text = listFilter.text /\ f.numbers = listFilter.numbers
        BY <1>1 DEF FilterType
    <2>2. List!Edits(f)
        BY <1>14
    <2> HIDE DEF f
    <2>3. QED
        BY <1>3, <2>1, <2>2
<1>15. ASSUME List!Edits(List!Applied(listFilter.input))
       PROVE  ListState' /\ listLast' = listLast
    <2>1. listFilter.input \in List!Texts
        BY <1>1 DEF FilterType
    <2>2. QED
        BY <1>3, <1>9, <1>15, <2>1
<1>16. ASSUME List!Message PROVE ListState' /\ listLast' = listLast
    <2>1. /\ UNCHANGED <<listEntries, listLast, listSelected, listFilter>>
          /\ listHeight' \in ListHeights /\ listWaiting' \in BOOLEAN /\ listToast' \in BOOLEAN
          /\ alert' \in BOOLEAN
        BY <1>1, <1>16 DEF List!Message
    <2>2. QED
        BY <1>4, <2>1
<1>17. CASE List!Key
    BY <1>1, <1>6, <1>7, <1>8, <1>11, <1>13, <1>17 DEF List!Key
<1>18. CASE List!EditFilter
    BY <1>12, <1>14, <1>15, <1>18 DEF List!EditFilter
<1>19. QED
    BY <1>16, <1>17, <1>18

----------------------------------------------------------------------------
(* Recording: the oldest entries go, the new one comes last, and the filter   *)
(* and the first row keep up.                                                 *)

\* What matches after the first entries went and one came.
LEMMA RecordedEntries ==
    ASSUME ListState, NEW dropped \in 0..Len(listEntries), NEW fails \in BOOLEAN,
           listLast' = listLast + 1,
           listEntries' = Append(SubSeq(listEntries, dropped + 1, Len(listEntries)),
                                 [number |-> listLast + 1, failed |-> fails])
    PROVE  LET first == listLast + 1 - Len(listEntries) + dropped
               entry == [number |-> listLast + 1, failed |-> fails]
           IN  /\ Numbered(listEntries, listLast)'
               /\ first \in 1..(listLast + 1)
               /\ \A text : List!Matching(text)' =
                      {n \in List!Matching(text) : n >= first}
                          \cup (IF List!Matches(entry, text) THEN {listLast + 1} ELSE {})
<1> DEFINE len == Len(listEntries)
           first == listLast + 1 - len + dropped
           entry == [number |-> listLast + 1, failed |-> fails]
           kept == SubSeq(listEntries, dropped + 1, len)
           new == listEntries'
           at(i) == listEntries[i]
           at2(i) == new[i]
<1>1. /\ len \in Nat /\ listLast \in Nat /\ len <= listLast
      /\ listEntries \in Seq(EntryType)
      /\ \A i \in 1..len : listEntries[i].number = listLast - len + i
      /\ dropped \in Nat /\ dropped <= len
    BY DEF ListState, Numbered
<1>2. len \in Nat /\ listLast \in Nat /\ len <= listLast /\ dropped \in Nat /\ dropped <= len
    BY <1>1
<1>3. entry \in EntryType /\ entry.number = listLast + 1
    BY <1>1 DEF EntryType
<1> HIDE DEF entry
<1>4. /\ kept \in Seq(EntryType) /\ Len(kept) = len - dropped
      /\ \A i \in 1..(len - dropped) : kept[i] = listEntries[dropped + i]
    BY <1>1
<1>5. new = Append(kept, entry)
    BY DEF entry
<1> HIDE DEF kept, new
<1>6. /\ new \in Seq(EntryType) /\ Len(new) = len - dropped + 1
      /\ \A i \in 1..(len - dropped) : new[i] = listEntries[dropped + i]
      /\ new[len - dropped + 1] = entry
    <2>1. Len(kept) \in Nat
        BY <1>1, <1>4
    <2>2. /\ Append(kept, entry) \in Seq(EntryType) /\ Len(Append(kept, entry)) = Len(kept) + 1
          /\ \A i \in 1..Len(kept) : Append(kept, entry)[i] = kept[i]
          /\ Append(kept, entry)[Len(kept) + 1] = entry
        BY <1>3, <1>4
    <2>3. QED
        BY <1>4, <1>5, <2>2
<1>7. \A i \in 1..(len - dropped + 1) : new[i].number = listLast - len + dropped + i
    <2> SUFFICES ASSUME NEW i \in 1..(len - dropped + 1)
                 PROVE  new[i].number = listLast - len + dropped + i
        OBVIOUS
    <2>1. CASE i \in 1..(len - dropped)
        <3>1. new[i] = listEntries[dropped + i] /\ dropped + i \in 1..len
            BY <1>1, <1>6, <2>1
        <3>2. listEntries[dropped + i].number = listLast - len + (dropped + i)
            BY <1>1, <3>1
        <3>3. listLast - len + (dropped + i) = listLast - len + dropped + i
            BY <1>1, <2>1
        <3>4. QED
            BY <3>1, <3>2, <3>3
    <2>2. CASE i = len - dropped + 1
        <3>1. listLast + 1 = listLast - len + dropped + i
            BY <1>1, <2>2
        <3>2. QED
            BY <1>3, <1>6, <2>2, <3>1
    <2>3. i \in 1..(len - dropped) \/ i = len - dropped + 1
        BY <1>2
    <2>4. QED
        BY <2>1, <2>2, <2>3
<1>8. Numbered(listEntries, listLast)'
    <2>1. Len(new) <= listLast'
        BY <1>1, <1>6
    <2>2. \A i \in 1..Len(new) : new[i].number = listLast' - Len(new) + i
        <3>1. \A i \in Int : listLast - len + dropped + i = listLast' - Len(new) + i
            BY <1>1, <1>6
        <3>2. QED
            BY <1>6, <1>7, <3>1
    <2>3. QED
        BY <1>6, <2>1, <2>2 DEF Numbered, new
<1>9. first \in 1..(listLast + 1)
    BY <1>1
<1>10. ASSUME NEW text
      PROVE  List!Matching(text)' = {n \in List!Matching(text) : n >= first}
                 \cup (IF List!Matches(entry, text) THEN {listLast + 1} ELSE {})
    <2> DEFINE old == List!Matching(text)
               now == List!Matching(text)'
               matches(i) == List!Matches(listEntries[i], text)
               matches2(i) == List!Matches(new[i], text)
               number2(i) == new[i].number
    <2>1. old = {listEntries[i].number : i \in {j \in 1..len : matches(j)}}
        BY MatchingIs
    <2>2. old = {listLast - len + i : i \in {j \in 1..len : matches(j)}}
        BY <1>1, <2>1
    <2>3. now = {number2(i) : i \in {j \in 1..(len - dropped + 1) : matches2(j)}}
        <3>1. DOMAIN new = 1..(len - dropped + 1)
            BY <1>1, <1>6
        <3>2. List!Range(listEntries)' = {new[i] : i \in 1..(len - dropped + 1)}
            BY <3>1 DEF List!Range, new
        <3>3. now = {e.number : e \in {f \in List!Range(listEntries)' : List!Matches(f, text)}}
            BY DEF List!Matching, List!Matches
        <3>4. QED
            BY <3>2, <3>3
    <2>4. \A i \in 1..(len - dropped) : matches2(i) <=> matches(dropped + i)
        BY <1>6
    <2>5. matches2(len - dropped + 1) <=> List!Matches(entry, text)
        BY <1>6
    <2> HIDE DEF matches, matches2
    <2>6. now = {listLast - len + dropped + i : i \in {j \in 1..(len - dropped + 1) : matches2(j)}}
        BY <1>7, <2>3
    <2> HIDE DEF old, now
    <2>7. ASSUME NEW n \in now
          PROVE  \/ n \in old /\ n >= first
                 \/ n = listLast + 1 /\ List!Matches(entry, text)
        <3>1. PICK i \in 1..(len - dropped + 1) :
                  matches2(i) /\ n = listLast - len + dropped + i
            BY <2>6
        <3>2. CASE i \in 1..(len - dropped)
            <4>1. dropped + i \in 1..len /\ matches(dropped + i)
                <5>1. dropped + i \in 1..len
                    BY <1>2, <3>2
                <5>2. QED
                    BY <2>4, <3>1, <3>2, <5>1
            <4>2. n = listLast - len + (dropped + i) /\ n >= first
                BY <1>2, <3>1, <3>2
            <4>3. QED
                BY <2>2, <4>1, <4>2
        <3>3. CASE i = len - dropped + 1
            <4>1. n = listLast + 1
                BY <1>1, <3>1, <3>3
            <4>2. QED
                BY <2>5, <3>1, <3>3, <4>1
        <3>4. i \in 1..(len - dropped) \/ i = len - dropped + 1
            BY <1>2
        <3>5. QED
            BY <3>2, <3>3, <3>4
    <2>8. ASSUME NEW n \in old, n >= first PROVE n \in now
        <3>1. PICK i \in 1..len : matches(i) /\ n = listLast - len + i
            BY <2>2
        <3>2. i - dropped \in 1..(len - dropped) /\ dropped + (i - dropped) = i
            BY <1>1, <2>8, <3>1
        <3>3. matches2(i - dropped) /\ i - dropped \in 1..(len - dropped + 1)
            BY <1>1, <2>4, <3>1, <3>2
        <3>4. n = listLast - len + dropped + (i - dropped)
            BY <1>1, <3>1, <3>2
        <3>5. QED
            BY <2>6, <3>3, <3>4
    <2>9. ASSUME List!Matches(entry, text) PROVE listLast + 1 \in now
        <3>1. /\ len - dropped + 1 \in 1..(len - dropped + 1)
              /\ listLast + 1 = listLast - len + dropped + (len - dropped + 1)
            BY <1>1
        <3>2. QED
            BY <2>5, <2>6, <2>9, <3>1
    <2> HIDE DEF first
    <2>10. now = {n \in old : n >= first}
                     \cup (IF List!Matches(entry, text) THEN {listLast + 1} ELSE {})
        BY <2>7, <2>8, <2>9
    <2>11. QED
        BY <2>10 DEF old, now
<1>11. QED
    BY <1>8, <1>9, <1>10 DEF entry

\* The rows that go are those the filter shows of the entries that do.
LEMMA GoneRows ==
    ASSUME ListState, NEW dropped \in 0..Len(listEntries)
    PROVE  List!ShownRows(SubSeq(listEntries, 1, dropped)) =
               List!Before(List!Shown, listLast + 1 - Len(listEntries) + dropped)
<1> DEFINE len == Len(listEntries)
           first == listLast + 1 - len + dropped
           gone == SubSeq(listEntries, 1, dropped)
<1>1. /\ len \in Nat /\ listLast \in Nat /\ len <= listLast
      /\ listEntries \in Seq(EntryType)
      /\ \A i \in 1..len : listEntries[i].number = listLast - len + i
      /\ dropped \in Nat /\ dropped <= len
    BY DEF ListState, Numbered
<1>2. /\ DOMAIN gone = 1..dropped /\ \A i \in 1..dropped : gone[i] = listEntries[i]
    BY <1>1
<1> HIDE DEF gone
<1>3. \A i \in 1..dropped : gone[i].number = listLast - len + i
    BY <1>1, <1>2
<1>4. List!Numbers(gone) = {listLast - len + i : i \in 1..dropped}
    BY <1>2, <1>3 DEF List!Numbers
<1>5. List!Numbers(listEntries) = (listLast - len + 1)..listLast
    BY <1>1, EntryNumbers DEF ListState
<1>6. ASSUME NEW n PROVE n \in List!Numbers(gone) <=> n \in List!Numbers(listEntries) /\ n < first
    <2>1. ASSUME n \in List!Numbers(gone) PROVE n \in List!Numbers(listEntries) /\ n < first
        <3>1. PICK i \in 1..dropped : n = listLast - len + i
            BY <1>4, <2>1
        <3>2. n \in (listLast - len + 1)..listLast /\ n < first
            BY <1>1, <3>1
        <3>3. QED
            BY <1>5, <3>2
    <2>2. ASSUME n \in List!Numbers(listEntries), n < first PROVE n \in List!Numbers(gone)
        <3>1. n \in (listLast - len + 1)..listLast
            BY <1>5, <2>2
        <3>2. n - (listLast - len) \in 1..dropped /\ n = listLast - len + (n - (listLast - len))
            BY <1>1, <2>2, <3>1
        <3>3. QED
            BY <1>4, <3>2
    <2>3. QED
        BY <2>1, <2>2
<1> HIDE DEF first
<1>7. List!ShownOf(gone) = {n \in List!Shown : n < first}
    BY <1>6 DEF List!ShownOf, List!Shown
<1>8. List!ShownRows(gone) = List!Before(List!Shown, first)
    BY <1>7 DEF List!ShownRows, List!Before
<1>9. QED
    BY <1>8 DEF gone, first

\* What a record does: to the entries, the filter and the first row.
Recorded(fails, dropped) ==
    LET entry == [number |-> listLast + 1, failed |-> fails]
        first == listLast + 1 - Len(listEntries) + dropped
    IN  /\ listLast' = listLast + 1
        /\ listEntries' = Append(SubSeq(listEntries, dropped + 1, Len(listEntries)), entry)
        /\ listFilter' = List!FilterRecorded(entry, first)
        /\ listToast' \in {listToast, TRUE}
        /\ listSelected' = listSelected /\ listHeight' = listHeight
        /\ listWaiting' = listWaiting /\ alert' = alert
        /\ List!Scrolled(offset - List!Before(List!Shown, first))

LEMMA RecordIs ==
    ASSUME ListState, List!Record
    PROVE  \E fails \in BOOLEAN, dropped \in 0..Len(listEntries) : Recorded(fails, dropped)
<1>1. PICK fails \in BOOLEAN, dropped \in 0..Len(listEntries) :
          LET entry == [number |-> listLast + 1, failed |-> fails]
          IN  /\ listEntries' = Append(SubSeq(listEntries, dropped + 1, Len(listEntries)), entry)
              /\ listFilter' = List!FilterRecorded(entry, listLast + 1 - Len(listEntries) + dropped)
              /\ listToast' \in {listToast, TRUE}
              /\ UNCHANGED <<listSelected, listHeight, listWaiting, alert>>
              /\ List!Scrolled(offset - List!ShownRows(SubSeq(listEntries, 1, dropped)))
    BY DEF List!Record
<1>2. listLast' = listLast + 1
    BY DEF List!Record
<1>3. List!ShownRows(SubSeq(listEntries, 1, dropped)) =
          List!Before(List!Shown, listLast + 1 - Len(listEntries) + dropped)
    BY GoneRows
<1>4. Recorded(fails, dropped)
    BY <1>1, <1>2, <1>3 DEF Recorded
<1>5. QED
    BY <1>4

\* From first on the old numbers stay, and one more may come.
StayOrCome(old, new, first, top) ==
    \E more \in SUBSET {top} : new = {n \in old : n >= first} \cup more

\* The filter takes out the numbers that went and puts the new one at the end.
LEMMA RecordedFilter ==
    ASSUME ListState, NEW fails \in BOOLEAN, NEW dropped \in 0..Len(listEntries),
           Recorded(fails, dropped), NEW text, text = listFilter.text
    PROVE  LET first == listLast + 1 - Len(listEntries) + dropped
           IN  /\ List!FilterIsFresh' /\ listFilter' \in FilterType
               /\ listFilter'.text = text
               /\ StayOrCome(List!Matching(text), List!Matching(listFilter.text)', first,
                             listLast + 1)
<1> DEFINE entry == [number |-> listLast + 1, failed |-> fails]
           first == listLast + 1 - Len(listEntries) + dropped
           M == List!Matching(text)
           rest == {n \in M : n >= first}
           matches == List!Matches(entry, text)
           more == IF matches THEN {listLast + 1} ELSE {}
           end == IF matches THEN <<listLast + 1>> ELSE <<>>
           nums == List!FromNumber(listFilter.numbers, first) \o end
<1>1. /\ listFilter \in FilterType /\ listLast \in Nat /\ first \in 1..(listLast + 1)
      /\ List!Matching(text)' = rest \cup more
    <2>1. listFilter \in FilterType /\ listLast \in Nat
        BY DEF ListState
    <2>2. /\ listLast' = listLast + 1
          /\ listEntries' = Append(SubSeq(listEntries, dropped + 1, Len(listEntries)), entry)
        BY DEF Recorded
    <2>3. first \in 1..(listLast + 1) /\ \A any : List!Matching(any)' =
              {n \in List!Matching(any) : n >= first}
                  \cup (IF List!Matches(entry, any) THEN {listLast + 1} ELSE {})
        BY <2>2, RecordedEntries
    <2>4. QED
        BY <2>1, <2>3
<1>2. listFilter' = IF text = NoText THEN listFilter ELSE [listFilter EXCEPT !.numbers = nums]
    <2>1. listFilter' = List!FilterRecorded(entry, first)
        BY DEF Recorded
    <2>2. entry.number = listLast + 1
        OBVIOUS
    <2>3. QED
        BY <2>1, <2>2 DEF List!FilterRecorded
<1>3. M \in SUBSET (1..listLast) /\ M \in SUBSET Nat /\ IsFiniteSet(M)
    BY ShownIs DEF ShownIsMatching
<1>4. listFilter.numbers = IF text = NoText THEN <<>> ELSE List!InOrder(M)
    <2>1. listFilter.numbers = List!Applied(text).numbers
        BY DEF ListState, List!FilterIsFresh
    <2>2. QED
        BY <2>1 DEF List!Applied, List!NoFilter
<1>5. first \in Nat /\ listLast + 1 \in Nat
    BY <1>1
<1> HIDE DEF first, M, matches
<1>6. rest \in SUBSET (1..listLast) /\ rest \in SUBSET Nat /\ IsFiniteSet(rest)
    <2>1. rest \in SUBSET M
        OBVIOUS
    <2>2. QED
        BY <1>3, <2>1, FS_Subset
<1>7. ASSUME text # NoText PROVE nums = List!InOrder(rest \cup more)
    <2>1. List!FromNumber(listFilter.numbers, first) = List!InOrder(rest)
        BY <1>3, <1>4, <1>5, <1>7, FromNumberInOrder
    <2> HIDE DEF rest
    <2>2. CASE matches
        <3>1. \A n \in rest : n < listLast + 1
            BY <1>1, <1>6
        <3>2. List!InOrder(rest) \o <<listLast + 1>> = List!InOrder(rest \cup {listLast + 1})
            BY <1>5, <1>6, <3>1, LaterInOrder
        <3>3. QED
            BY <2>1, <2>2, <3>2
    <2>3. CASE ~ matches
        <3>1. List!InOrder(rest) \in Seq(Nat)
            BY <1>6, InOrderRows
        <3>2. List!InOrder(rest) \o <<>> = List!InOrder(rest)
            BY <3>1
        <3>3. rest \cup more = rest /\ end = <<>>
            BY <2>3
        <3>4. QED
            BY <2>1, <3>2, <3>3
    <2>4. QED
        BY <2>2, <2>3
<1>8. IsFiniteSet(rest \cup more) /\ rest \cup more \in SUBSET Nat
    <2>1. IsFiniteSet(rest \cup {listLast + 1})
        BY <1>6, FS_AddElement
    <2>2. QED
        BY <1>5, <1>6, <2>1
<1>9. List!InOrder(rest \cup more) \in Seq(Nat)
    BY <1>8, InOrderRows
<1> HIDE DEF nums, rest, more
<1>10. /\ listFilter' \in FilterType /\ listFilter'.text = text
       /\ listFilter'.numbers = IF text = NoText THEN <<>> ELSE List!InOrder(rest \cup more)
    <2>1. CASE text = NoText
        BY <1>1, <1>2, <1>4, <2>1
    <2>2. CASE text # NoText
        <3>1. listFilter' = [listFilter EXCEPT !.numbers = nums] /\ nums \in Seq(Nat)
            BY <1>2, <1>7, <1>9, <2>2
        <3>2. /\ listFilter' \in FilterType /\ listFilter'.text = listFilter.text
              /\ listFilter'.numbers = nums
            BY <1>1, <3>1 DEF FilterType
        <3>3. QED
            BY <1>7, <2>2, <3>2
    <2>3. QED
        BY <2>1, <2>2
<1>11. List!Matching(listFilter.text)' = rest \cup more
    <2>1. List!Matching(listFilter.text)' = List!Matching(text)'
        BY <1>10 DEF List!Matching, List!Matches
    <2>2. QED
        BY <1>1, <2>1
<1>12. List!FilterIsFresh'
    <2>1. List!FilterIsFresh' <=>
            listFilter'.numbers =
                (IF listFilter'.text = NoText THEN <<>>
                 ELSE List!InOrder(List!Matching(listFilter.text)'))
        BY DEF List!FilterIsFresh, List!Applied, List!NoFilter
    <2>2. QED
        BY <1>10, <1>11, <2>1
<1>13. more \in SUBSET {listLast + 1}
    BY DEF more
<1>14. StayOrCome(M, List!Matching(listFilter.text)', first, listLast + 1)
    BY <1>11, <1>13 DEF StayOrCome, rest
<1>15. QED
    BY <1>10, <1>12, <1>14 DEF M, first

\* What stays from a number on, and with what comes.
From(S, first) == {m \in S : m >= first}
Staying(S, first, more) == From(S, first) \cup more

\* None more, or one after all the others.
GoesOn(S, more) ==
    more = {} \/ \E top \in Nat : more = {top} /\ \A m \in S : m < top

\* Numbers that stay move up by the rows that went, and one more goes below them.
LEMMA StayingRows ==
    ASSUME NEW S \in SUBSET Nat, IsFiniteSet(S), NEW first \in Nat,
           NEW more, GoesOn(S, more)
    PROVE  /\ Staying(S, first, more) \in SUBSET Nat /\ IsFiniteSet(Staying(S, first, more))
           /\ Cardinality(Staying(S, first, more)) \in Nat
           /\ Cardinality(Staying(S, first, more)) >= Cardinality(S) - List!Before(S, first)
           /\ \A n \in From(S, first) :
                 /\ List!Before(Staying(S, first, more), n) \in Nat
                 /\ List!Before(S, n) =
                       List!Before(S, first) + List!Before(Staying(S, first, more), n)
<1> DEFINE b == List!Before(S, first)
           rest == From(S, first)
           T == Staying(S, first, more)
<1>1. /\ IsFiniteSet(rest) /\ Cardinality(rest) \in Nat /\ b \in Nat
      /\ Cardinality(S) = b + Cardinality(rest)
      /\ \A n \in rest : List!Before(S, n) = b + List!Before(rest, n)
    BY RowsMoveUp, RowBounds DEF From
<1>2. rest \in SUBSET Nat /\ rest \in SUBSET S
    BY DEF From
<1>3. T = rest \cup more
    BY DEF Staying
<1> HIDE DEF b, rest, T
<1>4. \A n \in rest : List!Before(rest, n) \in Nat
    BY <1>1, <1>2, RowBounds
<1>5. CASE more = {}
    <2>1. T = rest
        BY <1>3, <1>5
    <2>2. Cardinality(rest) >= Cardinality(S) - b
        BY <1>1
    <2>3. QED
        BY <1>1, <1>2, <1>4, <2>1, <2>2 DEF b, rest, T
<1>6. ASSUME NEW top \in Nat, more = {top}, \A m \in S : m < top
      PROVE  /\ T \in SUBSET Nat /\ IsFiniteSet(T) /\ Cardinality(T) \in Nat
             /\ Cardinality(T) >= Cardinality(S) - b
             /\ \A n \in rest : List!Before(T, n) \in Nat /\ List!Before(S, n) = b + List!Before(T, n)
    <2>1. /\ IsFiniteSet(T) /\ Cardinality(T) = Cardinality(rest) + 1
          /\ \A n \in rest : List!Before(T, n) = List!Before(rest, n)
        BY <1>1, <1>2, <1>3, <1>6, RowAfterAll
    <2>2. T \in SUBSET Nat
        BY <1>2, <1>3, <1>6
    <2>3. Cardinality(T) \in Nat /\ Cardinality(T) >= Cardinality(S) - b
        BY <1>1, <2>1
    <2>4. QED
        BY <1>1, <1>4, <2>1, <2>2, <2>3 DEF b, rest, T
<1>7. QED
    BY <1>5, <1>6 DEF GoesOn, b, rest, T

\* The rows hold still under a selection that is held and stays in the list.
HoldsStill ==
    listLast' # listLast /\ List!HasSelection /\ List!Rows' = List!Rows /\ List!Rows > 0
        /\ List!SelectedNumber = listSelected /\ listSelected \in List!Shown'
        /\ List!TopNumber \in List!Shown'
        => List!TopNumber' = List!TopNumber

LEMMA ListRecords ==
    ASSUME ListInv, List!Record
    PROVE  ListInv' /\ HoldsStill
<1>1. /\ ListState /\ offset \in Nat /\ SelectionShows
      /\ ShownIsMatching /\ SelectionIsShown
    BY ShownIs, SelectionIs DEF ListInv
<1>2. PICK fails \in BOOLEAN, dropped \in 0..Len(listEntries) : Recorded(fails, dropped)
    BY <1>1, RecordIs
<1>3. PICK text : text = listFilter.text
    OBVIOUS
<1> DEFINE first == listLast + 1 - Len(listEntries) + dropped
           S == List!Shown
           b == List!Before(S, first)
           rest == From(S, first)
<1>4. /\ List!FilterIsFresh' /\ listFilter' \in FilterType /\ listFilter'.text = text
      /\ StayOrCome(List!Matching(text), List!Matching(listFilter.text)', first, listLast + 1)
    BY <1>1, <1>2, <1>3, RecordedFilter
<1>5. Numbered(listEntries, listLast)' /\ first \in 1..(listLast + 1)
    <2>1. /\ listLast' = listLast + 1
          /\ listEntries' = Append(SubSeq(listEntries, dropped + 1, Len(listEntries)),
                                   [number |-> listLast + 1, failed |-> fails])
        BY <1>2 DEF Recorded
    <2>2. QED
        BY <1>1, <2>1, RecordedEntries
<1>6. listLast \in Nat /\ listLast' = listLast + 1 /\ listSelected' = listSelected
    BY <1>1, <1>2 DEF ListState, Recorded
<1>7. ListState'
    <2>1. listSelected' \in 0..listLast' /\ listLast' \in Nat
        BY <1>1, <1>6 DEF ListState
    <2>2. listHeight' \in ListHeights /\ (List!ListAssumption)'
        BY <1>1, <1>2 DEF ListState, Recorded, List!ListAssumption
    <2>3. listWaiting' \in BOOLEAN /\ listToast' \in BOOLEAN /\ alert' \in BOOLEAN
        BY <1>1, <1>2 DEF ListState, Recorded
    <2>4. QED
        BY <1>4, <1>5, <2>1, <2>2, <2>3 DEF ListState
<1>8. List!Scrolled(offset - b)
    BY <1>2 DEF Recorded
<1>9. S \in SUBSET (1..listLast) /\ S \in SUBSET Nat /\ IsFiniteSet(S) /\ first \in Nat
    BY <1>1, <1>5 DEF ShownIsMatching
<1>10. b \in Nat
    BY <1>9, RowBounds
<1>11. ListInv'
    <2>1. offset - b \in Int
        BY <1>1, <1>10
    <2>2. QED
        BY <1>7, <1>8, <2>1, ScrollingFits
<1>12. ShownIsMatching' /\ SelectionIsShown'
    <2>1. (ListState' => ShownIsMatching') /\ (ListState' => SelectionIsShown')
        BY ShownIs, SelectionIs, PTL
    <2>2. QED
        BY <1>7, <2>1
<1>13. PICK more \in SUBSET {listLast + 1} : List!Shown' = rest \cup more
    <2>1. List!Shown' = List!Matching(listFilter.text)'
        BY <1>12 DEF ShownIsMatching
    <2>2. S = List!Matching(text)
        BY <1>1, <1>3 DEF ShownIsMatching
    <2>3. QED
        BY <1>4, <2>1, <2>2 DEF StayOrCome, From
<1> DEFINE T == List!Shown'
<1> HIDE DEF T, S, first, b
<1>14. /\ T \in SUBSET Nat /\ IsFiniteSet(T) /\ Cardinality(T) \in Nat
       /\ Cardinality(T) >= Cardinality(S) - b
       /\ \A n \in rest : List!Before(T, n) \in Nat /\ List!Before(S, n) = b + List!Before(T, n)
    <2>1. T = rest \cup more
        BY <1>13 DEF T
    <2>2. listLast + 1 \in Nat /\ \A m \in S : m < listLast + 1
        BY <1>6, <1>9
    <2>3. more \in SUBSET {listLast + 1}
        BY <1>13
    <2>4. S \in SUBSET Nat /\ IsFiniteSet(S) /\ first \in Nat /\ T = Staying(S, first, more)
        BY <1>9, <2>1 DEF Staying
    <2>5. GoesOn(S, more)
        <3>1. more = {} \/ more = {listLast + 1}
            BY <2>3
        <3>2. QED
            BY <2>2, <3>1 DEF GoesOn
    <2>6. QED
        BY <2>4, <2>5, StayingRows DEF b
<1>15. ASSUME List!HasSelection, List!Rows' = List!Rows, List!Rows > 0,
              List!SelectedNumber = listSelected, listSelected \in T, List!TopNumber \in T
       PROVE  List!TopNumber' = List!TopNumber
    <2> DEFINE t == List!TopNumber
               rows == List!Rows
               row == List!SelectedRow
    <2>1. /\ listSelected \in S /\ List!Before(S, listSelected) = row
          /\ row \in 0..List!Count - 1 /\ rows \in Nat
          /\ Cardinality(S) = List!Count /\ List!Count \in Nat
          /\ offset <= row /\ row < offset + rows
          /\ offset <= List!MaxOf(0, List!Count - rows)
        BY <1>1, <1>15 DEF SelectionIsShown, ShownIsMatching, SelectionShows, S
    <2>2. offset \in 0..List!Count - 1
        BY <1>1, <2>1
    <2>3. t \in S /\ List!Before(S, t) = offset
        BY <1>9, <2>1, <2>2, RowsAreTaken DEF List!TopNumber, S
    <2>4. \A n \in S : n \in T => n \in rest
        <3>1. \A n \in S : n \notin more
            <4>1. \A n \in S : n # listLast + 1
                BY <1>6, <1>9
            <4>2. QED
                BY <4>1
        <3>2. QED
            BY <1>13, <3>1 DEF T
    <2>5. t \in rest /\ listSelected \in rest
        BY <1>15, <2>1, <2>3, <2>4
    <2> DEFINE from == List!Before(T, t)
               to == List!Before(T, listSelected)
               rowCount == Cardinality(T)
    <2>6. from \in Nat /\ offset = b + from /\ to \in Nat /\ row = b + to
        BY <1>14, <2>1, <2>3, <2>5
    <2>7. from < rowCount /\ to < rowCount /\ rowCount \in Nat
        <3>1. t \in Nat /\ listSelected \in Nat
            BY <1>9, <2>1, <2>3
        <3>2. QED
            BY <1>14, <1>15, <3>1, RowBounds
    <2>8. List!SelectedRow' = to
        <3>1. List!Count' = rowCount
            BY <1>12 DEF ShownIsMatching, T
        <3>2. listSelected # 0
            BY <1>9, <2>1
        <3>3. List!Before(List!Shown, listSelected)' = to
            BY <1>6 DEF T, List!Before
        <3>4. List!SelectedRow' = List!MinOf(to, rowCount - 1)
            BY <1>6, <3>1, <3>2, <3>3 DEF List!SelectedRow, List!MinOf
        <3> HIDE DEF to, rowCount
        <3>5. QED
            BY <2>6, <2>7, <3>4 DEF List!MinOf
    <2>9. offset' = List!FirstRow(from, to, rows, rowCount)
        <3>1. List!MaxOf(0, List!SelectedRow)' = to
            <4> HIDE DEF to
            <4>1. List!MaxOf(0, List!SelectedRow)' = List!MaxOf(0, to)
                BY <2>8 DEF List!MaxOf
            <4>2. List!MaxOf(0, to) = to
                BY <2>6 DEF List!MaxOf
            <4>3. QED
                BY <4>1, <4>2
        <3>2. List!Count' = rowCount
            BY <1>12 DEF ShownIsMatching, T
        <3>3. offset - b = from
            <4> HIDE DEF from
            <4>1. QED
                BY <1>10, <2>6
        <3>4. offset' = List!FirstRow(offset - b, List!MaxOf(0, List!SelectedRow)', List!Rows',
                                      List!Count')
            BY <1>8 DEF List!Scrolled
        <3>5. QED
            BY <1>15, <3>1, <3>2, <3>3, <3>4
    <2>10. offset' = from
        <3> HIDE DEF from, to, rowCount, rows, row
        <3>1. from <= to /\ to < from + rows
            BY <1>10, <2>1, <2>6
        <3>2. from <= List!MaxOf(0, rowCount - rows)
            BY <1>10, <1>14, <2>1, <2>6, <2>7 DEF List!MaxOf, rowCount
        <3>3. QED
            BY <2>1, <2>6, <2>7, <2>9, <3>1, <3>2, FirstRowStays
    <2>11. List!InRow(T, from) = t
        BY <1>14, <1>15, RowsAreTaken
    <2>12. List!TopNumber' = List!InRow(T, offset')
        BY DEF List!TopNumber, T, List!InRow, List!Before
    <2>13. QED
        BY <2>10, <2>11, <2>12
<1>16. QED
    BY <1>11, <1>15 DEF HoldsStill, T

LEMMA ListStep == ListInv /\ [List!Next]_(List!vars) => ListInv' /\ [List!RowsHoldStill]_(List!vars)
<1> SUFFICES ASSUME ListInv, [List!Next]_(List!vars)
             PROVE  ListInv' /\ [List!RowsHoldStill]_(List!vars)
    OBVIOUS
<1>1. ASSUME ListInv', HoldsStill PROVE List!RowsHoldStill
    BY <1>1 DEF ListInv, SelectionShows, HoldsStill, List!RowsHoldStill
<1>2. CASE List!Record
    BY <1>1, <1>2, ListRecords
<1>3. CASE (List!Key \/ List!EditFilter \/ List!Message) /\ List!Scrolled(offset)
    <2>1. ListState' /\ listLast' = listLast
        BY <1>3, ListQuiet DEF ListInv
    <2>2. offset \in Int
        BY DEF ListInv
    <2>3. ListInv'
        BY <1>3, <2>1, <2>2, ScrollingFits
    <2>4. QED
        BY <1>1, <2>1, <2>3 DEF HoldsStill
<1>4. CASE UNCHANGED List!vars
    <2>1. /\ listEntries' = listEntries /\ listLast' = listLast /\ listSelected' = listSelected
          /\ offset' = offset /\ listHeight' = listHeight /\ listFilter' = listFilter
          /\ listWaiting' = listWaiting /\ listToast' = listToast /\ alert' = alert
        BY <1>4 DEF List!vars
    <2>2. ListState'
        <3>1. List!FilterIsFresh'
            BY <2>1, EditIsFresh DEF ListInv
        <3>2. QED
            BY <2>1, <3>1, ListKeeps DEF ListInv, ListState
    <2>3. List!Shown' = List!Shown /\ List!Rows' = List!Rows
        BY <2>1 DEF List!Shown, List!ShownOf, List!Shows, List!Numbers, List!Range, List!Rows
    <2>4. List!Count' = List!Count /\ (List!HasSelection' <=> List!HasSelection)
        BY <2>3 DEF List!Count, List!HasSelection, List!Cardinality
    <2>5. List!SelectedRow' = List!SelectedRow
        BY <2>1, <2>3, <2>4 DEF List!SelectedRow, List!Before, List!MinOf
    <2>6. SelectionShows'
        BY <2>1, <2>3, <2>4, <2>5 DEF ListInv, SelectionShows, List!MaxOf
    <2>7. ListInv'
        BY <2>1, <2>2, <2>6 DEF ListInv
    <2>8. QED
        BY <1>4, <2>7
<1>5. QED
    BY <1>2, <1>3, <1>4 DEF List!Next

\* Whatever is recorded, evicted, typed, replied and resized, in any order: what
\* the filter matches is what matching afresh would give, the selection stays on
\* screen, and no arrival or eviction moves the rows under a selection that is held.
THEOREM ListCorrect ==
    ASSUME List!ListAssumption
    PROVE  List!Spec => ListHoldsStill
<1>1. List!Init => ListInv
    BY ListInit
<1>2. ListInv => List!TypeOK /\ List!FilterIsFresh
    <2> SUFFICES ASSUME ListInv PROVE List!TypeOK /\ List!FilterIsFresh
        OBVIOUS
    <2>1. /\ listEntries \in Seq([number : Nat, failed : BOOLEAN])
          /\ \A i \in 1..Len(listEntries) :
                listEntries[i].number = listLast - Len(listEntries) + i
        BY DEF ListInv, ListState, Numbered, EntryType
    <2>2. listSelected \in 0..listLast /\ offset \in 0..Len(listEntries) /\ listHeight \in ListHeights
        BY DEF ListInv, ListState
    <2>3. listFilter \in [editing : BOOLEAN, input : List!Texts, text : List!Texts, numbers : Seq(Nat)]
        BY DEF ListInv, ListState, FilterType
    <2>4. {listWaiting, listToast, alert} \subseteq BOOLEAN
        BY DEF ListInv, ListState
    <2>5. QED
        BY <2>1, <2>2, <2>3, <2>4 DEF List!TypeOK, ListInv, ListState
<1>3. QED
    BY <1>1, <1>2, ListStep, PTL DEF List!Spec, ListHoldsStill

----------------------------------------------------------------------------
(* TargetWait.  Each wait has one dial or one replay at a time: a wait that    *)
(* was replaced or given up leaves at most one of them behind, and what it     *)
(* left is told apart by its number.                                          *)

WaitTypes ==
    /\ Wait!BoundsAssumption /\ Wait!TypeOK
    /\ waitLast \in Nat /\ Len(waitEntries) <= waitLast

\* Nothing belongs to a wait that hasn't started.
NoneAhead ==
    /\ \A r \in replays : r.id <= wait.id
    /\ \A i \in 1..Len(waitEntries) : waitEntries[i].by <= wait.id
    /\ \A id \in 1..MaxWaits : id > wait.id => dials[id] = 0

\* A wait that has replayed, or is about to, has stopped dialling; it has one
\* replay under way, and records one.
OneEach ==
    /\ \A r \in replays : r.id # 0 => dials[r.id] = 0
    /\ \A r, s \in replays : r.id # 0 /\ r.id = s.id => r = s
    /\ \A i \in 1..Len(waitEntries) : waitEntries[i].by # 0 => dials[waitEntries[i].by] = 0
    /\ \A r \in replays, i \in 1..Len(waitEntries) :
          r.id # 0 /\ r.made = 0 => waitEntries[i].by # r.id
    /\ \A i, j \in 1..Len(waitEntries) :
          i # j /\ waitEntries[i].by # 0 => waitEntries[i].by # waitEntries[j].by

\* The current wait has its dial or its replay.
CurrentWorks ==
    Wait!Waiting =>
        /\ wait.id # 0
        /\ IF wait.replaying
           THEN dials[wait.id] = 0 /\ \E r \in replays : r.id = wait.id /\ r.number = wait.number
           ELSE dials[wait.id] = 1

WaitInv == WaitTypes /\ NoneAhead /\ OneEach /\ CurrentWorks

\* Nothing but the entries has changed.
LEMMA WaitRecorded ==
    ASSUME WaitTypes, NEW replayOf \in Nat, NEW by \in 0..MaxWaits, Wait!Record(replayOf, by)
    PROVE  /\ waitLast' = waitLast + 1
           /\ waitEntries' \in Seq(Wait!Entry) /\ Len(waitEntries') <= waitLast'
           /\ \A i \in 1..Len(waitEntries') : waitEntries'[i].number = waitLast' - Len(waitEntries') + i
           /\ \E d \in 0..Len(waitEntries) :
                 /\ Len(waitEntries') = Len(waitEntries) - d + 1
                 /\ \A i \in 1..Len(waitEntries) - d : waitEntries'[i] = waitEntries[d + i]
                 /\ waitEntries'[Len(waitEntries) - d + 1].by = by
<1>1. PICK failure \in BOOLEAN, d \in 0..Len(waitEntries) :
         waitEntries' = Append(SubSeq(waitEntries, d + 1, Len(waitEntries)),
             [number |-> waitLast + 1, failed |-> failure, replayOf |-> replayOf, by |-> by])
    BY DEF Wait!Record
<1> DEFINE n == Len(waitEntries)
           kept == SubSeq(waitEntries, d + 1, n)
           new == [number |-> waitLast + 1, failed |-> failure, replayOf |-> replayOf, by |-> by]
<1>2. waitEntries \in Seq(Wait!Entry) /\ n \in Nat /\ waitLast \in Nat /\ n <= waitLast
    BY DEF WaitTypes, Wait!TypeOK
<1>3. new \in Wait!Entry /\ new.by = by /\ new.number = waitLast + 1
    BY <1>2 DEF Wait!Entry
<1>4. /\ kept \in Seq(Wait!Entry) /\ Len(kept) = n - d
      /\ \A i \in 1..n - d : kept[i] = waitEntries[d + i]
    BY <1>2
<1>5. waitEntries' = Append(kept, new)
    BY <1>1
<1> HIDE DEF kept, new
<1>6. /\ waitEntries' \in Seq(Wait!Entry) /\ Len(waitEntries') = n - d + 1
      /\ \A i \in 1..n - d : waitEntries'[i] = waitEntries[d + i]
      /\ waitEntries'[n - d + 1] = new
    BY <1>3, <1>4, <1>5
<1>7. waitLast' = waitLast + 1
    BY DEF Wait!Record
<1>8. ASSUME NEW i \in 1..Len(waitEntries')
      PROVE  waitEntries'[i].number = waitLast' - Len(waitEntries') + i
    <2>1. CASE i \in 1..n - d
        <3>1. d + i \in 1..n
            BY <1>2, <2>1
        <3>2. waitEntries[d + i].number = waitLast - n + (d + i)
            BY <3>1 DEF WaitTypes, Wait!TypeOK
        <3>3. QED
            BY <1>2, <1>6, <1>7, <2>1, <3>2
    <2>2. CASE i = n - d + 1
        <3>1. waitEntries'[i].number = waitLast + 1
            BY <1>3, <1>6, <2>2
        <3>2. waitLast' - Len(waitEntries') + i = waitLast + 1
            <4> HIDE DEF n
            <4>1. QED
                BY <1>2, <1>6, <1>7, <2>2
        <3>3. QED
            BY <3>1, <3>2
    <2>3. i \in 1..n - d + 1
        BY <1>6
    <2> HIDE DEF n
    <2>4. i \in 1..n - d \/ i = n - d + 1
        BY <1>2, <2>3
    <2>5. QED
        BY <2>1, <2>2, <2>4
<1>9. waitEntries' \in Seq(Wait!Entry) /\ Len(waitEntries') <= waitLast'
    BY <1>2, <1>6, <1>7
<1>10. /\ Len(waitEntries') = Len(waitEntries) - d + 1
       /\ \A i \in 1..Len(waitEntries) - d : waitEntries'[i] = waitEntries[d + i]
       /\ waitEntries'[Len(waitEntries) - d + 1].by = by
    BY <1>3, <1>6
<1>11. QED
    BY <1>7, <1>8, <1>9, <1>10

\* The list's requests have numbers up to the last one.
LEMMA WaitNumbers ==
    ASSUME WaitTypes, NEW e \in Range(waitEntries)
    PROVE  e \in Wait!Entry /\ e.number \in 1..waitLast
<1>1. waitEntries \in Seq(Wait!Entry) /\ Len(waitEntries) \in Nat
    BY DEF WaitTypes, Wait!TypeOK
<1>2. PICK i \in 1..Len(waitEntries) : e = waitEntries[i]
    BY <1>1 DEF Range
<1>3. e.number = waitLast - Len(waitEntries) + i
    BY <1>2 DEF WaitTypes, Wait!TypeOK
<1>4. QED
    BY <1>1, <1>2, <1>3 DEF WaitTypes

\* What w says it replayed as is a request of the list, or none.
LEMMA NewestReplayIsListed ==
    ASSUME WaitTypes, NEW n
    PROVE  Wait!NewestReplayOf(n) \in 0..waitLast
<1> DEFINE I == {i \in DOMAIN waitEntries : waitEntries[i].replayOf = n}
<1>1. Len(waitEntries) \in Nat /\ waitLast \in Nat /\ DOMAIN waitEntries = 1..Len(waitEntries)
    BY DEF WaitTypes, Wait!TypeOK
<1>2. Wait!NewestReplayOf(n) = IF I = {} THEN 0 ELSE waitEntries[Max(I)].number
    BY Zenon DEF Wait!NewestReplayOf, Wait!Max, Max
<1>3. I # {} => Max(I) \in 1..Len(waitEntries)
    <2>1. I \in SUBSET Nat /\ \A i \in I : i \in 1..Len(waitEntries) /\ i <= Len(waitEntries)
        BY <1>1
    <2>2. I # {} => Max(I) \in I
        <3> HIDE DEF I
        <3>1. QED
            BY <1>1, <2>1, MaxIsGreatest
    <2>3. QED
        BY <2>1, <2>2
<1> HIDE DEF I
<1>4. I # {} => waitEntries[Max(I)].number = waitLast - Len(waitEntries) + Max(I)
    BY <1>1, <1>3 DEF WaitTypes, Wait!TypeOK
<1>5. QED
    BY <1>1, <1>2, <1>3, <1>4 DEF WaitTypes

LEMMA WaitInit == Wait!BoundsAssumption /\ Wait!Init => WaitInv
<1> SUFFICES ASSUME Wait!BoundsAssumption, Wait!Init PROVE WaitInv
    OBVIOUS
<1> USE DEF Wait!Init, Wait!NoWait
<1>1. MaxWaits \in Nat
    BY DEF Wait!BoundsAssumption
<1>2. waitEntries = <<>> /\ waitEntries \in Seq(Wait!Entry) /\ Len(waitEntries) = 0
    OBVIOUS
<1>3. Wait!TypeOK
    <2>1. /\ wait.id = 0 /\ wait.number = 0 /\ wait.replaying = FALSE /\ wait.result = "none"
          /\ wait.as = 0 /\ wait.made = 0
        OBVIOUS
    <2>2. wait \in [id : 0..MaxWaits, number : 0..waitLast, replaying : BOOLEAN,
                    result : {"none", "failed", "replayed"}, as : 0..waitLast, made : 0..waitLast]
        BY <1>1
    <2>3. dials \in [1..MaxWaits -> 0..1] /\ replays = {}
        BY <1>1
    <2>4. answers \in BOOLEAN
        BY Zenon
    <2>5. QED
        BY <1>2, <2>2, <2>3, <2>4 DEF Wait!TypeOK
<1>4. WaitTypes
    BY <1>2, <1>3 DEF WaitTypes
<1>5. ~ Wait!Waiting
    BY DEF Wait!Waiting
<1>6. NoneAhead /\ OneEach /\ CurrentWorks
    BY <1>2, <1>5 DEF NoneAhead, OneEach, CurrentWorks
<1>7. QED
    BY <1>4, <1>6 DEF WaitInv

\* The waits that replays and recordings belong to.
LEMMA WaitIds ==
    ASSUME WaitTypes
    PROVE  /\ wait.id \in 0..MaxWaits
           /\ \A r \in replays : r.id \in 0..MaxWaits
           /\ \A i \in 1..Len(waitEntries) : waitEntries[i].by \in 0..MaxWaits
<1>1. /\ waitEntries \in Seq(Wait!Entry)
      /\ replays \subseteq [id : 0..MaxWaits, number : 1..waitLast, made : 0..waitLast]
      /\ wait.id \in 0..MaxWaits
    BY DEF WaitTypes, Wait!TypeOK
<1>2. \A i \in 1..Len(waitEntries) : waitEntries[i] \in Wait!Entry
    BY <1>1
<1>3. \A e \in Wait!Entry : e.by \in 0..MaxWaits
    BY DEF Wait!Entry
<1>4. QED
    BY <1>1, <1>2, <1>3

\* A recording disturbs no wait, as long as it is a delivery, r's, or the only one
\* of a wait that has stopped dialling; the list drops what it drops.
LEMMA WaitRecordKeeps ==
    ASSUME WaitInv, NEW replayOf \in Nat, NEW by \in 0..MaxWaits, Wait!Record(replayOf, by),
           UNCHANGED <<wait, dials>>, by <= wait.id,
           by # 0 => /\ dials[by] = 0
                     /\ \A i \in 1..Len(waitEntries) : waitEntries[i].by # by
    PROVE  /\ \A i \in 1..Len(waitEntries)' : waitEntries'[i].by <= wait'.id
           /\ \A i \in 1..Len(waitEntries)' : waitEntries'[i].by # 0 => dials'[waitEntries'[i].by] = 0
           /\ \A i, j \in 1..Len(waitEntries)' :
                 i # j /\ waitEntries'[i].by # 0 => waitEntries'[i].by # waitEntries'[j].by
           /\ \A i \in 1..Len(waitEntries)' : waitEntries'[i].by = by
                 \/ \E j \in 1..Len(waitEntries) : waitEntries[j].by = waitEntries'[i].by
<1> DEFINE n == Len(waitEntries)
<1>1. n \in Nat /\ waitEntries \in Seq(Wait!Entry)
    BY DEF WaitInv, WaitTypes, Wait!TypeOK
<1>2. PICK d \in 0..n :
         /\ Len(waitEntries') = n - d + 1
         /\ \A i \in 1..n - d : waitEntries'[i] = waitEntries[d + i]
         /\ waitEntries'[n - d + 1].by = by
    BY WaitRecorded DEF WaitInv
<1>3. \A i \in 1..n - d : d + i \in 1..n
    BY <1>1
<1>4. \A i \in 1..n - d : waitEntries'[i].by = waitEntries[d + i].by
    BY <1>2
<1>5. \A i \in 1..n - d + 1 : i = n - d + 1 \/ i \in 1..n - d
    BY <1>1
<1>0. /\ \A i \in 1..n : waitEntries[i].by <= wait.id
      /\ \A i \in 1..n : waitEntries[i].by # 0 => dials[waitEntries[i].by] = 0
      /\ \A i, j \in 1..n : i # j /\ waitEntries[i].by # 0 => waitEntries[i].by # waitEntries[j].by
      /\ by # 0 => \A i \in 1..n : waitEntries[i].by # by
    BY DEF WaitInv, NoneAhead, OneEach
<1> HIDE DEF n
<1>6. \A i \in 1..n - d + 1 : waitEntries'[i].by <= wait.id
    BY <1>2, <1>3, <1>4, <1>5, <1>0
<1>7. \A i \in 1..n - d + 1 : waitEntries'[i].by # 0 => dials[waitEntries'[i].by] = 0
    BY <1>2, <1>3, <1>4, <1>5, <1>0
<1>8. \A i, j \in 1..n - d + 1 :
         i # j /\ waitEntries'[i].by # 0 => waitEntries'[i].by # waitEntries'[j].by
    <2> SUFFICES ASSUME NEW i \in 1..n - d + 1, NEW j \in 1..n - d + 1, i # j, waitEntries'[i].by # 0
                 PROVE  waitEntries'[i].by # waitEntries'[j].by
        OBVIOUS
    <2>1. CASE i \in 1..n - d /\ j \in 1..n - d
        <3>1. d + i \in 1..n /\ d + j \in 1..n /\ d + i # d + j
            BY <1>1, <2>1
        <3>2. waitEntries[d + i].by # 0
            BY <1>4, <2>1
        <3>3. waitEntries[d + i].by # waitEntries[d + j].by
            BY <1>0, <3>1, <3>2
        <3>4. QED
            BY <1>4, <2>1, <3>3
    <2>2. CASE i \in 1..n - d /\ j = n - d + 1
        BY <1>0, <1>2, <1>3, <1>4, <2>2
    <2>3. CASE i = n - d + 1 /\ j \in 1..n - d
        BY <1>0, <1>2, <1>3, <1>4, <2>3
    <2>4. QED
        BY <1>5, <2>1, <2>2, <2>3
<1>9. \A i \in 1..n - d + 1 : waitEntries'[i].by = by
         \/ \E j \in 1..n : waitEntries[j].by = waitEntries'[i].by
    BY <1>2, <1>3, <1>4, <1>5
<1>10. QED
    BY <1>2, <1>6, <1>7, <1>8, <1>9 DEF n

LEMMA WaitDelivery == WaitInv /\ Wait!RecordDelivery => WaitInv'
<1> SUFFICES ASSUME WaitInv, Wait!RecordDelivery PROVE WaitInv'
    OBVIOUS
<1>1. Wait!Record(0, 0) /\ UNCHANGED <<pressed, wait, dials, replays, answers>>
    BY DEF Wait!RecordDelivery
<1>2. MaxWaits \in Nat /\ 0 \in 0..MaxWaits /\ wait.id \in 0..MaxWaits /\ 0 <= wait.id
    BY DEF WaitInv, WaitTypes, Wait!TypeOK, Wait!BoundsAssumption
<1>3. /\ waitLast' = waitLast + 1 /\ waitEntries' \in Seq(Wait!Entry) /\ Len(waitEntries') <= waitLast'
      /\ \A i \in 1..Len(waitEntries') : waitEntries'[i].number = waitLast' - Len(waitEntries') + i
    BY <1>1, <1>2, WaitRecorded DEF WaitInv
<1>4. WaitTypes'
    BY <1>1, <1>3 DEF WaitInv, WaitTypes, Wait!TypeOK, Wait!Entry
<1>5. /\ \A i \in 1..Len(waitEntries)' : waitEntries'[i].by <= wait'.id
      /\ \A i \in 1..Len(waitEntries)' : waitEntries'[i].by # 0 => dials'[waitEntries'[i].by] = 0
      /\ \A i, j \in 1..Len(waitEntries)' :
            i # j /\ waitEntries'[i].by # 0 => waitEntries'[i].by # waitEntries'[j].by
      /\ \A i \in 1..Len(waitEntries)' : waitEntries'[i].by = 0
            \/ \E j \in 1..Len(waitEntries) : waitEntries[j].by = waitEntries'[i].by
    BY <1>1, <1>2, WaitRecordKeeps
<1>6. NoneAhead'
    BY <1>1, <1>5 DEF WaitInv, NoneAhead
<1>7. OneEach'
    BY <1>1, <1>5 DEF WaitInv, OneEach
<1>8. CurrentWorks'
    BY <1>1 DEF WaitInv, CurrentWorks, Wait!Waiting
<1>9. QED
    BY <1>4, <1>6, <1>7, <1>8 DEF WaitInv

LEMMA WaitReplayRecorded ==
    ASSUME WaitInv, NEW r \in replays, Wait!RecordReplay(r)
    PROVE  WaitInv'
<1> DEFINE s == [r EXCEPT !.made = waitLast + 1]
<1>1. /\ r.made = 0 /\ Wait!Record(r.number, r.id) /\ replays' = (replays \ {r}) \cup {s}
      /\ UNCHANGED <<deliveries, pressed, wait, dials, answers>>
    BY DEF Wait!RecordReplay
<1>2. /\ r \in [id : 0..MaxWaits, number : 1..waitLast, made : 0..waitLast]
      /\ r.id <= wait.id /\ r.number \in Nat /\ waitLast \in Nat
    BY DEF WaitInv, WaitTypes, Wait!TypeOK, NoneAhead
<1>3. s.id = r.id /\ s.number = r.number /\ s.made = waitLast + 1
    BY <1>2
<1>4. /\ waitLast' = waitLast + 1 /\ waitEntries' \in Seq(Wait!Entry) /\ Len(waitEntries') <= waitLast'
      /\ \A i \in 1..Len(waitEntries') : waitEntries'[i].number = waitLast' - Len(waitEntries') + i
    BY <1>1, <1>2, WaitRecorded DEF WaitInv
<1>5. s \in [id : 0..MaxWaits, number : 1..waitLast', made : 0..waitLast']
    <2>1. r.id \in 0..MaxWaits /\ r.number \in 1..waitLast' /\ waitLast + 1 \in 0..waitLast'
        BY <1>2, <1>4
    <2>2. s = [id |-> r.id, number |-> r.number, made |-> waitLast + 1]
        BY <1>2
    <2>3. QED
        BY <2>1, <2>2
<1>6. replays' \subseteq [id : 0..MaxWaits, number : 1..waitLast', made : 0..waitLast']
    <2>1. \A q \in replays : q \in [id : 0..MaxWaits, number : 1..waitLast', made : 0..waitLast']
        BY <1>2, <1>4 DEF WaitInv, WaitTypes, Wait!TypeOK
    <2>2. QED
        BY <1>1, <1>5, <2>1
<1> HIDE DEF s
<1>7. WaitTypes'
    BY <1>1, <1>2, <1>4, <1>6 DEF WaitInv, WaitTypes, Wait!TypeOK, Wait!Entry
<1>8. /\ \A i \in 1..Len(waitEntries)' : waitEntries'[i].by <= wait'.id
      /\ \A i \in 1..Len(waitEntries)' : waitEntries'[i].by # 0 => dials'[waitEntries'[i].by] = 0
      /\ \A i, j \in 1..Len(waitEntries)' :
            i # j /\ waitEntries'[i].by # 0 => waitEntries'[i].by # waitEntries'[j].by
      /\ \A i \in 1..Len(waitEntries)' : waitEntries'[i].by = r.id
            \/ \E j \in 1..Len(waitEntries) : waitEntries[j].by = waitEntries'[i].by
    <2>1. r.id # 0 => dials[r.id] = 0 /\ \A i \in 1..Len(waitEntries) : waitEntries[i].by # r.id
        BY <1>1 DEF WaitInv, OneEach
    <2>2. QED
        BY <1>1, <1>2, <2>1, WaitRecordKeeps
<1>9. NoneAhead'
    BY <1>1, <1>2, <1>3, <1>8 DEF WaitInv, NoneAhead
<1>10. OneEach'
    <2>1. \A q \in replays' : q.id # 0 => dials'[q.id] = 0
        BY <1>1, <1>3 DEF WaitInv, OneEach
    <2>2. \A p, q \in replays' : p.id # 0 /\ p.id = q.id => p = q
        BY <1>1, <1>3 DEF WaitInv, OneEach
    <2>3. ASSUME NEW q \in replays', NEW i \in 1..Len(waitEntries)', q.id # 0, q.made = 0
          PROVE  waitEntries'[i].by # q.id
        <3>1. q \in replays /\ q # r
            BY <1>1, <1>2, <1>3, <2>3
        <3>2. q.id # r.id
            BY <2>3, <3>1 DEF WaitInv, OneEach
        <3>3. \A j \in 1..Len(waitEntries) : waitEntries[j].by # q.id
            BY <2>3, <3>1 DEF WaitInv, OneEach
        <3>4. QED
            BY <1>8, <3>2, <3>3
    <2>4. QED
        BY <1>8, <2>1, <2>2, <2>3 DEF OneEach
<1>11. CurrentWorks'
    BY <1>1, <1>3 DEF WaitInv, CurrentWorks, Wait!Waiting
<1>12. QED
    BY <1>7, <1>9, <1>10, <1>11 DEF WaitInv

LEMMA WaitReplayed ==
    ASSUME WaitInv, NEW r \in replays, Wait!Replayed(r)
    PROVE  WaitInv'
<1>1. /\ r.id = 0 /\ replays' = replays \ {r}
      /\ UNCHANGED <<waitEntries, waitLast, deliveries, pressed, wait, dials, answers>>
    BY DEF Wait!Replayed, Wait!ReplayReturns
<1>2. WaitTypes'
    BY <1>1 DEF WaitInv, WaitTypes, Wait!TypeOK, Wait!Entry
<1>3. NoneAhead' /\ OneEach'
    BY <1>1 DEF WaitInv, NoneAhead, OneEach
<1>4. CurrentWorks'
    BY <1>1 DEF WaitInv, CurrentWorks, Wait!Waiting
<1>5. QED
    BY <1>2, <1>3, <1>4 DEF WaitInv

LEMMA WaitItsReplayed ==
    ASSUME WaitInv, NEW r \in replays, Wait!WaitReplayed(r)
    PROVE  WaitInv'
<1>1. /\ r.id # 0 /\ replays' = replays \ {r}
      /\ UNCHANGED <<waitEntries, waitLast, deliveries, pressed, dials, answers>>
      /\ wait' = IF ~ Wait!OfThisWait(r.id) THEN wait
                 ELSE IF r.made = 0 THEN [wait EXCEPT !.result = "failed"]
                 ELSE [wait EXCEPT !.result = "replayed", !.made = r.made,
                                   !.as = Wait!NewestReplayOf(wait.number)]
    BY DEF Wait!WaitReplayed, Wait!ReplayReturns
<1>2. /\ wait \in [id : 0..MaxWaits, number : 0..waitLast, replaying : BOOLEAN,
                   result : {"none", "failed", "replayed"}, as : 0..waitLast, made : 0..waitLast]
      /\ r \in [id : 0..MaxWaits, number : 1..waitLast, made : 0..waitLast]
    BY DEF WaitInv, WaitTypes, Wait!TypeOK
<1>3. Wait!NewestReplayOf(wait.number) \in 0..waitLast
    BY NewestReplayIsListed DEF WaitInv
<1>4. /\ wait' \in [id : 0..MaxWaits, number : 0..waitLast, replaying : BOOLEAN,
                    result : {"none", "failed", "replayed"}, as : 0..waitLast, made : 0..waitLast]
      /\ wait'.id = wait.id
      /\ wait' = wait \/ ~ Wait!Waiting'
    BY <1>1, <1>2, <1>3 DEF Wait!Waiting
<1>5. WaitTypes'
    BY <1>1, <1>4 DEF WaitInv, WaitTypes, Wait!TypeOK, Wait!Entry
<1>6. NoneAhead' /\ OneEach'
    BY <1>1, <1>4 DEF WaitInv, NoneAhead, OneEach
<1>7. CurrentWorks'
    <2> SUFFICES ASSUME Wait!Waiting' PROVE CurrentWorks'
        BY DEF CurrentWorks
    <2>1. wait' = wait /\ Wait!Waiting
        BY <1>4 DEF Wait!Waiting
    <2>2. r.id # wait.id
        BY <1>1, <1>2, <1>4, <2>1 DEF Wait!OfThisWait, Wait!Waiting
    <2>3. QED
        BY <1>1, <2>1, <2>2 DEF WaitInv, CurrentWorks
<1>8. QED
    BY <1>5, <1>6, <1>7 DEF WaitInv

LEMMA WaitDialed ==
    ASSUME WaitInv, NEW id \in 1..MaxWaits, Wait!Dialed(id)
    PROVE  WaitInv'
<1>1. dials[id] > 0 /\ UNCHANGED <<waitEntries, waitLast, deliveries, pressed, answers>>
    BY DEF Wait!Dialed
<1>2. dials \in [1..MaxWaits -> 0..1] /\ MaxWaits \in Nat /\ waitLast \in Nat
    BY DEF WaitInv, WaitTypes, Wait!TypeOK, Wait!BoundsAssumption
<1>3. dials[id] = 1
    BY <1>1, <1>2
<1>4. /\ \A r \in replays : r.id # id
      /\ \A i \in 1..Len(waitEntries) : waitEntries[i].by # id
    BY <1>3 DEF WaitInv, OneEach
<1>5. CASE Wait!DialAgain(id)
    <2>1. UNCHANGED <<waitEntries, waitLast, wait, dials, replays, answers>>
        BY <1>1, <1>5 DEF Wait!DialAgain
    <2>2. WaitTypes'
        BY <2>1 DEF WaitInv, WaitTypes, Wait!TypeOK, Wait!Entry
    <2>3. NoneAhead' /\ OneEach' /\ CurrentWorks'
        BY <2>1 DEF WaitInv, NoneAhead, OneEach, CurrentWorks, Wait!Waiting
    <2>4. QED
        BY <2>2, <2>3 DEF WaitInv
<1>6. CASE Wait!ReplayAtLast(id)
    <2> DEFINE s == Wait!Replay(id, wait.number)
    <2>1. /\ id = wait.id /\ Wait!Waiting
          /\ dials' = [dials EXCEPT ![id] = @ - 1]
          /\ wait' = [wait EXCEPT !.replaying = TRUE]
          /\ replays' = replays \cup {s}
        BY <1>6 DEF Wait!ReplayAtLast, Wait!OfThisWait
    <2>2. s.id = id /\ s.number = wait.number /\ s.made = 0
        BY DEF Wait!Replay
    <2>3. wait \in [id : 0..MaxWaits, number : 0..waitLast, replaying : BOOLEAN,
                    result : {"none", "failed", "replayed"}, as : 0..waitLast, made : 0..waitLast]
        BY DEF WaitInv, WaitTypes, Wait!TypeOK
    <2>4. s \in [id : 0..MaxWaits, number : 1..waitLast, made : 0..waitLast]
        BY <1>2, <2>1, <2>3 DEF Wait!Replay, Wait!Waiting
    <2>5. /\ dials' \in [1..MaxWaits -> 0..1] /\ dials'[id] = 0
          /\ \A k \in 1..MaxWaits : k # id => dials'[k] = dials[k]
        BY <1>2, <1>3, <2>1
    <2>6. /\ wait' \in [id : 0..MaxWaits, number : 0..waitLast, replaying : BOOLEAN,
                        result : {"none", "failed", "replayed"}, as : 0..waitLast, made : 0..waitLast]
          /\ wait'.id = wait.id /\ wait'.number = wait.number /\ wait'.replaying = TRUE
        BY <2>1, <2>3
    <2> HIDE DEF s
    <2>7. WaitTypes'
        BY <1>1, <2>1, <2>4, <2>5, <2>6 DEF WaitInv, WaitTypes, Wait!TypeOK, Wait!Entry
    <2>8. NoneAhead'
        BY <1>1, <1>2, <2>1, <2>2, <2>3, <2>5, <2>6 DEF WaitInv, NoneAhead
    <2>9. \A k \in 0..MaxWaits : k # 0 => (dials[k] = 0 => dials'[k] = 0)
        BY <1>2, <1>3, <2>5
    <2>10. /\ \A r \in replays : r.id \in 0..MaxWaits
           /\ \A i \in 1..Len(waitEntries) : waitEntries[i].by \in 0..MaxWaits
        BY WaitIds DEF WaitInv
    <2>11. OneEach'
        <3>1. \A q \in replays' : q.id # 0 => dials'[q.id] = 0
            BY <2>1, <2>2, <2>5, <2>9, <2>10 DEF WaitInv, OneEach
        <3>2. \A p, q \in replays' : p.id # 0 /\ p.id = q.id => p = q
            BY <1>4, <2>1, <2>2 DEF WaitInv, OneEach
        <3>3. \A i \in 1..Len(waitEntries)' : waitEntries'[i].by # 0 => dials'[waitEntries'[i].by] = 0
            BY <1>1, <2>9, <2>10 DEF WaitInv, OneEach
        <3>4. \A q \in replays', i \in 1..Len(waitEntries)' :
                 q.id # 0 /\ q.made = 0 => waitEntries'[i].by # q.id
            BY <1>1, <1>4, <2>1, <2>2 DEF WaitInv, OneEach
        <3>5. \A i, j \in 1..Len(waitEntries)' :
                 i # j /\ waitEntries'[i].by # 0 => waitEntries'[i].by # waitEntries'[j].by
            BY <1>1 DEF WaitInv, OneEach
        <3>6. QED
            BY <3>1, <3>2, <3>3, <3>4, <3>5 DEF OneEach
    <2>12. CurrentWorks'
        <3>1. s \in replays' /\ s.id = wait'.id /\ s.number = wait'.number
            BY <2>1, <2>2, <2>6
        <3>2. wait'.id # 0 /\ wait'.replaying /\ dials'[wait'.id] = 0
            BY <2>1, <2>5, <2>6
        <3>3. QED
            BY <3>1, <3>2 DEF CurrentWorks
    <2>13. QED
        BY <2>7, <2>8, <2>11, <2>12 DEF WaitInv
<1>7. CASE Wait!DropDial(id)
    <2>1. /\ ~ Wait!OfThisWait(id) /\ dials' = [dials EXCEPT ![id] = @ - 1]
          /\ UNCHANGED <<wait, replays>>
        BY <1>7 DEF Wait!DropDial
    <2>2. /\ dials' \in [1..MaxWaits -> 0..1] /\ dials'[id] = 0
          /\ \A k \in 1..MaxWaits : k # id => dials'[k] = dials[k]
        BY <1>2, <1>3, <2>1
    <2>3. \A k \in 0..MaxWaits : k # 0 => (dials[k] = 0 => dials'[k] = 0)
        BY <1>2, <1>3, <2>2
    <2>4. /\ \A r \in replays : r.id \in 0..MaxWaits
          /\ \A i \in 1..Len(waitEntries) : waitEntries[i].by \in 0..MaxWaits
          /\ wait.id \in 0..MaxWaits
        BY WaitIds DEF WaitInv
    <2>5. WaitTypes'
        BY <1>1, <2>1, <2>2 DEF WaitInv, WaitTypes, Wait!TypeOK, Wait!Entry
    <2>6. NoneAhead'
        BY <1>1, <1>2, <2>1, <2>2 DEF WaitInv, NoneAhead
    <2>7. OneEach'
        BY <1>1, <2>1, <2>3, <2>4 DEF WaitInv, OneEach
    <2>8. CurrentWorks'
        <3> SUFFICES ASSUME Wait!Waiting' PROVE CurrentWorks'
            BY DEF CurrentWorks
        <3>1. Wait!Waiting
            BY <2>1 DEF Wait!Waiting
        <3>2. id # wait.id
            BY <2>1, <3>1 DEF Wait!OfThisWait
        <3>3. wait.id # 0 /\ dials'[wait.id] = dials[wait.id]
            BY <2>2, <2>4, <3>1, <3>2 DEF WaitInv, CurrentWorks
        <3>4. QED
            BY <2>1, <3>1, <3>3 DEF WaitInv, CurrentWorks
    <2>9. QED
        BY <2>5, <2>6, <2>7, <2>8 DEF WaitInv
<1>8. QED
    BY <1>5, <1>6, <1>7 DEF Wait!Dialed

LEMMA WaitPressR == WaitInv /\ Wait!PressR => WaitInv'
<1> SUFFICES ASSUME WaitInv, Wait!PressR PROVE WaitInv'
    OBVIOUS
<1>1. PICK e \in Range(waitEntries) : replays' = replays \cup {Wait!Replay(0, e.number)}
    BY DEF Wait!PressR, Wait!Range, Range
<1>2. UNCHANGED <<waitEntries, waitLast, deliveries, wait, dials, answers>>
    BY DEF Wait!PressR
<1> DEFINE s == Wait!Replay(0, e.number)
<1>3. e.number \in 1..waitLast
    BY WaitNumbers DEF WaitInv
<1>4. MaxWaits \in Nat /\ waitLast \in Nat /\ wait.id \in 0..MaxWaits
    BY DEF WaitInv, WaitTypes, Wait!TypeOK, Wait!BoundsAssumption
<1>5. s \in [id : 0..MaxWaits, number : 1..waitLast, made : 0..waitLast] /\ s.id = 0
    BY <1>3, <1>4 DEF Wait!Replay
<1>6. replays' = replays \cup {s}
    BY <1>1
<1> HIDE DEF s
<1>7. WaitTypes'
    BY <1>2, <1>5, <1>6 DEF WaitInv, WaitTypes, Wait!TypeOK, Wait!Entry
<1>8. NoneAhead' /\ OneEach'
    BY <1>2, <1>4, <1>5, <1>6 DEF WaitInv, NoneAhead, OneEach
<1>9. CurrentWorks'
    BY <1>2, <1>6 DEF WaitInv, CurrentWorks, Wait!Waiting
<1>10. QED
    BY <1>7, <1>8, <1>9 DEF WaitInv

LEMMA WaitPressW == WaitInv /\ Wait!PressW => WaitInv'
<1> SUFFICES ASSUME WaitInv, Wait!PressW PROVE WaitInv'
    OBVIOUS
<1> DEFINE id == wait.id + 1
<1>1. PICK e \in Range(waitEntries) : wait' = [Wait!NoWait(id) EXCEPT !.number = e.number]
    BY DEF Wait!PressW, Wait!Range, Range, Wait!NextWait
<1>2. /\ wait.id < MaxWaits /\ dials' = [dials EXCEPT ![wait'.id] = @ + 1]
      /\ UNCHANGED <<waitEntries, waitLast, deliveries, pressed, replays, answers>>
    BY DEF Wait!PressW
<1>3. e.number \in 1..waitLast
    BY WaitNumbers DEF WaitInv
<1>4. /\ MaxWaits \in Nat /\ waitLast \in Nat /\ wait.id \in 0..MaxWaits
      /\ dials \in [1..MaxWaits -> 0..1]
    BY DEF WaitInv, WaitTypes, Wait!TypeOK, Wait!BoundsAssumption
<1>5. id \in 1..MaxWaits /\ id > wait.id
    BY <1>2, <1>4
<1> HIDE DEF id
<1>6. /\ wait' \in [id : 0..MaxWaits, number : 0..waitLast, replaying : BOOLEAN,
                    result : {"none", "failed", "replayed"}, as : 0..waitLast, made : 0..waitLast]
      /\ wait'.id = id /\ wait'.replaying = FALSE
    <2>1. wait' = [id |-> id, number |-> e.number, replaying |-> FALSE, result |-> "none",
                   as |-> 0, made |-> 0]
        BY <1>1 DEF Wait!NoWait
    <2>2. id \in 0..MaxWaits /\ e.number \in 0..waitLast /\ 0 \in 0..waitLast
        BY <1>3, <1>4, <1>5
    <2>3. QED
        BY <2>1, <2>2
<1>7. /\ dials[id] = 0
      /\ \A r \in replays : r.id # id
      /\ \A i \in 1..Len(waitEntries) : waitEntries[i].by # id
    BY <1>4, <1>5 DEF WaitInv, NoneAhead
<1>8. /\ dials' \in [1..MaxWaits -> 0..1] /\ dials'[id] = 1
      /\ \A k \in 1..MaxWaits : k # id => dials'[k] = dials[k]
    BY <1>2, <1>4, <1>5, <1>6, <1>7
<1>9. /\ \A r \in replays : r.id \in 0..MaxWaits
      /\ \A i \in 1..Len(waitEntries) : waitEntries[i].by \in 0..MaxWaits
    BY WaitIds DEF WaitInv
<1>10. WaitTypes'
    BY <1>2, <1>6, <1>8 DEF WaitInv, WaitTypes, Wait!TypeOK, Wait!Entry
<1>11. NoneAhead'
    BY <1>2, <1>4, <1>5, <1>6, <1>8, <1>9 DEF WaitInv, NoneAhead
<1>12. OneEach'
    BY <1>2, <1>7, <1>8, <1>9 DEF WaitInv, OneEach
<1>13. CurrentWorks'
    BY <1>5, <1>6, <1>8 DEF CurrentWorks
<1>14. QED
    BY <1>10, <1>11, <1>12, <1>13 DEF WaitInv

LEMMA WaitEscape == WaitInv /\ Wait!Escape => WaitInv'
<1> SUFFICES ASSUME WaitInv, Wait!Escape PROVE WaitInv'
    OBVIOUS
<1>1. /\ wait' = Wait!NoWait(wait.id)
      /\ UNCHANGED <<waitEntries, waitLast, deliveries, pressed, dials, replays, answers>>
    BY DEF Wait!Escape
<1>2. waitLast \in Nat /\ wait.id \in 0..MaxWaits
    BY DEF WaitInv, WaitTypes, Wait!TypeOK
<1>3. /\ wait' \in [id : 0..MaxWaits, number : 0..waitLast, replaying : BOOLEAN,
                    result : {"none", "failed", "replayed"}, as : 0..waitLast, made : 0..waitLast]
      /\ wait'.id = wait.id /\ wait'.number = 0
    BY <1>1, <1>2 DEF Wait!NoWait
<1>4. WaitTypes'
    BY <1>1, <1>3 DEF WaitInv, WaitTypes, Wait!TypeOK, Wait!Entry
<1>5. NoneAhead' /\ OneEach'
    BY <1>1, <1>3 DEF WaitInv, NoneAhead, OneEach
<1>6. CurrentWorks'
    BY <1>3 DEF CurrentWorks, Wait!Waiting
<1>7. QED
    BY <1>4, <1>5, <1>6 DEF WaitInv

LEMMA WaitTarget == WaitInv /\ (Wait!Target \/ UNCHANGED Wait!vars) => WaitInv'
<1> SUFFICES ASSUME WaitInv, Wait!Target \/ UNCHANGED Wait!vars PROVE WaitInv'
    OBVIOUS
<1>1. UNCHANGED <<waitEntries, waitLast, wait, dials, replays>>
    BY DEF Wait!Target, Wait!vars
<1>2. answers' \in BOOLEAN
    BY Zenon DEF Wait!Target, Wait!vars, WaitInv, WaitTypes, Wait!TypeOK
<1>3. WaitTypes'
    BY <1>1, <1>2 DEF WaitInv, WaitTypes, Wait!TypeOK, Wait!Entry
<1>4. NoneAhead' /\ OneEach' /\ CurrentWorks'
    BY <1>1 DEF WaitInv, NoneAhead, OneEach, CurrentWorks, Wait!Waiting
<1>5. QED
    BY <1>3, <1>4 DEF WaitInv

LEMMA WaitNext == WaitInv /\ [Wait!Next]_Wait!vars => WaitInv'
<1> SUFFICES ASSUME WaitInv, [Wait!Next]_Wait!vars PROVE WaitInv'
    OBVIOUS
<1>1. CASE Wait!RecordDelivery
    BY <1>1, WaitDelivery
<1>2. CASE \E r \in replays : Wait!RecordReplay(r) \/ Wait!Replayed(r) \/ Wait!WaitReplayed(r)
    BY <1>2, WaitReplayRecorded, WaitReplayed, WaitItsReplayed
<1>3. CASE \E id \in 1..MaxWaits : Wait!Dialed(id)
    BY <1>3, WaitDialed
<1>4. CASE Wait!PressR \/ Wait!PressW \/ Wait!Escape
    BY <1>4, WaitPressR, WaitPressW, WaitEscape
<1>5. CASE Wait!Target \/ UNCHANGED Wait!vars
    BY <1>5, WaitTarget
<1>6. QED
    BY <1>1, <1>2, <1>3, <1>4, <1>5 DEF Wait!Next

LEMMA WaitInvNeverForks == WaitInv => Wait!WaitNeverForks
<1> SUFFICES ASSUME WaitInv PROVE Wait!WaitNeverForks
    OBVIOUS
<1>1. /\ wait.id \in 0..MaxWaits
      /\ replays \subseteq [id : 0..MaxWaits, number : 1..waitLast, made : 0..waitLast]
      /\ dials \in [1..MaxWaits -> 0..1]
    BY DEF WaitInv, WaitTypes, Wait!TypeOK
<1>2. ASSUME Wait!Waiting, wait.replaying
      PROVE  /\ dials[wait.id] = 0
             /\ \E made \in 0..waitLast :
                   Wait!Of(wait.id) = {[Wait!Replay(wait.id, wait.number) EXCEPT !.made = made]}
    <2>1. PICK r \in replays : r.id = wait.id /\ r.number = wait.number
        BY <1>2 DEF WaitInv, CurrentWorks
    <2>2. wait.id # 0 /\ dials[wait.id] = 0
        BY <1>2 DEF WaitInv, CurrentWorks
    <2>3. \A q \in replays : q.id = wait.id => q = r
        BY <2>1, <2>2 DEF WaitInv, OneEach
    <2>4. Wait!Of(wait.id) = {r}
        BY <2>1, <2>3 DEF Wait!Of
    <2>5. r = [Wait!Replay(wait.id, wait.number) EXCEPT !.made = r.made] /\ r.made \in 0..waitLast
        BY <1>1, <2>1 DEF Wait!Replay
    <2>6. QED
        BY <2>2, <2>4, <2>5
<1>3. ASSUME Wait!Waiting, ~ wait.replaying
      PROVE  dials[wait.id] = 1 /\ Wait!Of(wait.id) = {}
    <2>1. wait.id # 0 /\ dials[wait.id] = 1
        BY <1>3 DEF WaitInv, CurrentWorks
    <2>2. QED
        BY <2>1 DEF WaitInv, OneEach, Wait!Of
<1>4. \A i, j \in 1..Len(waitEntries) :
         i # j /\ waitEntries[i].by # 0 => waitEntries[i].by # waitEntries[j].by
    BY DEF WaitInv, OneEach
<1>5. QED
    BY <1>2, <1>3, <1>4 DEF Wait!WaitNeverForks

\* wait.go: however many waits are started, given up and replaced while their dials
\* and replays are under way, the current one has exactly one of them, on its own
\* request, and no wait replays twice.
THEOREM WaitsCorrect ==
    ASSUME Wait!BoundsAssumption
    PROVE  Wait!Spec => [](Wait!TypeOK /\ Wait!WaitNeverForks)
<1>1. Wait!Init => WaitInv
    BY WaitInit
<1>2. WaitInv /\ [Wait!Next]_Wait!vars => WaitInv'
    BY WaitNext
<1>3. WaitInv => Wait!TypeOK /\ Wait!WaitNeverForks
    BY WaitInvNeverForks DEF WaitInv, WaitTypes
<1>4. QED
    BY <1>1, <1>2, <1>3, PTL DEF Wait!Spec

----------------------------------------------------------------------------
(* The screen's pages, prompts, alerts and toasts.                            *)

\* Sums over a sequence.
LEMMA TotalStepwise ==
    ASSUME NEW s \in Seq(Nat)
    PROVE  \E f \in [0..Len(s) -> Nat] :
              /\ f[0] = 0 /\ \A i \in 1..Len(s) : f[i] = f[i - 1] + s[i]
              /\ Screen!Total(s) = f[Len(s)]
              /\ \A h : h = [i \in 0..Len(s) |-> IF i = 0 THEN 0 ELSE h[i - 1] + s[i]] => h = f
<1> DEFINE n == Len(s)
           step == [x \in (1..n) \X Nat |-> x[2] + s[x[1]]]
           Sum(h) == h = [i \in 0..n |-> IF i = 0 THEN 0 ELSE h[i - 1] + s[i]]
           sum == CHOOSE h : Sum(h)
<1>1. n \in Nat /\ \A i \in 1..n : s[i] \in Nat
    OBVIOUS
<1>2. step \in [(1..n) \X Nat -> Nat]
    BY <1>1
<1>3. PICK f \in [0..n -> Nat] : f[0] = 0 /\ \A i \in 1..n : f[i] = f[i - 1] + s[i]
    <2>1. PICK f \in [0..n -> Nat] : GoesBy(f, n, 0, step)
        <3>1. 0 \in Nat
            OBVIOUS
        <3> HIDE DEF n, step
        <3>2. QED
            BY <1>1, <1>2, <3>1, PrefixRecursion
    <2>2. ASSUME NEW i \in 1..n PROVE f[i] = f[i - 1] + s[i]
        <3>1. i - 1 \in 0..n
            BY <1>1
        <3>2. f[i] = step[<<i, f[i - 1]>>]
            BY <2>1 DEF GoesBy
        <3>3. f[i - 1] \in Nat
            BY <3>1, <2>1
        <3>4. QED
            BY <3>2, <3>3
    <2>3. QED
        BY <2>1, <2>2 DEF GoesBy
<1>4. Sum(f)
    <2>1. \A i \in 0..n : i # 0 => i \in 1..n
        BY <1>1
    <2>2. \A i \in 0..n : f[i] = IF i = 0 THEN 0 ELSE f[i - 1] + s[i]
        <3> HIDE DEF n
        <3>1. QED
            BY <1>3, <2>1
    <2> HIDE DEF n
    <2>3. QED
        BY <1>3, <2>2
<1>5. ASSUME NEW h, Sum(h) PROVE h = f
    <2>1. /\ h = [i \in 0..n |-> h[i]] /\ h[0] = 0
          /\ \A i \in 1..n : h[i] = h[i - 1] + s[i]
        <3>1. \A i \in 1..n : i \in 0..n /\ i # 0
            BY <1>1
        <3>2. 0 \in 0..n
            BY <1>1
        <3> HIDE DEF n
        <3>3. QED
            BY <1>5, <3>1, <3>2
    <2> DEFINE S == {m \in Nat : m <= n => h[m] = f[m]}
    <2>2. 0 \in S
        BY <1>3, <2>1
    <2>3. ASSUME NEW m \in S PROVE m + 1 \in S
        <3> SUFFICES ASSUME m + 1 <= n PROVE h[m + 1] = f[m + 1]
            OBVIOUS
        <3>1. m + 1 \in 1..n /\ (m + 1) - 1 = m /\ m <= n
            BY <1>1
        <3>2. h[m] = f[m]
            BY <3>1
        <3>3. f[m + 1] = f[(m + 1) - 1] + s[m + 1]
            <4> HIDE DEF S, n
            <4>1. QED
                BY <1>3, <3>1
        <3>4. h[m + 1] = h[(m + 1) - 1] + s[m + 1]
            <4> HIDE DEF S, n
            <4>1. QED
                BY <2>1, <3>1
        <3> HIDE DEF S, n
        <3>5. QED
            BY <3>1, <3>2, <3>3, <3>4
    <2>4. S = Nat
        <3>1. S \in SUBSET Nat
            OBVIOUS
        <3> HIDE DEF S
        <3>2. QED
            BY <2>2, <2>3, <3>1, SetInduction
    <2>5. \A i \in 0..n : h[i] = f[i]
        <3>1. \A i \in 0..n : i \in S
            <4> HIDE DEF S
            <4>1. QED
                BY <2>4, <1>1
        <3>2. QED
            BY <3>1, <1>1
    <2> HIDE DEF n, S, Sum
    <2>6. QED
        BY <1>3, <2>1, <2>5
<1>6. sum = f
    <2>1. Sum(sum)
        <3> HIDE DEF Sum
        <3>1. QED
            BY <1>4
    <2> HIDE DEF Sum, sum
    <2>2. QED
        BY <1>5, <2>1
<1>7. Screen!Total(s) = sum[n]
    BY DEF Screen!Total
<1>8. Screen!Total(s) = f[n]
    <2> HIDE DEF sum
    <2>1. QED
        BY <1>6, <1>7
<1>9. QED
    <2> HIDE DEF sum
    <2>1. QED
        BY <1>3, <1>5, <1>8

\* One outage more adds its seconds.
LEMMA TotalAppend ==
    ASSUME NEW s \in Seq(Nat), NEW x \in Nat
    PROVE  /\ Screen!Total(s) \in Nat
           /\ Screen!Total(Append(s, x)) = Screen!Total(s) + x
<1> DEFINE t == Append(s, x)
           n == Len(s)
<1>1. /\ n \in Nat /\ t \in Seq(Nat) /\ Len(t) = n + 1 /\ t[n + 1] = x
      /\ \A i \in 1..n : t[i] = s[i]
    OBVIOUS
<1>2. PICK f \in [0..n -> Nat] :
          f[0] = 0 /\ (\A i \in 1..n : f[i] = f[i - 1] + s[i]) /\ Screen!Total(s) = f[n]
    BY TotalStepwise
<1> HIDE DEF t, n
<1>3. PICK g \in [0..n + 1 -> Nat] :
          /\ g[0] = 0 /\ \A i \in 1..n + 1 : g[i] = g[i - 1] + t[i]
          /\ Screen!Total(t) = g[n + 1]
    BY <1>1, TotalStepwise
<1> DEFINE S == {m \in Nat : m <= n => g[m] = f[m]}
<1>4. 0 \in S
    BY <1>2, <1>3
<1>5. ASSUME NEW m \in S PROVE m + 1 \in S
    <2> SUFFICES ASSUME m + 1 <= n PROVE g[m + 1] = f[m + 1]
        OBVIOUS
    <2>1. m + 1 \in 1..n /\ m + 1 \in 1..n + 1 /\ (m + 1) - 1 = m /\ g[m] = f[m]
        BY <1>1
    <2> HIDE DEF S
    <2>2. g[m + 1] = g[(m + 1) - 1] + t[m + 1]
        BY <1>3, <2>1
    <2>3. f[m + 1] = f[(m + 1) - 1] + s[m + 1]
        BY <1>2, <2>1
    <2>4. t[m + 1] = s[m + 1]
        BY <1>1, <2>1
    <2>5. QED
        BY <2>1, <2>2, <2>3, <2>4
<1>6. S = Nat
    <2>1. S \in SUBSET Nat
        OBVIOUS
    <2> HIDE DEF S
    <2>2. QED
        BY <1>4, <1>5, <2>1, SetInduction
<1>7. g[n] = f[n]
    <2>1. n \in S
        <3> HIDE DEF S
        <3>1. QED
            BY <1>1, <1>6
    <2>2. QED
        BY <1>1, <2>1
<1>8. g[n + 1] = g[n] + x
    <2>1. n + 1 \in 1..n + 1 /\ (n + 1) - 1 = n
        BY <1>1
    <2> HIDE DEF S
    <2>2. g[n + 1] = g[(n + 1) - 1] + t[n + 1]
        BY <1>3, <2>1
    <2>3. QED
        BY <1>1, <2>1, <2>2
<1>9. f[n] \in Nat
    BY <1>1, <1>2
<1> HIDE DEF S
<1>10. QED
    BY <1>2, <1>3, <1>7, <1>8, <1>9 DEF t

\* A toast on screen ends with its own timer, whose time it has been there.
TimersAgree ==
    /\ age \in 0..ToastFor
    /\ toast # 0 => \A t \in timers : t.id = toastID => t.left + age = ToastFor

ToastTypes ==
    /\ toast \in {0, toastID} /\ toastID \in 0..MaxToasts
    /\ timers \subseteq [id : 1..toastID, left : 0..ToastFor]

ViewTypes ==
    /\ sources \in [open : BOOLEAN, selected : 0..Screen!Max({0, RouteCount - 1}), copying : BOOLEAN]
    /\ filter \in {"none", "editing", "applied"}
    /\ waiting \in BOOLEAN /\ notFound \in BOOLEAN /\ help \in BOOLEAN /\ quitting \in BOOLEAN
    /\ reconnected \in Nat
    /\ commands \in 0..started /\ started \in 0..MaxCommands

OutagesSum ==
    /\ outages \in Seq(Nat) /\ dismissed \in Seq(Nat) /\ Len(outages) <= Len(Outages)
    /\ Screen!AlertSumsOutages

ScreenInv == ViewTypes /\ Screen!OnePrompt /\ ToastTypes /\ TimersAgree /\ OutagesSum

\* Toasts: a step shows one, leaves them, ticks, or ends one.
LEMMA ShowKeepsToasts ==
    ASSUME Screen!ScreenAssumption, ToastTypes, TimersAgree, Screen!Show \/ UNCHANGED Screen!toasts
    PROVE  /\ ToastTypes' /\ TimersAgree'
           /\ toast # 0 => toast' # 0
<1>1. CASE UNCHANGED Screen!toasts
    BY <1>1 DEF Screen!toasts, ToastTypes, TimersAgree
<1>2. CASE Screen!Show
    <2>1. /\ toastID < MaxToasts /\ toastID' = toastID + 1 /\ toast' = toastID + 1 /\ age' = 0
          /\ timers' = timers \cup {[id |-> toastID + 1, left |-> ToastFor]}
        BY <1>2 DEF Screen!Show, Screen!StartTimer
    <2>2. toastID \in Nat /\ ToastFor \in Nat /\ MaxToasts \in Nat
        BY DEF ToastTypes, Screen!ScreenAssumption
    <2>3. ASSUME NEW t \in timers'
          PROVE  /\ t \in [id : 1..toastID', left : 0..ToastFor]
                 /\ t.id = toastID' => t.left = ToastFor
        <3>1. CASE t = [id |-> toastID + 1, left |-> ToastFor]
            BY <2>1, <2>2, <3>1
        <3>2. CASE t \in timers
            <4>1. t \in [id : 1..toastID, left : 0..ToastFor]
                BY <3>2 DEF ToastTypes
            <4>2. QED
                BY <2>1, <2>2, <4>1
        <3>3. QED
            BY <2>1, <3>1, <3>2
    <2>4. ToastTypes'
        BY <2>1, <2>2, <2>3 DEF ToastTypes
    <2>5. TimersAgree'
        BY <2>1, <2>2, <2>3 DEF TimersAgree
    <2>6. QED
        BY <2>1, <2>2, <2>4, <2>5
<1>3. QED
    BY <1>1, <1>2

LEMMA TickKeepsToasts ==
    ASSUME Screen!ScreenAssumption, ToastTypes, TimersAgree, Screen!Tick
    PROVE  ToastTypes' /\ TimersAgree' /\ toast' = toast
<1>1. /\ timers' = {[t EXCEPT !.left = IF @ > 0 THEN @ - 1 ELSE 0] : t \in timers}
      /\ age' = (IF age < ToastFor THEN age + 1 ELSE age)
      /\ toast' = toast /\ toastID' = toastID
    BY DEF Screen!Tick
<1>2. toastID \in Nat /\ ToastFor \in Nat /\ age \in 0..ToastFor
    BY DEF ToastTypes, TimersAgree, Screen!ScreenAssumption
<1>3. ASSUME NEW u \in timers'
      PROVE  /\ u \in [id : 1..toastID, left : 0..ToastFor]
             /\ toast # 0 /\ u.id = toastID => u.left + age' = ToastFor
    <2>1. PICK t \in timers : u = [t EXCEPT !.left = IF @ > 0 THEN @ - 1 ELSE 0]
        BY <1>1
    <2>2. t \in [id : 1..toastID, left : 0..ToastFor]
        BY DEF ToastTypes
    <2>3. t.left \in 0..ToastFor /\ t.id \in 1..toastID
        BY <2>2
    <2>4. u = [id |-> t.id, left |-> IF t.left > 0 THEN t.left - 1 ELSE 0]
        BY <2>1, <2>2
    <2>5. u.id = t.id /\ u.left = IF t.left > 0 THEN t.left - 1 ELSE 0
        BY <2>4
    <2>6. u \in [id : 1..toastID, left : 0..ToastFor]
        BY <1>2, <2>3, <2>4
    <2>7. toast # 0 /\ t.id = toastID => t.left + age = ToastFor
        BY DEF TimersAgree
    <2>8. QED
        BY <1>1, <1>2, <2>3, <2>5, <2>6, <2>7
<1>4. age' \in 0..ToastFor
    BY <1>1, <1>2
<1>5. ToastTypes'
    BY <1>1, <1>3 DEF ToastTypes
<1>6. TimersAgree'
    BY <1>1, <1>3, <1>4 DEF TimersAgree
<1>7. QED
    BY <1>1, <1>5, <1>6

LEMMA ExpiryKeepsToasts ==
    ASSUME Screen!ScreenAssumption, ToastTypes, TimersAgree, NEW t \in timers, Screen!ToastExpires(t)
    PROVE  /\ ToastTypes' /\ TimersAgree'
           /\ toast # 0 /\ toast' = 0 => age = ToastFor
<1>1. /\ t.left = 0 /\ timers' = timers \ {t}
      /\ toast' = (IF t.id = toastID THEN 0 ELSE toast) /\ toastID' = toastID /\ age' = age
    BY DEF Screen!ToastExpires, Screen!ItsTimer
<1>2. age \in 0..ToastFor /\ ToastFor \in Nat
    BY DEF TimersAgree, Screen!ScreenAssumption
<1>3. ToastTypes'
    BY <1>1 DEF ToastTypes
<1>4. TimersAgree'
    BY <1>1 DEF TimersAgree
<1>5. ASSUME toast # 0, toast' = 0 PROVE age = ToastFor
    <2>1. t.id = toastID
        BY <1>1, <1>5
    <2>2. t.left + age = ToastFor
        BY <1>5, <2>1 DEF TimersAgree
    <2>3. QED
        BY <1>1, <1>2, <2>2
<1>6. QED
    BY <1>3, <1>4, <1>5

LEMMA MaxOfTwo ==
    ASSUME NEW n \in Int
    PROVE  Screen!Max({0, n}) = IF n > 0 THEN n ELSE 0
<1>1. \E x \in {0, n} : \A y \in {0, n} : x >= y
    OBVIOUS
<1>2. Screen!Max({0, n}) \in {0, n} /\ \A y \in {0, n} : Screen!Max({0, n}) >= y
    BY <1>1 DEF Screen!Max
<1>3. QED
    BY <1>2

LEMMA ClampIsARoute ==
    ASSUME Screen!ScreenAssumption, NEW n \in Int
    PROVE  Screen!Clamp(n) \in 0..Screen!Max({0, RouteCount - 1})
<1>1. RouteCount \in Nat
    BY DEF Screen!ScreenAssumption
<1>2. Screen!Max({0, RouteCount - 1}) = IF RouteCount - 1 > 0 THEN RouteCount - 1 ELSE 0
    BY <1>1, MaxOfTwo
<1>3. Screen!Max({0, n}) = IF n > 0 THEN n ELSE 0
    BY MaxOfTwo
<1>4. QED
    BY <1>1, <1>2, <1>3 DEF Screen!Clamp

\* What a key may do.
Presses(key) ==
    /\ ViewTypes' /\ Screen!OnePrompt'
    /\ Screen!Show \/ UNCHANGED Screen!toasts
    /\ outages' = outages
    /\ \/ dismissed' = dismissed /\ reconnected' = reconnected
       \/ dismissed' = outages /\ reconnected' = 0
    /\ key = "esc" => IF Screen!Layers = 0 THEN Screen!Layers' = 0
                      ELSE Screen!Layers' = Screen!Layers - 1

\* The parts of the view a key that Opens, Filters or presses esc leaves alone.
LEMMA OpensPage ==
    ASSUME ViewTypes, Screen!OnePrompt, NEW page, Screen!Opens(page), filter # "editing",
           page \in [open : BOOLEAN, selected : 0..Screen!Max({0, RouteCount - 1}), copying : BOOLEAN],
           page.copying => page.open /\ RouteCount > 0
    PROVE  Presses("other")
<1>1. /\ sources' = page /\ UNCHANGED <<filter, waiting, reconnected, notFound, help>>
      /\ UNCHANGED Screen!toasts /\ UNCHANGED <<commands, started, quitting, outages, dismissed>>
    BY DEF Screen!Opens, Screen!Quiet, Screen!running
<1>2. ViewTypes'
    BY <1>1 DEF ViewTypes
<1>3. Screen!OnePrompt'
    BY <1>1 DEF Screen!OnePrompt
<1>4. QED
    BY <1>1, <1>2, <1>3 DEF Presses

LEMMA FiltersList ==
    ASSUME ViewTypes, Screen!OnePrompt, ~ sources.open, NEW f \in {"none", "editing", "applied"},
           Screen!Filters(f)
    PROVE  Presses("other")
<1>1. /\ filter' = f /\ UNCHANGED <<sources, waiting, reconnected, notFound, help>>
      /\ UNCHANGED Screen!toasts /\ UNCHANGED <<commands, started, quitting, outages, dismissed>>
    BY DEF Screen!Filters, Screen!Quiet, Screen!running
<1>2. ViewTypes'
    BY <1>1 DEF ViewTypes
<1>3. Screen!OnePrompt'
    BY <1>1 DEF Screen!OnePrompt
<1>4. QED
    BY <1>1, <1>2, <1>3 DEF Presses

LEMMA OtherPresses ==
    ASSUME ViewTypes, Screen!OnePrompt, Screen!ScreenAssumption,
           Screen!ToggleHelp \/ Screen!Quit \/ Screen!Say \/ Screen!Run
    PROVE  Presses("other")
<1>1. CASE Screen!ToggleHelp
    <2>1. /\ help' = ~ help /\ UNCHANGED <<sources, filter, waiting, reconnected, notFound>>
          /\ UNCHANGED Screen!toasts /\ UNCHANGED <<commands, started, quitting, outages, dismissed>>
        BY <1>1 DEF Screen!ToggleHelp, Screen!Quiet, Screen!running
    <2>2. ViewTypes'
        BY <2>1 DEF ViewTypes
    <2>3. QED
        BY <2>1, <2>2 DEF Presses, Screen!OnePrompt
<1>2. CASE Screen!Quit
    <2>1. /\ quitting' = TRUE /\ UNCHANGED <<sources, filter, waiting, reconnected, notFound, help>>
          /\ UNCHANGED Screen!toasts /\ UNCHANGED <<commands, started, outages, dismissed>>
        BY <1>2 DEF Screen!Quit, Screen!view, Screen!running
    <2>2. ViewTypes'
        BY <2>1 DEF ViewTypes
    <2>3. QED
        BY <2>1, <2>2 DEF Presses, Screen!OnePrompt
<1>3. CASE Screen!Say
    <2>1. /\ UNCHANGED <<sources, filter, waiting, reconnected, notFound, help>> /\ Screen!Show
          /\ UNCHANGED <<commands, started, quitting, outages, dismissed>>
        BY <1>3 DEF Screen!Say, Screen!view, Screen!running
    <2>2. ViewTypes'
        BY <2>1 DEF ViewTypes
    <2>3. QED
        BY <2>1, <2>2 DEF Presses, Screen!OnePrompt
<1>4. CASE Screen!Run
    <2>1. /\ UNCHANGED <<sources, filter, waiting, reconnected, notFound, help>>
          /\ UNCHANGED Screen!toasts /\ UNCHANGED <<quitting, outages, dismissed>>
          /\ started < MaxCommands /\ started' = started + 1 /\ commands' = commands + 1
        BY <1>4 DEF Screen!Run, Screen!view
    <2>2. ViewTypes'
        <3>1. MaxCommands \in Nat
            BY DEF Screen!ScreenAssumption
        <3>2. commands' \in 0..started' /\ started' \in 0..MaxCommands
            BY <2>1, <3>1 DEF ViewTypes
        <3>3. QED
            BY <2>1, <3>2 DEF ViewTypes
    <2>3. QED
        BY <2>1, <2>2 DEF Presses, Screen!OnePrompt
<1>5. QED
    BY <1>1, <1>2, <1>3, <1>4

LEMMA OtherKeys ==
    ASSUME ViewTypes, Screen!OnePrompt, Screen!ScreenAssumption, NEW key, key # "esc", Screen!Key(key)
    PROVE  Presses(key)
<1> DEFINE PageType == [open : BOOLEAN, selected : 0..Screen!Max({0, RouteCount - 1}), copying : BOOLEAN]
<1> SUFFICES Presses("other")
    BY DEF Presses
<1>1. /\ sources \in PageType /\ sources.open \in BOOLEAN /\ sources.copying \in BOOLEAN
      /\ sources.selected \in 0..Screen!Max({0, RouteCount - 1})
      /\ RouteCount \in Nat
    BY DEF ViewTypes, Screen!ScreenAssumption
<1>2. CASE filter = "editing"
    <2>1. ~ sources.open
        BY <1>2 DEF Screen!OnePrompt
    <2>2. Screen!EditFilter(key)
        BY <1>2 DEF Screen!Key
    <2>3. \E f \in {"none", "editing", "applied"} : Screen!Filters(f)
        BY <2>2 DEF Screen!EditFilter
    <2>4. QED
        BY <2>1, <2>3, FiltersList
<1>3. CASE filter # "editing" /\ ~ sources.open
    <2>1. Screen!RequestsKey(key)
        BY <1>3 DEF Screen!Key
    <2>2. \/ Screen!Run \/ Screen!Say \/ Screen!ToggleHelp \/ Screen!Quit
          \/ Screen!Filters("editing") \/ Screen!StartWait
          \/ Screen!Opens([sources EXCEPT !.open = TRUE])
        BY <2>1 DEF Screen!RequestsKey
    <2>3. CASE Screen!Run \/ Screen!Say \/ Screen!ToggleHelp \/ Screen!Quit
        BY <2>3, OtherPresses
    <2>4. CASE Screen!Filters("editing")
        BY <1>3, <2>4, FiltersList
    <2>5. CASE Screen!StartWait
        <3>1. CASE Screen!Say
            BY <3>1, OtherPresses
        <3>2. CASE ~ Screen!Say
            <4>1. /\ waiting' \in {waiting, TRUE}
                  /\ UNCHANGED <<sources, filter, reconnected, notFound, help>>
                  /\ UNCHANGED Screen!toasts
                  /\ UNCHANGED <<commands, started, quitting, outages, dismissed>>
                BY <2>5, <3>2 DEF Screen!StartWait, Screen!Quiet, Screen!running
            <4>2. ViewTypes'
                BY <4>1 DEF ViewTypes
            <4>3. QED
                BY <4>1, <4>2 DEF Presses, Screen!OnePrompt
        <3>3. QED
            BY <3>1, <3>2
    <2>6. CASE Screen!Opens([sources EXCEPT !.open = TRUE])
        <3> DEFINE page == [sources EXCEPT !.open = TRUE]
        <3>1. page \in PageType /\ page.open /\ page.copying = sources.copying
            BY <1>1
        <3>2. ~ sources.copying
            BY <1>3 DEF Screen!OnePrompt
        <3> HIDE DEF page
        <3>3. QED
            BY <1>3, <2>6, <3>1, <3>2, OpensPage DEF page
    <2>7. QED
        BY <2>2, <2>3, <2>4, <2>5, <2>6
<1>4. CASE filter # "editing" /\ sources.open /\ sources.copying
    <2>1. Screen!CopyKey(key)
        BY <1>4 DEF Screen!Key
    <2>2. /\ sources' = [sources EXCEPT !.copying = FALSE]
          /\ UNCHANGED <<filter, waiting, reconnected, notFound, help>>
          /\ UNCHANGED <<commands, started, quitting, outages, dismissed>>
          /\ Screen!Show \/ UNCHANGED Screen!toasts
        BY <2>1 DEF Screen!CopyKey, Screen!EndCopying, Screen!running
    <2>3. sources' \in PageType /\ ~ sources'.copying /\ sources'.open = sources.open
        BY <1>1, <2>2
    <2>4. ViewTypes'
        BY <2>2, <2>3 DEF ViewTypes
    <2>5. Screen!OnePrompt'
        BY <1>4, <2>2, <2>3 DEF Screen!OnePrompt
    <2>6. QED
        BY <2>2, <2>4, <2>5 DEF Presses
<1>5. CASE filter # "editing" /\ sources.open /\ ~ sources.copying
    <2>1. Screen!SourcesKey(key)
        BY <1>5 DEF Screen!Key
    <2>2. \/ \E n \in Int : Screen!Opens([sources EXCEPT !.selected = Screen!Clamp(n)])
          \/ Screen!Opens([sources EXCEPT !.copying = RouteCount > 0])
          \/ Screen!Opens([sources EXCEPT !.open = FALSE])
          \/ Screen!Run \/ Screen!ToggleHelp \/ Screen!Quit
        <3>1. sources.selected - 1 \in Int /\ sources.selected + 1 \in Int
            <4>1. Screen!Max({0, RouteCount - 1}) \in Nat
                BY <1>1, MaxOfTwo
            <4>2. QED
                BY <1>1, <4>1
        <3>2. /\ [sources EXCEPT !.selected = Screen!Clamp(@ - 1)]
                    = [sources EXCEPT !.selected = Screen!Clamp(sources.selected - 1)]
              /\ [sources EXCEPT !.selected = Screen!Clamp(@ + 1)]
                    = [sources EXCEPT !.selected = Screen!Clamp(sources.selected + 1)]
            OBVIOUS
        <3>3. QED
            BY <2>1, <3>1, <3>2 DEF Screen!SourcesKey
    <2>3. ASSUME NEW n \in Int, Screen!Opens([sources EXCEPT !.selected = Screen!Clamp(n)])
          PROVE  Presses("other")
        <3> DEFINE page == [sources EXCEPT !.selected = Screen!Clamp(n)]
        <3>1. Screen!Clamp(n) \in 0..Screen!Max({0, RouteCount - 1})
            BY ClampIsARoute
        <3>2. page \in PageType /\ page.copying = sources.copying
            BY <1>1, <3>1
        <3> HIDE DEF page
        <3>3. QED
            BY <1>5, <2>3, <3>2, OpensPage DEF page
    <2>4. CASE Screen!Opens([sources EXCEPT !.copying = RouteCount > 0])
        <3> DEFINE page == [sources EXCEPT !.copying = RouteCount > 0]
        <3>1. (RouteCount > 0) \in BOOLEAN
            OBVIOUS
        <3>2. page \in PageType /\ page.open = sources.open /\ page.copying = (RouteCount > 0)
            BY <1>1, <3>1
        <3> HIDE DEF page
        <3>3. QED
            BY <1>5, <2>4, <3>2, OpensPage DEF page
    <2>5. CASE Screen!Opens([sources EXCEPT !.open = FALSE])
        <3> DEFINE page == [sources EXCEPT !.open = FALSE]
        <3>1. page \in PageType /\ page.copying = sources.copying
            BY <1>1
        <3> HIDE DEF page
        <3>2. QED
            BY <1>5, <2>5, <3>1, OpensPage DEF page
    <2>6. CASE Screen!Run \/ Screen!ToggleHelp \/ Screen!Quit
        BY <2>6, OtherPresses
    <2>7. QED
        BY <2>2, <2>3, <2>4, <2>5, <2>6
<1>6. QED
    BY <1>1, <1>2, <1>3, <1>4, <1>5

\* esc takes one layer away.
LEMMA EscKey ==
    ASSUME ViewTypes, Screen!OnePrompt, Screen!ScreenAssumption, Screen!Key("esc")
    PROVE  Presses("esc")
<1> DEFINE PageType == [open : BOOLEAN, selected : 0..Screen!Max({0, RouteCount - 1}), copying : BOOLEAN]
<1>1. /\ sources \in PageType /\ sources.open \in BOOLEAN /\ sources.copying \in BOOLEAN
      /\ waiting \in BOOLEAN /\ notFound \in BOOLEAN /\ reconnected \in Nat
    BY DEF ViewTypes
<1>2. CASE filter = "editing"
    <2>1. ~ sources.open /\ ~ sources.copying
        BY <1>2 DEF Screen!OnePrompt
    <2>2. Screen!Filters("none")
        BY <1>2 DEF Screen!Key, Screen!EditFilter
    <2>3. Presses("other")
        BY <2>1, <2>2, FiltersList
    <2>4. filter' = "none" /\ UNCHANGED <<sources, waiting, reconnected, notFound, help>>
        BY <2>2 DEF Screen!Filters
    <2>5. Screen!Layers' = Screen!Layers - 1 /\ Screen!Layers # 0
        BY <1>1, <1>2, <2>1, <2>4 DEF Screen!Layers, Screen!One, Screen!Alerts
    <2>6. QED
        BY <2>3, <2>5 DEF Presses
<1>3. CASE filter # "editing" /\ ~ sources.open
    <2>1. ~ sources.copying
        BY <1>3 DEF Screen!OnePrompt
    <2>2. Screen!Escape /\ UNCHANGED Screen!toasts /\ UNCHANGED <<commands, started, quitting, outages>>
        BY <1>3 DEF Screen!Key, Screen!RequestsKey, Screen!running
    <2>3. CASE waiting
        <3>1. /\ waiting' = FALSE
              /\ UNCHANGED <<sources, filter, reconnected, notFound, help, dismissed>>
            BY <2>2, <2>3 DEF Screen!Escape
        <3>2. ViewTypes'
            BY <2>2, <3>1 DEF ViewTypes
        <3>3. Screen!Layers' = Screen!Layers - 1 /\ Screen!Layers # 0
            BY <1>1, <1>3, <2>1, <2>3, <3>1 DEF Screen!Layers, Screen!One, Screen!Alerts
        <3>4. QED
            BY <2>2, <3>1, <3>2, <3>3 DEF Presses, Screen!OnePrompt
    <2>4. CASE ~ waiting /\ Screen!Alerts
        <3>1. /\ reconnected' = 0 /\ notFound' = FALSE /\ dismissed' = outages
              /\ UNCHANGED <<sources, filter, waiting, help>>
            BY <2>2, <2>4 DEF Screen!Escape
        <3>2. ViewTypes'
            BY <2>2, <3>1 DEF ViewTypes
        <3>3. Screen!Layers' = Screen!Layers - 1 /\ Screen!Layers # 0
            BY <1>1, <1>3, <2>1, <2>4, <3>1 DEF Screen!Layers, Screen!One, Screen!Alerts
        <3>4. QED
            BY <2>2, <3>1, <3>2, <3>3 DEF Presses, Screen!OnePrompt
    <2>5. CASE ~ waiting /\ ~ Screen!Alerts
        <3>1. /\ filter' = "none"
              /\ UNCHANGED <<sources, waiting, reconnected, notFound, help, dismissed>>
            BY <2>2, <2>5 DEF Screen!Escape
        <3>2. ViewTypes'
            BY <2>2, <3>1 DEF ViewTypes
        <3>3. IF Screen!Layers = 0 THEN Screen!Layers' = 0 ELSE Screen!Layers' = Screen!Layers - 1
            <4>1. ~ Screen!Alerts'
                BY <2>5, <3>1 DEF Screen!Alerts
            <4>2. Screen!Layers = (IF filter # "none" THEN 1 ELSE 0) /\ Screen!Layers' = 0
                BY <1>3, <2>1, <2>5, <3>1, <4>1 DEF Screen!Layers, Screen!One
            <4>3. QED
                BY <4>2
        <3>4. QED
            BY <2>2, <3>1, <3>2, <3>3 DEF Presses, Screen!OnePrompt
    <2>6. QED
        BY <1>1, <2>3, <2>4, <2>5
<1>4. CASE filter # "editing" /\ sources.open /\ sources.copying
    <2>1. Screen!CopyKey("esc")
        BY <1>4 DEF Screen!Key
    <2>2. /\ sources' = [sources EXCEPT !.copying = FALSE]
          /\ UNCHANGED <<filter, waiting, reconnected, notFound, help>>
          /\ UNCHANGED <<commands, started, quitting, outages, dismissed>>
          /\ Screen!Show \/ UNCHANGED Screen!toasts
        BY <2>1 DEF Screen!CopyKey, Screen!EndCopying, Screen!running
    <2>3. sources' \in PageType /\ ~ sources'.copying /\ sources'.open = sources.open
        BY <1>1, <2>2
    <2>4. ViewTypes'
        BY <2>2, <2>3 DEF ViewTypes
    <2>5. Screen!OnePrompt'
        BY <1>4, <2>2, <2>3 DEF Screen!OnePrompt
    <2>6. Screen!Layers' = Screen!Layers - 1 /\ Screen!Layers # 0
        BY <1>1, <1>4, <2>2, <2>3 DEF Screen!Layers, Screen!One, Screen!Alerts
    <2>7. QED
        BY <2>2, <2>4, <2>5, <2>6 DEF Presses
<1>5. CASE filter # "editing" /\ sources.open /\ ~ sources.copying
    <2>1. Screen!Opens([sources EXCEPT !.open = FALSE])
        BY <1>5 DEF Screen!Key, Screen!SourcesKey
    <2> DEFINE page == [sources EXCEPT !.open = FALSE]
    <2>2. page \in PageType /\ ~ page.open /\ page.copying = sources.copying
        BY <1>1
    <2>3. Presses("other")
        <3> HIDE DEF page
        <3>1. QED
            BY <1>5, <2>1, <2>2, OpensPage DEF page
    <2>4. sources' = page /\ UNCHANGED <<filter, waiting, reconnected, notFound, help>>
        BY <2>1 DEF Screen!Opens
    <2> HIDE DEF page
    <2>5. Screen!Layers' = Screen!Layers - 1 /\ Screen!Layers # 0
        BY <1>1, <1>5, <2>2, <2>4 DEF Screen!Layers, Screen!One, Screen!Alerts
    <2>6. QED
        BY <2>3, <2>5 DEF Presses
<1>6. QED
    BY <1>1, <1>2, <1>3, <1>4, <1>5

\* What the step leaves in the sum of the outages.
LEMMA PressesKeepTheSum ==
    ASSUME OutagesSum, NEW key, Presses(key)
    PROVE  OutagesSum'
<1>1. outages' = outages
    BY DEF Presses
<1>2. Screen!Total(outages) \in Nat /\ Screen!Total(dismissed) \in Nat
    <2>1. outages \in Seq(Nat) /\ dismissed \in Seq(Nat) /\ 0 \in Nat
        BY DEF OutagesSum
    <2>2. QED
        BY <2>1, TotalAppend
<1>3. CASE dismissed' = dismissed /\ reconnected' = reconnected
    BY <1>1, <1>3 DEF OutagesSum, Screen!AlertSumsOutages
<1>4. CASE dismissed' = outages /\ reconnected' = 0
    BY <1>1, <1>2, <1>4 DEF OutagesSum, Screen!AlertSumsOutages
<1>5. QED
    BY <1>3, <1>4 DEF Presses

\* Messages.
LEMMA Messages ==
    ASSUME ScreenInv, Screen!ScreenAssumption,
           Screen!Reply \/ Screen!Reconnected \/ Screen!RootNotFound \/ Screen!WaitEnds
    PROVE  /\ ViewTypes' /\ Screen!OnePrompt' /\ OutagesSum'
           /\ Screen!Show \/ UNCHANGED Screen!toasts
<1>1. ViewTypes /\ Screen!OnePrompt /\ OutagesSum
    BY DEF ScreenInv
<1>2. CASE Screen!Reply
    <2>1. /\ commands > 0 /\ commands' = commands - 1
          /\ Screen!Show \/ UNCHANGED Screen!toasts
          /\ UNCHANGED <<sources, filter, waiting, reconnected, notFound, help>>
          /\ UNCHANGED <<started, quitting, outages, dismissed>>
        BY <1>2 DEF Screen!Reply, Screen!view
    <2>2. commands' \in 0..started' /\ started' \in 0..MaxCommands
        BY <1>1, <2>1 DEF ViewTypes
    <2>3. ViewTypes'
        BY <1>1, <2>1, <2>2 DEF ViewTypes
    <2>4. QED
        BY <1>1, <2>1, <2>3 DEF Screen!OnePrompt, OutagesSum, Screen!AlertSumsOutages
<1>3. CASE Screen!Reconnected
    <2> DEFINE x == Outages[Len(outages) + 1]
    <2>1. /\ Len(outages) < Len(Outages) /\ outages' = Append(outages, x)
          /\ reconnected' = reconnected + x
          /\ UNCHANGED <<sources, filter, waiting, notFound, help, dismissed>>
          /\ UNCHANGED Screen!toasts /\ UNCHANGED <<commands, started, quitting>>
        BY <1>3 DEF Screen!Reconnected, Screen!SumOutages, Screen!running
    <2>2. Outages \in Seq(Nat \ {0}) /\ outages \in Seq(Nat) /\ dismissed \in Seq(Nat)
        BY <1>1 DEF OutagesSum, Screen!ScreenAssumption
    <2>3. x \in Nat
        BY <2>1, <2>2
    <2> HIDE DEF x
    <2>4. /\ Screen!Total(outages) \in Nat /\ Screen!Total(dismissed) \in Nat
          /\ Screen!Total(outages') = Screen!Total(outages) + x
        BY <2>1, <2>2, <2>3, TotalAppend
    <2>5. ViewTypes'
        BY <1>1, <2>1, <2>3 DEF ViewTypes
    <2>6. /\ outages' \in Seq(Nat) /\ Len(outages') = Len(outages) + 1
          /\ Len(outages) \in Nat /\ Len(Outages) \in Nat
        BY <2>1, <2>2, <2>3
    <2>7. Screen!AlertSumsOutages'
        <3>1. reconnected = Screen!Total(outages) - Screen!Total(dismissed)
            BY <1>1 DEF OutagesSum, Screen!AlertSumsOutages
        <3>2. reconnected' = Screen!Total(outages') - Screen!Total(dismissed')
            BY <2>1, <2>3, <2>4, <3>1
        <3>3. QED
            BY <3>2 DEF Screen!AlertSumsOutages
    <2>8. OutagesSum'
        BY <2>1, <2>2, <2>6, <2>7 DEF OutagesSum
    <2>9. QED
        BY <1>1, <2>1, <2>5, <2>8 DEF Screen!OnePrompt
<1>4. CASE Screen!RootNotFound \/ Screen!WaitEnds
    <2>1. /\ UNCHANGED <<sources, filter, reconnected, help>>
          /\ waiting' \in {waiting, FALSE} /\ notFound' \in {notFound, TRUE}
          /\ UNCHANGED Screen!toasts /\ UNCHANGED <<commands, started, quitting, outages, dismissed>>
        BY <1>4 DEF Screen!RootNotFound, Screen!WaitEnds, Screen!running
    <2>2. ViewTypes'
        BY <1>1, <2>1 DEF ViewTypes
    <2>3. QED
        BY <1>1, <2>1, <2>2 DEF Screen!OnePrompt, OutagesSum, Screen!AlertSumsOutages
<1>5. QED
    BY <1>2, <1>3, <1>4

\* A step that leaves the toasts, or shows one.
ShowsAtMost == Screen!Show \/ UNCHANGED Screen!toasts

\* A step of the toasts alone, which ends one when its time is up.
ToastsAlone ==
    /\ UNCHANGED <<sources, filter, waiting, reconnected, notFound, help>>
    /\ UNCHANGED <<commands, started, quitting, outages, dismissed>>
    /\ ToastTypes' /\ TimersAgree' /\ (toast # 0 /\ toast' = 0 => age = ToastFor)

LEMMA ShowsAtMostKeeps ==
    ASSUME ScreenInv, Screen!ScreenAssumption, ViewTypes', Screen!OnePrompt', OutagesSum', ShowsAtMost
    PROVE  ScreenInv' /\ Screen!ToastsStay
<1>1. Screen!Show \/ UNCHANGED Screen!toasts
    BY Zenon DEF ShowsAtMost
<1>2. ToastTypes /\ TimersAgree
    BY DEF ScreenInv
<1>3. ToastTypes' /\ TimersAgree' /\ (toast # 0 => toast' # 0)
    BY <1>1, <1>2, ShowKeepsToasts
<1>4. QED
    BY <1>3 DEF ScreenInv, Screen!ToastsStay

LEMMA ToastsAloneKeep ==
    ASSUME ScreenInv, ToastsAlone
    PROVE  ScreenInv' /\ Screen!ToastsStay
<1>1. /\ UNCHANGED <<sources, filter, waiting, reconnected, notFound, help>>
      /\ UNCHANGED <<commands, started, quitting, outages, dismissed>>
      /\ ToastTypes' /\ TimersAgree' /\ (toast # 0 /\ toast' = 0 => age = ToastFor)
    BY Zenon DEF ToastsAlone
<1>2. ViewTypes' /\ Screen!OnePrompt' /\ OutagesSum'
    BY <1>1 DEF ScreenInv, ViewTypes, Screen!OnePrompt, OutagesSum, Screen!AlertSumsOutages
<1>3. QED
    BY <1>1, <1>2 DEF ScreenInv, Screen!ToastsStay

LEMMA ScreenStep ==
    ASSUME ScreenInv, Screen!ScreenAssumption, [Screen!Next]_(Screen!vars)
    PROVE  ScreenInv' /\ Screen!EscapeTakesOneLayer /\ Screen!ToastsStay
<1>1. ViewTypes /\ Screen!OnePrompt /\ ToastTypes /\ TimersAgree /\ OutagesSum
    BY DEF ScreenInv
<1>2. Screen!EscapeTakesOneLayer
    BY <1>1, EscKey DEF Screen!EscapeTakesOneLayer, Presses
<1>3. ASSUME NEW key \in Screen!Keys, Screen!Key(key) PROVE ScreenInv' /\ Screen!ToastsStay
    <2>1. Presses(key)
        BY <1>1, <1>3, OtherKeys, EscKey
    <2>2. ViewTypes' /\ Screen!OnePrompt' /\ OutagesSum'
        BY <1>1, <2>1, PressesKeepTheSum DEF Presses
    <2>3. ShowsAtMost
        BY <2>1 DEF Presses, ShowsAtMost
    <2>4. QED
        BY <2>2, <2>3, ShowsAtMostKeeps
<1>4. CASE Screen!Reply \/ Screen!Reconnected \/ Screen!RootNotFound \/ Screen!WaitEnds
    <2>1. ViewTypes' /\ Screen!OnePrompt' /\ OutagesSum' /\ ShowsAtMost
        BY <1>4, Messages, Zenon DEF ShowsAtMost
    <2>2. QED
        BY <1>2, <2>1, ShowsAtMostKeeps
<1>5. CASE Screen!Tick
    <2>1. /\ UNCHANGED <<sources, filter, waiting, reconnected, notFound, help>>
          /\ UNCHANGED <<commands, started, quitting, outages, dismissed>>
        BY <1>5 DEF Screen!Tick, Screen!view, Screen!running
    <2>2. ToastTypes' /\ TimersAgree' /\ toast' = toast
        BY <1>1, <1>5, TickKeepsToasts
    <2>3. ToastsAlone
        BY <2>1, <2>2 DEF ToastsAlone
    <2>4. QED
        BY <1>2, <2>3, ToastsAloneKeep
<1>6. ASSUME NEW t \in timers, Screen!ToastExpires(t) PROVE ScreenInv' /\ Screen!ToastsStay
    <2>1. /\ UNCHANGED <<sources, filter, waiting, reconnected, notFound, help>>
          /\ UNCHANGED <<commands, started, quitting, outages, dismissed>>
        BY <1>6 DEF Screen!ToastExpires, Screen!view, Screen!running
    <2>2. ToastTypes' /\ TimersAgree' /\ (toast # 0 /\ toast' = 0 => age = ToastFor)
        BY <1>1, <1>6, ExpiryKeepsToasts
    <2>3. ToastsAlone
        BY <2>1, <2>2 DEF ToastsAlone
    <2>4. QED
        BY <2>3, ToastsAloneKeep
<1>7. CASE UNCHANGED Screen!vars
    <2>1. /\ UNCHANGED <<sources, filter, waiting, reconnected, notFound, help>>
          /\ UNCHANGED <<commands, started, quitting, outages, dismissed>>
          /\ UNCHANGED Screen!toasts
        BY <1>7 DEF Screen!vars, Screen!view, Screen!running
    <2>2. ViewTypes' /\ Screen!OnePrompt' /\ OutagesSum'
        BY <1>1, <2>1 DEF ViewTypes, Screen!OnePrompt, OutagesSum, Screen!AlertSumsOutages
    <2>3. ShowsAtMost
        BY <2>1, Zenon DEF ShowsAtMost
    <2>4. QED
        BY <1>2, <2>2, <2>3, ShowsAtMostKeeps
<1>8. QED
    BY <1>2, <1>3, <1>4, <1>5, <1>6, <1>7 DEF Screen!Next

\* For any outages, routes, commands and toasts: of the prompts one at most takes the
\* keys, the reconnect alert sums the outages since the last one dismissed, esc takes
\* one layer away, and no toast ends with the timer of one it replaced.
THEOREM ScreenCorrect ==
    ASSUME Screen!ScreenAssumption
    PROVE  Screen!Spec =>
               /\ [](Screen!TypeOK /\ Screen!OnePrompt /\ Screen!AlertSumsOutages)
               /\ [][Screen!EscapeTakesOneLayer /\ Screen!ToastsStay]_(Screen!vars)
<1>1. Screen!Init => ScreenInv
    <2> SUFFICES ASSUME Screen!Init PROVE ScreenInv
        OBVIOUS
    <2>1. /\ sources = [open |-> FALSE, selected |-> 0, copying |-> FALSE]
          /\ filter = "none" /\ waiting = FALSE /\ reconnected = 0 /\ notFound = FALSE /\ help = FALSE
          /\ toast = 0 /\ toastID = 0 /\ timers = {} /\ age = 0
          /\ commands = 0 /\ started = 0 /\ quitting = FALSE
          /\ outages = <<>> /\ dismissed = <<>>
        BY DEF Screen!Init, Screen!Closed
    <2>2. /\ RouteCount \in Nat /\ ToastFor \in Nat /\ MaxToasts \in Nat /\ MaxCommands \in Nat
          /\ Outages \in Seq(Nat \ {0})
        BY DEF Screen!ScreenAssumption
    <2>3. 0 \in 0..Screen!Max({0, RouteCount - 1})
        BY <2>2, MaxOfTwo
    <2>4. ViewTypes
        <3>1. sources \in [open : BOOLEAN, selected : 0..Screen!Max({0, RouteCount - 1}), copying : BOOLEAN]
            BY <2>1, <2>3
        <3>2. /\ waiting \in BOOLEAN /\ notFound \in BOOLEAN /\ help \in BOOLEAN
              /\ quitting \in BOOLEAN
            BY <2>1
        <3>3. QED
            BY <2>1, <2>2, <3>1, <3>2 DEF ViewTypes
    <2>5. ToastTypes /\ TimersAgree
        BY <2>1, <2>2 DEF ToastTypes, TimersAgree
    <2>6. OutagesSum
        <3>1. <<>> \in Seq(Nat) /\ 0 \in Nat /\ Len(Outages) >= 0
            BY <2>2
        <3>2. Screen!Total(<<>>) \in Nat
            BY <3>1, TotalAppend
        <3>3. QED
            BY <2>1, <3>1, <3>2 DEF OutagesSum, Screen!AlertSumsOutages
    <2>7. QED
        BY <2>1, <2>4, <2>5, <2>6 DEF ScreenInv, Screen!OnePrompt
<1>2. ScreenInv /\ [Screen!Next]_(Screen!vars) =>
          ScreenInv' /\ [Screen!EscapeTakesOneLayer /\ Screen!ToastsStay]_(Screen!vars)
    BY ScreenStep
<1>3. ScreenInv => Screen!TypeOK /\ Screen!OnePrompt /\ Screen!AlertSumsOutages
    <2> SUFFICES ASSUME ScreenInv PROVE Screen!TypeOK /\ Screen!OnePrompt /\ Screen!AlertSumsOutages
        OBVIOUS
    <2>1. {waiting, notFound, help, quitting} \subseteq BOOLEAN
        BY DEF ScreenInv, ViewTypes
    <2>2. QED
        BY <2>1 DEF ScreenInv, ViewTypes, ToastTypes, OutagesSum, Screen!TypeOK
<1>4. QED
    BY <1>1, <1>2, <1>3, PTL DEF Screen!Spec

----------------------------------------------------------------------------
(* The detail's pages.                                                        *)

\* Who reads a page has paused on its request.
PagesInv == Pages!TypeOK /\ (reading => paused)

\* With a request recorded, the one shown is in the history, and its tab and the
\* panel have lines.
LEMMA PageLines ==
    ASSUME Pages!PagesAssumption, PagesInv
    PROVE  /\ last \in Nat /\ selected \in Nat /\ Cap \in Nat /\ Cap >= 1
           /\ Pages!Oldest = (IF 1 > last - Cap + 1 THEN 1 ELSE last - Cap + 1)
           /\ Pages!Rows \in Nat /\ Pages!Rows >= 1
           /\ last > 0 => /\ Pages!Oldest \in 1..last /\ Pages!Number \in Pages!Oldest..last
                          /\ Pages!Content \in Nat
<1>1. /\ last \in 0..MaxArrivals /\ MaxArrivals \in Nat /\ selected \in 0..last
      /\ Cap \in Nat \ {0} /\ split \in BOOLEAN /\ paused \in BOOLEAN
      /\ height \in Nat /\ others \in Int
    BY DEF PagesInv, Pages!TypeOK, Pages!PagesAssumption
<1>2. Pages!Oldest = (IF 1 > last - Cap + 1 THEN 1 ELSE last - Cap + 1)
    BY DEF Pages!Oldest, Pages!MaxOf
<1>3. Pages!Rows \in Nat /\ Pages!Rows >= 1
    <2> DEFINE panes == Pages!Panes(height, others)
    <2>1. panes \in Nat
        BY <1>1 DEF Pages!Panes, Pages!Most
    <2> HIDE DEF panes
    <2>2. (panes * 2) \div 5 \in Int
        BY <2>1
    <2>3. Pages!DetailHeight(panes, split) \in Int
        BY <1>1, <2>1, <2>2 DEF Pages!DetailHeight, Pages!ListHeight, Pages!Least, Pages!Most
    <2>4. Pages!DetailRows(Pages!DetailHeight(panes, split)) >= 1
        BY <2>3 DEF Pages!DetailRows, Pages!Most
    <2>5. Pages!DetailRows(Pages!DetailHeight(panes, split)) \in Nat
        BY <2>3 DEF Pages!DetailRows, Pages!Most
    <2>6. QED
        BY <2>4, <2>5 DEF Pages!Rows, panes
<1>4. ASSUME last > 0
      PROVE  Pages!Oldest \in 1..last /\ Pages!Number \in Pages!Oldest..last /\ Pages!Content \in Nat
    <2>1. Pages!Oldest \in 1..last
        BY <1>1, <1>2, <1>4
    <2>2. Pages!Number = (IF paused THEN (IF selected > Pages!Oldest THEN selected ELSE Pages!Oldest)
                          ELSE last)
        BY DEF Pages!Number, Pages!MaxOf
    <2>3. Pages!Number \in Pages!Oldest..last
        BY <1>1, <1>4, <2>1, <2>2
    <2>4. Pages!Number \in 1..MaxArrivals
        BY <1>1, <2>1, <2>3
    <2>5. tab \in 0..TabCount - 1
        BY DEF PagesInv, Pages!TypeOK, Pages!Tabs
    <2>6. QED
        BY <1>1, <2>1, <2>3, <2>4, <2>5 DEF Pages!Content, Pages!PagesAssumption
<1>5. QED
    BY <1>1, <1>2, <1>3, <1>4

\* The first line shown leaves the last page full.
LEMMA ScrolledIsWithin ==
    ASSUME Pages!PagesAssumption, PagesInv, last > 0
    PROVE  /\ Pages!Scrolled \in Nat
           /\ Pages!Scrolled = 0 \/ Pages!Scrolled <= Pages!Content - Pages!Rows
<1>1. Pages!Content \in Nat /\ Pages!Rows \in Nat /\ scroll.lines \in Nat
    BY PageLines DEF PagesInv, Pages!TypeOK
<1>2. QED
    BY <1>1 DEF Pages!Scrolled, Pages!Within, Pages!MaxOf, Pages!MinOf

\* A page key keeps the request and its lines, and shows it from a page on.
LEMMA PageKey ==
    ASSUME Pages!PagesAssumption, PagesInv, NEW pages \in {-1, 1}, Pages!ScrollDetail(pages)
    PROVE  /\ last > 0 /\ PagesInv'
           /\ Pages!Content' = Pages!Content /\ Pages!Rows' = Pages!Rows
           /\ Pages!Scrolled' = Pages!Within(Pages!Scrolled + pages * Pages!PageLength)
<1>1. /\ last > 0 /\ paused' = TRUE /\ selected' = Pages!Number
      /\ scroll' = [number |-> Pages!Number, tab |-> tab,
                    lines |-> Pages!Within(Pages!Scrolled + pages * Pages!PageLength)]
      /\ reading' = TRUE /\ UNCHANGED <<last, tab, height, split, others>>
    BY DEF Pages!ScrollDetail, Pages!Hold, Pages!PagesFrom
<1> DEFINE lines == Pages!Within(Pages!Scrolled + pages * Pages!PageLength)
<1>2. /\ last \in Nat /\ Pages!Oldest \in 1..last /\ Pages!Number \in Pages!Oldest..last
      /\ Pages!Content \in Nat /\ Pages!Rows \in Nat /\ Pages!Scrolled \in Nat
    BY <1>1, PageLines, ScrolledIsWithin
<1>3. Pages!Oldest' = Pages!Oldest /\ Pages!Rows' = Pages!Rows
    BY <1>1 DEF Pages!Oldest, Pages!Rows
<1>4. Pages!Number' = Pages!Number
    BY <1>1, <1>2, <1>3 DEF Pages!Number, Pages!MaxOf
<1>5. Pages!Content' = Pages!Content
    BY <1>1, <1>4 DEF Pages!Content
<1>6. lines \in Nat
    BY <1>2 DEF Pages!Within, Pages!MaxOf, Pages!MinOf, Pages!PageLength
<1>7. Pages!Scrolled' = lines
    <2> DEFINE x == Pages!Scrolled + pages * Pages!PageLength
               within(y) == Pages!MaxOf(0, Pages!MinOf(y, Pages!Content - Pages!Rows))
    <2>1. Pages!Scrolled' = within(lines)
        BY <1>1, <1>3, <1>4, <1>5 DEF Pages!Scrolled, Pages!Within
    <2>2. x \in Int
        BY <1>2 DEF Pages!PageLength, Pages!MaxOf
    <2>3. lines = within(x)
        BY DEF Pages!Within
    <2> HIDE DEF x, lines
    <2>4. within(within(x)) = within(x)
        BY <1>2, <2>2 DEF Pages!MaxOf, Pages!MinOf
    <2>5. QED
        BY <2>1, <2>3, <2>4
<1> HIDE DEF lines
<1>8. PagesInv'
    <2>1. /\ scroll' = [number |-> Pages!Number, tab |-> tab, lines |-> lines]
          /\ Pages!Number \in 0..last /\ Pages!Number > 0 /\ tab \in Pages!Tabs
        BY <1>1, <1>2 DEF PagesInv, Pages!TypeOK, lines
    <2>2. scroll' \in [number : 0..last, tab : Pages!Tabs, lines : Nat]
        BY <1>6, <2>1
    <2>3. {paused', split', reading'} \subseteq BOOLEAN
        BY <1>1 DEF PagesInv, Pages!TypeOK
    <2>4. QED
        BY <1>1, <2>1, <2>2, <2>3 DEF PagesInv, Pages!TypeOK, Pages!Tabs
<1>9. QED
    BY <1>1, <1>3, <1>5, <1>7, <1>8 DEF lines

\* The other keys and events.
LEMMA PagesStep ==
    ASSUME Pages!PagesAssumption, PagesInv, [Pages!Next]_(Pages!vars)
    PROVE  PagesInv'
<1>1. /\ last \in 0..MaxArrivals /\ MaxArrivals \in Nat /\ selected \in 0..last
      /\ {paused, split, reading} \subseteq BOOLEAN /\ (paused => selected > 0)
      /\ tab \in Pages!Tabs /\ height \in PageHeights /\ others \in 1..MaxPageOthers
      /\ scroll \in [number : 0..last, tab : Pages!Tabs, lines : Nat]
      /\ reading => paused
    BY DEF PagesInv, Pages!TypeOK, Pages!PagesAssumption
<1>2. CASE Pages!PageUp \/ Pages!PageDown
    BY <1>2, PageKey DEF Pages!PageUp, Pages!PageDown
<1>3. CASE Pages!Follow
    BY <1>1, <1>3 DEF Pages!Follow, PagesInv, Pages!TypeOK
<1>4. CASE Pages!Arrive
    <2>1. /\ last' = last + 1 /\ last < MaxArrivals
          /\ UNCHANGED <<paused, selected, tab, scroll, height, split, others, reading>>
        BY <1>4 DEF Pages!Arrive
    <2>2. scroll \in [number : 0..last + 1, tab : Pages!Tabs, lines : Nat]
        BY <1>1
    <2>3. last + 1 \in 0..MaxArrivals /\ selected \in 0..last + 1
        BY <1>1, <2>1
    <2>4. QED
        BY <1>1, <2>1, <2>2, <2>3 DEF PagesInv, Pages!TypeOK, Pages!Tabs
<1>5. CASE Pages!Resize
    BY <1>1, <1>5 DEF Pages!Resize, PagesInv, Pages!TypeOK, Pages!Tabs
<1>6. ASSUME NEW delta \in {-1, 1}, Pages!Move(delta) PROVE PagesInv'
    <2>1. /\ last > 0 /\ paused' = TRUE /\ reading' = FALSE
          /\ selected' = Pages!MinOf(Pages!MaxOf(Pages!Oldest, Pages!Number + delta), last)
          /\ UNCHANGED <<last, tab, scroll, height, split, others>>
        BY <1>6 DEF Pages!Move
    <2>2. Pages!Oldest \in 1..last /\ Pages!Number \in Pages!Oldest..last
        BY <2>1, PageLines
    <2>3. selected' \in 1..last
        BY <1>1, <2>1, <2>2 DEF Pages!MinOf, Pages!MaxOf
    <2>4. selected' \in 0..last /\ selected' > 0
        BY <1>1, <2>3
    <2>5. {paused', split', reading'} \subseteq BOOLEAN
        BY <1>1, <2>1
    <2>6. QED
        BY <1>1, <2>1, <2>4, <2>5 DEF PagesInv, Pages!TypeOK, Pages!Tabs
<1>7. ASSUME NEW delta \in {-1, 1}, Pages!Turn(delta) PROVE PagesInv'
    <2>1. TabCount \in Nat \ {0}
        BY DEF Pages!PagesAssumption
    <2>2. /\ tab' = (tab + TabCount + delta) % TabCount /\ reading' = FALSE
          /\ UNCHANGED <<last, paused, selected, scroll, height, split, others>>
        BY <1>7 DEF Pages!Turn
    <2>3. tab' \in Pages!Tabs
        <3>1. tab \in Int /\ tab + TabCount + delta \in Int
            BY <1>1, <2>1 DEF Pages!Tabs
        <3>2. (tab + TabCount + delta) % TabCount \in 0..TabCount - 1
            BY <2>1, <3>1
        <3>3. QED
            BY <2>2, <3>2 DEF Pages!Tabs
    <2>4. QED
        BY <1>1, <2>2, <2>3 DEF PagesInv, Pages!TypeOK, Pages!Tabs
<1>8. CASE UNCHANGED Pages!vars
    BY <1>1, <1>8 DEF Pages!vars, PagesInv, Pages!TypeOK, Pages!Tabs
<1>9. QED
    BY <1>2, <1>3, <1>4, <1>5, <1>6, <1>7, <1>8 DEF Pages!Next

LEMMA PageKeysMoveOn ==
    ASSUME Pages!PagesAssumption, PagesInv
    PROVE  Pages!PageKeysMove /\ Pages!PagesLeaveNoGap
<1>1. ASSUME NEW pages \in {-1, 1}, Pages!ScrollDetail(pages)
      PROVE  /\ pages = 1 /\ Pages!Hidden => Pages!Scrolled' > Pages!Scrolled
             /\ pages = -1 /\ Pages!Scrolled > 0 => Pages!Scrolled' < Pages!Scrolled
             /\ Pages!Rows > 1 /\ pages = 1 => Pages!Scrolled' <= Pages!Scrolled + Pages!Showing
             /\ Pages!Rows > 1 /\ pages = -1 => Pages!Scrolled' + Pages!Showing' >= Pages!Scrolled
    <2> DEFINE c == Pages!Content
               r == Pages!Rows
               s == Pages!Scrolled
               t == Pages!Scrolled'
               length == IF r > 1 THEN r - 1 ELSE 1
               x == s + pages * length
    <2>1. /\ last > 0 /\ Pages!Content' = c /\ Pages!Rows' = r
          /\ t = Pages!Within(s + pages * Pages!PageLength)
        BY <1>1, PageKey
    <2>2. c \in Nat /\ r \in Nat /\ r >= 1 /\ s \in Nat /\ (s = 0 \/ s <= c - r)
        BY <2>1, PageLines, ScrolledIsWithin
    <2>3. Pages!PageLength = length
        BY <2>2 DEF Pages!PageLength, Pages!MaxOf
    <2>4. Pages!Hidden = (c - s > r) /\ Pages!Showing = (IF c - s > r THEN r - 1 ELSE c - s)
        BY DEF Pages!Hidden, Pages!Showing
    <2>5. Pages!Showing' = (IF c - t > r THEN r - 1 ELSE c - t)
        BY <2>1 DEF Pages!Hidden, Pages!Showing
    <2>6. t = IF 0 > (IF x < c - r THEN x ELSE c - r) THEN 0
              ELSE (IF x < c - r THEN x ELSE c - r)
        BY <2>1, <2>3 DEF Pages!Within, Pages!MaxOf, Pages!MinOf
    <2>7. x = IF pages = 1 THEN s + length ELSE s - length
        BY <2>2
    <2> DEFINE before == Pages!Showing
               after == Pages!Showing'
    <2>8. before = (IF c - s > r THEN r - 1 ELSE c - s) /\ after = (IF c - t > r THEN r - 1 ELSE c - t)
        BY <2>4, <2>5
    <2> HIDE DEF c, r, s, t, x, before, after
    <2>9. pages = 1 /\ c - s > r => t > s
        BY <2>2, <2>6, <2>7
    <2>10. pages = -1 /\ s > 0 => t < s
        BY <2>2, <2>6, <2>7
    <2>11. r > 1 /\ pages = 1 => t <= s + before
        BY <2>2, <2>6, <2>7, <2>8
    <2>12. r > 1 /\ pages = -1 => t + after >= s
        BY <2>2, <2>6, <2>7, <2>8
    <2>13. QED
        BY <2>4, <2>9, <2>10, <2>11, <2>12 DEF c, r, s, t, before, after
<1>2. QED
    BY <1>1 DEF Pages!PageKeysMove, Pages!PagesLeaveNoGap, Pages!PageUp, Pages!PageDown

LEMMA ArrivalsKeepPages ==
    ASSUME Pages!PagesAssumption, PagesInv
    PROVE  Pages!ArrivalsKeepThePage
<1> SUFFICES ASSUME Pages!Arrive, reading, Pages!Number >= Pages!Oldest'
             PROVE  Pages!Number' = Pages!Number /\ Pages!Scrolled' = Pages!Scrolled
    BY DEF Pages!ArrivalsKeepThePage
<1>1. /\ last' = last + 1 /\ paused
      /\ UNCHANGED <<paused, selected, tab, scroll, height, split, others>>
    BY DEF Pages!Arrive, PagesInv
<1>2. /\ last \in Nat /\ selected \in Nat /\ Cap \in Nat
      /\ Pages!Oldest = (IF 1 > last - Cap + 1 THEN 1 ELSE last - Cap + 1)
    BY PageLines
<1>3. Pages!Oldest' = (IF 1 > last + 1 - Cap + 1 THEN 1 ELSE last + 1 - Cap + 1)
    <2>1. Pages!Oldest' = (IF 1 > last' - Cap + 1 THEN 1 ELSE last' - Cap + 1)
        BY DEF Pages!Oldest, Pages!MaxOf
    <2>2. QED
        BY <1>1, <1>2, <2>1
<1>4. /\ Pages!Number = IF selected > Pages!Oldest THEN selected ELSE Pages!Oldest
      /\ Pages!Number' = IF selected > Pages!Oldest' THEN selected ELSE Pages!Oldest'
    BY <1>1 DEF Pages!Number, Pages!MaxOf
<1>5. Pages!Number' = Pages!Number
    BY <1>2, <1>3, <1>4
<1>6. Pages!Content' = Pages!Content /\ Pages!Rows' = Pages!Rows
    BY <1>1, <1>5 DEF Pages!Content, Pages!Rows
<1>7. Pages!Scrolled' = Pages!Scrolled
    BY <1>1, <1>5, <1>6 DEF Pages!Scrolled, Pages!Within
<1>8. QED
    BY <1>5, <1>7

\* Whatever the lines of the requests' tabs and the screen's sizes, a page key moves
\* while there is more to see, the pages leave out no line, and no arrival takes away
\* the page being read.
THEOREM PagesCorrect ==
    ASSUME Pages!PagesAssumption
    PROVE  Pages!Spec => PagesLeaveNoGap
<1>1. Pages!Init => PagesInv
    <2> SUFFICES ASSUME Pages!Init PROVE PagesInv
        OBVIOUS
    <2>1. MaxArrivals \in Nat /\ TabCount \in Nat \ {0}
        BY DEF Pages!PagesAssumption
    <2>2. 0 \in Pages!Tabs /\ 0 \in 0..MaxArrivals
        BY <2>1 DEF Pages!Tabs
    <2>3. scroll = [number |-> 0, tab |-> 0, lines |-> 0] /\ last = 0
        BY DEF Pages!Init
    <2>4. scroll \in [number : 0..last, tab : Pages!Tabs, lines : Nat]
        BY <2>2, <2>3
    <2>5. {paused, split, reading} \subseteq BOOLEAN
        BY DEF Pages!Init
    <2>6. QED
        BY <2>2, <2>4, <2>5 DEF Pages!Init, PagesInv, Pages!TypeOK
<1>2. PagesInv /\ [Pages!Next]_(Pages!vars) => PagesInv'
    BY PagesStep
<1>3. PagesInv => Pages!TypeOK
    BY DEF PagesInv
<1>4. PagesInv /\ [Pages!Next]_(Pages!vars) =>
          [/\ Pages!PageKeysMove /\ Pages!PagesLeaveNoGap
           /\ Pages!ArrivalsKeepThePage]_(Pages!vars)
    BY PageKeysMoveOn, ArrivalsKeepPages
<1>5. QED
    BY <1>1, <1>2, <1>3, <1>4, PTL DEF Pages!Spec, PagesLeaveNoGap

----------------------------------------------------------------------------
(* The Sources page.                                                          *)

\* The row that bannerRoutes gives the j-th route of source s.
RowOf(s, j) == [source |-> s.name, route |-> s.routes[j]]

RowsOf(s) == [j \in DOMAIN s.routes |-> RowOf(s, j)]

LiveSources == {s \in Range(Available) : s.routes # <<>>}

\* What is listed are the kept sources' routes, all of them.
ListsOf(rows, kept) ==
    /\ \A k \in DOMAIN rows : \E i \in DOMAIN kept :
          rows[k].source = kept[i].name /\ rows[k].route \in Range(kept[i].routes)
    /\ \A i \in DOMAIN kept : \A r \in Range(kept[i].routes) : \E k \in DOMAIN rows :
          rows[k].source = kept[i].name /\ rows[k].route = r

Row == [source : Sources!Names, route : Sources!AllRoutes]

\* Sources and their routes are as Available says.
LEMMA SourceTypes ==
    ASSUME Sources!SourcesAssumption
    PROVE  /\ \A s \in Range(Available) :
                 /\ s.name \in Sources!Names /\ s.routes \in Seq(Sources!AllRoutes)
                 /\ Range(s.routes) \subseteq Sources!AllRoutes
           /\ \A s, t \in Range(Available) : s.name = t.name => s = t
           /\ Available \in Seq(Range(Available))
<1> DEFINE Kind == [name : Sources!Names, routes : Seq(Sources!AllRoutes)]
<1>1. Available \in Seq(Kind)
    BY DEF Sources!SourcesAssumption
<1>2. ASSUME NEW s \in Range(Available) PROVE s \in Kind
    <2> HIDE DEF Kind
    <2>1. PICK i \in DOMAIN Available : s = Available[i]
        BY DEF Range
    <2>2. QED
        BY <1>1, <2>1
<1>3. ASSUME NEW s \in Range(Available)
      PROVE  Range(s.routes) \subseteq Sources!AllRoutes
    <2>1. s.routes \in Seq(Sources!AllRoutes)
        BY <1>2
    <2>2. QED
        BY <2>1 DEF Range
<1>4. ASSUME NEW s \in Range(Available), NEW t \in Range(Available), s.name = t.name
      PROVE  s = t
    <2>1. PICK i \in DOMAIN Available : s = Available[i]
        BY DEF Range
    <2>2. PICK j \in DOMAIN Available : t = Available[j]
        BY DEF Range
    <2>3. i = j
        BY <1>4, <2>1, <2>2 DEF Sources!SourcesAssumption, Sources!IsInjective
    <2>4. QED
        BY <2>1, <2>2, <2>3
<1>5. Available \in Seq(Range(Available))
    BY <1>1 DEF Range
<1>6. QED
    BY <1>2, <1>3, <1>4, <1>5

\* listen is asked for sources of the project, once each when the names are.
LEMMA AskedSources ==
    ASSUME Sources!SourcesAssumption, NEW names \in Arguments
    PROVE  /\ Sources!Asked(names) \in Seq(Range(Available))
           /\ Sources!NamesOnce => IsInjective(Sources!Asked(names))
<1>1. CASE names = <<>>
    <2>1. Sources!Asked(names) = Available
        BY <1>1 DEF Sources!Asked
    <2>2. IsInjective(Available)
        BY DEF Sources!SourcesAssumption, Sources!IsInjective, IsInjective
    <2>3. QED
        BY <2>1, <2>2, SourceTypes
<1>2. CASE names # <<>>
    <2>1. names \in Seq(Sources!Names)
        BY DEF Sources!SourcesAssumption
    <2>2. ASSUME NEW i \in DOMAIN names
          PROVE  Sources!Called(names[i]) \in Range(Available) /\ Sources!Called(names[i]).name = names[i]
        <3>1. names[i] \in Sources!Names
            BY <2>1
        <3>2. PICK k \in DOMAIN Available : Available[k].name = names[i]
            BY <3>1 DEF Sources!Names, Sources!Range
        <3>3. QED
            BY <3>2 DEF Sources!Called, Range
    <2>3. Sources!Asked(names) = [i \in DOMAIN names |-> Sources!Called(names[i])]
        BY <1>2 DEF Sources!Asked
    <2>4. Sources!Asked(names) \in Seq(Range(Available))
        BY <2>1, <2>2, <2>3
    <2>5. ASSUME Sources!NamesOnce PROVE IsInjective(Sources!Asked(names))
        <3>1. IsInjective(names)
            BY <2>5 DEF Sources!NamesOnce, Sources!IsInjective, IsInjective
        <3>2. QED
            BY <2>2, <2>3, <3>1 DEF IsInjective
    <2>6. QED
        BY <2>4, <2>5
<1>3. QED
    BY <1>1, <1>2

\* The sources kept are found one asked for at a time.
LEMMA ResolvedStepwise ==
    ASSUME Sources!SourcesAssumption, NEW names \in Arguments
    PROVE  \E g \in [0..Len(Sources!Asked(names)) -> Seq(LiveSources)] :
              /\ g[0] = <<>>
              /\ \A i \in 1..Len(Sources!Asked(names)) :
                    g[i] = IF Sources!HasRoutes(Sources!Asked(names)[i])
                           THEN Append(g[i - 1], Sources!Asked(names)[i]) ELSE g[i - 1]
              /\ Sources!Resolved(names) = g[Len(Sources!Asked(names))]
<1> DEFINE asked == Sources!Asked(names)
           n == Len(asked)
           V == Seq(LiveSources)
           step == [x \in (1..n) \X V |->
                       IF Sources!HasRoutes(asked[x[1]]) THEN Append(x[2], asked[x[1]]) ELSE x[2]]
           Kept(f) == f = [i \in 0..n |->
                       IF i = 0 THEN <<>>
                       ELSE IF Sources!HasRoutes(asked[i]) THEN Append(f[i - 1], asked[i]) ELSE f[i - 1]]
<1>1. asked \in Seq(Range(Available)) /\ n \in Nat /\ <<>> \in V
    BY AskedSources
<1>2. step \in [(1..n) \X V -> V]
    <2> SUFFICES ASSUME NEW x \in (1..n) \X V PROVE step[x] \in V
        OBVIOUS
    <2>1. x[1] \in 1..n /\ x[2] \in V /\ asked[x[1]] \in Range(Available)
        BY <1>1
    <2>2. Sources!HasRoutes(asked[x[1]]) => asked[x[1]] \in LiveSources
        BY <2>1 DEF LiveSources, Sources!HasRoutes
    <2>3. QED
        BY <2>1, <2>2
<1>3. PICK f \in [0..n -> V] : f[0] = <<>> /\ \A i \in 1..n : f[i] = step[<<i, f[i - 1]>>]
    <2>0. SUFFICES \E f \in [0..n -> V] : GoesBy(f, n, <<>>, step)
        BY DEF GoesBy
    <2>1. n \in Nat /\ <<>> \in V
        BY <1>1
    <2> HIDE DEF V, n, step
    <2>2. QED
        BY <1>2, <2>1, PrefixRecursion
<1>4. Kept(f)
    <2>1. ASSUME NEW i \in 1..n
          PROVE  f[i] = IF Sources!HasRoutes(asked[i]) THEN Append(f[i - 1], asked[i]) ELSE f[i - 1]
        <3>1. f[i - 1] \in V
            BY <1>3
        <3>2. step[<<i, f[i - 1]>>]
                 = IF Sources!HasRoutes(asked[i]) THEN Append(f[i - 1], asked[i]) ELSE f[i - 1]
            BY <3>1
        <3>3. QED
            BY <1>3, <3>2
    <2> HIDE DEF asked, V, step
    <2>2. \A i \in 0..n : i # 0 => i \in 1..n
        BY <1>1
    <2>3. QED
        BY <1>1, <1>3, <2>1, <2>2
<1> DEFINE g == CHOOSE h : Kept(h)
<1>5. Kept(g)
    <2> HIDE DEF Kept
    <2>1. QED
        BY <1>4
<1>6. Sources!Resolved(names) = g[n]
    BY DEF Sources!Resolved
<1> HIDE DEF g
<1>7. /\ DOMAIN g = 0..n /\ g[0] = <<>>
      /\ \A i \in 1..n :
            g[i] = IF Sources!HasRoutes(asked[i]) THEN Append(g[i - 1], asked[i]) ELSE g[i - 1]
    <2>1. \A i \in 1..n : i \in 0..n /\ i # 0
        BY <1>1
    <2>2. 0 \in 0..n
        BY <1>1
    <2> HIDE DEF asked, n
    <2>3. QED
        BY <1>5, <2>1, <2>2
<1>8. g = f
    <2> DEFINE S == {m \in Nat : m <= n => g[m] = f[m]}
    <2>1. 0 \in S
        BY <1>1, <1>3, <1>7
    <2>2. ASSUME NEW m \in S PROVE m + 1 \in S
        <3> SUFFICES ASSUME m + 1 <= n PROVE g[m + 1] = f[m + 1]
            OBVIOUS
        <3>1. m + 1 \in 1..n /\ (m + 1) - 1 = m /\ m \in 0..n /\ m + 1 \in 0..n /\ m + 1 # 0
            BY <1>1
        <3>2. f[m + 1] = IF Sources!HasRoutes(asked[m + 1]) THEN Append(f[m], asked[m + 1]) ELSE f[m]
            <4> HIDE DEF asked, n, V, g
            <4>1. QED
                BY <1>4, <3>1
        <3>3. g[m] = f[m]
            BY <3>1
        <3> HIDE DEF asked, n, V, g, Kept, step, S
        <3>4. QED
            BY <1>7, <3>1, <3>2, <3>3
    <2>3. S = Nat
        <3>1. S \in SUBSET Nat
            OBVIOUS
        <3> HIDE DEF S
        <3>2. QED
            BY <2>1, <2>2, <3>1, SetInduction
    <2>4. \A i \in 0..n : g[i] = f[i]
        <3>1. \A i \in 0..n : i \in S
            <4> HIDE DEF S
            <4>1. QED
                BY <2>3, <1>1
        <3>2. QED
            BY <3>1, <1>1
    <2>5. g = [i \in 0..n |-> g[i]]
        <3> HIDE DEF asked
        <3>1. QED
            BY <1>5
    <2> HIDE DEF S, n, V, Kept, step, asked
    <2>6. QED
        BY <2>4, <2>5, <1>3
<1>9. QED
    BY <1>3, <1>6, <1>7, <1>8

\* The sources kept have routes, and are kept once each when the names are.
LEMMA KeptSources ==
    ASSUME Sources!SourcesAssumption, NEW names \in Arguments
    PROVE  /\ Sources!Resolved(names) \in Seq(LiveSources)
           /\ Sources!NamesOnce => IsInjective(Sources!Resolved(names))
<1> DEFINE asked == Sources!Asked(names)
           n == Len(asked)
<1>1. asked \in Seq(Range(Available)) /\ (Sources!NamesOnce => IsInjective(asked))
    BY AskedSources
<1>2. n \in Nat /\ DOMAIN asked = 1..n
    BY <1>1
<1>3. PICK g \in [0..n -> Seq(LiveSources)] :
          /\ g[0] = <<>>
          /\ \A i \in 1..n :
                g[i] = IF Sources!HasRoutes(asked[i]) THEN Append(g[i - 1], asked[i]) ELSE g[i - 1]
          /\ Sources!Resolved(names) = g[n]
    BY ResolvedStepwise
<1> HIDE DEF asked, n
<1> DEFINE P(m) == /\ \A k \in DOMAIN g[m] : \E i \in 1..m : g[m][k] = asked[i]
                   /\ Sources!NamesOnce => IsInjective(g[m])
           S == {m \in Nat : m <= n => P(m)}
<1>4. 0 \in S
    BY <1>3 DEF IsInjective
<1>5. ASSUME NEW m \in S PROVE m + 1 \in S
    <2> HIDE DEF P
    <2> SUFFICES ASSUME m + 1 <= n PROVE P(m + 1)
        OBVIOUS
    <2>p. P(m) /\ m \in Nat
        BY <1>2
    <2> USE DEF P
    <2>1. /\ m + 1 \in 1..n /\ m \in 0..n /\ g[m] \in Seq(LiveSources)
          /\ g[m + 1] = IF Sources!HasRoutes(asked[m + 1]) THEN Append(g[m], asked[m + 1]) ELSE g[m]
        BY <1>2, <1>3
    <2>2. /\ \A k \in DOMAIN g[m] : \E i \in 1..m : g[m][k] = asked[i]
          /\ Sources!NamesOnce => IsInjective(g[m])
        BY <2>p
    <2> HIDE DEF S
    <2>0. \A i \in 1..m : i \in 1..(m + 1)
        BY <2>p
    <2>3. CASE g[m + 1] = g[m]
        BY <2>2, <2>3, <2>0
    <2>4. CASE g[m + 1] = Append(g[m], asked[m + 1])
        <3> DEFINE s == g[m]
                   e == asked[m + 1]
                   t == Append(s, e)
        <3>1. /\ DOMAIN t = 1..(Len(s) + 1) /\ DOMAIN s = 1..Len(s) /\ Len(s) \in Nat
              /\ t[Len(s) + 1] = e
              /\ \A k \in 1..Len(s) : t[k] = s[k]
            BY <2>1
        <3>2. \A k \in DOMAIN t : \E i \in 1..(m + 1) : t[k] = asked[i]
            <4> SUFFICES ASSUME NEW k \in DOMAIN t PROVE \E i \in 1..(m + 1) : t[k] = asked[i]
                OBVIOUS
            <4>1. CASE k = Len(s) + 1
                <5>1. t[k] = asked[m + 1] /\ m + 1 \in 1..(m + 1)
                    BY <2>p, <3>1, <4>1
                <5>2. QED
                    BY <5>1
            <4>2. CASE k \in DOMAIN s
                <5>1. PICK i \in 1..m : s[k] = asked[i]
                    BY <2>2, <4>2
                <5>2. t[k] = asked[i] /\ i \in 1..(m + 1)
                    <6>1. t[k] = s[k]
                        <7> HIDE DEF t, s
                        <7>1. QED
                            BY <3>1, <4>2
                    <6>2. QED
                        BY <2>0, <5>1, <6>1
                <5>3. QED
                    BY <5>2
            <4>3. QED
                BY <3>1, <4>1, <4>2
        <3>3. ASSUME Sources!NamesOnce PROVE IsInjective(t)
            <4>1. ASSUME NEW k \in 1..Len(s) PROVE s[k] # e
                <5>1. PICK i \in 1..m : s[k] = asked[i]
                    BY <2>2, <3>1
                <5>2. i \in DOMAIN asked /\ m + 1 \in DOMAIN asked /\ i # m + 1
                    BY <1>2, <2>1
                <5>3. QED
                    BY <1>1, <3>3, <5>1, <5>2 DEF IsInjective
            <4>2. IsInjective(s)
                BY <2>2, <3>3
            <4> HIDE DEF s, e, t
            <4>3. QED
                BY <3>1, <4>1, <4>2 DEF IsInjective
        <3>4. QED
            BY <2>4, <3>2, <3>3
    <2>5. QED
        BY <2>1, <2>3, <2>4
<1>6. S = Nat
    <2>1. S \in SUBSET Nat
        OBVIOUS
    <2> HIDE DEF S
    <2>2. QED
        BY <1>4, <1>5, <2>1, SetInduction
<1>7. n \in S
    <2> HIDE DEF S
    <2>1. QED
        BY <1>2, <1>6
<1>8. QED
    BY <1>2, <1>3, <1>7

\* FlattenSeq puts one sequence after the other.
LEMMA FlattenStepwise ==
    ASSUME NEW R, NEW seqs \in Seq(Seq(R))
    PROVE  \E f \in [0..Len(seqs) -> Seq(R)] :
              /\ f[0] = <<>>
              /\ \A i \in 1..Len(seqs) : f[i] = f[i - 1] \o seqs[i]
              /\ Sources!FlattenSeq(seqs) = f[Len(seqs)]
<1> DEFINE n == Len(seqs)
           V == Seq(R)
           step == [x \in (1..n) \X V |-> x[2] \o seqs[x[1]]]
           Flatten(h) == h = [i \in 1..n |-> IF i = 1 THEN seqs[i] ELSE h[i - 1] \o seqs[i]]
           flatten == CHOOSE h : Flatten(h)
<1>1. n \in Nat /\ <<>> \in V /\ \A i \in 1..n : seqs[i] \in V
    OBVIOUS
<1>2. step \in [(1..n) \X V -> V]
    BY <1>1
<1>3. PICK f \in [0..n -> V] : f[0] = <<>> /\ \A i \in 1..n : f[i] = f[i - 1] \o seqs[i]
    <2>1. PICK f \in [0..n -> V] : GoesBy(f, n, <<>>, step)
        <3> HIDE DEF V, n, step
        <3>1. QED
            BY <1>1, <1>2, PrefixRecursion
    <2>2. ASSUME NEW i \in 1..n PROVE f[i] = f[i - 1] \o seqs[i]
        <3>1. i - 1 \in 0..n
            BY <1>1
        <3>2. f[i] = step[<<i, f[i - 1]>>]
            BY <2>1 DEF GoesBy
        <3>3. f[i - 1] \in V
            BY <3>1, <2>1
        <3> HIDE DEF V
        <3>4. QED
            BY <3>2, <3>3
    <2>3. QED
        BY <2>1, <2>2 DEF GoesBy
<1>4. CASE n = 0
    <2>1. seqs = <<>>
        BY <1>4
    <2>2. Sources!FlattenSeq(seqs) = f[0]
        BY <1>3, <1>4, <2>1 DEF Sources!FlattenSeq
    <2>3. QED
        BY <1>3, <1>4, <2>2
<1>5. CASE n # 0
    <2> DEFINE h == [i \in 1..n |-> f[i]]
    <2>1. Flatten(h)
        <3>1. ASSUME NEW i \in 1..n
              PROVE  f[i] = IF i = 1 THEN seqs[i] ELSE h[i - 1] \o seqs[i]
            <4>1. CASE i = 1
                <5>1. f[1] = f[1 - 1] \o seqs[1] /\ seqs[1] \in V
                    BY <1>1, <1>3, <4>1
                <5>2. 1 - 1 = 0
                    OBVIOUS
                <5>3. f[1] = <<>> \o seqs[1]
                    BY <5>1, <5>2, <1>3
                <5>4. QED
                    BY <4>1, <5>1, <5>3
            <4>2. CASE i # 1
                <5>1. i - 1 \in 1..n
                    BY <1>1, <4>2
                <5>2. QED
                    BY <1>3, <4>2, <5>1
            <4>3. QED
                BY <4>1, <4>2
        <3>2. QED
            BY <3>1
    <2>2. Flatten(flatten)
        <3> HIDE DEF Flatten
        <3>1. QED
            BY <2>1
    <2> HIDE DEF flatten
    <2>3. /\ flatten = [i \in 1..n |-> flatten[i]]
          /\ \A i \in 1..n : flatten[i] = IF i = 1 THEN seqs[i] ELSE flatten[i - 1] \o seqs[i]
        <3> HIDE DEF n
        <3>1. QED
            BY <2>2
    <2> DEFINE S == {m \in Nat : m + 1 <= n => flatten[m + 1] = f[m + 1]}
    <2>4. 0 \in S
        <3>1. 1 \in 1..n
            BY <1>1, <1>5
        <3>2. f[1] = seqs[1]
            BY <2>1, <3>1
        <3>3. flatten[1] = seqs[1]
            <4> HIDE DEF n
            <4>1. QED
                BY <2>3, <3>1
        <3>4. QED
            BY <3>2, <3>3
    <2>5. ASSUME NEW m \in S PROVE m + 1 \in S
        <3> SUFFICES ASSUME m + 2 <= n PROVE flatten[m + 2] = f[m + 2]
            BY <1>1
        <3>1. m + 2 \in 1..n /\ m + 2 # 1 /\ (m + 2) - 1 = m + 1 /\ m + 1 <= n
            BY <1>1
        <3>2. flatten[m + 1] = f[m + 1]
            BY <3>1
        <3>3. flatten[m + 2] = flatten[m + 1] \o seqs[m + 2]
            <4> HIDE DEF S, n
            <4>1. QED
                BY <2>3, <3>1
        <3>4. f[m + 2] = f[m + 1] \o seqs[m + 2]
            BY <1>3, <3>1
        <3>5. QED
            BY <3>2, <3>3, <3>4
    <2>6. S = Nat
        <3>1. S \in SUBSET Nat
            OBVIOUS
        <3> HIDE DEF S
        <3>2. QED
            BY <2>4, <2>5, <3>1, SetInduction
    <2>7. n - 1 \in S
        <3> HIDE DEF S
        <3>1. QED
            BY <1>1, <1>5, <2>6
    <2>8. flatten[n] = f[n]
        BY <1>1, <2>7
    <2>9. Sources!FlattenSeq(seqs) = flatten[n]
        BY <1>5 DEF Sources!FlattenSeq, flatten
    <2>10. QED
        BY <1>3, <2>8, <2>9
<1>6. QED
    BY <1>4, <1>5

RoutesOnce(rows) == \A a, b \in DOMAIN rows : rows[a].route = rows[b].route => a = b

\* "a source's routes are adjacent"
Together(rows) ==
    \A a, b, c \in DOMAIN rows :
        a < b /\ b < c /\ rows[a].source = rows[c].source => rows[b].source = rows[a].source

\* A source's rows, put after others.
LEMMA RowsAfter ==
    ASSUME Sources!SourcesAssumption, NEW s \in LiveSources, NEW rows \in Seq(Row)
    PROVE  /\ RowsOf(s) \in Seq(Row)
           /\ rows \o RowsOf(s) \in Seq(Row)
           /\ DOMAIN rows = 1..Len(rows) /\ Len(rows) \in Nat
           /\ DOMAIN s.routes = 1..Len(s.routes) /\ Len(s.routes) \in Nat
           /\ DOMAIN (rows \o RowsOf(s)) = 1..(Len(rows) + Len(s.routes))
           /\ \A k \in DOMAIN rows : (rows \o RowsOf(s))[k] = rows[k]
           /\ \A j \in DOMAIN s.routes : (rows \o RowsOf(s))[Len(rows) + j] = RowOf(s, j)
<1>1. /\ s.name \in Sources!Names /\ s.routes \in Seq(Sources!AllRoutes)
    BY SourceTypes DEF LiveSources
<1>2. ASSUME NEW j \in DOMAIN s.routes PROVE RowOf(s, j) \in Row
    <2>1. s.routes[j] \in Sources!AllRoutes
        BY <1>1
    <2>2. QED
        BY <1>1, <2>1 DEF RowOf, Row
<1>3. /\ RowsOf(s) \in Seq(Row) /\ Len(RowsOf(s)) = Len(s.routes)
      /\ \A j \in DOMAIN s.routes : RowsOf(s)[j] = RowOf(s, j)
    <2>1. DOMAIN s.routes = 1..Len(s.routes) /\ Len(s.routes) \in Nat
        BY <1>1
    <2>2. QED
        BY <1>2, <2>1 DEF RowsOf
<1> DEFINE t == RowsOf(s)
           n == Len(s.routes)
<1>4. t \in Seq(Row) /\ Len(t) = n /\ DOMAIN s.routes = 1..n /\ n \in Nat
    BY <1>1, <1>3
<1> HIDE DEF t, n
<1>5. /\ rows \o t \in Seq(Row)
      /\ DOMAIN (rows \o t) = 1..(Len(rows) + n)
      /\ \A k \in DOMAIN rows : (rows \o t)[k] = rows[k]
      /\ \A j \in 1..n : (rows \o t)[Len(rows) + j] = t[j]
    BY <1>4
<1>6. QED
    BY <1>3, <1>4, <1>5 DEF t, n

\* Rows of a source that no earlier row is of: its routes stay adjacent, and no
\* route is there twice.
LEMMA RowsStayTogether ==
    ASSUME Sources!SourcesAssumption, NEW s \in LiveSources, NEW rows \in Seq(Row),
           RoutesOnce(rows), Together(rows),
           \A k \in DOMAIN rows : rows[k].source # s.name /\ rows[k].route \notin Range(s.routes)
    PROVE  RoutesOnce(rows \o RowsOf(s)) /\ Together(rows \o RowsOf(s))
<1> DEFINE t == rows \o RowsOf(s)
           m == Len(rows)
           n == Len(s.routes)
<1>1. /\ m \in Nat /\ n \in Nat /\ DOMAIN rows = 1..m /\ DOMAIN s.routes = 1..n
      /\ DOMAIN t = 1..(m + n)
    BY RowsAfter
<1>2. /\ \A k \in 1..m : t[k] = rows[k] /\ t[k].source # s.name /\ t[k].route \notin Range(s.routes)
      /\ \A k \in DOMAIN t : k > m => t[k] = RowOf(s, k - m) /\ k - m \in 1..n
    <2>1. ASSUME NEW k \in DOMAIN t, k > m PROVE t[k] = RowOf(s, k - m) /\ k - m \in 1..n
        <3>1. k - m \in 1..n /\ m + (k - m) = k
            BY <1>1, <2>1
        <3>2. \A j \in DOMAIN s.routes : t[m + j] = RowOf(s, j)
            BY RowsAfter
        <3> HIDE DEF t, m, n
        <3>3. t[m + (k - m)] = RowOf(s, k - m)
            BY <1>1, <3>1, <3>2
        <3>4. QED
            BY <3>1, <3>3
    <2>2. \A k \in DOMAIN rows : t[k] = rows[k]
        BY RowsAfter
    <2> HIDE DEF t, m, n
    <2>3. QED
        BY <1>1, <2>1, <2>2
<1> HIDE DEF t, m, n
<1>3. \A k \in DOMAIN t : k > m =>
          t[k].source = s.name /\ t[k].route = s.routes[k - m] /\ t[k].route \in Range(s.routes)
    BY <1>1, <1>2 DEF RowOf, Range
<1>4. RoutesOnce(t)
    <2> SUFFICES ASSUME NEW a \in DOMAIN t, NEW b \in DOMAIN t, t[a].route = t[b].route
                 PROVE  a = b
        BY DEF RoutesOnce
    <2>1. CASE a <= m /\ b <= m
        BY <1>1, <1>2, <2>1 DEF RoutesOnce
    <2>2. CASE a > m /\ b > m
        <3>1. /\ a - m \in DOMAIN s.routes /\ b - m \in DOMAIN s.routes
              /\ s.routes[a - m] = s.routes[b - m]
            BY <1>1, <1>2, <1>3, <2>2
        <3>2. IsInjective(s.routes)
            BY DEF Sources!SourcesAssumption, Sources!IsInjective, IsInjective, LiveSources,
                   Sources!Range, Range
        <3>3. a - m = b - m
            BY <3>1, <3>2 DEF IsInjective
        <3>4. QED
            BY <1>1, <3>3
    <2>3. CASE a <= m /\ b > m
        BY <1>1, <1>2, <1>3, <2>3
    <2>4. CASE a > m /\ b <= m
        BY <1>1, <1>2, <1>3, <2>4
    <2>5. QED
        BY <1>1, <2>1, <2>2, <2>3, <2>4
<1>5. Together(t)
    <2> SUFFICES ASSUME NEW a \in DOMAIN t, NEW b \in DOMAIN t, NEW c \in DOMAIN t,
                        a < b, b < c, t[a].source = t[c].source
                 PROVE  t[b].source = t[a].source
        BY DEF Together
    <2>1. CASE c <= m
        BY <1>1, <1>2, <2>1 DEF Together
    <2>2. CASE c > m
        <3>1. a > m
            BY <1>1, <1>2, <1>3, <2>2
        <3>2. QED
            BY <1>1, <1>3, <3>1
    <2>3. QED
        BY <1>1, <2>1, <2>2
<1>6. QED
    BY <1>4, <1>5 DEF t

\* bannerRoutes lists every route of the kept sources and no other: each once and
\* each source's together, if no source is kept twice.
LEMMA RowsListed ==
    ASSUME Sources!SourcesAssumption, NEW kept \in Seq(LiveSources)
    PROVE  /\ Sources!BannerRoutes(kept) \in Seq(Row)
           /\ ListsOf(Sources!BannerRoutes(kept), kept)
           /\ IsInjective(kept) =>
                 /\ RoutesOnce(Sources!BannerRoutes(kept))
                 /\ Together(Sources!BannerRoutes(kept))
<1> DEFINE n == Len(kept)
           seqs == [i \in DOMAIN kept |-> RowsOf(kept[i])]
<1>1. n \in Nat /\ DOMAIN kept = 1..n
    OBVIOUS
<1>2. \A i \in 1..n : kept[i] \in LiveSources /\ RowsOf(kept[i]) \in Seq(Row)
    <2>1. ASSUME NEW i \in 1..n PROVE kept[i] \in LiveSources /\ RowsOf(kept[i]) \in Seq(Row)
        <3>1. kept[i] \in LiveSources /\ <<>> \in Seq(Row)
            OBVIOUS
        <3>2. QED
            BY <3>1, RowsAfter
    <2>2. QED
        BY <2>1
<1>3. seqs \in Seq(Seq(Row)) /\ Len(seqs) = n /\ \A i \in 1..n : seqs[i] = RowsOf(kept[i])
    BY <1>1, <1>2
<1>4. Sources!BannerRoutes(kept) = Sources!FlattenSeq(seqs)
    BY DEF Sources!BannerRoutes, RowsOf, RowOf
<1>5. PICK f \in [0..n -> Seq(Row)] :
          /\ f[0] = <<>>
          /\ \A i \in 1..n : f[i] = f[i - 1] \o RowsOf(kept[i])
          /\ Sources!BannerRoutes(kept) = f[n]
    <2> HIDE DEF seqs
    <2>1. PICK f \in [0..Len(seqs) -> Seq(Row)] :
              /\ f[0] = <<>>
              /\ \A i \in 1..Len(seqs) : f[i] = f[i - 1] \o seqs[i]
              /\ Sources!FlattenSeq(seqs) = f[Len(seqs)]
        BY <1>3, FlattenStepwise
    <2>2. QED
        BY <1>3, <1>4, <2>1
<1> HIDE DEF n, seqs
<1> DEFINE Of(k, i, m) ==
               f[m][k].source = kept[i].name /\ f[m][k].route \in Range(kept[i].routes)
           P1(m) == \A k \in DOMAIN f[m] : \E i \in 1..m : Of(k, i, m)
           P2(m) == \A i \in 1..m : \A r \in Range(kept[i].routes) : \E k \in DOMAIN f[m] :
                       f[m][k].source = kept[i].name /\ f[m][k].route = r
           P3(m) == IsInjective(kept) => RoutesOnce(f[m]) /\ Together(f[m])
           P(m) == P1(m) /\ P2(m) /\ P3(m)
           S == {m \in Nat : m <= n => P(m)}
<1>6. 0 \in S
    BY <1>5 DEF RoutesOnce, Together
<1>7. ASSUME NEW m \in S PROVE m + 1 \in S
    <2> HIDE DEF P
    <2> SUFFICES ASSUME m + 1 <= n PROVE P(m + 1)
        OBVIOUS
    <2>1. P(m) /\ m \in Nat /\ m + 1 \in 1..n /\ m \in 0..n /\ \A i \in 1..m : i \in 1..n
        BY <1>1
    <2>2. P1(m) /\ P2(m) /\ P3(m)
        BY <2>1 DEF P
    <2> DEFINE s == kept[m + 1]
               rows == f[m]
               t == rows \o RowsOf(s)
    <2>3. f[m + 1] = t /\ s \in LiveSources /\ rows \in Seq(Row)
        <3>1. (m + 1) - 1 = m
            BY <2>1
        <3>2. f[m + 1] = f[(m + 1) - 1] \o RowsOf(kept[m + 1])
            <4> HIDE DEF S
            <4>1. QED
                BY <1>5, <2>1
        <3>3. f[m] \in Seq(Row) /\ kept[m + 1] \in LiveSources
            <4> HIDE DEF S
            <4>1. QED
                BY <1>2, <1>5, <2>1
        <3>4. QED
            BY <3>1, <3>2, <3>3
    <2>4. /\ DOMAIN rows = 1..Len(rows) /\ Len(rows) \in Nat
          /\ DOMAIN s.routes = 1..Len(s.routes) /\ Len(s.routes) \in Nat
          /\ DOMAIN t = 1..(Len(rows) + Len(s.routes))
          /\ \A k \in DOMAIN rows : t[k] = rows[k]
          /\ \A j \in DOMAIN s.routes : t[Len(rows) + j] = RowOf(s, j)
        <3> HIDE DEF s, rows
        <3>1. QED
            BY <2>3, RowsAfter
    <2> HIDE DEF s, rows, t, S
    <2>5. P1(m + 1)
        <3> SUFFICES ASSUME NEW k \in DOMAIN t
                     PROVE  \E i \in 1..(m + 1) :
                               t[k].source = kept[i].name /\ t[k].route \in Range(kept[i].routes)
            BY <2>3
        <3>1. CASE k \in DOMAIN rows
            <4>1. PICK i \in 1..m : rows[k].source = kept[i].name /\ rows[k].route \in Range(kept[i].routes)
                BY <2>2, <3>1 DEF rows
            <4>2. i \in 1..(m + 1) /\ t[k] = rows[k]
                BY <2>1, <2>4, <3>1
            <4>3. QED
                BY <4>1, <4>2
        <3>2. CASE k \notin DOMAIN rows
            <4>1. k - Len(rows) \in DOMAIN s.routes /\ Len(rows) + (k - Len(rows)) = k
                BY <2>4, <3>2
            <4>2. t[k] = RowOf(s, k - Len(rows))
                BY <2>4, <4>1
            <4>3. t[k].source = s.name /\ t[k].route \in Range(s.routes)
                BY <4>1, <4>2 DEF RowOf, Range
            <4>4. m + 1 \in 1..(m + 1)
                BY <2>1
            <4>5. QED
                BY <4>3, <4>4 DEF s
        <3>3. QED
            BY <3>1, <3>2
    <2>6. P2(m + 1)
        <3> SUFFICES ASSUME NEW i \in 1..(m + 1), NEW r \in Range(kept[i].routes)
                     PROVE  \E k \in DOMAIN t : t[k].source = kept[i].name /\ t[k].route = r
            BY <2>3
        <3>1. CASE i \in 1..m
            <4>1. PICK k \in DOMAIN rows : rows[k].source = kept[i].name /\ rows[k].route = r
                BY <2>2, <3>1 DEF rows
            <4>2. k \in DOMAIN t /\ t[k] = rows[k]
                BY <2>4
            <4>3. QED
                BY <4>1, <4>2
        <3>2. CASE i = m + 1
            <4>1. PICK j \in DOMAIN s.routes : s.routes[j] = r
                BY <3>2 DEF Range, s
            <4>2. Len(rows) + j \in DOMAIN t /\ t[Len(rows) + j] = RowOf(s, j)
                BY <2>4
            <4>3. t[Len(rows) + j].source = s.name /\ t[Len(rows) + j].route = r
                BY <4>1, <4>2 DEF RowOf
            <4>4. QED
                BY <3>2, <4>2, <4>3 DEF s
        <3>3. QED
            BY <2>1, <3>1, <3>2
    <2>7. P3(m + 1)
        <3> SUFFICES ASSUME IsInjective(kept) PROVE RoutesOnce(t) /\ Together(t)
            BY <2>3
        <3>1. RoutesOnce(rows) /\ Together(rows)
            BY <2>2 DEF rows
        <3>2. ASSUME NEW k \in DOMAIN rows
              PROVE  rows[k].source # s.name /\ rows[k].route \notin Range(s.routes)
            <4>1. PICK i \in 1..m : rows[k].source = kept[i].name /\ rows[k].route \in Range(kept[i].routes)
                BY <2>2 DEF rows
            <4>2. kept[i] # s
                <5>1. i \in DOMAIN kept /\ m + 1 \in DOMAIN kept /\ i # m + 1
                    BY <1>1, <2>1
                <5>2. QED
                    BY <5>1 DEF IsInjective, s
            <4>3. kept[i] \in Range(Available) /\ s \in Range(Available)
                BY <1>2, <2>1, <2>3 DEF LiveSources
            <4>4. kept[i].name # s.name
                BY <4>2, <4>3, SourceTypes
            <4>5. Range(kept[i].routes) \cap Range(s.routes) = {}
                BY <4>2, <4>3 DEF Sources!SourcesAssumption, Sources!Range, Range
            <4>6. QED
                BY <4>1, <4>4, <4>5
        <3>3. QED
            BY <2>3, <3>1, <3>2, RowsStayTogether DEF t
    <2>8. QED
        BY <2>5, <2>6, <2>7 DEF P
<1>8. S = Nat
    <2>1. S \in SUBSET Nat
        OBVIOUS
    <2> HIDE DEF S
    <2>2. QED
        BY <1>6, <1>7, <2>1, SetInduction
<1>9. P(n)
    <2>1. n \in S
        <3> HIDE DEF S
        <3>1. QED
            BY <1>1, <1>8
    <2> HIDE DEF P
    <2>2. QED
        BY <1>1, <2>1
<1>10. f[n] \in Seq(Row)
    <2> HIDE DEF P
    <2>1. n \in 0..n
        BY <1>1
    <2>2. QED
        BY <1>5, <2>1
<1>11. ListsOf(f[n], kept)
    BY <1>1, <1>9 DEF ListsOf
<1>12. IsInjective(kept) => RoutesOnce(f[n]) /\ Together(f[n])
    BY <1>9
<1>13. QED
    <2> HIDE DEF P
    <2>1. QED
        BY <1>5, <1>10, <1>11, <1>12

\* The rows' requests are added up one row at a time.
LEMMA CountedStepwise ==
    ASSUME NEW rows \in Seq(Row), NEW by \in [Sources!AllRoutes -> Nat]
    PROVE  \E f \in [0..Len(rows) -> Nat] :
              /\ f[0] = 0
              /\ \A i \in 1..Len(rows) : f[i] = f[i - 1] + by[rows[i].route]
              /\ Sources!Counted(by, rows) = f[Len(rows)]
<1> DEFINE n == Len(rows)
           step == [x \in (1..n) \X Nat |-> x[2] + by[rows[x[1]].route]]
           UpTo(h) == h = [i \in 0..n |-> IF i = 0 THEN 0 ELSE h[i - 1] + by[rows[i].route]]
           upTo == CHOOSE h : UpTo(h)
<1>1. n \in Nat /\ \A i \in 1..n : by[rows[i].route] \in Nat
    <2>1. ASSUME NEW i \in 1..n PROVE rows[i].route \in Sources!AllRoutes
        <3>1. rows[i] \in Row
            OBVIOUS
        <3>2. QED
            BY <3>1 DEF Row
    <2>2. QED
        BY <2>1
<1>2. step \in [(1..n) \X Nat -> Nat]
    BY <1>1
<1>3. PICK f \in [0..n -> Nat] : f[0] = 0 /\ \A i \in 1..n : f[i] = f[i - 1] + by[rows[i].route]
    <2>1. PICK f \in [0..n -> Nat] : GoesBy(f, n, 0, step)
        <3>1. 0 \in Nat
            OBVIOUS
        <3> HIDE DEF n, step
        <3>2. QED
            BY <1>1, <1>2, <3>1, PrefixRecursion
    <2>2. ASSUME NEW i \in 1..n PROVE f[i] = f[i - 1] + by[rows[i].route]
        <3>1. i - 1 \in 0..n
            BY <1>1
        <3>2. f[i] = step[<<i, f[i - 1]>>]
            BY <2>1 DEF GoesBy
        <3>3. f[i - 1] \in Nat
            BY <3>1, <2>1
        <3>4. QED
            BY <3>2, <3>3
    <2>3. QED
        BY <2>1, <2>2 DEF GoesBy
<1>4. UpTo(f)
    <2>1. \A i \in 0..n : i # 0 => i \in 1..n
        BY <1>1
    <2>2. \A i \in 0..n : f[i] = IF i = 0 THEN 0 ELSE f[i - 1] + by[rows[i].route]
        <3> HIDE DEF n
        <3>1. QED
            BY <1>3, <2>1
    <2> HIDE DEF n
    <2>3. QED
        BY <1>3, <2>2
<1>5. UpTo(upTo)
    <2> HIDE DEF UpTo
    <2>1. QED
        BY <1>4
<1>6. Sources!Counted(by, rows) = upTo[n]
    BY DEF Sources!Counted
<1> HIDE DEF upTo
<1>7. /\ upTo[0] = 0
      /\ \A i \in 1..n : upTo[i] = upTo[i - 1] + by[rows[i].route]
    <2>1. \A i \in 1..n : i \in 0..n /\ i # 0
        BY <1>1
    <2>2. 0 \in 0..n
        BY <1>1
    <2> HIDE DEF n
    <2>3. QED
        BY <1>5, <2>1, <2>2
<1> DEFINE S == {m \in Nat : m <= n => upTo[m] = f[m]}
<1>8. 0 \in S
    BY <1>3, <1>7
<1>9. ASSUME NEW m \in S PROVE m + 1 \in S
    <2> SUFFICES ASSUME m + 1 <= n PROVE upTo[m + 1] = f[m + 1]
        OBVIOUS
    <2>1. m + 1 \in 1..n /\ (m + 1) - 1 = m /\ m <= n
        BY <1>1
    <2>2. upTo[m] = f[m]
        BY <2>1
    <2>3. f[m + 1] = f[(m + 1) - 1] + by[rows[m + 1].route]
        <3> HIDE DEF S, n
        <3>1. QED
            BY <1>3, <2>1
    <2>4. upTo[m + 1] = upTo[(m + 1) - 1] + by[rows[m + 1].route]
        <3> HIDE DEF S, n
        <3>1. QED
            BY <1>7, <2>1
    <2> HIDE DEF S, n
    <2>5. QED
        BY <2>1, <2>2, <2>3, <2>4
<1>10. S = Nat
    <2>1. S \in SUBSET Nat
        OBVIOUS
    <2> HIDE DEF S
    <2>2. QED
        BY <1>8, <1>9, <2>1, SetInduction
<1>11. n \in S
    <2> HIDE DEF S
    <2>1. QED
        BY <1>1, <1>10
<1>12. upTo[n] = f[n]
    BY <1>1, <1>11
<1>13. QED
    BY <1>3, <1>6, <1>12

\* With no request counted, the rows add up to none.
LEMMA NoneCounted ==
    ASSUME NEW rows \in Seq(Row)
    PROVE  Sources!Counted([r \in Sources!AllRoutes |-> 0], rows) = 0
<1> DEFINE by == [r \in Sources!AllRoutes |-> 0]
           n == Len(rows)
<1>1. by \in [Sources!AllRoutes -> Nat] /\ n \in Nat
    OBVIOUS
<1>2. PICK f \in [0..n -> Nat] :
          /\ f[0] = 0
          /\ \A i \in 1..n : f[i] = f[i - 1] + by[rows[i].route]
          /\ Sources!Counted(by, rows) = f[n]
    <2> HIDE DEF by
    <2>1. QED
        BY <1>1, CountedStepwise
<1>3. \A i \in 1..n : rows[i].route \in Sources!AllRoutes
    <2>1. ASSUME NEW i \in 1..n PROVE rows[i].route \in Sources!AllRoutes
        <3>1. rows[i] \in Row
            OBVIOUS
        <3>2. QED
            BY <3>1 DEF Row
    <2>2. QED
        BY <2>1
<1> HIDE DEF n
<1> DEFINE S == {m \in Nat : m <= n => f[m] = 0}
<1>4. 0 \in S
    BY <1>2
<1>5. ASSUME NEW m \in S PROVE m + 1 \in S
    <2> SUFFICES ASSUME m + 1 <= n PROVE f[m + 1] = 0
        OBVIOUS
    <2>1. m + 1 \in 1..n /\ (m + 1) - 1 = m /\ f[m] = 0
        BY <1>1
    <2>2. by[rows[m + 1].route] = 0
        BY <1>3, <2>1
    <2> HIDE DEF by, S
    <2>3. f[m + 1] = f[(m + 1) - 1] + by[rows[m + 1].route]
        BY <1>2, <2>1
    <2>4. QED
        BY <2>1, <2>2, <2>3
<1>6. S = Nat
    <2>1. S \in SUBSET Nat
        OBVIOUS
    <2> HIDE DEF S
    <2>2. QED
        BY <1>4, <1>5, <2>1, SetInduction
<1>7. n \in S
    <2> HIDE DEF S
    <2>1. QED
        BY <1>1, <1>6
<1>8. QED
    BY <1>1, <1>2, <1>7

\* One request more of a route listed once is one more in all rows together.
LEMMA OneMoreCounted ==
    ASSUME NEW rows \in Seq(Row), RoutesOnce(rows), NEW by \in [Sources!AllRoutes -> Nat],
           NEW k \in DOMAIN rows
    PROVE  /\ Sources!Counted(by, rows) \in Nat
           /\ Sources!Counted([by EXCEPT ![rows[k].route] = @ + 1], rows)
                 = Sources!Counted(by, rows) + 1
<1> DEFINE more == [by EXCEPT ![rows[k].route] = @ + 1]
           n == Len(rows)
<1>1. n \in Nat /\ DOMAIN rows = 1..n
    OBVIOUS
<1>2. \A i \in 1..n : rows[i].route \in Sources!AllRoutes
    <2>1. ASSUME NEW i \in 1..n PROVE rows[i].route \in Sources!AllRoutes
        <3>1. rows[i] \in Row
            OBVIOUS
        <3>2. QED
            BY <3>1 DEF Row
    <2>2. QED
        BY <2>1
<1>3. /\ more \in [Sources!AllRoutes -> Nat]
      /\ \A i \in 1..n :
            more[rows[i].route] = by[rows[i].route] + IF i = k THEN 1 ELSE 0
    <2>1. more \in [Sources!AllRoutes -> Nat]
        BY <1>1, <1>2
    <2>2. ASSUME NEW i \in 1..n
          PROVE  more[rows[i].route] = by[rows[i].route] + IF i = k THEN 1 ELSE 0
        <3>1. rows[i].route \in Sources!AllRoutes /\ by[rows[i].route] \in Nat
            BY <1>2
        <3>2. rows[i].route = rows[k].route => i = k
            BY <1>1 DEF RoutesOnce
        <3>3. CASE i = k
            BY <3>1, <3>3
        <3>4. CASE i # k
            BY <3>1, <3>2, <3>4
        <3>5. QED
            BY <3>3, <3>4
    <2>3. QED
        BY <2>1, <2>2
<1>4. PICK f \in [0..n -> Nat] :
          /\ f[0] = 0
          /\ \A i \in 1..n : f[i] = f[i - 1] + by[rows[i].route]
          /\ Sources!Counted(by, rows) = f[n]
    BY CountedStepwise
<1>5. PICK g \in [0..n -> Nat] :
          /\ g[0] = 0
          /\ \A i \in 1..n : g[i] = g[i - 1] + more[rows[i].route]
          /\ Sources!Counted(more, rows) = g[n]
    <2> HIDE DEF more
    <2>1. QED
        BY <1>3, CountedStepwise
<1> HIDE DEF n, more
<1> DEFINE S == {m \in Nat : m <= n => g[m] = f[m] + IF k <= m THEN 1 ELSE 0}
<1>6. 0 \in S
    BY <1>1, <1>4, <1>5
<1>7. ASSUME NEW m \in S PROVE m + 1 \in S
    <2> SUFFICES ASSUME m + 1 <= n PROVE g[m + 1] = f[m + 1] + IF k <= m + 1 THEN 1 ELSE 0
        OBVIOUS
    <2>1. /\ m + 1 \in 1..n /\ (m + 1) - 1 = m /\ m \in 0..n /\ k \in 1..n
          /\ g[m] = f[m] + IF k <= m THEN 1 ELSE 0
        BY <1>1
    <2> HIDE DEF S
    <2>2. f[m + 1] = f[m] + by[rows[m + 1].route] /\ g[m + 1] = g[m] + more[rows[m + 1].route]
        BY <1>4, <1>5, <2>1
    <2>3. more[rows[m + 1].route] = by[rows[m + 1].route] + IF m + 1 = k THEN 1 ELSE 0
        BY <1>3, <2>1
    <2>4. f[m] \in Nat /\ by[rows[m + 1].route] \in Nat
        BY <1>2, <1>4, <2>1
    <2>5. QED
        BY <2>1, <2>2, <2>3, <2>4
<1>8. S = Nat
    <2>1. S \in SUBSET Nat
        OBVIOUS
    <2> HIDE DEF S
    <2>2. QED
        BY <1>6, <1>7, <2>1, SetInduction
<1>9. n \in S
    <2> HIDE DEF S
    <2>1. QED
        BY <1>1, <1>8
<1>10. g[n] = f[n] + 1 /\ f[n] \in Nat
    BY <1>1, <1>4, <1>9
<1>11. QED
    BY <1>4, <1>5, <1>10 DEF more

FirstsOf(rows) == {i \in DOMAIN rows : i = 1 \/ rows[i - 1].source # rows[i].source}

SourcesOf(rows) == {r.source : r \in Range(rows)}

\* With each source's rows together, as many rows are a source's first as there
\* are sources.
LEMMA FirstsCountSources ==
    ASSUME NEW rows \in Seq(Row), Together(rows)
    PROVE  Cardinality(FirstsOf(rows)) = Cardinality(SourcesOf(rows))
<1> DEFINE g == [i \in FirstsOf(rows) |-> rows[i].source]
           n == Len(rows)
<1>1. n \in Nat /\ DOMAIN rows = 1..n /\ FirstsOf(rows) \subseteq 1..n
    BY DEF FirstsOf
<1>2. g \in [FirstsOf(rows) -> SourcesOf(rows)]
    BY <1>1 DEF SourcesOf, Range, FirstsOf
<1>3. ASSUME NEW i \in FirstsOf(rows), NEW j \in FirstsOf(rows), i < j
      PROVE  rows[i].source # rows[j].source
    <2> SUFFICES ASSUME rows[i].source = rows[j].source PROVE FALSE
        OBVIOUS
    <2>1. i \in 1..n /\ j \in 1..n /\ j # 1 /\ j - 1 \in 1..n
        BY <1>1, <1>3
    <2>2. rows[j - 1].source # rows[j].source
        BY <2>1 DEF FirstsOf
    <2>3. CASE i = j - 1
        BY <2>2, <2>3
    <2>4. CASE i < j - 1
        <3>1. i \in DOMAIN rows /\ j \in DOMAIN rows /\ j - 1 \in DOMAIN rows /\ j - 1 < j
            BY <1>1, <2>1
        <3>2. rows[j - 1].source = rows[i].source
            BY <2>4, <3>1 DEF Together
        <3>3. QED
            BY <2>2, <3>2
    <2>5. QED
        BY <1>3, <2>1, <2>3, <2>4
<1>4. \A i, j \in FirstsOf(rows) : g[i] = g[j] => i = j
    <2> SUFFICES ASSUME NEW i \in FirstsOf(rows), NEW j \in FirstsOf(rows), i # j
                 PROVE  rows[i].source # rows[j].source
        OBVIOUS
    <2>1. i \in Nat /\ j \in Nat
        BY <1>1
    <2>2. CASE i < j
        BY <1>3, <2>2
    <2>3. CASE j < i
        BY <1>3, <2>3
    <2>4. QED
        BY <2>1, <2>2, <2>3
<1>5. ASSUME NEW s \in SourcesOf(rows) PROVE \E i \in FirstsOf(rows) : g[i] = s
    <2> DEFINE A == {i \in 1..n : rows[i].source = s}
    <2>1. PICK k \in 1..n : rows[k].source = s
        BY <1>1 DEF SourcesOf, Range
    <2>2. PICK i \in A : \A j \in A : i <= j
        <3> SUFFICES ASSUME \A i \in A : \E j \in A : j < i PROVE FALSE
            OBVIOUS
        <3> DEFINE B == {m \in Nat : \A i \in A : i > m}
        <3>1. 0 \in B
            BY <1>1
        <3>2. ASSUME NEW m \in B PROVE m + 1 \in B
            <4> SUFFICES ASSUME NEW i \in A PROVE i > m + 1
                OBVIOUS
            <4>1. PICK j \in A : j < i
                OBVIOUS
            <4>2. j > m /\ j \in Nat /\ i \in Nat
                BY <1>1
            <4>3. QED
                BY <4>1, <4>2
        <3>3. B = Nat
            <4>1. B \in SUBSET Nat
                OBVIOUS
            <4> HIDE DEF B
            <4>2. QED
                BY <3>1, <3>2, <4>1, SetInduction
        <3>4. k \in B
            <4> HIDE DEF B
            <4>1. QED
                BY <3>3
        <3>5. k \in A
            BY <2>1
        <3>6. QED
            BY <3>4, <3>5
    <2>3. i \in 1..n /\ rows[i].source = s
        OBVIOUS
    <2>4. i = 1 \/ rows[i - 1].source # s
        <3> SUFFICES ASSUME i # 1, rows[i - 1].source = s PROVE FALSE
            OBVIOUS
        <3>1. i - 1 \in 1..n /\ i - 1 < i
            BY <1>1, <2>3
        <3>2. i - 1 \in A
            BY <3>1
        <3> HIDE DEF A
        <3>3. QED
            BY <2>2, <2>3, <3>1, <3>2
    <2>5. i \in FirstsOf(rows)
        BY <1>1, <2>3, <2>4 DEF FirstsOf
    <2>6. QED
        BY <2>3, <2>5
<1>6. ExistsBijection(FirstsOf(rows), SourcesOf(rows))
    <2>1. g \in Injection(FirstsOf(rows), SourcesOf(rows))
        BY <1>2, <1>4 DEF Injection, IsInjective
    <2>2. g \in Surjection(FirstsOf(rows), SourcesOf(rows))
        BY <1>2, <1>5 DEF Surjection
    <2>3. QED
        BY <2>1, <2>2 DEF ExistsBijection, Bijection
<1>7. IsFiniteSet(FirstsOf(rows))
    <2>1. IsFiniteSet(1..n)
        BY <1>1, FS_Interval
    <2>2. QED
        BY <1>1, <2>1, FS_Subset
<1>8. QED
    BY <1>6, <1>7, FS_Bijection

\* A table of five lines or more, as high as TableHeight makes it, has room for
\* its titles, the selected row and the totals.
LEMMA SelectedIsShown ==
    ASSUME Sources!TypeOK, Sources!SourcesAssumption, routes # <<>>
    PROVE  Sources!SelectedRouteIsShown
<1> SUFFICES ASSUME Sources!Panes(sourcesHeight, sourcesOthers) >= 5
             PROVE  Sources!SelectedShows /\ Sources!TotalsShow
    BY DEF Sources!SelectedRouteIsShown
<1> DEFINE panes == Sources!Panes(sourcesHeight, sourcesOthers)
           n == Len(routes)
           t == Sources!Table
<1>1. n \in Nat /\ n >= 1 /\ route \in 0..n - 1
    BY DEF Sources!TypeOK
<1>2. panes \in Nat /\ panes >= 5
    <2>1. sourcesHeight \in Nat /\ sourcesOthers \in Int
        BY DEF Sources!TypeOK, Sources!SourcesAssumption
    <2>2. QED
        BY <2>1 DEF Sources!Panes, Sources!Most
<1> HIDE DEF panes, n
<1>3. t \in Nat /\ t >= 5 /\ t <= n + 4
    <2>1. panes \div 2 \in Nat
        BY <1>2
    <2>2. t = Sources!TableHeight(panes, n)
        BY DEF Sources!Table, panes, n
    <2>3. QED
        BY <1>1, <1>2, <2>1, <2>2 DEF Sources!TableHeight, Sources!Least, Sources!Most
<1> HIDE DEF t
<1>4. Sources!TableRows(t) = t - 4
    BY <1>3 DEF Sources!TableRows, Sources!Most
<1>5. /\ Sources!First = IF route >= t - 4 THEN route - (t - 4) + 1 ELSE 0
      /\ Sources!RowsListed = IF n - Sources!First < t - 4 THEN n - Sources!First ELSE t - 4
    BY <1>4 DEF Sources!First, Sources!RowsListed, t, n
<1>6. /\ Sources!First \in Nat /\ Sources!First <= route /\ route < Sources!First + (t - 4)
      /\ Sources!RowsListed = t - 4
    BY <1>1, <1>3, <1>5
<1>7. Sources!TableLines = t - 2
    BY <1>3, <1>6 DEF Sources!TableLines
<1>8. Sources!PanelShows(t, t - 2) = t - 2
    BY <1>3 DEF Sources!PanelShows
<1>9. Sources!TotalsShow
    BY <1>3, <1>7, <1>8 DEF Sources!TotalsShow, t
<1>10. Sources!SelectedShows
    <2>1. Sources!PanelShows(Sources!Table, Sources!TableLines) = t - 2
        BY <1>7, <1>8 DEF t
    <2>2. QED
        BY <1>1, <1>3, <1>6, <2>1 DEF Sources!SelectedShows
<1>11. QED
    BY <1>9, <1>10

\* The routes are listed once each and together, and each request is counted in
\* a row or as unmatched.
SourcesInv ==
    /\ Sources!TypeOK
    /\ routes \in Seq(Row) /\ routes # <<>> /\ unmatched \in Nat
    /\ Sources!NamesOnce =>
          /\ RoutesOnce(routes) /\ Together(routes)
          /\ total = Sources!Counted(counts, routes) + unmatched

LEMMA CountsAreNumbers ==
    ASSUME SourcesInv, Sources!SourcesAssumption
    PROVE  /\ counts \in [Sources!AllRoutes -> Nat] /\ total \in Nat
           /\ \A k \in DOMAIN routes : routes[k].route \in Sources!AllRoutes
           /\ 1 \in DOMAIN routes
<1>1. total \in Nat /\ counts \in [Sources!AllRoutes -> 0..total]
    BY DEF SourcesInv, Sources!TypeOK
<1>2. counts \in [Sources!AllRoutes -> Nat]
    BY <1>1
<1>3. routes \in Seq(Row) /\ routes # <<>>
    BY DEF SourcesInv
<1>4. ASSUME NEW k \in DOMAIN routes PROVE routes[k].route \in Sources!AllRoutes
    <2>1. routes[k] \in Row
        BY <1>3
    <2>2. QED
        BY <2>1 DEF Row
<1>5. QED
    BY <1>1, <1>2, <1>3, <1>4

\* What the invariant says of the page's counts.
LEMMA CountsAreRight ==
    ASSUME SourcesInv, Sources!SourcesAssumption, Sources!NamesOnce
    PROVE  Sources!UnmatchedAreCounted /\ Sources!SourcesAreCountedOnce
<1>1. /\ RoutesOnce(routes) /\ Together(routes) /\ routes \in Seq(Row)
      /\ total = Sources!Counted(counts, routes) + unmatched /\ unmatched \in Nat
    BY DEF SourcesInv
<1>2. Sources!Matched \in Nat /\ total = Sources!Matched + unmatched
    <2>1. Sources!Counted(counts, routes) \in Nat
        BY <1>1, CountsAreNumbers, OneMoreCounted
    <2>2. QED
        BY <1>1, <2>1 DEF Sources!Matched
<1>3. Sources!UnmatchedAreCounted
    BY <1>1, <1>2 DEF Sources!UnmatchedAreCounted, Sources!UnmatchedShown
<1>4. \A S : Sources!Cardinality(S) = Cardinality(S)
    BY Zenon DEF Sources!Cardinality, Cardinality
<1>5. {i \in DOMAIN routes : Sources!FirstOfSource(i)} = FirstsOf(routes)
    BY DEF FirstsOf, Sources!FirstOfSource
<1>6. {r.source : r \in Sources!Range(routes)} = SourcesOf(routes)
    BY DEF SourcesOf, Range, Sources!Range
<1>7. Sources!SourcesAreCountedOnce
    <2>1. Cardinality(FirstsOf(routes)) = Cardinality(SourcesOf(routes))
        BY <1>1, FirstsCountSources
    <2>2. Sources!SourcesCounted = Cardinality(FirstsOf(routes))
        BY <1>4, <1>5 DEF Sources!SourcesCounted
    <2>3. QED
        BY <1>4, <1>6, <2>1, <2>2 DEF Sources!SourcesAreCountedOnce
<1>8. QED
    BY <1>3, <1>7

LEMMA SourcesInit ==
    ASSUME Sources!Init, Sources!SourcesAssumption
    PROVE  SourcesInv
<1>1. PICK names \in Arguments :
          routes = Sources!BannerRoutes(Sources!Resolved(names)) /\ routes # <<>>
    BY DEF Sources!Init
<1> DEFINE kept == Sources!Resolved(names)
<1>2. kept \in Seq(LiveSources) /\ (Sources!NamesOnce => IsInjective(kept))
    BY KeptSources
<1>3. /\ routes \in Seq(Row) /\ ListsOf(routes, kept)
      /\ Sources!NamesOnce => RoutesOnce(routes) /\ Together(routes)
    <2> HIDE DEF kept
    <2>1. QED
        BY <1>1, <1>2, RowsListed DEF kept
<1> HIDE DEF kept
<1>4. /\ route = 0 /\ sourcesHeight \in SourcesHeights /\ sourcesOthers \in 1..MaxSourcesOthers
      /\ counts = [r \in Sources!AllRoutes |-> 0] /\ total = 0 /\ unmatched = 0
    BY DEF Sources!Init
<1>5. \A s \in Sources!Range(Available) :
          (\E i \in DOMAIN routes : routes[i].source = s.name)
              => Sources!Range(s.routes) \subseteq {routes[i].route : i \in DOMAIN routes}
    <2> SUFFICES ASSUME NEW s \in Range(Available), NEW i \in DOMAIN routes,
                        routes[i].source = s.name, NEW r \in Range(s.routes)
                 PROVE  \E k \in DOMAIN routes : routes[k].route = r
        BY DEF Sources!Range, Range
    <2>1. PICK j \in DOMAIN kept : routes[i].source = kept[j].name
        BY <1>3 DEF ListsOf
    <2>2. kept[j] \in Range(Available)
        BY <1>2 DEF LiveSources
    <2>3. kept[j] = s
        BY <2>1, <2>2, SourceTypes
    <2>4. QED
        BY <1>3, <2>3 DEF ListsOf
<1>6. Sources!TypeOK
    <2>1. MaxRequests \in Nat
        BY DEF Sources!SourcesAssumption
    <2>2. 0 \in 0..Len(routes) - 1 /\ 0 \in 0..MaxRequests
        BY <1>1, <1>3, <2>1
    <2>3. counts \in [Sources!AllRoutes -> 0..total]
        BY <1>4
    <2>4. QED
        BY <1>3, <1>4, <1>5, <2>2, <2>3 DEF Sources!TypeOK, Row
<1>7. Sources!Counted(counts, routes) = 0
    BY <1>3, <1>4, NoneCounted
<1>8. QED
    BY <1>1, <1>3, <1>4, <1>6, <1>7 DEF SourcesInv

\* A recorded request counts where its route is listed.
LEMMA SourcesRecord ==
    ASSUME SourcesInv, Sources!SourcesAssumption, NEW r, Sources!Record(r)
    PROVE  SourcesInv'
<1>1. /\ counts \in [Sources!AllRoutes -> Nat] /\ total \in Nat
      /\ \A k \in DOMAIN routes : routes[k].route \in Sources!AllRoutes
      /\ 1 \in DOMAIN routes
    BY CountsAreNumbers
<1>2. /\ total < MaxRequests /\ total' = total + 1
      /\ UNCHANGED <<routes, route, sourcesHeight, sourcesOthers>>
      /\ counts' = IF Sources!KnownRoute(r) THEN [counts EXCEPT ![r] = @ + 1] ELSE counts
      /\ unmatched' = IF Sources!KnownRoute(r) THEN unmatched ELSE unmatched + 1
    BY DEF Sources!Record
<1>3. counts' \in [Sources!AllRoutes -> 0..total']
    <2>1. counts \in [Sources!AllRoutes -> 0..total]
        BY DEF SourcesInv, Sources!TypeOK
    <2>2. \A a \in Sources!AllRoutes : counts[a] \in 0..total' /\ counts[a] + 1 \in 0..total'
        BY <1>1, <1>2, <2>1
    <2>3. QED
        BY <1>1, <1>2, <2>1, <2>2
<1>4. total' \in 0..MaxRequests
    <2>1. MaxRequests \in Nat
        BY DEF Sources!SourcesAssumption
    <2>2. QED
        BY <1>1, <1>2, <2>1
<1>5. Sources!TypeOK'
    BY <1>2, <1>3, <1>4 DEF SourcesInv, Sources!TypeOK
<1>6. unmatched' \in Nat
    BY <1>2 DEF SourcesInv
<1>7. ASSUME Sources!NamesOnce
      PROVE  total' = Sources!Counted(counts', routes') + unmatched'
    <2>1. /\ RoutesOnce(routes) /\ routes \in Seq(Row) /\ unmatched \in Nat
          /\ total = Sources!Counted(counts, routes) + unmatched
        BY <1>7 DEF SourcesInv
    <2>2. Sources!Counted(counts, routes) \in Nat
        BY <1>1, <2>1, OneMoreCounted
    <2>3. CASE Sources!KnownRoute(r)
        <3>1. PICK k \in DOMAIN routes : routes[k].route = r
            BY <2>3 DEF Sources!KnownRoute
        <3>2. Sources!Counted([counts EXCEPT ![routes[k].route] = @ + 1], routes)
                 = Sources!Counted(counts, routes) + 1
            BY <1>1, <2>1, OneMoreCounted
        <3>3. Sources!Counted(counts', routes') = Sources!Counted(counts, routes) + 1
            BY <1>2, <2>3, <3>1, <3>2
        <3>4. QED
            BY <1>1, <1>2, <2>1, <2>2, <2>3, <3>3
    <2>4. CASE ~Sources!KnownRoute(r)
        <3>1. Sources!Counted(counts', routes') = Sources!Counted(counts, routes)
            BY <1>2, <2>4
        <3>2. QED
            BY <1>1, <1>2, <2>1, <2>2, <2>4, <3>1
    <2>5. QED
        BY <2>3, <2>4
<1>8. QED
    BY <1>2, <1>5, <1>6, <1>7 DEF SourcesInv

\* Moving along the routes, and a resize, leave the routes and the counts.
LEMMA SourcesMove ==
    ASSUME SourcesInv, Sources!SourcesAssumption,
           \/ Sources!Up \/ Sources!Down \/ Sources!Resize \/ UNCHANGED Sources!vars
    PROVE  SourcesInv'
<1>1. UNCHANGED <<routes, counts, total, unmatched>>
    BY DEF Sources!Up, Sources!Down, Sources!Resize, Sources!Select, Sources!vars
<1>2. /\ route' \in 0..Len(routes) - 1
      /\ sourcesHeight' \in SourcesHeights /\ sourcesOthers' \in 1..MaxSourcesOthers
    <2>1. /\ routes \in Seq(Row) /\ route \in 0..Len(routes) - 1
          /\ sourcesHeight \in SourcesHeights /\ sourcesOthers \in 1..MaxSourcesOthers
        BY DEF SourcesInv, Sources!TypeOK
    <2>2. Len(routes) \in Nat
        BY <2>1
    <2>3. CASE Sources!Up
        BY <2>1, <2>2, <2>3 DEF Sources!Up, Sources!Select
    <2>4. CASE Sources!Down
        BY <2>1, <2>2, <2>4 DEF Sources!Down, Sources!Select
    <2>5. CASE Sources!Resize \/ UNCHANGED Sources!vars
        BY <2>1, <2>5 DEF Sources!Resize, Sources!vars
    <2>6. QED
        BY <2>3, <2>4, <2>5
<1>3. Sources!TypeOK'
    BY <1>1, <1>2 DEF SourcesInv, Sources!TypeOK
<1>4. QED
    BY <1>1, <1>3 DEF SourcesInv

\* Whatever sources listen is given and whatever the screen's height, the selected
\* route and the totals are on screen when the panes have five lines, no route of a
\* listed source is left out, and, with every source named once, the unmatched count
\* is exact and each source is counted once.
THEOREM SourcesCorrect ==
    ASSUME Sources!SourcesAssumption
    PROVE  Sources!Spec => []SelectedRouteIsShown
<1>1. Sources!Init => SourcesInv
    BY SourcesInit
<1>2. SourcesInv /\ [Sources!Next]_(Sources!vars) => SourcesInv'
    <2> SUFFICES ASSUME SourcesInv, [Sources!Next]_(Sources!vars) PROVE SourcesInv'
        OBVIOUS
    <2>1. CASE \E r \in Sources!AllRoutes \cup {""} : Sources!Record(r)
        BY <2>1, SourcesRecord
    <2>2. CASE Sources!Up \/ Sources!Down \/ Sources!Resize \/ UNCHANGED Sources!vars
        BY <2>2, SourcesMove
    <2>3. QED
        BY <2>1, <2>2 DEF Sources!Next
<1>3. SourcesInv => Sources!TypeOK /\ Sources!SelectedRouteIsShown
    BY SelectedIsShown DEF SourcesInv
<1>4. SourcesInv /\ Sources!NamesOnce =>
          Sources!UnmatchedAreCounted /\ Sources!SourcesAreCountedOnce
    BY CountsAreRight
<1>5. SourcesInv => SelectedRouteIsShown
    BY <1>3, <1>4 DEF SelectedRouteIsShown
<1>6. QED
    BY <1>1, <1>2, <1>5, PTL DEF Sources!Spec
=============================================================================
