------------------------------ MODULE Terminal ------------------------------
(* internal/tui and cmd/listen.go's runInTerminal: the event loop, the      *)
(* goroutines whose events reach it through the session's sink, and the     *)
(* shutdown, whoever starts it.                                             *)
EXTENDS Integers, Sequences

CONSTANTS
    Replays,            \* goroutines that replay: tea's commands
    Listener, Updater,  \* listen, and announceUpdate's check
    Free,               \* Session.mu is unlocked
    MaxEvents           \* bound: events listen and the replays emit

Emitters == Replays \cup {Listener, Updater}

ASSUME EmittersAssumption ==
    /\ Listener \notin Replays \cup {Updater} /\ Updater \notin Replays
    /\ Free \notin Emitters
    /\ MaxEvents \in Nat

VARIABLES
    fullscreen,          \* the full-screen view, whose sink prints nothing
    loop,                \* the program: Program.Run's progress
    drawn,               \* the first frame is on the screen
    stopping, state,     \* Program.stopping; connection.state
    failed,              \* tea's Run returned an error
    cancelled,           \* listenContext is done
    mu, pc, event,       \* Session.mu; where each emitter is, and what it emits
    count,               \* events so far
    received,            \* what the loop received of the events: [id, part]
    result,              \* listen's error
    exit                 \* "running", or how the run ended

program == <<loop, drawn, stopping, state, failed, received>>
vars == <<fullscreen, program, cancelled, mu, pc, event, count, result, exit>>

\* The process is there: a second Ctrl-C ends it at once.
Alive == exit = "running"

Running == Alive /\ loop = "running"

\* p.finished is closed.
Finished == loop = "finished"

Goto(t, where) == pc' = [pc EXCEPT ![t] = where]

----------------------------------------------------------------------------
(* The event loop.                                                          *)

\* close(p.started), and tea's loop.
Run ==
    /\ Alive /\ loop = "off"
    /\ loop' = "running"
    /\ UNCHANGED <<fullscreen, drawn, stopping, state, failed, received, cancelled, mu, pc, event,
                   count, result, exit>>

\* canvas.Write, on the first frame.
Draw ==
    /\ Running /\ ~ drawn
    /\ drawn' = TRUE
    /\ UNCHANGED <<fullscreen, loop, stopping, state, failed, received, cancelled, mu, pc, event,
                   count, result, exit>>

Receive(t, part) == received' = Append(received, [id |-> event[t].id, part |-> part])

ReceivePrint(t) ==
    /\ Running /\ pc[t] = "printing"
    /\ Receive(t, "print")
    /\ Goto(t, "printed")
    /\ UNCHANGED <<fullscreen, loop, drawn, stopping, state, failed, cancelled, mu, event, count,
                   result, exit>>

\* connection.follow
Follow(new) == IF state \in {"stopping", "stopped"} THEN state ELSE new

\* Update's part of the connection.
StateAfter(kind) ==
    CASE kind = "Ready" -> Follow("live")
      [] kind = "ConnectionLost" -> Follow("offline")
      [] OTHER -> state

ReceiveEvent(t) ==
    /\ Running /\ pc[t] = "sending"
    /\ Receive(t, "event")
    /\ state' = StateAfter(event[t].kind)
    /\ Goto(t, "sent")
    /\ UNCHANGED <<fullscreen, loop, drawn, stopping, failed, cancelled, mu, event, count, result,
                   exit>>

\* Quit's two messages; only the stream's view takes the first.
ReceiveStopped ==
    /\ Running /\ pc[Listener] = "stopped"
    /\ state' = IF fullscreen THEN state ELSE "stopped"
    /\ Goto(Listener, "quit")
    /\ UNCHANGED <<fullscreen, loop, drawn, stopping, failed, received, cancelled, mu, event, count,
                   result, exit>>

ReceiveQuit ==
    /\ Running /\ pc[Listener] = "quit"
    /\ loop' = "ended"
    /\ Goto(Listener, "listened")
    /\ UNCHANGED <<fullscreen, drawn, stopping, state, failed, received, cancelled, mu, event, count,
                   result, exit>>

\* ctrlCFilter: the first Ctrl-C, or the view's own stopListening.
FirstCtrlC ==
    /\ Running /\ ~ stopping
    /\ stopping' = TRUE
    /\ cancelled' = TRUE
    /\ state' = "stopping"
    /\ UNCHANGED <<fullscreen, loop, drawn, failed, received, mu, pc, event, count, result, exit>>

\* The second Ctrl-C.
SecondCtrlC ==
    /\ Running /\ stopping
    /\ exit' = "killed"
    /\ UNCHANGED <<fullscreen, program, cancelled, mu, pc, event, count, result>>

\* tea's Run ends with a panic or an input failure.
Fail ==
    /\ Running
    /\ loop' = "ended"
    /\ failed' = TRUE
    /\ UNCHANGED <<fullscreen, drawn, stopping, state, received, cancelled, mu, pc, event, count,
                   result, exit>>

\* Run's p.stop() and then close(p.finished).
Close ==
    \/ /\ Alive /\ loop = "ended"
       /\ loop' = "closing"
       /\ cancelled' = TRUE
       /\ UNCHANGED <<fullscreen, drawn, stopping, state, failed, received, mu, pc, event, count,
                      result, exit>>
    \/ /\ Alive /\ loop = "closing"
       /\ loop' = "finished"
       /\ UNCHANGED <<fullscreen, drawn, stopping, state, failed, received, cancelled, mu, pc, event,
                      count, result, exit>>

\* A SIGINT or SIGTERM cancels main's context.
Signal ==
    /\ Alive /\ ~ cancelled
    /\ cancelled' = TRUE
    /\ UNCHANGED <<fullscreen, program, mu, pc, event, count, result, exit>>

----------------------------------------------------------------------------
(* Emitting an event: the session's lock, Println and Send.                 *)

CanLock == mu = Free

HasText(kind) == kind = "Recorded" /\ ~ fullscreen

Emit(t, kind) ==
    /\ Alive /\ CanLock
    /\ mu' = t
    /\ event' = [event EXCEPT ![t] = [id |-> count + 1, kind |-> kind]]
    /\ count' = count + 1
    /\ Goto(t, IF HasText(kind) THEN "print" ELSE "sending")
    /\ UNCHANGED <<fullscreen, program, cancelled, result, exit>>

\* The emitter's next place once the sink has answered.
AfterEmit(t, ok) ==
    CASE t \in Replays -> "done"
      [] t = Updater -> "done"
      [] t = Listener -> IF ok THEN "idle" ELSE "unwind"

Returns(t, ok) ==
    /\ mu' = Free
    /\ Goto(t, AfterEmit(t, ok))
    /\ result' = IF t = Listener /\ ~ ok
                 THEN IF cancelled THEN "cancelled" ELSE "closed" ELSE result
    /\ UNCHANGED <<fullscreen, program, cancelled, event, count, exit>>

\* Mutant: Println does not wait for the first frame.
PrintsEarly(t) ==
    \/ /\ Alive /\ pc[t] = "print"
       /\ Goto(t, "printing")
       /\ UNCHANGED <<fullscreen, program, cancelled, mu, event, count, result, exit>>
    \/ /\ Alive /\ pc[t] \in {"printing", "printed"} /\ Finished
       /\ Returns(t, FALSE)

\* Mutant: Println does not look whether the program has finished.
PrintsOrHangs(t) ==
    /\ Alive /\ pc[t] = "print" /\ drawn
    /\ Goto(t, "printing")
    /\ UNCHANGED <<fullscreen, program, cancelled, mu, event, count, result, exit>>

\* Println waits for the first frame, then for the loop to take the line, and
\* at each of the two for the end of the program: ErrClosed.
Println(t) ==
    \/ /\ Alive /\ pc[t] = "print" /\ drawn
       /\ Goto(t, "printing")
       /\ UNCHANGED <<fullscreen, program, cancelled, mu, event, count, result, exit>>
    \/ /\ Alive /\ pc[t] \in {"print", "printing", "printed"} /\ Finished
       /\ Returns(t, FALSE)

\* Printed: on to Send.
Printed(t) ==
    /\ Alive /\ pc[t] = "printed"
    /\ Goto(t, "sending")
    /\ UNCHANGED <<fullscreen, program, cancelled, mu, event, count, result, exit>>

\* Send returns once the loop has the event, or once tea has ended.
Send(t) ==
    /\ Alive
    /\ \/ pc[t] = "sent"
       \/ pc[t] = "sending" /\ loop \in {"ended", "closing", "finished"}
    /\ Returns(t, TRUE)

----------------------------------------------------------------------------
(* The emitters.                                                            *)

ListenerEmits ==
    /\ pc[Listener] = "idle" /\ count < MaxEvents
    /\ \E kind \in {"Ready", "ConnectionLost", "Recorded"} : Emit(Listener, kind)

\* superviseListen returns: cancelled, or with an error of its own.
ListenReturns ==
    /\ Alive /\ pc[Listener] = "idle"
    /\ result' \in (IF cancelled THEN {"cancelled"} ELSE {"fatal"})
    /\ Goto(Listener, "unwind")
    /\ UNCHANGED <<fullscreen, program, cancelled, mu, event, count, exit>>

ListenTo(where) ==
    /\ Alive
    /\ Goto(Listener, where)
    /\ UNCHANGED <<fullscreen, program, cancelled, mu, event, count, result, exit>>

\* Mutant: the check is cancelled and not waited for.
NoWait == pc[Listener] = "unwind" /\ ListenTo("stopped")

\* announceUpdate's stop: the check is cancelled and waited for.
StopCheck ==
    /\ pc[Listener] = "unwind"
    /\ pc[Updater] = "done"
    /\ ListenTo("stopped")

\* Quit, once tea has ended.
QuitEnded ==
    /\ pc[Listener] \in {"stopped", "quit"}
    /\ loop \in {"ended", "closing", "finished"}
    /\ ListenTo("listened")

\* The check finds a newer release, or not; it looks at the context before it
\* emits, and listen may return in between.
CheckDone ==
    /\ Alive /\ pc[Updater] = "checking"
    /\ \/ Goto(Updater, "done")
       \/ /\ ~ cancelled /\ pc[Listener] # "unwind"
          /\ Goto(Updater, "found")
    /\ UNCHANGED <<fullscreen, program, cancelled, mu, event, count, result, exit>>

UpdaterEmits == pc[Updater] = "found" /\ Emit(Updater, "UpdateAvailable")

\* A replay's forward has ended, also by the context, and it records.
ReplayEmits(t) == pc[t] = "idle" /\ count < MaxEvents /\ Emit(t, "Recorded")

\* runInTerminal: the program's error wins.
Exit ==
    /\ Alive /\ Finished /\ pc[Listener] = "listened"
    /\ exit' = IF failed THEN "failed" ELSE result
    /\ UNCHANGED <<fullscreen, program, cancelled, mu, pc, event, count, result>>

Init ==
    /\ fullscreen \in BOOLEAN
    /\ loop = "off" /\ drawn = FALSE
    /\ stopping = FALSE /\ state = "connecting" /\ failed = FALSE
    /\ cancelled = FALSE
    /\ mu = Free
    /\ pc = [t \in Emitters |-> IF t = Updater THEN "checking" ELSE "idle"]
    /\ event = [t \in Emitters |-> [id |-> 0, kind |-> "none"]]
    /\ count = 0 /\ received = <<>>
    /\ result = "none" /\ exit = "running"

Emitting(t) == Println(t) \/ Printed(t) \/ Send(t)
Receiving(t) == ReceivePrint(t) \/ ReceiveEvent(t)
Listening == ListenReturns \/ StopCheck \/ QuitEnded \/ ReceiveStopped \/ ReceiveQuit

Next ==
    \/ Run \/ Draw \/ FirstCtrlC \/ SecondCtrlC \/ Fail \/ Close \/ Signal
    \/ ListenerEmits \/ Listening
    \/ CheckDone \/ UpdaterEmits
    \/ \E t \in Emitters : Emitting(t) \/ Receiving(t)
    \/ \E t \in Replays : ReplayEmits(t)
    \/ Exit

Spec == Init /\ [][Next]_vars

\* Goroutines run, the loop draws and takes every message sent to it, the check
\* ends with its context, and superviseListen with listenContext.
Fairness ==
    /\ WF_vars(Run \/ Draw)
    /\ WF_vars(Close \/ Exit)
    /\ \A t \in Emitters : WF_vars(Emitting(t) \/ Receiving(t))
    /\ SF_vars(cancelled /\ ListenReturns)
    /\ WF_vars(StopCheck \/ QuitEnded \/ ReceiveStopped \/ ReceiveQuit)
    /\ SF_vars(CheckDone \/ UpdaterEmits)

FairSpec == Spec /\ Fairness

----------------------------------------------------------------------------
(* Properties.                                                              *)

Places == {"idle", "print", "printing", "printed", "sending", "sent", "done",
           "checking", "found", "unwind", "stopped", "quit", "listened"}

Holding(t) == pc[t] \in {"print", "printing", "printed", "sending", "sent"}

\* Every variable has its type, and whoever prints or sends holds Session.mu.
TypeOK ==
    /\ fullscreen \in BOOLEAN
    /\ loop \in {"off", "running", "ended", "closing", "finished"}
    /\ drawn \in BOOLEAN /\ stopping \in BOOLEAN /\ failed \in BOOLEAN
    /\ state \in {"connecting", "live", "offline", "stopping", "stopped"}
    /\ cancelled \in BOOLEAN
    /\ mu \in Emitters \cup {Free}
    /\ pc \in [Emitters -> Places]
    /\ \A t \in Emitters : Holding(t) <=> mu = t
    /\ event \in [Emitters -> [id : 0..(MaxEvents + 1),
                               kind : {"none", "Ready", "ConnectionLost", "Recorded", "UpdateAvailable"}]]
    /\ count \in 0..(MaxEvents + 1)
    /\ received \in Seq([id : 1..(MaxEvents + 1), part : {"print", "event"}])
    /\ result \in {"none", "cancelled", "fatal", "closed"}
    /\ exit \in {"running", "cancelled", "fatal", "closed", "failed", "killed"}

\* What the terminal receives is in the events' order, each card above the
\* status that counts it, and no card before the first frame, which would wipe
\* it away.
CardsInOrder ==
    /\ received # <<>> /\ ~ drawn => \A i \in 1..Len(received) : received[i].part = "event"
    /\ \A i, j \in 1..Len(received) : i < j =>
          \/ received[i].id < received[j].id
          \/ received[i].id = received[j].id /\ received[i].part = "print" /\ received[j].part = "event"

\* Every variable has its type.  Listening has stopped before output is closed,
\* so a card cut short never ends the run with an error of its own; no update
\* alert follows listening; and no connection event, however late, takes the
\* status back from stopping or, in a program that quits without the user's
\* asking, from stopped.
ShutdownIsClean ==
    /\ TypeOK
    /\ result # "closed" /\ exit # "closed"
    /\ pc[Listener] \in {"stopped", "quit", "listened"} => pc[Updater] = "done"
    /\ pc[Listener] = "listened" /\ ~ failed /\ ~ stopping /\ ~ fullscreen => state = "stopped"
    /\ stopping => state \in {"stopping", "stopped"}

\* "The final frame ends with an empty one": a program that quits once listening
\* has stopped does so in the stopped state, whose frame that is.
FinalFrameIsStopped ==
    Finished /\ pc[Listener] = "listened" /\ ~ failed /\ ~ fullscreen => state = "stopped"

\* A run that is stopped, by the user, a signal, a failed program or listen
\* itself, ends.
StoppingEndsTheRun ==
    cancelled \/ pc[Listener] = "unwind" \/ loop = "ended" ~> exit # "running"
=============================================================================
