------------------------------- MODULE Screen -------------------------------
(* internal/tui/fullscreen.go and sources.go: the full-screen view's pages,   *)
(* prompts, alerts and toasts, and the keys that open and close them.  The    *)
(* filter line, the Sources page and its copy prompt each take the keys while *)
(* they are open; replies, timers and connection events come at any moment.   *)
(* The request list below them is RequestList's, w's wait TargetWait's.       *)
EXTENDS Integers, Sequences, FiniteSetsExt

CONSTANTS
    Forwarding,      \* listen runs with --forward-to
    RouteCount,      \* the routes listened to
    ToastFor,        \* toastDuration, in ticks
    MaxToasts,       \* bound: toasts shown
    MaxCommands,     \* bound: commands run off the event loop
    Outages          \* the outages, in order, in seconds

ScreenAssumption ==
    /\ Forwarding \in BOOLEAN
    /\ {RouteCount, ToastFor, MaxToasts, MaxCommands} \subseteq Nat
    /\ Outages \in Seq(Nat \ {0})

VARIABLES
    sources,              \* sourcesPage; its selected route counts from 0
    filter,               \* "none", "editing" or "applied"
    waiting,              \* w waits for the target
    reconnected,          \* the seconds offline the alert says, 0 without it
    notFound,             \* the root-404 hint is shown
    help,
    toast, toastID,       \* the toast's number, 0 without one; the last number
    timers,               \* the toasts' timers under way: [id, left]
    commands, started,    \* the commands under way; how many there were
    stopping,
    outages,              \* the outages so far
    \* History:
    dismissed,            \* the outages when the reconnect alert was dismissed
    age                   \* the ticks the toast has been shown

view == <<sources, filter, waiting, reconnected, notFound, help>>
toasts == <<toast, toastID, timers, age>>
running == <<commands, started>>
vars == <<view, toasts, running, stopping, outages, dismissed>>

Closed == [open |-> FALSE, selected |-> 0, copying |-> FALSE]

Alerts == reconnected # 0 \/ notFound

----------------------------------------------------------------------------
(* Toasts.                                                                  *)

StartTimer(id) == timers \cup {[id |-> id, left |-> ToastFor]}

\* show
Show ==
    /\ toastID < MaxToasts
    /\ toastID' = toastID + 1 /\ toast' = toastID + 1 /\ age' = 0
    /\ timers' = StartTimer(toastID + 1)

\* Mutant: any toast's timer ends the toast.
AnyTimer(t) == toast # 0

ItsTimer(t) == t.id = toastID

\* toastExpiredMsg: it may come late, and after those of later toasts.
ToastExpires(t) ==
    /\ t.left = 0
    /\ timers' = timers \ {t}
    /\ toast' = IF ItsTimer(t) THEN 0 ELSE toast
    /\ UNCHANGED <<view, toastID, age, running, stopping, outages, dismissed>>

Tick ==
    /\ \E t \in timers : t.left > 0
    /\ timers' = {[t EXCEPT !.left = IF @ > 0 THEN @ - 1 ELSE 0] : t \in timers}
    /\ age' = IF age < ToastFor THEN age + 1 ELSE age
    /\ UNCHANGED <<view, toast, toastID, running, stopping, outages, dismissed>>

----------------------------------------------------------------------------
(* The keys, and what each leaves alone.                                    *)

Quiet == UNCHANGED <<toasts, running, stopping, outages, dismissed>>
Quit == stopping' = TRUE /\ UNCHANGED <<view, toasts, running, outages, dismissed>>
ToggleHelp == help' = ~ help /\ UNCHANGED <<sources, filter, waiting, reconnected, notFound>> /\ Quiet
Say == Show /\ UNCHANGED <<view, running, stopping, outages, dismissed>>

\* A command off the event loop, whose reply comes later.
Run ==
    /\ started < MaxCommands
    /\ started' = started + 1 /\ commands' = commands + 1
    /\ UNCHANGED <<view, toasts, stopping, outages, dismissed>>

Filters(f) ==
    /\ filter' = f
    /\ UNCHANGED <<sources, waiting, reconnected, notFound, help>>
    /\ Quiet

\* editFilter: enter applies what was typed, and nothing typed is no filter.
EditFilter(key) ==
    \/ key = "enter" /\ \E f \in {"none", "applied"} : Filters(f)
    \/ key = "esc" /\ Filters("none")
    \/ key \notin {"enter", "esc"} /\ Filters("editing")

\* escape: w's wait, else the alerts, else the filter.
Escape ==
    \/ /\ waiting
       /\ waiting' = FALSE
       /\ UNCHANGED <<sources, filter, reconnected, notFound, help, dismissed>>
    \/ /\ ~ waiting /\ Alerts
       /\ reconnected' = 0 /\ notFound' = FALSE
       /\ dismissed' = outages
       /\ UNCHANGED <<sources, filter, waiting, help>>
    \/ /\ ~ waiting /\ ~ Alerts
       /\ filter' = "none"
       /\ UNCHANGED <<sources, waiting, reconnected, notFound, help, dismissed>>

Opens(page) ==
    /\ sources' = page
    /\ UNCHANGED <<filter, waiting, reconnected, notFound, help>>
    /\ Quiet

\* startWait, on a request that found nothing listening or not.
StartWait ==
    \/ Say
    \/ /\ Forwarding
       /\ waiting' \in {waiting, TRUE}
       /\ UNCHANGED <<sources, filter, reconnected, notFound, help>>
       /\ Quiet

\* key: r, c and e need a selected request.
RequestsKey(key) ==
    \/ key = "r" /\ IF Forwarding THEN Run ELSE Say
    \/ key \in {"c", "e", "t"} /\ Run
    \/ key = "?" /\ ToggleHelp
    \/ key = "q" /\ Quit
    \/ key = "/" /\ Filters("editing")
    \/ key = "w" /\ StartWait
    \/ key = "esc" /\ Escape /\ UNCHANGED <<toasts, running, stopping, outages>>
    \/ key = "s" /\ Opens([sources EXCEPT !.open = TRUE])

\* The copy prompt ends with the next key, whatever it is.
EndCopying(key) == sources' = [sources EXCEPT !.copying = FALSE]

\* copyField, of the selected route.
CopyKey(key) ==
    /\ EndCopying(key)
    /\ UNCHANGED <<filter, waiting, reconnected, notFound, help, running, stopping, outages, dismissed>>
    /\ IF key = "1" THEN Show ELSE UNCHANGED toasts

Clamp(n) == IF n > RouteCount - 1 THEN Max({0, RouteCount - 1}) ELSE Max({0, n})

\* sourcesKey
SourcesKey(key) ==
    \/ key = "up" /\ Opens([sources EXCEPT !.selected = Clamp(@ - 1)])
    \/ key = "down" /\ Opens([sources EXCEPT !.selected = Clamp(@ + 1)])
    \/ key = "c" /\ Opens([sources EXCEPT !.copying = RouteCount > 0])
    \/ key = "t" /\ RouteCount > 0 /\ Run
    \/ key \in {"esc", "s"} /\ Opens([sources EXCEPT !.open = FALSE])
    \/ key = "?" /\ ToggleHelp
    \/ key = "q" /\ Quit

Keys == {"up", "down", "r", "c", "e", "t", "?", "q", "/", "w", "esc", "s", "enter", "1"}

\* Keys go to the filter while it is typed, else to the open page.
Key(key) ==
    /\ IF filter = "editing" THEN EditFilter(key)
       ELSE IF ~ sources.open THEN RequestsKey(key)
       ELSE IF sources.copying THEN CopyKey(key) ELSE SourcesKey(key)

----------------------------------------------------------------------------
(* Messages.                                                                *)

\* A command ends, with a reply or a recorded replay's toast or with nothing.
Reply ==
    /\ commands > 0 /\ commands' = commands - 1
    /\ Show \/ UNCHANGED toasts
    /\ UNCHANGED <<view, started, stopping, outages, dismissed>>

SumOutages(offline) == reconnected + offline

Reconnected ==
    /\ Len(outages) < Len(Outages)
    /\ outages' = Append(outages, Outages[Len(outages) + 1])
    /\ reconnected' = SumOutages(Outages[Len(outages) + 1])
    /\ UNCHANGED <<sources, filter, waiting, notFound, help, toasts, running, stopping, dismissed>>

RootNotFound ==
    /\ notFound' = TRUE
    /\ UNCHANGED <<sources, filter, waiting, reconnected, help, toasts, running, stopping, outages, dismissed>>

\* waitReplayed
WaitEnds ==
    /\ waiting /\ waiting' = FALSE
    /\ UNCHANGED <<sources, filter, reconnected, notFound, help, toasts, running, stopping, outages, dismissed>>

Init ==
    /\ sources = Closed /\ filter = "none" /\ waiting = FALSE
    /\ reconnected = 0 /\ notFound = FALSE /\ help = FALSE
    /\ toast = 0 /\ toastID = 0 /\ timers = {} /\ age = 0
    /\ commands = 0 /\ started = 0 /\ stopping = FALSE
    /\ outages = <<>> /\ dismissed = <<>>

Next ==
    \/ ~ stopping /\ ((\E key \in Keys : Key(key)) \/ Reply \/ Reconnected \/ RootNotFound \/ WaitEnds)
    \/ Tick \/ \E t \in timers : ToastExpires(t)

\* Timers run and their messages are handled.
Fairness == WF_vars(Tick) /\ \A id \in 1..MaxToasts : WF_vars(\E t \in timers : t.id = id /\ ToastExpires(t))

Spec == Init /\ [][Next]_vars /\ Fairness

----------------------------------------------------------------------------
(* Properties.                                                              *)

\* Every variable has its type, and the Sources page selects a route there is.
TypeOK ==
    /\ sources \in [open : BOOLEAN, selected : 0..Max({0, RouteCount - 1}), copying : BOOLEAN]
    /\ filter \in {"none", "editing", "applied"}
    /\ reconnected \in Nat /\ toast \in {0, toastID} /\ toastID \in 0..MaxToasts
    /\ timers \subseteq [id : 1..toastID, left : 0..ToastFor]
    /\ {waiting, notFound, help, stopping} \subseteq BOOLEAN
    /\ commands \in 0..started /\ started \in 0..MaxCommands

\* One prompt at most takes the keys, and it is one on screen: the filter line on
\* the requests page, the copy prompt on a Sources page with routes.
OnePrompt ==
    /\ filter = "editing" => ~ sources.open
    /\ sources.copying => sources.open /\ RouteCount > 0

One(flag) == IF flag THEN 1 ELSE 0

\* What esc can take away.
Layers ==
    One(sources.open) + One(sources.copying) + One(waiting) + One(Alerts) + One(filter # "none")

\* Each esc takes one thing away, so as many presses as there are lead from
\* anywhere back to the whole list.
EscapeTakesOneLayer ==
    Key("esc") => IF Layers = 0 THEN Layers' = 0 ELSE Layers' = Layers - 1

Total(seconds) ==
    LET sum[i \in 0..Len(seconds)] == IF i = 0 THEN 0 ELSE sum[i - 1] + seconds[i]
    IN  sum[Len(seconds)]

\* "reconnected sums the outages until then": the alert says the whole time
\* offline since the last one the user dismissed, and is there if there was any.
AlertSumsOutages == reconnected = Total(outages) - Total(dismissed)

\* A toast ends, or another takes its place.
ToastsEnd == \A id \in 1..MaxToasts : toast = id ~> toast # id

\* And nothing but the user's next toast ends it earlier: not the timer of one it
\* replaced.
ToastsStay == toast # 0 /\ toast' = 0 => age = ToastFor
=============================================================================
