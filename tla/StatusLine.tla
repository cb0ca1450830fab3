----------------------------- MODULE StatusLine -----------------------------
(* internal/tui/stream.go's status line, laid out by internal/cards: the      *)
(* connection's state, the project, the totals, and at its right end what     *)
(* listen has to say, in as many columns as the terminal has.  A text is its  *)
(* width in columns; one of no column is no text.                             *)
EXTENDS Integers, Sequences, FiniteSets, FiniteSetsExt

CONSTANTS
    Widths,          \* the terminal's widths
    Project,         \* the project's name
    Reasons,         \* why a connection drops; 0 is an error without a message
    Notices,         \* the joins' notices; 0 is none
    Update,          \* the update alert whole
    P50s,            \* latencies as the p50 is told
    MaxRequests      \* bound: requests recorded

UpdateShort == 18

\* The update alert is shorter when it only says that there is one.
StatusAssumption ==
    /\ Widths \subseteq Nat /\ Reasons \subseteq Nat /\ Notices \subseteq Nat
    /\ Project \in Nat /\ Update \in Nat /\ Update >= UpdateShort
    /\ P50s \subseteq Nat \ {0} /\ MaxRequests \in Nat

VARIABLES
    width,           \* 0 until the terminal says
    prompt,          \* the stream has a prompt of its own
    state, lost,     \* connection
    count,           \* the requests
    ok, failed,      \* those forwarded
    p50,             \* 0 until one of them got a response or timed out
    notice, update   \* the alerts

vars == <<width, prompt, state, lost, count, ok, failed, p50, notice, update>>

----------------------------------------------------------------------------
(* Alerts.                                                                  *)

Separator == 3
EndGap == 2
MinCut == 20

NoAlert == [whole |-> 0, short |-> 0, cut |-> FALSE]

NoticeAlert(text) == IF text = 0 THEN NoAlert ELSE [whole |-> text, short |-> 0, cut |-> TRUE]
HintAlert(hint) == [whole |-> hint, short |-> hint, cut |-> FALSE]
UpdateAlert == [whole |-> Update, short |-> UpdateShort, cut |-> FALSE]

Least(a, b) == IF a < b THEN a ELSE b
Most(a, b) == IF a > b THEN a ELSE b

\* fit: the widest form in so many columns.
Fit(alert, room) ==
    IF alert.whole <= room THEN alert.whole ELSE IF alert.short <= room THEN alert.short ELSE 0

\* shrunk
Shrunk(alert, room) ==
    IF alert.cut /\ room >= MinCut THEN Least(alert.whole, room)
    ELSE IF alert.short > room THEN 0 ELSE alert.short

\* Claim: the alert and the room left before it, on a line that keeps a first
\* part.
Claim(alert, columns, keep) ==
    LET room == columns - keep - EndGap
        claimed == IF Fit(alert, room) > 0 THEN Fit(alert, room) ELSE Shrunk(alert, room)
    IN  [alert |-> claimed, room |-> columns - claimed - EndGap]

----------------------------------------------------------------------------
(* The line.                                                                *)

StateWidth == CASE state = "live" -> 6 [] state = "offline" -> 14 [] state = "connecting" -> 13
                [] state = "stopping" -> 11 [] OTHER -> 9

\* The columns of a number.
Digits(n) == 1 + Cardinality({d \in 1..n : 10^d <= n})

\* The state, the project, the count, and once some are forwarded what they got,
\* and the p50.
Parts ==
    <<StateWidth, Project, Digits(count) + (IF count = 1 THEN 8 ELSE 9)>>
      \o (IF ok + failed > 0 THEN <<Digits(ok) + Digits(failed) + 13>> ELSE <<>>)
      \o (IF p50 > 0 THEN <<p50 + 4>> ELSE <<>>)

\* strings.Join
Joined(parts) ==
    LET upTo[i \in 0..Len(parts)] ==
            IF i = 0 THEN 0
            ELSE upTo[i - 1] + (IF i = 1 THEN parts[i] ELSE Separator + parts[i])
    IN  upTo[Len(parts)]

FirstParts(kept) == Joined(SubSeq(Parts, 1, kept))

\* statusHints
Hints == IF state \in {"stopping", "stopped"} \/ prompt THEN 0 ELSE 11

\* statusAlert
Alert ==
    CASE state = "stopped" -> NoAlert
      [] state = "stopping" -> HintAlert(IF prompt THEN 17 ELSE 11)
      [] OTHER -> IF notice # NoAlert THEN notice ELSE update

\* AtRightEnd: a line of some parts and the reason, and its end if it fits; what
\* is wider than the terminal is cut.
Line(kept, reason, end, columns) ==
    LET line == Joined(SubSeq(Parts, 1, kept) \o (IF reason > 0 THEN <<reason>> ELSE <<>>))
    IN  [kept |-> kept, line |-> line, reason |-> reason,
         end |-> IF end > 0 /\ columns - line - end >= EndGap THEN end ELSE 0]

\* As many details as fit come back.
Back(kept, alert, columns) ==
    Max({k \in kept..Len(Parts) : k = kept \/ FirstParts(k) + EndGap + alert <= columns})

\* Render while not offline: the details give way to the alert, then the count.
RenderLine(columns) ==
    LET beside == Fit(Alert, columns - FirstParts(3) - EndGap)
        instead == Shrunk(Alert, columns - FirstParts(2) - EndGap)
    IN  IF beside > 0 THEN Line(Back(3, beside, columns), 0, beside, columns)
        ELSE IF instead > 0 THEN Line(Back(2, instead, columns), 0, instead, columns)
        ELSE Line(Len(Parts), 0, Hints, columns)

\* Even beside the state and project alone the reason would be cut too short.
TooNarrow(columns) == columns - FirstParts(2) - Separator < Least(MinCut, lost)

\* Offline, the totals give way, last first, to the reason.
Offline(columns) ==
    LET all == Len(Parts)
        whole == Line(all, lost, 0, columns).line
        claim == Claim(Alert, columns, whole).alert
        fitting == {k \in 2..all : Line(k, lost, 0, columns).line <= columns}
    IN  IF claim > 0 THEN Line(all, lost, claim, columns)
        ELSE IF lost = 0 \/ whole <= columns THEN Line(all, lost, Hints, columns)
        ELSE IF TooNarrow(columns) THEN Line(all, lost, 0, columns)
        ELSE Line(Max({2} \cup fitting), lost, 0, columns)

Render(columns) == IF state = "offline" THEN Offline(columns) ELSE RenderLine(columns)

\* What shows of a line's reason.
ReasonShown(line, columns) ==
    IF line.reason = 0 THEN 0
    ELSE Most(0, Least(line.reason, columns - (line.line - line.reason)))

----------------------------------------------------------------------------
(* The steps: Update's messages.                                            *)

\* follow: the connection is followed until listening stops.
Follow(to, why) ==
    /\ \/ state \in {"stopping", "stopped"} /\ UNCHANGED <<state, lost>>
       \/ state \notin {"stopping", "stopped"} /\ state' = to /\ lost' = why
    /\ UNCHANGED <<width, prompt, count, ok, failed, p50, notice, update>>

Joins == Follow("live", 0)

Drops == \E why \in Reasons : Follow("offline", why)

\* A request, printed only or forwarded.
Record ==
    /\ count < MaxRequests /\ count' = count + 1
    /\ \/ UNCHANGED <<ok, failed, p50>>
       \/ /\ \/ ok' = ok + 1 /\ UNCHANGED failed
             \/ failed' = failed + 1 /\ UNCHANGED ok
          /\ p50' \in {p50} \cup P50s
    /\ UNCHANGED <<width, prompt, state, lost, notice, update>>

UpdateAvailable ==
    /\ update' = UpdateAlert
    /\ UNCHANGED <<width, prompt, state, lost, count, ok, failed, p50, notice>>

\* A join's notice, which may take the last one back.
Notice ==
    /\ \E text \in Notices : notice' = NoticeAlert(text)
    /\ UNCHANGED <<width, prompt, state, lost, count, ok, failed, p50, update>>

Stop ==
    /\ state' \in {"stopping", "stopped"}
    /\ UNCHANGED <<width, prompt, lost, count, ok, failed, p50, notice, update>>

Resize ==
    /\ width' \in Widths
    /\ UNCHANGED <<prompt, state, lost, count, ok, failed, p50, notice, update>>

Init ==
    /\ width = 0 /\ prompt \in BOOLEAN
    /\ state = "connecting" /\ lost = 0
    /\ count = 0 /\ ok = 0 /\ failed = 0 /\ p50 = 0
    /\ notice = NoAlert /\ update = NoAlert

Next == Joins \/ Drops \/ Record \/ UpdateAvailable \/ Notice \/ Stop \/ Resize

Spec == Init /\ [][Next]_vars

----------------------------------------------------------------------------
(* Properties.                                                              *)

\* Every variable has its type.
TypeOK ==
    /\ width \in Widths \cup {0} /\ prompt \in BOOLEAN
    /\ state \in {"connecting", "live", "offline", "stopping", "stopped"}
    /\ lost \in Reasons \cup {0} /\ (state \in {"connecting", "live"} => lost = 0)
    /\ count \in 0..MaxRequests /\ ok \in Nat /\ failed \in Nat /\ ok + failed <= count
    /\ p50 \in P50s \cup {0} /\ (p50 > 0 => ok + failed > 0)
    /\ notice \in {NoticeAlert(text) : text \in Notices \cup {0}}
    /\ update \in {NoAlert, UpdateAlert}

\* An alert is whole, in its short form or a notice of MinCut columns at least,
\* and never pushes what stays before it past the width: with an alert nothing
\* else on the line is cut.
AlertsAreReadable ==
    LET line == Render(width)
    IN  line.end > 0 =>
          /\ line.line + EndGap + line.end <= width
          /\ line.end # Hints =>
               \/ line.end \in {Alert.whole, Alert.short}
               \/ Alert.cut /\ line.end >= MinCut

\* "The details ... give way whole to the alert ...; then the count, but only to
\* the alert's short form or a notice": while not offline, an alert that has a
\* form for the room beside the state and project shows.
AlertsShowWhereTheyCan ==
    LET room == width - FirstParts(2) - EndGap
    IN  /\ state # "offline"
        /\ \/ Alert.short \in 1..room
           \/ Alert.cut /\ MinCut <= room
        => Render(width).end > 0

\* Offline "nothing gives way" to a reason that would be cut to fewer columns
\* than can be read, and the totals give way only as far as it needs.
ReasonsAreReadable ==
    LET line == Render(width)
    IN  state = "offline" /\ line.kept < Len(Parts) =>
          /\ ReasonShown(line, width) >= Least(MinCut, lost)
          /\ ReasonShown(line, width) < lost => line.kept = 2

\* A column more never takes the alert away, or a detail beside the same alert.
WiderShowsNoLess ==
    state # "offline" =>
        LET line == Render(width)
            wider == Render(width + 1)
            alert == Alert # NoAlert
        IN  alert => /\ line.end > 0 => wider.end >= line.end
                     /\ line.end = wider.end => wider.kept >= line.kept
=============================================================================
