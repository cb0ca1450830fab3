----------------------------- MODULE PlainMode -----------------------------
(* cmd/listen.go's runPlain: listen's events go to cards.Writer while lines *)
(* typed into the terminal run as commands, and either may end the run.     *)
EXTENDS Integers, Sequences

CONSTANTS
    Texts, NoText,   \* the server's notices, and none
    MaxLines,        \* bound: lines typed
    MaxJoins         \* bound: joins

ASSUME BoundsAssumption ==
    /\ MaxLines \in Nat /\ MaxJoins \in Nat
    /\ NoText \notin Texts /\ {"ready", "update"} \cap Texts = {}

VARIABLES
    typed, input,        \* lines in stdin, and whether more may come
    producer, scanned, scanResult,   \* the scanner, and producerResult
    lines,               \* the channel between the two
    consumer, hand, ran, commandsResult,   \* the commands, a received line, those run, consumerDone
    cancelled,           \* setup.ctx is done
    stopping,            \* lineCommandReader.Stop was called
    listen,              \* "joining", "listening", "failing", or how it ended
    ready, notice, alert,   \* Writer's state
    shown,               \* what it wrote
    told, updated,       \* the notices of the joins; a newer release was found
    exit                 \* "running", or how runPlain returned

commands == <<producer, scanned, scanResult, lines, consumer, hand, ran, commandsResult>>
writer == <<ready, notice, alert, shown>>
vars == <<typed, input, commands, cancelled, stopping, listen, writer, told, updated, exit>>

\* The commands' own context ends with its parent.
Done == cancelled \/ stopping

----------------------------------------------------------------------------
(* startLineCommands.                                                       *)

Type ==
    /\ input = "open" /\ typed < MaxLines
    /\ typed' = typed + 1
    /\ UNCHANGED <<input, commands, cancelled, stopping, listen, writer, told, updated, exit>>

\* Ctrl-D, or a read that fails.
EndInput ==
    /\ input = "open"
    /\ input' \in {"ended", "broken"}
    /\ UNCHANGED <<typed, commands, cancelled, stopping, listen, writer, told, updated, exit>>

ProducerEnds(how) ==
    /\ producer' = "ended"
    /\ scanResult' = how
    /\ UNCHANGED <<typed, input, scanned, lines, consumer, hand, ran, commandsResult, cancelled,
                   stopping, listen, writer, told, updated, exit>>

\* Scan returns a line, which is dropped once the context is done ...
Scan ==
    /\ producer = "scanning" /\ scanned < typed
    /\ scanned' = scanned + 1
    /\ IF Done THEN producer' = "ended" /\ scanResult' = "ok"
       ELSE producer' = "offering" /\ UNCHANGED scanResult
    /\ UNCHANGED <<typed, input, lines, consumer, hand, ran, commandsResult, cancelled,
                   stopping, listen, writer, told, updated, exit>>

\* ... or the end of the input, whose error only counts while commands run.
ScanEnds ==
    /\ producer = "scanning" /\ scanned = typed /\ input # "open"
    /\ ProducerEnds(IF input = "broken" /\ ~ Done THEN "failed" ELSE "ok")

HasRoom == lines = <<>>

Offer ==
    \/ /\ producer = "offering" /\ HasRoom
       /\ lines' = Append(lines, scanned)
       /\ producer' = "scanning"
       /\ UNCHANGED <<typed, input, scanned, scanResult, consumer, hand, ran, commandsResult,
                      cancelled, stopping, listen, writer, told, updated, exit>>
    \/ /\ producer = "offering" /\ Done
       /\ ProducerEnds("ok")

\* No line in hand; and one, with whether the context was done when select took
\* it, which is only observed.
Nothing == [line |-> 0, beside |-> FALSE]

\* The commands end, and a failure stops listening first.
ConsumerEnds(how) ==
    /\ consumer' = "ended" /\ hand' = Nothing
    /\ commandsResult' = how
    /\ cancelled' = (cancelled \/ how = "failed")
    /\ UNCHANGED <<typed, input, producer, scanned, scanResult, ran, stopping, listen, writer, told,
                   updated, exit>>

\* The select takes a line, also beside the end of the context ...
Take ==
    /\ consumer = "waiting" /\ lines # <<>>
    /\ lines' = Tail(lines)
    /\ consumer' = "checking" /\ hand' = [line |-> Head(lines), beside |-> Done]
    /\ UNCHANGED <<typed, input, producer, scanned, scanResult, ran, commandsResult, cancelled,
                   stopping, listen, writer, told, updated, exit>>

\* Mutant: a line received beside the end of the context still runs.
RunsLate == FALSE

\* ... so the context is looked at again ...
TooLate == Done

Check ==
    /\ consumer = "checking"
    /\ IF TooLate THEN ConsumerEnds("ok")
       ELSE /\ consumer' = "starting"
            /\ UNCHANGED <<typed, input, producer, scanned, scanResult, hand, ran, commandsResult,
                           cancelled, stopping, listen, writer, told, updated, exit>>
    /\ UNCHANGED lines

\* ... and then the command starts, though the context may end in between.
StartCommand ==
    /\ consumer = "starting"
    /\ consumer' = "running" /\ hand' = Nothing
    /\ ran' = Append(ran, [line |-> hand.line, beside |-> hand.beside, late |-> Done])
    /\ UNCHANGED <<typed, input, producer, scanned, scanResult, lines, commandsResult, cancelled,
                   stopping, listen, writer, told, updated, exit>>

\* The closed channel.
TakeEnd ==
    /\ consumer = "waiting" /\ lines = <<>> /\ producer = "ended"
    /\ ConsumerEnds(scanResult)
    /\ UNCHANGED lines

\* Mutant: the commands only end with their input.
EndsWithInput == FALSE

ContextDone == Done

ConsumerStops ==
    /\ consumer = "waiting" /\ ContextDone
    /\ ConsumerEnds("ok")
    /\ UNCHANGED lines

\* runLineCommand: replies and replays are done, or the output or the sink
\* fails.
CommandReturns ==
    /\ consumer = "running"
    /\ \/ /\ consumer' = "waiting"
          /\ UNCHANGED <<typed, input, producer, scanned, scanResult, hand, ran, commandsResult,
                         cancelled, stopping, listen, writer, told, updated, exit>>
       \/ ConsumerEnds("failed")
    /\ UNCHANGED lines

Consumer == Take \/ Check \/ StartCommand \/ TakeEnd \/ ConsumerStops \/ CommandReturns

----------------------------------------------------------------------------
(* Writer.Emit: each event in one write, which may fail.                    *)

\* Mutant: a rejoin's notice prints whether it changed or not.
AlwaysNews(text) == TRUE

IsNews(text) == text # notice

NoticeOf(text) == IF text = NoText THEN <<>> ELSE <<text>>

\* The sink answers listen, which a failed write ends unless it is cancelled.
Answer(ok, next) == listen' = IF ok THEN next ELSE "failing"

\* The output takes written; a failed write of its last part ends listening.
Writes(written, next) ==
    \/ shown' = shown \o written /\ Answer(TRUE, next)
    \/ /\ written # <<>>
       /\ shown' = shown \o SubSeq(written, 1, Len(written) - 1)
       /\ Answer(FALSE, next)

Listening == listen \in {"joining", "listening"}

\* The join's notice comes before Ready and is kept for it; a rejoin's prints
\* when it changed.
EmitNotice(text) ==
    /\ listen = "listening" \/ told = <<>>
    /\ Listening /\ Len(told) < MaxJoins
    /\ told' = Append(told, text)
    /\ IF IsNews(text)
       THEN /\ notice' = text
            /\ Writes(IF ready THEN NoticeOf(text) ELSE <<>>, listen)
       ELSE UNCHANGED <<notice, shown, listen>>
    /\ UNCHANGED <<typed, input, commands, cancelled, stopping, ready, alert, updated, exit>>

\* Ready, the notice and, whatever becomes of its write, the update alert.
EmitReady ==
    /\ listen = "joining" /\ told # <<>>
    /\ \/ /\ shown' \in {shown \o <<"ready">> \o NoticeOf(notice) \o tail :
                            tail \in {<<>>} \cup (IF alert THEN {<<"update">>} ELSE {})}
          /\ Answer(TRUE, "listening")
          /\ ready' = TRUE
       \/ /\ shown' = shown
          /\ Answer(FALSE, "listening")
          /\ UNCHANGED ready
       \/ /\ notice # NoText
          /\ shown' = Append(shown, "ready")
          /\ Answer(FALSE, "listening")
          /\ ready' = TRUE
    /\ UNCHANGED <<typed, input, commands, cancelled, stopping, notice, alert, told, updated, exit>>

EmitUpdate ==
    /\ Listening /\ ~ updated
    /\ updated' = TRUE
    /\ alert' = TRUE
    /\ shown' \in {shown} \cup (IF ready THEN {Append(shown, "update")} ELSE {})
    /\ UNCHANGED <<typed, input, commands, cancelled, stopping, listen, ready, notice, told, exit>>

----------------------------------------------------------------------------
(* runPlain.                                                                *)

Cancel ==
    /\ exit = "running" /\ ~ cancelled
    /\ cancelled' = TRUE
    /\ UNCHANGED <<typed, input, commands, stopping, listen, writer, told, updated, exit>>

ListenReturns ==
    /\ Listening \/ listen = "failing"
    /\ listen' = IF cancelled THEN "cancelled" ELSE "failed"
    /\ UNCHANGED <<typed, input, commands, cancelled, stopping, writer, told, updated, exit>>

\* setup.stop() and commands.Stop's cancel.
Stop ==
    /\ listen \in {"cancelled", "failed"} /\ ~ stopping
    /\ cancelled' = TRUE /\ stopping' = TRUE
    /\ UNCHANGED <<typed, input, commands, listen, writer, told, updated, exit>>

\* A failed command's error wins.
Return ==
    /\ stopping /\ consumer = "ended" /\ exit = "running"
    /\ exit' = IF commandsResult = "failed" THEN "commands failed" ELSE listen
    /\ UNCHANGED <<typed, input, commands, cancelled, stopping, listen, writer, told, updated>>

Init ==
    /\ typed = 0 /\ input = "open"
    /\ producer = "scanning" /\ scanned = 0 /\ scanResult = "none"
    /\ lines = <<>>
    /\ consumer = "waiting" /\ hand = Nothing /\ ran = <<>> /\ commandsResult = "none"
    /\ cancelled = FALSE /\ stopping = FALSE
    /\ listen = "joining"
    /\ ready = FALSE /\ notice = NoText /\ alert = FALSE
    /\ shown = <<>> /\ told = <<>> /\ updated = FALSE
    /\ exit = "running"

Next ==
    \/ Type \/ EndInput
    \/ Scan \/ ScanEnds \/ Offer
    \/ Consumer
    \/ \E text \in Texts \cup {NoText} : EmitNotice(text)
    \/ EmitReady \/ EmitUpdate
    \/ Cancel \/ ListenReturns \/ Stop \/ Return

Spec == Init /\ [][Next]_vars

\* superviseListen ends with its context or a failed write, a command with its forward's or its
\* POST's timeout; nobody has to type.
Fairness ==
    /\ WF_vars((cancelled \/ listen = "failing") /\ ListenReturns)
    /\ WF_vars(Stop \/ Return)
    /\ WF_vars(Consumer)

FairSpec == Spec /\ Fairness

----------------------------------------------------------------------------
(* Properties.                                                              *)

\* Every variable has its type; at most one line waits between the two
\* goroutines, in the order they are typed.
TypeOK ==
    /\ typed \in 0..MaxLines /\ input \in {"open", "ended", "broken"}
    /\ producer \in {"scanning", "offering", "ended"} /\ scanned \in 0..typed
    /\ scanResult \in {"none", "ok", "failed"}
    /\ lines \in {<<>>} \cup {<<n>> : n \in 1..scanned}
    /\ consumer \in {"waiting", "checking", "starting", "running", "ended"}
    /\ hand = Nothing \/ hand \in [line : 1..MaxLines, beside : BOOLEAN]
    /\ ran \in Seq([line : 1..MaxLines, beside : BOOLEAN, late : BOOLEAN])
    /\ commandsResult \in {"none", "ok", "failed"}
    /\ cancelled \in BOOLEAN /\ stopping \in BOOLEAN
    /\ listen \in {"joining", "listening", "failing", "cancelled", "failed"}
    /\ ready \in BOOLEAN /\ notice \in Texts \cup {NoText} /\ alert \in BOOLEAN
    /\ shown \in Seq({"ready", "update"} \cup Texts)
    /\ told \in Seq(Texts \cup {NoText}) /\ updated \in BOOLEAN
    /\ exit \in {"running", "cancelled", "failed", "commands failed"}

\* Commands run the lines as typed, none twice and none left out.  Once the
\* context has ended no line that select takes runs, whichever it was ready
\* beside, and one command at most still starts: the one whose line was looked
\* at just before the end, and it is the last.  The run returns when no command
\* runs or will, and with the error of the one that failed.
CommandsEndWithListening ==
    /\ \A i \in 1..Len(ran) : ran[i].line = i /\ ~ ran[i].beside
    /\ \A i \in 1..Len(ran) : ran[i].late => i = Len(ran)
    /\ exit # "running" => consumer = "ended"
    /\ exit # "running" /\ commandsResult = "failed" => exit = "commands failed"

\* The joins whose notice is news, and where the notices are among what shows.
News == {i \in 1..Len(told) : told[i] # NoText /\ (i = 1 \/ told[i] # told[i - 1])}
Printed == {j \in 1..Len(shown) : shown[j] \in Texts}

\* Each news shows once, in the order of the joins, and no other notice does.
ShowsTheNews ==
    \E at \in [News -> Printed] :
        /\ \A i \in News : shown[at[i]] = told[i]
        /\ \A i, k \in News : i < k => at[i] < at[k]
        /\ Printed = {at[i] : i \in News}

\* Every variable has its type.  A notice is written once it and Ready are in,
\* and again only when a rejoin changes it; the update alert at most once,
\* never before Ready.
NoticesAreFresh ==
    /\ TypeOK
    /\ listen = "listening" => ShowsTheNews
    /\ ~ ready => shown = <<>>
    /\ shown # <<>> => shown[1] = "ready"
    /\ \A i, j \in 1..Len(shown) : shown[i] = "update" /\ shown[j] = "update" => i = j

\* Once listening has stopped the run returns, even while a read of the terminal
\* goes on for ever; and a failed command stops listening.
RunReturns ==
    /\ ~ Listening ~> exit # "running"
    /\ commandsResult = "failed" ~> exit = "commands failed"
=============================================================================
