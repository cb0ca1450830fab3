-------------------------- MODULE PlainModeProofs --------------------------
(* Plain mode for any notices and any number of typed lines and joins: the   *)
(* lines typed are the commands that run, and what shows is what was told.   *)
EXTENDS PlainMode, TLAPS

LineActions ==
    Type \/ EndInput \/ Scan \/ ScanEnds \/ Offer \/ Consumer

Emits == (\E text \in Texts \cup {NoText} : EmitNotice(text)) \/ EmitReady \/ EmitUpdate

RunActions == Cancel \/ ListenReturns \/ Stop \/ Return

LEMMA NextInParts ==
    ASSUME [Next]_vars
    PROVE  LineActions \/ Emits \/ RunActions \/ UNCHANGED vars
BY DEF Next, LineActions, Emits, RunActions

\* An event goes to the writer and its failure to listen; the commands never see it.
LEMMA EmitsEffect ==
    ASSUME Emits
    PROVE  /\ listen \in {"joining", "listening"} /\ listen' \in {listen, "listening", "failing"}
           /\ UNCHANGED <<typed, input, commands, cancelled, stopping, exit>>
<1>1. CASE \E text \in Texts \cup {NoText} : EmitNotice(text)
    BY <1>1 DEF EmitNotice, Writes, Answer, Listening
<1>2. CASE EmitReady
    BY <1>2 DEF EmitReady, Answer
<1>3. CASE EmitUpdate
    BY <1>3 DEF EmitUpdate, Listening
<1>4. QED
    BY <1>1, <1>2, <1>3 DEF Emits

\* The lines that are typed are the commands' alone.
LEMMA LinesEffect ==
    ASSUME LineActions
    PROVE  UNCHANGED <<stopping, listen, writer, told, updated, exit>>
BY DEF LineActions, Type, EndInput, Scan, ScanEnds, ProducerEnds, Offer, Consumer, Take, Check,
   StartCommand, TakeEnd, ConsumerStops, CommandReturns, ConsumerEnds

----------------------------------------------------------------------------
(* The typed lines.                                                         *)

NumbersType == typed \in 0..MaxLines /\ scanned \in 0..typed

StatesType ==
    /\ input \in {"open", "ended", "broken"}
    /\ producer \in {"scanning", "offering", "ended"}
    /\ scanResult \in {"none", "ok", "failed"}
    /\ consumer \in {"waiting", "checking", "starting", "running", "ended"}
    /\ commandsResult \in {"none", "ok", "failed"}
    /\ cancelled \in BOOLEAN
    /\ hand = Nothing \/ hand \in [line : 1..MaxLines, beside : BOOLEAN]

ListenType ==
    /\ listen \in {"joining", "listening", "failing", "cancelled", "failed"}
    /\ exit \in {"running", "cancelled", "failed", "commands failed"}
    /\ stopping \in BOOLEAN

\* Stop comes once listen has returned.
StopsLate == stopping => listen \in {"cancelled", "failed"}

ChannelType ==
    /\ lines \in {<<>>} \cup {<<n>> : n \in 1..scanned}
    /\ producer = "offering" => scanned > 0

Entries == [line : 1..MaxLines, beside : BOOLEAN, late : BOOLEAN]

\* The commands that ran are the lines, none received beside the context's end, and
\* only the last one started after it.
RanInOrder ==
    /\ ran \in Seq(Entries)
    /\ \A i \in 1..Len(ran) : ran[i].line = i /\ ~ ran[i].beside
    /\ \A i \in 1..Len(ran) : ran[i].late => i = Len(ran)

\* No command starts once one was late; a line received beside the end is never
\* looked at in time.
InTime ==
    /\ \A i \in 1..Len(ran) : ran[i].late => Done /\ consumer # "starting"
    /\ consumer = "checking" /\ hand.beside => Done
    /\ consumer = "starting" => ~ hand.beside

Holding == consumer \in {"checking", "starting"}

\* The lines received: those that ran, and the one in hand.
Received == Len(ran) + (IF Holding THEN 1 ELSE 0)

\* Until the commands end, the line in hand is the next to run, the line in the
\* channel the one after it, and the scanner is at most one ahead of that.
ChannelIsNext ==
    consumer # "ended" =>
        /\ Holding => hand.line = Received
        /\ lines # <<>> => lines = <<Received + 1>>
        /\ producer = "scanning" => scanned = Received + Len(lines)
        /\ producer = "offering" => scanned = Received + Len(lines) + 1

HandType == Holding => hand.line \in 1..MaxLines /\ hand.beside \in BOOLEAN

\* The run returns after its commands, with their failure.
ReturnsLast ==
    exit # "running" =>
        /\ consumer = "ended"
        /\ commandsResult = "failed" => exit = "commands failed"

LinesInv ==
    /\ NumbersType /\ StatesType /\ ListenType /\ StopsLate
    /\ ChannelType /\ RanInOrder /\ InTime /\ HandType /\ ChannelIsNext /\ ReturnsLast

LEMMA LinesInit ==
    ASSUME Init
    PROVE  LinesInv
<1>1. NumbersType /\ ChannelType
    BY BoundsAssumption DEF Init, NumbersType, ChannelType
<1>2. StatesType /\ ListenType /\ StopsLate /\ ReturnsLast
    BY DEF Init, StatesType, ListenType, StopsLate, ReturnsLast
<1>3. RanInOrder
    <2>1. <<>> \in Seq(Entries)
        OBVIOUS
    <2>2. QED
        BY <2>1 DEF Init, RanInOrder
<1>4. ChannelIsNext /\ InTime /\ HandType
    BY DEF Init, ChannelIsNext, InTime, HandType, Holding, Received
<1>5. QED
    BY <1>1, <1>2, <1>3, <1>4 DEF LinesInv

LEMMA NumbersStep ==
    ASSUME NumbersType, [Next]_vars
    PROVE  NumbersType'
<1>1. CASE Type
    BY <1>1, BoundsAssumption DEF Type, commands, NumbersType
<1>2. CASE Scan
    BY <1>2, BoundsAssumption DEF Scan, NumbersType
<1>3. CASE UNCHANGED <<typed, scanned>>
    BY <1>3 DEF NumbersType
<1>4. CASE LineActions
    BY <1>1, <1>2, <1>3, <1>4 DEF LineActions, EndInput, ScanEnds, ProducerEnds, Offer, Consumer,
       Take, Check, StartCommand, TakeEnd, ConsumerStops, CommandReturns, ConsumerEnds, commands
<1>5. CASE Emits
    BY <1>3, <1>5, EmitsEffect DEF commands
<1>6. CASE RunActions \/ UNCHANGED vars
    BY <1>3, <1>6 DEF RunActions, Cancel, ListenReturns, Stop, Return, commands, vars
<1>7. QED
    BY <1>4, <1>5, <1>6, NextInParts

LEMMA StatesStep ==
    ASSUME LinesInv, [Next]_vars
    PROVE  StatesType'
<1>0. StatesType
    BY DEF LinesInv
<1>1. CASE Type \/ EndInput \/ Scan \/ ScanEnds \/ Offer
    BY <1>0, <1>1 DEF StatesType, Type, EndInput, Scan, ScanEnds, ProducerEnds, Offer, commands
<1>2. CASE Take
    <2>1. Head(lines) \in 1..MaxLines
        <3>1. PICK n \in 1..scanned : lines = <<n>>
            BY <1>2 DEF Take, LinesInv, ChannelType
        <3>2. QED
            BY <3>1, BoundsAssumption DEF LinesInv, NumbersType
    <2>2. hand' \in [line : 1..MaxLines, beside : BOOLEAN]
        BY <1>2, <2>1 DEF Take, Done, LinesInv, StatesType, ListenType
    <2>3. QED
        BY <1>0, <1>2, <2>2 DEF StatesType, Take, commands
<1>3. CASE Check \/ StartCommand
    BY <1>0, <1>3 DEF StatesType, Check, StartCommand, ConsumerEnds, commands
<1>4. CASE TakeEnd \/ ConsumerStops \/ CommandReturns
    BY <1>0, <1>4 DEF StatesType, TakeEnd, ConsumerStops, CommandReturns, ConsumerEnds, commands
<1>5. CASE Emits
    BY <1>0, <1>5, EmitsEffect DEF StatesType, commands
<1>6. CASE RunActions
    <2>1. UNCHANGED <<input, producer, scanResult, consumer, hand, commandsResult>>
        BY <1>6 DEF RunActions, Cancel, ListenReturns, Stop, Return, commands
    <2>2. cancelled' = cancelled \/ cancelled' = TRUE
        BY <1>6 DEF RunActions, Cancel, ListenReturns, Stop, Return
    <2>3. QED
        BY <1>0, <2>1, <2>2 DEF StatesType
<1>7. CASE UNCHANGED vars
    BY <1>0, <1>7 DEF StatesType, vars, commands
<1>8. QED
    BY <1>1, <1>2, <1>3, <1>4, <1>5, <1>6, <1>7, NextInParts DEF LineActions, Consumer

\* A context that has ended stays ended.
LEMMA DoneStays ==
    ASSUME Done, [Next]_vars
    PROVE  Done'
<1>1. CASE LineActions
    BY <1>1 DEF LineActions, Type, EndInput, Scan, ScanEnds, ProducerEnds, Offer, Consumer, Take,
       Check, StartCommand, TakeEnd, ConsumerStops, CommandReturns, ConsumerEnds, Done
<1>2. CASE Emits
    BY <1>2, EmitsEffect DEF Done
<1>3. CASE RunActions \/ UNCHANGED vars
    BY <1>3 DEF RunActions, Cancel, ListenReturns, Stop, Return, vars, Done
<1>4. QED
    BY <1>1, <1>2, <1>3, NextInParts

LEMMA ListenStep ==
    ASSUME ListenType, StopsLate, [Next]_vars
    PROVE  ListenType' /\ StopsLate'
<1>1. CASE LineActions
    <2>1. ListenType'
        BY <1>1, LinesEffect DEF ListenType
    <2>2. StopsLate'
        BY <1>1, LinesEffect DEF StopsLate
    <2>3. QED
        BY <2>1, <2>2
<1>2. CASE Emits
    <2>1. ListenType'
        BY <1>2, EmitsEffect DEF ListenType
    <2>2. StopsLate'
        BY <1>2, EmitsEffect DEF ListenType, StopsLate
    <2>3. QED
        BY <2>1, <2>2
<1>3. CASE RunActions
    <2>1. ListenType'
        BY <1>3 DEF ListenType, StopsLate, RunActions, Cancel, ListenReturns, Stop, Return
    <2>2. StopsLate'
        BY <1>3 DEF ListenType, StopsLate, RunActions, Cancel, ListenReturns, Listening, Stop, Return
    <2>3. QED
        BY <2>1, <2>2
<1>4. CASE UNCHANGED vars
    BY <1>4 DEF ListenType, StopsLate, vars
<1>5. QED
    BY <1>1, <1>2, <1>3, <1>4, NextInParts

\* What a step does to the commands that ran: one starts, with the line in hand.
LEMMA RanSteps ==
    ASSUME LinesInv, [Next]_vars
    PROVE  \/ UNCHANGED ran
           \/ /\ StartCommand /\ consumer = "starting" /\ Len(ran) \in Nat
              /\ ran' = Append(ran, [line |-> Len(ran) + 1, beside |-> FALSE, late |-> Done])
              /\ [line |-> Len(ran) + 1, beside |-> FALSE, late |-> Done] \in Entries
<1>1. CASE StartCommand
    <2>1. consumer = "starting" /\ Holding /\ hand.line = Len(ran) + 1 /\ Len(ran) \in Nat
        BY <1>1 DEF StartCommand, LinesInv, ChannelIsNext, Received, Holding, RanInOrder
    <2>2. hand.line \in 1..MaxLines /\ hand.beside = FALSE
        BY <2>1 DEF LinesInv, HandType, InTime
    <2>3. Done \in BOOLEAN
        BY DEF Done
    <2>4. QED
        BY <1>1, <2>1, <2>2, <2>3 DEF StartCommand, Entries
<1>2. CASE LineActions /\ ~ StartCommand
    BY <1>2 DEF LineActions, Type, EndInput, Scan, ScanEnds, ProducerEnds, Offer, Consumer, Take,
       Check, TakeEnd, ConsumerStops, CommandReturns, ConsumerEnds, commands
<1>3. CASE Emits
    BY <1>3, EmitsEffect DEF commands
<1>4. CASE RunActions \/ UNCHANGED vars
    BY <1>4 DEF RunActions, Cancel, ListenReturns, Stop, Return, commands, vars
<1>5. QED
    BY <1>1, <1>2, <1>3, <1>4, NextInParts

\* Only a line that was looked at in time runs, and only one before the end.
LEMMA RanStep ==
    ASSUME LinesInv, [Next]_vars
    PROVE  RanInOrder'
<1>1. CASE UNCHANGED ran
    BY <1>1 DEF LinesInv, RanInOrder
<1>2. ASSUME NEW e \in Entries, consumer = "starting", Len(ran) \in Nat,
             ran' = Append(ran, e), e.line = Len(ran) + 1, e.beside = FALSE
      PROVE  RanInOrder'
    <2>1. /\ ran \in Seq(Entries)
          /\ \A i \in 1..Len(ran) : ran[i].line = i /\ ~ ran[i].beside /\ ~ ran[i].late
        BY <1>2 DEF LinesInv, RanInOrder, InTime
    <2>2. /\ ran' \in Seq(Entries) /\ Len(ran') = Len(ran) + 1 /\ ran'[Len(ran) + 1] = e
          /\ \A i \in 1..Len(ran) : ran'[i] = ran[i]
        BY <1>2, <2>1
    <2>3. \A i \in 1..Len(ran') : i \in 1..Len(ran) \/ i = Len(ran) + 1
        BY <1>2, <2>2
    <2>4. QED
        BY <1>2, <2>1, <2>2, <2>3 DEF RanInOrder
<1>3. QED
    BY <1>1, <1>2, RanSteps

LEMMA InTimeStep ==
    ASSUME LinesInv, [Next]_vars
    PROVE  InTime' /\ HandType'
<1>1. InTime /\ HandType /\ StatesType
    BY DEF LinesInv
<1>2. \A i \in 1..Len(ran') : ran'[i].late => Done' /\ consumer' # "starting"
    <2>1. CASE UNCHANGED ran
        <3> SUFFICES ASSUME NEW i \in 1..Len(ran), ran[i].late PROVE Done' /\ consumer' # "starting"
            BY <2>1
        <3>1. Done /\ consumer # "starting"
            BY <1>1 DEF InTime
        <3>2. consumer' # "starting"
            <4>1. CASE LineActions
                BY <3>1, <4>1 DEF LineActions, Type, EndInput, Scan, ScanEnds, ProducerEnds, Offer,
                   Consumer, Take, Check, TooLate, StartCommand, TakeEnd, ConsumerStops, CommandReturns,
                   ConsumerEnds, commands
            <4>2. CASE Emits
                BY <3>1, <4>2, EmitsEffect DEF commands
            <4>3. CASE RunActions \/ UNCHANGED vars
                BY <3>1, <4>3 DEF RunActions, Cancel, ListenReturns, Stop, Return, commands, vars
            <4>4. QED
                BY <4>1, <4>2, <4>3, NextInParts
        <3>3. QED
            BY <3>1, <3>2, DoneStays
    <2>2. ASSUME NEW e \in Entries, consumer = "starting", Len(ran) \in Nat, StartCommand,
                 ran' = Append(ran, e), e.late = Done
          PROVE  \A i \in 1..Len(ran') : ran'[i].late => Done' /\ consumer' # "starting"
        <3>1. ran \in Seq(Entries) /\ \A i \in 1..Len(ran) : ~ ran[i].late
            BY <1>1, <2>2 DEF LinesInv, RanInOrder, InTime
        <3>2. /\ Len(ran') = Len(ran) + 1 /\ ran'[Len(ran) + 1] = e
              /\ \A i \in 1..Len(ran) : ran'[i] = ran[i]
            BY <2>2, <3>1
        <3>3. \A i \in 1..Len(ran') : i \in 1..Len(ran) \/ i = Len(ran) + 1
            BY <2>2, <3>2
        <3>4. consumer' = "running" /\ (Done => Done')
            BY <2>2, DoneStays DEF StartCommand
        <3>5. QED
            BY <2>2, <3>1, <3>2, <3>3, <3>4
    <2>3. QED
        BY <2>1, <2>2, RanSteps
<1>3. CASE Take
    <2>1. consumer' = "checking" /\ hand' = [line |-> Head(lines), beside |-> Done]
        BY <1>3 DEF Take
    <2>2. hand'.beside => Done'
        BY <2>1, DoneStays
    <2>3. Head(lines) \in 1..MaxLines
        <3>1. PICK n \in 1..scanned : lines = <<n>>
            BY <1>3 DEF Take, LinesInv, ChannelType
        <3>2. QED
            BY <3>1, BoundsAssumption DEF LinesInv, NumbersType
    <2>4. hand'.beside \in BOOLEAN
        BY <2>1 DEF Done
    <2>5. QED
        BY <1>2, <2>1, <2>2, <2>3, <2>4 DEF InTime, HandType
<1>4. CASE Check /\ ~ TooLate
    <2>1. consumer = "checking" /\ consumer' = "starting" /\ hand' = hand /\ ~ hand.beside
        BY <1>1, <1>4 DEF Check, TooLate, InTime
    <2>2. QED
        BY <1>1, <1>2, <2>1 DEF InTime, HandType, Holding
<1>5. CASE ~ Holding'
    BY <1>2, <1>5 DEF InTime, HandType, Holding
<1>6. CASE UNCHANGED <<consumer, hand>>
    BY <1>1, <1>2, <1>6, DoneStays DEF InTime, HandType, Holding
<1>7. CASE Type \/ EndInput \/ Scan \/ ScanEnds \/ Offer
    BY <1>6, <1>7 DEF Type, EndInput, Scan, ScanEnds, ProducerEnds, Offer, commands
<1>8. CASE (Check /\ TooLate) \/ StartCommand \/ TakeEnd \/ ConsumerStops \/ CommandReturns
    BY <1>5, <1>8 DEF Check, StartCommand, TakeEnd, ConsumerStops, CommandReturns, ConsumerEnds, Holding
<1>9. CASE Emits
    BY <1>6, <1>9, EmitsEffect DEF commands
<1>10. CASE RunActions \/ UNCHANGED vars
    BY <1>6, <1>10 DEF RunActions, Cancel, ListenReturns, Stop, Return, commands, vars
<1>11. QED
    BY <1>3, <1>4, <1>7, <1>8, <1>9, <1>10, NextInParts DEF LineActions, Consumer

LEMMA ChannelStep ==
    ASSUME LinesInv, [Next]_vars
    PROVE  ChannelType' /\ ChannelIsNext'
<1>1. Len(ran) \in Nat /\ scanned \in Nat /\ Received \in Nat
    BY DEF LinesInv, RanInOrder, NumbersType, Received
<1>2. ChannelType /\ ChannelIsNext
    BY DEF LinesInv
<1>3. CASE Scan
    <2>1. Received' = Received /\ UNCHANGED <<lines, consumer, hand>> /\ Holding' = Holding
        BY <1>3 DEF Scan, Received, Holding
    <2>2. QED
        BY <1>1, <1>2, <1>3, <2>1 DEF Scan, ChannelType, ChannelIsNext
<1>4. CASE ScanEnds
    <2>1. Received' = Received /\ UNCHANGED <<lines, consumer, hand>> /\ Holding' = Holding
        BY <1>4 DEF ScanEnds, ProducerEnds, Received, Holding
    <2>2. QED
        BY <1>1, <1>2, <1>4, <2>1 DEF ScanEnds, ProducerEnds, ChannelType, ChannelIsNext
<1>5. CASE Offer
    <2>0. Received' = Received /\ UNCHANGED <<consumer, hand>> /\ Holding' = Holding
        BY <1>5 DEF Offer, ProducerEnds, Received, Holding
    <2>1. CASE producer = "offering" /\ HasRoom /\ lines' = Append(lines, scanned)
               /\ producer' = "scanning" /\ UNCHANGED <<scanned, consumer, ran>>
        <3>1. lines = <<>> /\ lines' = <<scanned>> /\ Len(lines) = 0 /\ Len(lines') = 1
            BY <2>1 DEF HasRoom
        <3>2. consumer # "ended" => scanned = Received + 1
            BY <1>1, <1>2, <2>1, <3>1 DEF ChannelIsNext
        <3>3. ChannelIsNext'
            BY <1>1, <1>2, <2>0, <2>1, <3>1, <3>2 DEF ChannelIsNext
        <3>4. scanned \in 1..scanned
            BY <1>1, <1>2, <2>1 DEF ChannelType
        <3>5. QED
            BY <2>1, <3>1, <3>3, <3>4 DEF ChannelType
    <2>2. CASE producer' = "ended" /\ UNCHANGED <<scanned, consumer, ran, lines>>
        BY <1>2, <2>0, <2>2 DEF ChannelType, ChannelIsNext
    <2>3. QED
        BY <1>5, <2>1, <2>2 DEF Offer, ProducerEnds
<1>6. CASE Take
    <2>1. PICK n \in 1..scanned : lines = <<n>>
        BY <1>2, <1>6 DEF Take, ChannelType
    <2>2. /\ lines' = <<>> /\ Len(lines) = 1 /\ Len(lines') = 0
          /\ UNCHANGED <<producer, scanned, ran>>
        BY <1>6, <2>1 DEF Take
    <2>3. consumer # "ended" /\ Holding' /\ ~ Holding /\ Received' = Received + 1
        BY <1>1, <1>6, <2>2 DEF Take, Holding, Received
    <2>4. hand'.line = Received'
        <3>1. n = Received + 1
            BY <1>2, <2>1, <2>3 DEF ChannelIsNext
        <3>2. QED
            BY <1>6, <2>1, <2>3, <3>1 DEF Take
    <2>5. QED
        BY <1>1, <1>2, <2>2, <2>3, <2>4 DEF ChannelType, ChannelIsNext
<1>7. CASE /\ UNCHANGED <<lines, producer, scanned>>
           /\ consumer # "ended" /\ Received' = Received /\ (Holding' => Holding /\ hand' = hand)
    BY <1>1, <1>2, <1>7 DEF ChannelType, ChannelIsNext
<1>8. CASE UNCHANGED <<lines, scanned>> /\ consumer' = "ended" /\ UNCHANGED producer
    BY <1>2, <1>8 DEF ChannelType, ChannelIsNext
<1>9. CASE StartCommand
    <2>1. Len(ran') = Len(ran) + 1 /\ Holding /\ ~ Holding'
        BY <1>9 DEF StartCommand, Holding, LinesInv, RanInOrder
    <2>2. Received' = Received
        BY <1>1, <2>1 DEF Received
    <2>3. QED
        BY <1>7, <1>9, <2>1, <2>2 DEF StartCommand
<1>10. CASE Check
    <2>1. CASE TooLate
        BY <1>8, <1>10, <2>1 DEF Check, ConsumerEnds
    <2>2. CASE ~ TooLate
        <3>1. Holding /\ Holding' /\ UNCHANGED <<ran, hand, lines, producer, scanned>>
            BY <1>10, <2>2 DEF Check, Holding
        <3>2. Received' = Received
            BY <3>1 DEF Received
        <3>3. QED
            BY <1>7, <1>10, <3>1, <3>2 DEF Check
    <2>3. QED
        BY <2>1, <2>2
<1>11. CASE TakeEnd \/ ConsumerStops \/ CommandReturns
    <2>1. CASE consumer' = "ended"
        BY <1>8, <1>11, <2>1 DEF TakeEnd, ConsumerStops, CommandReturns, ConsumerEnds
    <2>2. CASE consumer' = "waiting" /\ CommandReturns
        <3>1. consumer = "running" /\ UNCHANGED <<ran, hand, lines, producer, scanned>>
              /\ ~ Holding /\ ~ Holding'
            BY <2>2 DEF CommandReturns, ConsumerEnds, Holding
        <3>2. Received' = Received
            BY <3>1 DEF Received
        <3>3. QED
            BY <1>7, <3>1, <3>2
    <2>3. QED
        BY <1>11, <2>1, <2>2 DEF TakeEnd, ConsumerStops, CommandReturns, ConsumerEnds
<1>12. CASE UNCHANGED <<lines, producer, scanned, ran, consumer, hand>>
    BY <1>2, <1>12 DEF ChannelType, ChannelIsNext, Received, Holding
<1>13. CASE Type \/ EndInput
    BY <1>12, <1>13 DEF Type, EndInput, commands
<1>14. CASE Emits
    BY <1>12, <1>14, EmitsEffect DEF commands
<1>15. CASE RunActions \/ UNCHANGED vars
    BY <1>12, <1>15 DEF RunActions, Cancel, ListenReturns, Stop, Return, commands, vars
<1>16. QED
    BY <1>3, <1>4, <1>5, <1>6, <1>9, <1>10, <1>11, <1>13, <1>14, <1>15, NextInParts
       DEF LineActions, Consumer

LEMMA ReturnsStep ==
    ASSUME LinesInv, [Next]_vars
    PROVE  ReturnsLast'
<1>1. ReturnsLast
    BY DEF LinesInv
<1>2. CASE Consumer
    <2>1. consumer # "ended" /\ UNCHANGED exit
        BY <1>2 DEF Consumer, Take, Check, StartCommand, TakeEnd, ConsumerStops, CommandReturns,
           ConsumerEnds
    <2>2. QED
        BY <1>1, <2>1 DEF ReturnsLast
<1>3. CASE Return
    BY <1>3 DEF Return, ReturnsLast, commands
<1>4. CASE UNCHANGED <<consumer, commandsResult, exit>>
    BY <1>1, <1>4 DEF ReturnsLast
<1>5. CASE Type \/ EndInput \/ Scan \/ ScanEnds \/ Offer
    BY <1>4, <1>5 DEF Type, EndInput, Scan, ScanEnds, ProducerEnds, Offer, commands
<1>6. CASE Emits
    BY <1>4, <1>6, EmitsEffect DEF commands
<1>7. CASE Cancel \/ ListenReturns \/ Stop \/ UNCHANGED vars
    BY <1>4, <1>7 DEF Cancel, ListenReturns, Stop, commands, vars
<1>8. QED
    BY <1>2, <1>3, <1>5, <1>6, <1>7, NextInParts DEF LineActions, RunActions

LEMMA LinesStep ==
    ASSUME LinesInv, [Next]_vars
    PROVE  LinesInv'
BY NumbersStep, StatesStep, ListenStep, RanStep, InTimeStep, ChannelStep, ReturnsStep DEF LinesInv

\* Plain mode runs the lines as typed, each once, none that was received once the
\* context had ended and at most one that was looked at just before, and returns
\* after the last command with what it came to: CommandsEndWithListening, for any
\* number of lines.
THEOREM CommandsCorrect == Spec => []CommandsEndWithListening
<1>1. LinesInv => CommandsEndWithListening
    BY DEF LinesInv, RanInOrder, ReturnsLast, CommandsEndWithListening
<1>2. QED
    BY LinesInit, LinesStep, <1>1, PTL DEF Spec

----------------------------------------------------------------------------
(* The notices.                                                             *)

Shows == {"ready", "update"} \cup Texts

WriterType ==
    /\ ready \in BOOLEAN /\ alert \in BOOLEAN /\ updated \in BOOLEAN
    /\ notice \in Texts \cup {NoText}
    /\ shown \in Seq(Shows)
    /\ told \in Seq(Texts \cup {NoText})

\* The writer keeps the last join's notice.
KeepsTheLast == notice = IF told = <<>> THEN NoText ELSE told[Len(told)]

\* Listening goes on from Ready, which the first join's notice precedes.
JoinsOnce ==
    /\ listen = "joining" => ~ ready /\ Len(told) <= 1
    /\ listen = "listening" => ready

\* Ready opens what shows.
ReadyOpens ==
    IF ready THEN shown # <<>> /\ shown[1] = "ready" ELSE shown = <<>>

\* One release is found and told of once.
UpdatesOnce ==
    /\ \A i, j \in 1..Len(shown) : shown[i] = "update" /\ shown[j] = "update" => i = j
    /\ ~ updated => \A i \in 1..Len(shown) : shown[i] # "update"
    /\ alert => updated

WriterInv ==
    /\ WriterType /\ KeepsTheLast /\ JoinsOnce /\ ReadyOpens /\ UpdatesOnce
    /\ listen = "listening" => ShowsTheNews

\* A join adds its own notice to the news, or nothing.
LEMMA NewsGrow ==
    ASSUME WriterType, KeepsTheLast, NEW text \in Texts \cup {NoText}, told' = Append(told, text)
    PROVE  News' = News \cup (IF text = NoText \/ text = notice THEN {} ELSE {Len(told) + 1})
<1> DEFINE n == Len(told) + 1
<1>1. /\ Len(told) \in Nat /\ Len(told') = n /\ told'[n] = text
      /\ \A i \in 1..Len(told) : told'[i] = told[i]
    BY DEF WriterType
<1>2. \A i \in 1..Len(told) : i \in News' <=> i \in News
    BY <1>1 DEF News
<1>3. n \in News' <=> ~ (text = NoText \/ text = notice)
    <2>1. CASE told = <<>>
        BY <1>1, <2>1 DEF News, KeepsTheLast
    <2>2. CASE told # <<>>
        <3>1. Len(told) # 0 /\ n # 1 /\ n - 1 = Len(told) /\ n \in 1..n
            BY <1>1, <2>2 DEF WriterType
        <3>2. told'[n - 1] = notice
            <4>1. Len(told) \in 1..Len(told) /\ notice = told[Len(told)]
                BY <1>1, <2>2, <3>1 DEF KeepsTheLast
            <4>2. QED
                BY <1>1, <3>1, <4>1
        <3>3. QED
            BY <1>1, <3>1, <3>2 DEF News
    <2>3. QED
        BY <2>1, <2>2
<1>4. News \subseteq 1..Len(told) /\ News' \subseteq 1..Len(told) \cup {n}
    BY <1>1 DEF News
<1> HIDE DEF n
<1>5. News' = News \cup (News' \cap {n})
    BY <1>2, <1>4
<1>6. QED
    BY <1>3, <1>5 DEF n

\* Only a notice adds to the notices that show.
LEMMA PrintedGrow ==
    ASSUME WriterType, NEW x \in Shows, shown' = Append(shown, x)
    PROVE  Printed' = Printed \cup (IF x \in Texts THEN {Len(shown) + 1} ELSE {})
<1> DEFINE n == Len(shown) + 1
<1>1. /\ Len(shown) \in Nat /\ Len(shown') = n /\ shown'[n] = x
      /\ \A i \in 1..Len(shown) : shown'[i] = shown[i]
    BY DEF WriterType
<1>2. \A i \in 1..Len(shown) : i \in Printed' <=> i \in Printed
    BY <1>1 DEF Printed
<1>3. n \in Printed' <=> x \in Texts
    BY <1>1 DEF Printed
<1>4. Printed \subseteq 1..Len(shown) /\ Printed' \subseteq 1..Len(shown) \cup {n}
    BY <1>1 DEF Printed
<1> HIDE DEF n
<1>5. Printed' = Printed \cup (Printed' \cap {n})
    BY <1>2, <1>4
<1>6. QED
    BY <1>3, <1>5 DEF n

\* What is no notice leaves them as they show.
LEMMA OthersShow ==
    ASSUME WriterType, ShowsTheNews, NEW x \in Shows \ Texts, shown' = Append(shown, x), UNCHANGED told
    PROVE  ShowsTheNews'
<1>1. PICK at \in [News -> Printed] :
        /\ \A i \in News : shown[at[i]] = told[i]
        /\ \A i, k \in News : i < k => at[i] < at[k]
        /\ Printed = {at[i] : i \in News}
    BY DEF ShowsTheNews
<1>2. Printed' = Printed /\ News' = News
    BY PrintedGrow DEF News
<1>3. \A i \in News : shown'[at[i]] = told'[i]
    <2>1. \A j \in Printed : shown'[j] = shown[j]
        BY DEF Printed, WriterType
    <2>2. QED
        BY <1>1, <2>1
<1>4. QED
    BY <1>1, <1>2, <1>3 DEF ShowsTheNews

\* A join without news leaves what shows.
LEMMA NoNewsShows ==
    ASSUME WriterType, KeepsTheLast, ShowsTheNews, NEW text \in Texts \cup {NoText},
           text = NoText \/ text = notice, told' = Append(told, text), UNCHANGED shown
    PROVE  ShowsTheNews'
<1>1. PICK at \in [News -> Printed] :
        /\ \A i \in News : shown[at[i]] = told[i]
        /\ \A i, k \in News : i < k => at[i] < at[k]
        /\ Printed = {at[i] : i \in News}
    BY DEF ShowsTheNews
<1>2. Printed' = Printed /\ News' = News
    BY NewsGrow DEF Printed
<1>3. \A i \in News : told'[i] = told[i]
    BY DEF News, WriterType
<1>4. QED
    BY <1>1, <1>2, <1>3 DEF ShowsTheNews

\* News shows after all that came before it.
LEMMA NewsShows ==
    ASSUME WriterType, KeepsTheLast, ShowsTheNews, NEW text \in Texts, text # notice,
           told' = Append(told, text), shown' = Append(shown, text)
    PROVE  ShowsTheNews'
<1> DEFINE n == Len(told) + 1
           m == Len(shown) + 1
<1>1. PICK at \in [News -> Printed] :
        /\ \A i \in News : shown[at[i]] = told[i]
        /\ \A i, k \in News : i < k => at[i] < at[k]
        /\ Printed = {at[i] : i \in News}
    BY DEF ShowsTheNews
<1>2. News' = News \cup {n}
    BY NewsGrow, BoundsAssumption
<1>3. Printed' = Printed \cup {m}
    BY PrintedGrow DEF Shows
<1>4. /\ Len(told) \in Nat /\ Len(shown) \in Nat
      /\ told'[n] = text /\ shown'[m] = text
      /\ \A i \in 1..Len(told) : told'[i] = told[i]
      /\ \A j \in 1..Len(shown) : shown'[j] = shown[j]
    BY DEF WriterType, Shows
<1>5. News \subseteq 1..Len(told) /\ Printed \subseteq 1..Len(shown)
    BY DEF News, Printed
<1> DEFINE new == [i \in News' |-> IF i = n THEN m ELSE at[i]]
<1>6. new[n] = m /\ \A i \in News : i # n /\ new[i] = at[i] /\ at[i] \in Printed
    BY <1>1, <1>2, <1>4, <1>5
<1>7. new \in [News' -> Printed']
    BY <1>1, <1>2, <1>3, <1>6
<1> HIDE DEF new, n, m
<1>8. ASSUME NEW i \in News'
      PROVE  shown'[new[i]] = told'[i]
    <2>1. CASE i = n
        BY <1>4, <1>6, <2>1
    <2>2. CASE i \in News
        <3>1. i \in 1..Len(told) /\ at[i] \in 1..Len(shown) /\ new[i] = at[i]
            BY <1>5, <1>6, <2>2
        <3>2. shown'[at[i]] = shown[at[i]] /\ told'[i] = told[i]
            BY <1>4, <3>1
        <3>3. QED
            BY <1>1, <2>2, <3>1, <3>2
    <2>3. QED
        BY <1>2, <2>1, <2>2
<1>9. ASSUME NEW i \in News', NEW k \in News', i < k
      PROVE  new[i] < new[k]
    <2>1. i # n
        <3>1. k = n \/ k \in 1..Len(told)
            BY <1>2, <1>5
        <3>2. QED
            BY <1>4, <1>9, <3>1 DEF n
    <2>2. i \in News /\ new[i] = at[i] /\ at[i] \in 1..Len(shown)
        BY <1>2, <1>5, <1>6, <2>1
    <2>3. CASE k = n
        BY <1>4, <1>6, <2>2, <2>3 DEF m
    <2>4. CASE k \in News
        BY <1>1, <1>6, <1>9, <2>2, <2>4
    <2>5. QED
        BY <1>2, <2>3, <2>4
<1>10. Printed' = {new[i] : i \in News'}
    <2>1. \A j \in Printed : \E i \in News : j = new[i]
        BY <1>1, <1>6
    <2>2. QED
        BY <1>2, <1>3, <1>6, <1>7, <2>1
<1>11. QED
    BY <1>7, <1>8, <1>9, <1>10 DEF ShowsTheNews

LEMMA WriterInit ==
    ASSUME Init
    PROVE  WriterInv
<1>1. <<>> \in Seq(Shows) /\ <<>> \in Seq(Texts \cup {NoText})
    OBVIOUS
<1>2. WriterType
    BY <1>1 DEF Init, WriterType
<1>3. Len(shown) = 0 /\ Len(told) = 0
    BY DEF Init
<1>4. KeepsTheLast /\ ReadyOpens /\ JoinsOnce /\ UpdatesOnce
    BY <1>3 DEF Init, KeepsTheLast, ReadyOpens, JoinsOnce, UpdatesOnce
<1>5. QED
    BY <1>2, <1>4 DEF Init, WriterInv

LEMMA SameShows ==
    ASSUME ShowsTheNews, UNCHANGED <<told, shown>>
    PROVE  ShowsTheNews'
<1>1. News' = News /\ Printed' = Printed
    BY DEF News, Printed
<1>2. QED
    BY <1>1 DEF ShowsTheNews

\* Whatever else goes on, and the end of listening, leaves the writer alone.
LEMMA WriterKept ==
    ASSUME WriterInv, UNCHANGED <<writer, told, updated>>,
           listen' \in {listen, "failing", "cancelled", "failed"}
    PROVE  WriterInv'
<1>1. UNCHANGED <<ready, notice, alert, shown, told, updated>>
    BY DEF writer
<1>2. WriterType' /\ KeepsTheLast' /\ ReadyOpens'
    BY <1>1 DEF WriterInv, WriterType, KeepsTheLast, ReadyOpens
<1>3. UpdatesOnce'
    BY <1>1 DEF WriterInv, UpdatesOnce
<1>4. JoinsOnce'
    BY <1>1 DEF WriterInv, JoinsOnce
<1>5. ASSUME listen' = "listening"
      PROVE  ShowsTheNews'
    <2>1. listen = "listening" /\ ShowsTheNews
        BY <1>5 DEF WriterInv
    <2>2. QED
        BY <1>1, <2>1, SameShows
<1>6. QED
    BY <1>2, <1>3, <1>4, <1>5 DEF WriterInv

\* One more of what shows once Ready does.
LEMMA OneMoreShows ==
    ASSUME WriterInv, NEW x \in Shows, shown' = Append(shown, x), ready
    PROVE  /\ shown' \in Seq(Shows) /\ shown' # <<>>
           /\ shown'[1] = "ready"
           /\ Len(shown) \in Nat /\ Len(shown') = Len(shown) + 1
           /\ shown'[Len(shown) + 1] = x /\ \A i \in 1..Len(shown) : shown'[i] = shown[i]
<1>1. shown \in Seq(Shows)
    BY DEF WriterInv, WriterType
<1>2. Len(shown) # 0 /\ shown[1] = "ready"
    BY <1>1 DEF WriterInv, ReadyOpens
<1>3. QED
    BY <1>1, <1>2

\* An update is found once, and told of if Ready is in.
LEMMA UpdateStep ==
    ASSUME WriterInv, EmitUpdate
    PROVE  WriterInv'
<1>1. /\ ~ updated /\ updated' = TRUE /\ alert' = TRUE
      /\ UNCHANGED <<told, notice, ready, listen>>
    BY DEF EmitUpdate
<1>2. WriterType /\ KeepsTheLast' /\ JoinsOnce'
    BY <1>1 DEF WriterInv, KeepsTheLast, JoinsOnce
<1>3. CASE shown' = shown
    <2>1. WriterType' /\ ReadyOpens'
        BY <1>1, <1>2, <1>3 DEF WriterInv, WriterType, ReadyOpens
    <2>2. UpdatesOnce'
        BY <1>1, <1>3 DEF WriterInv, UpdatesOnce
    <2>3. ShowsTheNews => ShowsTheNews'
        BY <1>1, <1>3, SameShows
    <2>4. QED
        BY <1>1, <1>2, <2>1, <2>2, <2>3 DEF WriterInv
<1>4. CASE ready /\ shown' = Append(shown, "update")
    <2>1. "update" \in Shows /\ "update" \notin Texts
        BY BoundsAssumption DEF Shows
    <2>2. /\ shown' \in Seq(Shows) /\ shown' # <<>> /\ shown'[1] = "ready"
          /\ Len(shown) \in Nat /\ Len(shown') = Len(shown) + 1
          /\ \A i \in 1..Len(shown) : shown'[i] = shown[i]
        BY <1>4, <2>1, OneMoreShows
    <2>3. WriterType' /\ ReadyOpens'
        BY <1>1, <1>2, <1>4, <2>2 DEF WriterType, ReadyOpens
    <2>4. UpdatesOnce'
        <3>1. \A i \in 1..Len(shown) : shown'[i] # "update"
            BY <1>1, <2>2 DEF WriterInv, UpdatesOnce
        <3>2. \A i \in 1..Len(shown') : i \in 1..Len(shown) \/ i = Len(shown) + 1
            BY <2>2
        <3>3. QED
            BY <1>1, <3>1, <3>2 DEF UpdatesOnce
    <2>5. ShowsTheNews => ShowsTheNews'
        BY <1>1, <1>2, <1>4, <2>1, OthersShow
    <2>6. QED
        BY <1>1, <1>2, <2>3, <2>4, <2>5 DEF WriterInv
<1>5. QED
    BY <1>3, <1>4 DEF EmitUpdate

\* A join's notice shows, or is no news or not yet to be shown, or fails.
LEMMA NoticeEffect ==
    ASSUME WriterInv, NEW text \in Texts \cup {NoText}, EmitNotice(text)
    PROVE  \/ /\ shown' = shown /\ listen' = listen
              /\ text \in {notice, NoText} \/ ~ ready
           \/ /\ shown' = Append(shown, text) /\ listen' = listen
              /\ ready /\ text \notin {notice, NoText}
           \/ shown' = shown /\ listen' = "failing"
<1>1. shown \in Seq(Shows)
    BY DEF WriterInv, WriterType
<1>2. CASE ~ IsNews(text)
    BY <1>2 DEF EmitNotice, IsNews
<1>3. CASE IsNews(text) /\ (~ ready \/ text = NoText)
    <2>1. Writes(<<>>, listen)
        BY <1>3 DEF EmitNotice, NoticeOf
    <2>2. shown' = shown \o <<>> /\ listen' = listen
        BY <2>1 DEF Writes, Answer
    <2>3. QED
        BY <1>1, <1>3, <2>2
<1>4. CASE IsNews(text) /\ ready /\ text # NoText
    <2>1. Writes(<<text>>, listen)
        BY <1>4 DEF EmitNotice, NoticeOf
    <2>2. \/ shown' = shown \o <<text>> /\ listen' = listen
          \/ shown' = shown \o SubSeq(<<text>>, 1, Len(<<text>>) - 1) /\ listen' = "failing"
        BY <2>1 DEF Writes, Answer
    <2>3. /\ shown \o <<text>> = Append(shown, text)
          /\ SubSeq(<<text>>, 1, Len(<<text>>) - 1) = <<>> /\ shown \o <<>> = shown
        BY <1>1, BoundsAssumption DEF Shows
    <2>4. QED
        BY <1>4, <2>2, <2>3 DEF IsNews
<1>5. QED
    BY <1>2, <1>3, <1>4

LEMMA NoticeStep ==
    ASSUME WriterInv, NEW text \in Texts \cup {NoText}, EmitNotice(text)
    PROVE  WriterInv'
<1>1. /\ told' = Append(told, text) /\ notice' = text
      /\ UNCHANGED <<ready, alert, updated>>
      /\ listen = "listening" \/ told = <<>>
    BY DEF EmitNotice, IsNews
<1>2. WriterType /\ ShowsTheNews \in BOOLEAN /\ (listen = "listening" => ready /\ ShowsTheNews)
    BY DEF WriterInv, JoinsOnce, ShowsTheNews
<1>3. /\ told \in Seq(Texts \cup {NoText}) /\ told' \in Seq(Texts \cup {NoText}) /\ told' # <<>>
      /\ Len(told') = Len(told) + 1 /\ told'[Len(told')] = text
    BY <1>1 DEF WriterInv, WriterType
<1>4. KeepsTheLast'
    BY <1>1, <1>3 DEF KeepsTheLast
<1>5. JoinsOnce'
    <2>1. listen' = listen \/ listen' = "failing"
        BY NoticeEffect
    <2>2. listen = "joining" => Len(told') <= 1
        <3>1. told = <<>> => Len(told) = 0
            OBVIOUS
        <3>2. QED
            BY <1>1, <1>3, <3>1
    <2>3. QED
        BY <1>1, <2>1, <2>2 DEF WriterInv, JoinsOnce
<1>6. CASE shown' = shown
    <2>1. WriterType' /\ ReadyOpens'
        BY <1>1, <1>3, <1>6 DEF WriterInv, WriterType, ReadyOpens
    <2>2. UpdatesOnce'
        BY <1>1, <1>6 DEF WriterInv, UpdatesOnce
    <2>3. ASSUME listen' = "listening"
          PROVE  ShowsTheNews'
        <3>1. CASE listen' = listen /\ (text \in {notice, NoText} \/ ~ ready)
            BY <1>1, <1>2, <1>6, <2>3, <3>1, NoNewsShows DEF WriterInv
        <3>2. CASE shown' = Append(shown, text)
            <4>1. Len(Append(shown, text)) = Len(shown) + 1 /\ Len(shown) \in Nat
                BY <1>2 DEF WriterType
            <4>2. QED
                BY <1>6, <3>2, <4>1
        <3>3. QED
            BY <2>3, <3>1, <3>2, NoticeEffect
    <2>4. QED
        BY <1>4, <1>5, <2>1, <2>2, <2>3 DEF WriterInv
<1>7. CASE /\ shown' = Append(shown, text) /\ listen' = listen
           /\ ready /\ text \notin {notice, NoText}
    <2>1. text \in Texts /\ text \in Shows /\ text # "update"
        BY <1>7, BoundsAssumption DEF Shows
    <2>2. /\ shown' \in Seq(Shows) /\ shown' # <<>> /\ shown'[1] = "ready"
          /\ Len(shown) \in Nat /\ Len(shown') = Len(shown) + 1 /\ shown'[Len(shown) + 1] = text
          /\ \A i \in 1..Len(shown) : shown'[i] = shown[i]
        BY <1>7, <2>1, OneMoreShows
    <2>3. WriterType' /\ ReadyOpens'
        BY <1>1, <1>2, <1>3, <1>7, <2>2 DEF WriterType, ReadyOpens
    <2>4. UpdatesOnce'
        <3>1. \A i \in 1..Len(shown') : i \in 1..Len(shown) \/ i = Len(shown) + 1
            BY <2>2
        <3>2. \A i \in 1..Len(shown') : shown'[i] = "update" => i \in 1..Len(shown) /\ shown[i] = "update"
            BY <2>1, <2>2, <3>1
        <3>3. QED
            BY <1>1, <3>2 DEF WriterInv, UpdatesOnce
    <2>5. listen' = "listening" => ShowsTheNews'
        BY <1>1, <1>2, <1>7, <2>1, NewsShows DEF WriterInv
    <2>6. QED
        BY <1>4, <1>5, <2>3, <2>4, <2>5 DEF WriterInv
<1>8. QED
    BY <1>6, <1>7, NoticeEffect

LEMMA ReadyPieces ==
    ASSUME NEW text
    PROVE  /\ <<"ready">> = <<>> \o <<"ready">> \o <<>> \o <<>>
           /\ <<"ready", "update">> = <<>> \o <<"ready">> \o <<>> \o <<"update">>
           /\ <<"ready", text>> = <<>> \o <<"ready">> \o <<text>> \o <<>>
           /\ <<"ready", text, "update">> = <<>> \o <<"ready">> \o <<text>> \o <<"update">>
<1>1. <<"ready">> = <<>> \o <<"ready">> \o <<>>
    OBVIOUS
<1>2. <<"ready">> = <<"ready">> \o <<>>
    OBVIOUS
<1>3. <<"ready", "update">> = <<"ready">> \o <<"update">>
    OBVIOUS
<1>4. <<"ready", text>> = <<>> \o <<"ready">> \o <<text>> \o <<>>
    OBVIOUS
<1>5. <<"ready", text, "update">> = <<>> \o <<"ready">> \o <<text>> \o <<"update">>
    OBVIOUS
<1>6. <<"ready">> = <<>> \o <<"ready">> \o <<>> \o <<>>
    BY <1>1, <1>2, Zenon
<1>7. <<"ready", "update">> = <<>> \o <<"ready">> \o <<>> \o <<"update">>
    BY <1>1, <1>3, Zenon
<1>8. QED
    BY <1>4, <1>5, <1>6, <1>7

LEMMA TailIsEither ==
    ASSUME NEW waits, NEW nothing, NEW something,
           NEW tail \in {nothing} \cup (IF waits THEN {something} ELSE {})
    PROVE  tail = nothing \/ (waits /\ tail = something)
OBVIOUS

\* Ready, alone or with the notice and the update that wait for it, or nothing.
LEMMA ReadyEffect ==
    ASSUME WriterInv, EmitReady
    PROVE  \/ shown' = <<>> /\ listen' = "failing" /\ ~ ready'
           \/ shown' = <<"ready">> /\ listen' = "failing" /\ ready'
           \/ /\ notice = NoText /\ shown' = <<"ready">>
              /\ listen' = "listening" /\ ready'
           \/ /\ notice = NoText /\ shown' = <<"ready", "update">> /\ alert
              /\ listen' = "listening" /\ ready'
           \/ /\ notice # NoText /\ shown' = <<"ready", notice>>
              /\ listen' = "listening" /\ ready'
           \/ /\ notice # NoText /\ shown' = <<"ready", notice, "update">> /\ alert
              /\ listen' = "listening" /\ ready'
<1>1. shown = <<>> /\ ~ ready
    BY DEF EmitReady, WriterInv, JoinsOnce, ReadyOpens
<1>2. CASE /\ shown' \in {shown \o <<"ready">> \o NoticeOf(notice) \o tail :
                             tail \in {<<>>} \cup (IF alert THEN {<<"update">>} ELSE {})}
           /\ listen' = "listening" /\ ready' = TRUE
    <2>1. PICK tail \in {<<>>} \cup (IF alert THEN {<<"update">>} ELSE {}) :
              shown' = shown \o <<"ready">> \o NoticeOf(notice) \o tail
        BY <1>2
    <2>2. tail = <<>> \/ (alert /\ tail = <<"update">>)
        BY <2>1, TailIsEither, Zenon
    <2>3. CASE notice = NoText
        <3>1. shown' = <<>> \o <<"ready">> \o <<>> \o tail
            BY <1>1, <2>1, <2>3 DEF NoticeOf
        <3>2. CASE tail = <<>>
            <4>1. shown' = <<"ready">>
                BY <3>1, <3>2, ReadyPieces, Zenon
            <4>2. QED
                BY <1>2, <2>3, <4>1
        <3>3. CASE alert /\ tail = <<"update">>
            <4>1. shown' = <<"ready", "update">>
                BY <3>1, <3>3, ReadyPieces, Zenon
            <4>2. QED
                BY <1>2, <2>3, <3>3, <4>1
        <3>4. QED
            BY <2>2, <3>2, <3>3
    <2>4. CASE notice # NoText
        <3>1. shown' = <<>> \o <<"ready">> \o <<notice>> \o tail
            BY <1>1, <2>1, <2>4 DEF NoticeOf
        <3>2. CASE tail = <<>>
            <4>1. shown' = <<"ready", notice>>
                BY <3>1, <3>2, ReadyPieces, Zenon
            <4>2. QED
                BY <1>2, <2>4, <4>1
        <3>3. CASE alert /\ tail = <<"update">>
            <4>1. shown' = <<"ready", notice, "update">>
                BY <3>1, <3>3, ReadyPieces, Zenon
            <4>2. QED
                BY <1>2, <2>4, <3>3, <4>1
        <3>4. QED
            BY <2>2, <3>2, <3>3
    <2>5. QED
        BY <2>3, <2>4
<1>3. CASE shown' = shown /\ listen' = "failing" /\ UNCHANGED ready
    BY <1>1, <1>3
<1>4. CASE shown' = Append(shown, "ready") /\ listen' = "failing" /\ ready' = TRUE
    BY <1>1, <1>4
<1>5. QED
    BY <1>2, <1>3, <1>4 DEF EmitReady, Answer

LEMMA ReadyStep ==
    ASSUME WriterInv, EmitReady
    PROVE  WriterInv'
<1>1. /\ UNCHANGED <<notice, alert, told, updated>>
      /\ WriterType /\ told # <<>> /\ Len(told) <= 1
    BY DEF EmitReady, WriterInv, JoinsOnce
<1>2. "ready" \in Shows /\ "update" \in Shows /\ (notice # NoText => notice \in Shows /\ notice # "update")
    BY <1>1, BoundsAssumption DEF WriterType, Shows
<1>3. shown' \in Seq(Shows) /\ ready' \in BOOLEAN
    <2>1. <<>> \in Seq(Shows) /\ <<"ready">> \in Seq(Shows) /\ <<"ready", "update">> \in Seq(Shows)
        BY <1>2
    <2>2. notice # NoText =>
              <<"ready", notice>> \in Seq(Shows) /\ <<"ready", notice, "update">> \in Seq(Shows)
        BY <1>2
    <2>3. ready' \in BOOLEAN
        BY <1>1 DEF EmitReady, WriterType
    <2>4. QED
        BY <2>1, <2>2, <2>3, ReadyEffect
<1>4. WriterType' /\ KeepsTheLast'
    BY <1>1, <1>3 DEF WriterInv, WriterType, KeepsTheLast
<1>5. JoinsOnce'
    BY ReadyEffect DEF JoinsOnce
<1>6. ReadyOpens'
    BY ReadyEffect DEF ReadyOpens
<1>7. UpdatesOnce'
    <2>1. alert => updated
        BY DEF WriterInv, UpdatesOnce
    <2>2. CASE shown' = <<>> \/ shown' = <<"ready">>
        BY <1>1, <2>1, <2>2 DEF UpdatesOnce
    <2>3. CASE shown' = <<"ready", "update">> /\ alert
        BY <1>1, <2>1, <2>3 DEF UpdatesOnce
    <2>4. CASE notice # NoText /\ shown' = <<"ready", notice>>
        BY <1>1, <1>2, <2>1, <2>4 DEF UpdatesOnce
    <2>5. CASE notice # NoText /\ shown' = <<"ready", notice, "update">> /\ alert
        BY <1>1, <1>2, <2>1, <2>5 DEF UpdatesOnce
    <2>6. QED
        BY <2>2, <2>3, <2>4, <2>5, ReadyEffect
<1>8. ASSUME listen' = "listening"
      PROVE  ShowsTheNews'
    <2>1. Len(told) = 1 /\ notice = told[1]
        <3>1. Len(told) = 1
            <4>1. told \in Seq(Texts \cup {NoText})
                BY <1>1 DEF WriterType
            <4>2. Len(told) # 0 /\ Len(told) \in Nat
                BY <1>1, <4>1
            <4>3. QED
                BY <1>1, <4>2
        <3>2. QED
            BY <1>1, <3>1 DEF WriterInv, KeepsTheLast
    <2>2. CASE notice = NoText
        <3>1. News' = {}
            <4>1. \A i \in 1..Len(told') : told'[i] = NoText
                <5>1. told' = told /\ \A i \in 1..1 : i = 1
                    BY <1>1
                <5>2. QED
                    BY <2>1, <2>2, <5>1
            <4>2. QED
                BY <4>1 DEF News
        <3>2. Printed' = {}
            BY <1>8, <2>2, ReadyEffect, BoundsAssumption DEF Printed
        <3> DEFINE at == [i \in {} |-> i]
        <3>3. at \in [News' -> Printed']
            BY <3>1, <3>2
        <3>4. QED
            BY <3>1, <3>2, <3>3 DEF ShowsTheNews
    <2>3. CASE notice # NoText
        <3>1. News' = {1}
            BY <1>1, <2>1, <2>3 DEF News
        <3>2. Printed' = {2} /\ shown'[2] = notice
            <4>1. notice \in Texts
                BY <1>1, <2>3 DEF WriterType
            <4>2. QED
                BY <1>8, <2>3, <4>1, ReadyEffect, BoundsAssumption DEF Printed
        <3> DEFINE at == [i \in {1} |-> 2]
        <3>3. at \in [News' -> Printed'] /\ at[1] = 2
            BY <3>1, <3>2
        <3> HIDE DEF at
        <3>4. \A i \in News' : shown'[at[i]] = told'[i]
            BY <1>1, <2>1, <3>1, <3>2, <3>3
        <3>5. Printed' = {at[i] : i \in News'}
            BY <3>1, <3>2, <3>3
        <3>6. QED
            BY <3>1, <3>3, <3>4, <3>5 DEF ShowsTheNews
    <2>4. QED
        BY <2>2, <2>3
<1>9. QED
    BY <1>4, <1>5, <1>6, <1>7, <1>8 DEF WriterInv

LEMMA WriterStep ==
    ASSUME WriterInv, [Next]_vars
    PROVE  WriterInv'
<1>1. CASE LineActions
    BY <1>1, LinesEffect, WriterKept
<1>2. CASE Emits
    BY <1>2, NoticeStep, ReadyStep, UpdateStep DEF Emits
<1>3. CASE RunActions
    <2>1. UNCHANGED <<writer, told, updated>> /\ listen' \in {listen, "cancelled", "failed"}
        BY <1>3 DEF RunActions, Cancel, ListenReturns, Stop, Return
    <2>2. QED
        BY <2>1, WriterKept
<1>4. CASE UNCHANGED vars
    BY <1>4, WriterKept DEF vars
<1>5. QED
    BY <1>1, <1>2, <1>3, <1>4, NextInParts

\* Plain mode shows each notice that is news once, in the joins' order, after
\* Ready and never before, and one update alert: NoticesAreFresh, for any number
\* of joins and any notices.
THEOREM NoticesCorrect == Spec => []NoticesAreFresh
<1>1. LinesInv /\ WriterInv => TypeOK
    BY DEF LinesInv, NumbersType, StatesType, ListenType, ChannelType, RanInOrder, Entries, WriterInv,
       WriterType, Shows, TypeOK
<1>2. LinesInv /\ WriterInv => NoticesAreFresh
    BY <1>1 DEF WriterInv, ReadyOpens, UpdatesOnce, NoticesAreFresh
<1>3. QED
    BY LinesInit, LinesStep, WriterInit, WriterStep, <1>2, PTL DEF Spec
=============================================================================
