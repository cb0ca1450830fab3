------------------------------- MODULE MCParts ------------------------------
(* The parts that compute and write, each by itself: statistics, comparisons, *)
(* exports, calls to the server, forwards, cards and the status line.  The    *)
(* part chosen at the start moves, and the others stay as they start.         *)
EXTENDS SessionParts, Drawing, TLC

VARIABLES moving

Parts == {"window", "ring", "diff", "exports", "api", "forwarder", "cards", "status"}

windowVars == <<clock, handling, stats, received, requests>>

----------------------------------------------------------------------------
(* Fixtures and copied commands: two listen runs in one directory, a request  *)
(* delivered to two routes, and unnamed requests that take the same number.   *)
(* A request's replay has the same delivery, so it stands for pressing again. *)

Routed(request, route) == [request |-> request, route |-> route]

TwoRuns ==
    ("first" :> <<Routed("req", "orders"), Routed("", "orders")>>) @@
    ("second" :> <<Routed("req", "refunds"), Routed("", "refunds")>>)

LargeBodies == {Routed("req", "orders"), Routed("", "refunds")}
OddHeaders == {Routed("req", "refunds")}

----------------------------------------------------------------------------
(* The server's API: commands of two calls, of a release built with each of a *)
(* hundred URLs.                                                              *)

VARIABLES raw, base, call, used, calls, answer, outcome, shown

apiVars == <<raw, base, call, used, calls, answer, outcome, shown>>

ApiValues == INSTANCE ApiInputs

Api == INSTANCE ApiClient WITH
    Built <- ApiValues!SomeBuilt, Identifiers <- ApiValues!SomeIdentifiers,
    Answers <- ApiValues!SomeAnswers, MaxCalls <- 2

----------------------------------------------------------------------------
(* Forwards: every short target and delivery, and targets copied twice.     *)

VARIABLES typed, forwarder, sent, result, copies

forwarderVars == <<typed, forwarder, sent, result, copies>>

ForwarderValues == INSTANCE ForwarderInputs

Forwarder == INSTANCE Forwarder WITH
    Typed <- ForwarderValues!SomeTyped, Deliveries <- ForwarderValues!SomeDeliveries,
    MaxCopies <- 2

----------------------------------------------------------------------------
(* Cards of bodies of up to two lines, any of three headers, rows and boxes;   *)
(* and the status line at every third width from one column to more than all  *)
(* the parts and alerts need.                                                 *)

CardsValues == INSTANCE CardsInputs

SomeLimits == CardsValues!SomeLimits
SomeCardWidths == CardsValues!SomeWidths
SomeLines == CardsValues!SomeLines
SomeHeaders == CardsValues!SomeHeaders
SomeRows == CardsValues!SomeRows
SomeBoxes == CardsValues!SomeBoxes

SomeLineWidths == {w \in 1..125 : w % 3 = 1}

----------------------------------------------------------------------------

ASSUME Ring!RingAssumption /\ Exports!ExportsAssumption /\ Api!ApiClientAssumption
ASSUME Forwarder!ForwarderAssumption /\ Cards!CardsAssumption /\ Status!StatusAssumption

\* What a part may start with is fixed for the others.
Fixed(part, choice) == moving # part => choice

MCInit ==
    /\ moving \in Parts
    /\ Init /\ Fixed("window", clock = FirstMinute)
    /\ DiffInit /\ Fixed("diff", failed /\ texts /\ equal /\ Len(before) = 0)
    /\ Ring!Init /\ Exports!Init /\ Api!Init /\ Forwarder!Init
    /\ Cards!Init /\ Fixed("cards", limits.lines = 0 /\ reveal)
    /\ Status!Init /\ Fixed("status", prompt)

MCNext ==
    /\ \/ /\ moving = "window" /\ Next
          /\ UNCHANGED <<diffVars, ringVars, exportsVars, apiVars, forwarderVars, cardsVars, statusVars>>
       \/ /\ moving = "diff" /\ DiffNext
          /\ UNCHANGED <<windowVars, ringVars, exportsVars, apiVars, forwarderVars, cardsVars, statusVars>>
       \/ /\ moving = "ring" /\ Ring!Next
          /\ UNCHANGED <<windowVars, diffVars, exportsVars, apiVars, forwarderVars, cardsVars, statusVars>>
       \/ /\ moving = "exports" /\ Exports!Next
          /\ UNCHANGED <<windowVars, diffVars, ringVars, apiVars, forwarderVars, cardsVars, statusVars>>
       \/ /\ moving = "api" /\ Api!Next
          /\ UNCHANGED <<windowVars, diffVars, ringVars, exportsVars, forwarderVars, cardsVars, statusVars>>
       \/ /\ moving = "forwarder" /\ Forwarder!Next
          /\ UNCHANGED <<windowVars, diffVars, ringVars, exportsVars, apiVars, cardsVars, statusVars>>
       \/ /\ moving = "cards" /\ Cards!Next
          /\ UNCHANGED <<windowVars, diffVars, ringVars, exportsVars, apiVars, forwarderVars, statusVars>>
       \/ /\ moving = "status" /\ Status!Next
          /\ UNCHANGED <<windowVars, diffVars, ringVars, exportsVars, apiVars, forwarderVars, cardsVars>>
    /\ UNCHANGED moving

allVars == <<moving, windowVars, diffVars, ringVars, exportsVars, apiVars, forwarderVars,
             cardsVars, statusVars>>

MCSpec == MCInit /\ [][MCNext]_allVars

----------------------------------------------------------------------------
(* Properties, beside SessionParts' and Drawing's.  Each part's module says   *)
(* more of its own.                                                           *)

\* The built URL is read again as printed, by one base however it is spelled; a
\* request, socket or page stays below it, whatever names and redirects the
\* server sends; and a refusal is told as the server says it.
CallsStayInTheirPlace ==
    /\ [](moving = "api" =>
            /\ Api!TypeOK /\ Api!PrintedURLsAreRead /\ Api!CallsStayInTheirPlace
            /\ Api!ErrorsAreToldApart /\ Api!RefusalsAreExplained)
    /\ [][moving = "api" => Api!SpellingsAgree]_allVars

=============================================================================
