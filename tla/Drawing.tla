------------------------------- MODULE Drawing ------------------------------
(* What internal/cards draws, each part with its own state, and what it       *)
(* promises: the cards, under the --max-* limits and in the terminal's width, *)
(* and the stream's status line.                                              *)
EXTENDS Integers

----------------------------------------------------------------------------
(* Cards.                                                                   *)

CONSTANTS
    CardLimits,          \* what --max-body-lines, --max-headers and --max-value-chars allow
    CardWidths,          \* the terminal's columns
    CardLines,           \* lines of bodies and values
    MaxCardLines,        \* bound: lines of a body
    HeaderNames,         \* the names of headers
    CardRows, CardBoxes, \* rows and boxes, in columns
    SourceWidth          \* the widest source's name

VARIABLES limits, reveal, cardDrawn

cardsVars == <<limits, reveal, cardDrawn>>

Cards == INSTANCE Cards WITH
    Limits <- CardLimits, Widths <- CardWidths, Lines <- CardLines, MaxLines <- MaxCardLines,
    Rows <- CardRows, Boxes <- CardBoxes, drawn <- cardDrawn

----------------------------------------------------------------------------
(* The status line.                                                         *)

CONSTANTS
    LineWidths,          \* the terminal's widths
    Project,             \* the project's name
    Reasons,             \* why a connection drops
    Notices,             \* the joins' notices
    Update,              \* the update alert whole
    Medians,             \* latencies as the p50 is told
    MaxCounted           \* bound: requests recorded

VARIABLES
    lineWidth, prompt, connection, lost, counted, worked, unworked, median, notice, update

statusVars ==
    <<lineWidth, prompt, connection, lost, counted, worked, unworked, median, notice, update>>

Status == INSTANCE StatusLine WITH
    Widths <- LineWidths, P50s <- Medians, MaxRequests <- MaxCounted,
    width <- lineWidth, state <- connection,
    count <- counted, ok <- worked, failed <- unworked, p50 <- median

----------------------------------------------------------------------------
(* Properties.                                                              *)

\* Limits count what a card shows and say what it leaves out, nothing shown
\* drives the terminal, and rows and boxes are as wide as each other; and on the
\* status line what gives way to an alert or a reason does so for one that can
\* be read.
LinesFit ==
    /\ Cards!TypeOK /\ Cards!EarlyCutsAreExact /\ Cards!FirstHeadersAreShown
    /\ Cards!RowsFit /\ Cards!BoxesAreStraight
    /\ Status!TypeOK /\ Status!AlertsAreReadable /\ Status!AlertsShowWhereTheyCan
    /\ Status!ReasonsAreReadable /\ Status!WiderShowsNoLess
=============================================================================
