---------------------------- MODULE RequestList ----------------------------
(* internal/tui: the full-screen view's request list, which keeps the        *)
(* session's history by its events, its selection, its rows on the screen    *)
(* and filter.go's filter.  One message of the event loop is one step.       *)
EXTENDS Integers, Sequences, FiniteSets, Functions

CONSTANTS
    NoText,          \* no filter; the other one, status:error, shows failures
    Heights,         \* the rows screens of different heights leave the list
    MaxRecords       \* bound: requests recorded

ListAssumption ==
    /\ Heights \subseteq Nat /\ Heights # {}
    /\ MaxRecords \in Nat

VARIABLES
    entries, last,        \* the view's entries, oldest first; the last number
    selected,             \* the request the selection is held on, 0 to follow
    offset, height,       \* the list's first row; the screen
    filter,
    waiting,              \* w waits for the target
    toast, alert          \* a line above the keys, a line under the header

vars == <<entries, last, selected, offset, height, filter, waiting, toast, alert>>

Texts == {NoText, "status:error"}

NoFilter == [editing |-> FALSE, input |-> NoText, text |-> NoText, numbers |-> <<>>]

----------------------------------------------------------------------------
(* The list.                                                                *)

MaxOf(a, b) == IF a > b THEN a ELSE b
MinOf(a, b) == IF a < b THEN a ELSE b
Line(shown) == IF shown THEN 1 ELSE 0

\* Sets of numbers in order: how many come before n, the one in a row, counted
\* from 0, and all of them.
Before(S, n) == Cardinality({m \in S : m < n})
InRow(S, row) == CHOOSE n \in S : Before(S, n) = row
InOrder(S) == [i \in 1..Cardinality(S) |-> InRow(S, i - 1)]

\* filter.shows
Shows(n) == filter.text = NoText \/ n \in Range(filter.numbers)

Matches(entry, text) == text = NoText \/ entry.failed

Numbers(es) == {es[i].number : i \in DOMAIN es}

ShownOf(es) == {n \in Numbers(es) : Shows(n)}

\* The numbers of the entries the filter shows.
Shown == ShownOf(entries)

Count == Cardinality(Shown)

HasSelection == Shown # {}

\* The selected row, from 0.  A selection evicted or hidden falls to the next
\* row, else the last.
SelectedRow ==
    IF selected = 0 THEN Count - 1 ELSE MinOf(Before(Shown, selected), Count - 1)

SelectedNumber == InRow(Shown, SelectedRow)

\* layout: the other lines leave the list its rows.
Rows ==
    MaxOf(0, height - Line(filter.editing \/ filter.text # NoText) - Line(toast) - Line(alert))

\* firstRow: where it was, moved just enough to show the selection.
FirstRow(from, row, rows, count) ==
    MaxOf(0, MinOf(MinOf(MaxOf(from, row - rows + 1), row), count - rows))

\* Update: every message ends with the first row of the list it left.
Scrolled(from) ==
    offset' = FirstRow(from, MaxOf(0, SelectedRow)', Rows', Count')

----------------------------------------------------------------------------
(* record.                                                                  *)

\* Mutant: offset counts every evicted row, also those the filter hides.
AllRows(gone) == Len(gone)

\* offset counts the rows the filter shows.
ShownRows(gone) == Cardinality(ShownOf(gone))

FromNumber(numbers, first) == SubSeq(numbers, Before(Range(numbers), first) + 1, Len(numbers))

\* filter.recorded
FilterRecorded(entry, first) ==
    IF filter.text = NoText THEN filter
    ELSE [filter EXCEPT !.numbers =
            FromNumber(filter.numbers, first)
                \o (IF Matches(entry, filter.text) THEN <<entry.number>> ELSE <<>>)]

\* The session evicts the oldest requests, never the new one; a replay is
\* announced.
Record ==
    /\ last < MaxRecords
    /\ last' = last + 1
    /\ \E failed \in BOOLEAN, dropped \in 0..Len(entries) :
          LET entry == [number |-> last + 1, failed |-> failed]
          IN  /\ entries' = Append(SubSeq(entries, dropped + 1, Len(entries)), entry)
              /\ filter' = FilterRecorded(entry, last + 1 - Len(entries) + dropped)
              /\ toast' \in {toast, TRUE}
              /\ UNCHANGED <<selected, height, waiting, alert>>
              /\ Scrolled(offset - ShownRows(SubSeq(entries, 1, dropped)))

----------------------------------------------------------------------------
(* The keys.                                                                *)

Selects(n) ==
    /\ selected' = n
    /\ UNCHANGED <<entries, last, height, filter, toast, alert>>

\* move
Move(delta) ==
    /\ HasSelection
    /\ Selects(InRow(Shown, MinOf(MaxOf(0, SelectedRow + delta), Count - 1)))
    /\ UNCHANGED waiting

\* scrollDetail pauses on the selected request, and w waits on it.
Hold(waits) ==
    /\ HasSelection
    /\ Selects(SelectedNumber)
    /\ waiting' = waits

Follow == Selects(0) /\ UNCHANGED waiting

Edits(f) ==
    /\ filter' = f
    /\ UNCHANGED <<entries, last, selected, height, waiting, toast, alert>>

OpenFilter == Edits([filter EXCEPT !.editing = TRUE, !.input = filter.text])

\* escape: w's wait, else the alerts, else the filter.
Escape ==
    \/ /\ waiting /\ waiting' = FALSE
       /\ UNCHANGED <<entries, last, selected, height, filter, toast, alert>>
    \/ /\ ~ waiting /\ alert /\ alert' = FALSE
       /\ UNCHANGED <<entries, last, selected, height, filter, waiting, toast>>
    \/ ~ waiting /\ ~ alert /\ Edits(NoFilter)

\* filter.apply
Matching(text) == {e.number : e \in {f \in Range(entries) : Matches(f, text)}}

Applied(text) ==
    [NoFilter EXCEPT !.text = text,
                     !.numbers = IF text = NoText THEN <<>>
                                 ELSE InOrder(Matching(text))]

\* key
Key ==
    /\ ~ filter.editing
    /\ \/ \E delta \in {-1, 1} : Move(delta)
       \/ Hold(waiting) \/ Hold(TRUE)
       \/ Follow \/ OpenFilter \/ Escape

\* editFilter
EditFilter ==
    /\ filter.editing
    /\ \/ \E text \in Texts : Edits([filter EXCEPT !.input = text])
       \/ Edits(Applied(filter.input))
       \/ Edits(NoFilter)

\* A reply or a toast's end, an alert, a resize, the end of a wait.
Message ==
    /\ UNCHANGED <<entries, last, selected, filter>>
    /\ \/ toast' = ~ toast /\ UNCHANGED <<height, waiting, alert>>
       \/ alert' = TRUE /\ UNCHANGED <<height, waiting, toast>>
       \/ height' \in Heights /\ UNCHANGED <<waiting, toast, alert>>
       \/ waiting' = FALSE /\ UNCHANGED <<height, toast, alert>>

Init ==
    /\ entries = <<>> /\ last = 0
    /\ selected = 0 /\ offset = 0 /\ height \in Heights
    /\ filter = NoFilter /\ waiting = FALSE
    /\ toast = FALSE /\ alert = FALSE

Next ==
    \/ Record
    \/ (Key \/ EditFilter \/ Message) /\ Scrolled(offset)

Spec == Init /\ [][Next]_vars

----------------------------------------------------------------------------
(* Properties.                                                              *)

\* Every variable has its type, and the entries are numbered without a gap up to
\* the last.
TypeOK ==
    /\ entries \in Seq([number : Nat, failed : BOOLEAN])
    /\ \A i \in 1..Len(entries) : entries[i].number = last - Len(entries) + i
    /\ selected \in 0..last
    /\ offset \in 0..Len(entries) /\ height \in Heights
    /\ filter \in [editing : BOOLEAN, input : Texts, text : Texts, numbers : Seq(Nat)]
    /\ {waiting, toast, alert} \subseteq BOOLEAN

\* The numbers filter keeps up with the events are those it would get by
\* matching the whole list again.
FilterIsFresh == filter.numbers = Applied(filter.text).numbers

TopNumber == InRow(Shown, offset)

\* Whatever the message, the selection is on screen and no row is wasted; and
\* while the selection is held, requests that arrive or are evicted elsewhere
\* leave the list's rows where they are.
RowsHoldStill ==
    /\ HasSelection' /\ Rows' > 0 =>
          /\ offset' <= SelectedRow' /\ SelectedRow' < offset' + Rows'
          /\ offset' <= MaxOf(0, Count' - Rows')
    /\ /\ last' # last /\ HasSelection /\ Rows' = Rows /\ Rows > 0
       /\ SelectedNumber = selected /\ selected \in Shown'
       /\ TopNumber \in Shown'
       => TopNumber' = TopNumber
=============================================================================
