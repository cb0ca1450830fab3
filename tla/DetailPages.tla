----------------------------- MODULE DetailPages ----------------------------
(* internal/tui/detail.go: the selected request's open tab, read by pages,    *)
(* while requests arrive and are evicted, and the screen changes.             *)
EXTENDS Integers, Layout

CONSTANTS
    Heights,         \* the screen's heights
    MaxOthers,       \* bound: lines of alerts, filter, toasts and keys
    TabCount,        \* the number of tabs
    MaxRequests,     \* bound: requests recorded
    Cap,             \* the requests the history keeps
    Lines(_, _, _)   \* the lines of a request's tab, beside the list or below it

PagesAssumption ==
    /\ Heights \subseteq Nat /\ {MaxOthers, MaxRequests} \subseteq Nat
    /\ {TabCount, Cap} \subseteq Nat \ {0}
    /\ \A number \in 1..MaxRequests, tab \in 0..TabCount - 1, split \in BOOLEAN :
          Lines(number, tab, split) \in Nat

VARIABLES
    last,                    \* the newest request's number
    paused, selected,        \* the selection is held on a request
    tab,                     \* the open tab
    scroll,                  \* detailScroll
    height, split, others,   \* the screen, and the other lines
    reading                  \* history: the last key was a page's

vars == <<last, paused, selected, tab, scroll, height, split, others, reading>>

----------------------------------------------------------------------------
(* What shows.                                                              *)

Tabs == 0..TabCount - 1

MaxOf(a, b) == IF a > b THEN a ELSE b
MinOf(a, b) == IF a < b THEN a ELSE b

Oldest == MaxOf(1, last - Cap + 1)

\* selectedIndex's request: an evicted one falls to the next.
Number == IF paused THEN MaxOf(selected, Oldest) ELSE last

Content == Lines(Number, tab, split)

Rows == DetailRows(DetailHeight(Panes(height, others), split))

\* From the first line to the last full page's.
Within(first) == MaxOf(0, MinOf(first, Content - Rows))

\* scrolled: any other request or tab shows from the top.
Scrolled ==
    IF scroll.number # Number \/ scroll.tab # tab THEN 0 ELSE Within(scroll.lines)

\* The lines that show: with more below, their note takes the last one's row.
Hidden == Content - Scrolled > Rows
Showing == IF Hidden THEN Rows - 1 ELSE Content - Scrolled

----------------------------------------------------------------------------
(* The steps.                                                               *)

PageLength == MaxOf(1, Rows - 1)

\* Mutant: pages go on from where they were before a resize.
FromScroll == IF scroll.number = Number /\ scroll.tab = tab THEN scroll.lines ELSE 0

PagesFrom == Scrolled

Hold == paused' = TRUE /\ selected' = Number

\* scrollDetail
ScrollDetail(pages) ==
    /\ last > 0
    /\ Hold
    /\ scroll' = [number |-> Number, tab |-> tab,
                  lines |-> Within(PagesFrom + pages * PageLength)]
    /\ reading' = TRUE
    /\ UNCHANGED <<last, tab, height, split, others>>

PageUp == ScrollDetail(-1)
PageDown == ScrollDetail(1)

\* up and down
Move(delta) ==
    /\ last > 0
    /\ paused' = TRUE
    /\ selected' = MinOf(MaxOf(Oldest, Number + delta), last)
    /\ reading' = FALSE
    /\ UNCHANGED <<last, tab, scroll, height, split, others>>

Follow ==
    /\ paused' = FALSE /\ reading' = FALSE
    /\ UNCHANGED <<last, selected, tab, scroll, height, split, others>>

\* left and right
Turn(delta) ==
    /\ tab' = (tab + TabCount + delta) % TabCount
    /\ reading' = FALSE
    /\ UNCHANGED <<last, paused, selected, scroll, height, split, others>>

\* A request is recorded, and the oldest makes room.
Arrive ==
    /\ last < MaxRequests
    /\ last' = last + 1
    /\ UNCHANGED <<paused, selected, tab, scroll, height, split, others, reading>>

\* A resize, a toast, an alert, the filter's line or the keys' columns.
Resize ==
    /\ height' \in Heights /\ split' \in BOOLEAN /\ others' \in 1..MaxOthers
    /\ UNCHANGED <<last, paused, selected, tab, scroll, reading>>

Init ==
    /\ last = 0 /\ paused = FALSE /\ selected = 0
    /\ tab = 0 /\ scroll = [number |-> 0, tab |-> 0, lines |-> 0]
    /\ height \in Heights /\ split \in BOOLEAN /\ others \in 1..MaxOthers
    /\ reading = FALSE

Next ==
    \/ PageUp \/ PageDown \/ Follow \/ Arrive \/ Resize
    \/ \E delta \in {-1, 1} : Move(delta) \/ Turn(delta)

Spec == Init /\ [][Next]_vars

----------------------------------------------------------------------------
(* Properties.                                                              *)

\* Every variable has its type, and a held selection is a request recorded.
TypeOK ==
    /\ last \in 0..MaxRequests /\ {paused, split, reading} \subseteq BOOLEAN
    /\ selected \in 0..last /\ (paused => selected > 0)
    /\ tab \in Tabs
    /\ scroll \in [number : 0..last, tab : Tabs, lines : Nat]
    /\ height \in Heights /\ others \in 1..MaxOthers

\* A key scrolls only while there is more: what is shown moves on a page down
\* that hides lines, and back on a page up below the top, also after a resize
\* left the scroll past the last page.
PageKeysMove ==
    /\ PageDown /\ Hidden => Scrolled' > Scrolled
    /\ PageUp /\ Scrolled > 0 => Scrolled' < Scrolled

\* Pages overlap or meet: going down, the new page starts no later than the
\* first line the note hid, and going up it still shows the line above.  A panel
\* of one row has only the note to show.
PagesLeaveNoGap ==
    Rows > 1 =>
        /\ PageDown => Scrolled' <= Scrolled + Showing
        /\ PageUp => Scrolled' + Showing' >= Scrolled

\* "pausing on the request so an arrival doesn't take its place": the page being
\* read stays until a key, a resize or the request's own eviction.
ArrivalsKeepThePage ==
    Arrive /\ reading /\ Number >= Oldest' => <<Number, Scrolled>>' = <<Number, Scrolled>>
=============================================================================
