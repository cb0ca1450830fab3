------------------------------- MODULE Layout -------------------------------
(* internal/tui: how the full-screen view shares the screen's lines, and what *)
(* a framed panel shows of its lines.                                         *)
EXTENDS Integers

Least(a, b) == IF a < b THEN a ELSE b
Most(a, b) == IF a > b THEN a ELSE b

\* The height left to the panes: the header and the source line, or the page's
\* title, always take two lines, alerts, filter, toasts and keys the others.
Panes(height, others) == Most(0, height - 2 - others)

\* The list has the panes' height beside the detail, and two fifths of it, six
\* lines at least, above it.
ListHeight(panes, split) == IF split THEN panes ELSE Least(panes, Most(6, (panes * 2) \div 5))

DetailHeight(panes, split) == IF split THEN panes ELSE panes - ListHeight(panes, split)

ListRows(panes, split) == Most(0, ListHeight(panes, split) - 3)

DetailRows(detailHeight) == Most(1, detailHeight - 4)

\* Many routes leave half the room to the selected one.
TableHeight(panes, routes) == Least(Least(panes, routes + 4), Most(panes \div 2, 5))

TableRows(tableHeight) == Most(1, tableHeight - 4)

\* panel: of its lines, those that show; a note takes the last one's place when
\* not all do.  It is as high as it is told to be.
PanelShows(height, lines) ==
    IF height < 2 THEN 0
    ELSE IF lines <= height - 2 THEN lines
    ELSE Most(0, height - 3)
=============================================================================
