-------------------------------- MODULE Picker --------------------------------
(* internal/tui: the box hookspot project use picks a project in.            *)
EXTENDS Integers, Sequences

CONSTANT Heights      \* the terminal's heights; 0 until bubbletea says

ASSUME HeightsAssumption == Heights \subseteq Nat

VARIABLES
    candidates,      \* picker.projects, never empty while it is open
    selected,        \* picker.selected: a row from 0
    offset,          \* picker.offset: the first row shown
    height           \* picker.height

pickerVars == <<candidates, selected, offset, height>>

MinOf(a, b) == IF a <= b THEN a ELSE b
MaxOf(a, b) == IF a >= b THEN a ELSE b

\* How many projects fit under the border, the rule and the keys.
Rows(h) == MinOf(Len(candidates), MaxOf(1, h - 4))

\* Mutant: a window that grew keeps its first row.
ScrolledDown(s, h) ==
    IF h = 0 THEN offset ELSE MinOf(MaxOf(offset, s - Rows(h) + 1), s)

\* Scrolling waits for the size.
Scrolled(s, h) ==
    IF h = 0 THEN offset
    ELSE MinOf(MinOf(MaxOf(offset, s - Rows(h) + 1), s), Len(candidates) - Rows(h))

\* The rows View draws from candidates, from 0.
Window == offset..(offset + Rows(height) - 1)

Closed ==
    candidates = <<>> /\ selected = 0 /\ offset = 0 /\ height = 0

\* newPicker: the saved project, if it is listed, is selected first.
OpenPicker(projects, current) ==
    /\ candidates' = projects
    /\ selected' = MaxOf(0, current)
    /\ offset' = 0 /\ height' = 0

ClosePicker == candidates' = <<>> /\ selected' = 0 /\ offset' = 0 /\ height' = 0

\* Up and down wrap around.
MoveTo(row) ==
    /\ selected' = row
    /\ offset' = Scrolled(row, height)
    /\ UNCHANGED <<candidates, height>>

Up == MoveTo((selected - 1 + Len(candidates)) % Len(candidates))
Down == MoveTo((selected + 1) % Len(candidates))

Resize(h) ==
    /\ height' = h
    /\ offset' = Scrolled(selected, h)
    /\ UNCHANGED <<candidates, selected>>

PickerNext == candidates # <<>> /\ (Up \/ Down \/ \E h \in Heights : Resize(h))

----------------------------------------------------------------------------

\* The project enter would choose is on screen: whatever the keys and the sizes,
\* the rows that are drawn, all of them in the list, hold the selection once the
\* size is known.
SelectionIsShown ==
    candidates # <<>> =>
        LET listed == 0..(Len(candidates) - 1)
        IN  selected \in listed /\ Window \subseteq listed /\ (height > 0 => selected \in Window)
=============================================================================
