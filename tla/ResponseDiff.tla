---------------------------- MODULE ResponseDiff ----------------------------
(* internal/session/diff.go: Compare, which sets a replay's response beside   *)
(* its original's and keeps the first lines that differ.                      *)
EXTENDS Integers, Sequences

CONSTANTS
    TextLine,        \* the lines of bodies
    MaxLines,        \* bound: lines of a body
    MaxDiffLines     \* the changed lines a comparison keeps

ASSUME DiffAssumption == MaxLines \in Nat /\ MaxDiffLines \in Nat

VARIABLES
    failed,          \* a side got no response
    texts,           \* both bodies are text
    equal,           \* the bodies are equal, line ends and JSON's layout too
    before, after,   \* the bodies' lines
    phase,           \* where Compare is
    front, back,     \* lines both share that are stripped from either end
    keepRemoved, keepAdded, binary    \* the comparison

diffVars == <<failed, texts, equal, before, after, phase, front, back, keepRemoved, keepAdded, binary>>

----------------------------------------------------------------------------

MinOf(a, b) == IF a < b THEN a ELSE b
MaxOf(a, b) == IF a > b THEN a ELSE b

\* len(removed) and len(added) as they are stripped.
Removed == Len(before) - front - back
Added == Len(after) - front - back

More == Removed + Added - keepRemoved - keepAdded

\* Only text is compared by line, and only when both sides got a response.
Compared == ~failed /\ ~equal /\ texts

Begin ==
    /\ phase = "begin"
    /\ binary' = (~failed /\ ~equal /\ ~texts)
    /\ phase' = IF Compared THEN "front" ELSE "end"
    /\ UNCHANGED <<failed, texts, equal, before, after, front, back, keepRemoved, keepAdded>>

StripFront ==
    /\ phase = "front"
    /\ IF Removed > 0 /\ Added > 0 /\ before[front + 1] = after[front + 1]
       THEN front' = front + 1 /\ phase' = phase
       ELSE front' = front /\ phase' = "back"
    /\ UNCHANGED <<failed, texts, equal, before, after, back, keepRemoved, keepAdded, binary>>

\* Mutant: the back is stripped of the whole bodies, the front's lines too.
LeftOfTheBodies == back < Len(before) /\ back < Len(after)

BothLeft == Removed > 0 /\ Added > 0

LastIsShared == before[Len(before) - back] = after[Len(after) - back]

StripBack ==
    /\ phase = "back"
    /\ IF BothLeft /\ LastIsShared
       THEN back' = back + 1 /\ phase' = phase
       ELSE back' = back /\ phase' = "keep"
    /\ UNCHANGED <<failed, texts, equal, before, after, front, keepRemoved, keepAdded, binary>>

\* Either side keeps at least half the lines when both have more.
RoomForRemoved == MaxOf(MaxDiffLines \div 2, MaxDiffLines - Added)

Keep ==
    /\ phase = "keep"
    /\ phase' = "end"
    /\ keepRemoved' = MinOf(Removed, RoomForRemoved)
    /\ keepAdded' = MinOf(Added, MaxDiffLines - keepRemoved')
    /\ UNCHANGED <<failed, texts, equal, before, after, front, back, binary>>

Bodies == UNION {[1..n -> TextLine] : n \in 0..MaxLines}

DiffInit ==
    /\ failed \in BOOLEAN /\ texts \in BOOLEAN
    /\ before \in Bodies /\ after \in Bodies
    /\ equal \in BOOLEAN /\ (equal => before = after)
    /\ phase = "begin"
    /\ front = 0 /\ back = 0
    /\ keepRemoved = 0 /\ keepAdded = 0 /\ binary = FALSE

DiffNext == Begin \/ StripFront \/ StripBack \/ Keep

DiffSpec == DiffInit /\ [][DiffNext]_diffVars

----------------------------------------------------------------------------
(* Properties.                                                              *)

\* Every variable has its type, and no more lines are kept than are left.
DiffTypeOK ==
    /\ failed \in BOOLEAN /\ texts \in BOOLEAN /\ equal \in BOOLEAN /\ binary \in BOOLEAN
    /\ before \in Seq(TextLine) /\ after \in Seq(TextLine)
    /\ phase \in {"begin", "front", "back", "keep", "end"}
    /\ front \in Nat /\ back \in Nat
    /\ keepRemoved \in 0..Removed /\ keepAdded \in 0..Added

\* What a comparison leaves out is the same on both sides, line by line from
\* either end, and no line of either body is left out twice: the front and the
\* back stripped do not overlap, also when a line is repeated.
OnlySharedLinesAreLeftOut ==
    /\ front + back <= Len(before) /\ front + back <= Len(after)
    /\ \A i \in 1..front : before[i] = after[i]
    /\ \A i \in 1..back : before[Len(before) - i + 1] = after[Len(after) - i + 1]

\* The lines shown begin and end with lines that differ, while both sides have
\* any left.
FirstLinesDiffer ==
    phase \in {"keep", "end"} /\ Compared /\ BothLeft =>
        before[front + 1] # after[front + 1] /\ ~ LastIsShared

\* "at most maxDiffLines together; More counts the rest": the room is used up
\* before a changed line is only counted, and neither side's takes the half
\* that the other's could use.
BothSidesShow ==
    phase = "end" /\ Compared =>
        /\ keepRemoved + keepAdded <= MaxDiffLines
        /\ More > 0 => keepRemoved + keepAdded = MaxDiffLines
        /\ keepRemoved >= MinOf(Removed, MaxDiffLines \div 2)
        /\ keepAdded >= MinOf(Added, MaxDiffLines \div 2)

\* A comparison leaves out only what both sides share, no line twice, shows the
\* first lines that differ, and shows both sides.
ComparisonIsTrue == OnlySharedLinesAreLeftOut /\ FirstLinesDiffer /\ BothSidesShow
=============================================================================
