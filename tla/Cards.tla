-------------------------------- MODULE Cards -------------------------------
(* internal/cards: what a card shows of a request, under the three --max-*    *)
(* limits, and how rows and boxes fit the terminal. Text is a sequence of     *)
(* runes where its characters matter, and a number of columns where they      *)
(* don't.                                                                     *)
EXTENDS Integers, Sequences, SequencesExt, FiniteSets

CONSTANTS
    Limits,          \* [lines, headers, chars], 0 for no limit
    Widths,          \* columns of the terminal
    Lines,           \* lines of bodies and values, sequences of runes
    MaxLines,        \* bound: lines of a body
    HeaderNames,     \* [name, rank, sensitive]; rank is the order without case
    Rows,            \* [left, right, source, path, summary], in columns
    SourceWidth,     \* the widest source's name
    Boxes            \* [title, label, line], label 0 for none

CardsAssumption ==
    /\ MaxLines \in Nat /\ SourceWidth \in Nat
    /\ \A most \in Limits : most.lines \in Nat /\ most.headers \in Nat /\ most.chars \in Nat
    /\ Widths \subseteq Nat \ {0}
    /\ Lines \subseteq Seq(STRING)
    /\ IsFiniteSet(HeaderNames)
    /\ \A h \in HeaderNames : h.rank \in Nat
    /\ \A h, other \in HeaderNames : h.rank = other.rank => h = other
    /\ Rows \subseteq [left : Nat, right : Nat, source : Nat, path : Nat, summary : Nat]
    /\ Boxes \subseteq [title : Nat, label : Nat, line : Nat]

VARIABLES
    limits,          \* --max-body-lines, --max-headers, --max-value-chars
    reveal,          \* --show-sensitive-headers
    drawn            \* the card drawn: what, of what, at which width

vars == <<limits, reveal, drawn>>

----------------------------------------------------------------------------
(* Text.                                                                    *)

\* Runes that are text as they are, and those that would drive a terminal.
Controls == {"tab", "cr", "escape"}

\* escape: a tab stays in text of several lines; a byte that isn't UTF-8 is one
\* replacement character.
Escape(rune, line) ==
    CASE rune = "tab" /\ line -> <<"backslash", "t">>
      [] rune = "cr" -> <<"backslash", "r">>
      [] rune = "escape" -> <<"backslash", "x", "1", "b">>
      [] rune = "invalid" -> <<"replacement">>
      [] OTHER -> <<rune>>

\* Sanitize and Line
Sanitize(text) == FlattenSeq([i \in DOMAIN text |-> Escape(text[i], FALSE)])
Line(text) == FlattenSeq([i \in DOMAIN text |-> Escape(text[i], TRUE)])

\* runePrefix, of a limit that isn't 0.
Prefix(text, n) == SubSeq(text, 1, IF Len(text) < n THEN Len(text) ELSE n)

\* value
Value(text) ==
    IF limits.chars = 0 \/ Len(text) <= limits.chars THEN text
    ELSE Append(Prefix(text, limits.chars), "dots")

\* expandTabs
ExpandTabs(text) ==
    FlattenSeq([i \in DOMAIN text |->
        IF text[i] = "tab" THEN <<" ", " ", " ", " ">> ELSE <<text[i]>>])

\* Mutant: a line is cut at the limit before it's escaped.
CutAtTheLimit(line) ==
    ExpandTabs(Value(Sanitize(IF limits.chars = 0 THEN line ELSE Prefix(line, limits.chars))))

\* bodyLine: cut a rune past the limit first.
BodyLine(line) ==
    ExpandTabs(Value(Sanitize(IF limits.chars = 0 THEN line ELSE Prefix(line, limits.chars + 1))))

\* limit
Limit(n, most) == IF most > 0 /\ n > most THEN most ELSE n

\* bodyLines and Body: the lines shown, and how many aren't.
Body(lines) ==
    LET shown == Limit(Len(lines), limits.lines)
    IN  [shown |-> [i \in 1..shown |-> BodyLine(lines[i])], omitted |-> Len(lines) - shown]

Hidden == <<"hidden">>

\* The names in order: how many come before one, and the one in a place.
Before(names, h) == Cardinality({other \in names : other.rank < h.rank})
InPlace(names, i) == CHOOSE h \in names : Before(names, h) = i - 1

\* Headers: the names in order, up to the limit.
Headers(headers) ==
    LET keys == [i \in 1..Cardinality(DOMAIN headers) |-> InPlace(DOMAIN headers, i)]
        shown == SubSeq(keys, 1, Limit(Len(keys), limits.headers))
    IN  [shown |-> [i \in DOMAIN shown |->
            <<shown[i], IF shown[i].sensitive /\ ~reveal THEN Hidden ELSE Value(Line(headers[shown[i]]))>>],
         omitted |-> Len(keys) - Len(shown)]

----------------------------------------------------------------------------
(* Columns.                                                                 *)

Least(a, b) == IF a < b THEN a ELSE b
Most(a, b) == IF a > b THEN a ELSE b

\* truncate, Pad and strings.Repeat
Truncate(columns, room) == IF columns <= room THEN columns ELSE Most(0, room)

UnknownSource == 7
MinPath == 12
MinSummary == 8

\* The source's column: a long name gives way to the path.
SourceColumn(row, width) ==
    Least(SourceWidth, Most(UnknownSource, width - row.left - row.right - MinPath - 4))

\* Listen.row: the columns of each part.
Row(row, width) ==
    LET left == row.left + SourceColumn(row, width) + 2
        room == Most(MinPath, width - left - row.right - 2)
        summaryRoom == room - row.path - 2
        both == row.summary <= summaryRoom \/ summaryRoom >= MinSummary
        path == IF both THEN row.path ELSE Truncate(row.path, room)
        summary == IF both THEN Truncate(row.summary, summaryRoom) ELSE 0
        used == left + path + (IF both THEN 2 + summary ELSE 0)
    IN  [source |-> Truncate(row.source, SourceColumn(row, width)), path |-> path, summary |-> summary,
         columns |-> used + Most(2, width - used - row.right) + row.right]

\* innerWidth
InnerWidth(width) == Most(1, width - 4)

\* box: the width its content needs, up to the terminal's.
Inner(box, width) ==
    Least(Most(Most(box.title + 3 + (IF box.label = 0 THEN 0 ELSE box.label + 2), box.line), 1),
          InnerWidth(width))

\* The columns the top border leaves its title.
TitleRoom(inner, end) == inner - end - 1

\* frame: the columns of the top border, of a line and of the bottom one.
Frame(box, width) ==
    LET inner == Inner(box, width)
        end == IF box.label = 0 THEN 2 ELSE box.label + 4
        title == Truncate(box.title, TitleRoom(inner, end))
    IN  [title |-> title,
         top |-> 3 + title + 1 + Most(0, inner - title - end) + end,
         side |-> 2 + inner + 2, bottom |-> 1 + inner + 2 + 1]

----------------------------------------------------------------------------
(* The steps. A card is drawn from the limits, the width and what it shows    *)
(* alone, never from the cards before it.                                     *)

Nothing == [kind |-> "nothing"]

Draw(kind, of, width, as) ==
    /\ drawn = Nothing
    /\ drawn' = [kind |-> kind, of |-> of, width |-> width, as |-> as]
    /\ UNCHANGED <<limits, reveal>>

ShowBody(lines) == Draw("body", lines, 0, Body(lines))
ShowHeaders(headers) == Draw("headers", headers, 0, Headers(headers))
DrawRow(row, width) == Draw("row", row, width, Row(row, width))
DrawBox(box, width) == Draw("box", box, width, Frame(box, width))

Bodies == UNION {[1..n -> Lines] : n \in 1..MaxLines}
HeaderSets == {[h \in names |-> value] : names \in SUBSET HeaderNames, value \in Lines}

Init == limits \in Limits /\ reveal \in BOOLEAN /\ drawn = Nothing

Next ==
    \/ \E lines \in Bodies : ShowBody(lines)
    \/ \E headers \in HeaderSets : ShowHeaders(headers)
    \/ \E row \in Rows, width \in Widths : DrawRow(row, width)
    \/ \E box \in Boxes, width \in Widths : DrawBox(box, width)

Spec == Init /\ [][Next]_vars

----------------------------------------------------------------------------
(* Properties.                                                              *)

\* Every variable has its type, and no rune that would drive the terminal is drawn.
TypeOK ==
    /\ limits \in Limits /\ reveal \in BOOLEAN
    /\ drawn.kind \in {"nothing", "body", "headers", "row", "box"}
    /\ drawn.kind = "body" =>
          \A i \in DOMAIN drawn.as.shown : Range(drawn.as.shown[i]) \cap Controls = {}
    /\ drawn.kind = "headers" =>
          \A i \in DOMAIN drawn.as.shown : Range(drawn.as.shown[i][2]) \cap Controls = {}

\* A body's line is cut early so that a long one costs nothing, and yet shows
\* what the whole line would: the limit counts what's shown, and a line that
\* isn't whole says so.
EarlyCutsAreExact ==
    drawn.kind = "body" =>
        \A i \in DOMAIN drawn.as.shown :
            LET line == drawn.of[i]
                whole == Sanitize(line)
            IN  drawn.as.shown[i] =
                  ExpandTabs(IF limits.chars = 0 \/ Len(whole) <= limits.chars THEN whole
                             ELSE Append(SubSeq(whole, 1, limits.chars), "dots"))

\* The headers shown are the first by name, in any case, and with those counted
\* as left out they are all of them; a sensitive value is shown only if asked for.
FirstHeadersAreShown ==
    drawn.kind = "headers" =>
        LET shown == {drawn.as.shown[i][1] : i \in DOMAIN drawn.as.shown}
            Rest == DOMAIN drawn.of \ shown
        IN  /\ Cardinality(shown) = Len(drawn.as.shown)
            /\ drawn.as.omitted = Cardinality(Rest)
            /\ limits.headers > 0 => Cardinality(shown) <= limits.headers
            /\ \A h \in shown, other \in Rest : h.rank < other.rank
            /\ ~reveal => \A i \in DOMAIN drawn.as.shown :
                  drawn.as.shown[i][1].sensitive => drawn.as.shown[i][2] = Hidden

\* A row is as wide as the terminal, so that times line up, unless it is too
\* narrow even for a short source and a few columns of the path; the path always
\* keeps those.
RowsFit ==
    drawn.kind = "row" =>
        LET row == drawn.of
            least == row.left + Least(SourceWidth, UnknownSource) + MinPath + row.right + 4
        IN  /\ drawn.width >= least => drawn.as.columns = drawn.width
            /\ drawn.as.path >= Least(row.path, MinPath)
            /\ drawn.as.summary > 0 => drawn.as.path = row.path

\* A box's borders are as wide as its lines and never wider than the terminal,
\* and its title is whole if the terminal has room for it, unless the label
\* alone is too wide for the terminal.
BoxesAreStraight ==
    drawn.kind = "box" =>
        LET box == drawn.of
            need == box.title + 3 + (IF box.label = 0 THEN 0 ELSE box.label + 2)
            end == IF box.label = 0 THEN 2 ELSE box.label + 4
        IN  /\ drawn.width >= Most(5, end + 4) =>
                  /\ drawn.as.top = drawn.as.side /\ drawn.as.bottom = drawn.as.side
                  /\ drawn.as.side <= drawn.width
            /\ drawn.width - 4 >= need => drawn.as.title = box.title
=============================================================================
