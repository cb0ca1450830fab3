---------------------------- MODULE CardsInputs -----------------------------
(* Values Cards is checked with: every line of up to two runes of every kind   *)
(* and some longer than any limit, and widths about every bound of a row and a *)
(* box.                                                                        *)
EXTENDS Integers, Sequences, SequencesExt

SomeWidths == {1, 4, 5, 6, 10, 17, 20, 30, 60, 61, 62, 63, 70, 71, 80, 90, 120}

SomeLimits ==
    {[lines |-> 0, headers |-> 0, chars |-> 0]}
      \cup {[lines |-> n, headers |-> n, chars |-> m] : n \in {1, 2}, m \in 1..3}

SomeLines ==
    SeqOf({"a", "tab", "escape", "invalid"}, 2)
      \cup {<<"a", "cr", "a", "a">>, <<"escape", "tab", "a">>, <<"a", "invalid", "tab">>,
            <<"tab", "tab", "tab", "tab">>, <<"a", "a", "a", "escape">>}

Header(name, rank, sensitive) == [name |-> name, rank |-> rank, sensitive |-> sensitive]

SomeHeaders ==
    {Header("a", 1, FALSE), Header("Authorization", 2, TRUE), Header("b", 3, FALSE)}

SomeRows == [left : {12}, right : {27, 35}, source : {7, 20}, path : {5, 12, 30}, summary : {5, 20}]

SomeBoxes == [title : {0, 1, 9}, label : {0, 12}, line : {0, 1, 13, 60}]
=============================================================================
