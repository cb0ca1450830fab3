----------------------------- MODULE MCFullScreen ----------------------------
(* The parts of the full-screen view, each by itself: the part chosen at the  *)
(* start moves, and the others stay as they start.                            *)
EXTENDS FullScreen

VARIABLES moving

Parts == {"list", "wait", "screen", "pages", "sources"}

\* Two outages, of one and two seconds.
TwoOutages == <<1, 2>>

\* Tabs shorter and longer than the panels, and longer when they wrap beside the
\* list.
TabLines(number, of, beside) ==
    (IF of = 0 THEN 2 ELSE 5 + 4 * number) + (IF beside THEN 3 ELSE 0)

\* A project of four sources, one of them without a route, and five routes; no
\* source named, or each of some once.
Source(name, of) == [name |-> name, routes |-> of]

FourSources == <<Source("shop", <<"s1", "s2">>), Source("idle", <<>>),
                 Source("mail", <<"m1">>), Source("git", <<"g1", "g2">>)>>

OnceEach == {<<>>, <<"mail">>, <<"git", "idle", "shop">>, <<"mail", "shop">>}

----------------------------------------------------------------------------

ASSUME List!ListAssumption /\ Wait!BoundsAssumption /\ Screen!ScreenAssumption
ASSUME Pages!PagesAssumption /\ Sources!SourcesAssumption /\ Sources!NamesOnce

vars == <<moving, listVars, waitVars, screenVars, pagesVars, sourcesVars>>

\* What a part may start with is fixed for the others.
Fixed(part, choice) == moving # part => choice

Init ==
    /\ moving \in Parts
    /\ List!Init /\ Fixed("list", listHeight = 2)
    /\ Wait!Init /\ Screen!Init
    /\ Pages!Init /\ Fixed("pages", <<height, split, others>> = <<4, FALSE, 1>>)
    /\ Sources!Init
    /\ Fixed("sources", <<Len(routes), sourcesHeight, sourcesOthers>> = <<1, 4, 1>>)

Next ==
    /\ \/ /\ moving = "list" /\ List!Next
          /\ UNCHANGED <<waitVars, screenVars, pagesVars, sourcesVars>>
       \/ /\ moving = "wait" /\ Wait!Next
          /\ UNCHANGED <<listVars, screenVars, pagesVars, sourcesVars>>
       \/ /\ moving = "screen" /\ Screen!Next
          /\ UNCHANGED <<listVars, waitVars, pagesVars, sourcesVars>>
       \/ /\ moving = "pages" /\ Pages!Next
          /\ UNCHANGED <<listVars, waitVars, screenVars, sourcesVars>>
       \/ /\ moving = "sources" /\ Sources!Next
          /\ UNCHANGED <<listVars, waitVars, screenVars, pagesVars>>
    /\ UNCHANGED moving

Spec == Init /\ [][Next]_vars /\ Wait!Fairness /\ Screen!Fairness
=============================================================================
