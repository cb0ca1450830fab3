----------------------------- MODULE SourcesPage ----------------------------
(* The routes listen delivers through, from cmd/listen.go's resolveSources to *)
(* internal/tui/sources.go's page: its table, scrolled to the selected route, *)
(* and its counts of sources and of requests that matched no route.           *)
EXTENDS Integers, Sequences, SequencesExt, FiniteSets, Layout

CONSTANTS
    Available,       \* the project's sources, in order: [name, routes]
    Arguments,       \* the sequences of names listen may be given
    Heights,         \* the screen's heights
    MaxOthers,       \* bound: lines of toasts and keys
    MaxRequests      \* bound: requests recorded

Names == {s.name : s \in Range(Available)}

AllRoutes == UNION {Range(s.routes) : s \in Range(Available)}

\* In a project, two sources have two names, and a route's UID is its alone.
SourcesAssumption ==
    /\ Heights \subseteq Nat /\ {MaxOthers, MaxRequests} \subseteq Nat
    /\ Available \in Seq([name : Names, routes : Seq(AllRoutes)])
    /\ Arguments \subseteq Seq(Names)
    /\ IsInjective([i \in DOMAIN Available |-> Available[i].name])
    /\ \A s \in Range(Available) : IsInjective(s.routes)
    /\ \A s, t \in Range(Available) : s # t => Range(s.routes) \cap Range(t.routes) = {}

\* Listen takes a name twice as well, and then lists its routes twice: what the
\* page counts is stated for names given once.
NamesOnce == \A names \in Arguments : IsInjective(names)

VARIABLES
    routes,          \* the routes listened to: [source, route]
    selected,        \* the selected one's index, from 0
    height, others,  \* the screen, and the toasts' and keys' lines
    counts, total,   \* the statistics: each route's requests, and all
    unmatched        \* history: the requests to no route listened to

vars == <<routes, selected, height, others, counts, total, unmatched>>

----------------------------------------------------------------------------
(* Resolving.                                                               *)

HasRoutes(source) == source.routes # <<>>

Called(name) == Available[CHOOSE i \in DOMAIN Available : Available[i].name = name]

\* resolveSources: those named, in the order they are, else every source; none
\* without a route.
Asked(names) ==
    IF names = <<>> THEN Available ELSE [i \in DOMAIN names |-> Called(names[i])]

Resolved(names) ==
    LET asked == Asked(names)
        kept[i \in 0..Len(asked)] ==
            IF i = 0 THEN <<>>
            ELSE IF HasRoutes(asked[i]) THEN Append(kept[i - 1], asked[i]) ELSE kept[i - 1]
    IN  kept[Len(asked)]

\* bannerRoutes
BannerRoutes(sources) ==
    FlattenSeq([i \in DOMAIN sources |->
        [j \in DOMAIN sources[i].routes |->
            [source |-> sources[i].name, route |-> sources[i].routes[j]]]])

----------------------------------------------------------------------------
(* The page.                                                                *)

\* firstOfSource: "a source's routes are adjacent".
FirstOfSource(i) == i = 1 \/ routes[i - 1].source # routes[i].source

\* sourcesTitle's count.
SourcesCounted == Cardinality({i \in DOMAIN routes : FirstOfSource(i)})

Table == TableHeight(Panes(height, others), Len(routes))

\* Mutant: the totals' line is not counted.
FirstTooLow == LET visible == TableRows(Table) + 1
               IN  IF selected >= visible THEN selected - visible + 1 ELSE 0

\* sourcesTable's first row, scrolled to show the selected one.
First == LET visible == TableRows(Table)
         IN  IF selected >= visible THEN selected - visible + 1 ELSE 0

RowsListed == IF Len(routes) - First < TableRows(Table) THEN Len(routes) - First ELSE TableRows(Table)

\* The titles, the rows and the totals.
TableLines == 1 + RowsListed + 1

\* What is on screen: the selected row and the totals.
SelectedShows ==
    /\ selected < First + RowsListed
    /\ selected - First + 2 <= PanelShows(Table, TableLines)
TotalsShow == TableLines <= PanelShows(Table, TableLines)

\* The row of totals counts what no row of a route does.
Counted(requests, rows) ==
    LET upTo[i \in 0..Len(rows)] ==
            IF i = 0 THEN 0 ELSE upTo[i - 1] + requests[rows[i].route]
    IN  upTo[Len(rows)]

Matched == Counted(counts, routes)
UnmatchedShown == IF total > Matched THEN total - Matched ELSE 0

KnownRoute(route) == \E i \in DOMAIN routes : routes[i].route = route

----------------------------------------------------------------------------
(* The steps.                                                               *)

Select(i) ==
    /\ selected' = i
    /\ UNCHANGED <<routes, height, others, counts, total, unmatched>>

Up == selected > 0 /\ Select(selected - 1)
Down == selected < Len(routes) - 1 /\ Select(selected + 1)

\* A resize, a toast, the keys on one line or in columns.
Resize ==
    /\ height' \in Heights /\ others' \in 1..MaxOthers
    /\ UNCHANGED <<routes, selected, counts, total, unmatched>>

\* A delivery, to one of the project's routes or to none it still has.
Record(route) ==
    /\ total < MaxRequests
    /\ total' = total + 1
    /\ counts' = IF KnownRoute(route) THEN [counts EXCEPT ![route] = @ + 1] ELSE counts
    /\ unmatched' = IF KnownRoute(route) THEN unmatched ELSE unmatched + 1
    /\ UNCHANGED <<routes, selected, height, others>>

Init ==
    /\ \E names \in Arguments : routes = BannerRoutes(Resolved(names)) /\ routes # <<>>
    /\ selected = 0
    /\ height \in Heights /\ others \in 1..MaxOthers
    /\ counts = [route \in AllRoutes |-> 0] /\ total = 0 /\ unmatched = 0

Next == Up \/ Down \/ Resize \/ \E route \in AllRoutes \cup {""} : Record(route)

Spec == Init /\ [][Next]_vars

----------------------------------------------------------------------------
(* Properties.                                                              *)

\* Every variable has its type, the selected route is one listed, and no source's
\* routes are left out.
TypeOK ==
    /\ routes \in Seq([source : Names, route : AllRoutes])
    /\ \A s \in Range(Available) :
          (\E i \in DOMAIN routes : routes[i].source = s.name)
              => Range(s.routes) \subseteq {routes[i].route : i \in DOMAIN routes}
    /\ selected \in 0..Len(routes) - 1
    /\ height \in Heights /\ others \in 1..MaxOthers
    /\ counts \in [AllRoutes -> 0..total] /\ total \in 0..MaxRequests

\* "the selected one ... scrolled into view, then the totals": on every screen
\* with five lines for the panes, and no line of the table is cut.
SelectedRouteIsShown == Panes(height, others) >= 5 => SelectedShows /\ TotalsShow

\* "the totals, the only row that counts unmatched requests": each request is
\* counted in its route's row, or there.
UnmatchedAreCounted == UnmatchedShown = unmatched

\* "a source's routes are adjacent", so the title counts each source once, if
\* listen was given its name once.
SourcesAreCountedOnce == SourcesCounted = Cardinality({r.source : r \in Range(routes)})
=============================================================================
