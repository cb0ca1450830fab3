----------------------------- MODULE FullScreen ------------------------------
(* The parts of the full-screen view, each with its own state, and what each  *)
(* promises the user: the request list, w's wait for the target, the layers   *)
(* and toasts, the detail's pages and the Sources page.                       *)
EXTENDS Integers, Sequences

----------------------------------------------------------------------------
(* The request list.                                                        *)

CONSTANTS
    NoText,              \* no filter
    ListHeights,         \* the rows screens of different heights leave the list
    MaxRecords           \* bound: requests recorded

VARIABLES listEntries, listLast, listSelected, offset, listHeight, listFilter,
          listWaiting, listToast, alert

listVars ==
    <<listEntries, listLast, listSelected, offset, listHeight, listFilter,
      listWaiting, listToast, alert>>

List == INSTANCE RequestList WITH
    Heights <- ListHeights,
    entries <- listEntries, last <- listLast, selected <- listSelected, height <- listHeight,
    filter <- listFilter, waiting <- listWaiting, toast <- listToast

----------------------------------------------------------------------------
(* The wait for the target.                                                 *)

CONSTANTS MaxDeliveries, MaxWaits, MaxReplays     \* bounds: each of these

VARIABLES waitEntries, waitLast, deliveries, pressed, wait, dials, replays, answers

waitVars ==
    <<waitEntries, waitLast, deliveries, pressed, wait, dials, replays, answers>>

Wait == INSTANCE TargetWait WITH entries <- waitEntries, last <- waitLast

----------------------------------------------------------------------------
(* The screen's layers and toasts.                                          *)

CONSTANTS
    Forwarding,          \* listen runs with --forward-to
    RouteCount,          \* the routes listened to
    ToastFor,            \* toastDuration, in ticks
    MaxToasts,           \* bound: toasts shown
    MaxCommands,         \* bound: commands run off the event loop
    Outages              \* the outages, in order, in seconds

VARIABLES sources, filter, waiting, reconnected, notFound, help, toast, toastID, timers,
          commands, started, quitting, outages, dismissed, age

screenVars ==
    <<sources, filter, waiting, reconnected, notFound, help, toast, toastID, timers,
      commands, started, quitting, outages, dismissed, age>>

Screen == INSTANCE Screen WITH stopping <- quitting

----------------------------------------------------------------------------
(* The detail's pages.                                                      *)

CONSTANTS
    PageHeights,         \* the screen's heights
    MaxPageOthers,       \* bound: lines of alerts, filter, toasts and keys
    TabCount,            \* the number of tabs
    MaxArrivals,         \* bound: requests recorded
    Cap,                 \* the requests the history keeps
    Lines(_, _, _)       \* the lines of a request's tab, beside the list or below it

VARIABLES last, paused, selected, tab, scroll, height, split, others, reading

pagesVars ==
    <<last, paused, selected, tab, scroll, height, split, others, reading>>

Pages == INSTANCE DetailPages WITH
    Heights <- PageHeights, MaxOthers <- MaxPageOthers, MaxRequests <- MaxArrivals

----------------------------------------------------------------------------
(* The Sources page.                                                        *)

CONSTANTS
    Available,           \* the project's sources, in order
    Arguments,           \* the sequences of names listen may be given
    SourcesHeights,      \* the screen's heights
    MaxSourcesOthers,    \* bound: lines of toasts and keys
    MaxRequests          \* bound: requests recorded

VARIABLES routes, route, sourcesHeight, sourcesOthers, counts, total, unmatched

sourcesVars ==
    <<routes, route, sourcesHeight, sourcesOthers, counts, total, unmatched>>

Sources == INSTANCE SourcesPage WITH
    Heights <- SourcesHeights, MaxOthers <- MaxSourcesOthers,
    selected <- route, height <- sourcesHeight, others <- sourcesOthers

----------------------------------------------------------------------------
(* Properties.  Each part's module says more of its own.                    *)

\* fullscreen.go's list: what filter matches is what matching afresh would give,
\* the selection stays on screen, and no arrival or eviction moves the list's
\* rows under a selection that is held.
ListHoldsStill ==
    [](List!TypeOK /\ List!FilterIsFresh) /\ [][List!RowsHoldStill]_(List!vars)

\* w works on one thing at a time: exactly one dial or replay is under way for
\* the current wait, whatever earlier ones left behind, none replays twice, and
\* with a target that stays up a wait ends.
OneWaitWorks == [](Wait!TypeOK /\ Wait!WaitNeverForks) /\ Wait!WaitEnds

\* esc takes away one thing at a time, of the prompts one at most takes the keys,
\* the reconnect alert adds up what the user has not dismissed, and a toast ends
\* when its own time is over, not with a timer of one it replaced.
EscapeTakesOneLayer ==
    /\ [](Screen!TypeOK /\ Screen!OnePrompt /\ Screen!AlertSumsOutages)
    /\ [][Screen!EscapeTakesOneLayer /\ Screen!ToastsStay]_(Screen!vars)
    /\ Screen!ToastsEnd

\* A page key moves while there is more to see, the pages leave out no line, and
\* no arrival takes away the page being read.
PagesLeaveNoGap ==
    /\ []Pages!TypeOK
    /\ [][/\ Pages!PageKeysMove /\ Pages!PagesLeaveNoGap
          /\ Pages!ArrivalsKeepThePage]_(Pages!vars)

\* The Sources page shows the selected route and the totals whole, on any screen
\* with room for them; and when listen was given no name twice, the totals'
\* unmatched count is exact, whatever routes the names leave out, and its title
\* counts each source once.
SelectedRouteIsShown ==
    /\ Sources!TypeOK /\ Sources!SelectedRouteIsShown
    /\ Sources!NamesOnce => Sources!UnmatchedAreCounted /\ Sources!SourcesAreCountedOnce
=============================================================================
