----------------------------- MODULE MCSession -----------------------------
(* A small run: one listened route, a history of two entries, two command  *)
(* goroutines beside the websocket's.                                       *)
EXTENDS Session, TLC

CONSTANTS r1, unlisted, mine, theirs, c1, c2

\* A delivery of a listened route to the bare root, with another run's test id,
\* and one of an unlisted route with this run's.
MCDeliveries ==
    {[route |-> r1, size |-> 1, test |-> theirs, root |-> TRUE],
     [route |-> unlisted, size |-> 2, test |-> mine, root |-> FALSE]}

\* A success, a 404, and a body over the limit.
MCAnswers ==
    {[kind |-> "response", status |-> 200, size |-> 3],
     [kind |-> "response", status |-> 404, size |-> 0],
     [kind |-> "response", status |-> 200, size |-> 9]}
=============================================================================
