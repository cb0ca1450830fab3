----------------------------- MODULE TargetWait -----------------------------
(* internal/tui/wait.go: the full-screen view's w, which dials the target     *)
(* until it answers and then replays a request, beside r's replays.  Dials    *)
(* and replays run off the event loop and come back to it as messages.        *)
EXTENDS Integers, Sequences, FiniteSetsExt

CONSTANTS
    MaxDeliveries,   \* bound: deliveries recorded
    MaxWaits,        \* bound: waits started
    MaxReplays       \* bound: r's replays

BoundsAssumption == {MaxDeliveries, MaxWaits, MaxReplays} \subseteq Nat

VARIABLES
    entries, last,        \* the view's entries, oldest first; the last number
    deliveries, pressed,  \* counters for the bounds
    wait,
    dials,                \* the dials under way of each wait
    replays,              \* the replays under way
    answers               \* the target answers a dial

vars == <<entries, last, deliveries, pressed, wait, dials, replays, answers>>

\* wait, with what its own replay was recorded as.
NoWait(id) ==
    [id |-> id, number |-> 0, replaying |-> FALSE, result |-> "none", as |-> 0, made |-> 0]

Waiting == wait.number # 0 /\ wait.result = "none"

----------------------------------------------------------------------------
(* The session.                                                             *)

\* It records a request and evicts the oldest ones, never the new one; the view
\* takes the event before the replay returns.
Record(replayOf, by) ==
    /\ last' = last + 1
    /\ \E failed \in BOOLEAN, dropped \in 0..Len(entries) :
          entries' = Append(SubSeq(entries, dropped + 1, Len(entries)),
                            [number |-> last + 1, failed |-> failed, replayOf |-> replayOf, by |-> by])

RecordDelivery ==
    /\ deliveries < MaxDeliveries
    /\ deliveries' = deliveries + 1
    /\ Record(0, 0)
    /\ UNCHANGED <<pressed, wait, dials, replays, answers>>

RecordReplay(r) ==
    /\ r \in replays /\ r.made = 0
    /\ Record(r.number, r.id)
    /\ replays' = (replays \ {r}) \cup {[r EXCEPT !.made = last + 1]}
    /\ UNCHANGED <<deliveries, pressed, wait, dials, answers>>

Evicted(n) == entries = <<>> \/ n < entries[1].number

\* A replay of an evicted request fails before it starts.
ReplayReturns(r) ==
    /\ r \in replays /\ (r.made # 0 \/ Evicted(r.number))
    /\ replays' = replays \ {r}

\* The local target comes up and goes down.
Target ==
    /\ answers' = ~ answers
    /\ UNCHANGED <<entries, last, deliveries, pressed, wait, dials, replays>>

----------------------------------------------------------------------------
(* The event loop.                                                          *)

Replay(id, number) == [id |-> id, number |-> number, made |-> 0]

\* r replays the selected request, which is any one in the list.
PressR ==
    /\ pressed < MaxReplays
    /\ pressed' = pressed + 1
    /\ \E e \in Range(entries) : replays' = replays \cup {Replay(0, e.number)}
    /\ UNCHANGED <<entries, last, deliveries, wait, dials, answers>>

\* Only its failure comes back.
Replayed(r) ==
    /\ r.id = 0 /\ ReplayReturns(r)
    /\ UNCHANGED <<entries, last, deliveries, pressed, wait, dials, answers>>

NextWait(id) == id + 1

\* startWait, on a request that found nothing listening.
PressW ==
    /\ wait.id < MaxWaits
    /\ \E e \in Range(entries) :
          /\ e.failed
          /\ wait' = [NoWait(NextWait(wait.id)) EXCEPT !.number = e.number]
    /\ dials' = [dials EXCEPT ![wait'.id] = @ + 1]
    /\ UNCHANGED <<entries, last, deliveries, pressed, replays, answers>>

OfThisWait(id) == id = wait.id /\ Waiting

\* Mutant: one dial is all there is.
DialOnce(id) ==
    /\ OfThisWait(id) /\ ~ answers
    /\ dials' = [dials EXCEPT ![id] = @ - 1]
    /\ UNCHANGED <<wait, replays>>

DialAgain(id) ==
    /\ OfThisWait(id) /\ ~ answers
    /\ UNCHANGED <<dials, wait, replays>>

ReplayAtLast(id) ==
    /\ OfThisWait(id) /\ answers
    /\ dials' = [dials EXCEPT ![id] = @ - 1]
    /\ wait' = [wait EXCEPT !.replaying = TRUE]
    /\ replays' = replays \cup {Replay(id, wait.number)}

DropDial(id) ==
    /\ ~ OfThisWait(id)
    /\ dials' = [dials EXCEPT ![id] = @ - 1]
    /\ UNCHANGED <<wait, replays>>

\* dialed
Dialed(id) ==
    /\ dials[id] > 0
    /\ DialAgain(id) \/ ReplayAtLast(id) \/ DropDial(id)
    /\ UNCHANGED <<entries, last, deliveries, pressed, answers>>

\* The newest replay of request n in the list, 0 if there is none.
NewestReplayOf(n) ==
    LET those == {i \in DOMAIN entries : entries[i].replayOf = n}
    IN  IF those = {} THEN 0 ELSE entries[Max(those)].number

\* waitReplayed
WaitReplayed(r) ==
    /\ r.id # 0 /\ ReplayReturns(r)
    /\ wait' = IF ~ OfThisWait(r.id) THEN wait
               ELSE IF r.made = 0 THEN [wait EXCEPT !.result = "failed"]
               ELSE [wait EXCEPT !.result = "replayed", !.made = r.made,
                                 !.as = NewestReplayOf(wait.number)]
    /\ UNCHANGED <<entries, last, deliveries, pressed, dials, answers>>

\* esc stops the wait; its dial or replay goes on.
Escape ==
    /\ Waiting
    /\ wait' = NoWait(wait.id)
    /\ UNCHANGED <<entries, last, deliveries, pressed, dials, replays, answers>>

Init ==
    /\ entries = <<>> /\ last = 0 /\ deliveries = 0 /\ pressed = 0
    /\ wait = NoWait(0)
    /\ dials = [id \in 1..MaxWaits |-> 0] /\ replays = {}
    /\ answers = FALSE

Next ==
    \/ RecordDelivery
    \/ \E r \in replays : RecordReplay(r) \/ Replayed(r) \/ WaitReplayed(r)
    \/ \E id \in 1..MaxWaits : Dialed(id)
    \/ PressR \/ PressW \/ Escape \/ Target

Spec == Init /\ [][Next]_vars

\* The program runs the commands it is given, a dial has dialTimeout and a
\* forward its own.
Fairness ==
    \A id \in 1..MaxWaits :
        /\ WF_vars(Dialed(id))
        /\ WF_vars(\E r \in replays : r.id = id /\ (RecordReplay(r) \/ WaitReplayed(r)))

FairSpec == Spec /\ Fairness

----------------------------------------------------------------------------
(* Properties.                                                              *)

Entry == [number : Nat, failed : BOOLEAN, replayOf : Nat, by : 0..MaxWaits]

\* Every variable has its type, and the entries are numbered without a gap up to
\* the last.
TypeOK ==
    /\ entries \in Seq(Entry)
    /\ \A i \in 1..Len(entries) : entries[i].number = last - Len(entries) + i
    /\ wait \in [id : 0..MaxWaits, number : 0..last, replaying : BOOLEAN,
                 result : {"none", "failed", "replayed"}, as : 0..last, made : 0..last]
    /\ dials \in [1..MaxWaits -> 0..1]
    /\ replays \subseteq [id : 0..MaxWaits, number : 1..last, made : 0..last]
    /\ answers \in BOOLEAN

Of(id) == {r \in replays : r.id = id}

\* While w waits exactly one dial or replay works for it, on the request it waits
\* on, whatever earlier waits left behind; and no wait replays twice.
WaitNeverForks ==
    /\ Waiting =>
          IF wait.replaying
          THEN dials[wait.id] = 0 /\ \E made \in 0..last :
                  Of(wait.id) = {[Replay(wait.id, wait.number) EXCEPT !.made = made]}
          ELSE dials[wait.id] = 1 /\ Of(wait.id) = {}
    /\ \A i, j \in 1..Len(entries) :
          i # j /\ entries[i].by # 0 => entries[i].by # entries[j].by

\* With a target that stays up, a wait ends.
WaitEnds == <>[]answers => (Waiting ~> ~ Waiting)

\* "result is the replay's outcome": what w says it replayed as is what its own
\* replay was recorded as, if that is still in the list.
WaitShowsItsReplay == wait.result = "replayed" => wait.as \in {0, wait.made}
=============================================================================
