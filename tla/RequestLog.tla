----------------------------- MODULE RequestLog -----------------------------
(* What a listen run promises about its requests: they are numbered in one  *)
(* order, never change, replay only what came before them, and are          *)
(* forgotten oldest first, the newest never.                                *)
EXTENDS Naturals, Sequences

CONSTANT Payloads   \* what a request carries

VARIABLES
    log,     \* log[n] is request n: [payload, replayOf], replayOf = 0 for a delivery
    oldest   \* the lowest number still available; Len(log) + 1 when none is

vars == <<log, oldest>>

Request(p, n) == [payload |-> p, replayOf |-> n]

Init == log = <<>> /\ oldest = 1

\* A delivery, or a replay of request n that carries the same payload.
Number(p, n) ==
    /\ n # 0 => n \in 1..Len(log) /\ log[n].payload = p
    /\ log' = Append(log, Request(p, n))
    /\ UNCHANGED oldest

ForgetOldest ==
    /\ oldest < Len(log)
    /\ oldest' = oldest + 1
    /\ UNCHANGED log

Next ==
    \/ \E p \in Payloads, n \in 0..Len(log) : Number(p, n)
    \/ ForgetOldest

Spec == Init /\ [][Next]_vars
=============================================================================
