----------------------------- MODULE ListenCall -----------------------------
(* What one call of ws.Client.Listen promises its caller: it joins at most  *)
(* once, hands over deliveries and answers only between the join and the    *)
(* return, and returns an error that says whether it had joined and how it  *)
(* failed.                                                                  *)
VARIABLES call, failure

callVars == <<call, failure>>

Error(kind, connected) == [kind |-> kind, connected |-> connected]

\* sessionError(kind, connected, err), as Listen returns it.
BeforeJoin == {"Connect", "Authentication", "Protocol", "NotFound", "Outdated"}
AfterJoin == {"Disconnected", "Protocol", "Handler"}

\* The context's own error, and no return yet.
Canceled == Error("Canceled", FALSE)
NoError == Error("none", FALSE)

Errors ==
    {Error(kind, FALSE) : kind \in BeforeJoin} \cup {Error(kind, TRUE) : kind \in AfterJoin}
        \cup {Canceled}

Retryable(e) == e.kind \in {"Connect", "Disconnected"}

CallTypeOK ==
    /\ call \in {"none", "connecting", "joined", "returned"}
    /\ failure \in Errors \cup {NoError}

CallInit == call = "none" /\ failure = NoError

Start ==
    /\ call \in {"none", "returned"}
    /\ call' = "connecting"
    /\ failure' = NoError

Join ==
    /\ call = "connecting"
    /\ call' = "joined"
    /\ UNCHANGED failure

Return(e) ==
    /\ call \in {"connecting", "joined"}
    /\ e # Canceled => e.connected = (call = "joined")
    /\ call' = "returned"
    /\ failure' = e

CallNext == Start \/ Join \/ \E e \in Errors : Return(e)

CallSpec == CallInit /\ [][CallNext]_callVars
=============================================================================
