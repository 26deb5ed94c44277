-------------------------- MODULE PipelinedReplies --------------------------
(***************************************************************************)
(* What an HTTP connection promises its client: replies come in the order  *)
(* of the requests, one for each, none twice, none once the connection has *)
(* ended; and at most Window requests are worked on ahead of the client.   *)
(***************************************************************************)
EXTENDS Naturals, Sequences

CONSTANTS Requests, Window    \* requests are numbered as the client sends them

VARIABLES
    taken,      \* requests the server has executed, in order
    answered,   \* requests whose reply the client has got, in order
    open        \* the server may still send

vars == <<taken, answered, open>>

Init == taken = << >> /\ answered = << >> /\ open = TRUE

Take(request) ==
    /\ \A i \in DOMAIN taken : taken[i] < request
    /\ Len(taken) - Len(answered) < Window
    /\ taken' = Append(taken, request)
    /\ UNCHANGED <<answered, open>>

Answer ==
    /\ open = TRUE
    /\ Len(answered) < Len(taken)
    /\ answered' = Append(answered, taken[Len(answered) + 1])
    /\ UNCHANGED <<taken, open>>

Close == open = TRUE /\ open' = FALSE /\ UNCHANGED <<taken, answered>>

Next == \/ \E request \in Requests : Take(request)
        \/ Answer
        \/ Close

Spec == Init /\ [][Next]_vars
=============================================================================
