------------------------------ MODULE StopCalls ------------------------------
(***************************************************************************)
(* What onStop promises: the function is called once when the process      *)
(* stops, those registered last first; at once if it comes too late; never *)
(* when it was released before the calls began, and nothing is released    *)
(* while they go on.                                                       *)
(***************************************************************************)
EXTENDS Naturals

CONSTANT Functions    \* numbered in the order in which they are registered

VARIABLES
    stop,     \* "no", "asked", "calling", or "over"
    fate,     \* of each function: "none", "registered", "released", "late"
    calls     \* how often each function has been called

vars == <<stop, fate, calls>>

Init ==
    /\ stop = "no"
    /\ fate = [f \in Functions |-> "none"]
    /\ calls = [f \in Functions |-> 0]

(* A function that onStop was given before the stop may still come in      *)
(* after it, until the calls begin.                                        *)
Register(f) ==
    /\ stop \in {"no", "asked"}
    /\ \A g \in Functions : g >= f => fate[g] = "none"
    /\ fate' = [fate EXCEPT ![f] = "registered"]
    /\ UNCHANGED <<stop, calls>>

Release(f) ==
    /\ stop # "calling"
    /\ fate[f] = "registered"
    /\ fate' = [fate EXCEPT ![f] = "released"]
    /\ UNCHANGED <<stop, calls>>

CallLate(f) ==
    /\ stop # "no"
    /\ fate[f] = "none"
    /\ fate' = [fate EXCEPT ![f] = "late"]
    /\ calls' = [calls EXCEPT ![f] = 1]
    /\ UNCHANGED stop

ToCall == {f \in Functions : fate[f] = "registered" /\ calls[f] = 0}

Stop  == stop = "no" /\ stop' = "asked" /\ UNCHANGED <<fate, calls>>
Begin == stop = "asked" /\ stop' = "calling" /\ UNCHANGED <<fate, calls>>

Call(f) ==
    /\ stop = "calling"
    /\ f \in ToCall /\ \A g \in ToCall : g <= f
    /\ calls' = [calls EXCEPT ![f] = 1]
    /\ UNCHANGED <<stop, fate>>

End ==
    /\ stop = "calling" /\ ToCall = {}
    /\ stop' = "over"
    /\ UNCHANGED <<fate, calls>>

Next ==
    \/ Stop \/ Begin \/ End
    \/ \E f \in Functions : Register(f) \/ Release(f) \/ CallLate(f) \/ Call(f)

Spec == Init /\ [][Next]_vars
=============================================================================
