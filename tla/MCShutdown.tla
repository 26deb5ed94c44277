----------------------------- MODULE MCShutdown -----------------------------
(* Instances of Shutdown for TLC: who may call what.                       *)
EXTENDS Shutdown, TLC

CONSTANTS t1, t2

\* A waiter that owns callbacks, and a thread that may do anything else.
SafetyProgram == (t1 :> {"waitFor", "onStop", "release"})
                 @@ (t2 :> {"waitFor", "sleepFor", "notify", "onStop", "request"})

\* Loops that hang or wait, an owner whose callback blocks.
EndProgram == (t1 :> {"loop", "hang"}) @@ (t2 :> {"loop", "onStop"})

RequestProgram == (t1 :> {"request"}) @@ (t2 :> {"request"})
=============================================================================
