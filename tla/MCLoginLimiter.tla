--------------------------- MODULE MCLoginLimiter ---------------------------
(* Instances of LoginLimiter for TLC.                                      *)
EXTENDS LoginLimiter, TLC

CONSTANTS Ann, ANN, Bob, Eve, ann, bob, eve

MCEmails    == {Ann, ANN, Bob, Eve}
MCNormalize == (Ann :> ann) @@ (ANN :> ann) @@ (Bob :> bob) @@ (Eve :> eve)

\* Two spellings of one email, and another email.
MCTwo          == {Ann, ANN, Bob}
MCTwoNormalize == (Ann :> ann) @@ (ANN :> ann) @@ (Bob :> bob)

\* Requests are interchangeable, and so are addresses.
MCSymmetry == Permutations(Requests) \cup Permutations(Ips)
=============================================================================
