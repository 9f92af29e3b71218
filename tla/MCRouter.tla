------------------------------ MODULE MCRouter ------------------------------
(* Two or three requests over one pool of two upstreams.                   *)
EXTENDS Router, TLC

CONSTANTS u1, u2

TwoUpstreams ==
    "m" :> [strategy |-> "priority",
            members |-> <<u1, u2>>,
            priority |-> u1 :> 1 @@ u2 :> 2]

\* ValidatePools accepts an upstream that is listed twice: two attempts on it.
ListedTwice ==
    "m" :> [strategy |-> "random", members |-> <<u1, u1>>, priority |-> u1 :> 1]

Symmetry == Permutations(Requests)
=============================================================================
