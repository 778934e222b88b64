----------------------------- MODULE MCThrottle -----------------------------
(* Small instances of Throttle for TLC.                                      *)
EXTENDS Throttle, TLC

CONSTANTS p1, p2, g1, g2

MCProcessOf == g1 :> p1 @@ g2 :> p2

\* Nothing tells one process with its goroutine from the other.
MCSymmetry ==
    {f \in Permutations({g1, g2, p1, p2}) :
        \A g \in {g1, g2} : f[g] \in {g1, g2} /\ f[MCProcessOf[g]] = MCProcessOf[f[g]]}

\* A version with a high rate, one with a low rate and a larger burst.
MCRate == <<2, 1>>
MCBurst == <<1, 3>>
=============================================================================
