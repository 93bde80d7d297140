---------------------------- MODULE MCRouteSlots ----------------------------
(* RouteSlots for TLC: two requests on one replica, two on another.        *)
EXTENDS RouteSlots, TLC

CONSTANTS a, b, r1, r2, r3, r4

MCProcesses == {a, b}
MCRequests == {r1, r2, r3, r4}
MCRouteHome == r1 :> a @@ r2 :> a @@ r3 :> b @@ r4 :> b
MCOneTTL == {2}

\* The requests of a replica are interchangeable.
MCSymmetry == Permutations({r1, r2}) \cup Permutations({r3, r4})
=============================================================================
