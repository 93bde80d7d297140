---------------------------- MODULE MCRedisGuard ----------------------------
(* RedisGuard for TLC: two handlers in one replica, whose calls overtake   *)
(* each other, and one in a replica whose clock is ahead.  The two kinds   *)
(* of call share nothing but the clock, so a behaviour has one of them.    *)
EXTENDS RedisGuard, TLC

CONSTANTS east, west, c1, c2, c3

MCCallers == {c1, c2, c3}
MCReplicas == {east, west}
MCHome == (c1 :> east) @@ (c2 :> east) @@ (c3 :> west)
MCOffset == (east :> 0) @@ (west :> 1)
MCMessages == {[ts |-> 2, secret |-> 0]}
MCMixes ==
    {[allow |-> 4, ingest |-> 0, edits |-> 0, time |-> 4],
     [allow |-> 0, ingest |-> 3, edits |-> 1, time |-> 8]}
Symmetry == Permutations({c1, c2})
=============================================================================
