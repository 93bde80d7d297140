--------------------------- MODULE MCConfigCache ---------------------------
(* Two lookups share the cache of one replica; a change may be made there  *)
(* or on another replica.                                                  *)
EXTENDS ConfigCache, TLC

CONSTANTS r1, r2, l1, l2

MCCaches == {r1, r2}
MCLookups == {l1, l2}
MCHome == l1 :> r1 @@ l2 :> r1
MCSymmetry == Permutations(MCLookups)
=============================================================================
