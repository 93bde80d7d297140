--------------------------- MODULE MCTracePipeline ---------------------------
(* TracePipeline on a small instance: of three events two are one tracking *)
(* event delivered twice, and one is a gateway trace without external id.  *)
EXTENDS TracePipeline, TLC

CONSTANTS e1, e2, e3, w1, w2, x1

MCEvents == {e1, e2, e3}
MCWorkers == {w1, w2}
MCExtIds == {x1}
MCExternal == e1 :> x1 @@ e2 :> x1 @@ e3 :> NoExt
=============================================================================
