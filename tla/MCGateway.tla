------------------------------ MODULE MCGateway -----------------------------
(* Gateway for TLC: two requests that compete for one large-body slot and  *)
(* one route slot, and between them come with every Content-Length.        *)
EXTENDS Gateway, TLC

CONSTANTS r1, r2

MCRequests == {r1, r2}
MCSizes == r1 :> {"large", "over"} @@ r2 :> {"small", "unknown"}
=============================================================================
