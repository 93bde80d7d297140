--------------------------- MODULE MCAuditRequest ---------------------------
(* AuditRequest for TLC: a chain that names one profile twice, and the     *)
(* root itself, and a call budget that the chain can exhaust.              *)
EXTENDS AuditRequest, TLC

CONSTANTS p0, p1, p2

MCProfiles == {p0, p1, p2}
MCFallbacks == <<p1, p0, p1, p2>>
MCRetries == p0 :> 2 @@ p1 :> 1 @@ p2 :> 1
=============================================================================
