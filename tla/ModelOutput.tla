----------------------------- MODULE ModelOutput -----------------------------
(***************************************************************************)
(* What the gateway makes of one response of an audit model:               *)
(* callModelRawWithEvidenceSource (audit.go) after client.Do, the response *)
(* envelope (audit_output_contract.go), the bounded decoder of the policy  *)
(* object (audit_output_decode.go), the classes of HTTP errors             *)
(* (audit_diagnostics.go) and the check of the quote                       *)
(* (audit_model_evidence.go).                                              *)
(*                                                                         *)
(* A response is a tree: a text is JSON or prose around JSON objects, and  *)
(* a JSON value is an object, an array, a string (a text once more) or     *)
(* anything else.  Of an object only its own policy and the six wrapper    *)
(* keys are looked at.  A quote is what the later checks find it to be:    *)
(* "invented" is not in the request, "inert" shows no operation, "topic"   *)
(* names a subject, "passive", "active" and "mentioned" name a scan, and   *)
(* "harm" a harmful action.                                                *)
(***************************************************************************)
EXTENDS Naturals, Sequences, SequencesExt

CONSTANTS
    MaxWrapperDepth,      \* 5 in audit_output_decode.go
    MaxPolicyCandidates   \* maxAuditPolicyCandidates

NoPolicy == [decision |-> "none", confidence |-> "", category |-> "", code |-> "",
             evidence |-> "", complete |-> FALSE]

\* What the decoder returns: a policy, nothing, or an error of some class.
Found(p) == [found |-> TRUE, class |-> "", policy |-> p]
Nothing == [found |-> FALSE, class |-> "", policy |-> NoPolicy]
Refuse(class) == [found |-> FALSE, class |-> class, policy |-> NoPolicy]

DecodeAuditPolicyObject(p) ==
    IF p.decision \notin {"allow", "block", "review"} THEN Refuse("invalid_decision")
    ELSE IF \/ p.confidence = "bad"
            \/ p.code = "NONE" /\ p.decision # "allow"
            \/ p.decision = "allow" /\ (p.code \notin {"", "NONE"} \/ p.evidence # "")
         THEN Refuse("invalid_schema")
         ELSE Found([p EXCEPT !.code = IF @ = "NONE" THEN "" ELSE @])

\* The loops over children: the first error ends them, and two policies are one
\* too many.
SoleResult(results) ==
    LET bad   == {i \in DOMAIN results : results[i].class # ""}
        found == {i \in DOMAIN results : results[i].found}
        First(S) == results[CHOOSE i \in S : \A j \in S : i <= j]
    IN  IF bad # {} THEN First(bad)
        ELSE IF \E i, j \in found : i # j THEN Refuse("ambiguous_output")
        ELSE IF found # {} THEN First(found) ELSE Nothing

\* A strict decoder: a "repeated" key is an error of its own, and neither prose
\* nor "broken", which starts like a container that never ends, is JSON.
DecodeAuditJSON(c) ==
    CASE c.k = "repeated" -> Refuse("ambiguous_output")
      [] c.k \in {"broken", "prose"} -> Refuse("invalid_json")
      [] OTHER -> Nothing

RECURSIVE ParseAuditModelResponseContent(_, _), AuditModelResponseFromValue(_, _)

AuditModelResponseFromValue(v, depth) ==
    LET Child(kid) == AuditModelResponseFromValue(kid, depth + 1)
        results == [i \in DOMAIN v.kids |-> Child(v.kids[i])]
    IN  IF \/ depth > MaxWrapperDepth
           \/ v.k = "array" /\ Len(v.kids) > MaxPolicyCandidates
        THEN Refuse("output_limits")
        ELSE IF v.k = "object" /\ v.policy # NoPolicy
        THEN LET inner == SelectSeq(results, LAMBDA r : r # Nothing)
             IN  IF inner = <<>> THEN DecodeAuditPolicyObject(v.policy)
                 ELSE IF Head(inner).found THEN Refuse("ambiguous_output") ELSE Head(inner)
        ELSE IF v.k \in {"object", "array"} THEN SoleResult(results)
        ELSE IF v.k = "string" /\ v.text.k # "empty"
        THEN ParseAuditModelResponseContent(v.text, depth + 1)
        ELSE Nothing

\* "torn" says that a brace or more JSON surrounds the object found in prose.
ParseAuditModelResponseContent(c, depth) ==
    IF c.k = "empty" THEN Refuse("empty_response")
    ELSE IF \/ depth > MaxWrapperDepth
            \/ c.k = "prose" /\ Len(c.objects) > MaxPolicyCandidates
    THEN Refuse("output_limits")
    ELSE CASE c.k \in {"repeated", "broken"} -> DecodeAuditJSON(c)
           [] c.k = "json" ->
                 LET r == AuditModelResponseFromValue(c.value, depth)
                 IN  IF r = Nothing THEN Refuse("invalid_schema") ELSE r
           [] c.k = "prose" ->
                 LET r == SoleResult([i \in DOMAIN c.objects |->
                                         AuditModelResponseFromValue(c.objects[i], depth)])
                 IN  IF r = Nothing \/ (r.found /\ c.torn) THEN Refuse("invalid_json")
                     ELSE r

\* A final answer hides the reasoning, the tool calls and every other field.
ExtractAuditCompletionResponse(body) ==
    IF body.final.k # "empty" THEN body.final ELSE body.others

AuditHTTPStatusError(status, says) ==
    CASE status \in {400, 413, 422} /\ says = "context" -> "context_length"
      [] status \in {400, 422} /\ says = "format" -> "structured_output_unsupported"
      [] status \in {401, 403} -> "authentication"
      [] status = 404 -> "endpoint_or_model_not_found"
      [] status = 408 -> "timeout"
      [] status = 429 -> "rate_limited"
      [] status >= 500 -> "audit_server_error"
      [] OTHER -> "http_status"

\* validateAuditDecisionEvidence: a block or a review quotes the request.
EvidenceLocated(p) == p.decision = "allow" \/ p.evidence \notin {"", "invented"}

-----------------------------------------------------------------------------
(* The reference: how many policies a text offers, wherever they are.      *)

RECURSIVE PoliciesInText(_), PoliciesInValue(_)

PoliciesInAll(values) ==
    FoldLeft(LAMBDA n, v : n + PoliciesInValue(v), 0, values)

PoliciesInValue(v) ==
    CASE v.k = "object" -> (IF v.policy = NoPolicy THEN 0 ELSE 1) + PoliciesInAll(v.kids)
      [] v.k = "array" -> PoliciesInAll(v.kids)
      [] v.k = "string" -> PoliciesInText(v.text)
      [] OTHER -> 0

PoliciesInText(c) ==
    CASE c.k = "json" -> PoliciesInValue(c.value)
      [] c.k = "prose" -> PoliciesInAll(c.objects)
      [] OTHER -> 0

-----------------------------------------------------------------------------
\* The end of callModelRawWithEvidenceSource.  An invalid quote is an error that
\* keeps the decision; offered is the reference's count, for the properties only.
RawOutcome(r) ==
    LET Fails(class) == [class |-> class, policy |-> NoPolicy, offered |-> 0]
    IN  CASE r.k = "transport" -> Fails(r.class)
          [] r.k = "status" -> Fails(AuditHTTPStatusError(r.status, r.says))
          [] r.k = "body" /\ r.choices > 1 -> Fails("response_format")
          [] r.k = "body" /\ r.choices = 1 /\ r.cut -> Fails("output_truncated")
          [] OTHER ->
                LET text   == ExtractAuditCompletionResponse(r)
                    parsed == ParseAuditModelResponseContent(text, 0)
                    p      == parsed.policy
                IN  IF parsed.class # "" THEN Fails(parsed.class)
                    ELSE IF ~p.complete THEN Fails("invalid_schema")
                    ELSE [class   |-> IF EvidenceLocated(p) THEN "" ELSE "invalid_evidence",
                          policy  |-> p,
                          offered |-> PoliciesInText(text)]
=============================================================================
