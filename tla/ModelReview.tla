----------------------------- MODULE ModelReview -----------------------------
(***************************************************************************)
(* One call of callModelOnceWithEvidenceSource under the Cyber policy that *)
(* Audit always sets, and the calls that run beside it: the primary model, *)
(* one repair of a verdict whose quote proves nothing                      *)
(* (audit_operation_grounding.go), the evidence gates of v24, v28 and v29, *)
(* the verifier or the panel (audit_v25_structured_adjudication.go), the   *)
(* pool of model slots that every HTTP call of every request goes through  *)
(* (audit_full_request.go) and the budgets a request reserves for its      *)
(* plans (audit_request_budget.go, callModel).                             *)
(*                                                                         *)
(* A call decides "clean" (an allow), "doubt" (an allow that v29 makes of  *)
(* what was not confirmed), "block", or it fails with a class.             *)
(*                                                                         *)
(* What a raw call returns is an outcome: an error class, the policy that  *)
(* was decoded, and how many policies the response offered.  What it is,   *)
(* ModelOutput says.                                                       *)
(***************************************************************************)
EXTENDS Naturals, Sequences, SequencesExt, FiniteSets

CONSTANTS
    Requests,           \* requests being audited
    Calls,              \* chunk numbers of all requests
    RequestOf,          \* Calls -> Requests
    MaxPanel,           \* 3: the reviewers that configureChunkBudget reserves for
    Slots,              \* cap(modelSlots): AUDIT_MODEL_CONCURRENCY
    CyberDenyHTTPBudget, MaxAuditSemanticCalls,   \* 64 and 32: the base budgets
    MaxAuditChunkPlans, \* maxAuditChunkPlans
    Responses,          \* what the models may answer
    Outcome(_)          \* response -> what callModelRawWithEvidenceSource returns

ASSUME ModelReviewAssumption ==
    /\ IsFiniteSet(Calls)
    /\ RequestOf \in [Calls -> Requests]
    /\ \A r \in Requests : \E c \in Calls : RequestOf[c] = r
    /\ MaxPanel \in 1..3
    /\ Slots \in Nat \ {0}
    /\ CyberDenyHTTPBudget \in Nat /\ MaxAuditSemanticCalls \in Nat
    /\ MaxAuditChunkPlans \in Nat

Outcomes == {Outcome(response) : response \in Responses}

\* The decoder: of several policies, or of a policy in a policy, it makes an error.
ASSUME SolePolicy ==
    \A o \in Outcomes : o.class = "" /\ o.policy.decision # "allow" => o.offered = 1

VARIABLES
    call,     \* where each call stands
    slots,    \* len(e.modelSlots)
    ctx,      \* request -> "live", "plan" (a sibling ended the plan), "canceled"
    plan,     \* request -> "none", "single" or "chunked"
    budget,   \* request -> auditSemanticState
    panel     \* request -> how many verifiers are asked about an allow

vars == <<call, slots, ctx, plan, budget, panel>>

CallsOf(r) == {c \in Calls : RequestOf[c] = r}
\* grounds: the outcome that a block rests on, for the properties only.
NoResult == [decision |-> "none", remedy |-> "", grounds |-> {}]
Idle == [pc |-> "idle", verifying |-> FALSE, repair |-> FALSE, votes |-> <<>>,
         result |-> NoResult]

Init ==
    /\ call = [c \in Calls |-> Idle]
    /\ slots = 0
    /\ ctx = [r \in Requests |-> "live"]
    /\ plan = [r \in Requests |-> "none"]
    /\ budget = [r \in Requests |-> [plans |-> 0, http |-> 0, httpCalls |-> 0,
                                     review |-> 0, reviewCalls |-> 0]]
    /\ panel \in [Requests -> 0..MaxPanel]

-----------------------------------------------------------------------------
(* What becomes of a verdict. *)

\* nonOperationalAuditEvidence, on a block or a review.
NonOperationalAuditEvidence(p) == p.decision # "allow" /\ p.evidence = "inert"

\* cyberDenyVerdict: an allow has to be sure of itself, a review confirms nothing.
CyberDenyVerdict(p) ==
    CASE p.decision = "block" -> "block"
      [] p.decision = "allow" /\ p.confidence = "high" /\ p.category # "cyber" -> "clean"
      [] OTHER -> "doubt"

\* normalizeCyberEvidenceGateV28: the quote has to show an operation.
EvidenceGateV28(p) == p.decision = "allow" \/ p.evidence \notin {"topic", "passive"}

\* confirmedCyberBlockV29: the quote shows harm, under a code that a block rule
\* governs or with the relation and the harm type of the nine-field answer.
ConfirmedCyberBlockV29(p) ==
    /\ p.decision = "block"
    /\ p.evidence = "harm"
    /\ p.code \in {"governed", "proved"}

\* normalizeCyberOnlyScopeV24 and cyberDenyVerdict, on the answer of a verifier.
\* A repaired answer has been through cyberDenyVerdict already.
VerifierVote(p, repaired) ==
    IF p.decision = "review" /\ repaired THEN "doubt"
    ELSE IF p.decision # "allow" /\ p.code = "offscope" THEN "scoped"
    ELSE CyberDenyVerdict(p)

\* What callModel and callModelWithFailover do about an error: split the text,
\* try again (the same profile or the next), or end the request.
Remedy(class) ==
    CASE class = "context_length" -> "split"
      [] class \in {"cyber_unresolved", "cyber_plan_budget", "fusion_incomplete",
                    "fusion_unavailable", "semantic_verifier_unavailable",
                    "audit_http_budget", "semantic_review_budget", "canceled"} -> "stop"
      [] OTHER -> "again"

Fails(class) == [NoResult EXCEPT !.decision = "error", !.remedy = Remedy(class)]
Decides(decision) == [NoResult EXCEPT !.decision = decision]
Blocks(o) == [NoResult EXCEPT !.decision = "block", !.grounds = {o}]
Ends(k, result) == [k EXCEPT !.pc = "done", !.result = result]
Voted(k, vote) == [k EXCEPT !.votes = Append(@, vote)]

\* Mutant of AfterVote: only the last vote is looked at.
AfterLastVote(k, members, class) ==
    IF Len(k.votes) < members THEN [k EXCEPT !.pc = "ask", !.repair = FALSE]
    ELSE Ends(k, CASE Last(k.votes) = "failed" ->
                         Fails(IF members > 1 THEN "fusion_incomplete" ELSE class)
                   [] Last(k.votes) = "clean" -> Decides("clean")
                   [] OTHER -> Decides("doubt"))

\* After a vote that was no denial: the next member, or the result of them all.
AfterVote(k, members, class) ==
    IF Len(k.votes) < members THEN [k EXCEPT !.pc = "ask", !.repair = FALSE]
    ELSE Ends(k, IF \E i \in DOMAIN k.votes : k.votes[i] = "failed"
                 THEN Fails(IF members > 1 THEN "fusion_incomplete" ELSE class)
                 ELSE Decides(IF Last(k.votes) = "clean" THEN "clean" ELSE "doubt"))

\* callCyberGroundedModel returned an error.
GroundedFails(k, members, class) ==
    IF k.verifying
    THEN AfterVote(Voted(k, "failed"), members, class)
    ELSE Ends(k, Fails(class))

\* What v28 and v29 make of a denial.
Denial(o) == IF EvidenceGateV28(o.policy) /\ ConfirmedCyberBlockV29(o.policy)
             THEN Blocks(o) ELSE Decides("doubt")

\* Mutant of VerifierDenies: the denial of a verifier needs no confirmation.
VerifierDeniesOutright(k, o) == Ends(Voted(k, "block"), Blocks(o))

\* The first denial of a panel ends it, and still has to be confirmed: what failed
\* before it is forgotten, and who comes after it is not asked.
VerifierDenies(k, o) == Ends(Voted(k, "block"), Denial(o))

\* callCyberGroundedModel returned a verdict: the rest of callCyberDenyModel for
\* the primary model, of the panel loop for a verifier.
Grounded(k, members, o) ==
    LET p       == o.policy
        denies  == p.decision = "block" \/ (p.decision = "review" /\ ~k.repair)
        vote    == VerifierVote(p, k.repair)
    IN  IF k.verifying
        THEN IF vote = "block" THEN VerifierDenies(k, o)
             ELSE AfterVote(Voted(k, vote), members, "")
        ELSE IF denies THEN Ends(k, Denial(o))
        ELSE IF members = 0 THEN Ends(k, Decides(CyberDenyVerdict(p)))
        ELSE [k EXCEPT !.pc = "ask", !.verifying = TRUE, !.repair = FALSE]

\* The outcome of a raw call: a quote that is not in the request, or that shows no
\* operation, is worth one repair, and a repair is worth none.
AfterRawCall(k, members, o) ==
    LET unproved == o.class = "invalid_evidence"
                    \/ (o.class = "" /\ NonOperationalAuditEvidence(o.policy))
    IN  IF o.class = "" /\ ~unproved THEN Grounded(k, members, o)
        ELSE IF k.repair THEN GroundedFails(k, members, "cyber_unresolved")
        ELSE IF unproved THEN [k EXCEPT !.pc = "repair"]
        ELSE GroundedFails(k, members, o.class)

-----------------------------------------------------------------------------
(* Plans and their budgets. *)

\* Mutant of ConfigureChunkBudget: no repair is reserved for.
ConfigureOneCallEach(b, chunks) ==
    LET AtLeast(x, y) == IF x > y THEN x ELSE y
    IN  [b EXCEPT !.plans = @ + 1,
                  !.http = AtLeast(CyberDenyHTTPBudget, @) + chunks * (1 + MaxPanel),
                  !.review = AtLeast(MaxAuditSemanticCalls, @) + chunks * MaxPanel]

ConfigureChunkBudget(b, chunks) ==
    LET AtLeast(x, y) == IF x > y THEN x ELSE y
    IN  [b EXCEPT !.plans = @ + 1,
                  !.http = AtLeast(CyberDenyHTTPBudget, @) + chunks * 2 * (1 + MaxPanel),
                  !.review = AtLeast(MaxAuditSemanticCalls, @)
                             + chunks * (1 + 2 * MaxPanel)]

\* Why another plan may follow: a call failed and its error permits another try.
Retriable(r) == {call[c].result.remedy : c \in CallsOf(r)} \ {"", "stop"}

\* The whole text in one call first; a context error splits it, and a text once
\* split stays split.
StartPlan(r) ==
    /\ \A c \in CallsOf(r) : call[c].pc \in {"idle", "done"}
    /\ ctx[r] # "canceled"
    /\ budget[r].plans < MaxAuditChunkPlans
    /\ plan[r] = "none" \/ Retriable(r) # {}
    /\ \A c \in CallsOf(r) : call[c].result.decision # "block"
    /\ LET split  == plan[r] = "chunked" \/ "split" \in Retriable(r)
           active == IF split THEN CallsOf(r) ELSE {CHOOSE c \in CallsOf(r) : TRUE}
       IN  /\ plan' = [plan EXCEPT ![r] = IF split THEN "chunked" ELSE "single"]
           /\ budget' = [budget EXCEPT ![r] = ConfigureChunkBudget(@, Cardinality(active))]
           /\ call' = [c \in Calls |->
                          CASE RequestOf[c] # r -> call[c]
                            [] c \in active -> [Idle EXCEPT !.pc = "slot"]
                            [] OTHER -> Idle]
    /\ ctx' = [ctx EXCEPT ![r] = "live"]
    /\ UNCHANGED <<slots, panel>>

\* The collector of callModelChunks cancels the siblings of a block or an error.
CancelSiblings(r) ==
    /\ ctx[r] = "live"
    /\ plan[r] = "chunked"
    /\ \E c \in CallsOf(r) : call[c].result.decision \in {"block", "error"}
    /\ \E c \in CallsOf(r) : call[c].pc \notin {"idle", "done"}
    /\ ctx' = [ctx EXCEPT ![r] = "plan"]
    /\ UNCHANGED <<call, slots, plan, budget, panel>>

\* The client leaves, or AUDIT_REQUEST_TIMEOUT passes.
CancelRequest(r) ==
    /\ ctx[r] # "canceled"
    /\ \E c \in CallsOf(r) : call[c].pc \notin {"idle", "done"}
    /\ ctx' = [ctx EXCEPT ![r] = "canceled"]
    /\ UNCHANGED <<call, slots, plan, budget, panel>>

-----------------------------------------------------------------------------
(* The steps of a call. *)

Becomes(c, k) == call' = [call EXCEPT ![c] = k]
Canceled(c) == ctx[RequestOf[c]] # "live"
PanelOf(c) == panel[RequestOf[c]]

\* acquireAuditModelSlot, and then the HTTP budget under the request's mutex.
AcquireAuditModelSlot(c) ==
    LET r == RequestOf[c]
    IN  /\ call[c].pc = "slot"
        /\ ~Canceled(c)
        /\ slots < Slots
        /\ IF budget[r].httpCalls >= budget[r].http
           THEN /\ Becomes(c, GroundedFails(call[c], PanelOf(c), "audit_http_budget"))
                /\ UNCHANGED <<slots, budget>>
           ELSE /\ Becomes(c, [call[c] EXCEPT !.pc = "http"])
                /\ slots' = slots + 1
                /\ budget' = [budget EXCEPT ![r].httpCalls = @ + 1]
        /\ UNCHANGED <<ctx, plan, panel>>

\* The context is done: select takes that case, or takes a slot and, having
\* looked again, gives it back.
SlotCanceled(c) ==
    /\ call[c].pc = "slot"
    /\ Canceled(c)
    /\ Becomes(c, GroundedFails(call[c], PanelOf(c), "canceled"))
    /\ UNCHANGED <<slots, ctx, plan, budget, panel>>

\* Mutant of Respond: the slot is held until the whole call returns.
RespondHoldingSlot(c, o) ==
    LET k == AfterRawCall(call[c], PanelOf(c), o)
    IN  /\ call[c].pc = "http"
        /\ slots' = IF k.pc = "done" THEN slots - 1 ELSE slots
        /\ Becomes(c, k)
        /\ UNCHANGED <<ctx, plan, budget, panel>>

\* The response, or a transport error: the connection, the timeout of the call or
\* the end of the context.  The slot is free before the next raw call.
Respond(c, o) ==
    /\ call[c].pc = "http"
    /\ slots' = slots - 1
    /\ Becomes(c, AfterRawCall(call[c], PanelOf(c), o))
    /\ UNCHANGED <<ctx, plan, budget, panel>>

ReserveReview(c) ==
    budget' = [budget EXCEPT ![RequestOf[c]].reviewCalls = @ + 1]
ReviewLeft(c) == budget[RequestOf[c]].reviewCalls < budget[RequestOf[c]].review

\* The repair: its review is counted before the context is looked at.
Repair(c) ==
    /\ call[c].pc = "repair"
    /\ IF ReviewLeft(c) THEN ReserveReview(c) ELSE UNCHANGED budget
    /\ Becomes(c, IF ReviewLeft(c) /\ ~Canceled(c)
                  THEN [call[c] EXCEPT !.pc = "slot", !.repair = TRUE]
                  ELSE GroundedFails(call[c], PanelOf(c), "cyber_unresolved"))
    /\ UNCHANGED <<slots, ctx, plan, panel>>

AskVerifier(c) ==
    /\ call[c].pc = "ask"
    /\ IF ReviewLeft(c) THEN ReserveReview(c) ELSE UNCHANGED budget
    /\ Becomes(c, IF ReviewLeft(c) THEN [call[c] EXCEPT !.pc = "slot"]
                  ELSE Ends(call[c], Fails("semantic_review_budget")))
    /\ UNCHANGED <<slots, ctx, plan, panel>>

\* The profiles of the panel are looked up before the first of them is asked.
VerifierUnavailable(c) ==
    /\ call[c].pc = "ask"
    /\ call[c].votes = <<>>
    /\ Becomes(c, Ends(call[c], Fails(IF PanelOf(c) > 1 THEN "fusion_unavailable"
                                      ELSE "semantic_verifier_unavailable")))
    /\ UNCHANGED <<slots, ctx, plan, budget, panel>>

CallStep(c) ==
    \/ AcquireAuditModelSlot(c)
    \/ SlotCanceled(c)
    \/ \E response \in Responses : Respond(c, Outcome(response))
    \/ Repair(c)
    \/ AskVerifier(c)
    \/ VerifierUnavailable(c)

Next ==
    \/ \E r \in Requests : StartPlan(r) \/ CancelSiblings(r) \/ CancelRequest(r)
    \/ \E c \in Calls : CallStep(c)

\* A goroutine that can go on does, and an HTTP call ends by its timeout at the
\* latest.  Nobody has to send or to cancel a request.
Fairness == \A c \in Calls : WF_vars(CallStep(c))

Spec == Init /\ [][Next]_vars /\ Fairness

-----------------------------------------------------------------------------
(* Properties. *)

Results == [decision : {"none", "clean", "doubt", "block", "error"},
            remedy : {"", "split", "stop", "again"}, grounds : SUBSET Outcomes]
CallStates == [pc : {"idle", "slot", "http", "repair", "ask", "done"},
               verifying : BOOLEAN, repair : BOOLEAN,
               votes : Seq({"clean", "doubt", "scoped", "failed", "block"}), result : Results]

TypeOK ==
    /\ call \in [Calls -> CallStates]
    /\ slots \in 0..Slots
    /\ budget \in [Requests -> [plans : Nat, http : Nat, httpCalls : Nat,
                                review : Nat, reviewCalls : Nat]]
    /\ ctx \in [Requests -> {"live", "plan", "canceled"}]
    /\ plan \in [Requests -> {"none", "single", "chunked"}]
    /\ panel \in [Requests -> 0..MaxPanel]

\* The policy of v29: a model verdict denies a request only when the response held
\* exactly one policy object, in whatever wrappers, and that object quotes from
\* the request an operation that does harm, under a code that may block.  It holds
\* on the primary path, after a repair and for a verifier's denial alike.
BlockIsProved ==
    \A c \in Calls :
        call[c].result.decision = "block" =>
            \E o \in call[c].result.grounds :
                /\ o.offered = 1
                /\ o.policy.decision = "block"
                /\ o.policy.evidence = "harm"
                /\ o.policy.code \in {"governed", "proved"}

\* Every member of the panel was asked and answered.
Heard(c) == /\ Len(call[c].votes) = PanelOf(c)
            /\ \A i \in DOMAIN call[c].votes : call[c].votes[i] # "failed"

\* audit_fusion.go: a panel may "never conceal failed/missing assessments".  A call
\* whose request has verifiers ends in an allow only when each of them was asked and
\* answered, with one exception that the code makes: a denial ends the panel at
\* once, and when v28 or v29 does not confirm it, it becomes an allow too, whoever
\* failed before it or was not asked yet (semanticAdjudicateCyberCandidateV25
\* returns it without looking at failure).  A clean allow knows no exception.
PanelIsHeard ==
    \A c \in Calls :
        /\ call[c].result.decision = "clean" => Heard(c)
        /\ call[c].result.decision = "doubt" /\ call[c].verifying =>
              Heard(c) \/ Last(call[c].votes) = "block"

\* configureChunkBudget reserves "the complete plan (primary and verifiers, each
\* with at most one existing repair)": whatever the calls of the request's earlier
\* plans have spent, a call that is about to use the HTTP or the review budget
\* finds something left.
BudgetsSuffice ==
    /\ TypeOK
    /\ \A c \in Calls :
          LET b == budget[RequestOf[c]]
          IN  /\ call[c].pc = "slot" => b.httpCalls < b.http
              /\ call[c].pc \in {"repair", "ask"} => b.reviewCalls < b.review

\* acquireAuditModelSlot: "a one-slot engine cannot deadlock".  Every call ends,
\* although primary, repair and verifier of every request share the slots.
CallsEnd == \A c \in Calls : []<>(call[c].pc \in {"idle", "done"})
=============================================================================
