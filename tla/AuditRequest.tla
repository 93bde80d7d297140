---------------------------- MODULE AuditRequest ----------------------------
(***************************************************************************)
(* AuditEngine.Audit (audit.go) for one request, with the retries and the  *)
(* fallback chain of callModelWithFailover (audit_failover.go).  The       *)
(* request passes extraction, scope, rules, a gate and the profile lookup, *)
(* and then asks models until one decides.  Every stage may end the audit: *)
(* a block rule or a model block denies, everything that goes wrong fails  *)
(* open (the v29 policy).                                                  *)
(*                                                                         *)
(* A model call (callModel, with its chunks and its verifiers) is external *)
(* here: it decides, or fails with an error of one of the classes that the *)
(* loop tells apart.                                                       *)
(***************************************************************************)
EXTENDS Naturals, Sequences

CONSTANTS
    Profiles,       \* audit profile ids
    Root,           \* the profile of the route
    Fallbacks,      \* root.FallbackProfileIDs
    Retries,        \* Profiles -> RetryCount, clamped to maxAuditRetryCount
    MaxFallbacks,   \* maxAuditFallbackProfiles (8)
    MaxTotal        \* maxAuditTotalAttempts (24)

ASSUME AuditRequestAssumption ==
    /\ Root \in Profiles
    /\ Fallbacks \in Seq(Profiles)
    /\ Retries \in [Profiles -> Nat]
    /\ MaxFallbacks \in Nat
    /\ MaxTotal \in Nat \ {0}

\* "uncertain" is an allow that the model layer already made of a doubt.
Decided == {"allow", "uncertain", "review", "block"}

\* auditErrorRetryableOnSameProfile; another profile may help; cyber_*, fusion_*
\* and the budget classes, which no other profile may bypass.
Errors == {"retryable", "deterministic", "terminal"}

VARIABLES
    ctx,         \* "live", "deadline" (AUDIT_REQUEST_TIMEOUT) or "canceled"
    input,       \* what extraction finds: [tools, complete]
    rulesStale,  \* ruleLoadFailed
    stage,       \* where the audit is
    cursor,      \* fallback ids resolved so far
    seen,        \* profile ids met so far
    profiles,    \* the chain
    pos,         \* profileIndex + 1
    attempt,     \* retry number on the current profile
    tries,       \* metadata.Attempts: the calls made
    modelRetries, fallbackCount,   \* the counters of the trace
    result       \* [decision, source, class, stage]

chainVars == <<cursor, seen, profiles>>
loopVars == <<pos, attempt, tries, modelRetries, fallbackCount>>
vars == <<ctx, input, rulesStale, stage, chainVars, loopVars, result>>

\* The empty ErrorClass and AuditFailureStage.
Unset == ""

NoResult == [decision |-> "none", source |-> "empty", class |-> Unset, at |-> Unset]

Init ==
    /\ ctx = "live"
    /\ input \in [tools : BOOLEAN, complete : BOOLEAN]
    /\ rulesStale \in BOOLEAN
    /\ stage = "extraction"
    /\ cursor = 0 /\ seen = {Root} /\ profiles = <<Root>>
    /\ pos = 1 /\ attempt = 0 /\ tries = <<>>
    /\ modelRetries = 0 /\ fallbackCount = 0
    /\ result = NoResult

\* The audit's own timeout, or the caller's context.
ContextEnds(how) ==
    /\ ctx = "live" /\ stage # "done"
    /\ ctx' = how
    /\ UNCHANGED <<input, rulesStale, stage, chainVars, loopVars, result>>

\* A refresh of the rules by the ticker or an administrator.
ReloadRules ==
    /\ stage # "done"
    /\ rulesStale' \in BOOLEAN \ {rulesStale}
    /\ UNCHANGED <<ctx, input, stage, chainVars, loopVars, result>>

-----------------------------------------------------------------------------
(* How an audit ends. *)

End(decision, source, class, at) ==
    /\ stage' = "done"
    /\ result' = [decision |-> decision, source |-> source, class |-> class,
                  at |-> at]

\* fail(err, stage): the class is the error's own, which names the context if the
\* error is the context's.
Fail(class, at) == End("allow", "platform", class, at)

\* The error of the context, once it has ended.
Ended == {ctx} \ {"live"}

\* failOpen(err) of callModelWithFailover returns an allow and no error, so Audit
\* sets neither ErrorClass nor AuditFailureStage.
FailOpen == End("allow", "model_error", Unset, Unset)

Goto(next) == stage' = next /\ UNCHANGED result

-----------------------------------------------------------------------------
(* The stages before the model. *)

Extract ==
    /\ stage = "extraction"
    /\ \/ \E class \in {"extraction"} \cup Ended : Fail(class, "extraction")
       \/ ctx = "live" /\ Goto("scope")
    /\ UNCHANGED <<ctx, input, rulesStale, chainVars, loopVars>>

Scope ==
    /\ stage = "scope"
    /\ IF ctx = "live" THEN Goto("rules") ELSE Fail(ctx, "scope")
    /\ UNCHANGED <<ctx, input, rulesStale, chainVars, loopVars>>

\* The tool documents are matched a second time in their decoded form.
NextView == IF stage = "rules" /\ input.tools THEN "decoded" ELSE "gate"

\* matchCyberDenyRulesContext: a block rule of the snapshot or of the baseline
\* matches, or none does, or one matches too often without being resolved, or the
\* context ended while they were tried.
MatchRules ==
    /\ stage \in {"rules", "decoded"}
    /\ \/ \E class \in {"candidate_budget"} \cup Ended : Fail(class, "rules")
       \/ ctx = "live" /\ End("block", "rule", Unset, Unset)
       \/ ctx = "live" /\ Goto(NextView)
    /\ UNCHANGED <<ctx, input, rulesStale, chainVars, loopVars>>

\* Mutant of Gate: coverage is not consulted.
GateIgnoresCoverage ==
    /\ stage = "gate"
    /\ CASE rulesStale -> Fail("rules_unavailable", "rules")
         [] ~rulesStale /\ ctx # "live" -> Fail(ctx, "profile")
         [] OTHER -> Goto("profile")
    /\ UNCHANGED <<ctx, input, rulesStale, chainVars, loopVars>>

\* The checks between the rules and the profile.
Gate ==
    /\ stage = "gate"
    /\ CASE rulesStale -> Fail("rules_unavailable", "rules")
         [] ~rulesStale /\ ~input.complete ->
               End("allow", "coverage", "input_coverage", "coverage")
         [] ~rulesStale /\ input.complete /\ ctx # "live" -> Fail(ctx, "profile")
         [] OTHER -> Goto("profile")
    /\ UNCHANGED <<ctx, input, rulesStale, chainVars, loopVars>>

\* getAuditProfile for the root, with its own 5 second limit; auditProfileFailure
\* prefers the error of the context.
LookupRoot ==
    /\ stage = "profile"
    /\ \/ Fail(IF ctx = "live" THEN "profile" ELSE ctx, "profile")
       \/ ctx = "live" /\ Goto("chain")
    /\ UNCHANGED <<ctx, input, rulesStale, chainVars, loopVars>>

-----------------------------------------------------------------------------
(* callModelWithFailover. *)

Admissible(id) == Len(profiles) < MaxFallbacks + 1 /\ id \notin seen

\* One fallback id: skipped, not available, or appended to the chain.
ResolveFallback ==
    /\ stage = "chain"
    /\ cursor < Len(Fallbacks)
    /\ cursor' = cursor + 1
    /\ LET id == Fallbacks[cursor + 1]
       IN  \/ /\ ~Admissible(id)
              /\ UNCHANGED <<seen, profiles>>
           \/ /\ Admissible(id)
              /\ seen' = seen \cup {id}
              /\ \/ UNCHANGED profiles
                 \/ ctx = "live" /\ profiles' = Append(profiles, id)
    /\ UNCHANGED <<ctx, input, rulesStale, stage, loopVars, result>>

ChainResolved ==
    /\ stage = "chain"
    /\ cursor = Len(Fallbacks)
    /\ Goto("next")
    /\ UNCHANGED <<ctx, input, rulesStale, chainVars, loopVars>>

Exhausted == Len(tries) >= MaxTotal

ChainEnded == pos > Len(profiles)

CountFallback == fallbackCount' = IF pos > 1 THEN fallbackCount + 1 ELSE fallbackCount

\* The head of the loop over the profiles.
NextProfile ==
    /\ stage = "next"
    /\ IF ChainEnded \/ ctx # "live" \/ Exhausted
          THEN FailOpen /\ UNCHANGED <<attempt, fallbackCount>>
          ELSE /\ CountFallback
               /\ attempt' = 0
               /\ Goto("try")
    /\ UNCHANGED <<ctx, input, rulesStale, chainVars, pos, tries, modelRetries>>

\* Mutant of Try: no check of the total.
TryForever ==
    /\ stage = "try"
    /\ IF ctx = "live" THEN Goto("call") ELSE FailOpen
    /\ UNCHANGED <<ctx, input, rulesStale, chainVars, loopVars>>

\* The head of the loop over the attempts.
Try ==
    /\ stage = "try"
    /\ IF ctx # "live" THEN FailOpen /\ UNCHANGED pos
       ELSE IF Exhausted THEN Goto("next") /\ pos' = pos + 1
       ELSE Goto("call") /\ UNCHANGED pos
    /\ UNCHANGED <<ctx, input, rulesStale, chainVars, attempt, tries,
                   modelRetries, fallbackCount>>

\* callModel answers, or fails; an ended context fails it in any class.
Record(outcome) ==
    tries' = Append(tries, [profile |-> profiles[pos], outcome |-> outcome])

\* Mutant of CallDecides: a review asks the next profile.
CallReviewFallsBack(d) ==
    /\ stage = "call"
    /\ Record(d)
    /\ IF d = "review"
          THEN Goto("next") /\ pos' = pos + 1
          ELSE /\ End(IF d = "block" THEN "block" ELSE "allow", "model", Unset, Unset)
               /\ UNCHANGED pos
    /\ UNCHANGED <<ctx, input, rulesStale, chainVars, attempt, modelRetries,
                   fallbackCount>>

\* The decision of the model; a review is made an allow at the end of Audit.
CallDecides(d) ==
    /\ stage = "call"
    /\ Record(d)
    /\ End(IF d = "block" THEN "block" ELSE "allow",
           IF d = "allow" \/ d = "block" THEN "model" ELSE "uncertain", Unset, Unset)
    /\ UNCHANGED <<ctx, input, rulesStale, chainVars, pos, attempt,
                   modelRetries, fallbackCount>>

MayRetry(e) == attempt < Retries[profiles[pos]] /\ e = "retryable"

CallFails(e) ==
    /\ stage = "call"
    /\ Record(e)
    /\ \/ /\ e = "terminal" /\ FailOpen
          /\ UNCHANGED <<pos, modelRetries>>
       \/ /\ e # "terminal" /\ ~MayRetry(e)
          /\ pos' = pos + 1
          /\ Goto("next")
          /\ UNCHANGED modelRetries
       \/ /\ e # "terminal" /\ MayRetry(e)
          /\ modelRetries' = modelRetries + 1
          /\ Goto("wait")
          /\ UNCHANGED pos
    /\ UNCHANGED <<ctx, input, rulesStale, chainVars, attempt, fallbackCount>>

\* Mutant of Wait: no timer.
WaitForContext ==
    /\ stage = "wait"
    /\ ctx # "live" /\ FailOpen
    /\ UNCHANGED <<ctx, input, rulesStale, chainVars, loopVars>>

\* waitAuditRetry: the timer, or the end of the context.
Wait ==
    /\ stage = "wait"
    /\ \/ ctx # "live" /\ FailOpen /\ UNCHANGED attempt
       \/ Goto("try") /\ attempt' = attempt + 1
    /\ UNCHANGED <<ctx, input, rulesStale, chainVars, pos, tries, modelRetries,
                   fallbackCount>>

-----------------------------------------------------------------------------

Step ==
    \/ Extract \/ Scope \/ MatchRules \/ Gate \/ LookupRoot
    \/ ResolveFallback \/ ChainResolved \/ NextProfile \/ Try \/ Wait
    \/ \E d \in Decided : CallDecides(d)
    \/ \E e \in Errors : CallFails(e)

Next ==
    \/ Step
    \/ \E how \in {"deadline", "canceled"} : ContextEnds(how)
    \/ ReloadRules

Spec == Init /\ [][Next]_vars

\* The goroutine of the request runs, and a model call has a timeout.
FairSpec == Spec /\ WF_vars(Step)

-----------------------------------------------------------------------------
(* Properties. *)

Stages == {"extraction", "scope", "rules", "decoded", "gate", "profile",
           "chain", "next", "try", "call", "wait", "done"}

TypeOK ==
    /\ ctx \in {"live", "deadline", "canceled"}
    /\ input \in [tools : BOOLEAN, complete : BOOLEAN]
    /\ rulesStale \in BOOLEAN
    /\ stage \in Stages
    /\ cursor \in 0 .. Len(Fallbacks)
    /\ seen \in SUBSET Profiles
    /\ profiles \in Seq(Profiles)
    /\ pos \in 1 .. Len(profiles) + 1 /\ attempt \in Nat
    /\ tries \in Seq([profile : Profiles, outcome : Decided \cup Errors])
    /\ modelRetries \in Nat /\ fallbackCount \in Nat
    /\ result.decision \in {"none", "allow", "block"}
    /\ stage = "call" => pos <= Len(profiles)

Done == stage = "done"
Outcome(i) == tries[i].outcome

(***************************************************************************)
(* The chain is walked in order and only forward: a profile that was left  *)
(* is never asked again, one is left early only for an error that a retry  *)
(* cannot mend, and a profile is in the chain once                         *)
(* (docs/audit-retry-fallback.md).                                         *)
(***************************************************************************)
ChainIsWalkedForward ==
    /\ \A i, j \in DOMAIN profiles : profiles[i] = profiles[j] => i = j
    /\ \A i \in DOMAIN tries \ {1} :
          \/ tries[i].profile = tries[i - 1].profile /\ Outcome(i - 1) = "retryable"
          \/ \E k, m \in DOMAIN profiles :
                /\ k < m
                /\ profiles[k] = tries[i - 1].profile
                /\ profiles[m] = tries[i].profile

(***************************************************************************)
(* "全链路设置了 24 次模型调用的硬上限" (docs/audit-retry-fallback.md),    *)
(* and no profile is called more often than its own retries allow, however *)
(* the two loops share the budget.  The counters of the trace agree with   *)
(* the calls: every call is the first one, a retry or a fallback, and at   *)
(* most one of those was announced and not made.  The calls follow the     *)
(* chain.                                                                  *)
(***************************************************************************)
CallBudget ==
    /\ TypeOK
    /\ ChainIsWalkedForward
    /\ Len(tries) <= MaxTotal
    /\ \A i, j \in DOMAIN tries :
          tries[i].profile = tries[j].profile /\ i <= j =>
             j - i <= Retries[tries[i].profile]
    /\ LET announced == 1 + modelRetries + fallbackCount
       IN  Done /\ tries # <<>> =>
               Len(tries) <= announced /\ announced <= Len(tries) + 1

(***************************************************************************)
(* "`block` 和 `review` 是有效的安全决策，不会触发重试或备用模型切换":     *)
(* the first decision of a model is the last call, and a block of a model  *)
(* is the decision of the audit.                                           *)
(***************************************************************************)
FirstDecisionIsFinal ==
    \A i \in DOMAIN tries : Outcome(i) \in Decided =>
        /\ Done /\ i = Len(tries)
        /\ (result.decision = "block") = (Outcome(i) = "block")

(***************************************************************************)
(* An allow is explained.  One that a model is credited with was the       *)
(* answer of a model, to a request whose input was covered (the gate of    *)
(* Audit before the profile); one of a stage before the models that failed *)
(* open names an error class, also when the context ended in the middle of *)
(* it (the closure fail of Audit).  One of callModelWithFailover names no  *)
(* class: failOpen returns no error, and that of a deadline is lost.       *)
(***************************************************************************)
AllowIsExplained ==
    Done /\ result.decision = "allow" =>
        /\ result.source = "model" =>
              /\ tries # <<>> /\ Outcome(Len(tries)) = "allow"
              /\ input.complete
        /\ tries = <<>> /\ result.source # "model_error" => result.class # Unset

\* Every audit ends, whatever the models answer.
AuditEnds == <>Done
=============================================================================
