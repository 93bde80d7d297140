---------------------------- MODULE RuleLearning ----------------------------
(***************************************************************************)
(* The rules of the audit engine and how they change: the learner of       *)
(* adaptive_rules.go (a bounded queue of upstream failures, two workers,   *)
(* candidate rows in PostgreSQL), the administrators' candidate workflow   *)
(* of adaptive_admin.go, their edits of cyber_rules, and ReloadRules of    *)
(* audit.go, by which a worker, an administrator and the ticker replace    *)
(* the compiled snapshot the requests are matched against.                 *)
(*                                                                         *)
(* A candidate is its fingerprint, the category and the indicators that    *)
(* were kept, and its rule code is a function of that.  A                  *)
(* confidence is the band it falls in: 0 below 0.80, 1 below 0.985, 2      *)
(* below 0.995, 3 from there.  What a pattern matches is not modelled.     *)
(***************************************************************************)
EXTENDS Naturals, Sequences, FiniteSets

CONSTANTS
    Categories,     \* adaptiveCategoryAllowlist
    Refused,        \* indicators that validateAdaptiveIndicators drops
    Answers,        \* what the classifier may answer
    Users,          \* digests of client identities
    NoUser,         \* a sample without a client identity
    Workers,        \* the goroutines of adaptiveLearningWorker, two in Start
    QueueSize,      \* adaptiveLearningQueueSize, 512 in the code
    HardEvidence,   \* 10 in PromoteCyberRuleCandidate
    HardUsers,      \* 3 in PromoteCyberRuleCandidate
    Policies,       \* the values the settings table may hold
    RuleInputs,     \* what administrators save: on, action and blank pattern
    DefaultPolicy,  \* defaultAdaptiveRulePolicy
    MaxSamples,     \* bound on the failures observed
    MaxEdits,       \* bound on what administrators and operators do
    MaxFaults       \* bound on the database calls that fail

Bands == 0..3
RuleActions == {"allow", "review", "block"}
Statuses == {"none", "candidate", "shadow", "rejected", "promoted"}
Policy == [enabled : BOOLEAN, promote : BOOLEAN, block : BOOLEAN,
           band : Nat, evidence : Nat, users : Nat]

ASSUME RuleLearningAssumption ==
    /\ NoUser \notin Users
    /\ IsFiniteSet(Users)
    /\ QueueSize \in Nat \ {0}
    /\ HardEvidence \in Nat \ {0}
    /\ HardUsers \in Nat \ {0}
    /\ Policies \subseteq Policy
    /\ DefaultPolicy \in Policy
    /\ \A a \in Answers : a.cyber \in BOOLEAN /\ a.band \in Bands
    /\ MaxSamples \in Nat
    /\ RuleInputs \subseteq [on : BOOLEAN, action : STRING, blank : BOOLEAN]
    /\ MaxEdits \in Nat
    /\ MaxFaults \in Nat

-----------------------------------------------------------------------------
(* The classifier's answer. *)

\* Not in the request, sensitive, too short or too long: dropped one by one.
ValidateAdaptiveIndicators(answer) == answer.indicators \ Refused

\* What processAdaptiveFailure asks of an answer before it persists anything.
Learnable(answer) ==
    /\ answer.cyber
    /\ answer.band > 0
    /\ answer.category \in Categories
    /\ Cardinality(ValidateAdaptiveIndicators(answer)) >= 2

Fingerprint(answer) == <<answer.category, ValidateAdaptiveIndicators(answer)>>
Candidates == {Fingerprint(a) : a \in {b \in Answers : Learnable(b)}}

VARIABLES
    settings,   \* the policy in the settings table
    policy,     \* e.adaptivePolicy
    queue,      \* e.adaptiveQueue: the users of the samples waiting
    cands,      \* cyber_rule_candidates with cyber_rule_candidate_users
    rules,      \* cyber_rules, by the code that belongs to a candidate
    snapshot,   \* e.rules: the enabled rules of some earlier moment
    loadFailed, \* e.ruleLoadFailed
    worker,     \* worker -> where processAdaptiveFailure stands
    reload,     \* actor -> where its call of ReloadRules stands
    budget      \* samples, edits and faults so far

learnVars == <<settings, policy, queue, cands, rules, snapshot, loadFailed, worker,
          reload, budget>>

Actors == Workers \cup {"ticker", "admin"}

NoCandidate == [status |-> "none", band |-> 0, evidence |-> 0, users |-> {}]
\* by: who gave the rule its action last, or that a promotion kept an operator's
\* block; a ghost, the table has no such column.
NoRule == [on |-> FALSE, action |-> "allow", by |-> "nobody", blank |-> FALSE]
\* seen: the status of the row that the worker's own transaction returned.
Idle == [pc |-> "idle", user |-> NoUser, cand |-> <<>>, seen |-> "none",
         block |-> FALSE]
NotReloading == [pc |-> "idle", read |-> [c \in {} |-> NoRule]]

\* What SELECT ... WHERE enabled=TRUE returns.
Enabled(r) == [c \in {d \in Candidates : r[d].on} |-> r[c]]

\* ReloadRules refuses the whole table when one enabled rule does not compile.
\* ValidateCyberRule lets one such rule through: "contains" with a blank pattern.
Loadable(r) == \A c \in DOMAIN r : ~r[c].blank

\* LoadAdaptiveRulePolicy: a value out of range is replaced by a default.
Normalized(p) ==
    [p EXCEPT !.band = IF @ = 0 \/ @ > 3 THEN 2 ELSE @,
              !.evidence = IF @ = 0 THEN 3 ELSE @]

\* SaveAdaptiveRulePolicy returns an error for a value out of range.
ValidPolicy(p) == p.band \in 1..3 /\ p.evidence > 0

LearnInit ==
    /\ settings \in Policies
    /\ policy \in {Normalized(settings), DefaultPolicy}
    /\ queue = <<>>
    /\ cands = [c \in Candidates |-> NoCandidate]
    /\ rules = [c \in Candidates |-> NoRule]
    /\ snapshot = Enabled(rules)
    /\ loadFailed = FALSE
    /\ worker = [w \in Workers |-> Idle]
    /\ reload = [a \in Actors |-> NotReloading]
    /\ budget = [samples |-> 0, edits |-> 0, faults |-> 0]

Spend(what, bound) ==
    /\ budget[what] < bound
    /\ budget' = [budget EXCEPT ![what] = @ + 1]

Fault == Spend("faults", MaxFaults)

-----------------------------------------------------------------------------
(* ReloadRules, called by every actor.  The snapshot and the flag are two  *)
(* stores, and nothing orders the calls of two actors.                     *)

StartReload(a) == reload' = [reload EXCEPT ![a] = [NotReloading EXCEPT !.pc = "read"]]

\* What the callers do next: a worker is done with its sample and a handler
\* answers, whether the reload failed or not; the ticker goes on to the policy.
Return(a) ==
    /\ reload' = [reload EXCEPT
            ![a] = [NotReloading EXCEPT !.pc = IF a = "ticker" THEN "policy" ELSE "idle"]]
    /\ worker' = [w \in Workers |-> IF w = a THEN Idle ELSE worker[w]]

\* An error of the query, or of a rule that does not compile, returns at once.
ReadRules(a) ==
    /\ reload[a].pc = "read"
    /\ \/ /\ Loadable(Enabled(rules))
          /\ reload' = [reload EXCEPT ![a] = [pc |-> "store", read |-> Enabled(rules)]]
          /\ UNCHANGED budget
       \/ /\ IF Loadable(Enabled(rules)) THEN Fault ELSE UNCHANGED budget
          /\ reload' = [reload EXCEPT ![a] = [NotReloading EXCEPT !.pc = "failed"]]
    /\ UNCHANGED <<settings, policy, queue, cands, rules, snapshot, loadFailed, worker>>

\* Mutant of StoreRules: the snapshot is replaced only when it was empty.
StoreRulesOnce(a) ==
    /\ reload[a].pc = "store"
    /\ snapshot' = IF DOMAIN snapshot = {} THEN reload[a].read ELSE snapshot
    /\ reload' = [reload EXCEPT ![a] = [NotReloading EXCEPT !.pc = "loaded"]]
    /\ UNCHANGED <<settings, policy, queue, cands, rules, loadFailed, worker, budget>>

StoreRules(a) ==
    /\ reload[a].pc = "store"
    /\ snapshot' = reload[a].read
    /\ reload' = [reload EXCEPT ![a] = [NotReloading EXCEPT !.pc = "loaded"]]
    /\ UNCHANGED <<settings, policy, queue, cands, rules, loadFailed, worker, budget>>

\* The deferred store of the flag.
StoreFlag(a) ==
    /\ reload[a].pc \in {"loaded", "failed"}
    /\ loadFailed' = (reload[a].pc = "failed")
    /\ Return(a)
    /\ UNCHANGED <<settings, policy, queue, cands, rules, snapshot, budget>>

(* The ticker of Start: the rules, then the policy. *)
Tick ==
    /\ reload["ticker"].pc = "idle"
    /\ StartReload("ticker")
    /\ UNCHANGED <<settings, policy, queue, cands, rules, snapshot, loadFailed,
                   worker, budget>>

ReloadAdaptivePolicy ==
    /\ reload["ticker"].pc = "policy"
    /\ reload' = [reload EXCEPT !["ticker"] = NotReloading]
    /\ \/ policy' = Normalized(settings) /\ UNCHANGED budget
       \/ Fault /\ UNCHANGED policy
    /\ UNCHANGED <<settings, queue, cands, rules, snapshot, loadFailed, worker>>

-----------------------------------------------------------------------------
(* The gateway hands a failure over and never waits. *)

ObserveUpstreamFailure(u) ==
    /\ Spend("samples", MaxSamples)
    /\ policy.enabled
    /\ queue' = IF Len(queue) < QueueSize THEN Append(queue, u) ELSE queue
    /\ UNCHANGED <<settings, policy, cands, rules, snapshot, loadFailed, worker,
                   reload>>

TakeSample(w) ==
    /\ worker[w].pc = "idle"
    /\ queue # <<>>
    /\ queue' = Tail(queue)
    /\ worker' = IF policy.enabled
                 THEN [worker EXCEPT ![w] = [Idle EXCEPT !.pc = "classify",
                                                         !.user = Head(queue)]]
                 ELSE worker
    /\ UNCHANGED <<settings, policy, cands, rules, snapshot, loadFailed, reload,
                   budget>>

\* No profile, no answer in time, an answer that is not JSON, or a transaction
\* that fails: the sample is forgotten.
ClassificationFails(w) ==
    /\ worker[w].pc = "classify"
    /\ worker' = [worker EXCEPT ![w] = Idle]
    /\ UNCHANGED <<settings, policy, queue, cands, rules, snapshot, loadFailed,
                   reload, budget>>

NothingToLearn(w, answer) ==
    /\ worker[w].pc = "classify"
    /\ ~Learnable(answer)
    /\ worker' = [worker EXCEPT ![w] = Idle]
    /\ UNCHANGED <<settings, policy, queue, cands, rules, snapshot, loadFailed,
                   reload, budget>>

\* The row after UpsertCyberRuleCandidate.
Upserted(row, band, u) ==
    [status   |-> CASE row.status = "none" -> "candidate"
                    [] row.status = "candidate" -> "shadow"
                    [] OTHER -> row.status,
     band     |-> IF band > row.band THEN band ELSE row.band,
     evidence |-> row.evidence + 1,
     users    |-> row.users \cup ({u} \ {NoUser})]

\* Mutant of MayPromote: the status of the row is not looked at.
MayPromoteAnyStatus(row, p) ==
    /\ p.promote
    /\ row.band >= p.band
    /\ row.evidence >= p.evidence
    /\ Cardinality(row.users) >= p.users

\* The thresholds, against the row the transaction returned.
MayPromote(row, p) ==
    /\ p.promote
    /\ row.status # "rejected"
    /\ row.band >= p.band
    /\ row.evidence >= p.evidence
    /\ Cardinality(row.users) >= p.users

\* Mutant of HardBlock: the floor counts attempts and not people.
HardBlockByAttempts(row, autoBlock) ==
    autoBlock /\ row.band = 3 /\ row.evidence >= HardEvidence

\* The floor no policy can lower.
HardBlock(row, autoBlock) ==
    /\ autoBlock
    /\ row.band = 3
    /\ row.evidence >= HardEvidence
    /\ Cardinality(row.users) >= HardUsers

\* The transaction, and then the worker goes by the row it returned and by the
\* policy of that moment.
UpsertCyberRuleCandidate(w, answer) ==
    /\ worker[w].pc = "classify"
    /\ Learnable(answer)
    /\ LET c   == Fingerprint(answer)
           row == Upserted(cands[c], answer.band, worker[w].user)
       IN  /\ cands' = [cands EXCEPT ![c] = row]
           /\ worker' = [worker EXCEPT
                   ![w] = IF MayPromote(row, policy)
                          THEN [Idle EXCEPT !.pc = "promote", !.cand = c,
                                            !.seen = row.status,
                                            !.block = HardBlock(row, policy.block)]
                          ELSE Idle]
    /\ UNCHANGED <<settings, policy, queue, rules, snapshot, loadFailed, reload,
                   budget>>

\* INSERT ... ON CONFLICT(code) DO UPDATE: an existing rule is overwritten and
\* enabled, except that a block stays one.  The pattern becomes the candidate's.
Learned(old, block) ==
    [on     |-> TRUE,
     action |-> IF block \/ old.action = "block" THEN "block" ELSE "review",
     by     |-> IF ~block /\ old.action = "block" /\ old.by # "learner" THEN "kept"
                ELSE "learner",
     blank  |-> FALSE]

PromoteCyberRuleCandidate(w) ==
    /\ worker[w].pc = "promote"
    /\ \/ LET c == worker[w].cand
          IN  /\ rules' = [rules EXCEPT ![c] = Learned(@, worker[w].block)]
              /\ cands' = [cands EXCEPT ![c].status = "promoted"]
              /\ worker' = [worker EXCEPT ![w] = [Idle EXCEPT !.pc = "reload"]]
              /\ StartReload(w)
              /\ UNCHANGED budget
       \/ /\ Fault
          /\ worker' = [worker EXCEPT ![w] = Idle]
          /\ UNCHANGED <<rules, cands, reload>>
    /\ UNCHANGED <<settings, policy, queue, snapshot, loadFailed>>

-----------------------------------------------------------------------------
(* Administrators. *)

Edit == Spend("edits", MaxEdits)
AdminIdle == reload["admin"].pc = "idle"

SetCyberRuleCandidateStatus(c, status) ==
    /\ AdminIdle
    /\ Edit
    /\ cands[c].status \notin {"none", "promoted"}
    /\ status \in {"shadow", "rejected"}
    /\ cands' = [cands EXCEPT ![c].status = status]
    /\ UNCHANGED <<settings, policy, queue, rules, snapshot, loadFailed, worker,
                   reload>>

\* ON CONFLICT(code) DO NOTHING: a code in use is a conflict and nothing changes.
PromoteCyberRuleCandidateManual(c, action) ==
    /\ AdminIdle
    /\ Edit
    /\ cands[c].status \in {"candidate", "shadow"}
    /\ rules[c] = NoRule
    /\ action \in {"review", "block"}
    /\ rules' = [rules EXCEPT ![c] = [on |-> TRUE, action |-> action,
                                      by |-> "operator", blank |-> FALSE]]
    /\ cands' = [cands EXCEPT ![c].status = "promoted"]
    /\ StartReload("admin")
    /\ UNCHANGED <<settings, policy, queue, snapshot, loadFailed, worker>>

\* The pattern has to compile, but nobody asks whether it is blank.
ValidateCyberRule(rule) == rule.action \in RuleActions

AdminSaveCyberRule(c, rule) ==
    /\ AdminIdle
    /\ Edit
    /\ ValidateCyberRule(rule)
    /\ rules' = [rules EXCEPT ![c] = [on |-> rule.on, action |-> rule.action,
                                      by |-> "operator", blank |-> rule.blank]]
    /\ StartReload("admin")
    /\ UNCHANGED <<settings, policy, queue, cands, snapshot, loadFailed, worker>>

AdminDeleteCyberRule(c) ==
    /\ AdminIdle
    /\ Edit
    /\ rules[c] # NoRule
    /\ rules' = [rules EXCEPT ![c] = NoRule]
    /\ StartReload("admin")
    /\ UNCHANGED <<settings, policy, queue, cands, snapshot, loadFailed, worker>>

SaveAdaptiveRulePolicy(p) ==
    /\ Edit
    /\ ValidPolicy(p)
    /\ p # settings
    /\ settings' = p
    /\ UNCHANGED <<policy, queue, cands, rules, snapshot, loadFailed, worker, reload>>

-----------------------------------------------------------------------------
ReloadStep(a) == ReadRules(a) \/ StoreRules(a) \/ StoreFlag(a)

WorkerStep(w) ==
    \/ TakeSample(w)
    \/ ClassificationFails(w)
    \/ \E answer \in Answers :
          NothingToLearn(w, answer) \/ UpsertCyberRuleCandidate(w, answer)
    \/ PromoteCyberRuleCandidate(w)

AdminStep ==
    \/ \E c \in Candidates :
          \/ \E s \in {"shadow", "rejected"} : SetCyberRuleCandidateStatus(c, s)
          \/ \E a \in {"review", "block"} : PromoteCyberRuleCandidateManual(c, a)
          \/ \E rule \in RuleInputs : AdminSaveCyberRule(c, rule)
          \/ AdminDeleteCyberRule(c)
    \/ \E p \in Policies : SaveAdaptiveRulePolicy(p)

LearnNext ==
    \/ \E u \in Users \cup {NoUser} : ObserveUpstreamFailure(u)
    \/ \E w \in Workers : WorkerStep(w)
    \/ \E a \in Actors : ReloadStep(a)
    \/ Tick
    \/ ReloadAdaptivePolicy
    \/ AdminStep

\* Goroutines that can run do, and the ticker keeps ticking.  Nobody has to
\* send requests or edit rules.
Fairness ==
    /\ \A w \in Workers : WF_learnVars(WorkerStep(w))
    /\ \A a \in Actors : WF_learnVars(ReloadStep(a))
    /\ WF_learnVars(Tick)
    /\ WF_learnVars(ReloadAdaptivePolicy)

LearnSpec == LearnInit /\ [][LearnNext]_learnVars /\ Fairness

-----------------------------------------------------------------------------
(* Properties. *)

Rule == [on : BOOLEAN, action : RuleActions,
         by : {"nobody", "learner", "kept", "operator"}, blank : BOOLEAN]
Row == [status : Statuses, band : Bands, evidence : Nat, users : SUBSET Users]

LearnTypeOK ==
    /\ settings \in Policy
    /\ policy \in Policy
    /\ queue \in Seq(Users \cup {NoUser}) /\ Len(queue) <= QueueSize
    /\ cands \in [Candidates -> Row]
    /\ rules \in [Candidates -> Rule]
    /\ DOMAIN snapshot \subseteq Candidates
    /\ loadFailed \in BOOLEAN
    /\ \A w \in Workers : worker[w].pc \in {"idle", "classify", "promote", "reload"}

\* docs/cyber-rules-and-adaptive-learning.md: one upstream error, one user's
\* retries or one wrong classification never make a hard block.  A rule that the
\* learner turned into a block, in the table or still in the snapshot, rests on a
\* candidate with the evidence, the distinct users and the confidence of the floor
\* in PromoteCyberRuleCandidate, however the workers and the operators interleave.
\* The exception is an operator's block under the same code: the promotion of a
\* candidate that has not earned one gives the rule the candidate's pattern, enables
\* it and keeps the action ("kept", adaptive_rules.go:335-353).
HardBlockIsEarned ==
    /\ LearnTypeOK
    /\ \A c \in Candidates :
          LET Blocks(r) == r.action = "block" /\ r.by = "learner"
          IN  (\/ Blocks(rules[c])
               \/ c \in DOMAIN snapshot /\ Blocks(snapshot[c]))
              => /\ cands[c].band = 3
                 /\ cands[c].evidence >= HardEvidence
                 /\ Cardinality(cands[c].users) >= HardUsers

\* A rejection binds every sample that is counted after it: a rejected candidate
\* is promoted only by a worker whose transaction had returned before the
\* rejection, since processAdaptiveFailure goes by the row of its own transaction
\* and PromoteCyberRuleCandidate updates by id.
RejectionHolds ==
    [][\A c \in Candidates :
          /\ cands[c].status = "rejected"
          /\ cands'[c].status = "promoted"
          => \E w \in Workers :
                /\ worker[w].pc = "promote"
                /\ worker[w].cand = c
                /\ worker[w].seen # "rejected"]_learnVars

\* Reloads of several actors may store an older table over a newer one and leave
\* the flag of another call, but only until the ticker: once the edits stop, the
\* requests are matched for ever against the stored rules with the flag clear,
\* unless an enabled rule cannot be compiled, and then the flag says so for ever.
RulesConverge ==
    <>[](IF Loadable(Enabled(rules))
         THEN snapshot = Enabled(rules) /\ ~loadFailed
         ELSE loadFailed)
=============================================================================
