------------------------- MODULE AuditRequestProofs -------------------------
(***************************************************************************)
(* CallBudget, FirstDecisionIsFinal and AllowIsExplained of AuditRequest   *)
(* for any chain of profiles, any retries and any budget of calls, that no *)
(* audit goes on for ever, and then HardBlockIsEarned and RejectionHolds   *)
(* of the rules the audit matches, for any workers, users, answers and     *)
(* policies.                                                               *)
(***************************************************************************)
EXTENDS AuditRequest, RuleLearning, FiniteSetTheorems, TLAPS

Before == {"extraction", "scope", "rules", "decoded", "gate", "profile", "chain"}
Loop == {"try", "call", "wait"}

\* The calls made on the current profile.
Made == IF stage = "wait" THEN attempt + 1
        ELSE IF stage \in {"try", "call"} THEN attempt ELSE 0

\* The chain names every profile once, and does not grow once it is walked.
ChainInv ==
    /\ \A i \in DOMAIN profiles : profiles[i] \in seen
    /\ \A i, j \in DOMAIN profiles : profiles[i] = profiles[j] => i = j
    /\ Len(profiles) >= 1
    /\ stage \in Before => tries = <<>> /\ pos = 1
    /\ stage \in Loop => pos <= Len(profiles)

\* The last calls were made on the current profile and may be repeated, the ones
\* before on earlier profiles.
WalkInv ==
    stage \notin Before \cup {"done"} =>
        /\ Made <= Len(tries)
        /\ \A i \in DOMAIN tries :
              IF i > Len(tries) - Made
                 THEN tries[i].profile = profiles[pos] /\ Outcome(i) = "retryable"
                 ELSE \E k \in DOMAIN profiles : k < pos /\ tries[i].profile = profiles[k]

\* The budgets of the two loops.
BudgetInv ==
    /\ stage \in {"try", "call"} => attempt <= Retries[profiles[pos]]
    /\ stage = "wait" => attempt < Retries[profiles[pos]]
    /\ stage = "call" => Len(tries) < MaxTotal
    /\ Len(tries) <= MaxTotal

\* No profile got more calls than its retries allow.
SpanInv ==
    \A i, j \in DOMAIN tries :
        tries[i].profile = tries[j].profile /\ i <= j =>
            j - i <= Retries[tries[i].profile]

\* A call that was announced, as the first, a retry or a fallback, is the next
\* one, or is not made because the budget is spent or the context has ended.
AnnouncedInv ==
    LET announced == modelRetries + fallbackCount
    IN  /\ stage \in Before => announced = 0
        /\ stage \in Loop => announced = Len(tries)
        /\ stage = "next" =>
              \/ tries = <<>> /\ pos = 1 /\ announced = 0
              \/ /\ pos > 1 /\ tries # <<>>
                 /\ \/ announced = Len(tries) - 1
                    \/ announced = Len(tries) /\ Exhausted
        /\ Done /\ tries # <<>> =>
              announced = Len(tries) - 1 \/ announced = Len(tries)

\* A decision of a model ends the audit.
DecisionInv ==
    /\ ~Done => \A i \in DOMAIN tries : Outcome(i) \in Errors
    /\ FirstDecisionIsFinal

\* What is past the gate was covered.
ExplainedInv ==
    /\ stage \in {"profile", "chain", "next"} \cup Loop => input.complete
    /\ AllowIsExplained

IInv ==
    /\ TypeOK /\ ChainInv /\ WalkInv /\ BudgetInv /\ SpanInv /\ ChainIsWalkedForward
    /\ AnnouncedInv /\ DecisionInv /\ ExplainedInv

USE AuditRequestAssumption

Call == [profile : Profiles, outcome : Decided \cup Errors]

-----------------------------------------------------------------------------
(* Types. *)

\* A new audit has a request to read and nothing else.
LEMMA TypeInit == Init => TypeOK
<1> SUFFICES ASSUME Init PROVE TypeOK
    OBVIOUS
<1>1. <<Root>> \in Seq(Profiles) /\ Len(<<Root>>) = 1
    OBVIOUS
<1>2. <<>> \in Seq(Call) /\ Len(Fallbacks) \in Nat
    OBVIOUS
<1> QED
    BY <1>1, <1>2 DEF Init, TypeOK, Stages, NoResult, Call

\* One more call on the current profile.
LEMMA RecordTypes ==
    ASSUME TypeOK, stage = "call", NEW o \in Decided \cup Errors, Record(o)
    PROVE  /\ tries' \in Seq(Call) /\ Len(tries') = Len(tries) + 1
           /\ DOMAIN tries' = 1 .. (Len(tries) + 1) /\ DOMAIN tries = 1 .. Len(tries)
           /\ Len(tries) \in Nat
           /\ \A i \in DOMAIN tries : tries'[i] = tries[i]
           /\ tries'[Len(tries) + 1] = [profile |-> profiles[pos], outcome |-> o]
<1>1. pos \in DOMAIN profiles /\ profiles[pos] \in Profiles
    BY DEF TypeOK
<1>2. [profile |-> profiles[pos], outcome |-> o] \in Call
    BY <1>1 DEF Call
<1>3. tries \in Seq(Call)
    BY DEF TypeOK, Call
<1> QED
    BY <1>2, <1>3 DEF Record

\* A stage of Audit, or of the loops, leads to a stage or to an end.
LEMMA EndTypes ==
    ASSUME TypeOK, NEW d \in {"allow", "block"}, NEW source, NEW class, NEW at,
           End(d, source, class, at)
    PROVE  stage' = "done" /\ result'.decision \in {"none", "allow", "block"}
BY DEF End

\* The chain grows within the profiles, and the walk stays on it.
LEMMA TypeStep == TypeOK /\ ChainInv /\ [Next]_vars => TypeOK'
<1> SUFFICES ASSUME TypeOK, ChainInv, [Next]_vars PROVE TypeOK'
    OBVIOUS
<1> USE DEF chainVars, loopVars
<1>0. Len(profiles) \in Nat /\ Len(tries) \in Nat /\ Len(Fallbacks) \in Nat
    BY DEF TypeOK
<1>1. CASE Extract \/ Scope \/ MatchRules \/ Gate \/ LookupRoot
    <2>1. UNCHANGED <<ctx, input, rulesStale, chainVars, loopVars>>
        BY <1>1 DEF Extract, Scope, MatchRules, Gate, LookupRoot
    <2>2. /\ stage' \in Stages \ {"call"}
          /\ result'.decision \in {"none", "allow", "block"}
        <3>1. CASE \E d \in {"allow", "block"} : \E source, class, at :
                       End(d, source, class, at)
            BY <3>1, EndTypes DEF Stages
        <3>2. CASE \E next \in {"scope", "rules", "decoded", "gate", "profile", "chain"} :
                       Goto(next)
            BY <3>2 DEF Goto, Stages, TypeOK
        <3> QED
            BY <1>1, <3>1, <3>2
            DEF Extract, Scope, MatchRules, NextView, Gate, LookupRoot, Fail
    <2> QED
        BY <2>1, <2>2 DEF TypeOK
<1>2. CASE ResolveFallback
    <2> DEFINE id == Fallbacks[cursor + 1]
    <2>1. cursor + 1 \in 1 .. Len(Fallbacks) /\ id \in Profiles
        BY <1>2, <1>0 DEF ResolveFallback, TypeOK
    <2>2. /\ seen' \in SUBSET Profiles /\ profiles' \in Seq(Profiles)
          /\ Len(profiles') \in {Len(profiles), Len(profiles) + 1}
        <3>1. /\ seen' \in {seen, seen \cup {id}}
              /\ profiles' \in {profiles, Append(profiles, id)}
            BY <1>2 DEF ResolveFallback
        <3>2. /\ Append(profiles, id) \in Seq(Profiles)
              /\ Len(Append(profiles, id)) = Len(profiles) + 1
            BY <2>1 DEF TypeOK
        <3> QED
            BY <2>1, <3>1, <3>2 DEF TypeOK
    <2>3. cursor' \in 0 .. Len(Fallbacks)
        BY <1>2, <1>0, <2>1 DEF ResolveFallback, TypeOK
    <2>4. pos' \in 1 .. Len(profiles') + 1
        BY <1>2, <1>0, <2>2 DEF ResolveFallback, TypeOK
    <2>5. stage' # "call"
        BY <1>2 DEF ResolveFallback
    <2> QED
        BY <1>2, <2>2, <2>3, <2>4, <2>5 DEF ResolveFallback, TypeOK
<1>3. CASE ChainResolved
    BY <1>3 DEF ChainResolved, Goto, TypeOK, Stages
<1>4. CASE NextProfile
    <2>1. fallbackCount' \in Nat /\ attempt' \in Nat
        BY <1>4 DEF NextProfile, CountFallback, TypeOK
    <2>2. stage' \in Stages \ {"call"} /\ result'.decision \in {"none", "allow", "block"}
        BY <1>4 DEF NextProfile, FailOpen, End, Goto, TypeOK, Stages
    <2> QED
        BY <1>4, <2>1, <2>2 DEF NextProfile, TypeOK
<1>5. CASE Try
    <2>1. stage' \in Stages /\ result'.decision \in {"none", "allow", "block"}
        BY <1>5 DEF Try, FailOpen, End, Goto, TypeOK, Stages
    <2>2. pos' \in {pos, pos + 1} /\ pos <= Len(profiles) /\ (stage' = "call" => pos' = pos)
        BY <1>5 DEF Try, FailOpen, End, Goto, ChainInv, Loop
    <2> QED
        BY <1>5, <1>0, <2>1, <2>2 DEF Try, TypeOK
<1>6. CASE Wait
    <2>1. stage' \in Stages \ {"call"} /\ result'.decision \in {"none", "allow", "block"}
        BY <1>6 DEF Wait, FailOpen, End, Goto, TypeOK, Stages
    <2> QED
        BY <1>6, <2>1 DEF Wait, TypeOK
<1>7. ASSUME NEW d \in Decided, CallDecides(d) PROVE TypeOK'
    <2>1. tries' \in Seq(Call)
        BY <1>7, RecordTypes DEF CallDecides
    <2>2. stage' \in Stages \ {"call"} /\ result'.decision \in {"none", "allow", "block"}
        BY <1>7 DEF CallDecides, End, Stages
    <2> QED
        BY <1>7, <2>1, <2>2 DEF CallDecides, TypeOK, Call
<1>8. ASSUME NEW e \in Errors, CallFails(e) PROVE TypeOK'
    <2>1. tries' \in Seq(Call)
        BY <1>8, RecordTypes DEF CallFails
    <2>2. stage' \in Stages \ {"call"} /\ result'.decision \in {"none", "allow", "block"}
        BY <1>8 DEF CallFails, FailOpen, End, Goto, TypeOK, Stages
    <2>3. pos' \in 1 .. Len(profiles) + 1 /\ modelRetries' \in Nat
        <3>1. pos \in 1 .. Len(profiles) /\ modelRetries \in Nat
            BY <1>8 DEF CallFails, TypeOK
        <3>2. /\ pos' = pos \/ pos' = pos + 1
              /\ modelRetries' = modelRetries \/ modelRetries' = modelRetries + 1
            BY <1>8 DEF CallFails
        <3> QED
            BY <1>0, <3>1, <3>2
    <2> QED
        BY <1>8, <2>1, <2>2, <2>3 DEF CallFails, TypeOK, Call
<1>9. CASE ReloadRules \/ \E how \in {"deadline", "canceled"} : ContextEnds(how)
    BY <1>9 DEF ReloadRules, ContextEnds, TypeOK
<1>10. CASE UNCHANGED vars
    BY <1>10 DEF vars, TypeOK
<1> QED
    BY <1>1, <1>2, <1>3, <1>4, <1>5, <1>6, <1>7, <1>8, <1>9, <1>10 DEF Next, Step

-----------------------------------------------------------------------------
(* The chain and the walk along it. *)

\* Every step but the eight of the loops leaves the calls alone, and is made
\* before the walk begins.
Preliminary == Extract \/ Scope \/ MatchRules \/ Gate \/ LookupRoot

\* None of the preliminary stages touches the chain, the walk or the request.
LEMMA PreliminaryStep ==
    ASSUME Preliminary
    PROVE  /\ stage \in Before \ {"chain"} /\ stage' \in Before \cup {"done"}
           /\ UNCHANGED <<chainVars, loopVars, input>>
BY DEF Preliminary, Extract, Scope, MatchRules, NextView, Gate, LookupRoot, Fail, End,
       Goto, Before, chainVars, loopVars

\* The context, the rules and stuttering leave everything of the audit alone.
LEMMA OutsideStep ==
    ASSUME \/ ReloadRules \/ \E how \in {"deadline", "canceled"} : ContextEnds(how)
           \/ UNCHANGED vars
    PROVE  UNCHANGED <<stage, chainVars, loopVars, input, result>>
BY DEF ReloadRules, ContextEnds, vars, chainVars, loopVars

\* No chain is loaded when the audit begins.
LEMMA ChainInit == Init => ChainInv
<1> SUFFICES ASSUME Init PROVE ChainInv
    OBVIOUS
<1>1. profiles = <<Root>> /\ Len(<<Root>>) = 1 /\ DOMAIN <<Root>> = {1}
      /\ <<Root>>[1] = Root
    BY DEF Init
<1> QED
    BY <1>1 DEF Init, ChainInv, Before, Loop

\* A fallback id is appended only if the chain has not met it.
LEMMA ChainStep == TypeOK /\ ChainInv /\ [Next]_vars => ChainInv'
<1> SUFFICES ASSUME TypeOK, ChainInv, [Next]_vars PROVE ChainInv'
    OBVIOUS
<1> USE DEF chainVars, loopVars
<1>0. Len(profiles) \in Nat /\ DOMAIN profiles = 1 .. Len(profiles)
    BY DEF TypeOK
<1>1. CASE Preliminary
    BY <1>1, PreliminaryStep DEF ChainInv, Before, Loop
<1>2. CASE ResolveFallback
    <2> DEFINE id == Fallbacks[cursor + 1]
    <2>1. UNCHANGED <<stage, tries, pos>> /\ stage = "chain"
        BY <1>2 DEF ResolveFallback
    <2>2. CASE profiles' = profiles /\ seen \subseteq seen'
        BY <2>1, <2>2 DEF ChainInv, Loop
    <2>3. CASE id \notin seen /\ seen' = seen \cup {id} /\ profiles' = Append(profiles, id)
        <3>1. cursor + 1 \in 1 .. Len(Fallbacks) /\ id \in Profiles
            BY <1>2 DEF ResolveFallback, TypeOK
        <3>2. PICK x \in Profiles : x = id
            BY <3>1
        <3>3. /\ DOMAIN profiles' = 1 .. (Len(profiles) + 1)
              /\ Len(profiles') = Len(profiles) + 1
              /\ \A i \in 1 .. Len(profiles) : profiles'[i] = profiles[i]
              /\ profiles'[Len(profiles) + 1] = x
            BY <2>3, <3>2, <1>0 DEF TypeOK
        <3>4. \A i \in DOMAIN profiles' : profiles'[i] \in seen'
            BY <1>0, <2>3, <3>2, <3>3 DEF ChainInv
        <3>5. \A i, j \in DOMAIN profiles' : profiles'[i] = profiles'[j] => i = j
            BY <1>0, <2>3, <3>2, <3>3 DEF ChainInv
        <3> QED
            BY <1>0, <2>1, <3>3, <3>4, <3>5 DEF ChainInv, Loop
    <2> QED
        BY <1>2, <2>2, <2>3 DEF ResolveFallback, Admissible
<1>3. CASE ChainResolved
    BY <1>3 DEF ChainResolved, Goto, ChainInv, Before, Loop
<1>4. CASE NextProfile
    <2>1. pos \in Nat
        BY DEF TypeOK
    <2> QED
        BY <1>4, <1>0, <2>1
        DEF NextProfile, ChainEnded, FailOpen, End, Goto, ChainInv, Before, Loop
<1>5. CASE Try
    BY <1>5 DEF Try, FailOpen, End, Goto, ChainInv, Before, Loop
<1>6. CASE Wait
    BY <1>6 DEF Wait, FailOpen, End, Goto, ChainInv, Before, Loop
<1>7. ASSUME NEW d \in Decided, CallDecides(d) PROVE ChainInv'
    BY <1>7 DEF CallDecides, End, ChainInv, Before, Loop
<1>8. ASSUME NEW e \in Errors, CallFails(e) PROVE ChainInv'
    BY <1>8 DEF CallFails, FailOpen, End, Goto, ChainInv, Before, Loop
<1>9. CASE \/ ReloadRules \/ \E how \in {"deadline", "canceled"} : ContextEnds(how)
           \/ UNCHANGED vars
    BY <1>9, OutsideStep DEF ChainInv
<1> QED
    BY <1>1, <1>2, <1>3, <1>4, <1>5, <1>6, <1>7, <1>8, <1>9 DEF Next, Step, Preliminary

\* No profile of the chain is tried when the audit begins.
LEMMA WalkInit == Init => WalkInv
BY DEF Init, WalkInv, Before

\* A profile is left for the next one, or called again after a retryable error.
LEMMA WalkStep == TypeOK /\ ChainInv /\ WalkInv /\ [Next]_vars => WalkInv'
<1> SUFFICES ASSUME TypeOK, ChainInv, WalkInv, [Next]_vars PROVE WalkInv'
    OBVIOUS
<1> USE DEF chainVars, loopVars
<1>0. /\ Len(profiles) \in Nat /\ DOMAIN profiles = 1 .. Len(profiles)
      /\ Len(tries) \in Nat /\ DOMAIN tries = 1 .. Len(tries)
      /\ pos \in Nat /\ attempt \in Nat
    BY DEF TypeOK
<1>1. CASE Preliminary
    BY <1>1, PreliminaryStep DEF WalkInv, Before
<1>2. CASE ResolveFallback
    BY <1>2 DEF ResolveFallback, WalkInv, Before
<1>3. CASE ChainResolved
    BY <1>3 DEF ChainResolved, Goto, ChainInv, WalkInv, Made, Before
<1>4. CASE NextProfile
    <2>1. CASE stage' = "done"
        BY <2>1 DEF WalkInv
    <2>2. CASE stage' = "try"
        <3>1. Made = 0 /\ Made' = 0 /\ UNCHANGED <<tries, profiles, pos>>
            BY <1>4, <2>2 DEF NextProfile, FailOpen, End, Goto, Made
        <3> QED
            BY <1>0, <1>4, <3>1 DEF NextProfile, WalkInv, Before, Outcome
    <2> QED
        BY <1>4, <2>1, <2>2 DEF NextProfile, FailOpen, End, Goto
<1>5. CASE Try
    <2>1. CASE stage' = "done"
        BY <2>1 DEF WalkInv
    <2>2. CASE stage' = "call"
        <3>1. Made' = Made /\ UNCHANGED <<tries, profiles, pos>>
            BY <1>5, <2>2 DEF Try, FailOpen, End, Goto, Made
        <3> QED
            BY <1>0, <1>5, <3>1 DEF Try, WalkInv, Before, Outcome
    <2>3. CASE stage' = "next"
        <3>1. Made' = 0 /\ UNCHANGED <<tries, profiles>> /\ pos' = pos + 1
            BY <1>5, <2>3 DEF Try, FailOpen, End, Goto, Made
        <3>2. pos \in DOMAIN profiles
            BY <1>5, <1>0 DEF Try, ChainInv, Loop, TypeOK
        <3>3. ASSUME NEW i \in DOMAIN tries
              PROVE  \E k \in DOMAIN profiles : k < pos + 1 /\ tries[i].profile = profiles[k]
            BY <1>0, <1>5, <3>2 DEF Try, WalkInv, Before
        <3> QED
            BY <1>0, <3>1, <3>3 DEF WalkInv, Outcome
    <2> QED
        BY <1>5, <2>1, <2>2, <2>3 DEF Try, FailOpen, End, Goto
<1>6. CASE Wait
    <2>1. CASE stage' = "done"
        BY <2>1 DEF WalkInv
    <2>2. CASE stage' = "try"
        <3>1. Made' = Made /\ UNCHANGED <<tries, profiles, pos>>
            BY <1>6, <2>2 DEF Wait, FailOpen, End, Goto, Made
        <3> QED
            BY <1>0, <1>6, <3>1 DEF Wait, WalkInv, Before, Outcome
    <2> QED
        BY <1>6, <2>1, <2>2 DEF Wait, FailOpen, End, Goto
<1>7. ASSUME NEW d \in Decided, CallDecides(d) PROVE WalkInv'
    BY <1>7 DEF CallDecides, End, WalkInv
<1>8. ASSUME NEW e \in Errors, CallFails(e) PROVE WalkInv'
    <2>1. /\ Len(tries') = Len(tries) + 1 /\ DOMAIN tries' = 1 .. (Len(tries) + 1)
          /\ \A i \in DOMAIN tries : tries'[i] = tries[i]
          /\ tries'[Len(tries) + 1] = [profile |-> profiles[pos], outcome |-> e]
        BY <1>8, RecordTypes DEF CallFails
    <2>2. /\ tries'[Len(tries) + 1].profile = profiles[pos]
          /\ tries'[Len(tries) + 1].outcome = e
        BY <2>1
    <2>3. pos \in DOMAIN profiles /\ Made = attempt /\ Made <= Len(tries)
        BY <1>8, <1>0 DEF CallFails, ChainInv, Loop, TypeOK, WalkInv, Made, Before
    <2>4. \A i \in 1 .. Len(tries) :
              IF i > Len(tries) - attempt
                 THEN tries[i].profile = profiles[pos] /\ tries[i].outcome = "retryable"
                 ELSE \E k \in DOMAIN profiles : k < pos /\ tries[i].profile = profiles[k]
        BY <1>8, <1>0, <2>3 DEF CallFails, WalkInv, Before, Outcome
    <2>5. CASE stage' = "done"
        BY <2>5 DEF WalkInv
    <2>6. CASE stage' = "next"
        <3>1. Made' = 0 /\ UNCHANGED profiles /\ pos' = pos + 1
            BY <1>8, <2>6 DEF CallFails, FailOpen, End, Goto, Made
        <3>2. ASSUME NEW i \in DOMAIN tries'
              PROVE  \E k \in DOMAIN profiles : k < pos + 1 /\ tries'[i].profile = profiles[k]
            <4>1. CASE i = Len(tries) + 1
                BY <1>0, <2>2, <2>3, <4>1
            <4>2. CASE i \in 1 .. Len(tries)
                <5>1. tries'[i] = tries[i]
                    BY <1>0, <2>1, <4>2
                <5>2. CASE i > Len(tries) - attempt
                    <6>1. tries[i].profile = profiles[pos]
                        BY <2>4, <4>2, <5>2
                    <6> QED
                        BY <1>0, <2>3, <5>1, <6>1
                <5>3. CASE ~(i > Len(tries) - attempt)
                    <6>1. PICK k \in DOMAIN profiles : k < pos /\ tries[i].profile = profiles[k]
                        BY <2>4, <4>2, <5>3
                    <6> QED
                        BY <1>0, <5>1, <6>1
                <5> QED
                    BY <5>2, <5>3
            <4> QED
                BY <1>0, <2>1, <4>1, <4>2
        <3> QED
            BY <1>0, <2>1, <3>1, <3>2 DEF WalkInv, Outcome
    <2>7. CASE stage' = "wait"
        <3>1. Made' = attempt + 1 /\ UNCHANGED <<profiles, pos>> /\ e = "retryable"
            BY <1>8, <2>7 DEF CallFails, FailOpen, End, Goto, Made, MayRetry
        <3>2. ASSUME NEW i \in DOMAIN tries'
              PROVE  IF i > Len(tries') - Made'
                        THEN tries'[i].profile = profiles[pos] /\ tries'[i].outcome = "retryable"
                        ELSE \E k \in DOMAIN profiles : k < pos /\ tries'[i].profile = profiles[k]
            <4>1. CASE i = Len(tries) + 1
                BY <1>0, <2>1, <2>2, <3>1, <4>1
            <4>2. CASE i \in 1 .. Len(tries)
                BY <1>0, <2>1, <2>3, <2>4, <3>1, <4>2
            <4> QED
                BY <1>0, <2>1, <4>1, <4>2
        <3> QED
            BY <1>0, <2>1, <2>3, <3>1, <3>2 DEF WalkInv, Outcome
    <2> QED
        BY <1>8, <2>5, <2>6, <2>7 DEF CallFails, FailOpen, End, Goto
<1>9. CASE \/ ReloadRules \/ \E how \in {"deadline", "canceled"} : ContextEnds(how)
           \/ UNCHANGED vars
    BY <1>9, OutsideStep DEF WalkInv, Made, Outcome
<1> QED
    BY <1>1, <1>2, <1>3, <1>4, <1>5, <1>6, <1>7, <1>8, <1>9 DEF Next, Step, Preliminary

-----------------------------------------------------------------------------
(* The budgets. *)

\* The retries of the profile in turn are a number.
LEMMA TurnTypes ==
    ASSUME TypeOK, pos <= Len(profiles)
    PROVE  pos \in DOMAIN profiles /\ Retries[profiles[pos]] \in Nat
BY DEF TypeOK

\* Nothing is called before the audit begins.
LEMMA BudgetInit == Init => BudgetInv /\ SpanInv /\ ChainIsWalkedForward
<1> SUFFICES ASSUME Init PROVE BudgetInv /\ SpanInv /\ ChainIsWalkedForward
    OBVIOUS
<1>1. tries = <<>> /\ Len(tries) = 0 /\ DOMAIN tries = {} /\ stage = "extraction"
    BY DEF Init
<1>2. \A i, j \in DOMAIN profiles : profiles[i] = profiles[j] => i = j
    BY ChainInit DEF ChainInv
<1> QED
    BY <1>1, <1>2 DEF BudgetInv, SpanInv, ChainIsWalkedForward

\* The heads of the two loops keep their budgets.
LEMMA BudgetStep == TypeOK /\ ChainInv /\ BudgetInv /\ [Next]_vars => BudgetInv'
<1> SUFFICES ASSUME TypeOK, ChainInv, BudgetInv, [Next]_vars PROVE BudgetInv'
    OBVIOUS
<1> USE DEF chainVars, loopVars
<1>0. /\ Len(profiles) \in Nat /\ Len(tries) \in Nat
      /\ pos \in Nat /\ attempt \in Nat
    BY DEF TypeOK
<1>1. CASE Preliminary
    BY <1>1, PreliminaryStep DEF BudgetInv, Before
<1>2. CASE ResolveFallback
    BY <1>2 DEF ResolveFallback, BudgetInv
<1>3. CASE ChainResolved
    BY <1>3 DEF ChainResolved, Goto, BudgetInv
<1>4. CASE NextProfile
    <2>1. CASE stage' = "done"
        BY <1>4, <2>1 DEF NextProfile, BudgetInv
    <2>2. CASE stage' = "try"
        <3>1. pos <= Len(profiles) /\ attempt' = 0 /\ UNCHANGED <<pos, profiles, tries>>
            BY <1>0, <1>4, <2>2 DEF NextProfile, ChainEnded, FailOpen, End
        <3> QED
            BY <2>2, <3>1, TurnTypes DEF BudgetInv
    <2> QED
        BY <1>4, <2>1, <2>2 DEF NextProfile, FailOpen, End, Goto
<1>5. CASE Try
    <2>1. CASE stage' \in {"done", "next"}
        BY <1>5, <2>1 DEF Try, BudgetInv
    <2>2. CASE stage' = "call"
        <3>1. ~Exhausted /\ UNCHANGED <<pos, profiles, tries, attempt>>
            BY <1>5, <2>2 DEF Try, FailOpen, End, Goto
        <3> QED
            BY <1>0, <1>5, <2>2, <3>1 DEF Try, BudgetInv, Exhausted
    <2> QED
        BY <1>5, <2>1, <2>2 DEF Try, FailOpen, End, Goto
<1>6. CASE Wait
    <2>1. CASE stage' = "done"
        BY <1>6, <2>1 DEF Wait, BudgetInv
    <2>2. CASE stage' = "try" /\ attempt' = attempt + 1
        <3>1. pos <= Len(profiles)
            BY <1>6 DEF Wait, ChainInv, Loop
        <3> QED
            BY <1>0, <1>6, <2>2, <3>1, TurnTypes DEF Wait, BudgetInv
    <2> QED
        BY <1>6, <2>1, <2>2 DEF Wait, FailOpen, End, Goto
<1>7. ASSUME NEW d \in Decided, CallDecides(d) PROVE BudgetInv'
    <2>1. Len(tries') = Len(tries) + 1 /\ stage = "call" /\ stage' = "done"
        BY <1>7, RecordTypes DEF CallDecides, End
    <2> QED
        BY <1>0, <2>1 DEF BudgetInv
<1>8. ASSUME NEW e \in Errors, CallFails(e) PROVE BudgetInv'
    <2>1. Len(tries') = Len(tries) + 1 /\ stage = "call" /\ UNCHANGED <<profiles, attempt>>
        BY <1>8, RecordTypes DEF CallFails
    <2>2. \/ stage' \in {"done", "next"}
          \/ stage' = "wait" /\ UNCHANGED pos /\ attempt < Retries[profiles[pos]]
        BY <1>8 DEF CallFails, FailOpen, End, Goto, MayRetry
    <2> QED
        BY <1>0, <2>1, <2>2 DEF BudgetInv
<1>9. CASE \/ ReloadRules \/ \E how \in {"deadline", "canceled"} : ContextEnds(how)
           \/ UNCHANGED vars
    BY <1>9, OutsideStep DEF BudgetInv
<1> QED
    BY <1>1, <1>2, <1>3, <1>4, <1>5, <1>6, <1>7, <1>8, <1>9 DEF Next, Step, Preliminary

\* Where a call is not made, the calls are the ones before; the chain only grows
\* before the first call.
LEMMA QuietStep ==
    ASSUME TypeOK, ChainInv, [Next]_vars
    PROVE  \/ \E o \in Decided \cup Errors :
                 stage = "call" /\ Record(o) /\ UNCHANGED profiles
           \/ UNCHANGED <<tries, profiles>>
           \/ tries = <<>> /\ UNCHANGED tries
<1> USE DEF chainVars, loopVars
<1>1. CASE Preliminary
    BY <1>1, PreliminaryStep
<1>2. CASE ResolveFallback
    BY <1>2 DEF ResolveFallback, ChainInv, Before
<1>3. CASE ChainResolved \/ NextProfile \/ Try \/ Wait
    BY <1>3 DEF ChainResolved, NextProfile, Try, Wait
<1>4. ASSUME NEW d \in Decided, CallDecides(d)
      PROVE  stage = "call" /\ Record(d) /\ UNCHANGED profiles
    BY <1>4 DEF CallDecides
<1>5. ASSUME NEW e \in Errors, CallFails(e)
      PROVE  stage = "call" /\ Record(e) /\ UNCHANGED profiles
    BY <1>5 DEF CallFails
<1>6. CASE \/ ReloadRules \/ \E how \in {"deadline", "canceled"} : ContextEnds(how)
           \/ UNCHANGED vars
    BY <1>6, OutsideStep
<1> QED
    BY <1>1, <1>2, <1>3, <1>4, <1>5, <1>6 DEF Next, Step, Preliminary

\* A new call is on the profile of the calls that WalkInv puts last, or on a later
\* one than any before.
LEMMA SpanStep ==
    ASSUME TypeOK, ChainInv, WalkInv, BudgetInv, SpanInv, ChainIsWalkedForward,
           [Next]_vars, ChainInv'
    PROVE  SpanInv' /\ ChainIsWalkedForward'
<1>0. /\ Len(profiles) \in Nat /\ DOMAIN profiles = 1 .. Len(profiles)
      /\ Len(tries) \in Nat /\ DOMAIN tries = 1 .. Len(tries)
      /\ pos \in Nat /\ attempt \in Nat
    BY DEF TypeOK
<1>1. CASE UNCHANGED <<tries, profiles>>
    BY <1>1 DEF SpanInv, ChainIsWalkedForward, Outcome
<1>2. CASE tries = <<>> /\ UNCHANGED tries
    BY <1>2 DEF SpanInv, ChainIsWalkedForward, Outcome, ChainInv
<1>3. ASSUME NEW o \in Decided \cup Errors, stage = "call", Record(o), UNCHANGED profiles
      PROVE  SpanInv' /\ ChainIsWalkedForward'
    <2>1. /\ Len(tries') = Len(tries) + 1 /\ DOMAIN tries' = 1 .. (Len(tries) + 1)
          /\ \A i \in DOMAIN tries : tries'[i] = tries[i]
          /\ tries'[Len(tries) + 1].profile = profiles[pos]
        <3>1. /\ Len(tries') = Len(tries) + 1 /\ DOMAIN tries' = 1 .. (Len(tries) + 1)
              /\ \A i \in DOMAIN tries : tries'[i] = tries[i]
              /\ tries'[Len(tries) + 1] = [profile |-> profiles[pos], outcome |-> o]
            BY <1>3, RecordTypes
        <3> QED
            BY <3>1
    <2>2. /\ pos \in DOMAIN profiles /\ attempt <= Retries[profiles[pos]]
          /\ attempt <= Len(tries) /\ Retries[profiles[pos]] \in Nat
        BY <1>3, <1>0, TurnTypes DEF ChainInv, Loop, BudgetInv, WalkInv, Made, Before
    <2>3. \A i \in 1 .. Len(tries) :
              IF i > Len(tries) - attempt
                 THEN tries[i].profile = profiles[pos] /\ tries[i].outcome = "retryable"
                 ELSE \E k \in DOMAIN profiles : k < pos /\ tries[i].profile = profiles[k]
        BY <1>3, <1>0 DEF WalkInv, Before, Outcome, Made
    <2>4. ASSUME NEW i \in DOMAIN tries', NEW j \in DOMAIN tries',
                 tries'[i].profile = tries'[j].profile, i <= j
          PROVE  j - i <= Retries[tries'[i].profile]
        <3>1. CASE j \in DOMAIN tries
            <4>1. i \in DOMAIN tries
                BY <1>0, <2>1, <2>4, <3>1
            <4> QED
                BY <2>1, <2>4, <3>1, <4>1 DEF SpanInv
        <3>2. CASE j = Len(tries) + 1 /\ i = j
            BY <2>1, <2>2, <3>2, <1>0
        <3>3. CASE j = Len(tries) + 1 /\ i \in DOMAIN tries
            <4>1. tries[i].profile = profiles[pos]
                BY <2>1, <2>4, <3>3
            <4>2. i > Len(tries) - attempt
                <5>1. ASSUME NEW k \in DOMAIN profiles, k < pos, tries[i].profile = profiles[k]
                      PROVE  FALSE
                    <6>1. k = pos
                        BY <2>2, <4>1, <5>1 DEF ChainInv
                    <6> QED
                        BY <1>0, <5>1, <6>1
                <5> QED
                    BY <1>0, <2>3, <3>3, <5>1
            <4>3. tries'[i].profile = profiles[pos]
                BY <2>1, <3>3, <4>1
            <4> QED
                BY <1>0, <2>2, <3>3, <4>2, <4>3
        <3> QED
            BY <1>0, <2>1, <2>4, <3>1, <3>2, <3>3
    <2>5. ASSUME NEW i \in DOMAIN tries' \ {1}
          PROVE  \/ tries'[i].profile = tries'[i - 1].profile
                    /\ tries'[i - 1].outcome = "retryable"
                 \/ \E k, m \in DOMAIN profiles :
                       /\ k < m
                       /\ profiles[k] = tries'[i - 1].profile
                       /\ profiles[m] = tries'[i].profile
        <3>1. CASE i \in DOMAIN tries
            <4>1. i - 1 \in DOMAIN tries /\ i \in DOMAIN tries \ {1}
                BY <1>0, <2>5, <3>1
            <4>2. tries'[i] = tries[i] /\ tries'[i - 1] = tries[i - 1]
                BY <2>1, <4>1
            <4> QED
                BY <4>1, <4>2 DEF ChainIsWalkedForward, Outcome
        <3>2. CASE i = Len(tries) + 1
            <4>1. i - 1 \in DOMAIN tries /\ i - 1 = Len(tries)
                BY <1>0, <2>5, <3>2
            <4>2. tries'[i - 1] = tries[i - 1] /\ tries'[i].profile = profiles[pos]
                BY <2>1, <3>2, <4>1
            <4>3. CASE i - 1 > Len(tries) - attempt
                BY <1>0, <2>3, <4>1, <4>2, <4>3
            <4>4. CASE ~(i - 1 > Len(tries) - attempt)
                <5>1. PICK k \in DOMAIN profiles :
                          k < pos /\ tries[i - 1].profile = profiles[k]
                    BY <1>0, <2>3, <4>1, <4>4
                <5> QED
                    BY <2>2, <4>2, <5>1
            <4> QED
                BY <4>3, <4>4
        <3> QED
            BY <1>0, <2>1, <2>5, <3>1, <3>2
    <2> QED
        BY <1>3, <2>4, <2>5 DEF SpanInv, ChainIsWalkedForward, Outcome, ChainInv
<1> QED
    BY <1>1, <1>2, <1>3, QuietStep

-----------------------------------------------------------------------------
(* The counters of the trace. *)

\* Nothing is announced before the audit begins.
LEMMA AnnouncedInit == Init => AnnouncedInv
BY DEF Init, AnnouncedInv, Before, Loop, Done

\* Each call is announced where the loops decide on it, once.
LEMMA AnnouncedStep ==
    ASSUME TypeOK, ChainInv, AnnouncedInv, [Next]_vars
    PROVE  AnnouncedInv'
<1> USE DEF chainVars, loopVars
<1>0. /\ Len(tries) \in Nat /\ pos \in Nat /\ pos >= 1
      /\ modelRetries \in Nat /\ fallbackCount \in Nat
      /\ tries = <<>> <=> Len(tries) = 0
    BY DEF TypeOK
<1>1. CASE Preliminary
    BY <1>1, PreliminaryStep DEF AnnouncedInv, ChainInv, Before, Loop, Done
<1>2. CASE ResolveFallback
    BY <1>2 DEF ResolveFallback, AnnouncedInv, Before, Loop, Done
<1>3. CASE ChainResolved
    BY <1>3 DEF ChainResolved, Goto, AnnouncedInv, ChainInv, Before, Loop, Done
<1>4. CASE NextProfile
    <2>1. stage = "next" /\ UNCHANGED <<tries, modelRetries, pos>>
        BY <1>4 DEF NextProfile
    <2>2. CASE stage' = "done" /\ UNCHANGED fallbackCount
        BY <1>0, <2>1, <2>2 DEF AnnouncedInv, Before, Loop, Done
    <2>3. CASE /\ stage' = "try" /\ ~Exhausted
               /\ fallbackCount' = IF pos > 1 THEN fallbackCount + 1 ELSE fallbackCount
        <3>1. modelRetries' + fallbackCount' = Len(tries)
            BY <1>0, <2>1, <2>3 DEF AnnouncedInv
        <3> QED
            BY <2>1, <2>3, <3>1 DEF AnnouncedInv, Before, Loop, Done
    <2> QED
        BY <1>4, <2>2, <2>3 DEF NextProfile, FailOpen, End, Goto, CountFallback
<1>5. CASE Try
    <2>1. /\ stage = "try" /\ UNCHANGED <<tries, modelRetries, fallbackCount>>
          /\ modelRetries + fallbackCount = Len(tries)
        BY <1>5 DEF Try, AnnouncedInv, Loop
    <2>2. CASE stage' = "done"
        BY <1>0, <2>1, <2>2 DEF AnnouncedInv, Before, Loop, Done
    <2>3. CASE stage' = "next" /\ Exhausted /\ pos' = pos + 1
        BY <1>0, <2>1, <2>3 DEF AnnouncedInv, Before, Loop, Done, Exhausted
    <2>4. CASE stage' = "call"
        BY <1>0, <2>1, <2>4 DEF AnnouncedInv, Before, Loop, Done
    <2> QED
        BY <1>5, <2>2, <2>3, <2>4 DEF Try, FailOpen, End, Goto
<1>6. CASE Wait
    BY <1>0, <1>6 DEF Wait, FailOpen, End, Goto, AnnouncedInv, Before, Loop, Done
<1>7. ASSUME NEW d \in Decided, CallDecides(d) PROVE AnnouncedInv'
    <2>1. /\ Len(tries') = Len(tries) + 1 /\ stage' = "done"
          /\ UNCHANGED <<modelRetries, fallbackCount>>
        BY <1>7, RecordTypes DEF CallDecides, End
    <2>2. modelRetries + fallbackCount = Len(tries)
        BY <1>7 DEF CallDecides, AnnouncedInv, Loop
    <2> QED
        BY <1>0, <2>1, <2>2 DEF AnnouncedInv, Before, Loop, Done
<1>8. ASSUME NEW e \in Errors, CallFails(e) PROVE AnnouncedInv'
    <2>1. /\ Len(tries') = Len(tries) + 1 /\ tries' \in Seq(Call)
          /\ UNCHANGED fallbackCount
        BY <1>8, RecordTypes DEF CallFails
    <2>2. modelRetries + fallbackCount = Len(tries)
        BY <1>8 DEF CallFails, AnnouncedInv, Loop
    <2>3. \/ stage' = "done" /\ UNCHANGED modelRetries
          \/ stage' = "next" /\ UNCHANGED modelRetries /\ pos' = pos + 1
          \/ stage' = "wait" /\ modelRetries' = modelRetries + 1
        BY <1>8 DEF CallFails, FailOpen, End, Goto
    <2>4. tries' # <<>>
        BY <1>0, <2>1
    <2> QED
        BY <1>0, <2>1, <2>2, <2>3, <2>4 DEF AnnouncedInv, Before, Loop, Done
<1>9. CASE \/ ReloadRules \/ \E how \in {"deadline", "canceled"} : ContextEnds(how)
           \/ UNCHANGED vars
    BY <1>9, OutsideStep DEF AnnouncedInv, Done, Exhausted
<1> QED
    BY <1>1, <1>2, <1>3, <1>4, <1>5, <1>6, <1>7, <1>8, <1>9 DEF Next, Step, Preliminary

-----------------------------------------------------------------------------
(* The decision and its explanation. *)

\* Where nothing was called, nothing was decided.
LEMMA DecisionInit == Init => DecisionInv /\ ExplainedInv
<1> SUFFICES ASSUME Init PROVE DecisionInv /\ ExplainedInv
    OBVIOUS
<1>1. DOMAIN tries = {} /\ stage = "extraction"
    BY DEF Init
<1> QED
    BY <1>1 DEF DecisionInv, FirstDecisionIsFinal, ExplainedInv, AllowIsExplained, Done, Loop

\* The loops go on only after an error.
LEMMA DecisionStep ==
    ASSUME TypeOK, DecisionInv, [Next]_vars
    PROVE  DecisionInv'
<1> USE DEF chainVars, loopVars
<1>0. /\ Len(tries) \in Nat /\ DOMAIN tries = 1 .. Len(tries)
      /\ \A o \in Errors : o \notin Decided
    BY DEF TypeOK, Errors, Decided
<1>1. CASE \/ Preliminary \/ ResolveFallback \/ ChainResolved \/ NextProfile \/ Try \/ Wait
    <2>1. UNCHANGED tries /\ stage # "done"
        BY <1>1 DEF Preliminary, Extract, Scope, MatchRules, Gate, LookupRoot,
                    ResolveFallback, ChainResolved, NextProfile, Try, Wait
    <2>2. \A i \in DOMAIN tries : Outcome(i) \in Errors
        BY <2>1 DEF DecisionInv, Done
    <2> QED
        BY <1>0, <2>1, <2>2 DEF DecisionInv, FirstDecisionIsFinal, Outcome
<1>2. ASSUME NEW o \in Decided \cup Errors, stage = "call", Record(o)
      PROVE  /\ Len(tries') = Len(tries) + 1 /\ DOMAIN tries' = 1 .. (Len(tries) + 1)
             /\ \A i \in DOMAIN tries : tries'[i].outcome \in Errors
             /\ tries'[Len(tries) + 1].outcome = o
    <2>1. /\ Len(tries') = Len(tries) + 1 /\ DOMAIN tries' = 1 .. (Len(tries) + 1)
          /\ \A i \in DOMAIN tries : tries'[i] = tries[i]
          /\ tries'[Len(tries) + 1] = [profile |-> profiles[pos], outcome |-> o]
        BY <1>2, RecordTypes
    <2>2. \A i \in DOMAIN tries : tries[i].outcome \in Errors
        BY <1>2 DEF DecisionInv, Done, Outcome
    <2> QED
        BY <2>1, <2>2
<1>3. ASSUME NEW d \in Decided, CallDecides(d) PROVE DecisionInv'
    <2>1. /\ Len(tries') = Len(tries) + 1 /\ DOMAIN tries' = 1 .. (Len(tries) + 1)
          /\ \A i \in DOMAIN tries : tries'[i].outcome \in Errors
          /\ tries'[Len(tries) + 1].outcome = d
        BY <1>2, <1>3 DEF CallDecides
    <2>2. stage' = "done" /\ result'.decision = IF d = "block" THEN "block" ELSE "allow"
        BY <1>3 DEF CallDecides, End
    <2>3. ASSUME NEW i \in DOMAIN tries', tries'[i].outcome \in Decided
          PROVE  i = Len(tries) + 1
        BY <1>0, <2>1, <2>3
    <2> QED
        BY <2>1, <2>2, <2>3 DEF DecisionInv, FirstDecisionIsFinal, Outcome, Done
<1>4. ASSUME NEW e \in Errors, CallFails(e) PROVE DecisionInv'
    <2>1. /\ Len(tries') = Len(tries) + 1 /\ DOMAIN tries' = 1 .. (Len(tries) + 1)
          /\ \A i \in DOMAIN tries : tries'[i].outcome \in Errors
          /\ tries'[Len(tries) + 1].outcome = e
        BY <1>2, <1>4 DEF CallFails
    <2>2. \A i \in DOMAIN tries' : tries'[i].outcome \in Errors
        BY <1>0, <2>1
    <2> QED
        BY <1>0, <2>2 DEF DecisionInv, FirstDecisionIsFinal, Outcome
<1>5. CASE \/ ReloadRules \/ \E how \in {"deadline", "canceled"} : ContextEnds(how)
           \/ UNCHANGED vars
    BY <1>5, OutsideStep DEF DecisionInv, FirstDecisionIsFinal, Done, Outcome
<1> QED
    BY <1>1, <1>3, <1>4, <1>5 DEF Next, Step, Preliminary

\* A class that is set is not the empty one.
LEMMA ClassesAreSet ==
    Unset \notin {"extraction", "candidate_budget", "rules_unavailable", "input_coverage",
                  "profile", "deadline", "canceled"}
BY Zenon DEF Unset

\* A context that has ended has a class of its own.
LEMMA EndedIsSet ==
    ASSUME TypeOK
    PROVE  /\ ctx # "live" => ctx \in {"deadline", "canceled"}
           /\ Ended \subseteq {"deadline", "canceled"}
BY DEF TypeOK, Ended

\* fail ends the audit in the platform's name, with a class.
LEMMA FailIsExplained ==
    ASSUME NEW class, NEW at, Fail(class, at),
           class \in {"extraction", "candidate_budget", "rules_unavailable", "profile",
                      "deadline", "canceled"}
    PROVE  stage' = "done" /\ result'.source = "platform" /\ result'.class # Unset
<1>1. stage' = "done" /\ result'.source = "platform" /\ result'.class = class
    BY DEF Fail, End
<1> QED
    BY <1>1, ClassesAreSet

\* Only the gate lets a request on to the models, and only a model's allow is
\* credited to a model.
LEMMA ExplainedStep ==
    ASSUME TypeOK, ChainInv, ExplainedInv, [Next]_vars
    PROVE  ExplainedInv'
<1> USE DEF chainVars, loopVars
<1> DEFINE Past == {"profile", "chain", "next"} \cup Loop
<1>1. ASSUME Preliminary,
             \/ stage' = "done" /\ result'.decision # "allow"
             \/ stage' = "done" /\ result'.source # "model" /\ result'.class # Unset
             \/ stage' \in {"scope", "rules", "decoded", "gate"}
             \/ stage' \in {"profile", "chain"} /\ input.complete
      PROVE  ExplainedInv'
    <2>1. UNCHANGED <<tries, input>>
        BY <1>1, PreliminaryStep
    <2> QED
        BY <1>1, <2>1 DEF ExplainedInv, AllowIsExplained, Done, Loop
<1>2. CASE Extract
    <2>1. ASSUME NEW class \in {"extraction"} \cup Ended, Fail(class, "extraction")
          PROVE  ExplainedInv'
        BY <1>1, <1>2, <2>1, EndedIsSet, FailIsExplained DEF Preliminary
    <2>2. CASE Goto("scope")
        BY <1>1, <1>2, <2>2 DEF Preliminary, Goto
    <2> QED
        BY <1>2, <2>1, <2>2 DEF Extract
<1>3. CASE Scope
    <2>1. CASE ctx # "live" /\ Fail(ctx, "scope")
        BY <1>1, <1>3, <2>1, EndedIsSet, FailIsExplained DEF Preliminary
    <2>2. CASE Goto("rules")
        BY <1>1, <1>3, <2>2 DEF Preliminary, Goto
    <2> QED
        BY <1>3, <2>1, <2>2 DEF Scope
<1>4. CASE MatchRules
    <2>1. ASSUME NEW class \in {"candidate_budget"} \cup Ended, Fail(class, "rules")
          PROVE  ExplainedInv'
        BY <1>1, <1>4, <2>1, EndedIsSet, FailIsExplained DEF Preliminary
    <2>2. CASE Goto(NextView)
        BY <1>1, <1>4, <2>2 DEF Preliminary, Goto, NextView
    <2>3. CASE End("block", "rule", Unset, Unset)
        BY <1>1, <1>4, <2>3 DEF Preliminary, End
    <2> QED
        BY <1>4, <2>1, <2>2, <2>3 DEF MatchRules
<1>5. CASE Gate
    <2>1. CASE Fail("rules_unavailable", "rules")
        BY <1>1, <1>5, <2>1, FailIsExplained DEF Preliminary
    <2>2. CASE End("allow", "coverage", "input_coverage", "coverage")
        <3>1. stage' = "done" /\ result'.source # "model" /\ result'.class = "input_coverage"
            BY <2>2 DEF End
        <3> QED
            BY <1>1, <1>5, <3>1, ClassesAreSet DEF Preliminary
    <2>3. CASE ctx # "live" /\ Fail(ctx, "profile")
        BY <1>1, <1>5, <2>3, EndedIsSet, FailIsExplained DEF Preliminary
    <2>4. CASE Goto("profile") /\ input.complete
        BY <1>1, <1>5, <2>4 DEF Preliminary, Goto
    <2> QED
        BY <1>5, <2>1, <2>2, <2>3, <2>4 DEF Gate, TypeOK
<1>6. CASE LookupRoot
    <2>1. CASE Fail(IF ctx = "live" THEN "profile" ELSE ctx, "profile")
        BY <1>1, <1>6, <2>1, EndedIsSet, FailIsExplained DEF Preliminary
    <2>2. CASE Goto("chain")
        BY <1>1, <1>6, <2>2 DEF Preliminary, Goto, LookupRoot, ExplainedInv
    <2> QED
        BY <1>6, <2>1, <2>2 DEF LookupRoot
<1>7. CASE ResolveFallback \/ ChainResolved
    BY <1>7 DEF ResolveFallback, ChainResolved, Goto, ExplainedInv, AllowIsExplained, Done, Loop
<1>8. ASSUME stage \in Past, UNCHANGED input, stage' \in Past \/ FailOpen
      PROVE  ExplainedInv'
    <2>1. CASE stage' \in Past
        BY <1>8, <2>1 DEF ExplainedInv, AllowIsExplained, Done, Loop
    <2>2. CASE FailOpen
        <3>1. stage' = "done" /\ result'.source = "model_error"
            BY <2>2 DEF FailOpen, End
        <3> QED
            BY <3>1 DEF ExplainedInv, AllowIsExplained, Done, Loop
    <2> QED
        BY <1>8, <2>1, <2>2
<1>9. CASE NextProfile \/ Try \/ Wait
    BY <1>8, <1>9 DEF NextProfile, Try, Wait, Goto, Loop
<1>10. ASSUME NEW d \in Decided, CallDecides(d) PROVE ExplainedInv'
    <2>1. /\ Len(tries') = Len(tries) + 1 /\ tries' \in Seq(Call) /\ Len(tries) \in Nat
          /\ tries'[Len(tries) + 1] = [profile |-> profiles[pos], outcome |-> d]
        BY <1>10, RecordTypes DEF CallDecides
    <2>2. tries' # <<>> /\ tries'[Len(tries')].outcome = d
        BY <2>1
    <2>3. /\ stage = "call" /\ stage' = "done" /\ UNCHANGED input
          /\ result'.decision = IF d = "block" THEN "block" ELSE "allow"
          /\ result'.source = IF d = "allow" \/ d = "block" THEN "model" ELSE "uncertain"
        BY <1>10 DEF CallDecides, End
    <2>4. result'.decision = "allow" /\ result'.source = "model" => d = "allow"
        BY <2>3
    <2> QED
        BY <2>2, <2>3, <2>4 DEF ExplainedInv, AllowIsExplained, Done, Loop, Outcome
<1>11. ASSUME NEW e \in Errors, CallFails(e) PROVE ExplainedInv'
    BY <1>8, <1>11 DEF CallFails, Goto, Loop
<1>12. CASE \/ ReloadRules \/ \E how \in {"deadline", "canceled"} : ContextEnds(how)
            \/ UNCHANGED vars
    BY <1>12, OutsideStep DEF ExplainedInv, AllowIsExplained, Done, Outcome
<1> QED
    BY <1>2, <1>3, <1>4, <1>5, <1>6, <1>7, <1>9, <1>10, <1>11, <1>12 DEF Next, Step

-----------------------------------------------------------------------------
(* The theorems. *)

\* Every step of the audit, of its context and of the rules keeps IInv.
LEMMA Invariance == Spec => []IInv
<1>1. Init => IInv
    BY TypeInit, ChainInit, WalkInit, BudgetInit, AnnouncedInit, DecisionInit DEF IInv
<1>2. IInv /\ [Next]_vars => IInv'
    BY TypeStep, ChainStep, WalkStep, BudgetStep, SpanStep, AnnouncedStep, DecisionStep,
       ExplainedStep DEF IInv
<1> QED
    BY <1>1, <1>2, PTL DEF Spec

\* The budget of calls of callModelWithFailover, for every chain and every budget:
\* the total is kept, no profile is called more often than its retries allow, the
\* chain is walked forward and the counters of the trace account for the calls.
THEOREM CallsAreBudgeted == Spec => []CallBudget
<1>1. IInv => CallBudget
    <2> SUFFICES ASSUME IInv PROVE CallBudget
        OBVIOUS
    <2>1. Len(tries) \in Nat /\ modelRetries \in Nat /\ fallbackCount \in Nat
        BY DEF IInv, TypeOK
    <2>2. Done /\ tries # <<>> =>
             /\ Len(tries) <= 1 + modelRetries + fallbackCount
             /\ 1 + modelRetries + fallbackCount <= Len(tries) + 1
        BY <2>1 DEF IInv, AnnouncedInv
    <2> QED
        BY <2>2 DEF IInv, CallBudget, BudgetInv, SpanInv
<1> QED
    BY <1>1, Invariance, PTL

\* A block, a review, an uncertain or an allow of a model is the last call, and a
\* block is the decision of the audit.
THEOREM DecisionsAreFinal == Spec => []FirstDecisionIsFinal
<1>1. IInv => FirstDecisionIsFinal
    BY DEF IInv, DecisionInv
<1> QED
    BY <1>1, Invariance, PTL

\* An allow that is credited to a model was given by one to a covered input, and
\* an allow of a stage that failed open names its error class.
THEOREM AllowsAreExplained == Spec => []AllowIsExplained
<1>1. IInv => AllowIsExplained
    BY DEF IInv, ExplainedInv
<1> QED
    BY <1>1, Invariance, PTL
-----------------------------------------------------------------------------
(* The audit cannot run for ever.                                          *)

\* A bound on the steps the audit may still take: a round of the loops, which is
\* at most five steps, for every call that is left, and the stages before them.
LoopRank ==
    CASE stage = "call" -> 2
      [] stage = "try"  -> 3
      [] stage = "wait" -> 4
      [] stage = "next" -> IF Exhausted THEN 1 ELSE 4

BeforeRank ==
    CASE stage = "chain"      -> Len(Fallbacks) - cursor
      [] stage = "profile"    -> Len(Fallbacks) + 1
      [] stage = "gate"       -> Len(Fallbacks) + 2
      [] stage = "decoded"    -> Len(Fallbacks) + 3
      [] stage = "rules"      -> Len(Fallbacks) + 4
      [] stage = "scope"      -> Len(Fallbacks) + 5
      [] stage = "extraction" -> Len(Fallbacks) + 6

StepsLeft ==
    IF Done THEN 0
    ELSE IF stage \in Before THEN 5 * MaxTotal + 5 + BeforeRank
    ELSE 5 * (MaxTotal - Len(tries)) + LoopRank

StepsAreSpent ==
    /\ StepsLeft \in Nat
    /\ StepsLeft' <= StepsLeft
    /\ Step => StepsLeft' < StepsLeft

\* The bound is a number, and it is used up exactly when the audit has ended.
LEMMA StepsAreCounted ==
    ASSUME IInv
    PROVE  StepsLeft \in Nat /\ (StepsLeft = 0 <=> Done)
<1>1. Len(tries) \in Nat /\ Len(Fallbacks) \in Nat /\ Len(tries) <= MaxTotal
    BY DEF IInv, TypeOK, BudgetInv
<1>2. MaxTotal - Len(tries) \in Nat /\ 5 * MaxTotal + 5 \in Nat
    BY <1>1
<1>3. CASE Done
    BY <1>3 DEF StepsLeft
<1>4. CASE stage \in Before
    <2>1. BeforeRank \in Nat
        BY <1>1, <1>4 DEF BeforeRank, Before, IInv, TypeOK
    <2> HIDE DEF BeforeRank
    <2> QED
        BY <1>2, <1>4, <2>1 DEF StepsLeft, Before, Done
<1>5. CASE stage \in Loop \cup {"next"}
    <2>1. LoopRank \in Nat \ {0}
        BY <1>5 DEF LoopRank, Loop
    <2> HIDE DEF LoopRank
    <2> QED
        BY <1>2, <1>5, <2>1 DEF StepsLeft, Before, Loop, Done
<1> QED
    BY <1>3, <1>4, <1>5 DEF IInv, TypeOK, Stages, Before, Loop, Done

\* A stage before the models leads to a later one, or ends the audit.
LEMMA BeforeSpends ==
    ASSUME IInv, Preliminary \/ ResolveFallback \/ ChainResolved
    PROVE  StepsLeft' \in Int /\ StepsLeft' < StepsLeft
<1> USE DEF chainVars, loopVars
<1>0. /\ Len(Fallbacks) \in Nat /\ cursor \in 0 .. Len(Fallbacks)
      /\ Len(tries) \in Nat
    BY DEF IInv, TypeOK
<1>1. PICK floor \in Nat : floor = 5 * MaxTotal + 5
    OBVIOUS
<1>2. stage \in Before /\ ~Done /\ tries = <<>>
    BY PreliminaryStep DEF ResolveFallback, ChainResolved, Before, Done, IInv, ChainInv
<1>3. StepsLeft = floor + BeforeRank
    BY <1>1, <1>2 DEF StepsLeft
<1>4. BeforeRank \in Nat
    BY <1>0, <1>2 DEF BeforeRank, Before
<1>5. CASE Done'
    <2>1. StepsLeft' = 0
        BY <1>5 DEF StepsLeft
    <2> HIDE DEF BeforeRank
    <2> QED
        BY <1>1, <1>3, <1>4, <2>1
<1>6. CASE ChainResolved
    <2>1. stage' = "next" /\ tries' = tries
        BY <1>6 DEF ChainResolved, Goto
    <2>2. Len(tries') = 0
        BY <1>2, <2>1
    <2>3. LoopRank' \in Nat /\ LoopRank' <= 4
        BY <2>1 DEF LoopRank
    <2> HIDE DEF LoopRank
    <2>4. StepsLeft' = 5 * (MaxTotal - 0) + LoopRank'
        BY <2>1, <2>2 DEF StepsLeft, Before, Done
    <2>5. PICK high \in Nat : high = BeforeRank
        BY <1>4
    <2>6. PICK low \in Nat : low = LoopRank'
        BY <2>3
    <2>7. low <= 4 /\ StepsLeft = floor + high /\ StepsLeft' = 5 * MaxTotal + low
        BY <1>3, <2>3, <2>4, <2>5, <2>6
    <2> QED
        BY <1>1, <2>7
<1>7. CASE ~Done' /\ ~ChainResolved
    <2>1. stage' \in Before
        <3>1. CASE Preliminary
            BY <1>7, <3>1, PreliminaryStep DEF Done
        <3> QED
            BY <1>2, <1>7, <3>1 DEF ResolveFallback
    <2>2. StepsLeft' = floor + BeforeRank'
        BY <1>1, <1>7, <2>1 DEF StepsLeft
    <2>3. BeforeRank' \in Nat /\ BeforeRank' < BeforeRank
        <3>1. CASE ResolveFallback
            BY <1>0, <3>1 DEF ResolveFallback, BeforeRank
        <3>2. CASE Preliminary
            <4>1. cursor' = cursor
                BY <3>2, PreliminaryStep
            <4>2. \/ stage = "extraction" /\ stage' = "scope"
                  \/ stage = "scope" /\ stage' = "rules"
                  \/ stage = "rules" /\ stage' \in {"decoded", "gate"}
                  \/ stage = "decoded" /\ stage' = "gate"
                  \/ stage = "gate" /\ stage' = "profile"
                  \/ stage = "profile" /\ stage' = "chain"
                BY <1>7, <3>2
                DEF Preliminary, Extract, Scope, MatchRules, NextView, Gate, LookupRoot,
                    Fail, End, Goto, Done
            <4> QED
                BY <1>0, <4>1, <4>2 DEF BeforeRank
        <3> QED
            BY <1>7, <3>1, <3>2
    <2> HIDE DEF BeforeRank
    <2>4. PICK high \in Nat : high = BeforeRank
        BY <1>4
    <2>5. PICK low \in Nat : low = BeforeRank'
        BY <2>3
    <2>6. low < high /\ StepsLeft = floor + high /\ StepsLeft' = floor + low
        BY <1>3, <2>2, <2>3, <2>4, <2>5
    <2> QED
        BY <2>6
<1> QED
    BY <1>5, <1>6, <1>7

\* A step of the loops uses up a part of the round, and a call a round.
LEMMA LoopSpends ==
    ASSUME IInv,
           \/ NextProfile \/ Try \/ Wait
           \/ \E d \in Decided : CallDecides(d)
           \/ \E e \in Errors : CallFails(e)
    PROVE  StepsLeft' \in Int /\ StepsLeft' < StepsLeft
<1> USE DEF chainVars, loopVars
<1>0. Len(tries) \in Nat /\ Len(tries) <= MaxTotal /\ (stage = "call" => Len(tries) < MaxTotal)
    BY DEF IInv, TypeOK, BudgetInv
<1>1. stage \in Loop \cup {"next"} /\ ~Done
    BY DEF NextProfile, Try, Wait, CallDecides, CallFails, Loop, Done
<1>2. /\ StepsLeft = 5 * (MaxTotal - Len(tries)) + LoopRank
      /\ LoopRank \in Nat \ {0}
    BY <1>1 DEF StepsLeft, Before, Loop, LoopRank
<1>3. MaxTotal - Len(tries) \in Nat
    BY <1>0
<1>4. CASE Done'
    <2>1. StepsLeft' = 0
        BY <1>4 DEF StepsLeft
    <2> HIDE DEF LoopRank
    <2> QED
        BY <1>2, <1>3, <2>1
<1>5. CASE ~Done' /\ (NextProfile \/ Try \/ Wait)
    <2>1. /\ tries' = tries
          /\ \/ stage = "next" /\ stage' = "try" /\ ~Exhausted
             \/ stage = "try" /\ stage' = "next" /\ Exhausted
             \/ stage = "try" /\ stage' = "call"
             \/ stage = "wait" /\ stage' = "try"
        BY <1>5 DEF NextProfile, Try, Wait, FailOpen, End, Goto, Done
    <2>2. LoopRank' \in Nat /\ LoopRank' < LoopRank
        BY <2>1 DEF LoopRank, Exhausted
    <2>3. StepsLeft' = 5 * (MaxTotal - Len(tries)) + LoopRank'
        BY <2>1 DEF StepsLeft, Before, Done
    <2> HIDE DEF LoopRank
    <2> QED
        BY <1>2, <1>3, <2>2, <2>3
<1>6. ASSUME NEW e \in Errors, CallFails(e), ~Done'
     PROVE  StepsLeft' \in Int /\ StepsLeft' < StepsLeft
    <2>1. stage = "call" /\ stage' \in {"next", "wait"}
        BY <1>6 DEF CallFails, FailOpen, End, Goto, Done
    <2>2. Len(tries') = Len(tries) + 1
        BY <1>6, RecordTypes DEF CallFails, IInv
    <2>3. LoopRank = 2 /\ LoopRank' \in 1 .. 4
        BY <2>1 DEF LoopRank
    <2>4. StepsLeft' = 5 * (MaxTotal - (Len(tries) + 1)) + LoopRank'
        BY <2>1, <2>2 DEF StepsLeft, Before, Done
    <2> HIDE DEF LoopRank
    <2> QED
        BY <1>0, <1>2, <2>3, <2>4
<1> QED
    BY <1>4, <1>5, <1>6 DEF CallDecides, End, Done

\* AuditEnds without its fairness: no step of the audit can be repeated for ever,
\* whatever the models answer and whatever the context and the rules do meanwhile.
\* Every step uses up a part of a bound that only the calls left and the fallbacks
\* left determine, and that the context and a reload cannot extend.
THEOREM AuditsAreBounded == Spec => [][StepsAreSpent]_vars
<1>1. IInv /\ [Next]_vars => [StepsAreSpent]_vars
    <2> SUFFICES ASSUME IInv, Next PROVE StepsAreSpent
        BY DEF vars
    <2>1. StepsLeft \in Nat
        BY StepsAreCounted
    <2>2. CASE Step
        <3>1. StepsLeft' \in Int /\ StepsLeft' < StepsLeft
            BY <2>2, BeforeSpends, LoopSpends DEF Step, Preliminary
        <3>2. StepsLeft' <= StepsLeft
            BY <2>1, <3>1
        <3> QED
            BY <2>1, <3>1, <3>2 DEF StepsAreSpent
    <2>3. CASE ~Step
        <3>1. UNCHANGED <<stage, cursor, tries>>
            BY <2>3, OutsideStep DEF Next, chainVars, loopVars
        <3>2. StepsLeft' = StepsLeft
            BY <3>1 DEF StepsLeft, Done, BeforeRank, LoopRank, Exhausted
        <3> QED
            BY <2>1, <2>3, <3>2 DEF StepsAreSpent
    <2> QED
        BY <2>2, <2>3
<1> QED
    BY <1>1, Invariance, PTL DEF Spec

-----------------------------------------------------------------------------
(* The rules that the audit matches, and who may make them block. *)

LearnedBlock(rule) == rule.action = "block" /\ rule.by = "learner"

Earned(c) ==
    /\ cands[c].band = 3
    /\ cands[c].evidence >= HardEvidence
    /\ Cardinality(cands[c].users) >= HardUsers

\* A table of rules, stored, read or matched, in which every learned block is
\* earned by its candidate as it is now.
Table(f) ==
    /\ DOMAIN f \subseteq Candidates
    /\ \A c \in DOMAIN f : LearnedBlock(f[c]) => Earned(c)

Tables == Table(rules) /\ Table(snapshot) /\ \A a \in Actors : Table(reload[a].read)

\* A worker that is about to promote goes by a row that was not rejected and, if
\* it makes the rule block, by one that had earned it.
Promotes(k) ==
    k.pc = "promote" => /\ k.cand \in Candidates /\ k.seen # "rejected"
                        /\ k.block \in BOOLEAN /\ (k.block => Earned(k.cand))

Learners ==
    /\ DOMAIN worker = Workers /\ DOMAIN reload = Actors
    /\ \A w \in Workers : worker[w].user \in Users \cup {NoUser} /\ Promotes(worker[w])

RuleInv == LearnTypeOK /\ Learners /\ Tables

USE RuleLearningAssumption

\* The size of a set of users is a number, and larger for more users.
LEMMA UsersCount ==
    ASSUME NEW S \in SUBSET Users, NEW T \in SUBSET S
    PROVE  /\ Cardinality(S) \in Nat /\ Cardinality(T) \in Nat
           /\ Cardinality(T) <= Cardinality(S)
<1>1. IsFiniteSet(Users)
    BY DEF RuleLearningAssumption
<1>2. IsFiniteSet(S)
    BY <1>1, FS_Subset
<1>3. IsFiniteSet(T) /\ Cardinality(T) <= Cardinality(S)
    BY <1>2, FS_Subset
<1> QED
    BY <1>2, <1>3, FS_CardinalityType

\* UpsertCyberRuleCandidate adds evidence and users and never lowers the band.
LEMMA UpsertedGrows ==
    ASSUME NEW old \in Row, NEW band \in Bands,
           NEW u \in Users \cup {NoUser}
    PROVE  LET new == Upserted(old, band, u)
           IN  /\ new \in Row
               /\ old.band = 3 => new.band = 3
               /\ new.evidence = old.evidence + 1
               /\ old.users \subseteq new.users
               /\ old.status = "rejected" => new.status = "rejected"
<1> DEFINE new == Upserted(old, band, u)
<1>1. /\ new.band = IF band > old.band THEN band ELSE old.band
      /\ new.evidence = old.evidence + 1
      /\ new.users = old.users \cup ({u} \ {NoUser})
      /\ new.status = CASE old.status = "none" -> "candidate"
                        [] old.status = "candidate" -> "shadow"
                        [] OTHER -> old.status
      /\ new = [status |-> new.status, band |-> new.band, evidence |-> new.evidence,
                users |-> new.users]
    BY DEF Upserted
<1>2. /\ old.status \in Statuses /\ old.band \in 0..3 /\ old.evidence \in Nat
      /\ old.users \in SUBSET Users /\ band \in 0..3
    BY DEF Row, Bands
<1> HIDE DEF new
<1>3. new.band \in 0..3 /\ (old.band = 3 => new.band = 3)
    BY <1>1, <1>2
<1>4. new.users \in SUBSET Users /\ old.users \subseteq new.users
    BY <1>1, <1>2
<1>5. new.status \in Statuses /\ (old.status = "rejected" => new.status = "rejected")
    BY <1>1, <1>2 DEF Statuses
<1>6. new \in Row
    BY <1>1, <1>2, <1>3, <1>4, <1>5 DEF Row, Bands
<1> QED
    BY <1>1, <1>3, <1>4, <1>5, <1>6 DEF new

\* What a candidate has earned it keeps as long as its row only grows.
LEMMA EarnedStays ==
    ASSUME LearnTypeOK, LearnTypeOK', NEW c \in Candidates, Earned(c),
           cands[c].band = 3 => cands'[c].band = 3,
           cands'[c].evidence >= cands[c].evidence, cands[c].users \subseteq cands'[c].users
    PROVE  Earned(c)'
<1>1. /\ cands[c].evidence \in Nat /\ cands'[c].evidence \in Nat
      /\ cands'[c].users \in SUBSET Users /\ HardEvidence \in Nat /\ HardUsers \in Nat
    BY DEF LearnTypeOK, Row, RuleLearningAssumption
<1>2. /\ Cardinality(cands[c].users) \in Nat /\ Cardinality(cands'[c].users) \in Nat
      /\ Cardinality(cands[c].users) <= Cardinality(cands'[c].users)
    BY <1>1, UsersCount
<1>3. Earned(c)
    OBVIOUS
<1>4. cands'[c].band = 3
    BY <1>3 DEF Earned
<1>5. cands'[c].evidence >= HardEvidence
    BY <1>1, <1>3 DEF Earned
<1>6. Cardinality(cands'[c].users) >= HardUsers
    BY <1>1, <1>2, <1>3 DEF Earned
<1> QED
    BY <1>4, <1>5, <1>6 DEF Earned

\* Who does not reload has read nothing.
LEMMA EmptyTable == NotReloading.pc = "idle" /\ Table(NotReloading.read)
<1>1. NotReloading.pc = "idle" /\ DOMAIN NotReloading.read = {}
    BY DEF NotReloading
<1> QED
    BY <1>1 DEF Table

\* Nothing in cyber_rules is learned when the learner starts.
LEMMA RuleInit == LearnInit => RuleInv
<1> SUFFICES ASSUME LearnInit PROVE RuleInv
    OBVIOUS
<1>1. cands = [c \in Candidates |-> NoCandidate]
      /\ rules = [c \in Candidates |-> NoRule]
      /\ snapshot = Enabled(rules)
    BY DEF LearnInit
<1>2. settings \in Policy /\ policy \in Policy
    <2>1. settings \in Policy /\ DefaultPolicy \in Policy
        BY DEF LearnInit, RuleLearningAssumption
    <2>2. Normalized(settings) \in Policy
        BY <2>1 DEF Normalized, Policy
    <2> QED
        BY <2>1, <2>2 DEF LearnInit
<1>3. DOMAIN snapshot \subseteq Candidates
      /\ \A c \in DOMAIN snapshot : snapshot[c] = NoRule
    BY <1>1 DEF Enabled
<1>4. LearnTypeOK
    <2>1. NoCandidate \in Row
        BY DEF NoCandidate, Row, Statuses, Bands
    <2>2. NoRule \in Rule
        BY DEF NoRule, Rule, RuleActions
    <2>3. queue \in Seq(Users \cup {NoUser}) /\ Len(queue) <= QueueSize
        BY DEF LearnInit, RuleLearningAssumption
    <2>4. \A w \in Workers : worker[w].pc \in {"idle", "classify", "promote", "reload"}
        BY DEF LearnInit, Idle
    <2>5. loadFailed \in BOOLEAN
        BY DEF LearnInit
    <2> QED
        BY <1>1, <1>2, <1>3, <2>1, <2>2, <2>3, <2>4, <2>5 DEF LearnTypeOK
<1>5. Learners
    BY DEF LearnInit, Idle, Learners, Promotes
<1>6. Tables
    <2>1. Table(rules) /\ Table(snapshot)
        <3>1. ~LearnedBlock(NoRule)
            BY DEF NoRule, LearnedBlock
        <3>2. DOMAIN rules = Candidates /\ \A c \in DOMAIN rules : rules[c] = NoRule
            BY <1>1
        <3> QED
            BY <1>3, <3>1, <3>2 DEF Table
    <2>2. \A a \in Actors : Table(reload[a].read)
        BY EmptyTable DEF LearnInit
    <2> QED
        BY <2>1, <2>2 DEF Tables
<1> QED
    BY <1>4, <1>5, <1>6 DEF RuleInv

\* What a step does to rules and candidates, if it leaves the candidates alone.
LEMMA SameCandidates ==
    ASSUME UNCHANGED cands, NEW f
    PROVE  Table(f) => Table(f)'
BY DEF Table, Earned

\* A step that changes neither rules nor candidates, and in which a worker at most
\* stops, keeps the learners.
LEMMA WorkersStop ==
    ASSUME RuleInv, UNCHANGED cands, DOMAIN reload' = DOMAIN reload,
           DOMAIN worker' = Workers,
           \A w \in Workers : \/ worker'[w] = worker[w]
                              \/ worker'[w].pc # "promote"
                                 /\ worker'[w].user \in Users \cup {NoUser}
    PROVE  Learners'
<1>1. \A w \in Workers : Promotes(worker[w]) => Promotes(worker[w])'
    BY DEF Promotes, Earned
<1> QED
    BY <1>1 DEF RuleInv, Learners, Promotes

\* Return lets a worker go and resets the reload of its caller.
LEMMA ReturnKeeps ==
    ASSUME RuleInv, UNCHANGED <<cands, rules, snapshot>>, NEW a \in Actors,
           Return(a)
    PROVE  /\ Learners' /\ Tables'
           /\ \A w \in Workers : worker'[w].pc \in {"idle", "classify", "promote", "reload"}
<1>1. /\ worker' = [w \in Workers |-> IF w = a THEN Idle ELSE worker[w]]
      /\ \E p : reload' = [reload EXCEPT ![a] = [NotReloading EXCEPT !.pc = p]]
    BY DEF Return
<1>2. Idle.pc = "idle" /\ Idle.user = NoUser
    BY DEF Idle
<1>3. Learners'
    BY <1>1, <1>2, WorkersStop DEF RuleInv, Learners
<1>4. Tables'
    <2>1. \A b \in Actors : reload'[b].read = reload[b].read
                                  \/ reload'[b].read = NotReloading.read
        BY <1>1 DEF RuleInv, Learners, NotReloading
    <2>2. \A b \in Actors : Table(reload'[b].read)
        BY <2>1, EmptyTable DEF RuleInv, Tables
    <2> QED
        BY <2>2, SameCandidates DEF RuleInv, Tables
<1>5. \A w \in Workers : worker'[w].pc \in {"idle", "classify", "promote", "reload"}
    BY <1>1, <1>2 DEF RuleInv, LearnTypeOK
<1> QED
    BY <1>3, <1>4, <1>5

\* ReloadRules of any actor: a table is read, stored and the flag set, each time
\* as it was read, and a learned block in it stays earned.
LEMMA ReloadStepKeeps ==
    ASSUME RuleInv, NEW a \in Actors, ReloadStep(a)
    PROVE  RuleInv'
<1>1. /\ UNCHANGED <<settings, policy, queue, cands, rules>>
      /\ loadFailed' \in BOOLEAN
    BY DEF ReloadStep, ReadRules, StoreRules, StoreFlag, RuleInv, LearnTypeOK
<1>2. SUFFICES /\ Learners' /\ Tables' /\ DOMAIN snapshot' \subseteq Candidates
               /\ \A w \in Workers : worker'[w].pc \in {"idle", "classify", "promote", "reload"}
    BY <1>1 DEF RuleInv, LearnTypeOK
<1>3. DOMAIN snapshot \subseteq Candidates
    BY DEF RuleInv, LearnTypeOK
<1>4. CASE UNCHANGED snapshot /\ Return(a)
    BY <1>1, <1>3, <1>4, ReturnKeeps
<1>5. CASE UNCHANGED <<snapshot, worker>>
           /\ reload' = [reload EXCEPT ![a] = [pc |-> "store", read |-> Enabled(rules)]]
    <2>1. Table(Enabled(rules))
        <3>1. /\ DOMAIN Enabled(rules) \subseteq Candidates
              /\ \A c \in DOMAIN Enabled(rules) : Enabled(rules)[c] = rules[c]
            BY DEF Enabled
        <3>2. DOMAIN rules = Candidates /\ Table(rules)
            BY DEF RuleInv, LearnTypeOK, Tables
        <3> QED
            BY <3>1, <3>2 DEF Table
    <2>2. \A b \in Actors : reload'[b].read = reload[b].read
                                  \/ reload'[b].read = Enabled(rules)
        BY <1>5 DEF RuleInv, Learners
    <2>3. \A b \in Actors : Table(reload'[b].read)
        BY <2>1, <2>2 DEF RuleInv, Tables
    <2>4. Tables'
        BY <1>1, <1>5, <2>3, SameCandidates DEF RuleInv, Tables
    <2>5. Learners'
        BY <1>1, <1>5, WorkersStop DEF RuleInv, Learners
    <2> QED
        BY <1>3, <1>5, <2>4, <2>5 DEF RuleInv, LearnTypeOK
<1>6. CASE StoreRules(a)
    <2>1. /\ snapshot' = reload[a].read /\ worker' = worker
          /\ reload' = [reload EXCEPT ![a] = [NotReloading EXCEPT !.pc = "loaded"]]
        BY <1>6 DEF StoreRules
    <2>2. \A b \in Actors : reload'[b].read = reload[b].read
                                  \/ reload'[b].read = NotReloading.read
        BY <2>1 DEF RuleInv, Learners, NotReloading
    <2>3. \A b \in Actors : Table(reload'[b].read)
        BY <2>2, EmptyTable DEF RuleInv, Tables
    <2>4. Table(rules) /\ Table(snapshot')
        BY <2>1 DEF RuleInv, Tables
    <2>5. Tables'
        BY <1>1, <2>3, <2>4, SameCandidates DEF Tables
    <2>6. Learners'
        BY <1>1, <2>1, WorkersStop DEF RuleInv, Learners
    <2>7. DOMAIN snapshot' \subseteq Candidates
        BY <2>4 DEF Table
    <2> QED
        BY <2>1, <2>5, <2>6, <2>7 DEF RuleInv, LearnTypeOK
<1>7. CASE UNCHANGED <<snapshot, worker>>
           /\ reload' = [reload EXCEPT ![a] = [NotReloading EXCEPT !.pc = "failed"]]
    <2>1. \A b \in Actors : reload'[b].read = reload[b].read
                                  \/ reload'[b].read = NotReloading.read
        BY <1>7 DEF RuleInv, Learners, NotReloading
    <2>2. \A b \in Actors : Table(reload'[b].read)
        BY <2>1, EmptyTable DEF RuleInv, Tables
    <2>3. Tables'
        BY <1>1, <1>7, <2>2, SameCandidates DEF RuleInv, Tables
    <2>4. Learners'
        BY <1>1, <1>7, WorkersStop DEF RuleInv, Learners
    <2> QED
        BY <1>3, <1>7, <2>3, <2>4 DEF RuleInv, LearnTypeOK
<1> QED
    BY <1>4, <1>5, <1>6, <1>7 DEF ReloadStep, ReadRules, StoreFlag

\* A worker or an administrator that starts a reload has read nothing yet.
LEMMA StartedTables ==
    ASSUME RuleInv, UNCHANGED <<cands, snapshot>>, Table(rules)', NEW a \in Actors,
           reload' = reload \/ StartReload(a)
    PROVE  Tables' /\ DOMAIN reload' = Actors
<1>1. DOMAIN reload' = Actors
    BY DEF RuleInv, Learners, StartReload
<1>2. \A b \in Actors : reload'[b].read = reload[b].read
                              \/ reload'[b].read = NotReloading.read
    BY DEF RuleInv, Learners, NotReloading, StartReload
<1>3. \A b \in Actors : Table(reload'[b].read)
    BY <1>2, EmptyTable DEF RuleInv, Tables
<1>4. Table(snapshot')
    BY DEF RuleInv, Tables
<1> QED
    BY <1>1, <1>3, <1>4, SameCandidates DEF Tables

\* UpsertCyberRuleCandidate: the candidate grows, so what is earned stays earned,
\* and the worker goes on to promote only with a row that lets it.
LEMMA UpsertKeeps ==
    ASSUME RuleInv, NEW w \in Workers, NEW answer \in Answers,
           UpsertCyberRuleCandidate(w, answer)
    PROVE  RuleInv'
<1>1. PICK c : c = Fingerprint(answer)
    OBVIOUS
<1>2. PICK row : row = Upserted(cands[c], answer.band, worker[w].user)
    OBVIOUS
<1>3. /\ c \in Candidates /\ answer.band \in Bands
      /\ cands[c] \in Row /\ worker[w].user \in Users \cup {NoUser}
    BY <1>1 DEF UpsertCyberRuleCandidate, Candidates, RuleInv, LearnTypeOK,
                Learners, RuleLearningAssumption
<1>4. /\ row \in Row /\ (cands[c].band = 3 => row.band = 3)
      /\ row.evidence = cands[c].evidence + 1 /\ cands[c].users \subseteq row.users
    BY <1>2, <1>3, UpsertedGrows
<1>5. /\ cands' = [cands EXCEPT ![c] = row]
      /\ worker' = [worker EXCEPT
             ![w] = IF MayPromote(row, policy)
                    THEN [Idle EXCEPT !.pc = "promote", !.cand = c, !.seen = row.status,
                                            !.block = HardBlock(row, policy.block)]
                    ELSE Idle]
      /\ UNCHANGED <<settings, policy, queue, rules, snapshot, loadFailed, reload>>
    BY <1>1, <1>2 DEF UpsertCyberRuleCandidate
<1>6. /\ cands' \in [Candidates -> Row] /\ cands'[c] = row
      /\ \A d \in Candidates : d # c => cands'[d] = cands[d]
    BY <1>3, <1>4, <1>5 DEF RuleInv, LearnTypeOK
<1>7. PICK k : k = worker'[w]
    OBVIOUS
<1>8. /\ worker'[w] = k /\ \A v \in Workers : v # w => worker'[v] = worker[v]
      /\ DOMAIN worker' = Workers
    BY <1>5, <1>7 DEF RuleInv, Learners
<1>9. \/ k = Idle
      \/ /\ MayPromote(row, policy)
         /\ k = [Idle EXCEPT !.pc = "promote", !.cand = c, !.seen = row.status,
                                   !.block = HardBlock(row, policy.block)]
    BY <1>5, <1>7 DEF RuleInv, Learners
<1>10. /\ k.pc \in {"idle", "promote"} /\ k.user = NoUser
       /\ k.pc = "promote" => /\ k.cand = c /\ k.seen = row.status /\ row.status # "rejected"
                              /\ k.block = HardBlock(row, policy.block)
    <2>1. CASE k = Idle
        BY <2>1 DEF Idle
    <2>2. CASE k # Idle
        BY <1>9, <2>2 DEF Idle, MayPromote
    <2> QED
        BY <2>1, <2>2
<1>11. LearnTypeOK'
    BY <1>5, <1>6, <1>8, <1>10 DEF RuleInv, LearnTypeOK
<1>12. \A d \in Candidates : Earned(d) => Earned(d)'
    <2> SUFFICES ASSUME NEW d \in Candidates, Earned(d) PROVE Earned(d)'
        OBVIOUS
    <2>1. /\ cands[d].band = 3 => cands'[d].band = 3
          /\ cands'[d].evidence >= cands[d].evidence /\ cands[d].users \subseteq cands'[d].users
        <3>1. cands[d].evidence \in Nat
            BY DEF RuleInv, LearnTypeOK, Row
        <3>2. CASE d = c
            BY <1>4, <1>6, <3>1, <3>2
        <3>3. CASE d # c
            BY <1>6, <3>1, <3>3
        <3> QED
            BY <3>2, <3>3
    <2> QED
        BY <1>11, <2>1, EarnedStays DEF RuleInv
<1>13. Tables'
    <2>1. \A f : Table(f) => Table(f)'
        BY <1>12 DEF Table
    <2> QED
        BY <1>5, <2>1 DEF RuleInv, Tables
<1>14. Learners'
    <2>1. Promotes(k)'
        <3>1. HardBlock(row, policy.block) => Earned(c)'
            BY <1>6 DEF HardBlock, Earned
        <3>2. HardBlock(row, policy.block) \in BOOLEAN
            BY DEF HardBlock
        <3> QED
            BY <1>3, <1>10, <3>1, <3>2 DEF Promotes
    <2>2. \A v \in Workers : Promotes(worker[v]) => Promotes(worker[v])'
        <3> SUFFICES ASSUME NEW v \in Workers, Promotes(worker[v]), v # w
                     PROVE  Promotes(worker[v])'
            BY <1>8, <2>1, <1>7
        <3>1. worker'[v] = worker[v]
            BY <1>8
        <3> QED
            BY <1>12, <3>1 DEF Promotes
    <2> QED
        BY <1>5, <1>8, <1>10, <2>2 DEF RuleInv, Learners
<1> QED
    BY <1>11, <1>13, <1>14 DEF RuleInv

\* PromoteCyberRuleCandidate: a rule becomes a learned block only if the row the
\* worker goes by had earned it, or it was one before.
LEMMA PromoteKeeps ==
    ASSUME RuleInv, NEW w \in Workers, PromoteCyberRuleCandidate(w)
    PROVE  RuleInv'
<1>1. PICK c : c = worker[w].cand
    OBVIOUS
<1>2. /\ worker[w].pc = "promote" /\ c \in Candidates
      /\ worker[w].block \in BOOLEAN /\ (worker[w].block => Earned(c))
    BY <1>1 DEF PromoteCyberRuleCandidate, RuleInv, Learners, Promotes
<1>3. CASE /\ rules' = [rules EXCEPT ![c] = Learned(@, worker[w].block)]
           /\ cands' = [cands EXCEPT ![c].status = "promoted"]
           /\ worker' = [worker EXCEPT ![w] = [Idle EXCEPT !.pc = "reload"]]
           /\ StartReload(w)
    <2>1. UNCHANGED <<settings, policy, queue, snapshot, loadFailed>>
        BY DEF PromoteCyberRuleCandidate
    <2>2. PICK new : new = Learned(rules[c], worker[w].block)
        OBVIOUS
    <2>3. new \in Rule /\ (LearnedBlock(new) => worker[w].block \/ LearnedBlock(rules[c]))
        <3>1. rules[c] \in Rule
            BY <1>2 DEF RuleInv, LearnTypeOK
        <3>2. new \in Rule
            BY <1>2, <2>2, <3>1 DEF Learned, Rule, RuleActions
        <3>3. LearnedBlock(new) => worker[w].block \/ LearnedBlock(rules[c])
            BY <2>2 DEF Learned, LearnedBlock
        <3> QED
            BY <3>2, <3>3
    <2>4. /\ rules' \in [Candidates -> Rule] /\ rules'[c] = new
          /\ \A d \in Candidates : d # c => rules'[d] = rules[d]
        BY <1>2, <1>3, <2>2, <2>3 DEF RuleInv, LearnTypeOK
    <2>5. cands' \in [Candidates -> Row]
          /\ \A d \in Candidates : /\ cands'[d].band = cands[d].band
                                         /\ cands'[d].evidence = cands[d].evidence
                                         /\ cands'[d].users = cands[d].users
        BY <1>2, <1>3 DEF RuleInv, LearnTypeOK, Row, Statuses
    <2>6. \A d \in Candidates : Earned(d) => Earned(d)'
        BY <2>5 DEF Earned
    <2>7. \A f : Table(f) => Table(f)'
        BY <2>6 DEF Table
    <2>8. Table(rules)'
        <3> SUFFICES ASSUME NEW d \in Candidates, LearnedBlock(rules'[d])
                     PROVE  Earned(d)'
            BY <2>4 DEF Table, LearnedBlock
        <3>1. \A x \in Candidates : LearnedBlock(rules[x]) => Earned(x)
            BY DEF RuleInv, LearnTypeOK, Tables, Table
        <3>2. CASE d = c
            BY <1>2, <2>3, <2>4, <2>6, <3>1, <3>2
        <3>3. CASE d # c
            BY <2>4, <2>6, <3>1, <3>3
        <3> QED
            BY <3>2, <3>3
    <2>9. /\ DOMAIN reload' = Actors
          /\ \A b \in Actors : reload'[b].read = reload[b].read
                                     \/ reload'[b].read = NotReloading.read
        BY <1>3 DEF StartReload, RuleInv, Learners, NotReloading
    <2>10. \A b \in Actors : Table(reload'[b].read)
        BY <2>9, EmptyTable DEF RuleInv, Tables
    <2>11. Tables'
        BY <2>1, <2>7, <2>8, <2>10 DEF RuleInv, Tables
    <2>12. /\ DOMAIN worker' = Workers /\ worker'[w].pc = "reload" /\ worker'[w].user = NoUser
           /\ \A v \in Workers : v # w => worker'[v] = worker[v]
        BY <1>3 DEF RuleInv, Learners, Idle
    <2>13. \A v \in Workers : Promotes(worker[v]) => Promotes(worker[v])'
        BY <2>6, <2>12 DEF Promotes
    <2>14. Learners'
        BY <2>9, <2>12, <2>13 DEF RuleInv, Learners
    <2>15. LearnTypeOK'
        BY <2>1, <2>4, <2>5, <2>12 DEF RuleInv, LearnTypeOK
    <2> QED
        BY <2>11, <2>14, <2>15 DEF RuleInv
<1>4. CASE /\ worker' = [worker EXCEPT ![w] = Idle]
           /\ UNCHANGED <<rules, cands, reload>>
    <2>1. UNCHANGED <<settings, policy, queue, snapshot, loadFailed>>
        BY DEF PromoteCyberRuleCandidate
    <2>2. /\ DOMAIN worker' = Workers /\ worker'[w].pc = "idle" /\ worker'[w].user = NoUser
          /\ \A v \in Workers : v # w => worker'[v] = worker[v]
        BY <1>4 DEF RuleInv, Learners, Idle
    <2>3. Learners'
        BY <1>4, <2>2, WorkersStop DEF RuleInv, Learners
    <2>4. Tables'
        BY <1>4, <2>1, SameCandidates DEF RuleInv, Tables
    <2>5. LearnTypeOK'
        BY <1>4, <2>1, <2>2 DEF RuleInv, LearnTypeOK
    <2> QED
        BY <2>3, <2>4, <2>5 DEF RuleInv
<1> QED
    BY <1>1, <1>3, <1>4 DEF PromoteCyberRuleCandidate

\* What administrators write is theirs and not learned.
LEMMA AdminKeeps ==
    ASSUME RuleInv, AdminStep
    PROVE  RuleInv'
<1>1. ASSUME NEW c \in Candidates, NEW new \in Rule, ~LearnedBlock(new),
             rules' = [rules EXCEPT ![c] = new], StartReload("admin"),
             \/ UNCHANGED cands
             \/ cands' = [cands EXCEPT ![c].status = "promoted"],
             UNCHANGED <<settings, policy, queue, snapshot, loadFailed, worker>>
      PROVE  RuleInv'
    <2>1. /\ cands' \in [Candidates -> Row]
          /\ \A d \in Candidates : /\ cands'[d].band = cands[d].band
                                         /\ cands'[d].evidence = cands[d].evidence
                                         /\ cands'[d].users = cands[d].users
        <3>1. CASE UNCHANGED cands
            BY <3>1 DEF RuleInv, LearnTypeOK
        <3>2. CASE cands' = [cands EXCEPT ![c].status = "promoted"]
            BY <3>2 DEF RuleInv, LearnTypeOK, Row, Statuses
        <3> QED
            BY <1>1, <3>1, <3>2
    <2>2. \A d \in Candidates : Earned(d) => Earned(d)'
        BY <2>1 DEF Earned
    <2>3. \A f : Table(f) => Table(f)'
        BY <2>2 DEF Table
    <2>4. rules' \in [Candidates -> Rule]
          /\ \A d \in Candidates : rules'[d] = rules[d] \/ rules'[d] = new
        BY <1>1 DEF RuleInv, LearnTypeOK
    <2>5. Table(rules)'
        <3>1. \A d \in Candidates : LearnedBlock(rules'[d]) => Earned(d)
            BY <1>1, <2>4 DEF RuleInv, LearnTypeOK, Tables, Table
        <3> QED
            BY <2>2, <2>4, <3>1 DEF Table, LearnedBlock
    <2>6. /\ DOMAIN reload' = Actors
          /\ \A b \in Actors : reload'[b].read = reload[b].read
                                     \/ reload'[b].read = NotReloading.read
        BY <1>1 DEF StartReload, RuleInv, Learners, NotReloading
    <2>7. \A b \in Actors : Table(reload'[b].read)
        BY <2>6, EmptyTable DEF RuleInv, Tables
    <2>8. Tables'
        BY <1>1, <2>3, <2>5, <2>7 DEF RuleInv, Tables
    <2>9. Learners'
        BY <1>1, <2>2, <2>6 DEF RuleInv, Learners, Promotes
    <2> QED
        BY <1>1, <2>1, <2>4, <2>8, <2>9 DEF RuleInv, LearnTypeOK
<1>2. ASSUME NEW c \in Candidates, NEW status \in {"shadow", "rejected"},
             SetCyberRuleCandidateStatus(c, status)
      PROVE  RuleInv'
    <2>1. /\ cands' = [cands EXCEPT ![c].status = status]
          /\ UNCHANGED <<settings, policy, queue, rules, snapshot, loadFailed, worker, reload>>
        BY <1>2 DEF SetCyberRuleCandidateStatus
    <2>2. /\ cands' \in [Candidates -> Row]
          /\ \A d \in Candidates : /\ cands'[d].band = cands[d].band
                                         /\ cands'[d].evidence = cands[d].evidence
                                         /\ cands'[d].users = cands[d].users
        BY <2>1 DEF RuleInv, LearnTypeOK, Row, Statuses
    <2>3. \A d \in Candidates : Earned(d) => Earned(d)'
        BY <2>2 DEF Earned
    <2>4. Tables' /\ Learners'
        BY <2>1, <2>3 DEF RuleInv, Tables, Table, Learners, Promotes
    <2> QED
        BY <2>1, <2>2, <2>4 DEF RuleInv, LearnTypeOK
<1>3. ASSUME NEW c \in Candidates, NEW action \in {"review", "block"},
             PromoteCyberRuleCandidateManual(c, action)
      PROVE  RuleInv'
    <2>1. PICK new : new = [on |-> TRUE, action |-> action, by |-> "operator", blank |-> FALSE]
        OBVIOUS
    <2>2. new \in Rule /\ ~LearnedBlock(new)
        BY <2>1 DEF Rule, RuleActions, LearnedBlock
    <2> QED
        BY <1>1, <1>3, <2>1, <2>2 DEF PromoteCyberRuleCandidateManual
<1>4. ASSUME NEW c \in Candidates, NEW given \in RuleInputs,
             AdminSaveCyberRule(c, given)
      PROVE  RuleInv'
    <2>1. PICK new : new = [on |-> given.on, action |-> given.action, by |-> "operator",
                            blank |-> given.blank]
        OBVIOUS
    <2>2. given.on \in BOOLEAN /\ given.blank \in BOOLEAN
        BY DEF RuleLearningAssumption
    <2>3. given.action \in RuleActions
        BY <1>4 DEF AdminSaveCyberRule, ValidateCyberRule
    <2>4. new \in Rule /\ ~LearnedBlock(new)
        BY <2>1, <2>2, <2>3 DEF Rule, LearnedBlock
    <2> QED
        BY <1>1, <1>4, <2>1, <2>4 DEF AdminSaveCyberRule
<1>5. ASSUME NEW c \in Candidates, AdminDeleteCyberRule(c)
      PROVE  RuleInv'
    <2>1. PICK new : new = NoRule
        OBVIOUS
    <2>2. new \in Rule /\ ~LearnedBlock(new)
        BY <2>1 DEF NoRule, Rule, RuleActions, LearnedBlock
    <2> QED
        BY <1>1, <1>5, <2>1, <2>2 DEF AdminDeleteCyberRule
<1>6. ASSUME NEW p \in Policies, SaveAdaptiveRulePolicy(p)
      PROVE  RuleInv'
    <2>1. /\ settings' \in Policy
          /\ UNCHANGED <<policy, queue, cands, rules, snapshot, loadFailed, worker, reload>>
        BY <1>6 DEF SaveAdaptiveRulePolicy, RuleLearningAssumption
    <2> QED
        BY <2>1 DEF RuleInv, LearnTypeOK, Tables, Table, Learners, Promotes, Earned
<1> QED
    BY <1>2, <1>3, <1>4, <1>5, <1>6 DEF AdminStep

\* Every other step moves samples or the policy and leaves rules and candidates.
LEMMA SampleKeeps ==
    ASSUME RuleInv,
           \/ \E u \in Users \cup {NoUser} : ObserveUpstreamFailure(u)
           \/ \E w \in Workers :
                 \/ TakeSample(w) \/ ClassificationFails(w)
                 \/ \E answer \in Answers : NothingToLearn(w, answer)
           \/ Tick \/ ReloadAdaptivePolicy \/ UNCHANGED learnVars
    PROVE  RuleInv'
<1>1. ASSUME UNCHANGED <<cands, rules, snapshot, worker>>,
             reload' = reload \/ StartReload("ticker")
      PROVE  Learners' /\ Tables'
    <2>1. Table(rules)'
        BY <1>1, SameCandidates DEF RuleInv, Tables
    <2>2. Tables' /\ DOMAIN reload' = Actors
        BY <1>1, <2>1, StartedTables DEF Actors
    <2> QED
        BY <1>1, <2>2, WorkersStop DEF RuleInv, Learners
<1>2. ASSUME DOMAIN worker' = Workers,
             \A v \in Workers : \/ worker'[v] = worker[v]
                               \/ /\ worker'[v].pc \in {"idle", "classify"}
                                  /\ worker'[v].user \in Users \cup {NoUser},
             UNCHANGED <<cands, rules, snapshot, reload>>
      PROVE  /\ Learners' /\ Tables'
             /\ \A v \in Workers : worker'[v].pc \in {"idle", "classify", "promote", "reload"}
    <2>1. Tables'
        BY <1>2, SameCandidates DEF RuleInv, Tables
    <2>2. \A v \in Workers : worker'[v].pc \in {"idle", "classify", "promote", "reload"}
        BY <1>2 DEF RuleInv, LearnTypeOK
    <2>3. Learners'
        BY <1>2, WorkersStop DEF RuleInv, Learners
    <2> QED
        BY <2>1, <2>2, <2>3
<1>3. Idle.pc = "idle" /\ Idle.user = NoUser
    BY DEF Idle
<1>4. ASSUME NEW u \in Users \cup {NoUser}, ObserveUpstreamFailure(u)
      PROVE  RuleInv'
    <2>1. /\ queue' = IF Len(queue) < QueueSize THEN Append(queue, u) ELSE queue
          /\ UNCHANGED <<settings, policy, cands, rules, snapshot, loadFailed, worker, reload>>
        BY <1>4 DEF ObserveUpstreamFailure
    <2>2. queue' \in Seq(Users \cup {NoUser}) /\ Len(queue') <= QueueSize
        BY <2>1 DEF RuleInv, LearnTypeOK, RuleLearningAssumption
    <2> QED
        BY <1>1, <2>1, <2>2 DEF RuleInv, LearnTypeOK
<1>5. ASSUME NEW w \in Workers, TakeSample(w)
      PROVE  RuleInv'
    <2>1. /\ queue # <<>> /\ queue' = Tail(queue)
          /\ UNCHANGED <<settings, policy, cands, rules, snapshot, loadFailed, reload>>
        BY <1>5 DEF TakeSample
    <2>2. /\ queue' \in Seq(Users \cup {NoUser}) /\ Len(queue') <= QueueSize
          /\ Head(queue) \in Users \cup {NoUser}
        BY <2>1 DEF RuleInv, LearnTypeOK, RuleLearningAssumption
    <2>3. PICK k : k = [Idle EXCEPT !.pc = "classify", !.user = Head(queue)]
        OBVIOUS
    <2>4. k.pc = "classify" /\ k.user = Head(queue)
        BY <2>3 DEF Idle
    <2>5. worker' = worker \/ worker' = [worker EXCEPT ![w] = k]
        BY <1>5, <2>3 DEF TakeSample
    <2>6. DOMAIN worker' = Workers
          /\ \A v \in Workers : worker'[v] = worker[v] \/ worker'[v] = k
        BY <2>5 DEF RuleInv, Learners
    <2>7. /\ Learners' /\ Tables'
          /\ \A v \in Workers : worker'[v].pc \in {"idle", "classify", "promote", "reload"}
        BY <1>2, <2>1, <2>2, <2>4, <2>6
    <2> QED
        BY <2>1, <2>2, <2>7 DEF RuleInv, LearnTypeOK
<1>6. ASSUME NEW w \in Workers,
             \/ ClassificationFails(w)
             \/ \E answer \in Answers : NothingToLearn(w, answer)
      PROVE  RuleInv'
    <2>1. /\ worker' = [worker EXCEPT ![w] = Idle]
          /\ UNCHANGED <<settings, policy, queue, cands, rules, snapshot, loadFailed, reload>>
        BY <1>6 DEF ClassificationFails, NothingToLearn
    <2>2. DOMAIN worker' = Workers
          /\ \A v \in Workers : worker'[v] = worker[v] \/ worker'[v] = Idle
        BY <2>1 DEF RuleInv, Learners
    <2>3. /\ Learners' /\ Tables'
          /\ \A v \in Workers : worker'[v].pc \in {"idle", "classify", "promote", "reload"}
        BY <1>2, <1>3, <2>1, <2>2
    <2> QED
        BY <2>1, <2>3 DEF RuleInv, LearnTypeOK
<1>7. CASE Tick
    <2>1. /\ StartReload("ticker")
          /\ UNCHANGED <<settings, policy, queue, cands, rules, snapshot, loadFailed, worker>>
        BY <1>7 DEF Tick
    <2> QED
        BY <1>1, <2>1 DEF RuleInv, LearnTypeOK
<1>8. CASE ReloadAdaptivePolicy
    <2>1. /\ reload' = [reload EXCEPT !["ticker"] = NotReloading]
          /\ policy' = Normalized(settings) \/ policy' = policy
          /\ UNCHANGED <<settings, queue, cands, rules, snapshot, loadFailed, worker>>
        BY <1>8 DEF ReloadAdaptivePolicy
    <2>2. Normalized(settings) \in Policy
        BY DEF Normalized, Policy, RuleInv, LearnTypeOK
    <2>3. /\ DOMAIN reload' = Actors
          /\ \A b \in Actors : reload'[b].read = reload[b].read
                                     \/ reload'[b].read = NotReloading.read
        BY <2>1 DEF RuleInv, Learners
    <2>4. \A b \in Actors : Table(reload'[b].read)
        BY <2>3, EmptyTable DEF RuleInv, Tables
    <2>5. Tables'
        BY <2>1, <2>4, SameCandidates DEF RuleInv, Tables
    <2>6. Learners'
        BY <2>1, <2>3, WorkersStop DEF RuleInv, Learners
    <2> QED
        BY <2>1, <2>2, <2>5, <2>6 DEF RuleInv, LearnTypeOK
<1>9. CASE UNCHANGED learnVars
    <2>1. UNCHANGED <<settings, policy, queue, cands, rules, snapshot, loadFailed, worker, reload>>
        BY <1>9 DEF learnVars
    <2> QED
        BY <1>1, <2>1 DEF RuleInv, LearnTypeOK
<1> QED
    BY <1>4, <1>5, <1>6, <1>7, <1>8, <1>9

\* Every step of the learner, the ticker and the administrators.
LEMMA RuleStep == RuleInv /\ [LearnNext]_learnVars => RuleInv'
<1> SUFFICES ASSUME RuleInv, [LearnNext]_learnVars PROVE RuleInv'
    OBVIOUS
<1>1. ASSUME NEW w \in Workers, WorkerStep(w)
      PROVE  RuleInv'
    BY <1>1, SampleKeeps, UpsertKeeps, PromoteKeeps DEF WorkerStep
<1> QED
    BY <1>1, ReloadStepKeeps, AdminKeeps, SampleKeeps DEF LearnNext

\* The rules, the snapshot and every table being loaded are earned in every state.
LEMMA RuleInvariance == LearnSpec => []RuleInv
<1>1. LearnInit => RuleInv
    BY RuleInit
<1>2. RuleInv /\ [LearnNext]_learnVars => RuleInv'
    BY RuleStep
<1> QED
    BY <1>1, <1>2, PTL DEF LearnSpec

\* processAdaptiveFailure and PromoteCyberRuleCandidate: for any number of workers,
\* users and samples, a learned rule that blocks, in the table or in the snapshot
\* that requests are matched against, has a candidate with the evidence, the users
\* and the confidence of the floor.
THEOREM LearnedBlocksAreEarned == LearnSpec => []HardBlockIsEarned
<1>1. RuleInv => HardBlockIsEarned
    <2> SUFFICES ASSUME RuleInv PROVE HardBlockIsEarned
        OBVIOUS
    <2>1. \A c \in Candidates :
              /\ LearnedBlock(rules[c]) => Earned(c)
              /\ c \in DOMAIN snapshot /\ LearnedBlock(snapshot[c]) => Earned(c)
        BY DEF RuleInv, LearnTypeOK, Tables, Table
    <2>2. LearnTypeOK
        BY DEF RuleInv
    <2> QED
        BY <2>1, <2>2 DEF HardBlockIsEarned, LearnedBlock, Earned
<1> QED
    BY <1>1, RuleInvariance, PTL

\* SetCyberRuleCandidateStatus: a rejected candidate is promoted only by a worker
\* whose transaction returned before the rejection.
THEOREM RejectionsHold == LearnSpec => RejectionHolds
<1> DEFINE Overruled(c) == \E w \in Workers : /\ worker[w].pc = "promote"
                                              /\ worker[w].cand = c
                                              /\ worker[w].seen # "rejected"
           Held == \A c \in Candidates :
                       /\ cands[c].status = "rejected"
                       /\ cands'[c].status = "promoted"
                       => Overruled(c)
<1>1. RuleInv /\ [LearnNext]_learnVars => [Held]_learnVars
    <2> SUFFICES ASSUME RuleInv, LearnNext, NEW c \in Candidates,
                        cands[c].status = "rejected", cands'[c].status = "promoted"
                 PROVE  Overruled(c)
        OBVIOUS
    <2>1. ASSUME NEW d \in Candidates, NEW row,
                 cands' = [cands EXCEPT ![d] = row] \/ cands' = cands
          PROVE  c = d /\ row.status = "promoted"
        BY <2>1 DEF RuleInv, LearnTypeOK
    <2>2. ASSUME UNCHANGED cands PROVE FALSE
        BY <2>2
    <2>3. ASSUME NEW w \in Workers, PromoteCyberRuleCandidate(w)
          PROVE  Overruled(c)
        <3>1. worker[w].pc = "promote" /\ worker[w].seen # "rejected"
            BY <2>3 DEF PromoteCyberRuleCandidate, RuleInv, Learners, Promotes
        <3>2. cands' = [cands EXCEPT ![worker[w].cand].status = "promoted"]
            BY <2>2, <2>3 DEF PromoteCyberRuleCandidate
        <3>3. worker[w].cand = c
            BY <3>2 DEF RuleInv, LearnTypeOK
        <3> QED
            BY <3>1, <3>3
    <2>4. ASSUME NEW w \in Workers, NEW answer \in Answers,
                 UpsertCyberRuleCandidate(w, answer)
          PROVE  FALSE
        <3>1. PICK d : d = Fingerprint(answer)
            OBVIOUS
        <3>2. PICK row : row = Upserted(cands[d], answer.band, worker[w].user)
            OBVIOUS
        <3>3. d \in Candidates /\ cands' = [cands EXCEPT ![d] = row]
            BY <2>4, <3>1, <3>2 DEF UpsertCyberRuleCandidate, Candidates
        <3>4. d = c /\ row.status = "promoted"
            BY <2>1, <3>3
        <3> QED
            BY <3>2, <3>4 DEF Upserted
    <2>5. ASSUME NEW d \in Candidates, NEW s \in {"shadow", "rejected"},
                 SetCyberRuleCandidateStatus(d, s)
          PROVE  FALSE
        BY <2>5 DEF SetCyberRuleCandidateStatus, RuleInv, LearnTypeOK, Row
    <2>6. ASSUME NEW d \in Candidates, NEW a \in {"review", "block"},
                 PromoteCyberRuleCandidateManual(d, a)
          PROVE  FALSE
        BY <2>6 DEF PromoteCyberRuleCandidateManual, RuleInv, LearnTypeOK, Row
    <2>7. AdminStep => UNCHANGED cands
              \/ (\E d \in Candidates, s \in {"shadow", "rejected"} :
                      SetCyberRuleCandidateStatus(d, s))
              \/ (\E d \in Candidates, a \in {"review", "block"} :
                      PromoteCyberRuleCandidateManual(d, a))
        BY DEF AdminStep, AdminSaveCyberRule, AdminDeleteCyberRule,
               SaveAdaptiveRulePolicy
    <2>8. ASSUME NEW w \in Workers, WorkerStep(w)
          PROVE  UNCHANGED cands \/ PromoteCyberRuleCandidate(w)
                 \/ \E answer \in Answers : UpsertCyberRuleCandidate(w, answer)
        BY <2>8 DEF WorkerStep, TakeSample, ClassificationFails,
                    NothingToLearn
    <2>9. ASSUME NEW a \in Actors, ReloadStep(a)
          PROVE  UNCHANGED cands
        BY <2>9 DEF ReloadStep, ReadRules, StoreRules, StoreFlag
    <2>10. ASSUME \/ \E u \in Users \cup {NoUser} : ObserveUpstreamFailure(u)
                  \/ Tick \/ ReloadAdaptivePolicy
           PROVE  UNCHANGED cands
        BY <2>10 DEF ObserveUpstreamFailure, Tick, ReloadAdaptivePolicy
    <2> QED
        BY <2>2, <2>3, <2>4, <2>5, <2>6, <2>7, <2>8, <2>9, <2>10 DEF LearnNext
<1>2. LearnSpec => [][LearnNext]_learnVars
    BY PTL DEF LearnSpec
<1> QED
    BY <1>1, <1>2, RuleInvariance, PTL DEF RejectionHolds
=============================================================================
