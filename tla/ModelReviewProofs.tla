------------------------- MODULE ModelReviewProofs -------------------------
(***************************************************************************)
(* BlockIsProved, PanelIsHeard and BudgetsSuffice of ModelReview for any   *)
(* requests, chunks, panels and slots, and whatever the models answer; and *)
(* that no call goes round in circles.                                     *)
(***************************************************************************)
EXTENDS ModelReview, FiniteSetTheorems, TLAPS

Members == 0 .. MaxPanel

Proved(o) ==
    /\ o.offered = 1
    /\ o.policy.decision = "block"
    /\ o.policy.evidence = "harm"
    /\ o.policy.code \in {"governed", "proved"}

Running(k) == k.pc \in {"slot", "http", "repair", "ask"}

\* The m verifiers were asked, and all answered.
AllAnswered(k, m) ==
    Len(k.votes) = m /\ \A i \in DOMAIN k.votes : k.votes[i] # "failed"

\* How far a call can be when m verifiers are asked: a verifier is asked only while
\* one is left, an answer to repair is an answer to the first try, and a result is
\* there only when the call is done.
Placed(k, m) ==
    /\ Len(k.votes) <= m
    /\ ~k.verifying => k.votes = <<>>
    /\ Running(k) /\ k.verifying => Len(k.votes) < m
    /\ k.pc = "ask" => k.verifying /\ ~k.repair
    /\ k.pc = "repair" => ~k.repair
    /\ k.pc # "done" => k.result = NoResult
    /\ k.result.decision = "block" => \E o \in k.result.grounds : Proved(o)
    /\ k.result.decision = "clean" => AllAnswered(k, m)
    /\ k.result.decision = "doubt" /\ k.verifying =>
          AllAnswered(k, m) \/ Last(k.votes) = "block"

\* The HTTP calls that a call may still make: two for the primary model and two for
\* each verifier, less what the one under way has used.
HTTPNeed(k, m) ==
    IF Running(k)
    THEN (IF k.verifying THEN 2 * (m - Len(k.votes)) ELSE 2 + 2 * m)
         - (IF k.repair THEN 1 ELSE 0) - (IF k.pc \in {"http", "repair"} THEN 1 ELSE 0)
    ELSE 0

\* The reviews that it may still ask for: a repair of the primary's verdict, and two
\* for each verifier.
ReviewNeed(k, m) ==
    IF Running(k)
    THEN (IF k.verifying THEN 2 * (m - Len(k.votes)) - (IF k.pc = "ask" THEN 0 ELSE 1)
          ELSE 1 + 2 * m)
         - (IF k.repair THEN 1 ELSE 0)
    ELSE 0

MaxNeed == 2 + 2 * MaxPanel

\* One unit for each of these calls and reviews.
HTTPUnits(r) ==
    {u \in CallsOf(r) \X (1 .. MaxNeed) : u[2] <= HTTPNeed(call[u[1]], panel[r])}
ReviewUnits(r) ==
    {u \in CallsOf(r) \X (1 .. MaxNeed) : u[2] <= ReviewNeed(call[u[1]], panel[r])}

CallsArePlaced == \A c \in Calls : Placed(call[c], PanelOf(c))

\* What a request has reserved and not used covers what its calls may need.
Reserved ==
    \A r \in Requests :
        /\ budget[r].httpCalls + Cardinality(HTTPUnits(r)) <= budget[r].http
        /\ budget[r].reviewCalls + Cardinality(ReviewUnits(r)) <= budget[r].review

SlotsAreCounted == slots = Cardinality({c \in Calls : call[c].pc = "http"})

IInv == TypeOK /\ CallsArePlaced /\ SlotsAreCounted /\ Reserved

USE ModelReviewAssumption

-----------------------------------------------------------------------------
(* One call. *)

Votes == {"clean", "doubt", "scoped", "failed", "block"}

\* What a step of a call may not do: leave its place, or need more than before.
Follows(k2, k, m) ==
    /\ k2 \in CallStates /\ Placed(k2, m)
    /\ HTTPNeed(k2, m) <= HTTPNeed(k, m) /\ ReviewNeed(k2, m) <= ReviewNeed(k, m)

\* The needs of a call are numbers within what is reserved for it.
LEMMA NeedsAreBounded ==
    ASSUME NEW k \in CallStates, NEW m \in Members, Placed(k, m)
    PROVE  /\ HTTPNeed(k, m) \in 0 .. MaxNeed
           /\ ReviewNeed(k, m) \in 0 .. (MaxNeed - 1)
           /\ k.pc = "slot" => HTTPNeed(k, m) >= 1
           /\ k.pc \in {"repair", "ask"} => ReviewNeed(k, m) >= 1
<1>1. /\ Len(k.votes) \in Nat /\ m \in Nat /\ MaxPanel \in Nat /\ m <= MaxPanel
      /\ k.verifying \in BOOLEAN /\ k.repair \in BOOLEAN
    BY DEF CallStates, Members
<1>2. /\ Len(k.votes) <= m
      /\ Running(k) /\ k.verifying => Len(k.votes) < m
      /\ k.pc = "ask" => k.verifying /\ ~k.repair
      /\ k.pc = "repair" => ~k.repair
    BY DEF Placed
<1>3. CASE ~Running(k)
    BY <1>1, <1>3 DEF HTTPNeed, ReviewNeed, MaxNeed, Running
<1>4. CASE Running(k) /\ k.verifying
    BY <1>1, <1>2, <1>4 DEF HTTPNeed, ReviewNeed, MaxNeed, Running
<1>5. CASE Running(k) /\ ~k.verifying
    BY <1>1, <1>2, <1>5 DEF HTTPNeed, ReviewNeed, MaxNeed, Running
<1> QED
    BY <1>1, <1>3, <1>4, <1>5

\* A call that ends with a result that has its grounds needs nothing more.
LEMMA EndFollows ==
    ASSUME NEW k \in CallStates, NEW m \in Members, Placed(k, m), NEW v \in Results,
           v.decision = "block" => \E o \in v.grounds : Proved(o),
           v.decision = "clean" => AllAnswered(k, m), v.decision = "doubt" => ~k.verifying
    PROVE  Follows(Ends(k, v), k, m) /\ Ends(k, v).pc = "done"
<1> DEFINE k2 == Ends(k, v)
<1>1. /\ k2 \in CallStates /\ k2.pc = "done" /\ k2.result = v
      /\ k2.votes = k.votes /\ k2.verifying = k.verifying
    BY DEF Ends, CallStates
<1> HIDE DEF k2
<1>2. Placed(k2, m)
    BY <1>1 DEF Placed, Running, AllAnswered
<1>3. HTTPNeed(k2, m) = 0 /\ ReviewNeed(k2, m) = 0
    BY <1>1 DEF HTTPNeed, ReviewNeed, Running
<1>4. HTTPNeed(k, m) \in Nat /\ ReviewNeed(k, m) \in Nat
    <2>1. MaxNeed \in Nat
        BY DEF MaxNeed
    <2> QED
        BY <2>1, NeedsAreBounded
<1> QED
    BY <1>1, <1>2, <1>3, <1>4 DEF Follows, k2

\* The results of a call are of their type.
LEMMA ResultTypes ==
    /\ \A class : Fails(class) \in Results /\ Fails(class).decision = "error"
    /\ \A d \in {"clean", "doubt"} : Decides(d) \in Results /\ Decides(d).decision = d
    /\ \A o \in Outcomes : /\ Blocks(o) \in Results /\ Blocks(o).decision = "block"
                           /\ Blocks(o).grounds = {o}
<1>1. ASSUME NEW class PROVE Remedy(class) \in {"split", "stop", "again"}
    BY DEF Remedy
<1> QED
    BY <1>1 DEF Fails, Decides, Blocks, NoResult, Results

\* A verifier that is being asked has votes before it, and its vote is the next.
LEMMA VoteCounts ==
    ASSUME NEW k \in CallStates, NEW m \in Members, Placed(k, m),
           k.pc \in {"slot", "http", "repair"}, k.verifying, NEW v \in Votes
    PROVE  /\ Len(k.votes) \in Nat /\ m \in Nat /\ Len(k.votes) < m
           /\ k.result = NoResult /\ k.verifying = TRUE
           /\ Voted(k, v) \in CallStates /\ Len(Voted(k, v).votes) = Len(k.votes) + 1
           /\ Last(Voted(k, v).votes) = v /\ Voted(k, v).verifying = TRUE
           /\ Voted(k, v).pc = k.pc /\ Voted(k, v).repair = k.repair
           /\ Voted(k, v).result = NoResult
<1> DEFINE kv == Voted(k, v)
           n  == Len(k.votes)
<1>1. /\ n \in Nat /\ m \in Nat /\ n < m /\ k.result = NoResult
      /\ k.verifying = TRUE /\ k.repair \in BOOLEAN
    BY DEF CallStates, Members, Placed, Running
<1>2. k.votes \in Seq(Votes)
    BY DEF CallStates, Votes
<1>3. /\ Append(k.votes, v) \in Seq(Votes) /\ Len(Append(k.votes, v)) = n + 1
      /\ Append(k.votes, v)[n + 1] = v
    BY <1>2
<1>4. /\ kv.votes = Append(k.votes, v) /\ kv.verifying = TRUE
      /\ kv.pc = k.pc /\ kv.repair = k.repair /\ kv.result = NoResult
    BY <1>1 DEF CallStates, Voted
<1>5. kv \in CallStates
    BY <1>3 DEF CallStates, Votes, Voted
<1>6. Last(kv.votes) = v
    BY <1>3, <1>4 DEF Last
<1> HIDE DEF kv
<1>7. Len(kv.votes) = n + 1
    BY <1>3, <1>4
<1> QED
    BY <1>1, <1>4, <1>5, <1>6, <1>7 DEF kv

\* After a vote that is no denial, the next verifier is asked, if one is left, and
\* an allow stands only on votes that all succeeded.
LEMMA VoteFollows ==
    ASSUME NEW k \in CallStates, NEW m \in Members, Placed(k, m),
           k.pc \in {"slot", "http", "repair"}, k.verifying, NEW v \in Votes, NEW class
    PROVE  LET k2 == AfterVote(Voted(k, v), m, class)
           IN  /\ Follows(k2, k, m) /\ k2.pc \in {"ask", "done"}
               /\ ~k.repair => ReviewNeed(k2, m) < ReviewNeed(k, m)
<1> DEFINE kv == Voted(k, v)
           n  == Len(k.votes)
<1>1. /\ n \in Nat /\ m \in Nat /\ n < m /\ k.result = NoResult
      /\ k.verifying = TRUE /\ k.repair \in BOOLEAN
    BY VoteCounts DEF CallStates
<1>2. /\ kv \in CallStates /\ Len(kv.votes) = n + 1 /\ kv.verifying = TRUE
      /\ kv.pc = k.pc /\ kv.repair = k.repair /\ kv.result = NoResult
    BY VoteCounts
<1> HIDE DEF kv, n
<1>3. /\ HTTPNeed(k, m) >= 2 * (m - (n + 1)) /\ ReviewNeed(k, m) >= 2 * (m - (n + 1))
      /\ ~k.repair => ReviewNeed(k, m) > 2 * (m - (n + 1)) /\ ReviewNeed(k, m) > 0
    <2>1. /\ HTTPNeed(k, m) = 2 * (m - n) - (IF k.repair THEN 1 ELSE 0)
                              - (IF k.pc \in {"http", "repair"} THEN 1 ELSE 0)
          /\ ReviewNeed(k, m) = 2 * (m - n) - 1 - (IF k.repair THEN 1 ELSE 0)
        BY DEF HTTPNeed, ReviewNeed, Running, n
    <2> QED
        BY <1>1, <2>1
<1>4. CASE n + 1 < m
    <2> DEFINE ka == [kv EXCEPT !.pc = "ask", !.repair = FALSE]
    <2>1. AfterVote(kv, m, class) = ka
        BY <1>2, <1>4 DEF AfterVote
    <2>2. /\ ka \in CallStates /\ ka.pc = "ask" /\ ka.verifying = TRUE /\ ka.repair = FALSE
          /\ Len(ka.votes) = n + 1 /\ ka.result = NoResult
        BY <1>2 DEF CallStates
    <2> HIDE DEF ka
    <2>3. Placed(ka, m)
        <3>1. Len(ka.votes) < m /\ Len(ka.votes) <= m
            BY <1>1, <1>4, <2>2
        <3>2. ka.result = NoResult /\ NoResult.decision = "none"
            BY <2>2 DEF NoResult
        <3> QED
            BY <2>2, <3>1, <3>2 DEF Placed, Running
    <2>4. HTTPNeed(ka, m) = 2 * (m - (n + 1)) /\ ReviewNeed(ka, m) = 2 * (m - (n + 1))
        BY <1>1, <2>2 DEF HTTPNeed, ReviewNeed, Running
    <2>5. HTTPNeed(k, m) \in Nat /\ ReviewNeed(k, m) \in Nat
        <3>1. MaxNeed \in Nat
            BY DEF MaxNeed
        <3> QED
            BY <3>1, NeedsAreBounded
    <2> QED
        BY <1>1, <1>3, <2>1, <2>2, <2>3, <2>4, <2>5 DEF Follows, kv
<1>5. CASE ~(n + 1 < m)
    <2> DEFINE v2 == IF \E i \in DOMAIN kv.votes : kv.votes[i] = "failed"
                     THEN Fails(IF m > 1 THEN "fusion_incomplete" ELSE class)
                     ELSE Decides(IF Last(kv.votes) = "clean" THEN "clean" ELSE "doubt")
               ke == Ends(kv, v2)
    <2>1. AfterVote(kv, m, class) = ke
        BY <1>2, <1>5 DEF AfterVote
    <2>2. v2 \in Results
        BY ResultTypes
    <2>3. v2.decision # "block"
        BY ResultTypes
    <2>4. v2.decision \in {"clean", "doubt"} =>
              \A i \in DOMAIN kv.votes : kv.votes[i] # "failed"
        BY ResultTypes
    <2> HIDE DEF v2
    <2>5. /\ ke \in CallStates /\ ke.pc = "done" /\ ke.result = v2
          /\ ke.votes = kv.votes /\ ke.verifying = TRUE
        BY <1>2, <2>2 DEF Ends, CallStates
    <2> HIDE DEF ke
    <2>6. Placed(ke, m)
        <3>1. Len(kv.votes) = m
            BY <1>1, <1>2, <1>5
        <3>2. v2.decision \in {"clean", "doubt"} => AllAnswered(ke, m)
            BY <2>4, <2>5, <3>1 DEF AllAnswered
        <3> QED
            BY <1>1, <2>3, <2>5, <3>1, <3>2 DEF Placed, Running
    <2>7. HTTPNeed(ke, m) = 0 /\ ReviewNeed(ke, m) = 0
        BY <2>5 DEF HTTPNeed, ReviewNeed, Running
    <2>8. HTTPNeed(k, m) \in Nat /\ ReviewNeed(k, m) \in Nat
        <3>1. MaxNeed \in Nat
            BY DEF MaxNeed
        <3> QED
            BY <3>1, NeedsAreBounded
    <2> QED
        BY <1>3, <2>1, <2>5, <2>6, <2>7, <2>8 DEF Follows, kv
<1> QED
    BY <1>1, <1>2, <1>4, <1>5 DEF kv

\* A call that could not be made, or whose verdict no repair could ground, fails
\* with it, or is the failed vote of a verifier.
LEMMA FailureFollows ==
    ASSUME NEW k \in CallStates, NEW m \in Members, Placed(k, m),
           k.pc \in {"slot", "http", "repair"}, NEW class
    PROVE  LET k2 == GroundedFails(k, m, class)
           IN  /\ Follows(k2, k, m) /\ k2.pc \in {"ask", "done"}
               /\ ~k.repair => ReviewNeed(k2, m) < ReviewNeed(k, m)
<1>1. CASE k.verifying
    BY <1>1, VoteFollows DEF GroundedFails, Votes
<1>2. CASE ~k.verifying
    <2>1. Fails(class) \in Results /\ Fails(class).decision = "error"
        BY ResultTypes
    <2> DEFINE k2 == Ends(k, Fails(class))
    <2>2. Follows(k2, k, m) /\ k2.pc = "done"
        BY <2>1, EndFollows
    <2> HIDE DEF k2
    <2>3. ~k.repair => ReviewNeed(k2, m) < ReviewNeed(k, m)
        <3>1. ReviewNeed(k2, m) = 0 /\ m \in Nat
            BY <2>2 DEF ReviewNeed, Running, Members
        <3>2. ~k.repair => ReviewNeed(k, m) = 1 + 2 * m
            BY <1>2, <3>1 DEF ReviewNeed, Running
        <3> QED
            BY <3>1, <3>2
    <2> QED
        BY <1>2, <2>2, <2>3 DEF GroundedFails, k2
<1> QED
    BY <1>1, <1>2

\* A verdict that the decoder accepted, with a quote that is in the request.
Answered(o) == o.class = ""

\* A block that the gates of v28 and v29 let through rests on a sole policy.
LEMMA DenialIsProved ==
    ASSUME NEW o \in Outcomes, Answered(o)
    PROVE  /\ Denial(o) \in Results /\ Denial(o).decision \in {"block", "doubt"}
           /\ Denial(o).decision = "block" => \E x \in Denial(o).grounds : Proved(x)
<1>1. CASE EvidenceGateV28(o.policy) /\ ConfirmedCyberBlockV29(o.policy)
    <2>1. Proved(o)
        BY <1>1, SolePolicy DEF ConfirmedCyberBlockV29, Proved, Answered
    <2>2. Blocks(o) \in Results /\ Blocks(o).decision = "block" /\ Blocks(o).grounds = {o}
        BY ResultTypes
    <2> QED
        BY <1>1, <2>1, <2>2 DEF Denial
<1>2. CASE ~(EvidenceGateV28(o.policy) /\ ConfirmedCyberBlockV29(o.policy))
    <2>1. Decides("doubt") \in Results /\ Decides("doubt").decision = "doubt"
        BY ResultTypes
    <2> QED
        BY <1>2, <2>1 DEF Denial
<1> QED
    BY <1>1, <1>2

\* The denial of a verifier is the last vote of its panel.
LEMMA VerifierDenialFollows ==
    ASSUME NEW k \in CallStates, NEW m \in Members, Placed(k, m), k.pc = "http",
           k.verifying, NEW o \in Outcomes, Answered(o)
    PROVE  LET k2 == VerifierDenies(k, o)
           IN  Follows(k2, k, m) /\ k2.pc = "done"
<1> DEFINE kv == Voted(k, "block")
           v  == Denial(o)
           k2 == Ends(kv, v)
<1>1. "block" \in Votes /\ k.pc \in {"slot", "http", "repair"}
    BY DEF Votes
<1>2. /\ kv \in CallStates /\ Len(kv.votes) <= m /\ Last(kv.votes) = "block"
      /\ kv.verifying = TRUE
    <2>1. /\ Len(k.votes) \in Nat /\ m \in Nat /\ Len(k.votes) < m
          /\ Len(kv.votes) = Len(k.votes) + 1
        BY <1>1, VoteCounts
    <2>2. kv \in CallStates /\ Last(kv.votes) = "block" /\ kv.verifying = TRUE
        BY <1>1, VoteCounts
    <2> QED
        BY <2>1, <2>2
<1>3. /\ v \in Results /\ v.decision \in {"block", "doubt"}
      /\ v.decision = "block" => \E x \in v.grounds : Proved(x)
    BY DenialIsProved
<1> HIDE DEF kv, v
<1>4. /\ k2 \in CallStates /\ k2.pc = "done" /\ k2.result = v
      /\ k2.votes = kv.votes /\ k2.verifying = TRUE
    BY <1>2, <1>3 DEF Ends, CallStates
<1> HIDE DEF k2
<1>5. Placed(k2, m)
    BY <1>2, <1>3, <1>4 DEF Placed, Running
<1>6. HTTPNeed(k2, m) = 0 /\ ReviewNeed(k2, m) = 0
    BY <1>4 DEF HTTPNeed, ReviewNeed, Running
<1>7. HTTPNeed(k, m) \in Nat /\ ReviewNeed(k, m) \in Nat
    <2>1. MaxNeed \in Nat
        BY DEF MaxNeed
    <2> QED
        BY <2>1, NeedsAreBounded
<1>8. VerifierDenies(k, o) = k2
    BY DEF VerifierDenies, k2, kv, v
<1> QED
    BY <1>4, <1>5, <1>6, <1>7, <1>8 DEF Follows

\* What the primary model or a verifier said, once its quote is in the request.
LEMMA VerdictFollows ==
    ASSUME NEW k \in CallStates, NEW m \in Members, Placed(k, m), k.pc = "http",
           NEW o \in Outcomes, Answered(o)
    PROVE  LET k2 == Grounded(k, m, o)
           IN  Follows(k2, k, m) /\ k2.pc \in {"ask", "done"}
<1> DEFINE p    == o.policy
           vote == VerifierVote(p, k.repair)
           denies == p.decision = "block" \/ (p.decision = "review" /\ ~k.repair)
<1> HIDE DEF p, vote, denies
<1>0. m \in Nat /\ NoResult.decision = "none"
    BY DEF Members, NoResult
<1>1. CASE k.verifying /\ vote = "block"
    <2>1. Grounded(k, m, o) = VerifierDenies(k, o)
        BY <1>1 DEF Grounded, p, vote
    <2>2. Follows(VerifierDenies(k, o), k, m) /\ VerifierDenies(k, o).pc = "done"
        BY <1>1, VerifierDenialFollows
    <2> QED
        BY <2>1, <2>2
<1>2. CASE k.verifying /\ vote # "block"
    <2>1. PICK class :
              Grounded(k, m, o) = AfterVote(Voted(k, vote), m, class)
        BY <1>2 DEF Grounded, p, vote
    <2>2. vote \in Votes
        BY <1>2 DEF VerifierVote, CyberDenyVerdict, Votes, vote
    <2>3. k.verifying /\ k.pc \in {"slot", "http", "repair"}
        BY <1>2
    <2> DEFINE k2 == AfterVote(Voted(k, vote), m, class)
    <2>4. Follows(k2, k, m) /\ k2.pc \in {"ask", "done"}
        BY <2>2, <2>3, VoteFollows
    <2> QED
        BY <2>1, <2>4
<1>3. CASE ~k.verifying /\ denies
    <2>1. Grounded(k, m, o) = Ends(k, Denial(o))
        BY <1>3 DEF Grounded, p, denies
    <2>2. /\ Denial(o) \in Results /\ Denial(o).decision \in {"block", "doubt"}
          /\ Denial(o).decision = "block" => \E x \in Denial(o).grounds : Proved(x)
        BY DenialIsProved
    <2>3. Follows(Ends(k, Denial(o)), k, m) /\ Ends(k, Denial(o)).pc = "done"
        BY <1>3, <2>2, EndFollows
    <2> QED
        BY <2>1, <2>3
<1>4. CASE ~k.verifying /\ ~denies /\ m = 0
    <2> DEFINE d == CyberDenyVerdict(p)
    <2>1. Grounded(k, m, o) = Ends(k, Decides(d))
        BY <1>4 DEF Grounded, p, denies
    <2>2. d \in {"clean", "doubt"}
        BY <1>4 DEF CyberDenyVerdict, denies
    <2>3. Decides(d) \in Results /\ Decides(d).decision \in {"clean", "doubt"}
        BY <2>2, ResultTypes
    <2>4. k.votes = <<>>
        BY <1>4 DEF Placed
    <2>5. AllAnswered(k, m)
        <3>1. m = 0
            BY <1>4
        <3> QED
            BY <2>4, <3>1 DEF AllAnswered
    <2> QED
        BY <1>4, <2>1, <2>3, <2>5, EndFollows
<1>5. CASE ~k.verifying /\ ~denies /\ m # 0
    <2> DEFINE ka == [k EXCEPT !.pc = "ask", !.verifying = TRUE, !.repair = FALSE]
    <2>1. Grounded(k, m, o) = ka
        BY <1>5 DEF Grounded, p, denies
    <2>2. k.votes = <<>> /\ k.result = NoResult
        BY <1>5 DEF Placed
    <2>3. /\ ka \in CallStates /\ ka.pc = "ask" /\ ka.verifying = TRUE /\ ka.repair = FALSE
          /\ ka.votes = <<>> /\ ka.result = NoResult
        BY <2>2 DEF CallStates
    <2> HIDE DEF ka
    <2>4. m \in Nat \ {0} /\ ~k.verifying
        BY <1>0, <1>5
    <2>5. Placed(ka, m)
        BY <1>0, <2>3, <2>4 DEF Placed, Running
    <2>6. /\ HTTPNeed(ka, m) = 2 * m /\ ReviewNeed(ka, m) = 2 * m
        BY <2>3, <2>4 DEF HTTPNeed, ReviewNeed, Running
    <2>7. /\ HTTPNeed(k, m) = 2 + 2 * m - (IF k.repair THEN 1 ELSE 0) - 1
          /\ ReviewNeed(k, m) = 1 + 2 * m - (IF k.repair THEN 1 ELSE 0)
        BY <2>4 DEF HTTPNeed, ReviewNeed, Running
    <2> QED
        BY <2>1, <2>3, <2>4, <2>5, <2>6, <2>7 DEF Follows
<1> QED
    BY <1>0, <1>1, <1>2, <1>3, <1>4, <1>5

\* Whatever a raw call returned: one repair at most, and no call of its own.
LEMMA AnswerFollows ==
    ASSUME NEW k \in CallStates, NEW m \in Members, Placed(k, m), k.pc = "http",
           NEW o \in Outcomes
    PROVE  LET k2 == AfterRawCall(k, m, o)
           IN  Follows(k2, k, m) /\ k2.pc \in {"repair", "ask", "done"}
<1> DEFINE unproved == o.class = "invalid_evidence"
                       \/ (o.class = "" /\ NonOperationalAuditEvidence(o.policy))
<1> HIDE DEF unproved
<1>1. CASE Answered(o) /\ ~unproved
    <2>1. AfterRawCall(k, m, o) = Grounded(k, m, o)
        BY <1>1 DEF AfterRawCall, Answered, unproved
    <2> QED
        BY <1>1, <2>1, VerdictFollows
<1>2. CASE ~(Answered(o) /\ ~unproved) /\ (k.repair \/ ~unproved)
    <2>1. PICK class : AfterRawCall(k, m, o) = GroundedFails(k, m, class)
        BY <1>2 DEF AfterRawCall, Answered, unproved
    <2>2. k.pc \in {"slot", "http", "repair"}
        OBVIOUS
    <2> QED
        BY <2>1, <2>2, FailureFollows
<1>3. CASE ~k.repair /\ unproved
    <2> DEFINE kr == [k EXCEPT !.pc = "repair"]
    <2>1. AfterRawCall(k, m, o) = kr
        BY <1>3 DEF AfterRawCall, unproved
    <2>2. /\ kr \in CallStates /\ kr.pc = "repair" /\ kr.verifying = k.verifying
          /\ kr.repair = k.repair /\ kr.votes = k.votes /\ kr.result = k.result
        BY DEF CallStates
    <2> HIDE DEF kr
    <2>3. Placed(kr, m)
        BY <1>3, <2>2 DEF Placed, Running, AllAnswered
    <2>4. HTTPNeed(kr, m) = HTTPNeed(k, m) /\ ReviewNeed(kr, m) = ReviewNeed(k, m)
        BY <2>2 DEF HTTPNeed, ReviewNeed, Running
    <2>5. HTTPNeed(k, m) \in Int /\ ReviewNeed(k, m) \in Int
        BY NeedsAreBounded
    <2> QED
        BY <2>1, <2>2, <2>3, <2>4, <2>5 DEF Follows
<1> QED
    BY <1>1, <1>2, <1>3

-----------------------------------------------------------------------------
(* Counting. *)

\* What is counted of a request is finite, and counts for less in a smaller set.
LEMMA UnitsCount ==
    ASSUME NEW U \in SUBSET (Calls \X (1 .. MaxNeed)), NEW V \in SUBSET U
    PROVE  /\ IsFiniteSet(U) /\ Cardinality(U) \in Nat
           /\ Cardinality(V) \in Nat /\ Cardinality(V) <= Cardinality(U)
           /\ \A u \in U \ V : Cardinality(V) + 1 <= Cardinality(U)
<1>1. IsFiniteSet(1 .. MaxNeed)
    <2>1. MaxNeed \in Int
        BY DEF MaxNeed
    <2> QED
        BY <2>1, FS_Interval
<1>2. IsFiniteSet(Calls \X (1 .. MaxNeed))
    BY <1>1, FS_Product
<1>3. IsFiniteSet(U) /\ IsFiniteSet(V)
    <2>1. IsFiniteSet(U)
        BY <1>2, FS_Subset
    <2> QED
        BY <2>1, FS_Subset
<1>4. Cardinality(U) \in Nat /\ Cardinality(V) \in Nat
    BY <1>3, FS_CardinalityType
<1>5. Cardinality(V) <= Cardinality(U)
    BY <1>3, FS_Subset
<1>6. ASSUME NEW u \in U \ V PROVE Cardinality(V) + 1 <= Cardinality(U)
    <2>1. IsFiniteSet(U \ {u}) /\ Cardinality(U \ {u}) = Cardinality(U) - 1
        BY <1>3, FS_RemoveElement
    <2>2. V \subseteq U \ {u}
        BY <1>6
    <2>3. Cardinality(V) <= Cardinality(U \ {u})
        BY <2>1, <2>2, FS_Subset
    <2> QED
        BY <1>4, <2>1, <2>3
<1> QED
    BY <1>3, <1>4, <1>5, <1>6

\* The units of a request are units.
LEMMA UnitTypes ==
    \A r \in Requests : /\ HTTPUnits(r) \in SUBSET (Calls \X (1 .. MaxNeed))
                        /\ ReviewUnits(r) \in SUBSET (Calls \X (1 .. MaxNeed))
BY DEF HTTPUnits, ReviewUnits, CallsOf

\* A step of one call: all stay in their places, what is needed does not grow, and
\* where the call needs less its request does.
LEMMA CallMoves ==
    ASSUME TypeOK, CallsArePlaced, NEW c \in Calls, NEW k2,
           Becomes(c, k2), UNCHANGED panel, Follows(k2, call[c], PanelOf(c))
    PROVE  /\ call' \in [Calls -> CallStates] /\ CallsArePlaced'
           /\ \A r \in Requests :
                 /\ Cardinality(HTTPUnits(r)) \in Nat /\ Cardinality(ReviewUnits(r)) \in Nat
                 /\ Cardinality(HTTPUnits(r)') \in Nat
                 /\ Cardinality(ReviewUnits(r)') \in Nat
                 /\ Cardinality(HTTPUnits(r)') <= Cardinality(HTTPUnits(r))
                 /\ Cardinality(ReviewUnits(r)') <= Cardinality(ReviewUnits(r))
           /\ HTTPNeed(k2, PanelOf(c)) < HTTPNeed(call[c], PanelOf(c)) =>
                 Cardinality(HTTPUnits(RequestOf[c])') + 1
                     <= Cardinality(HTTPUnits(RequestOf[c]))
           /\ ReviewNeed(k2, PanelOf(c)) < ReviewNeed(call[c], PanelOf(c)) =>
                 Cardinality(ReviewUnits(RequestOf[c])') + 1
                     <= Cardinality(ReviewUnits(RequestOf[c]))
<1> DEFINE m == PanelOf(c)
           R == RequestOf[c]
<1>1. /\ call[c] \in CallStates /\ m \in Members /\ Placed(call[c], m) /\ R \in Requests
      /\ m = panel[R] /\ MaxNeed \in Nat
    BY DEF TypeOK, Members, CallsArePlaced, PanelOf, MaxNeed
<1>2. /\ call' \in [Calls -> CallStates] /\ call'[c] = k2
      /\ \A d \in Calls \ {c} : call'[d] = call[d]
    BY DEF TypeOK, Becomes, Follows
<1>3. CallsArePlaced'
    BY <1>2 DEF CallsArePlaced, PanelOf, Follows
<1>4. /\ HTTPNeed(call[c], m) \in 0 .. MaxNeed /\ ReviewNeed(call[c], m) \in 0 .. MaxNeed
      /\ HTTPNeed(k2, m) \in 0 .. MaxNeed /\ ReviewNeed(k2, m) \in 0 .. MaxNeed
    <2>1. ReviewNeed(call[c], m) \in 0 .. (MaxNeed - 1) /\ HTTPNeed(call[c], m) \in 0 .. MaxNeed
        BY <1>1, NeedsAreBounded
    <2>2. ReviewNeed(k2, m) \in 0 .. (MaxNeed - 1) /\ HTTPNeed(k2, m) \in 0 .. MaxNeed
        BY <1>1, NeedsAreBounded DEF Follows
    <2> QED
        BY <1>1, <2>1, <2>2
<1>5. HTTPNeed(k2, m) <= HTTPNeed(call[c], m) /\ ReviewNeed(k2, m) <= ReviewNeed(call[c], m)
    BY DEF Follows
<1> HIDE DEF m, R
<1>6. ASSUME NEW r \in Requests
      PROVE  HTTPUnits(r)' \in SUBSET HTTPUnits(r) /\ ReviewUnits(r)' \in SUBSET ReviewUnits(r)
    <2>1. ASSUME NEW u \in HTTPUnits(r)' PROVE u \in HTTPUnits(r)
        <3>1. /\ u \in CallsOf(r) \X (1 .. MaxNeed) /\ u[1] \in Calls /\ u[2] \in Nat
              /\ RequestOf[u[1]] = r /\ u[2] <= HTTPNeed(call'[u[1]], panel[r])
            BY <1>1 DEF HTTPUnits, CallsOf
        <3>2. CASE u[1] = c
            <4>1. r = R /\ u[2] <= HTTPNeed(k2, m)
                BY <1>1, <1>2, <3>1, <3>2 DEF R
            <4>2. u[2] <= HTTPNeed(call[c], m)
                BY <1>4, <1>5, <3>1, <4>1
            <4> QED
                BY <1>1, <3>1, <3>2, <4>1, <4>2 DEF HTTPUnits
        <3>3. CASE u[1] # c
            BY <1>2, <3>1, <3>3 DEF HTTPUnits
        <3> QED
            BY <3>2, <3>3
    <2>2. ASSUME NEW u \in ReviewUnits(r)' PROVE u \in ReviewUnits(r)
        <3>1. /\ u \in CallsOf(r) \X (1 .. MaxNeed) /\ u[1] \in Calls /\ u[2] \in Nat
              /\ RequestOf[u[1]] = r /\ u[2] <= ReviewNeed(call'[u[1]], panel[r])
            BY <1>1 DEF ReviewUnits, CallsOf
        <3>2. CASE u[1] = c
            <4>1. r = R /\ u[2] <= ReviewNeed(k2, m)
                BY <1>1, <1>2, <3>1, <3>2 DEF R
            <4>2. u[2] <= ReviewNeed(call[c], m)
                BY <1>4, <1>5, <3>1, <4>1
            <4> QED
                BY <1>1, <3>1, <3>2, <4>1, <4>2 DEF ReviewUnits
        <3>3. CASE u[1] # c
            BY <1>2, <3>1, <3>3 DEF ReviewUnits
        <3> QED
            BY <3>2, <3>3
    <2> QED
        BY <2>1, <2>2
<1>7. ASSUME HTTPNeed(k2, m) < HTTPNeed(call[c], m)
      PROVE  <<c, HTTPNeed(call[c], m)>> \in HTTPUnits(R) \ HTTPUnits(R)'
    <2> DEFINE n == HTTPNeed(call[c], m)
    <2>1. n \in 1 .. MaxNeed /\ c \in CallsOf(R)
        BY <1>1, <1>4, <1>7 DEF CallsOf, R
    <2>2. <<c, n>> \in HTTPUnits(R)
        BY <1>1, <2>1 DEF HTTPUnits
    <2>3. ~(n <= HTTPNeed(k2, m))
        BY <1>4, <1>7
    <2>4. <<c, n>> \notin HTTPUnits(R)'
        BY <1>1, <1>2, <2>3 DEF HTTPUnits
    <2> QED
        BY <2>2, <2>4
<1>8. ASSUME ReviewNeed(k2, m) < ReviewNeed(call[c], m)
      PROVE  <<c, ReviewNeed(call[c], m)>> \in ReviewUnits(R) \ ReviewUnits(R)'
    <2> DEFINE n == ReviewNeed(call[c], m)
    <2>1. n \in 1 .. MaxNeed /\ c \in CallsOf(R)
        BY <1>1, <1>4, <1>8 DEF CallsOf, R
    <2>2. <<c, n>> \in ReviewUnits(R)
        BY <1>1, <2>1 DEF ReviewUnits
    <2>3. ~(n <= ReviewNeed(k2, m))
        BY <1>4, <1>8
    <2>4. <<c, n>> \notin ReviewUnits(R)'
        BY <1>1, <1>2, <2>3 DEF ReviewUnits
    <2> QED
        BY <2>2, <2>4
<1>9. \A r \in Requests :
          /\ Cardinality(HTTPUnits(r)) \in Nat /\ Cardinality(ReviewUnits(r)) \in Nat
          /\ Cardinality(HTTPUnits(r)') \in Nat /\ Cardinality(ReviewUnits(r)') \in Nat
          /\ Cardinality(HTTPUnits(r)') <= Cardinality(HTTPUnits(r))
          /\ Cardinality(ReviewUnits(r)') <= Cardinality(ReviewUnits(r))
          /\ \A u \in HTTPUnits(r) \ HTTPUnits(r)' :
                Cardinality(HTTPUnits(r)') + 1 <= Cardinality(HTTPUnits(r))
          /\ \A u \in ReviewUnits(r) \ ReviewUnits(r)' :
                Cardinality(ReviewUnits(r)') + 1 <= Cardinality(ReviewUnits(r))
    BY <1>6, UnitTypes, UnitsCount
<1>10. /\ HTTPNeed(k2, m) < HTTPNeed(call[c], m) =>
             Cardinality(HTTPUnits(R)') + 1 <= Cardinality(HTTPUnits(R))
       /\ ReviewNeed(k2, m) < ReviewNeed(call[c], m) =>
             Cardinality(ReviewUnits(R)') + 1 <= Cardinality(ReviewUnits(R))
    BY <1>1, <1>7, <1>8, <1>9
<1> QED
    BY <1>2, <1>3, <1>9, <1>10 DEF m, R

InHTTP == {c \in Calls : call[c].pc = "http"}

\* A call that goes out takes a slot, and gives it back when it has its answer.
LEMMA SlotsMove ==
    ASSUME TypeOK, NEW c \in Calls, NEW k2, Becomes(c, k2)
    PROVE  /\ Cardinality(InHTTP) \in Nat
           /\ call[c].pc # "http" /\ k2.pc # "http" => InHTTP' = InHTTP
           /\ call[c].pc # "http" /\ k2.pc = "http" =>
                 Cardinality(InHTTP') = Cardinality(InHTTP) + 1
           /\ call[c].pc = "http" /\ k2.pc # "http" =>
                 /\ Cardinality(InHTTP') = Cardinality(InHTTP) - 1
                 /\ Cardinality(InHTTP) >= 1
<1>1. call'[c] = k2 /\ \A d \in Calls \ {c} : call'[d] = call[d]
    BY DEF TypeOK, Becomes
<1>2. IsFiniteSet(InHTTP) /\ Cardinality(InHTTP) \in Nat
    <2>1. InHTTP \in SUBSET Calls
        BY DEF InHTTP
    <2>2. IsFiniteSet(InHTTP)
        BY <2>1, FS_Subset
    <2> QED
        BY <2>2, FS_CardinalityType
<1>3. call[c].pc # "http" /\ k2.pc # "http" => InHTTP' = InHTTP
    BY <1>1 DEF InHTTP
<1>4. ASSUME call[c].pc # "http", k2.pc = "http"
      PROVE  Cardinality(InHTTP') = Cardinality(InHTTP) + 1
    <2>1. InHTTP' = InHTTP \cup {c} /\ c \notin InHTTP
        BY <1>1, <1>4 DEF InHTTP
    <2> QED
        BY <1>2, <2>1, FS_AddElement
<1>5. ASSUME call[c].pc = "http", k2.pc # "http"
      PROVE  Cardinality(InHTTP') = Cardinality(InHTTP) - 1 /\ Cardinality(InHTTP) >= 1
    <2>1. InHTTP' = InHTTP \ {c} /\ c \in InHTTP
        BY <1>1, <1>5 DEF InHTTP
    <2>2. Cardinality(InHTTP') = Cardinality(InHTTP) - 1
        BY <1>2, <2>1, FS_RemoveElement
    <2>3. Cardinality(InHTTP') \in Nat
        <3>1. IsFiniteSet(InHTTP \ {c})
            BY <1>2, FS_RemoveElement
        <3> QED
            BY <2>1, <3>1, FS_CardinalityType
    <2> QED
        BY <1>2, <2>2, <2>3
<1> QED
    BY <1>2, <1>3, <1>4, <1>5

-----------------------------------------------------------------------------
(* The invariant. *)

Budgets == [plans : Nat, http : Nat, httpCalls : Nat, review : Nat, reviewCalls : Nat]

\* No call of any request has begun, and nothing is reserved.
LEMMA IInvInit == Init => IInv
<1> SUFFICES ASSUME Init PROVE IInv
    OBVIOUS
<1>1. NoResult \in Results
    BY DEF NoResult, Results
<1>2. /\ Idle \in CallStates /\ Idle.pc = "idle" /\ Idle.votes = <<>>
      /\ Idle.verifying = FALSE /\ Idle.repair = FALSE /\ Idle.result = NoResult
    <2>1. <<>> \in Seq(Votes)
        OBVIOUS
    <2> QED
        BY <1>1, <2>1 DEF Idle, CallStates, Votes
<1>3. \A c \in Calls : call[c] = Idle
    BY DEF Init
<1>4. slots \in 0 .. Slots /\ call \in [Calls -> CallStates]
    BY <1>2 DEF Init
<1>5. TypeOK
    <2>1. budget \in [Requests -> Budgets]
        BY DEF Init, Budgets
    <2> QED
        BY <1>4, <2>1 DEF Init, TypeOK, Budgets
<1>6. CallsArePlaced
    <2> SUFFICES ASSUME NEW c \in Calls PROVE Placed(call[c], PanelOf(c))
        BY DEF CallsArePlaced
    <2>1. PanelOf(c) \in Members
        BY <1>5 DEF TypeOK, PanelOf, Members
    <2>2. PanelOf(c) \in Nat /\ NoResult.decision = "none"
        BY <2>1 DEF Members, NoResult
    <2> QED
        BY <1>2, <1>3, <2>2 DEF Placed, Running
<1>7. SlotsAreCounted
    <2>1. {c \in Calls : call[c].pc = "http"} = {}
        BY <1>2, <1>3
    <2> QED
        BY <2>1, FS_EmptySet DEF SlotsAreCounted, Init
<1>8. Reserved
    <2> SUFFICES ASSUME NEW r \in Requests
                 PROVE  /\ budget[r].httpCalls + Cardinality(HTTPUnits(r)) <= budget[r].http
                        /\ budget[r].reviewCalls + Cardinality(ReviewUnits(r))
                              <= budget[r].review
        BY DEF Reserved
    <2>1. \A m : HTTPNeed(Idle, m) = 0 /\ ReviewNeed(Idle, m) = 0
        BY <1>2 DEF HTTPNeed, ReviewNeed, Running
    <2>2. HTTPUnits(r) = {} /\ ReviewUnits(r) = {}
        BY <1>3, <2>1 DEF HTTPUnits, ReviewUnits, CallsOf, MaxNeed
    <2>3. /\ budget[r].httpCalls = 0 /\ budget[r].http = 0
          /\ budget[r].reviewCalls = 0 /\ budget[r].review = 0
        BY DEF Init
    <2> QED
        BY <2>2, <2>3, FS_EmptySet
<1> QED
    BY <1>5, <1>6, <1>7, <1>8 DEF IInv

\* A step that moves one call, keeps the budgets and leaves the slots exact.
LEMMA MoveKeeps ==
    ASSUME IInv, NEW c \in Calls, NEW k2, Becomes(c, k2), UNCHANGED <<budget, panel>>,
           Follows(k2, call[c], PanelOf(c)),
           slots' = Cardinality(InHTTP'), slots' \in 0 .. Slots,
           ctx' \in [Requests -> {"live", "plan", "canceled"}],
           plan' \in [Requests -> {"none", "single", "chunked"}]
    PROVE  IInv'
<1>1. TypeOK /\ CallsArePlaced /\ Reserved
    BY DEF IInv
<1>2. call' \in [Calls -> CallStates] /\ CallsArePlaced'
    BY <1>1, CallMoves
<1>3. TypeOK'
    BY <1>1, <1>2 DEF TypeOK
<1>4. SlotsAreCounted'
    BY DEF SlotsAreCounted, InHTTP
<1>5. ASSUME NEW r \in Requests
      PROVE  /\ budget'[r].httpCalls + Cardinality(HTTPUnits(r)') <= budget'[r].http
             /\ budget'[r].reviewCalls + Cardinality(ReviewUnits(r)') <= budget'[r].review
    <2>1. /\ Cardinality(HTTPUnits(r)) \in Nat /\ Cardinality(ReviewUnits(r)) \in Nat
          /\ Cardinality(HTTPUnits(r)') \in Nat /\ Cardinality(ReviewUnits(r)') \in Nat
          /\ Cardinality(HTTPUnits(r)') <= Cardinality(HTTPUnits(r))
          /\ Cardinality(ReviewUnits(r)') <= Cardinality(ReviewUnits(r))
        BY <1>1, CallMoves
    <2>2. budget[r] \in Budgets
        BY <1>1 DEF TypeOK, Budgets
    <2>3. /\ budget[r].httpCalls + Cardinality(HTTPUnits(r)) <= budget[r].http
          /\ budget[r].reviewCalls + Cardinality(ReviewUnits(r)) <= budget[r].review
        BY <1>1 DEF Reserved
    <2> QED
        BY <2>1, <2>2, <2>3 DEF Budgets
<1> QED
    BY <1>2, <1>3, <1>4, <1>5 DEF IInv, Reserved

\* A call that needs an HTTP call or a review finds one left in what was reserved.
LEMMA CallsAreCovered ==
    ASSUME IInv, NEW c \in Calls
    PROVE  LET b == budget[RequestOf[c]]
           IN  /\ call[c].pc = "slot" => b.httpCalls < b.http
               /\ call[c].pc \in {"repair", "ask"} => b.reviewCalls < b.review
<1> DEFINE k == call[c]
           m == PanelOf(c)
           R == RequestOf[c]
<1>1. /\ TypeOK /\ k \in CallStates /\ m \in Members /\ Placed(k, m) /\ R \in Requests
      /\ budget[R] \in Budgets /\ m = panel[R] /\ MaxNeed \in Nat /\ c \in CallsOf(R)
      /\ budget[R].httpCalls + Cardinality(HTTPUnits(R)) <= budget[R].http
      /\ budget[R].reviewCalls + Cardinality(ReviewUnits(R)) <= budget[R].review
    BY DEF IInv, TypeOK, CallsArePlaced, PanelOf, Members, Budgets, MaxNeed, Reserved, CallsOf
<1>2. /\ HTTPNeed(k, m) \in 0 .. MaxNeed /\ ReviewNeed(k, m) \in 0 .. MaxNeed
      /\ k.pc = "slot" => HTTPNeed(k, m) >= 1
      /\ k.pc \in {"repair", "ask"} => ReviewNeed(k, m) >= 1
    BY <1>1, NeedsAreBounded
<1> HIDE DEF k, m, R
<1>3. ASSUME NEW U \in SUBSET (Calls \X (1 .. MaxNeed)), NEW u \in U
      PROVE  Cardinality(U) \in Nat /\ Cardinality(U) >= 1
    <2>1. Cardinality({}) + 1 <= Cardinality(U) /\ Cardinality(U) \in Nat
        BY <1>3, UnitsCount
    <2> QED
        BY <2>1, FS_EmptySet
<1>4. /\ HTTPUnits(R) \in SUBSET (Calls \X (1 .. MaxNeed))
      /\ ReviewUnits(R) \in SUBSET (Calls \X (1 .. MaxNeed))
    BY <1>1, UnitTypes
<1>5. ASSUME k.pc = "slot" PROVE budget[R].httpCalls < budget[R].http
    <2>1. <<c, 1>> \in HTTPUnits(R)
        <3>1. 1 \in 1 .. MaxNeed /\ 1 <= HTTPNeed(k, m)
            BY <1>1, <1>2, <1>5
        <3> QED
            BY <1>1, <3>1 DEF HTTPUnits, k
    <2> QED
        BY <1>1, <1>3, <1>4, <2>1 DEF Budgets
<1>6. ASSUME k.pc \in {"repair", "ask"} PROVE budget[R].reviewCalls < budget[R].review
    <2>1. <<c, 1>> \in ReviewUnits(R)
        <3>1. 1 \in 1 .. MaxNeed /\ 1 <= ReviewNeed(k, m)
            BY <1>1, <1>2, <1>6
        <3> QED
            BY <1>1, <3>1 DEF ReviewUnits, k
    <2> QED
        BY <1>1, <1>3, <1>4, <2>1 DEF Budgets
<1> QED
    BY <1>5, <1>6 DEF k, R

\* A call that has a slot to wait for has one in reach of its budget: the HTTP call
\* goes out, and spends one of the units it needed.
LEMMA AcquireKeeps ==
    ASSUME IInv, NEW c \in Calls, AcquireAuditModelSlot(c)
    PROVE  IInv'
<1> DEFINE k == call[c]
           m == PanelOf(c)
           R == RequestOf[c]
           k2 == [k EXCEPT !.pc = "http"]
<1>1. /\ TypeOK /\ CallsArePlaced /\ Reserved /\ SlotsAreCounted
      /\ k \in CallStates /\ m \in Members /\ Placed(k, m) /\ R \in Requests
      /\ budget[R] \in Budgets
    BY DEF IInv, TypeOK, CallsArePlaced, PanelOf, Members, Budgets
<1>2. k.pc = "slot" /\ slots < Slots /\ UNCHANGED <<ctx, plan, panel>>
    BY DEF AcquireAuditModelSlot
<1>3. /\ k2 \in CallStates /\ k2.pc = "http" /\ k2.verifying = k.verifying
      /\ k2.repair = k.repair /\ k2.votes = k.votes /\ k2.result = k.result
    BY <1>1 DEF CallStates
<1> HIDE DEF k2
<1>4. Placed(k2, m)
    BY <1>1, <1>2, <1>3 DEF Placed, Running, AllAnswered
<1>5. HTTPNeed(k2, m) = HTTPNeed(k, m) - 1 /\ ReviewNeed(k2, m) = ReviewNeed(k, m)
    <2>1. Len(k.votes) \in Nat /\ m \in Nat /\ k.repair \in BOOLEAN
        BY <1>1 DEF CallStates, Members
    <2> QED
        BY <1>2, <1>3, <2>1 DEF HTTPNeed, ReviewNeed, Running
<1>6. HTTPNeed(k, m) \in Nat /\ HTTPNeed(k, m) >= 1 /\ ReviewNeed(k, m) \in Nat
    <2>1. MaxNeed \in Nat
        BY DEF MaxNeed
    <2> QED
        BY <1>1, <1>2, <2>1, NeedsAreBounded
<1>7. Follows(k2, k, m)
    BY <1>3, <1>4, <1>5, <1>6 DEF Follows
<1>8. budget[R].httpCalls < budget[R].http
    BY <1>2, CallsAreCovered
<1>9. /\ Becomes(c, k2) /\ slots' = slots + 1
      /\ budget' = [budget EXCEPT ![R].httpCalls = @ + 1]
    BY <1>1, <1>8 DEF AcquireAuditModelSlot, Budgets, k2
<1>10. call' \in [Calls -> CallStates] /\ CallsArePlaced'
    BY <1>1, <1>2, <1>7, <1>9, CallMoves
<1>11. /\ budget' \in [Requests -> Budgets]
       /\ budget'[R].httpCalls = budget[R].httpCalls + 1 /\ budget'[R].http = budget[R].http
       /\ budget'[R].reviewCalls = budget[R].reviewCalls
       /\ budget'[R].review = budget[R].review
       /\ \A r \in Requests \ {R} : budget'[r] = budget[r]
    BY <1>1, <1>9 DEF Budgets, TypeOK
<1>12. ASSUME NEW r \in Requests
       PROVE  /\ budget'[r].httpCalls + Cardinality(HTTPUnits(r)') <= budget'[r].http
              /\ budget'[r].reviewCalls + Cardinality(ReviewUnits(r)') <= budget'[r].review
    <2>1. /\ Cardinality(HTTPUnits(r)) \in Nat /\ Cardinality(ReviewUnits(r)) \in Nat
          /\ Cardinality(HTTPUnits(r)') \in Nat /\ Cardinality(ReviewUnits(r)') \in Nat
          /\ Cardinality(HTTPUnits(r)') <= Cardinality(HTTPUnits(r))
          /\ Cardinality(ReviewUnits(r)') <= Cardinality(ReviewUnits(r))
        BY <1>1, <1>2, <1>7, <1>9, CallMoves
    <2>2. r = R => Cardinality(HTTPUnits(r)') + 1 <= Cardinality(HTTPUnits(r))
        <3>1. HTTPNeed(k2, m) < HTTPNeed(k, m)
            BY <1>5, <1>6
        <3> QED
            BY <1>1, <1>2, <1>7, <1>9, <3>1, CallMoves
    <2>3. /\ budget[r] \in Budgets
          /\ budget[r].httpCalls + Cardinality(HTTPUnits(r)) <= budget[r].http
          /\ budget[r].reviewCalls + Cardinality(ReviewUnits(r)) <= budget[r].review
        BY <1>1 DEF Reserved, TypeOK, Budgets
    <2>4. CASE r = R
        BY <1>11, <2>1, <2>2, <2>3, <2>4 DEF Budgets
    <2>5. CASE r # R
        BY <1>11, <2>1, <2>3, <2>5 DEF Budgets
    <2> QED
        BY <2>4, <2>5
<1>13. SlotsAreCounted' /\ slots' \in 0 .. Slots
    <2>1. Cardinality(InHTTP') = Cardinality(InHTTP) + 1
        BY <1>1, <1>2, <1>3, <1>9, SlotsMove
    <2>2. slots \in 0 .. Slots /\ slots = Cardinality(InHTTP)
        BY <1>1 DEF SlotsAreCounted, InHTTP, TypeOK
    <2> QED
        BY <1>2, <1>9, <2>1, <2>2 DEF SlotsAreCounted, InHTTP
<1>14. TypeOK'
    BY <1>1, <1>2, <1>10, <1>11, <1>13 DEF TypeOK, Budgets
<1> QED
    BY <1>10, <1>12, <1>13, <1>14 DEF IInv, Reserved

\* A review that is reserved is one of those that the call needed.
LEMMA ReviewKeeps ==
    ASSUME IInv, NEW c \in Calls, NEW k2, Becomes(c, k2), ReserveReview(c),
           UNCHANGED <<slots, ctx, plan, panel>>,
           Follows(k2, call[c], PanelOf(c)),
           ReviewNeed(k2, PanelOf(c)) < ReviewNeed(call[c], PanelOf(c)),
           call[c].pc # "http", k2.pc # "http"
    PROVE  IInv'
<1> DEFINE R == RequestOf[c]
<1>1. /\ TypeOK /\ CallsArePlaced /\ Reserved /\ SlotsAreCounted /\ R \in Requests
      /\ budget[R] \in Budgets
    BY DEF IInv, TypeOK, Budgets
<1>2. call' \in [Calls -> CallStates] /\ CallsArePlaced'
    BY <1>1, CallMoves
<1>3. /\ budget' \in [Requests -> Budgets]
      /\ budget'[R].reviewCalls = budget[R].reviewCalls + 1
      /\ budget'[R].review = budget[R].review
      /\ budget'[R].httpCalls = budget[R].httpCalls /\ budget'[R].http = budget[R].http
      /\ \A r \in Requests \ {R} : budget'[r] = budget[r]
    BY <1>1 DEF Budgets, TypeOK, ReserveReview
<1>4. ASSUME NEW r \in Requests
      PROVE  /\ budget'[r].httpCalls + Cardinality(HTTPUnits(r)') <= budget'[r].http
             /\ budget'[r].reviewCalls + Cardinality(ReviewUnits(r)') <= budget'[r].review
    <2>1. /\ Cardinality(HTTPUnits(r)) \in Nat /\ Cardinality(ReviewUnits(r)) \in Nat
          /\ Cardinality(HTTPUnits(r)') \in Nat /\ Cardinality(ReviewUnits(r)') \in Nat
          /\ Cardinality(HTTPUnits(r)') <= Cardinality(HTTPUnits(r))
          /\ Cardinality(ReviewUnits(r)') <= Cardinality(ReviewUnits(r))
        BY <1>1, CallMoves
    <2>2. r = R => Cardinality(ReviewUnits(r)') + 1 <= Cardinality(ReviewUnits(r))
        BY <1>1, CallMoves
    <2>3. /\ budget[r] \in Budgets
          /\ budget[r].httpCalls + Cardinality(HTTPUnits(r)) <= budget[r].http
          /\ budget[r].reviewCalls + Cardinality(ReviewUnits(r)) <= budget[r].review
        BY <1>1 DEF Reserved, TypeOK, Budgets
    <2>4. CASE r = R
        BY <1>3, <2>1, <2>2, <2>3, <2>4 DEF Budgets
    <2>5. CASE r # R
        BY <1>3, <2>1, <2>3, <2>5 DEF Budgets
    <2> QED
        BY <2>4, <2>5
<1>5. SlotsAreCounted'
    <2>1. InHTTP' = InHTTP
        BY <1>1, SlotsMove
    <2> QED
        BY <1>1, <2>1 DEF SlotsAreCounted, InHTTP
<1>6. TypeOK'
    BY <1>1, <1>2, <1>3 DEF TypeOK, Budgets
<1> QED
    BY <1>2, <1>4, <1>5, <1>6 DEF IInv, Reserved

\* The steps of a call keep the invariant: each has its units when it needs them.
LEMMA CallKeeps ==
    ASSUME IInv, NEW c \in Calls, CallStep(c)
    PROVE  IInv'
<1> DEFINE k == call[c]
           m == PanelOf(c)
           R == RequestOf[c]
<1>1. /\ TypeOK /\ CallsArePlaced /\ SlotsAreCounted
      /\ k \in CallStates /\ m \in Members /\ Placed(k, m)
      /\ slots \in 0 .. Slots /\ slots = Cardinality(InHTTP)
    BY DEF IInv, TypeOK, CallsArePlaced, PanelOf, Members, SlotsAreCounted, InHTTP
<1>2. /\ UNCHANGED ctx => ctx' \in [Requests -> {"live", "plan", "canceled"}]
      /\ UNCHANGED plan => plan' \in [Requests -> {"none", "single", "chunked"}]
    BY <1>1 DEF TypeOK
<1>3. CASE AcquireAuditModelSlot(c)
    BY <1>3, AcquireKeeps
<1>4. CASE SlotCanceled(c)
    <2> DEFINE k2 == GroundedFails(k, m, "canceled")
    <2>1. /\ k.pc = "slot" /\ Becomes(c, k2) /\ UNCHANGED <<slots, ctx, plan, budget, panel>>
        BY <1>4 DEF SlotCanceled
    <2>2. Follows(k2, k, m) /\ k2.pc \in {"ask", "done"}
        BY <1>1, <2>1, FailureFollows
    <2> HIDE DEF k2
    <2>3. slots' = Cardinality(InHTTP')
        BY <1>1, <2>1, <2>2, SlotsMove
    <2> QED
        BY <1>1, <1>2, <2>1, <2>2, <2>3, MoveKeeps
<1>5. ASSUME NEW response \in Responses, Respond(c, Outcome(response)) PROVE IInv'
    <2> DEFINE k2 == AfterRawCall(k, m, Outcome(response))
    <2>1. /\ k.pc = "http" /\ Becomes(c, k2) /\ slots' = slots - 1
          /\ UNCHANGED <<ctx, plan, budget, panel>>
        BY <1>5 DEF Respond
    <2>2. Outcome(response) \in Outcomes
        BY DEF Outcomes
    <2>3. Follows(k2, k, m) /\ k2.pc \in {"repair", "ask", "done"}
        BY <1>1, <2>1, <2>2, AnswerFollows
    <2> HIDE DEF k2
    <2>4. slots' = Cardinality(InHTTP') /\ slots' \in 0 .. Slots
        <3>1. Cardinality(InHTTP') = Cardinality(InHTTP) - 1 /\ Cardinality(InHTTP) >= 1
            BY <1>1, <2>1, <2>3, SlotsMove
        <3> QED
            BY <1>1, <2>1, <3>1
    <2> QED
        BY <1>1, <1>2, <2>1, <2>3, <2>4, MoveKeeps
<1>6. CASE Repair(c)
    <2>1. k.pc = "repair" /\ UNCHANGED <<slots, ctx, plan, panel>>
        BY <1>6 DEF Repair
    <2>2. ReviewLeft(c)
        BY <2>1, CallsAreCovered DEF ReviewLeft
    <2>3. ReserveReview(c) /\ ~k.repair
        BY <1>1, <1>6, <2>1, <2>2 DEF Repair, Placed
    <2>4. CASE ~Canceled(c)
        <3> DEFINE k2 == [k EXCEPT !.pc = "slot", !.repair = TRUE]
        <3>1. Becomes(c, k2)
            BY <1>6, <2>2, <2>4 DEF Repair
        <3>2. /\ k2 \in CallStates /\ k2.pc = "slot" /\ k2.verifying = k.verifying
              /\ k2.repair = TRUE /\ k2.votes = k.votes /\ k2.result = k.result
            BY <1>1 DEF CallStates
        <3> HIDE DEF k2
        <3>3. Placed(k2, m)
            BY <1>1, <2>1, <3>2 DEF Placed, Running, AllAnswered
        <3>4. HTTPNeed(k2, m) = HTTPNeed(k, m) /\ ReviewNeed(k2, m) = ReviewNeed(k, m) - 1
            <4>1. Len(k.votes) \in Nat /\ m \in Nat
                BY <1>1 DEF CallStates, Members
            <4>2. HTTPNeed(k2, m) = HTTPNeed(k, m)
                BY <2>1, <2>3, <3>2, <4>1 DEF HTTPNeed, Running
            <4>3. ReviewNeed(k2, m) = ReviewNeed(k, m) - 1
                BY <2>1, <2>3, <3>2, <4>1 DEF ReviewNeed, Running
            <4> QED
                BY <4>2, <4>3
        <3>5. HTTPNeed(k, m) \in Int /\ ReviewNeed(k, m) \in Int
            BY <1>1, NeedsAreBounded
        <3>6. Follows(k2, k, m) /\ ReviewNeed(k2, m) < ReviewNeed(k, m)
            BY <3>2, <3>3, <3>4, <3>5 DEF Follows
        <3> QED
            BY <2>1, <2>3, <3>1, <3>2, <3>6, ReviewKeeps
    <2>5. CASE Canceled(c)
        <3> DEFINE k2 == GroundedFails(k, m, "cyber_unresolved")
        <3>1. Becomes(c, k2)
            BY <1>6, <2>5 DEF Repair
        <3>2. /\ Follows(k2, k, m) /\ k2.pc \in {"ask", "done"}
              /\ ReviewNeed(k2, m) < ReviewNeed(k, m)
            BY <1>1, <2>1, <2>3, FailureFollows
        <3> HIDE DEF k2
        <3> QED
            BY <2>1, <2>3, <3>1, <3>2, ReviewKeeps
    <2> QED
        BY <2>4, <2>5
<1>7. CASE AskVerifier(c)
    <2> DEFINE k2 == [k EXCEPT !.pc = "slot"]
    <2>1. k.pc = "ask" /\ UNCHANGED <<slots, ctx, plan, panel>>
        BY <1>7 DEF AskVerifier
    <2>2. ReviewLeft(c)
        BY <2>1, CallsAreCovered DEF ReviewLeft
    <2>3. ReserveReview(c) /\ Becomes(c, k2)
        BY <1>7, <2>2 DEF AskVerifier
    <2>4. /\ k2 \in CallStates /\ k2.pc = "slot" /\ k2.verifying = k.verifying
          /\ k2.repair = k.repair /\ k2.votes = k.votes /\ k2.result = k.result
        BY <1>1 DEF CallStates
    <2> HIDE DEF k2
    <2>5. Placed(k2, m) /\ k.verifying /\ ~k.repair
        BY <1>1, <2>1, <2>4 DEF Placed, Running, AllAnswered
    <2>6. HTTPNeed(k2, m) = HTTPNeed(k, m) /\ ReviewNeed(k2, m) = ReviewNeed(k, m) - 1
        <3>1. Len(k.votes) \in Nat /\ m \in Nat
            BY <1>1 DEF CallStates, Members
        <3>2. HTTPNeed(k2, m) = HTTPNeed(k, m)
            BY <2>1, <2>4 DEF HTTPNeed, Running
        <3>3. ReviewNeed(k, m) = 2 * (m - Len(k.votes))
            BY <2>1, <2>5, <3>1 DEF ReviewNeed, Running
        <3> DEFINE n == Len(k.votes)
        <3>4. ReviewNeed(k2, m) = 2 * (m - n) - 1
            <4>1. k2.verifying = TRUE /\ k2.repair = FALSE /\ Len(k2.votes) = n
                BY <1>1, <2>4, <2>5 DEF CallStates
            <4>2. m \in Nat /\ n \in Nat
                BY <3>1
            <4> HIDE DEF m, n, k
            <4> QED
                BY <2>4, <4>1, <4>2 DEF ReviewNeed, Running
        <3> QED
            BY <3>1, <3>2, <3>3, <3>4
    <2>7. HTTPNeed(k, m) \in Int /\ ReviewNeed(k, m) \in Int
        BY <1>1, NeedsAreBounded
    <2>8. Follows(k2, k, m) /\ ReviewNeed(k2, m) < ReviewNeed(k, m)
        BY <2>4, <2>5, <2>6, <2>7 DEF Follows
    <2> QED
        BY <2>1, <2>3, <2>4, <2>8, ReviewKeeps
<1>8. CASE VerifierUnavailable(c)
    <2>1. PICK class : Becomes(c, Ends(k, Fails(class)))
        BY <1>8 DEF VerifierUnavailable
    <2> DEFINE k2 == Ends(k, Fails(class))
    <2>2. k.pc = "ask" /\ UNCHANGED <<slots, ctx, plan, budget, panel>>
        BY <1>8 DEF VerifierUnavailable
    <2>3. Fails(class) \in Results /\ Fails(class).decision = "error"
        BY ResultTypes
    <2>4. Follows(k2, k, m) /\ k2.pc = "done"
        BY <1>1, <2>3, EndFollows
    <2>5. Becomes(c, k2)
        BY <2>1
    <2> HIDE DEF k2
    <2>6. slots' = Cardinality(InHTTP')
        BY <1>1, <2>2, <2>4, <2>5, SlotsMove
    <2> QED
        BY <1>1, <1>2, <2>2, <2>4, <2>5, <2>6, MoveKeeps
<1> QED
    BY <1>3, <1>4, <1>5, <1>6, <1>7, <1>8 DEF CallStep

\* What configureChunkBudget reserves: two calls for the primary model and each of
\* at most MaxPanel verifiers, for every chunk of the plan.
LEMMA ReservesEnough ==
    ASSUME NEW b \in Budgets, NEW n \in Nat,
           b.httpCalls <= b.http, b.reviewCalls <= b.review
    PROVE  LET b2 == ConfigureChunkBudget(b, n)
           IN  /\ b2 \in Budgets
               /\ b2.httpCalls + n * MaxNeed <= b2.http
               /\ b2.reviewCalls + n * (MaxNeed - 1) <= b2.review
<1> DEFINE http == (IF CyberDenyHTTPBudget > b.http THEN CyberDenyHTTPBudget ELSE b.http)
                   + n * 2 * (1 + MaxPanel)
           review == (IF MaxAuditSemanticCalls > b.review THEN MaxAuditSemanticCalls
                      ELSE b.review) + n * (1 + 2 * MaxPanel)
           b2 == ConfigureChunkBudget(b, n)
<1>1. b2 = [plans |-> b.plans + 1, http |-> http, httpCalls |-> b.httpCalls,
            review |-> review, reviewCalls |-> b.reviewCalls]
    <2>1. b2 = [b EXCEPT !.plans = @ + 1, !.http = http, !.review = review]
        BY DEF ConfigureChunkBudget
    <2>2. b = [plans |-> b.plans, http |-> b.http, httpCalls |-> b.httpCalls,
               review |-> b.review, reviewCalls |-> b.reviewCalls]
        BY DEF Budgets
    <2> HIDE DEF b2, http, review
    <2> QED
        BY <2>1, <2>2
<1>2. CyberDenyHTTPBudget \in Nat /\ MaxAuditSemanticCalls \in Nat
    OBVIOUS
<1>3. MaxPanel \in {1, 2, 3}
    OBVIOUS
<1>4. /\ n * 2 * (1 + MaxPanel) = n * MaxNeed /\ n * (1 + 2 * MaxPanel) = n * (MaxNeed - 1)
      /\ n * MaxNeed \in Nat /\ n * (MaxNeed - 1) \in Nat
    <2>1. CASE MaxPanel = 1
        BY <2>1 DEF MaxNeed
    <2>2. CASE MaxPanel = 2
        BY <2>2 DEF MaxNeed
    <2>3. CASE MaxPanel = 3
        BY <2>3 DEF MaxNeed
    <2> QED
        BY <1>3, <2>1, <2>2, <2>3
<1>5. /\ http \in Nat /\ http >= b.http + n * MaxNeed
      /\ review \in Nat /\ review >= b.review + n * (MaxNeed - 1)
    <2>1. b.http \in Nat /\ b.review \in Nat
        BY DEF Budgets
    <2> QED
        BY <1>2, <1>4, <2>1
<1> HIDE DEF http, review, b2
<1>6. /\ b2 \in Budgets /\ b2.http = http /\ b2.review = review
      /\ b2.httpCalls = b.httpCalls /\ b2.reviewCalls = b.reviewCalls
    <2>1. http \in Nat /\ review \in Nat
        BY <1>5
    <2>2. b.plans + 1 \in Nat /\ b.httpCalls \in Nat /\ b.reviewCalls \in Nat
        BY DEF Budgets
    <2> QED
        BY <1>1, <2>1, <2>2 DEF Budgets
<1>7. /\ b.httpCalls \in Nat /\ b.http \in Nat /\ b.reviewCalls \in Nat /\ b.review \in Nat
    BY DEF Budgets
<1> QED
    BY <1>4, <1>5, <1>6, <1>7 DEF b2

\* A plan starts the calls it is for anew, and leaves the other requests alone.
LEMMA PlanStarts ==
    ASSUME NEW r \in Requests, StartPlan(r)
    PROVE  \E active \in SUBSET CallsOf(r) :
              /\ budget' = [budget EXCEPT ![r] = ConfigureChunkBudget(@, Cardinality(active))]
              /\ call' = [c \in Calls |-> CASE RequestOf[c] # r -> call[c]
                                           [] c \in active -> [Idle EXCEPT !.pc = "slot"]
                                           [] OTHER -> Idle]
<1> DEFINE split == plan[r] = "chunked" \/ "split" \in Retriable(r)
           active == IF split THEN CallsOf(r) ELSE {CHOOSE c \in CallsOf(r) : TRUE}
<1>1. /\ budget' = [budget EXCEPT ![r] = ConfigureChunkBudget(@, Cardinality(active))]
      /\ call' = [c \in Calls |-> CASE RequestOf[c] # r -> call[c]
                                   [] c \in active -> [Idle EXCEPT !.pc = "slot"]
                                   [] OTHER -> Idle]
    BY DEF StartPlan
<1>2. active \in SUBSET CallsOf(r)
    <2>1. \E c \in CallsOf(r) : TRUE
        BY DEF CallsOf
    <2> QED
        BY <2>1
<1> HIDE DEF active
<1> QED
    BY <1>1, <1>2

\* A plan begins when all calls of its request are over, and reserves for each
\* chunk what a call needs that begins.
LEMMA PlanKeeps ==
    ASSUME IInv, NEW r \in Requests, StartPlan(r)
    PROVE  IInv'
<1> DEFINE Fresh == [Idle EXCEPT !.pc = "slot"]
<1>1. /\ TypeOK /\ CallsArePlaced /\ Reserved /\ SlotsAreCounted /\ MaxNeed \in Nat
      /\ UNCHANGED <<slots, panel>>
    BY DEF IInv, MaxNeed, StartPlan
<1>2. PICK active \in SUBSET CallsOf(r) :
          /\ budget' = [budget EXCEPT ![r] = ConfigureChunkBudget(@, Cardinality(active))]
          /\ call' = [c \in Calls |-> CASE RequestOf[c] # r -> call[c]
                                       [] c \in active -> Fresh
                                       [] OTHER -> Idle]
    BY PlanStarts
<1>3. /\ plan' \in [Requests -> {"none", "single", "chunked"}]
      /\ ctx' \in [Requests -> {"live", "plan", "canceled"}]
    BY <1>1 DEF StartPlan, TypeOK
<1>4. /\ Fresh \in CallStates /\ Fresh.pc = "slot"
      /\ Idle \in CallStates /\ Idle.pc = "idle"
      /\ Fresh.votes = <<>> /\ Fresh.verifying = FALSE /\ Fresh.repair = FALSE
      /\ Fresh.result = NoResult
      /\ Idle.votes = <<>> /\ Idle.verifying = FALSE /\ Idle.repair = FALSE
      /\ Idle.result = NoResult
    <2>1. NoResult \in Results
        BY DEF NoResult, Results
    <2>2. <<>> \in Seq(Votes)
        OBVIOUS
    <2> QED
        BY <2>1, <2>2 DEF Idle, CallStates, Votes
<1> HIDE DEF Fresh
<1>5. ASSUME NEW c \in Calls
      PROVE  /\ RequestOf[c] # r => call'[c] = call[c]
             /\ c \in active => call'[c] = Fresh
             /\ RequestOf[c] = r /\ c \notin active => call'[c] = Idle
    BY <1>2 DEF CallsOf
<1>6. call' \in [Calls -> CallStates]
    <2>1. call' = [c \in Calls |-> call'[c]]
        BY <1>2
    <2>2. \A c \in Calls : call'[c] \in CallStates
        BY <1>1, <1>4, <1>5 DEF TypeOK
    <2> QED
        BY <2>1, <2>2
<1>7. CallsArePlaced'
    <2> SUFFICES ASSUME NEW c \in Calls PROVE Placed(call'[c], PanelOf(c))
        BY <1>1 DEF CallsArePlaced, PanelOf
    <2>1. PanelOf(c) \in Nat /\ NoResult.decision = "none"
        BY <1>1 DEF TypeOK, PanelOf, NoResult
    <2>2. Placed(Fresh, PanelOf(c)) /\ Placed(Idle, PanelOf(c))
        BY <1>4, <2>1 DEF Placed, Running
    <2> QED
        BY <1>1, <1>5, <2>2 DEF CallsArePlaced
<1>8. SlotsAreCounted'
    <2>1. \A c \in CallsOf(r) : call[c].pc # "http"
        BY DEF StartPlan
    <2>2. \A c \in Calls : call'[c].pc = "http" <=> call[c].pc = "http"
        BY <1>4, <1>5, <2>1 DEF CallsOf
    <2> QED
        BY <1>1, <2>2 DEF SlotsAreCounted
<1>9. /\ IsFiniteSet(active) /\ Cardinality(active) \in Nat
    <2>1. active \in SUBSET Calls
        BY DEF CallsOf
    <2>2. IsFiniteSet(active)
        BY <2>1, FS_Subset
    <2> QED
        BY <2>2, FS_CardinalityType
<1>10. ASSUME NEW q \in Requests
       PROVE  /\ budget[q] \in Budgets
              /\ Cardinality(HTTPUnits(q)) \in Nat /\ Cardinality(ReviewUnits(q)) \in Nat
              /\ budget[q].httpCalls + Cardinality(HTTPUnits(q)) <= budget[q].http
              /\ budget[q].reviewCalls + Cardinality(ReviewUnits(q)) <= budget[q].review
    BY <1>1, UnitTypes, UnitsCount DEF Reserved, TypeOK, Budgets
<1> DEFINE b2 == ConfigureChunkBudget(budget[r], Cardinality(active))
<1>11. /\ b2 \in Budgets
       /\ b2.httpCalls + Cardinality(active) * MaxNeed <= b2.http
       /\ b2.reviewCalls + Cardinality(active) * (MaxNeed - 1) <= b2.review
    <2>1. /\ budget[r].httpCalls <= budget[r].http
          /\ budget[r].reviewCalls <= budget[r].review
        BY <1>10 DEF Budgets
    <2> QED
        BY <1>9, <1>10, <2>1, ReservesEnough
<1>12. budget'[r] = b2 /\ \A q \in Requests \ {r} : budget'[q] = budget[q]
    BY <1>1, <1>2 DEF TypeOK
<1>13. budget' \in [Requests -> Budgets]
    BY <1>1, <1>2, <1>11 DEF TypeOK, Budgets
<1> HIDE DEF b2
<1>14. ASSUME NEW n \in Nat
       PROVE  LET U == active \X (1 .. n)
              IN  IsFiniteSet(U) /\ Cardinality(U) = Cardinality(active) * n
    <2>1. IsFiniteSet(1 .. n) /\ Cardinality(1 .. n) = n
        BY FS_Interval
    <2> QED
        BY <1>9, <2>1, FS_Product
<1>15. /\ HTTPUnits(r)' \subseteq active \X (1 .. MaxNeed)
       /\ ReviewUnits(r)' \subseteq active \X (1 .. (MaxNeed - 1))
    <2>1. \A m \in Members : /\ HTTPNeed(Idle, m) = 0 /\ ReviewNeed(Idle, m) = 0
                             /\ ReviewNeed(Fresh, m) \in 0 .. (MaxNeed - 1)
        BY <1>4 DEF HTTPNeed, ReviewNeed, Running, Members, MaxNeed
    <2>2. panel'[r] \in Members
        BY <1>1 DEF TypeOK, Members
    <2>3. ASSUME NEW u \in HTTPUnits(r)' PROVE u \in active \X (1 .. MaxNeed)
        <3>1. /\ u = <<u[1], u[2]>> /\ u[1] \in Calls /\ RequestOf[u[1]] = r
              /\ u[2] \in 1 .. MaxNeed /\ u[2] <= HTTPNeed(call'[u[1]], panel'[r])
            BY DEF HTTPUnits, CallsOf
        <3>2. u[1] \in active
            BY <1>5, <2>1, <2>2, <3>1
        <3> QED
            BY <3>1, <3>2
    <2>4. ASSUME NEW u \in ReviewUnits(r)' PROVE u \in active \X (1 .. (MaxNeed - 1))
        <3>1. /\ u = <<u[1], u[2]>> /\ u[1] \in Calls /\ RequestOf[u[1]] = r
              /\ u[2] \in 1 .. MaxNeed /\ u[2] <= ReviewNeed(call'[u[1]], panel'[r])
            BY DEF ReviewUnits, CallsOf
        <3>2. u[1] \in active
            BY <1>5, <2>1, <2>2, <3>1
        <3>3. call'[u[1]] = Fresh
            BY <1>5, <3>1, <3>2
        <3>4. u[2] \in 1 .. (MaxNeed - 1)
            BY <1>1, <2>1, <2>2, <3>1, <3>3
        <3> QED
            BY <3>1, <3>2, <3>4
    <2> QED
        BY <2>3, <2>4
<1>16. /\ b2.httpCalls + Cardinality(HTTPUnits(r)') <= b2.http
       /\ b2.reviewCalls + Cardinality(ReviewUnits(r)') <= b2.review
    <2>1. MaxNeed - 1 \in Nat
        BY DEF MaxNeed
    <2>2. /\ Cardinality(HTTPUnits(r)') \in Nat
          /\ Cardinality(HTTPUnits(r)') <= Cardinality(active) * MaxNeed
        <3>1. /\ IsFiniteSet(active \X (1 .. MaxNeed))
              /\ Cardinality(active \X (1 .. MaxNeed)) = Cardinality(active) * MaxNeed
            BY <1>1, <1>14
        <3> QED
            BY <1>15, <3>1, FS_Subset, FS_CardinalityType
    <2>3. /\ Cardinality(ReviewUnits(r)') \in Nat
          /\ Cardinality(ReviewUnits(r)') <= Cardinality(active) * (MaxNeed - 1)
        <3>1. /\ IsFiniteSet(active \X (1 .. (MaxNeed - 1)))
              /\ Cardinality(active \X (1 .. (MaxNeed - 1)))
                     = Cardinality(active) * (MaxNeed - 1)
            BY <2>1, <1>14
        <3> QED
            BY <1>15, <3>1, FS_Subset, FS_CardinalityType
    <2>4. Cardinality(active) * MaxNeed \in Nat /\ Cardinality(active) * (MaxNeed - 1) \in Nat
        BY <1>1, <1>9, <2>1
    <2>5. /\ b2.httpCalls \in Nat /\ b2.http \in Nat
          /\ b2.reviewCalls \in Nat /\ b2.review \in Nat
        BY <1>11 DEF Budgets
    <2> DEFINE x == Cardinality(active) * MaxNeed
               y == Cardinality(active) * (MaxNeed - 1)
    <2>6. /\ x \in Nat /\ y \in Nat
          /\ b2.httpCalls + x <= b2.http /\ b2.reviewCalls + y <= b2.review
          /\ Cardinality(HTTPUnits(r)') <= x /\ Cardinality(ReviewUnits(r)') <= y
        BY <1>11, <2>2, <2>3, <2>4
    <2> HIDE DEF x, y
    <2> QED
        BY <2>2, <2>3, <2>5, <2>6
<1>17. ASSUME NEW q \in Requests \ {r}
       PROVE  HTTPUnits(q)' = HTTPUnits(q) /\ ReviewUnits(q)' = ReviewUnits(q)
    <2>1. \A c \in CallsOf(q) : call'[c] = call[c]
        BY <1>5 DEF CallsOf
    <2> QED
        BY <1>1, <2>1 DEF HTTPUnits, ReviewUnits, CallsOf
<1>18. Reserved'
    <2> SUFFICES ASSUME NEW q \in Requests
                 PROVE  /\ budget'[q].httpCalls + Cardinality(HTTPUnits(q)') <= budget'[q].http
                        /\ budget'[q].reviewCalls + Cardinality(ReviewUnits(q)')
                              <= budget'[q].review
        BY DEF Reserved
    <2>1. CASE q = r
        BY <1>12, <1>16, <2>1
    <2>2. CASE q # r
        BY <1>10, <1>12, <1>17, <2>2
    <2> QED
        BY <2>1, <2>2
<1>19. TypeOK'
    BY <1>1, <1>3, <1>6, <1>13 DEF TypeOK, Budgets
<1> QED
    BY <1>7, <1>8, <1>18, <1>19 DEF IInv

\* Every step keeps the invariant.
LEMMA IInvStep == IInv /\ [Next]_vars => IInv'
<1> SUFFICES ASSUME IInv, [Next]_vars PROVE IInv'
    OBVIOUS
<1>1. ASSUME NEW r \in Requests, StartPlan(r) PROVE IInv'
    BY <1>1, PlanKeeps
<1>2. ASSUME NEW r \in Requests, CancelSiblings(r) \/ CancelRequest(r) PROVE IInv'
    <2>1. UNCHANGED <<call, slots, plan, budget, panel>>
        BY <1>2 DEF CancelSiblings, CancelRequest
    <2>2. ctx' \in [Requests -> {"live", "plan", "canceled"}]
        BY <1>2 DEF CancelSiblings, CancelRequest, IInv, TypeOK
    <2> QED
        BY <2>1, <2>2 DEF IInv, TypeOK, CallsArePlaced, PanelOf, SlotsAreCounted, Reserved,
                          HTTPUnits, ReviewUnits
<1>3. ASSUME NEW c \in Calls, CallStep(c) PROVE IInv'
    BY <1>3, CallKeeps
<1>4. CASE UNCHANGED vars
    BY <1>4 DEF vars, IInv, TypeOK, CallsArePlaced, PanelOf, SlotsAreCounted, Reserved,
                HTTPUnits, ReviewUnits
<1> QED
    BY <1>1, <1>2, <1>3, <1>4 DEF Next

-----------------------------------------------------------------------------
(* The theorems. *)

\* However the requests, their calls, repairs and verifiers overlap on the slots, a
\* verdict that blocks holds one policy object, whose quote shows harm under a code
\* that may block (callCyberDenyModel and the gates of v28 and v29).
THEOREM BlocksAreProved == Spec => []BlockIsProved
<1>1. IInv => BlockIsProved
    BY DEF IInv, CallsArePlaced, Placed, Proved, BlockIsProved
<1> QED
    BY <1>1, IInvInit, IInvStep, PTL DEF Spec

\* An allow of a request with verifiers has been given by all of them, and none of
\* them failed, or it is an unconfirmed denial that ended the panel: the failure of
\* a member is forgotten for nothing else (semanticAdjudicateCyberCandidateV25).
THEOREM PanelsAreHeard == Spec => []PanelIsHeard
<1>1. IInv => PanelIsHeard
    BY DEF IInv, CallsArePlaced, Placed, AllAnswered, Heard, PanelIsHeard
<1> QED
    BY <1>1, IInvInit, IInvStep, PTL DEF Spec

\* What configureChunkBudget adds for a plan is enough for its calls, whatever the
\* earlier plans of the request have spent.
THEOREM BudgetsAreEnough == Spec => []BudgetsSuffice
<1>1. IInv => BudgetsSuffice
    <2> SUFFICES ASSUME IInv PROVE BudgetsSuffice
        OBVIOUS
    <2> QED
        BY CallsAreCovered DEF IInv, BudgetsSuffice
<1> QED
    BY <1>1, IInvInit, IInvStep, PTL DEF Spec

-----------------------------------------------------------------------------
(* No call goes round in circles.                                          *)

\* The models that a call may still ask, the one under way included.
Turn(k, m) == IF k.verifying THEN m - Len(k.votes) ELSE m + 1

\* What is left of a turn: to ask, a slot, the answer, a repair, a slot, the answer.
Rank(k) ==
    CASE k.pc = "ask"    -> 6
      [] k.pc = "repair" -> 3
      [] k.pc = "slot"   -> IF k.repair THEN 2 ELSE 5
      [] k.pc = "http"   -> IF k.repair THEN 1 ELSE 4

StepsLeft(k, m) == IF Running(k) THEN 6 * (Turn(k, m) - 1) + Rank(k) ELSE 0

StepsAreSpent ==
    \A c \in Calls :
        LET left  == StepsLeft(call[c], PanelOf(c))
            plans == budget[RequestOf[c]].plans
        IN  /\ left \in Nat
            /\ CallStep(c) => left' < left
            /\ \/ left' <= left /\ plans' = plans
               \/ plans' = plans + 1 /\ plans' <= MaxAuditChunkPlans

\* Where a raw call leads that has an answer, or that could not be made.
Leads(k2, k, m) ==
    \/ k2.pc = "done"
    \/ /\ k2.pc = "repair" /\ k.pc = "http" /\ ~k.repair
       /\ k2.verifying = k.verifying /\ k2.votes = k.votes
    \/ /\ k2.pc = "ask" /\ k2.verifying
       /\ Len(k2.votes) = (IF k.verifying THEN Len(k.votes) + 1 ELSE 0)

\* The result of a call ends it.
LEMMA EndLeads ==
    ASSUME NEW k \in CallStates, NEW m, NEW v
    PROVE  Leads(Ends(k, v), k, m)
BY DEF Ends, CallStates, Leads

\* A vote leads to the next verifier, or to the end.
LEMMA VoteLeads ==
    ASSUME NEW k \in CallStates, NEW m, k.verifying, NEW v \in Votes, NEW class
    PROVE  Leads(AfterVote(Voted(k, v), m, class), k, m)
<1> DEFINE kv == Voted(k, v)
           ka == [kv EXCEPT !.pc = "ask", !.repair = FALSE]
<1>1. kv \in CallStates /\ kv.verifying = TRUE /\ Len(kv.votes) = Len(k.votes) + 1
    <2>1. Append(k.votes, v) \in Seq(Votes) /\ Len(Append(k.votes, v)) = Len(k.votes) + 1
        BY DEF CallStates, Votes
    <2> QED
        BY <2>1 DEF CallStates, Votes, Voted
<1> HIDE DEF kv
<1>2. ka.pc = "ask" /\ ka.verifying = TRUE /\ ka.votes = kv.votes
    BY <1>1 DEF CallStates
<1>3. Leads(ka, k, m)
    BY <1>1, <1>2 DEF Leads
<1>4. \A result : Leads(Ends(kv, result), k, m)
    BY <1>1 DEF Ends, CallStates, Leads
<1> HIDE DEF ka
<1>5. AfterVote(kv, m, class) = ka \/ \E result : AfterVote(kv, m, class) = Ends(kv, result)
    BY DEF AfterVote, ka
<1> QED
    BY <1>3, <1>4, <1>5 DEF kv

\* So does a failure.
LEMMA FailureLeads ==
    ASSUME NEW k \in CallStates, NEW m, NEW class
    PROVE  Leads(GroundedFails(k, m, class), k, m)
BY EndLeads, VoteLeads DEF GroundedFails, Votes

\* An answer is repaired at most once, and otherwise a verdict or a failure.
LEMMA AnswerLeads ==
    ASSUME NEW k \in CallStates, NEW m \in Members, Placed(k, m), k.pc = "http",
           NEW o \in Outcomes
    PROVE  Leads(AfterRawCall(k, m, o), k, m)
<1>1. Leads(Grounded(k, m, o), k, m)
    <2> DEFINE vote == VerifierVote(o.policy, k.repair)
               ka   == [k EXCEPT !.pc = "ask", !.verifying = TRUE, !.repair = FALSE]
    <2>1. CASE k.verifying
        <3>1. \/ Grounded(k, m, o) = VerifierDenies(k, o)
              \/ /\ vote # "block"
                 /\ \E class : Grounded(k, m, o)
                                 = AfterVote(Voted(k, vote), m, class)
            BY <2>1 DEF Grounded
        <3>2. vote # "block" => vote \in Votes
            BY DEF VerifierVote, CyberDenyVerdict, Votes
        <3>3. Leads(VerifierDenies(k, o), k, m)
            <4>1. "block" \in Votes
                BY DEF Votes
            <4>2. Append(k.votes, "block") \in Seq(Votes)
                BY <4>1 DEF CallStates, Votes
            <4>3. Voted(k, "block") \in CallStates
                BY <4>2 DEF CallStates, Votes, Voted
            <4> QED
                BY <4>3 DEF VerifierDenies, Ends, CallStates, Leads
        <3> HIDE DEF vote
        <3> QED
            BY <2>1, <3>1, <3>2, <3>3, VoteLeads
    <2>2. CASE ~k.verifying
        <3>1. Grounded(k, m, o) = ka \/ \E result : Grounded(k, m, o) = Ends(k, result)
            BY <2>2 DEF Grounded
        <3>2. ka.pc = "ask" /\ ka.verifying = TRUE /\ ka.votes = <<>>
            BY <2>2 DEF CallStates, Placed
        <3>3. Leads(ka, k, m)
            BY <2>2, <3>2 DEF Leads
        <3> HIDE DEF ka
        <3> QED
            BY <3>1, <3>3, EndLeads
    <2> QED
        BY <2>1, <2>2
<1>2. CASE \E class : AfterRawCall(k, m, o) = GroundedFails(k, m, class)
    BY <1>2, FailureLeads
<1>3. CASE AfterRawCall(k, m, o) = [k EXCEPT !.pc = "repair"] /\ ~k.repair
    BY <1>3 DEF CallStates, Leads
<1> QED
    BY <1>1, <1>2, <1>3 DEF AfterRawCall

\* While a call runs, a model is left to be asked.
LEMMA TurnTypes ==
    ASSUME NEW k \in CallStates, NEW m \in Members, Placed(k, m), Running(k)
    PROVE  Turn(k, m) - 1 \in Nat
<1>1. Len(k.votes) \in Nat /\ m \in Nat /\ k.verifying \in BOOLEAN
    BY DEF CallStates, Members
<1>2. CASE k.verifying
    <2>1. Len(k.votes) < m
        BY <1>2 DEF Placed
    <2>2. Turn(k, m) = m - Len(k.votes)
        BY <1>2 DEF Turn
    <2> QED
        BY <1>1, <2>1, <2>2
<1>3. CASE ~k.verifying
    <2>1. Turn(k, m) = m + 1
        BY <1>3 DEF Turn
    <2> QED
        BY <1>1, <2>1
<1> QED
    BY <1>2, <1>3

\* What is left is a number.
LEMMA StepsAreCounted ==
    ASSUME NEW k \in CallStates, NEW m \in Members, Placed(k, m)
    PROVE  StepsLeft(k, m) \in Nat
<1>1. Len(k.votes) \in Nat /\ m \in Nat /\ k.repair \in BOOLEAN /\ k.verifying \in BOOLEAN
    BY DEF CallStates, Members
<1>2. CASE Running(k)
    <2>1. PICK turn \in Nat : turn = Turn(k, m) - 1
        BY <1>2, TurnTypes
    <2>2. PICK rank \in Nat : rank = Rank(k)
        BY <1>2 DEF Rank, Running
    <2>3. StepsLeft(k, m) = 6 * turn + rank
        BY <1>2, <2>1, <2>2 DEF StepsLeft
    <2> QED
        BY <2>3
<1> QED
    BY <1>2 DEF StepsLeft

\* A repair uses up a part of the turn, and the next verifier a turn.
LEMMA LeadsSpends ==
    ASSUME NEW k \in CallStates, NEW m \in Members, Placed(k, m), NEW k2,
           k.pc \in {"slot", "http", "repair"}, Leads(k2, k, m)
    PROVE  StepsLeft(k2, m) < StepsLeft(k, m)
<1>1. Len(k.votes) \in Nat /\ m \in Nat /\ k.repair \in BOOLEAN /\ k.verifying \in BOOLEAN
    BY DEF CallStates, Members
<1>2. PICK turn \in Nat : turn = Turn(k, m) - 1
    BY TurnTypes DEF Running
<1>3. PICK rank \in Nat : rank = Rank(k) /\ rank >= 1 /\ (k.pc = "http" /\ ~k.repair => rank = 4)
    BY DEF Rank
<1>4. StepsLeft(k, m) = 6 * turn + rank
    BY <1>2, <1>3 DEF StepsLeft, Running
<1>5. CASE k2.pc = "done"
    <2>1. StepsLeft(k2, m) = 0
        BY <1>5 DEF StepsLeft, Running
    <2>2. 0 < 6 * turn + rank
        BY <1>3
    <2> QED
        BY <1>4, <2>1, <2>2
<1>6. CASE /\ k2.pc = "repair" /\ k.pc = "http" /\ ~k.repair
           /\ k2.verifying = k.verifying /\ k2.votes = k.votes
    <2>1. Rank(k2) = 3 /\ Turn(k2, m) = Turn(k, m) /\ Running(k2)
        BY <1>6 DEF Rank, Turn, Running
    <2>2. StepsLeft(k2, m) = 6 * turn + 3
        BY <1>2, <2>1 DEF StepsLeft
    <2>3. 6 * turn + 3 < 6 * turn + rank
        BY <1>3, <1>6
    <2> QED
        BY <1>4, <2>2, <2>3
<1>7. CASE /\ k2.pc = "ask" /\ k2.verifying
           /\ Len(k2.votes) = (IF k.verifying THEN Len(k.votes) + 1 ELSE 0)
    <2>1. Rank(k2) = 6 /\ Running(k2)
        BY <1>7 DEF Rank, Running
    <2>2. Turn(k2, m) - 1 = turn - 1
        BY <1>1, <1>2, <1>7 DEF Turn
    <2>3. StepsLeft(k2, m) = 6 * (turn - 1) + 6
        BY <2>1, <2>2 DEF StepsLeft
    <2>4. 6 * (turn - 1) + 6 < 6 * turn + rank
        BY <1>3
    <2> QED
        BY <1>4, <2>3, <2>4
<1> QED
    BY <1>5, <1>6, <1>7 DEF Leads

\* Every step of a call uses up something of it.
LEMMA CallSpends ==
    ASSUME IInv, NEW c \in Calls, CallStep(c)
    PROVE  StepsLeft(call'[c], PanelOf(c)) < StepsLeft(call[c], PanelOf(c))
<1> DEFINE k == call[c]
           m == PanelOf(c)
<1> SUFFICES StepsLeft(call'[c], m) < StepsLeft(k, m)
    OBVIOUS
<1>1. k \in CallStates /\ m \in Members /\ Placed(k, m)
    BY DEF IInv, TypeOK, CallsArePlaced, PanelOf, Members
<1>2. ASSUME NEW k2, Becomes(c, k2), StepsLeft(k2, m) < StepsLeft(k, m)
      PROVE  StepsLeft(call'[c], m) < StepsLeft(k, m)
    <2>1. call'[c] = k2
        BY <1>2 DEF IInv, TypeOK, Becomes
    <2> QED
        BY <1>2, <2>1
<1>3. ASSUME NEW k2, k.pc \in {"slot", "http", "repair"}, Leads(k2, k, m)
      PROVE  StepsLeft(k2, m) < StepsLeft(k, m)
    BY <1>1, <1>3, LeadsSpends
<1>4. ASSUME NEW k2, k2.pc # k.pc, k2.pc \in {"slot", "http"}, Running(k),
             k2.verifying = k.verifying, k2.votes = k.votes,
             \/ k.pc = "slot" /\ k2.pc = "http" /\ k2.repair = k.repair
             \/ k.pc = "repair" /\ k2.pc = "slot" /\ k2.repair
             \/ k.pc = "ask" /\ k2.pc = "slot"
      PROVE  StepsLeft(k2, m) < StepsLeft(k, m)
    <2>1. Running(k2) /\ Turn(k2, m) = Turn(k, m)
        BY <1>4 DEF Running, Turn
    <2>2. PICK turn \in Int : turn = Turn(k, m) - 1
        BY <1>1 DEF Turn, CallStates, Members
    <2>3. PICK high \in Nat : high = Rank(k)
        BY <1>4 DEF Rank
    <2>4. PICK low \in Nat : low = Rank(k2) /\ low < high
        BY <1>4, <2>3 DEF Rank
    <2>5. StepsLeft(k, m) = 6 * turn + high /\ StepsLeft(k2, m) = 6 * turn + low
        BY <1>4, <2>1, <2>2, <2>3, <2>4 DEF StepsLeft
    <2>6. 6 * turn + low < 6 * turn + high
        BY <2>4
    <2> QED
        BY <2>5, <2>6
<1> HIDE DEF m
<1>5. CASE AcquireAuditModelSlot(c)
    <2>1. k.pc = "slot"
        BY <1>5 DEF AcquireAuditModelSlot
    <2>2. CASE Becomes(c, GroundedFails(k, m, "audit_http_budget"))
        BY <1>1, <1>2, <1>3, <2>1, <2>2, FailureLeads
    <2>3. CASE Becomes(c, [k EXCEPT !.pc = "http"])
        <3> DEFINE k2 == [k EXCEPT !.pc = "http"]
        <3>1. /\ k2.pc = "http" /\ k2.repair = k.repair
              /\ k2.verifying = k.verifying /\ k2.votes = k.votes
            BY <1>1 DEF CallStates
        <3> HIDE DEF k2
        <3>2. StepsLeft(k2, m) < StepsLeft(k, m)
            BY <1>4, <2>1, <3>1 DEF Running
        <3> QED
            BY <1>2, <2>3, <3>2 DEF k2
    <2> QED
        BY <1>5, <2>2, <2>3 DEF AcquireAuditModelSlot, m
<1>6. CASE SlotCanceled(c)
    BY <1>1, <1>2, <1>3, <1>6, FailureLeads DEF SlotCanceled, m
<1>7. ASSUME NEW response \in Responses, Respond(c, Outcome(response))
      PROVE  StepsLeft(call'[c], m) < StepsLeft(k, m)
    <2>1. Outcome(response) \in Outcomes
        BY DEF Outcomes
    <2>2. k.pc = "http" /\ Becomes(c, AfterRawCall(k, m, Outcome(response)))
        BY <1>7 DEF Respond, m
    <2> QED
        BY <1>1, <1>2, <1>3, <2>1, <2>2, AnswerLeads
<1>8. CASE Repair(c)
    <2>1. k.pc = "repair"
        BY <1>8 DEF Repair
    <2>2. CASE Becomes(c, GroundedFails(k, m, "cyber_unresolved"))
        BY <1>1, <1>2, <1>3, <2>1, <2>2, FailureLeads
    <2>3. CASE Becomes(c, [k EXCEPT !.pc = "slot", !.repair = TRUE])
        <3> DEFINE k2 == [k EXCEPT !.pc = "slot", !.repair = TRUE]
        <3>1. /\ k2.pc = "slot" /\ k2.repair = TRUE
              /\ k2.verifying = k.verifying /\ k2.votes = k.votes
            BY <1>1 DEF CallStates
        <3> HIDE DEF k2
        <3>2. StepsLeft(k2, m) < StepsLeft(k, m)
            BY <1>4, <2>1, <3>1 DEF Running
        <3> QED
            BY <1>2, <2>3, <3>2 DEF k2
    <2> QED
        BY <1>8, <2>2, <2>3 DEF Repair, m
<1>9. CASE AskVerifier(c) \/ VerifierUnavailable(c)
    <2>1. k.pc = "ask"
        BY <1>9 DEF AskVerifier, VerifierUnavailable
    <2>2. CASE \E result : Becomes(c, Ends(k, result))
        <3>1. PICK result : Becomes(c, Ends(k, result))
            BY <2>2
        <3>2. StepsLeft(Ends(k, result), m) = 0
            BY <1>1 DEF Ends, CallStates, StepsLeft, Running
        <3>3. PICK turn \in Nat : turn = Turn(k, m) - 1
            BY <1>1, <2>1, TurnTypes DEF Running
        <3>4. StepsLeft(k, m) = 6 * turn + 6
            BY <2>1, <3>3 DEF StepsLeft, Running, Rank
        <3>5. 0 < 6 * turn + 6
            OBVIOUS
        <3> QED
            BY <1>2, <3>1, <3>2, <3>4, <3>5
    <2>3. CASE Becomes(c, [k EXCEPT !.pc = "slot"])
        <3> DEFINE k2 == [k EXCEPT !.pc = "slot"]
        <3>1. /\ k2.pc = "slot" /\ k2.repair = k.repair
              /\ k2.verifying = k.verifying /\ k2.votes = k.votes
            BY <1>1 DEF CallStates
        <3> HIDE DEF k2
        <3>2. StepsLeft(k2, m) < StepsLeft(k, m)
            BY <1>4, <2>1, <3>1 DEF Running
        <3> QED
            BY <1>2, <2>3, <3>2 DEF k2
    <2> QED
        BY <1>9, <2>2, <2>3 DEF AskVerifier, VerifierUnavailable
<1> QED
    BY <1>5, <1>6, <1>7, <1>8, <1>9 DEF CallStep, m

\* CallsEnd without its fairness: whatever the models answer, a call of
\* callModelOnceWithEvidenceSource cannot go on for ever.  Each of its steps uses up a
\* part of a bound that the panel gives it, that the other calls and the end of a
\* context leave alone, and that only a further plan of its request renews, of which
\* there are at most maxAuditChunkPlans.
THEOREM CallsAreBounded == Spec => [][StepsAreSpent]_vars
<1>1. IInv /\ IInv' /\ [Next]_vars => [StepsAreSpent]_vars
    <2> SUFFICES ASSUME IInv, IInv', Next PROVE StepsAreSpent
        BY DEF vars
    <2> SUFFICES ASSUME NEW c \in Calls
                 PROVE  LET left  == StepsLeft(call[c], PanelOf(c))
                            plans == budget[RequestOf[c]].plans
                        IN  /\ left \in Nat
                            /\ CallStep(c) => left' < left
                            /\ \/ left' <= left /\ plans' = plans
                               \/ plans' = plans + 1 /\ plans' <= MaxAuditChunkPlans
        BY DEF StepsAreSpent
    <2>1. RequestOf[c] \in Requests /\ call \in [Calls -> CallStates]
        BY DEF IInv, TypeOK
    <2>2. panel' = panel
        BY DEF Next, StartPlan, CancelSiblings, CancelRequest, CallStep,
               AcquireAuditModelSlot, SlotCanceled, Respond, Repair, AskVerifier,
               VerifierUnavailable
    <2>3. /\ StepsLeft(call[c], PanelOf(c)) \in Nat
          /\ StepsLeft(call'[c], PanelOf(c)) \in Nat
        <3>1. /\ call[c] \in CallStates /\ PanelOf(c) \in Members
              /\ Placed(call[c], PanelOf(c))
            BY DEF IInv, TypeOK, CallsArePlaced, PanelOf, Members
        <3>2. call'[c] \in CallStates /\ Placed(call'[c], PanelOf(c))
            BY <2>2 DEF IInv, TypeOK, CallsArePlaced, PanelOf
        <3> QED
            BY <3>1, <3>2, StepsAreCounted
    <2>4. PICK before \in Nat : before = StepsLeft(call[c], PanelOf(c))
        BY <2>3
    <2>5. PICK after \in Nat : after = StepsLeft(call'[c], PanelOf(c))
        BY <2>3
    <2>6. StepsLeft(call[c], PanelOf(c))' = after
        BY <2>2, <2>5 DEF PanelOf
    <2>7. CallStep(c) => after < before
        BY <2>4, <2>5, CallSpends
    <2>8. ASSUME NEW d \in Calls, CallStep(d)
          PROVE  after <= before /\ budget'[RequestOf[c]].plans = budget[RequestOf[c]].plans
        <3>1. budget'[RequestOf[c]].plans = budget[RequestOf[c]].plans
            <4>1. \/ UNCHANGED budget
                  \/ budget' = [budget EXCEPT ![RequestOf[d]].httpCalls = @ + 1]
                  \/ budget' = [budget EXCEPT ![RequestOf[d]].reviewCalls = @ + 1]
                BY <2>8
                DEF CallStep, AcquireAuditModelSlot, SlotCanceled, Respond, Repair,
                    AskVerifier, VerifierUnavailable, ReserveReview
            <4>2. \A n : /\ [budget[RequestOf[c]] EXCEPT !.httpCalls = n].plans
                                 = budget[RequestOf[c]].plans
                         /\ [budget[RequestOf[c]] EXCEPT !.reviewCalls = n].plans
                                 = budget[RequestOf[c]].plans
                BY <2>1 DEF IInv, TypeOK
            <4> QED
                BY <2>1, <4>1, <4>2 DEF IInv, TypeOK
        <3>2. CASE d = c
            BY <2>8, <2>7, <3>1, <3>2
        <3>3. CASE d # c
            <4>1. call'[c] = call[c]
                BY <2>1, <2>8, <3>3
                DEF CallStep, AcquireAuditModelSlot, SlotCanceled, Respond, Repair,
                    AskVerifier, VerifierUnavailable, Becomes
            <4>2. after = before
                BY <2>4, <2>5, <4>1
            <4> QED
                BY <3>1, <4>2
        <3> QED
            BY <3>2, <3>3
    <2>9. ASSUME NEW r \in Requests, CancelSiblings(r) \/ CancelRequest(r)
          PROVE  after <= before /\ budget'[RequestOf[c]].plans = budget[RequestOf[c]].plans
        <3>1. UNCHANGED <<call, budget>>
            BY <2>9 DEF CancelSiblings, CancelRequest
        <3>2. after = before
            BY <2>4, <2>5, <3>1
        <3> QED
            BY <3>1, <3>2
    <2>10. ASSUME NEW r \in Requests, StartPlan(r)
          PROVE  \/ after <= before /\ budget'[RequestOf[c]].plans = budget[RequestOf[c]].plans
                 \/ /\ budget'[RequestOf[c]].plans = budget[RequestOf[c]].plans + 1
                    /\ budget'[RequestOf[c]].plans <= MaxAuditChunkPlans
        <3>1. PICK n : budget' = [budget EXCEPT ![r] = ConfigureChunkBudget(@, n)]
            BY <2>10 DEF StartPlan
        <3>2. CASE RequestOf[c] = r
            <4>1. /\ budget'[r].plans = budget[r].plans + 1
                  /\ budget[r].plans \in Nat
                BY <3>1 DEF IInv, TypeOK, ConfigureChunkBudget
            <4>2. budget[r].plans < MaxAuditChunkPlans
                BY <2>10 DEF StartPlan
            <4> QED
                BY <3>2, <4>1, <4>2
        <3>3. CASE RequestOf[c] # r
            <4>1. call'[c] = call[c]
                <5>1. PICK active \in SUBSET CallsOf(r) :
                          call' = [d \in Calls |->
                                      CASE RequestOf[d] # r -> call[d]
                                        [] d \in active -> [Idle EXCEPT !.pc = "slot"]
                                        [] OTHER -> Idle]
                    BY <2>10, PlanStarts
                <5>2. c \notin active
                    BY <3>3, <5>1 DEF CallsOf
                <5> QED
                    BY <3>3, <5>1, <5>2
            <4>2. after = before
                BY <2>4, <2>5, <4>1
            <4> QED
                BY <2>1, <3>1, <3>3, <4>2 DEF IInv, TypeOK
        <3> QED
            BY <3>2, <3>3
    <2>11. \/ after <= before /\ budget'[RequestOf[c]].plans = budget[RequestOf[c]].plans
          \/ /\ budget'[RequestOf[c]].plans = budget[RequestOf[c]].plans + 1
             /\ budget'[RequestOf[c]].plans <= MaxAuditChunkPlans
        BY <2>8, <2>9, <2>10 DEF Next
    <2> QED
        BY <2>4, <2>11, <2>6, <2>7
<1> QED
    BY <1>1, IInvInit, IInvStep, PTL DEF Spec
=============================================================================
