------------------------- MODULE ChunkedAuditProofs -------------------------
(***************************************************************************)
(* VerdictIsComplete and OnePlacePerChunk of ChunkedAudit, and that it     *)
(* implements CompleteAudit, for any set of chunks, any pool of workers    *)
(* and any number of retries.                                              *)
(***************************************************************************)
EXTENDS ChunkedAudit, FiniteSetTheorems, TLAPS

\* What the collector knows is what the model said: an answer in the channel and a
\* kept allow were given, and a collected chunk was judged unless an error or a
\* block was noted.
Accounted ==
    /\ \A c \in checkpoint : "allow" \in judged[c]
    /\ \A p \in results : p[2] \in Decisions => p[2] \in judged[p[1]]
    /\ \A c \in collected :
          \/ firstError \/ firstBlock # None
          \/ "allow" \in judged[c]
          \/ anyReview /\ judged[c] # {}

IInv == TypeOK /\ OnePlacePerChunk /\ Accounted /\ VerdictIsComplete

USE ChunkedAuditAssumption

\* The goroutines of callModelChunks and its retries keep the types.
LEMMA TypeInit == Init => TypeOK
<1> SUFFICES ASSUME Init PROVE TypeOK
    OBVIOUS
<1>1. /\ attempt \in 1 .. MaxAttempts /\ completed \in Nat
      /\ results \in SUBSET (Chunks \X Answers)
      /\ checkpoint \in SUBSET Chunks /\ unfed \in SUBSET Chunks
      /\ collected \in SUBSET Chunks
    BY DEF Init
<1>2. /\ judged \in [Chunks -> SUBSET Decisions]
      /\ job \in [Workers -> Chunks \cup {"idle", "exited"}]
    BY DEF Init
<1> QED
    BY <1>1, <1>2 DEF Init, TypeOK

\* A decision is the only part of an answer that judged keeps.
LEMMA TypeStep == TypeOK /\ [Next]_vars => TypeOK'
<1> SUFFICES ASSUME TypeOK, [Next]_vars PROVE TypeOK'
    OBVIOUS
<1> USE DEF TypeOK, feedVars, foundVars
<1>1. CASE RequestCanceled
    BY <1>1 DEF RequestCanceled
<1>2. CASE FeederReturns
    BY <1>2 DEF FeederReturns
<1>3. ASSUME NEW c \in Chunks, NEW w \in Workers, Hand(c, w) PROVE TypeOK'
    BY <1>3 DEF Hand
<1>4. ASSUME NEW w \in Workers, WorkerReturns(w) PROVE TypeOK'
    BY <1>4 DEF WorkerReturns
<1>5. ASSUME NEW w \in Workers, NEW a \in Answers, Answer(w, a) PROVE TypeOK'
    <2>1. results' \in SUBSET (Chunks \X Answers)
        BY <1>5 DEF Answer
    <2>2. judged' \in [Chunks -> SUBSET Decisions]
        BY <1>5 DEF Answer
    <2>3. job' \in [Workers -> Chunks \cup {"idle", "exited"}]
        BY <1>5 DEF Answer
    <2> QED
        BY <1>5, <2>1, <2>2, <2>3 DEF Answer
<1>6. ASSUME NEW c \in Chunks, NEW a \in Answers, Collect(c, a) PROVE TypeOK'
    <2>1. checkpoint' \in SUBSET Chunks /\ collected' \in SUBSET Chunks
        BY <1>6 DEF Collect, Put
    <2>2. results' \in SUBSET (Chunks \X Answers) /\ completed' \in Nat
        BY <1>6 DEF Collect
    <2>3. /\ firstBlock' \in Chunks \cup {None} /\ firstError' \in BOOLEAN
          /\ anyReview' \in BOOLEAN /\ canceled' \in BOOLEAN
        BY <1>6 DEF Collect
    <2> QED
        BY <1>6, <2>1, <2>2, <2>3 DEF Collect
<1>7. CASE Return
    <2>1. Outcome \in Decisions \cup {"error", None}
        BY DEF Outcome, Decisions
    <2> QED
        BY <1>7, <2>1 DEF Return
<1>8. CASE Retry
    <2>1. results' \in SUBSET (Chunks \X Answers)
        BY <1>8 DEF Retry, CallAgain, Cached, Answers, Decisions
    <2>2. attempt' \in 1 .. MaxAttempts
        BY <1>8 DEF Retry, CallAgain
    <2>3. /\ unfed' \in SUBSET Chunks /\ collected' \in SUBSET Chunks
          /\ job' \in [Workers -> Chunks \cup {"idle", "exited"}]
        BY <1>8 DEF Retry, CallAgain
    <2> QED
        BY <1>8, <2>1, <2>2, <2>3 DEF Retry, CallAgain
<1>9. CASE UNCHANGED vars
    BY <1>9 DEF vars
<1> QED
    BY <1>1, <1>2, <1>3, <1>4, <1>5, <1>6, <1>7, <1>8, <1>9
    DEF Next, Feeder, WorkerStep, Collector

\* What the retries and the goroutines hand each other keeps every chunk in one
\* place.  A retry starts over with the cached chunks in the channel and the
\* others still to be fed.
LEMMA PlaceInit == Init => OnePlacePerChunk
BY FS_EmptySet DEF Init, OnePlacePerChunk

\* A chunk moves from the feeder to a worker to the channel to the collector, and
\* a retry leaves none of the places of the last attempt filled.
LEMMA PlaceStep == TypeOK /\ OnePlacePerChunk /\ [Next]_vars => OnePlacePerChunk'
<1> SUFFICES ASSUME TypeOK, OnePlacePerChunk, [Next]_vars PROVE OnePlacePerChunk'
    OBVIOUS
<1> USE DEF OnePlacePerChunk, feedVars, foundVars
<1>1. CASE RequestCanceled
    BY <1>1 DEF RequestCanceled
<1>2. CASE FeederReturns
    BY <1>2 DEF FeederReturns
<1>3. ASSUME NEW c \in Chunks, NEW w \in Workers, Hand(c, w)
      PROVE  OnePlacePerChunk'
    <2>1. /\ c \in unfed /\ unfed' = unfed \ {c}
          /\ job'[w] = c
          /\ \A v \in Workers \ {w} : job'[v] = job[v]
          /\ UNCHANGED <<results, completed, collected>>
        BY <1>3 DEF Hand, TypeOK
    <2> QED
        BY <2>1
<1>4. ASSUME NEW w \in Workers, WorkerReturns(w) PROVE OnePlacePerChunk'
    <2>1. /\ job'[w] = "exited"
          /\ \A v \in Workers \ {w} : job'[v] = job[v]
          /\ UNCHANGED <<unfed, results, completed, collected>>
        BY <1>4 DEF WorkerReturns, TypeOK
    <2>2. "exited" \notin unfed \cup collected \cup {p[1] : p \in results}
        BY DEF TypeOK
    <2> QED
        BY <2>1, <2>2
<1>5. ASSUME NEW w \in Workers, NEW a \in Answers, Answer(w, a)
      PROVE  OnePlacePerChunk'
    <2>1. /\ job[w] \in Chunks /\ job'[w] = "idle"
          /\ \A v \in Workers \ {w} : job'[v] = job[v]
          /\ results' = results \cup {<<job[w], a>>}
          /\ UNCHANGED <<unfed, completed, collected>>
        BY <1>5 DEF Answer, TypeOK
    <2>2. "idle" \notin unfed \cup collected \cup {p[1] : p \in results'}
        BY <2>1 DEF TypeOK
    <2> QED
        BY <2>1, <2>2
<1>6. ASSUME NEW c \in Chunks, NEW a \in Answers, Collect(c, a)
      PROVE  OnePlacePerChunk'
    <2>1. /\ <<c, a>> \in results /\ results' = results \ {<<c, a>>}
          /\ completed' = completed + 1 /\ collected' = collected \cup {c}
          /\ UNCHANGED <<unfed, job>>
        BY <1>6 DEF Collect
    <2>2. c \notin collected /\ c \notin unfed
        BY <2>1
    <2>3. completed' = Cardinality(collected')
        BY <2>1, <2>2, FS_AddElement, FS_Subset DEF TypeOK
    <2>4. \A p \in results' : p[1] # c
        BY <2>1
    <2>5. \A w \in Workers : job[w] # c
        BY <2>1
    <2> QED
        BY <2>1, <2>2, <2>3, <2>4, <2>5
<1>7. CASE Return
    BY <1>7 DEF Return
<1>8. CASE Retry
    <2>1. /\ unfed' = Chunks \ checkpoint /\ results' = Cached(checkpoint)
          /\ completed' = 0 /\ collected' = {}
          /\ \A w \in Workers : job'[w] = "idle"
        BY <1>8 DEF Retry, CallAgain
    <2>2. /\ \A p, q \in results' : p[1] = q[1] => p = q
          /\ \A p \in results' : p[1] \in checkpoint
        BY <2>1 DEF Cached
    <2>3. "idle" \notin unfed' \cup collected' \cup {p[1] : p \in results'}
        BY <2>1, <2>2 DEF TypeOK
    <2> QED
        BY <2>1, <2>2, <2>3, FS_EmptySet
<1>9. CASE UNCHANGED vars
    BY <1>9 DEF vars
<1> QED
    BY <1>1, <1>2, <1>3, <1>4, <1>5, <1>6, <1>7, <1>8, <1>9
    DEF Next, Feeder, WorkerStep, Collector

\* The decisions of the model are never taken back.
LEMMA JudgedGrows ==
    TypeOK /\ [Next]_vars => \A c \in Chunks : judged[c] \subseteq judged'[c]
<1> SUFFICES ASSUME TypeOK, [Next]_vars, NEW c \in Chunks
             PROVE  judged[c] \subseteq judged'[c]
    OBVIOUS
<1>1. ASSUME NEW w \in Workers, NEW a \in Answers, Answer(w, a)
      PROVE  judged[c] \subseteq judged'[c]
    BY <1>1 DEF Answer, TypeOK
<1>2. ASSUME NEW d \in Chunks, NEW a \in Answers, Collect(d, a)
      PROVE  judged[c] \subseteq judged'[c]
    BY <1>2 DEF Collect
<1> QED
    BY <1>1, <1>2
    DEF Next, Feeder, WorkerStep, Collector, RequestCanceled, FeederReturns, Hand,
        WorkerReturns, Return, Retry, CallAgain, vars

\* Whatever the channel, the collector and the checkpoint hold was judged so.
LEMMA AccountedStep == IInv /\ [Next]_vars => Accounted'
<1> SUFFICES ASSUME IInv, [Next]_vars PROVE Accounted'
    OBVIOUS
<1> USE DEF Accounted, feedVars, foundVars
<1>g. \A c \in Chunks : judged[c] \subseteq judged'[c]
    BY JudgedGrows DEF IInv
<1>i. Accounted /\ TypeOK
    BY DEF IInv
<1>k. /\ checkpoint \subseteq Chunks /\ collected \subseteq Chunks
      /\ \A p \in results : p[1] \in Chunks
    BY <1>i DEF TypeOK
<1>1. CASE RequestCanceled
    BY <1>1, <1>i DEF RequestCanceled
<1>2. CASE FeederReturns
    BY <1>2, <1>i DEF FeederReturns
<1>3. ASSUME NEW c \in Chunks, NEW w \in Workers, Hand(c, w) PROVE Accounted'
    BY <1>3, <1>i DEF Hand
<1>4. ASSUME NEW w \in Workers, WorkerReturns(w) PROVE Accounted'
    BY <1>4, <1>i DEF WorkerReturns
<1>5. ASSUME NEW w \in Workers, NEW a \in Answers, Answer(w, a) PROVE Accounted'
    <2>1. /\ job[w] \in Chunks
          /\ results' = results \cup {<<job[w], a>>}
          /\ UNCHANGED <<checkpoint, firstBlock, firstError, anyReview, collected>>
        BY <1>5 DEF Answer
    <2>2. a \in Decisions => a \in judged'[job[w]]
        BY <1>5, <1>i DEF Answer, TypeOK
    <2>3. \A p \in results' : p[2] \in Decisions => p[2] \in judged'[p[1]]
        BY <2>1, <2>2, <1>g, <1>i, <1>k
    <2>4. \A c \in collected : judged[c] # {} => judged'[c] # {}
        BY <1>g, <1>k
    <2> QED
        BY <2>1, <2>3, <2>4, <1>g, <1>i, <1>k
<1>6. ASSUME NEW c \in Chunks, NEW a \in Answers, Collect(c, a) PROVE Accounted'
    <2>1. /\ <<c, a>> \in results /\ results' = results \ {<<c, a>>}
          /\ collected' = collected \cup {c}
          /\ UNCHANGED judged
        BY <1>6 DEF Collect
    <2>2. a \in Decisions => a \in judged[c]
        BY <2>1, <1>i
    <2>3. \A d \in checkpoint' : "allow" \in judged[d]
        BY <1>6, <2>2, <1>i DEF Collect, Put, Decisions
    <2>4. /\ firstError => firstError'
          /\ firstBlock # None => firstBlock' # None
          /\ anyReview => anyReview'
        <3>1. /\ firstError \in BOOLEAN /\ firstError' \in BOOLEAN
              /\ anyReview \in BOOLEAN /\ anyReview' \in BOOLEAN
            BY <1>6, <1>i DEF Collect, TypeOK
        <3>2. firstError => firstError'
            BY <1>6, <3>1 DEF Collect
        <3>3. firstBlock # None => firstBlock' # None
            BY <1>6 DEF Collect
        <3>4. anyReview => anyReview'
            BY <1>6, <3>1 DEF Collect
        <3> QED
            BY <3>2, <3>3, <3>4
    <2>5. \/ firstError' \/ firstBlock' # None
          \/ "allow" \in judged[c]
          \/ anyReview' /\ judged[c] # {}
        BY <1>6, <2>2 DEF Collect, Decisions, None
    <2> QED
        BY <2>1, <2>3, <2>4, <2>5, <1>i
<1>7. CASE Return
    BY <1>7, <1>i DEF Return
<1>8. CASE Retry
    <2>1. /\ results' = Cached(checkpoint) /\ collected' = {}
          /\ UNCHANGED <<checkpoint, judged>>
        BY <1>8 DEF Retry, CallAgain
    <2> QED
        BY <2>1, <1>i DEF Cached
<1>9. CASE UNCHANGED vars
    BY <1>9, <1>i DEF vars
<1> QED
    BY <1>1, <1>2, <1>3, <1>4, <1>5, <1>6, <1>7, <1>8, <1>9
    DEF Next, Feeder, WorkerStep, Collector

\* Return looks at the count, and the count is of chunks: an allow or a review
\* means that every chunk was collected.
LEMMA VerdictStep == IInv /\ [Next]_vars => VerdictIsComplete'
<1> SUFFICES ASSUME IInv, [Next]_vars PROVE VerdictIsComplete'
    OBVIOUS
<1>g. \A c \in Chunks : judged[c] \subseteq judged'[c]
    BY JudgedGrows DEF IInv
<1>1. CASE verdict' = verdict
    <2>1. verdict = "allow" => \A c \in Chunks : "allow" \in judged'[c]
        BY <1>g DEF IInv, VerdictIsComplete
    <2>2. verdict = "review" => \A c \in Chunks : judged'[c] # {}
        BY <1>g DEF IInv, VerdictIsComplete
    <2> QED
        BY <1>1, <2>1, <2>2 DEF VerdictIsComplete
<1>2. CASE Return
    <2>1. ASSUME verdict' \in {"allow", "review"}
          PROVE  /\ ~firstError /\ firstBlock = None
                 /\ ~(completed < Cardinality(Chunks))
                 /\ verdict' = "allow" => ~anyReview
        BY <1>2, <2>1 DEF Return, Outcome
    <2>2. completed = Cardinality(collected) /\ collected \in SUBSET Chunks
        BY DEF IInv, OnePlacePerChunk, TypeOK
    <2>3. ASSUME verdict' \in {"allow", "review"} PROVE collected = Chunks
        <3>1. Cardinality(collected) \in Nat /\ Cardinality(Chunks) \in Nat
            BY <2>2, FS_Subset, FS_CardinalityType
        <3> QED
            BY <2>1, <2>2, <2>3, <3>1, FS_Subset
    <2>4. \A c \in collected :
             \/ firstError \/ firstBlock # None
             \/ "allow" \in judged[c]
             \/ anyReview /\ judged[c] # {}
        BY DEF IInv, Accounted
    <2>5. UNCHANGED judged
        BY <1>2 DEF Return
    <2> QED
        BY <2>1, <2>3, <2>4, <2>5 DEF VerdictIsComplete
<1>3. CASE Retry
    BY <1>3 DEF Retry, CallAgain, VerdictIsComplete, None
<1>4. ASSUME NEW c \in Chunks, NEW a \in Answers, Collect(c, a)
      PROVE  verdict' = verdict
    BY <1>4 DEF Collect
<1>5. ASSUME NEW w \in Workers, NEW a \in Answers, Answer(w, a)
      PROVE  verdict' = verdict
    BY <1>5 DEF Answer
<1> QED
    BY <1>1, <1>2, <1>3, <1>4, <1>5
    DEF Next, Feeder, WorkerStep, Collector, RequestCanceled, FeederReturns, Hand,
        WorkerReturns, vars

\* Before the first attempt nothing is judged, fed or collected.
LEMMA IInvInit == Init => IInv
<1>1. Init => Accounted /\ VerdictIsComplete
    BY DEF Init, Accounted, VerdictIsComplete, None
<1> QED
    BY <1>1, TypeInit, PlaceInit DEF IInv

\* The strengthened invariant is inductive.
LEMMA IInvStep == IInv /\ [Next]_vars => IInv'
BY TypeStep, PlaceStep, AccountedStep, VerdictStep DEF IInv

\* The state of callModelChunks keeps its types in every attempt.
THEOREM TypeCorrect == Spec => []TypeOK
    BY TypeInit, TypeStep, PTL DEF Spec

\* The channels of callModelChunks carry every chunk once, so that its counter
\* counts chunks and no worker blocks on sending.
THEOREM ChunksStayInPlace == Spec => []OnePlacePerChunk
<1>1. IInv => OnePlacePerChunk
    BY DEF IInv
<1> QED
    BY IInvInit, IInvStep, <1>1, PTL DEF Spec

\* callModelChunks never returns an allow or a review for a plan of which a chunk
\* was not judged, in this attempt or in one whose allow was kept.
THEOREM AuditIsComplete == Spec => []VerdictIsComplete
<1>1. IInv => VerdictIsComplete
    BY DEF IInv
<1> QED
    BY IInvInit, IInvStep, <1>1, PTL DEF Spec

-----------------------------------------------------------------------------
(* The refinement of CompleteAudit. *)

\* No block of the model is lost between the goroutines: it is in the channel or
\* was collected, and an attempt that ended without one has met none.
BlockInv ==
    /\ \A c \in Chunks : "block" \in judged[c] =>
          firstBlock # None \/ <<c, "block">> \in results
    /\ firstBlock # None => "block" \in judged[firstBlock]
    /\ verdict # None => results = {} /\ \A w \in Workers : job[w] = "exited"
    /\ verdict = "error" => firstBlock = None

\* A block is collected before the results are drained, whatever was cancelled.
LEMMA BlockStep == IInv /\ BlockInv /\ [Next]_vars => BlockInv'
<1> SUFFICES ASSUME IInv, BlockInv, [Next]_vars PROVE BlockInv'
    OBVIOUS
<1> USE DEF feedVars, foundVars
<1>0. TypeOK
    BY DEF IInv
<1>1. CASE RequestCanceled
    BY <1>1 DEF RequestCanceled, BlockInv
<1>2. CASE FeederReturns
    BY <1>2 DEF FeederReturns, BlockInv
<1>3. ASSUME NEW c \in Chunks, NEW w \in Workers, Hand(c, w) PROVE BlockInv'
    BY <1>3, <1>0 DEF Hand, BlockInv, TypeOK
<1>4. ASSUME NEW w \in Workers, WorkerReturns(w) PROVE BlockInv'
    <2>1. \A v \in Workers : job[v] = "exited" => job'[v] = "exited"
        BY <1>4, <1>0 DEF WorkerReturns, TypeOK
    <2> QED
        BY <1>4, <2>1 DEF WorkerReturns, BlockInv
<1>5. ASSUME NEW w \in Workers, NEW a \in Answers, Answer(w, a) PROVE BlockInv'
    <2>1. PICK k \in Chunks : k = job[w]
        BY <1>5 DEF Answer
    <2>2. /\ results' = results \cup {<<k, a>>}
          /\ judged'[k] = judged[k] \cup ({a} \cap Decisions)
          /\ \A c \in Chunks \ {k} : judged'[c] = judged[c]
          /\ UNCHANGED <<firstBlock, verdict>>
        BY <1>5, <2>1, <1>0 DEF Answer, TypeOK
    <2>3. verdict = None
        BY <2>1 DEF BlockInv
    <2>4. ASSUME NEW c \in Chunks, "block" \in judged'[c]
          PROVE  firstBlock # None \/ <<c, "block">> \in results'
        BY <2>2, <2>4 DEF BlockInv
    <2>5. firstBlock # None => "block" \in judged'[firstBlock]
        BY <2>2, <1>0 DEF BlockInv, TypeOK
    <2> QED
        BY <2>2, <2>3, <2>4, <2>5 DEF BlockInv, None
<1>6. ASSUME NEW c \in Chunks, NEW a \in Answers, Collect(c, a) PROVE BlockInv'
    <2>1. /\ <<c, a>> \in results /\ results' = results \ {<<c, a>>}
          /\ verdict = None /\ UNCHANGED <<judged, verdict, job>>
        BY <1>6 DEF Collect
    <2>2. firstBlock' = IF a = "block" /\ firstBlock = None THEN c ELSE firstBlock
        BY <1>6 DEF Collect
    <2>3. c # None
        BY DEF None
    <2>4. a = "block" => "block" \in judged[c]
        BY <2>1 DEF IInv, Accounted, Decisions
    <2>5. ASSUME NEW k \in Chunks, "block" \in judged[k]
          PROVE  firstBlock' # None \/ <<k, "block">> \in results'
        BY <2>1, <2>2, <2>3, <2>5 DEF BlockInv
    <2> QED
        BY <2>1, <2>2, <2>4, <2>5 DEF BlockInv, None
<1>7. CASE Return
    <2>1. verdict' = "error" => firstBlock = None
        BY <1>7 DEF Return, Outcome
    <2> QED
        BY <1>7, <2>1 DEF Return, BlockInv
<1>8. CASE Retry
    <2>1. /\ verdict = "error" /\ verdict' = None /\ firstBlock' = None
          /\ UNCHANGED judged
        BY <1>8 DEF Retry, CallAgain
    <2>2. \A c \in Chunks : "block" \notin judged[c]
        BY <2>1 DEF BlockInv, None
    <2> QED
        BY <2>1, <2>2 DEF BlockInv, None
<1>9. CASE UNCHANGED vars
    BY <1>9 DEF vars, BlockInv
<1> QED
    BY <1>1, <1>2, <1>3, <1>4, <1>5, <1>6, <1>7, <1>8, <1>9
    DEF Next, Feeder, WorkerStep, Collector

\* The chunks are not judged and nothing is returned.
LEMMA RefinementInit == Init => Whole!Init
BY DEF Init, Whole!Init, Final, None

\* What the collector returns once the results are drained is justified by what
\* the model said.
LEMMA ReturnIsJustified ==
    ASSUME IInv, BlockInv, VerdictIsComplete', Return
    PROVE  verdict' \in Whole!Verdicts /\ Whole!Justified(verdict')
<1>1. results = {} /\ UNCHANGED judged /\ verdict' = Outcome
    BY DEF Return
<1>2. verdict' \in {"block", "error", "review", "allow"}
    BY <1>1 DEF Outcome
<1>3. verdict' = "block" <=> firstBlock # None
    BY <1>1 DEF Outcome
<1>4. (\E c \in Chunks : "block" \in judged[c]) => verdict' = "block"
    BY <1>1, <1>3 DEF BlockInv
<1>5. verdict' = "block" => \E c \in Chunks : "block" \in judged[c]
    BY <1>3 DEF BlockInv, IInv, TypeOK
<1>6. /\ verdict' = "allow" => \A c \in Chunks : "allow" \in judged[c]
      /\ verdict' = "review" => \A c \in Chunks : judged[c] # {}
    BY <1>1 DEF VerdictIsComplete
<1>7. verdict' \in {"allow", "review"} =>
          \A c \in Chunks : judged[c] # {} /\ "block" \notin judged[c]
    BY <1>4, <1>6
<1> QED
    BY <1>2, <1>4, <1>5, <1>6, <1>7
    DEF Whole!Verdicts, Whole!Decisions, Whole!Justified

\* Every step of the goroutines is a judgement, the return of a final verdict, or
\* invisible: an error that is retried is not the verdict of the audit.
LEMMA RefinementStep ==
    ASSUME IInv, BlockInv, [Next]_vars, VerdictIsComplete'
    PROVE  [Whole!Next]_(Whole!vars)
<1> USE DEF feedVars, foundVars
<1>0. TypeOK
    BY DEF IInv
<1>1. CASE UNCHANGED <<judged, verdict, attempt, request>>
    BY <1>1 DEF Whole!vars, Final
<1>2. CASE RequestCanceled
    <2>1. /\ UNCHANGED <<judged, verdict, attempt>>
          /\ request = "live" /\ request' = "canceled"
        BY <1>2 DEF RequestCanceled
    <2>2. CASE verdict = "error" /\ attempt # MaxAttempts
        <3>1. \A c \in Chunks : "block" \notin judged[c]
            BY <2>2 DEF BlockInv, None
        <3>2. Whole!Return("error")
            BY <2>1, <2>2, <3>1 DEF Whole!Return, Whole!Justified, Final, None
        <3> QED
            BY <3>2 DEF Whole!Next, Whole!Verdicts
    <2>3. CASE ~(verdict = "error" /\ attempt # MaxAttempts)
        BY <2>1, <2>3 DEF Whole!vars, Final
    <2> QED
        BY <2>2, <2>3
<1>3. ASSUME NEW w \in Workers, NEW a \in Answers, Answer(w, a)
      PROVE  [Whole!Next]_(Whole!vars)
    <2>1. PICK k \in Chunks : k = job[w]
        BY <1>3 DEF Answer
    <2>2. /\ judged' = [judged EXCEPT ![k] = @ \cup ({a} \cap Decisions)]
          /\ UNCHANGED <<verdict, attempt, request>>
        BY <1>3, <2>1 DEF Answer
    <2>3. verdict = None
        BY <2>1 DEF BlockInv
    <2>4. CASE a \in Decisions
        <3>1. judged' = [judged EXCEPT ![k] = @ \cup {a}]
            BY <2>2, <2>4, <1>0 DEF TypeOK
        <3>2. Whole!Judge(k, a)
            BY <2>2, <2>3, <3>1 DEF Whole!Judge, Final, None
        <3>3. a \in Whole!Decisions
            BY <2>4 DEF Decisions, Whole!Decisions
        <3> QED
            BY <3>2, <3>3 DEF Whole!Next
    <2>5. CASE a \notin Decisions
        <3>1. judged' = judged
            BY <2>2, <2>5, <1>0 DEF TypeOK
        <3> QED
            BY <1>1, <2>2, <3>1
    <2> QED
        BY <2>4, <2>5
<1>4. CASE Return
    <2>1. verdict = None /\ UNCHANGED <<judged, attempt, request>>
        BY <1>4 DEF Return
    <2>2. CASE ~Final'
        BY <2>1, <2>2 DEF Whole!vars, Final, None
    <2>3. CASE Final'
        <3>1. verdict' \in Whole!Verdicts /\ Whole!Justified(verdict')
            BY <1>4, ReturnIsJustified
        <3>2. Whole!Return(verdict')
            BY <2>1, <2>3, <3>1 DEF Whole!Return, Final, None
        <3> QED
            BY <3>1, <3>2 DEF Whole!Next
    <2> QED
        BY <2>2, <2>3
<1>5. CASE Retry
    <2>1. /\ verdict = "error" /\ request = "live" /\ attempt < MaxAttempts
          /\ verdict' = None /\ UNCHANGED judged
        BY <1>5 DEF Retry, CallAgain
    <2>2. ~Final
        BY <2>1, <1>0 DEF Final, TypeOK
    <2> QED
        BY <2>1, <2>2 DEF Whole!vars, Final, None
<1>6. ASSUME NEW c \in Chunks, NEW a \in Answers, Collect(c, a)
      PROVE  UNCHANGED <<judged, verdict, attempt, request>>
    BY <1>6 DEF Collect
<1>7. ASSUME FeederReturns \/ (\E c \in Chunks, w \in Workers : Hand(c, w))
             \/ (\E w \in Workers : WorkerReturns(w)) \/ UNCHANGED vars
      PROVE  UNCHANGED <<judged, verdict, attempt, request>>
    BY <1>7 DEF FeederReturns, Hand, WorkerReturns, vars
<1> QED
    BY <1>1, <1>2, <1>3, <1>4, <1>5, <1>6, <1>7
    DEF Next, Feeder, WorkerStep, Collector

\* callModelChunks with its feeder, its workers, its collector and its retries
\* implements CompleteAudit: no block is forgotten, and nothing is allowed or put
\* under review that was not judged in full.
THEOREM Refinement == Spec => ImplementsCompleteAudit
<1>1. Init => BlockInv
    BY DEF Init, BlockInv
<1>2. IInv /\ BlockInv /\ [Next]_vars => IInv' /\ BlockInv'
    BY IInvStep, BlockStep
<1>3. IInv' => VerdictIsComplete'
    BY DEF IInv
<1>4. IInv /\ BlockInv /\ [Next]_vars => [Whole!Next]_(Whole!vars)
    BY <1>2, <1>3, RefinementStep
<1> QED
    BY <1>1, <1>2, <1>4, IInvInit, RefinementInit, PTL
    DEF Spec, ImplementsCompleteAudit, Whole!Spec
=============================================================================
