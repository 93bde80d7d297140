---------------------------- MODULE ChunkedAudit ----------------------------
(***************************************************************************)
(* AuditEngine.callModelChunks (internal/platform/audit_long_context.go)   *)
(* for a request of two or more chunks, together with the retries that     *)
(* call it again for the same profile and the same chunks and reuse the    *)
(* allow decisions kept in the checkpoint (audit_chunk_checkpoint.go).     *)
(*                                                                         *)
(* A feeder goroutine hands chunk indexes over an unbuffered channel to a  *)
(* pool of workers; each worker asks the model and sends the answer to a   *)
(* channel that can hold one answer per chunk; the caller collects until   *)
(* every worker has left.  The first block and the first error cancel the  *)
(* workers.  The model is external: its answers are arbitrary.             *)
(***************************************************************************)
EXTENDS Naturals, FiniteSets

CONSTANTS
    Chunks,       \* the chunk indexes of the plan
    Workers,      \* min(chunkConcurrency, len(chunks)) goroutines
    MaxAttempts,  \* calls for one profile: 1 + retries of callModelWithFailover
    Checkpointing \* the profile names no panel or verifier: checkpoint # nil

ASSUME ChunkedAuditAssumption ==
    /\ IsFiniteSet(Chunks) /\ Chunks # {}
    /\ \A name \in {"idle", "exited", "none"} : name \notin Chunks
    /\ MaxAttempts \in Nat \ {0}
    /\ Checkpointing \in BOOLEAN

Decisions == {"allow", "review", "block"}

\* What callModelOnceWithEvidenceSource may return: a decision, a decision that
\* is none of the three, or an error.
Answers == Decisions \cup {"invalid", "err"}

None == "none"

VARIABLES
    attempt,     \* number of the current call of callModelChunks
    request,     \* the caller's ctx: "live" or "canceled"
    canceled,    \* workerContext was cancelled by the collector
    checkpoint,  \* chunks whose allow is kept for a retry
    unfed,       \* chunks the feeder has still to hand out
    closed,      \* the feeder has returned and closed jobs
    job,         \* the chunk each worker works on, or "idle" or "exited"
    results,     \* the results channel: <<chunk, answer>> not yet collected
    firstBlock, firstError, anyReview,   \* the collector's findings
    completed,   \* the collector's counter
    collected,   \* the chunks it has counted
    judged,      \* chunk -> decisions the model gave for it in this request
    verdict      \* what callModelChunks returned, "none" while it runs

feedVars == <<unfed, closed>>
foundVars == <<firstBlock, firstError, anyReview, completed, collected>>
vars == <<attempt, request, canceled, checkpoint, feedVars, job, results,
          foundVars, judged, verdict>>

\* The results already queued when the workers start: the cached allows.
Cached(C) == {<<c, "allow">> : c \in C}

Init ==
    /\ attempt = 1
    /\ request = "live"
    /\ canceled = FALSE
    /\ checkpoint = {}
    /\ unfed = Chunks /\ closed = FALSE
    /\ job = [w \in Workers |-> "idle"]
    /\ results = {}
    /\ firstBlock = None /\ firstError = FALSE /\ anyReview = FALSE
    /\ completed = 0 /\ collected = {}
    /\ judged = [c \in Chunks |-> {}]
    /\ verdict = None

\* workerContext.Done(): cancelled by the collector or with the request.
WorkerDone == canceled \/ request = "canceled"

\* The client leaves, or the deadline of fullAuditContext passes.
RequestCanceled ==
    /\ request = "live"
    /\ request' = "canceled"
    /\ UNCHANGED <<attempt, canceled, checkpoint, feedVars, job, results,
                   foundVars, judged, verdict>>

-----------------------------------------------------------------------------
(* The feeder and the workers. *)

\* jobs <- index meets index := <-jobs.
Hand(c, w) ==
    /\ c \in unfed /\ ~closed
    /\ job[w] = "idle"
    /\ unfed' = unfed \ {c}
    /\ job' = [job EXCEPT ![w] = c]
    /\ UNCHANGED <<attempt, request, canceled, checkpoint, closed, results,
                   foundVars, judged, verdict>>

\* Mutant of FeederReturns: no case for the context.
FeederIgnoresContext ==
    /\ ~closed
    /\ unfed = {}
    /\ closed' = TRUE
    /\ UNCHANGED <<attempt, request, canceled, checkpoint, unfed, job, results,
                   foundVars, judged, verdict>>

\* The feeder returns at the end of the plan or when the context is done.
FeederReturns ==
    /\ ~closed
    /\ unfed = {} \/ WorkerDone
    /\ closed' = TRUE
    /\ UNCHANGED <<attempt, request, canceled, checkpoint, unfed, job, results,
                   foundVars, judged, verdict>>

\* The model answers for the chunk of w, which sends the result on.
Answer(w, a) ==
    /\ job[w] \in Chunks
    /\ results' = results \cup {<<job[w], a>>}
    /\ judged' = [judged EXCEPT ![job[w]] = @ \cup ({a} \cap Decisions)]
    /\ job' = [job EXCEPT ![w] = "idle"]
    /\ UNCHANGED <<attempt, request, canceled, checkpoint, feedVars, foundVars,
                   verdict>>

\* A worker leaves when the context is done or jobs is closed.
WorkerReturns(w) ==
    /\ job[w] = "idle"
    /\ WorkerDone \/ closed
    /\ job' = [job EXCEPT ![w] = "exited"]
    /\ UNCHANGED <<attempt, request, canceled, checkpoint, feedVars, results,
                   foundVars, judged, verdict>>

-----------------------------------------------------------------------------
(* The collector. *)

\* Mutant of Put: everything but a block or an error is reused as an allow.
PutReview(c, a) ==
    checkpoint' = IF a \in {"allow", "review"} THEN checkpoint \cup {c} ELSE checkpoint

\* auditChunkCheckpoint.put keeps nothing but an allow.
Put(c, a) ==
    checkpoint' = IF Checkpointing /\ a = "allow" THEN checkpoint \cup {c}
                                                  ELSE checkpoint

Collect(c, a) ==
    /\ verdict = None
    /\ <<c, a>> \in results
    /\ results' = results \ {<<c, a>>}
    /\ Put(c, a)
    /\ completed' = completed + 1
    /\ collected' = collected \cup {c}
    /\ \/ /\ a = "err"
          /\ firstError' = (firstError \/ firstBlock = None)
          /\ canceled' = (canceled \/ (firstBlock = None /\ ~firstError))
          /\ UNCHANGED <<firstBlock, anyReview>>
       \/ /\ a = "block"
          /\ firstBlock' = IF firstBlock = None THEN c ELSE firstBlock
          /\ canceled' = TRUE
          /\ UNCHANGED <<firstError, anyReview>>
       \/ /\ a = "review"
          /\ anyReview' = TRUE
          /\ UNCHANGED <<firstBlock, firstError, canceled>>
       \/ /\ a = "allow"
          /\ UNCHANGED <<firstBlock, firstError, anyReview, canceled>>
       \/ /\ a = "invalid"
          /\ firstError' = TRUE
          /\ canceled' = TRUE
          /\ UNCHANGED <<firstBlock, anyReview>>
    /\ UNCHANGED <<attempt, request, feedVars, job, judged, verdict>>

\* Mutant of Outcome: neither the context nor the count is consulted.
OutcomePartial ==
    CASE firstBlock # None -> "block"
      [] firstBlock = None /\ firstError -> "error"
      [] OTHER -> IF anyReview THEN "review" ELSE "allow"

\* What is returned once results is closed and drained.
Outcome ==
    CASE firstBlock # None              -> "block"
      [] firstBlock = None /\ firstError -> "error"
      [] OTHER ->
            IF request = "canceled" \/ completed < Cardinality(Chunks)
               THEN "error"
               ELSE IF anyReview THEN "review" ELSE "allow"

Return ==
    /\ verdict = None
    /\ \A w \in Workers : job[w] = "exited"
    /\ results = {}
    /\ verdict' = Outcome
    /\ canceled' = TRUE          \* defer cancel()
    /\ UNCHANGED <<attempt, request, checkpoint, feedVars, job, results,
                   foundVars, judged>>

\* A further call of callModelChunks, which feeds the chunks of plan.  Each call
\* has channels of its own, so the feeder of the last one may be taken to have
\* left by then.
CallAgain(plan) ==
    /\ verdict = "error"
    /\ request = "live"
    /\ closed
    /\ attempt' = attempt + 1
    /\ canceled' = FALSE
    /\ unfed' = plan /\ closed' = FALSE
    /\ job' = [w \in Workers |-> "idle"]
    /\ results' = Cached(checkpoint)
    /\ firstBlock' = None /\ firstError' = FALSE /\ anyReview' = FALSE
    /\ completed' = 0 /\ collected' = {}
    /\ verdict' = None
    /\ UNCHANGED <<request, checkpoint, judged>>

\* Mutant of Retry: no bound on the attempts.
RetryForever == CallAgain(Chunks \ checkpoint)

\* Mutant of Retry: the cached chunks are fed again.
RetryFeedsAll == attempt < MaxAttempts /\ CallAgain(Chunks)

\* callModelWithFailover tries the same profile again after a retryable error.
Retry == attempt < MaxAttempts /\ CallAgain(Chunks \ checkpoint)

-----------------------------------------------------------------------------

Feeder == FeederReturns \/ \E c \in Chunks, w \in Workers : Hand(c, w)

WorkerStep(w) == WorkerReturns(w) \/ \E a \in Answers : Answer(w, a)

Collector == Return \/ \E c \in Chunks, a \in Answers : Collect(c, a)

Next ==
    \/ RequestCanceled \/ Feeder \/ Collector \/ Retry
    \/ \E w \in Workers : WorkerStep(w)

Spec == Init /\ [][Next]_vars

\* The goroutines run, and a model call ends: it has its own HTTP timeout.
FairSpec ==
    /\ Spec
    /\ WF_vars(Feeder) /\ WF_vars(Collector)
    /\ \A w \in Workers : WF_vars(WorkerStep(w))

-----------------------------------------------------------------------------
(* Properties. *)

TypeOK ==
    /\ attempt \in 1 .. MaxAttempts
    /\ request \in {"live", "canceled"}
    /\ canceled \in BOOLEAN
    /\ checkpoint \in SUBSET Chunks
    /\ unfed \in SUBSET Chunks /\ closed \in BOOLEAN
    /\ job \in [Workers -> Chunks \cup {"idle", "exited"}]
    /\ results \in SUBSET (Chunks \X Answers)
    /\ firstBlock \in Chunks \cup {None}
    /\ firstError \in BOOLEAN /\ anyReview \in BOOLEAN
    /\ completed \in Nat /\ collected \in SUBSET Chunks
    /\ judged \in [Chunks -> SUBSET Decisions]
    /\ verdict \in Decisions \cup {"error", None}

(***************************************************************************)
(* "Never return review/allow until every chunk has produced a decision":  *)
(* an allowed request had every one of its chunks allowed by the model, in *)
(* this call or in an earlier attempt whose allow was kept; and a request  *)
(* under review had every chunk judged.                                    *)
(***************************************************************************)
VerdictIsComplete ==
    /\ verdict = "allow" => \A c \in Chunks : "allow" \in judged[c]
    /\ verdict = "review" => \A c \in Chunks : judged[c] # {}

(***************************************************************************)
(* The results channel never fills: every chunk is in one place, still to  *)
(* be fed, with one worker, in the channel or collected, so a worker never *)
(* blocks on sending and the collector's counter counts chunks.            *)
(***************************************************************************)
OnePlacePerChunk ==
    /\ completed = Cardinality(collected)
    /\ \A p, q \in results : p[1] = q[1] => p = q
    /\ \A v, w \in Workers : job[v] = job[w] /\ job[v] \in Chunks => v = w
    /\ \A p \in results : p[1] \notin unfed \cup collected
    /\ \A w \in Workers : job[w] \notin unfed \cup collected \cup {p[1] : p \in results}
    /\ unfed \cap collected = {}

(***************************************************************************)
(* Nobody waits for ever on a channel: every call returns a verdict, and   *)
(* its goroutines end with it, the feeder too when it was cut short.       *)
(***************************************************************************)
CallEnds ==
    /\ verdict = None ~> verdict # None
    /\ verdict # None ~> (closed /\ \A w \in Workers : job[w] = "exited")

(***************************************************************************)
(* The call implements CompleteAudit.  A retried error is no verdict yet:  *)
(* the audit as a whole is still under way.                                *)
(***************************************************************************)
Final == attempt = MaxAttempts \/ request = "canceled" \/ verdict # "error"

Whole == INSTANCE CompleteAudit
            WITH judged <- judged,
                 verdict <- IF Final THEN verdict ELSE None

ImplementsCompleteAudit == Whole!Spec
=============================================================================
