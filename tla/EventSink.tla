------------------------------ MODULE EventSink ------------------------------
(***************************************************************************)
(* The Kafka event sink (internal/platform/kafka.go) and the outbox table  *)
(* behind it (internal/platform/store_traces.go).  A stored trace event is *)
(* offered to a bounded in-process queue; one worker writes the queue to   *)
(* Kafka in batches; what the queue or Kafka refuses becomes an outbox     *)
(* row.  The outbox workers of all replicas claim rows with a 30 second    *)
(* lock (FOR UPDATE SKIP LOCKED) and write them one at a time.             *)
(*                                                                         *)
(* The write path is that of one process; the outbox table is what the     *)
(* replicas share.  Time is abstract: a lock and a back-off end at some    *)
(* moment after they began.                                                *)
(***************************************************************************)
EXTENDS TraceEvents

CONSTANTS
    Replicas,     \* processes running an outbox worker
    SinkQueue,    \* capacity of the in-process queue
    SinkBatch,    \* batch that forces a write (200)
    ClaimLimit    \* rows one ClaimOutbox takes (100)

ASSUME EventSinkAssumption ==
    /\ SinkQueue \in Nat
    /\ SinkBatch \in Nat \ {0}
    /\ ClaimLimit \in Nat \ {0}

VARIABLES
    unoffered,   \* events not yet passed to PublishTrace
    squeue,      \* EventSink.queue
    sbatch,      \* the batch of writeWorker
    spending,    \* the events of the flush it is in
    spc,         \* "run", "drain", "write", "spill" or "exited"
    sthen,       \* where flush returns to
    stopping,    \* eventCancel() was called
    row,         \* outbox row: "none", "ready", "locked", "backoff", "published"
    claimed,     \* rows each outbox worker holds, not yet written
    current,     \* the row it is marking and how, or NoMark
    topic,       \* events with at least one copy in the Kafka topic
    unlogged     \* events of which only a log line remains: the encoding or the
                 \* outbox insert failed

NoMark == <<>>
MarkKinds == {"published", "failed"}

writerVars == <<squeue, sbatch, spending, spc, sthen>>
outboxVars == <<row, claimed, current>>
sinkVars == <<unoffered, writerVars, stopping, outboxVars, topic, unlogged>>

SinkInit ==
    /\ unoffered = Events
    /\ squeue = {} /\ sbatch = {} /\ spending = {}
    /\ spc = "run" /\ sthen = "run"
    /\ stopping = FALSE
    /\ row = [e \in Events |-> "none"]
    /\ claimed = [r \in Replicas |-> {}]
    /\ current = [r \in Replicas |-> NoMark]
    /\ topic = {}
    /\ unlogged = {}

-----------------------------------------------------------------------------
(* PublishTrace and the outbox insert. *)

\* EnqueueOutbox inside enqueueOutbox: a row, or an error that is only logged.
Spill(e) ==
    \/ row' = [row EXCEPT ![e] = "ready"] /\ UNCHANGED unlogged
    \/ unlogged' = unlogged \cup {e} /\ UNCHANGED row

SinkRoom == Cardinality(squeue) < SinkQueue

PublishQueued(e) ==
    /\ e \in unoffered
    /\ SinkRoom
    /\ unoffered' = unoffered \ {e}
    /\ squeue' = squeue \cup {e}
    /\ UNCHANGED <<sbatch, spending, spc, sthen, stopping, outboxVars, topic,
                   unlogged>>

PublishOverflow(e) ==
    /\ e \in unoffered
    /\ ~SinkRoom
    /\ unoffered' = unoffered \ {e}
    /\ Spill(e)
    /\ UNCHANGED <<writerVars, stopping, claimed, current, topic>>

\* json.Marshal refused the event: an error that is only logged.
PublishUnencoded(e) ==
    /\ e \in unoffered
    /\ unoffered' = unoffered \ {e}
    /\ unlogged' = unlogged \cup {e}
    /\ UNCHANGED <<writerVars, stopping, outboxVars, topic>>

\* PublishTrace: the encoding, and the select.
Offer(e) == PublishQueued(e) \/ PublishOverflow(e) \/ PublishUnencoded(e)

\* Nobody calls PublishTrace after eventCancel: main has waited for the trace
\* workers by then (TracePipeline).
OfferAny == ~stopping /\ \E e \in Events : Offer(e)

-----------------------------------------------------------------------------
(* writeWorker. *)

StartWrite(events, next) ==
    /\ sbatch' = {}
    /\ IF events = {}
          THEN spc' = next /\ UNCHANGED <<spending, sthen>>
          ELSE spc' = "write" /\ spending' = events /\ sthen' = next

WriterTake(e) ==
    /\ spc \in {"run", "drain"}
    /\ e \in squeue
    /\ squeue' = squeue \ {e}
    /\ LET filled == sbatch \cup {e}
       IN  IF Cardinality(filled) >= SinkBatch
              THEN StartWrite(filled, spc)
              ELSE sbatch' = filled /\ UNCHANGED <<spending, spc, sthen>>
    /\ UNCHANGED <<unoffered, stopping, outboxVars, topic, unlogged>>

WriterTick ==
    /\ spc = "run"
    /\ sbatch # {}
    /\ StartWrite(sbatch, "run")
    /\ UNCHANGED <<unoffered, squeue, stopping, outboxVars, topic, unlogged>>

WriterBeginDrain ==
    /\ spc = "run"
    /\ stopping
    /\ spc' = "drain"
    /\ UNCHANGED <<unoffered, squeue, sbatch, spending, sthen, stopping,
                   outboxVars, topic, unlogged>>

WriterEndDrain ==
    /\ spc = "drain"
    /\ squeue = {}
    /\ StartWrite(sbatch, "exited")
    /\ UNCHANGED <<unoffered, squeue, stopping, outboxVars, topic, unlogged>>

\* Kafka, external: one more copy of each event of S.  Consumers see every copy;
\* the properties tell apart only whether there is one.
Deliver(S) == topic' = topic \cup S

\* WriteMessages returned nil: every message was acknowledged by all replicas.
WriteOK ==
    /\ spc = "write"
    /\ Deliver(spending)
    /\ spending' = {}
    /\ spc' = sthen
    /\ UNCHANGED <<unoffered, squeue, sbatch, sthen, stopping, outboxVars,
                   unlogged>>

\* Mutant of WriteFails: the batch is forgotten.
WriteFailsForgets ==
    /\ spc = "write"
    /\ \E S \in SUBSET spending : Deliver(S)
    /\ spending' = {}
    /\ spc' = sthen
    /\ UNCHANGED <<unoffered, squeue, sbatch, sthen, stopping, outboxVars,
                   unlogged>>

\* WriteMessages failed: any part of the batch may have been written.
WriteFails ==
    /\ spc = "write"
    /\ \E S \in SUBSET spending : Deliver(S)
    /\ spc' = "spill"
    /\ UNCHANGED <<unoffered, squeue, sbatch, spending, sthen, stopping,
                   outboxVars, unlogged>>

\* enqueueOutbox for every event of the failed batch.
WriterSpill(e) ==
    /\ spc = "spill"
    /\ e \in spending
    /\ Spill(e)
    /\ spending' = spending \ {e}
    /\ spc' = IF spending = {e} THEN sthen ELSE "spill"
    /\ UNCHANGED <<unoffered, squeue, sbatch, sthen, stopping, claimed, current,
                   topic>>

-----------------------------------------------------------------------------
(* outboxWorker of replica r. *)

Idle(r) == claimed[r] = {} /\ current[r] = NoMark

\* ClaimOutbox: locks rows that are due, leaving out (SKIP LOCKED) those another
\* claim is about to lock.  When reading the answer fails the rows stay locked
\* and the worker has none of them.
Claim(r, S) ==
    /\ Idle(r)
    /\ S # {} /\ Cardinality(S) <= ClaimLimit
    /\ \A e \in S : row[e] = "ready"
    /\ row' = [e \in Events |-> IF e \in S THEN "locked" ELSE row[e]]
    /\ \/ claimed' = [claimed EXCEPT ![r] = S]
       \/ UNCHANGED claimed
    /\ UNCHANGED <<unoffered, writerVars, stopping, current, topic, unlogged>>

\* WriteMessages for one claimed row.
Send(r, e, how) ==
    /\ e \in claimed[r] /\ current[r] = NoMark
    /\ claimed' = [claimed EXCEPT ![r] = @ \ {e}]
    /\ current' = [current EXCEPT ![r] = <<e, how>>]
    /\ \/ Deliver({e})
       \/ how = "failed" /\ UNCHANGED topic
    /\ UNCHANGED <<unoffered, writerVars, stopping, row, unlogged>>

\* MarkOutboxPublished and MarkOutboxFailed: an UPDATE by id whose error is
\* ignored.  MarkOutboxFailed leaves published_at alone.
Marked(state, how) ==
    CASE how = "published" -> "published"
      [] state = "published" -> "published"
      [] OTHER -> "backoff"

Mark(r) ==
    /\ current[r] # NoMark
    /\ LET e == current[r][1]
       IN  \/ row' = [row EXCEPT ![e] = Marked(row[e], current[r][2])]
           \/ UNCHANGED row
    /\ current' = [current EXCEPT ![r] = NoMark]
    /\ UNCHANGED <<unoffered, writerVars, stopping, claimed, topic, unlogged>>

\* Mutant of LockExpires: a lock ends only with the worker that holds it.
LockHeldExpires(e) ==
    /\ row[e] = "locked"
    /\ \E r \in Replicas : e \in claimed[r]
    /\ row' = [row EXCEPT ![e] = "ready"]
    /\ UNCHANGED <<unoffered, writerVars, stopping, claimed, current, topic,
                   unlogged>>

\* locked_until passes: the row can be claimed again, whoever holds it.
LockExpires(e) ==
    /\ row[e] = "locked"
    /\ row' = [row EXCEPT ![e] = "ready"]
    /\ UNCHANGED <<unoffered, writerVars, stopping, claimed, current, topic,
                   unlogged>>

\* next_attempt_at passes.
BackoffEnds(e) ==
    /\ row[e] = "backoff"
    /\ row' = [row EXCEPT ![e] = "ready"]
    /\ UNCHANGED <<unoffered, writerVars, stopping, claimed, current, topic,
                   unlogged>>

\* A replica stops or crashes with claimed rows; a new one takes its place.
Restart(r) ==
    /\ ~Idle(r)
    /\ claimed' = [claimed EXCEPT ![r] = {}]
    /\ current' = [current EXCEPT ![r] = NoMark]
    /\ UNCHANGED <<unoffered, writerVars, stopping, row, topic, unlogged>>

\* eventCancel() in main.
EventCancel ==
    /\ ~stopping
    /\ stopping' = TRUE
    /\ UNCHANGED <<unoffered, writerVars, outboxVars, topic, unlogged>>

-----------------------------------------------------------------------------

WriteWorker ==
    \/ \E e \in Events : WriterTake(e) \/ WriterSpill(e)
    \/ WriterTick \/ WriterBeginDrain \/ WriterEndDrain \/ WriteOK \/ WriteFails

ClaimAny(r) == \E S \in SUBSET Events : Claim(r, S)

SendAny(r) == \E e \in Events, how \in MarkKinds : Send(r, e, how)

Outbox(r) == ClaimAny(r) \/ SendAny(r) \/ Mark(r) \/ Restart(r)

\* Whatever goes on behind the queue, in this process and in the others.
Delivering ==
    \/ WriteWorker
    \/ \E r \in Replicas : Outbox(r)
    \/ \E e \in Events : LockExpires(e) \/ BackoffEnds(e)

SinkNext == OfferAny \/ Delivering \/ EventCancel

SinkSpec == SinkInit /\ [][SinkNext]_sinkVars

(***************************************************************************)
(* Workers run, locks and back-offs end, and the two services are not down *)
(* for ever: of all the tries of all the replicas, some claim, some write  *)
(* and some mark succeeds.                                                 *)
(***************************************************************************)
FairSinkSpec ==
    /\ SinkSpec
    /\ WF_sinkVars(WriteWorker)
    /\ \A r \in Replicas : WF_sinkVars(Mark(r))
    /\ \A e \in Events : WF_sinkVars(LockExpires(e)) /\ WF_sinkVars(BackoffEnds(e))
    /\ \A e \in Events :
          /\ SF_sinkVars(\E r \in Replicas, S \in SUBSET Events :
                        e \in S /\ Claim(r, S) /\ claimed'[r] = S)
          /\ SF_sinkVars(\E r \in Replicas : Send(r, e, "published"))
          /\ SF_sinkVars(\E r \in Replicas : current[r] = <<e, "published">>
                                         /\ Mark(r) /\ row'[e] = "published")

-----------------------------------------------------------------------------
(* Properties. *)

SinkTypeOK ==
    /\ unoffered \in SUBSET Events
    /\ squeue \in SUBSET Events /\ Cardinality(squeue) <= SinkQueue
    /\ sbatch \in SUBSET Events
    /\ spending \in SUBSET Events
    /\ spc \in {"run", "drain", "write", "spill", "exited"}
    /\ sthen \in {"run", "drain", "exited"}
    /\ stopping \in BOOLEAN
    /\ row \in [Events -> {"none", "ready", "locked", "backoff", "published"}]
    /\ claimed \in [Replicas -> SUBSET Events]
    /\ current \in [Replicas -> {NoMark} \cup (Events \X MarkKinds)]
    /\ topic \in SUBSET Events
    /\ unlogged \in SUBSET Events

(***************************************************************************)
(* A row is closed only by a write Kafka acknowledged, whichever replica   *)
(* marks it and in whatever order the marks of two claims arrive.          *)
(***************************************************************************)
PublishedRowsAreInTopic ==
    \A e \in Events : row[e] = "published" => e \in topic

\* Where an offered event is once PublishTrace has returned.
InSink(e) == e \in squeue \cup sbatch \cup spending
Delivered(e) == e \in topic \/ row[e] # "none" \/ e \in unlogged

\* writeWorker returns with nothing in the queue or in a batch.
WriterLeavesNothing == spc = "exited" => \A e \in Events : ~InSink(e)

(***************************************************************************)
(* At least once: an offered event is still in memory, in the topic, in    *)
(* the outbox, or its encoding or its outbox insert failed ("Kafka         *)
(* 写失败进入 PostgreSQL Outbox", README.md); a row of the outbox is       *)
(* closed only by a write, and the shutdown leaves none in memory.         *)
(***************************************************************************)
NothingLost ==
    /\ SinkTypeOK
    /\ PublishedRowsAreInTopic
    /\ WriterLeavesNothing
    /\ \A e \in Events \ unoffered : InSink(e) \/ Delivered(e)

(***************************************************************************)
(* Every row is published in the end, whatever lock was lost on the way,   *)
(* and stays so: the late failure of a replica whose lock expired cannot   *)
(* reopen it (MarkOutboxFailed).                                           *)
(***************************************************************************)
RowsArePublished ==
    \A e \in Events : row[e] # "none" ~> [](row[e] = "published")
=============================================================================
