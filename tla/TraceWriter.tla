----------------------------- MODULE TraceWriter -----------------------------
(***************************************************************************)
(* The asynchronous trace writer (internal/platform/trace_writer.go):      *)
(* request handlers submit finished trace events to a bounded queue, a     *)
(* pool of workers moves them to PostgreSQL in batches, and what cannot be *)
(* stored goes to the Redis dead letter stream.  Stored events are handed  *)
(* to the Kafka sink.  cmd/riskd/main.go stops the server, then cancels    *)
(* the workers' context and waits for them.                                *)
(*                                                                         *)
(* The queue and the batches are sets: several workers take from the queue *)
(* at once, so no consumer can rely on an order.                           *)
(***************************************************************************)
EXTENDS TraceEvents

CONSTANTS
    Workers,     \* the goroutines of TraceWriter.Start
    ExtIds,      \* external event ids of the tracking API
    External,    \* Events -> ExtIds \cup {NoExt}: event.ExternalEventID
    NoExt,       \* the empty ExternalEventID of the gateway's own traces
    QueueSize,   \* cfg.TraceQueueSize
    BatchSize    \* cfg.TraceBatchSize

ASSUME TraceWriterAssumption ==
    /\ Workers # {}
    /\ NoExt \notin ExtIds
    /\ External \in [Events -> ExtIds \cup {NoExt}]
    /\ QueueSize \in Nat
    /\ BatchSize \in Nat \ {0}

VARIABLES
    fresh,      \* events no handler has submitted yet
    queue,      \* TraceWriter.queue
    pc,         \* where each worker is
    then,       \* where it goes on after flush: "run", "drain" or "exited"
    batch,      \* its batch
    pending,    \* the events of the flush it is in
    rows,       \* events with a row in request_traces
    dedupe,     \* request_dedupe
    dlq,        \* events in a Redis dead letter stream
    handed,     \* events given to EventSink.PublishTrace
    gone,       \* events neither stored nor dead-lettered
    dropped,    \* TraceWriter.dropped
    server,     \* "serving", "graceful" (Shutdown returned nil) or "forced"
    main        \* "serving", "waiting" (after traceCancel) or "stopped"

workerVars == <<pc, then, batch, pending>>
storeVars == <<rows, dedupe>>
serverVars == <<server, main>>
vars == <<fresh, queue, workerVars, storeVars, dlq, handed, gone, dropped,
          serverVars>>

Init ==
    /\ fresh = Events
    /\ queue = {}
    /\ pc = [w \in Workers |-> "run"]
    /\ then = [w \in Workers |-> "run"]
    /\ batch = [w \in Workers |-> {}]
    /\ pending = [w \in Workers |-> {}]
    /\ rows = {} /\ dedupe = {} /\ dlq = {} /\ handed = {}
    /\ gone = {} /\ dropped = 0
    /\ server = "serving" /\ main = "serving"

-----------------------------------------------------------------------------
(* Submit, called by a request handler. *)

\* Handlers run until the server has stopped them.  Shutdown waits for them;
\* after its timeout Close abandons them and they may submit until the process
\* exits.
HandlersRun == server # "graceful"

Room == Cardinality(queue) < QueueSize

SubmitQueued(e) ==
    /\ HandlersRun
    /\ e \in fresh
    /\ Room
    /\ fresh' = fresh \ {e}
    /\ queue' = queue \cup {e}
    /\ UNCHANGED <<workerVars, storeVars, dlq, handed, gone, dropped, serverVars>>

\* dropped is counted whether or not the dead letter stream takes the event.
DeadLetterOverflow(e) ==
    /\ dropped' = dropped + 1
    /\ \/ dlq' = dlq \cup {e} /\ UNCHANGED gone
       \/ gone' = gone \cup {e} /\ UNCHANGED dlq

\* The default case of Submit's select.
SubmitOverflow(e) ==
    /\ HandlersRun
    /\ e \in fresh
    /\ ~Room
    /\ fresh' = fresh \ {e}
    /\ DeadLetterOverflow(e)
    /\ UNCHANGED <<queue, workerVars, storeVars, handed, serverVars>>

-----------------------------------------------------------------------------
(* A worker. *)

Canceled == main # "serving"

\* flush: nothing to do for an empty batch, otherwise the batch becomes the
\* pending slice and the worker inserts it.  next is where flush returns to.
StartFlush(w, events, next) ==
    /\ batch' = [batch EXCEPT ![w] = {}]
    /\ IF events = {}
          THEN /\ pc' = [pc EXCEPT ![w] = next]
               /\ UNCHANGED <<pending, then>>
          ELSE /\ pc' = [pc EXCEPT ![w] = "insert"]
               /\ pending' = [pending EXCEPT ![w] = events]
               /\ then' = [then EXCEPT ![w] = next]

\* case event := <-w.queue, in the main loop and in the drain loop.
Take(w, e) ==
    /\ pc[w] \in {"run", "drain"}
    /\ e \in queue
    /\ queue' = queue \ {e}
    /\ LET filled == batch[w] \cup {e}
       IN  IF Cardinality(filled) >= BatchSize
              THEN StartFlush(w, filled, pc[w])
              ELSE /\ batch' = [batch EXCEPT ![w] = filled]
                   /\ UNCHANGED <<pc, then, pending>>
    /\ UNCHANGED <<fresh, storeVars, dlq, handed, gone, dropped, serverVars>>

\* Mutant of Tick: a partial batch waits for more events.
TickFullOnly(w) ==
    /\ pc[w] = "run"
    /\ Cardinality(batch[w]) >= BatchSize
    /\ StartFlush(w, batch[w], "run")
    /\ UNCHANGED <<fresh, queue, storeVars, dlq, handed, gone, dropped, serverVars>>

\* case <-timer.C
Tick(w) ==
    /\ pc[w] = "run"
    /\ batch[w] # {}
    /\ StartFlush(w, batch[w], "run")
    /\ UNCHANGED <<fresh, queue, storeVars, dlq, handed, gone, dropped, serverVars>>

\* case <-ctx.Done(): enter the drain loop, keeping the batch.
BeginDrain(w) ==
    /\ pc[w] = "run"
    /\ Canceled
    /\ pc' = [pc EXCEPT ![w] = "drain"]
    /\ UNCHANGED <<fresh, queue, then, batch, pending, storeVars, dlq, handed,
                   gone, dropped, serverVars>>

\* Mutant of EndDrain: returns without the last flush.
EndDrainWithoutFlush(w) ==
    /\ pc[w] = "drain"
    /\ queue = {}
    /\ batch' = [batch EXCEPT ![w] = {}]
    /\ pc' = [pc EXCEPT ![w] = "exited"]
    /\ UNCHANGED <<fresh, queue, then, pending, storeVars, dlq, handed, gone,
                   dropped, serverVars>>

\* default: the queue is empty, flush what is left and return.
EndDrain(w) ==
    /\ pc[w] = "drain"
    /\ queue = {}
    /\ StartFlush(w, batch[w], "exited")
    /\ UNCHANGED <<fresh, queue, storeVars, dlq, handed, gone, dropped, serverVars>>

-----------------------------------------------------------------------------
(* InsertTraceBatch: one transaction. *)

ExtOf(S) == {External[e] : e \in S} \ {NoExt}

\* Mutant of Inserts: no ON CONFLICT clause.
InsertsAll(S) == {S}

\* What ON CONFLICT DO NOTHING lets in: of the events that carry one external
\* id, none when the id is known, and one of them otherwise.
Inserts(S) ==
    {I \in SUBSET S :
        /\ \A e \in S : External[e] = NoExt => e \in I
        /\ \A e \in I : External[e] \notin dedupe
        /\ \A x \in ExtOf(S) \ dedupe :
              \E e \in I : I \cap {f \in S : External[f] = x} = {e}}

Commit(w) ==
    /\ rows' \in {rows \cup I : I \in Inserts(pending[w])}
    /\ dedupe' = dedupe \cup ExtOf(pending[w])

InsertOK(w) ==
    /\ pc[w] = "insert"
    /\ Commit(w)
    /\ pc' = [pc EXCEPT ![w] = "publish"]
    /\ UNCHANGED <<fresh, queue, then, batch, pending, dlq, handed, gone,
                   dropped, serverVars>>

\* An error: the transaction rolled back, or the answer to the COMMIT was lost.
InsertFails(w) ==
    /\ pc[w] = "insert"
    /\ Commit(w) \/ UNCHANGED storeVars
    /\ pc' = [pc EXCEPT ![w] = "dlq"]
    /\ UNCHANGED <<fresh, queue, then, batch, pending, dlq, handed, gone,
                   dropped, serverVars>>

\* Leaves e out of the pending slice; the last one ends the flush.
Done(w, e) ==
    /\ pending' = [pending EXCEPT ![w] = @ \ {e}]
    /\ pc' = [pc EXCEPT ![w] = IF pending[w] = {e} THEN then[w] ELSE pc[w]]

\* PushDLQ took the event, or failed, after the event was added or before.
DeadLetter(w, e) ==
    /\ pc[w] = "dlq"
    /\ e \in pending[w]
    /\ Done(w, e)
    /\ \/ /\ dlq' = dlq \cup {e}
          /\ dropped' \in {dropped, dropped + 1}
          /\ UNCHANGED gone
       \/ /\ dropped' = dropped + 1
          /\ gone' = gone \cup {e}
          /\ UNCHANGED dlq
    /\ UNCHANGED <<fresh, queue, then, batch, storeVars, handed, serverVars>>

\* PublishTrace for every event of the batch, duplicates included.
Publish(w, e) ==
    /\ pc[w] = "publish"
    /\ e \in pending[w]
    /\ Done(w, e)
    /\ handed' = handed \cup {e}
    /\ UNCHANGED <<fresh, queue, then, batch, storeVars, dlq, gone, dropped,
                   serverVars>>

-----------------------------------------------------------------------------
(* Shutdown, cmd/riskd/main.go. *)

\* server.Shutdown: nil once every handler has returned, an error at the
\* timeout, after which Close abandons the handlers.
StopServer(how) ==
    /\ server = "serving"
    /\ server' = how
    /\ UNCHANGED <<fresh, queue, workerVars, storeVars, dlq, handed, gone,
                   dropped, main>>

\* traceCancel()
TraceCancel ==
    /\ server # "serving"
    /\ main = "serving"
    /\ main' = "waiting"
    /\ UNCHANGED <<fresh, queue, workerVars, storeVars, dlq, handed, gone,
                   dropped, server>>

\* traceWriter.Wait() returns.
TraceWait ==
    /\ main = "waiting"
    /\ \A w \in Workers : pc[w] = "exited"
    /\ main' = "stopped"
    /\ UNCHANGED <<fresh, queue, workerVars, storeVars, dlq, handed, gone,
                   dropped, server>>

-----------------------------------------------------------------------------

\* All that a worker does by itself.
Storing(w) ==
    \/ \E e \in Events : Take(w, e) \/ DeadLetter(w, e)
    \/ Tick(w) \/ BeginDrain(w) \/ EndDrain(w)
    \/ InsertOK(w) \/ InsertFails(w)

Worker(w) == Storing(w) \/ \E e \in Events : Publish(w, e)

Submit == \E e \in Events : SubmitQueued(e) \/ SubmitOverflow(e)

Main ==
    \/ \E how \in {"graceful", "forced"} : StopServer(how)
    \/ TraceCancel \/ TraceWait

Next == Submit \/ (\E w \in Workers : Worker(w)) \/ Main

Spec == Init /\ [][Next]_vars

\* The runtime schedules every worker that can move, and main once it has
\* begun to stop.  Handlers submit when they like, and nobody has to stop.
FairSpec ==
    /\ Spec
    /\ \A w \in Workers : WF_vars(Worker(w))
    /\ WF_vars(TraceCancel) /\ WF_vars(TraceWait)

-----------------------------------------------------------------------------
(* Properties. *)

TypeOK ==
    /\ fresh \in SUBSET Events
    /\ queue \in SUBSET Events /\ Cardinality(queue) <= QueueSize
    /\ pc \in [Workers -> {"run", "drain", "insert", "dlq", "publish", "exited"}]
    /\ then \in [Workers -> {"run", "drain", "exited"}]
    /\ batch \in [Workers -> SUBSET Events]
    /\ pending \in [Workers -> SUBSET Events]
    /\ rows \in SUBSET Events /\ dedupe \in SUBSET ExtIds
    /\ dlq \in SUBSET Events /\ handed \in SUBSET Events
    /\ gone \in SUBSET Events /\ dropped \in Nat
    /\ server \in {"serving", "graceful", "forced"}
    /\ main \in {"serving", "waiting", "stopped"}

\* A worker on its last flush, or gone: it has seen the queue empty and does not look
\* at it again.
Leaving(w) == pc[w] = "exited" \/ then[w] = "exited"

\* In memory: a worker holds the event, or one is left that will take it.
InMemory(e) ==
    \/ e \in queue /\ \E w \in Workers : ~Leaving(w)
    \/ \E w \in Workers : e \in batch[w] \cup pending[w]

\* In the queue with nobody to take it: lost when the process exits, and counted
\* nowhere.
Stranded(e) == e \in queue /\ \A w \in Workers : Leaving(w)

\* Stored: a row of its own, or the row of an event with the same external id.
Stored(e) == e \in rows \/ External[e] \in dedupe

\* What the process owes an event: to hand it to the sink, to dead-letter it, or to
\* count it in trace_dropped.
Settled(e) == e \in handed \/ e \in dlq \/ e \in gone

\* Submitted events are settled or in memory, or they are stranded, to which only a
\* forced stop of the server can lead; when main goes on, none is in memory.
Accounted ==
    /\ \A e \in Events \ fresh : InMemory(e) \/ Settled(e) \/ Stranded(e)
    /\ Cardinality(gone) <= dropped
    /\ \A e \in handed : Stored(e)
    /\ \A e \in Events :
          /\ Stranded(e) => server = "forced"
          /\ main = "stopped" => ~InMemory(e)

(***************************************************************************)
(* A submitted event is never silently lost, with the one exception that   *)
(* the code makes: it is still in memory, or it was handed to the sink,    *)
(* dead-lettered, or lost and then counted in trace_dropped, the           *)
(* operators' alarm (docs/operations.md).  Only stored events reach Kafka  *)
(* ("平台先成功写 PostgreSQL，再异步写 Kafka", docs/operations.md).  The    *)
(* exception is an event that a handler which Close has abandoned submits  *)
(* when the last worker has left: the step that strands an event is its    *)
(* own Submit.  What was queued before is written by the drain, however    *)
(* the server was stopped.                                                 *)
(***************************************************************************)
NoSilentLoss ==
    /\ [](TypeOK /\ Accounted)
    /\ [][\A e \in Events : Stranded(e)' => Stranded(e) \/ e \in fresh]_vars

(***************************************************************************)
(* Redelivered tracking events (docs/newapi-integration.md, "幂等") leave  *)
(* one row per external id however the batches of the workers interleave.  *)
(***************************************************************************)
OneRowPerExternalId ==
    \A e, f \in rows : External[e] = External[f] /\ External[e] # NoExt => e = f

(***************************************************************************)
(* Every event in memory gets its outcome, also one in a batch that never  *)
(* fills and one that is queued while the workers drain; and the workers   *)
(* do finish, after a forced stop of the server too.                       *)
(***************************************************************************)
EventsSettle ==
    /\ \A e \in Events : InMemory(e) ~> Settled(e)
    /\ server # "serving" ~> main = "stopped"
=============================================================================
