---------------------------- MODULE TracePipeline ----------------------------
(***************************************************************************)
(* The trace writer and the event sink of one process, as cmd/riskd/main.go *)
(* puts them together: a trace worker calls PublishTrace itself, and       *)
(* eventCancel comes after traceWriter.Wait.  The outbox table is shared   *)
(* with the other replicas.                                                *)
(***************************************************************************)
EXTENDS TraceWriter, EventSink

pipelineVars == <<vars, sinkVars>>

PipelineInit == Init /\ SinkInit

\* PublishTrace runs in the goroutine of the trace worker: one step of both.
PublishTrace(w, e) == Publish(w, e) /\ Offer(e)

\* traceWriter.Wait(), then eventCancel().
StopSink == main = "stopped" /\ EventCancel

PipelineNext ==
    \/ (Submit \/ (\E w \in Workers : Storing(w)) \/ Main) /\ UNCHANGED sinkVars
    \/ \E w \in Workers, e \in Events : PublishTrace(w, e)
    \/ (Delivering \/ StopSink) /\ UNCHANGED vars

PipelineSpec == PipelineInit /\ [][PipelineNext]_pipelineVars

-----------------------------------------------------------------------------
(* Properties. *)

(***************************************************************************)
(* The sink can take whatever a trace worker publishes: an event reaches   *)
(* PublishTrace once, and before eventCancel, after a forced stop of the   *)
(* server too.                                                             *)
(***************************************************************************)
SinkIsOpen ==
    \A w \in Workers : \A e \in pending[w] :
        pc[w] = "publish" => e \in unoffered /\ ~stopping

(***************************************************************************)
(* The whole way: a submitted trace is in the memory of one of the two, or *)
(* it is in a dead letter stream, or gone and counted, or in PostgreSQL    *)
(* and then in the topic, in the outbox or, its outbox insert failed, in   *)
(* the log; or a forced stop has stranded it in the queue of a writer      *)
(* without workers.  Kafka and the outbox know only what PostgreSQL has    *)
(* ("平台先成功写 PostgreSQL，再异步写 Kafka", docs/operations.md), and    *)
(* when main is done nothing else is in memory.                            *)
(***************************************************************************)
EveryTraceIsAccountedFor ==
    /\ SinkIsOpen
    /\ Cardinality(gone) <= dropped
    /\ \A e \in Events :
          /\ \/ e \in fresh \/ InMemory(e) \/ e \in dlq \/ e \in gone
             \/ Stored(e) /\ (InSink(e) \/ Delivered(e))
             \/ Stranded(e) /\ server = "forced"
          /\ InSink(e) \/ Delivered(e) => Stored(e)
          /\ spc = "exited" => ~InMemory(e) /\ ~InSink(e)
=============================================================================
