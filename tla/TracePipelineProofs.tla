-------------------------- MODULE TracePipelineProofs --------------------------
(***************************************************************************)
(* The way of a trace event, for any set of events, any pool of workers,   *)
(* any replicas and any sizes of queue, batch and claim: NoSilentLoss and  *)
(* OneRowPerExternalId of TraceWriter, NothingLost of EventSink, and that  *)
(* TracePipeline, which connects them, is a behaviour of both and keeps    *)
(* account of every event from Submit to Kafka.                            *)
(***************************************************************************)
EXTENDS TracePipeline, FiniteSetTheorems, TLAPS

Flushing == {"insert", "dlq", "publish"}

\* Where a worker can hold events: in its batch between flushes, in the pending
\* slice during one, nowhere once it has returned.
HeldWhere ==
    \A w \in Workers :
        /\ pc[w] \in Flushing => batch[w] = {}
        /\ pc[w] \notin Flushing => pending[w] = {}
        /\ pc[w] = "exited" => batch[w] = {}

\* In the queue, whoever may still take it, or with a worker.
InProcess(e) == e \in queue \/ \E w \in Workers : e \in batch[w] \cup pending[w]

\* No event loses its last trace, and what is published was committed first.
Kept ==
    /\ \A e \in Events \ fresh :
          InProcess(e) \/ e \in handed \/ e \in dlq \/ e \in gone
    /\ \A e \in handed : Stored(e)
    /\ \A w \in Workers : pc[w] = "publish" => \A e \in pending[w] : Stored(e)

Counted == Cardinality(gone) <= dropped

Draining(w) == pc[w] = "drain" \/ then[w] = "drain"

\* The order of the shutdown: workers drain only after traceCancel, which comes
\* after the server has stopped; one that leaves found the queue empty, and after
\* a graceful stop nobody fills it again.
ShutdownOrder ==
    /\ main # "serving" => server # "serving"
    /\ \A w \in Workers : Draining(w) \/ Leaving(w) => main # "serving"
    /\ \A w \in Workers : Leaving(w) /\ server = "graceful" => queue = {}
    /\ main = "stopped" => \A w \in Workers : pc[w] = "exited"

\* The external id of every row is in request_dedupe, and has no other row.
RowsAreKnown ==
    /\ \A e \in rows : External[e] # NoExt => External[e] \in dedupe
    /\ OneRowPerExternalId

Holds(w) == batch[w] \cup pending[w]

\* An event is with nobody yet, in the queue, with one worker, or handed on.
OneHolder ==
    /\ fresh \cap queue = {}
    /\ handed \cap (fresh \cup queue) = {}
    /\ \A w \in Workers : Holds(w) \cap (fresh \cup queue \cup handed) = {}
    /\ \A w, v \in Workers : w # v => Holds(w) \cap Holds(v) = {}

IInv == TypeOK /\ HeldWhere /\ OneHolder /\ Kept /\ Counted /\ ShutdownOrder /\ RowsAreKnown

USE EventsAssumption, TraceWriterAssumption, EventSinkAssumption

-----------------------------------------------------------------------------
(* Types. *)

\* Every set of events has a size.
LEMMA QueueIsFinite ==
    ASSUME NEW S \in SUBSET Events
    PROVE  IsFiniteSet(S) /\ Cardinality(S) \in Nat
<1>1. IsFiniteSet(S)
    BY FS_Subset
<1> QED
    BY <1>1, FS_CardinalityType

\* flush moves the whole batch into the pending slice, or returns at once.
LEMMA FlushTypes ==
    ASSUME TypeOK, NEW w \in Workers, NEW events \in SUBSET Events,
           NEW next \in {"run", "drain", "exited"}, StartFlush(w, events, next)
    PROVE  /\ pc' \in [Workers -> {"run", "drain", "insert", "dlq", "publish", "exited"}]
           /\ then' \in [Workers -> {"run", "drain", "exited"}]
           /\ batch' \in [Workers -> SUBSET Events]
           /\ pending' \in [Workers -> SUBSET Events]
<1>1. CASE events = {}
    BY <1>1 DEF TypeOK, StartFlush
<1>2. CASE events # {}
    BY <1>2 DEF TypeOK, StartFlush
<1> QED
    BY <1>1, <1>2

\* The transaction of InsertTraceBatch adds events and external ids.
LEMMA CommitTypes ==
    ASSUME TypeOK, NEW w \in Workers, Commit(w)
    PROVE  rows' \in SUBSET Events /\ dedupe' \in SUBSET ExtIds
<1>1. ExtOf(pending[w]) \in SUBSET ExtIds
    BY DEF TypeOK, ExtOf
<1> QED
    BY <1>1 DEF TypeOK, Commit, Inserts

\* An event that is dealt with leaves the pending slice of its worker.
LEMMA DoneTypes ==
    ASSUME TypeOK, NEW w \in Workers, NEW e \in Events, Done(w, e)
    PROVE  /\ pc' \in [Workers -> {"run", "drain", "insert", "dlq", "publish", "exited"}]
           /\ pending' \in [Workers -> SUBSET Events]
BY DEF TypeOK, Done

\* Nothing was submitted and no worker holds anything.
LEMMA TypeInit == Init => TypeOK
<1> SUFFICES ASSUME Init PROVE TypeOK
    OBVIOUS
<1>1. Cardinality(queue) <= QueueSize
    BY FS_EmptySet DEF Init
<1> QED
    BY <1>1 DEF Init, TypeOK

\* The handlers, the workers and main keep the types, the bound of the queue
\* included.
LEMMA TypeStep == TypeOK /\ [Next]_vars => TypeOK'
<1> SUFFICES ASSUME TypeOK, [Next]_vars PROVE TypeOK'
    OBVIOUS
<1> USE DEF workerVars, storeVars, serverVars
<1>1. ASSUME NEW e \in Events, SubmitQueued(e) PROVE TypeOK'
    <2>1. IsFiniteSet(queue) /\ Cardinality(queue) \in Nat
        BY QueueIsFinite DEF TypeOK
    <2>2. Cardinality(queue \cup {e}) <= Cardinality(queue) + 1
        <3>1. CASE e \in queue
            <4>1. Cardinality(queue \cup {e}) = Cardinality(queue)
                BY <2>1, <3>1, FS_AddElement
            <4> QED
                BY <2>1, <4>1
        <3>2. CASE e \notin queue
            <4>1. Cardinality(queue \cup {e}) = Cardinality(queue) + 1
                BY <2>1, <3>2, FS_AddElement
            <4> QED
                BY <2>1, <4>1
        <3> QED
            BY <3>1, <3>2
    <2>3. Cardinality(queue \cup {e}) \in Nat
        BY QueueIsFinite DEF TypeOK
    <2>4. Cardinality(queue') <= QueueSize
        BY <1>1, <2>1, <2>2, <2>3 DEF SubmitQueued, Room
    <2> QED
        BY <1>1, <2>4 DEF SubmitQueued, TypeOK
<1>2. ASSUME NEW e \in Events, SubmitOverflow(e) PROVE TypeOK'
    BY <1>2 DEF SubmitOverflow, DeadLetterOverflow, TypeOK
<1>3. ASSUME NEW w \in Workers, NEW e \in Events, Take(w, e) PROVE TypeOK'
    <2>1. IsFiniteSet(queue) /\ Cardinality(queue) \in Nat
        BY QueueIsFinite DEF TypeOK
    <2>2. Cardinality(queue \ {e}) \in Nat /\ Cardinality(queue \ {e}) <= Cardinality(queue)
        <3>1. queue \ {e} \in SUBSET Events /\ queue \ {e} \subseteq queue
            BY DEF TypeOK
        <3>2. Cardinality(queue \ {e}) \in Nat
            BY <3>1, QueueIsFinite
        <3>3. Cardinality(queue \ {e}) <= Cardinality(queue)
            BY <2>1, <3>1, FS_Subset
        <3> QED
            BY <3>2, <3>3
    <2>3. queue' \in SUBSET Events /\ Cardinality(queue') <= QueueSize
        BY <1>3, <2>1, <2>2 DEF Take, TypeOK
    <2>4. /\ pc' \in [Workers -> {"run", "drain", "insert", "dlq", "publish", "exited"}]
          /\ then' \in [Workers -> {"run", "drain", "exited"}]
          /\ batch' \in [Workers -> SUBSET Events]
          /\ pending' \in [Workers -> SUBSET Events]
        <3>1. CASE Cardinality(batch[w] \cup {e}) >= BatchSize
            <4>1. StartFlush(w, batch[w] \cup {e}, pc[w])
                BY <1>3, <3>1 DEF Take
            <4>2. batch[w] \cup {e} \in SUBSET Events /\ pc[w] \in {"run", "drain", "exited"}
                BY <1>3 DEF Take, TypeOK
            <4> QED
                BY <4>1, <4>2, FlushTypes
        <3>2. CASE ~(Cardinality(batch[w] \cup {e}) >= BatchSize)
            BY <1>3, <3>2 DEF Take, TypeOK
        <3> QED
            BY <3>1, <3>2
    <2> QED
        BY <1>3, <2>3, <2>4 DEF Take, TypeOK
<1>4. ASSUME NEW w \in Workers, NEW e \in Events, DeadLetter(w, e) PROVE TypeOK'
    BY <1>4, DoneTypes DEF DeadLetter, TypeOK
<1>5. ASSUME NEW w \in Workers, NEW e \in Events, Publish(w, e) PROVE TypeOK'
    BY <1>5, DoneTypes DEF Publish, TypeOK
<1>6. ASSUME NEW w \in Workers, Tick(w) PROVE TypeOK'
    <2>1. batch[w] \in SUBSET Events
        BY DEF TypeOK
    <2> QED
        BY <1>6, <2>1, FlushTypes DEF Tick, TypeOK
<1>7. ASSUME NEW w \in Workers, BeginDrain(w) PROVE TypeOK'
    BY <1>7 DEF BeginDrain, TypeOK
<1>8. ASSUME NEW w \in Workers, EndDrain(w) PROVE TypeOK'
    <2>1. batch[w] \in SUBSET Events
        BY DEF TypeOK
    <2> QED
        BY <1>8, <2>1, FlushTypes DEF EndDrain, TypeOK
<1>9. ASSUME NEW w \in Workers, InsertOK(w) PROVE TypeOK'
    BY <1>9, CommitTypes DEF InsertOK, TypeOK
<1>10. ASSUME NEW w \in Workers, InsertFails(w) PROVE TypeOK'
    BY <1>10, CommitTypes DEF InsertFails, TypeOK
<1>11. CASE Main
    BY <1>11 DEF Main, StopServer, TraceCancel, TraceWait, TypeOK
<1>12. CASE UNCHANGED vars
    BY <1>12 DEF vars, TypeOK
<1> QED
    BY <1>1, <1>2, <1>3, <1>4, <1>5, <1>6, <1>7, <1>8, <1>9, <1>10, <1>11, <1>12
    DEF Next, Submit, Worker, Storing

-----------------------------------------------------------------------------
(* Where events are. *)

\* A worker flushes its whole batch, or holds nothing and goes on.
LEMMA HeldInit == Init => HeldWhere
BY DEF Init, HeldWhere, Flushing

\* Every action of a worker keeps its batch and its pending slice where flush
\* expects them.
LEMMA HeldStep == TypeOK /\ HeldWhere /\ [Next]_vars => HeldWhere'
<1> SUFFICES ASSUME TypeOK, HeldWhere, [Next]_vars PROVE HeldWhere'
    OBVIOUS
<1> USE DEF workerVars, storeVars, serverVars, Flushing
<1>1. ASSUME NEW e \in Events, SubmitQueued(e) \/ SubmitOverflow(e) PROVE HeldWhere'
    BY <1>1 DEF SubmitQueued, SubmitOverflow, HeldWhere
<1>2. ASSUME NEW w \in Workers, NEW events \in SUBSET Events,
             NEW next \in {"run", "drain", "exited"},
             StartFlush(w, events, next), pc[w] \notin Flushing
      PROVE  HeldWhere'
    <2>1. CASE events = {}
        BY <1>2, <2>1 DEF StartFlush, HeldWhere, TypeOK
    <2>2. CASE events # {}
        BY <1>2, <2>2 DEF StartFlush, HeldWhere, TypeOK
    <2> QED
        BY <2>1, <2>2
<1>3. ASSUME NEW w \in Workers, NEW e \in Events, Take(w, e) PROVE HeldWhere'
    <2>1. CASE Cardinality(batch[w] \cup {e}) >= BatchSize
        <3>1. StartFlush(w, batch[w] \cup {e}, pc[w])
            BY <1>3, <2>1 DEF Take
        <3>2. /\ batch[w] \cup {e} \in SUBSET Events
              /\ pc[w] \in {"run", "drain", "exited"} /\ pc[w] \notin Flushing
            BY <1>3 DEF Take, TypeOK
        <3> QED
            BY <1>2, <3>1, <3>2
    <2>2. CASE ~(Cardinality(batch[w] \cup {e}) >= BatchSize)
        BY <1>3, <2>2 DEF Take, TypeOK, HeldWhere
    <2> QED
        BY <2>1, <2>2
<1>4. ASSUME NEW w \in Workers, NEW e \in Events, Done(w, e), e \in pending[w],
             pc[w] \in Flushing, UNCHANGED batch
      PROVE  HeldWhere'
    BY <1>4 DEF Done, HeldWhere, TypeOK
<1>5. ASSUME NEW w \in Workers, NEW e \in Events, DeadLetter(w, e) \/ Publish(w, e)
      PROVE  HeldWhere'
    BY <1>4, <1>5 DEF DeadLetter, Publish
<1>6. ASSUME NEW w \in Workers, Tick(w) \/ EndDrain(w) PROVE HeldWhere'
    <2>1. batch[w] \in SUBSET Events
        BY DEF TypeOK
    <2> QED
        BY <1>2, <1>6, <2>1 DEF Tick, EndDrain
<1>7. ASSUME NEW w \in Workers, BeginDrain(w) PROVE HeldWhere'
    BY <1>7 DEF BeginDrain, HeldWhere, TypeOK
<1>8. ASSUME NEW w \in Workers, InsertOK(w) \/ InsertFails(w) PROVE HeldWhere'
    BY <1>8 DEF InsertOK, InsertFails, HeldWhere, TypeOK
<1>9. CASE Main
    BY <1>9 DEF Main, StopServer, TraceCancel, TraceWait, HeldWhere
<1>10. CASE UNCHANGED vars
    BY <1>10 DEF vars, HeldWhere
<1> QED
    BY <1>1, <1>3, <1>5, <1>6, <1>7, <1>8, <1>9, <1>10 DEF Next, Submit, Worker, Storing

-----------------------------------------------------------------------------
(* Rows and external ids. *)

\* ON CONFLICT DO NOTHING lets in one event per external id that is not known.
LEMMA InsertsOnce ==
    ASSUME NEW S \in SUBSET Events, NEW I \in Inserts(S)
    PROVE  /\ I \subseteq S
           /\ \A e \in S : External[e] = NoExt => e \in I
           /\ \A e \in I : External[e] \notin dedupe
           /\ \A e, f \in I : External[e] = External[f] /\ External[e] # NoExt => e = f
<1>1. ASSUME NEW e \in I, NEW f \in I, External[e] = External[f], External[e] # NoExt
      PROVE  e = f
    <2> DEFINE x == External[e]
    <2>1. x \in ExtOf(S) \ dedupe
        BY <1>1 DEF Inserts, ExtOf
    <2>2. PICK g \in I : I \cap {h \in S : External[h] = x} = {g}
        BY <2>1 DEF Inserts
    <2>3. e \in {h \in S : External[h] = x} /\ f \in {h \in S : External[h] = x}
        BY <1>1 DEF Inserts
    <2> QED
        BY <2>2, <2>3
<1> QED
    BY <1>1 DEF Inserts

\* A commit stores every event of the batch and keeps one row per external id.
LEMMA CommitStores ==
    ASSUME TypeOK, RowsAreKnown, NEW w \in Workers, Commit(w)
    PROVE  /\ RowsAreKnown'
           /\ rows \subseteq rows' /\ dedupe \subseteq dedupe'
           /\ \A e \in pending[w] : Stored(e)'
<1>1. pending[w] \in SUBSET Events
    BY DEF TypeOK
<1>2. PICK I \in Inserts(pending[w]) : rows' = rows \cup I
    BY DEF Commit
<1>3. /\ I \subseteq pending[w]
      /\ \A e \in pending[w] : External[e] = NoExt => e \in I
      /\ \A e \in I : External[e] \notin dedupe
      /\ \A e, f \in I : External[e] = External[f] /\ External[e] # NoExt => e = f
    BY <1>1, InsertsOnce
<1>4. dedupe' = dedupe \cup ExtOf(pending[w])
    BY DEF Commit
<1>5. \A e \in pending[w] : External[e] # NoExt => External[e] \in ExtOf(pending[w])
    BY DEF ExtOf
<1>6. \A e \in rows' : External[e] # NoExt => External[e] \in dedupe'
    BY <1>2, <1>3, <1>4, <1>5 DEF RowsAreKnown
<1>7. OneRowPerExternalId'
    BY <1>2, <1>3 DEF RowsAreKnown, OneRowPerExternalId
<1>8. \A e \in pending[w] : Stored(e)'
    BY <1>2, <1>3, <1>4, <1>5 DEF Stored
<1> QED
    BY <1>2, <1>4, <1>6, <1>7, <1>8 DEF RowsAreKnown

\* There is no row yet.
LEMMA RowsInit == Init => RowsAreKnown
BY DEF Init, RowsAreKnown, OneRowPerExternalId

\* Only InsertTraceBatch touches the store, and no step deletes a row or an id.
LEMMA RowsStep ==
    TypeOK /\ RowsAreKnown /\ [Next]_vars
        => /\ RowsAreKnown'
           /\ rows \subseteq rows' /\ dedupe \subseteq dedupe'
<1> SUFFICES ASSUME TypeOK, RowsAreKnown, [Next]_vars
             PROVE  /\ RowsAreKnown'
                    /\ rows \subseteq rows' /\ dedupe \subseteq dedupe'
    OBVIOUS
<1>1. CASE UNCHANGED storeVars
    BY <1>1 DEF storeVars, RowsAreKnown, OneRowPerExternalId
<1>2. ASSUME NEW w \in Workers, Commit(w)
      PROVE  /\ RowsAreKnown'
             /\ rows \subseteq rows' /\ dedupe \subseteq dedupe'
    BY <1>2, CommitStores
<1>3. \/ UNCHANGED storeVars
      \/ \E w \in Workers : Commit(w)
    BY DEF Next, Submit, SubmitQueued, SubmitOverflow, Worker, Storing, Take, DeadLetter,
           Publish, Tick, BeginDrain, EndDrain, InsertOK, InsertFails, Main,
           StopServer, TraceCancel, TraceWait, vars, storeVars
<1> QED
    BY <1>1, <1>2, <1>3

-----------------------------------------------------------------------------
(* Nothing is silently lost. *)

Held(e) == \E w \in Workers : e \in batch[w] \cup pending[w]

\* flush drops no event of the batch it is given, nor one of another worker.
LEMMA FlushKeeps ==
    ASSUME TypeOK, HeldWhere, NEW w \in Workers, NEW events \in SUBSET Events,
           NEW next \in {"run", "drain", "exited"}, StartFlush(w, events, next),
           batch[w] \subseteq events, pc[w] \notin Flushing,
           NEW e \in Events, Held(e) \/ e \in events
    PROVE  Held(e)'
<1>1. pending[w] = {}
    BY DEF HeldWhere
<1>2. CASE events = {}
    <2>1. PICK v \in Workers : e \in batch[v] \cup pending[v]
        BY <1>2 DEF Held
    <2>2. e \in (batch[v] \cup pending[v])'
        BY <1>1, <1>2, <2>1 DEF StartFlush, TypeOK
    <2> QED
        BY <2>2 DEF Held
<1>3. CASE events # {}
    <2>1. CASE e \in events
        <3>1. e \in pending'[w]
            BY <1>3, <2>1 DEF StartFlush, TypeOK
        <3> QED
            BY <3>1 DEF Held
    <2>2. CASE e \notin events
        <3>1. PICK v \in Workers : e \in batch[v] \cup pending[v]
            BY <2>2 DEF Held
        <3>2. v # w
            BY <1>1, <2>2, <3>1
        <3>3. e \in (batch[v] \cup pending[v])'
            BY <1>3, <3>1, <3>2 DEF StartFlush, TypeOK
        <3> QED
            BY <3>3 DEF Held
    <2> QED
        BY <2>1, <2>2
<1> QED
    BY <1>2, <1>3

\* The end of a flush lets go of the event it settled and of no other.
LEMMA DoneKeeps ==
    ASSUME TypeOK, NEW w \in Workers, NEW d \in Events, Done(w, d), UNCHANGED batch,
           NEW e \in Events, e # d, Held(e)
    PROVE  Held(e)'
<1>1. PICK v \in Workers : e \in batch[v] \cup pending[v]
    BY DEF Held
<1>2. e \in (batch[v] \cup pending[v])'
    BY <1>1 DEF Done, TypeOK
<1> QED
    BY <1>2 DEF Held

\* A worker that takes an event puts it into its batch or into the flush.
LEMMA TakeKeeps ==
    ASSUME TypeOK, HeldWhere, NEW w \in Workers, NEW d \in Events, Take(w, d),
           NEW e \in Events, Held(e) \/ e = d
    PROVE  Held(e)'
<1>1. CASE Cardinality(batch[w] \cup {d}) >= BatchSize
    <2>1. StartFlush(w, batch[w] \cup {d}, pc[w])
        BY <1>1 DEF Take
    <2>2. /\ batch[w] \cup {d} \in SUBSET Events
          /\ pc[w] \in {"run", "drain", "exited"} /\ pc[w] \notin Flushing
        BY DEF Take, TypeOK, Flushing
    <2> QED
        BY <2>1, <2>2, FlushKeeps
<1>2. CASE ~(Cardinality(batch[w] \cup {d}) >= BatchSize)
    <2>1. batch' = [batch EXCEPT ![w] = batch[w] \cup {d}] /\ pending' = pending
        BY <1>2 DEF Take
    <2>2. CASE e = d
        BY <2>1, <2>2 DEF Held, TypeOK
    <2>3. CASE e # d
        <3>1. PICK v \in Workers : e \in batch[v] \cup pending[v]
            BY <2>3 DEF Held
        <3>2. e \in (batch[v] \cup pending[v])'
            BY <2>1, <3>1 DEF TypeOK
        <3> QED
            BY <3>2 DEF Held
    <2> QED
        BY <2>2, <2>3
<1> QED
    BY <1>1, <1>2

\* What becomes of an event in one step: a submitted one enters the queue or is
\* dead-lettered, and one in memory stays there until it has an outcome.
LEMMA EventStep ==
    ASSUME TypeOK, HeldWhere, RowsAreKnown, Kept, [Next]_vars, NEW e \in Events,
           e \notin fresh'
    PROVE  (InProcess(e) \/ e \in handed \/ e \in dlq \/ e \in gone)'
<1> USE DEF workerVars, storeVars, serverVars
<1>1. dlq \subseteq dlq' /\ gone \subseteq gone' /\ handed \subseteq handed'
    BY DEF Next, Submit, SubmitQueued, SubmitOverflow, DeadLetterOverflow, Worker, Storing,
           Take, DeadLetter, Publish, Tick, BeginDrain, EndDrain, InsertOK,
           InsertFails, Main, StopServer, TraceCancel, TraceWait, vars
<1>2. CASE e \in fresh
    <2>1. SubmitQueued(e) \/ SubmitOverflow(e)
        BY <1>2 DEF Next, Submit, SubmitQueued, SubmitOverflow, Worker, Storing, Take,
           DeadLetter, Publish, Tick, BeginDrain, EndDrain, InsertOK, InsertFails,
           Main, StopServer, TraceCancel, TraceWait, vars
    <2> QED
        BY <2>1 DEF SubmitQueued, SubmitOverflow, DeadLetterOverflow, InProcess
<1>3. CASE e \notin fresh /\ ~InProcess(e)
    BY <1>1, <1>3 DEF Kept
<1>4. CASE InProcess(e)
    <2> USE DEF InProcess
    <2>0. e \in queue \/ Held(e)
        BY <1>4 DEF Held
    <2> SUFFICES (e \in queue \/ Held(e) \/ e \in handed \/ e \in dlq \/ e \in gone)'
        BY DEF Held
    <2>1. ASSUME NEW d \in Events, SubmitQueued(d) \/ SubmitOverflow(d)
          PROVE  (e \in queue \/ Held(e))'
        BY <2>0, <2>1 DEF SubmitQueued, SubmitOverflow, Held
    <2>2. ASSUME NEW w \in Workers, NEW d \in Events, Take(w, d)
          PROVE  (e \in queue \/ Held(e))'
        <3>1. CASE e \in queue /\ e # d
            BY <2>2, <3>1 DEF Take
        <3>2. CASE Held(e) \/ e = d
            BY <2>2, <3>2, TakeKeeps
        <3> QED
            BY <2>0, <3>1, <3>2
    <2>3. ASSUME NEW w \in Workers, NEW d \in Events, DeadLetter(w, d)
          PROVE  (e \in queue \/ Held(e) \/ e \in dlq \/ e \in gone)'
        <3>1. CASE e = d
            BY <2>3, <3>1 DEF DeadLetter
        <3>2. CASE e # d /\ Held(e)
            BY <2>3, <3>2, DoneKeeps DEF DeadLetter
        <3>3. CASE e \in queue
            BY <2>3, <3>3 DEF DeadLetter
        <3> QED
            BY <2>0, <3>1, <3>2, <3>3
    <2>4. ASSUME NEW w \in Workers, NEW d \in Events, Publish(w, d)
          PROVE  (e \in queue \/ Held(e) \/ e \in handed)'
        <3>1. CASE e = d
            BY <2>4, <3>1 DEF Publish
        <3>2. CASE e # d /\ Held(e)
            BY <2>4, <3>2, DoneKeeps DEF Publish
        <3>3. CASE e \in queue
            BY <2>4, <3>3 DEF Publish
        <3> QED
            BY <2>0, <3>1, <3>2, <3>3
    <2>5. ASSUME NEW w \in Workers, Tick(w) \/ EndDrain(w) PROVE (e \in queue \/ Held(e))'
        <3>1. batch[w] \in SUBSET Events /\ batch[w] \subseteq batch[w]
            BY DEF TypeOK
        <3>2. pc[w] \notin Flushing /\ queue' = queue
            BY <2>5 DEF Tick, EndDrain, Flushing
        <3>3. StartFlush(w, batch[w], "run") \/ StartFlush(w, batch[w], "exited")
            BY <2>5 DEF Tick, EndDrain
        <3>4. CASE Held(e)
            BY <3>1, <3>2, <3>3, <3>4, FlushKeeps
        <3> QED
            BY <2>0, <3>2, <3>4
    <2>6. ASSUME NEW w \in Workers, BeginDrain(w) \/ InsertOK(w) \/ InsertFails(w)
          PROVE  (e \in queue \/ Held(e))'
        BY <2>0, <2>6 DEF BeginDrain, InsertOK, InsertFails, Held
    <2>7. CASE Main
        BY <2>0, <2>7 DEF Main, StopServer, TraceCancel, TraceWait, Held
    <2>8. CASE UNCHANGED vars
        BY <2>0, <2>8 DEF vars, Held
    <2> QED
        BY <2>1, <2>2, <2>3, <2>4, <2>5, <2>6, <2>7, <2>8 DEF Next, Submit, Worker, Storing
<1> QED
    BY <1>2, <1>3, <1>4

\* Nothing was submitted, so nothing can be lost.
LEMMA KeptInit == Init => Kept
BY DEF Init, Kept

\* A worker publishes only after the commit of its whole pending slice.
LEMMA KeptStep ==
    TypeOK /\ HeldWhere /\ RowsAreKnown /\ Kept /\ [Next]_vars => Kept'
<1> SUFFICES ASSUME TypeOK, HeldWhere, RowsAreKnown, Kept, [Next]_vars PROVE Kept'
    OBVIOUS
<1> USE DEF workerVars, storeVars, serverVars
<1> DEFINE Ready == \A w \in Workers : pc[w] = "publish" => \A e \in pending[w] : Stored(e)
<1>1. \A e \in Events : Stored(e) => Stored(e)'
    BY RowsStep DEF Stored
<1>2. \A e \in (Events \ fresh)' : (InProcess(e) \/ e \in handed \/ e \in dlq \/ e \in gone)'
    BY EventStep
<1>3. \A e \in handed' : Stored(e)'
    <2>1. ASSUME NEW w \in Workers, NEW d \in Events, Publish(w, d)
          PROVE  \A e \in handed' : Stored(e)'
        BY <1>1, <2>1 DEF Publish, Kept, TypeOK
    <2>2. CASE UNCHANGED handed
        BY <1>1, <2>2 DEF Kept, TypeOK
    <2>3. \/ UNCHANGED handed
          \/ \E w \in Workers, d \in Events : Publish(w, d)
        BY DEF Next, Submit, SubmitQueued, SubmitOverflow, Worker, Storing, Take, DeadLetter,
               Tick, BeginDrain, EndDrain, InsertOK, InsertFails, Main, StopServer,
               TraceCancel, TraceWait, vars
    <2> QED
        BY <2>1, <2>2, <2>3
<1>4. Ready'
    <2>1. ASSUME UNCHANGED <<pc, pending>> PROVE Ready'
        BY <1>1, <2>1 DEF Kept, TypeOK
    <2>2. ASSUME NEW w \in Workers, NEW events, NEW next \in {"run", "drain", "exited"},
                 StartFlush(w, events, next)
          PROVE  Ready'
        <3>1. CASE events = {}
            BY <1>1, <2>2, <3>1 DEF StartFlush, Kept, TypeOK
        <3>2. CASE events # {}
            BY <1>1, <2>2, <3>2 DEF StartFlush, Kept, TypeOK
        <3> QED
            BY <3>1, <3>2
    <2>3. ASSUME NEW w \in Workers, NEW d \in Events, Done(w, d) PROVE Ready'
        BY <1>1, <2>3 DEF Done, Kept, TypeOK
    <2>4. ASSUME NEW w \in Workers, InsertOK(w) PROVE Ready'
        <3>1. \A e \in pending[w] : Stored(e)'
            BY <2>4, CommitStores DEF InsertOK
        <3>2. \A v \in Workers : v # w => pc'[v] = pc[v]
            BY <2>4 DEF InsertOK, TypeOK
        <3>3. pending' = pending
            BY <2>4 DEF InsertOK
        <3> QED
            BY <1>1, <3>1, <3>2, <3>3 DEF Kept, TypeOK
    <2>5. ASSUME NEW w \in Workers, InsertFails(w) \/ BeginDrain(w) PROVE Ready'
        BY <1>1, <2>5 DEF InsertFails, BeginDrain, Kept, TypeOK
    <2>6. ASSUME NEW w \in Workers, NEW d \in Events, Take(w, d) PROVE Ready'
        <3>1. CASE Cardinality(batch[w] \cup {d}) >= BatchSize
            BY <2>2, <2>6, <3>1 DEF Take
        <3>2. CASE ~(Cardinality(batch[w] \cup {d}) >= BatchSize)
            BY <2>1, <2>6, <3>2 DEF Take
        <3> QED
            BY <3>1, <3>2
    <2>7. ASSUME NEW w \in Workers, Worker(w) PROVE Ready'
        BY <2>2, <2>3, <2>4, <2>5, <2>6, <2>7
        DEF Worker, Storing, DeadLetter, Publish, Tick, EndDrain
    <2>8. CASE Submit \/ Main \/ UNCHANGED vars
        BY <2>1, <2>8 DEF Submit, SubmitQueued, SubmitOverflow, Main, StopServer,
                          TraceCancel, TraceWait, vars
    <2> QED
        BY <2>7, <2>8 DEF Next
<1> QED
    BY <1>2, <1>3, <1>4 DEF Kept

\* Every event that is gone was counted when it went.
LEMMA CountedStep == TypeOK /\ Counted /\ [Next]_vars => Counted'
<1> SUFFICES ASSUME TypeOK, Counted, [Next]_vars PROVE Counted'
    OBVIOUS
<1> USE DEF workerVars, storeVars, serverVars
<1>1. IsFiniteSet(gone) /\ Cardinality(gone) \in Nat
    BY QueueIsFinite DEF TypeOK
<1>2. ASSUME NEW e \in Events
      PROVE  Cardinality(gone \cup {e}) <= Cardinality(gone) + 1
    <2>1. CASE e \in gone
        <3>1. Cardinality(gone \cup {e}) = Cardinality(gone)
            BY <1>1, <2>1, FS_AddElement
        <3> QED
            BY <1>1, <3>1
    <2>2. CASE e \notin gone
        <3>1. Cardinality(gone \cup {e}) = Cardinality(gone) + 1
            BY <1>1, <2>2, FS_AddElement
        <3> QED
            BY <1>1, <3>1
    <2> QED
        BY <2>1, <2>2
<1>3. ASSUME NEW e \in Events, gone' = gone \cup {e}, dropped' = dropped + 1
      PROVE  Counted'
    <2>1. Cardinality(gone \cup {e}) \in Nat
        BY QueueIsFinite DEF TypeOK
    <2> QED
        BY <1>1, <1>2, <1>3, <2>1 DEF Counted, TypeOK
<1>4. ASSUME UNCHANGED gone, dropped' \in {dropped, dropped + 1} PROVE Counted'
    BY <1>1, <1>4 DEF Counted, TypeOK
<1>5. ASSUME NEW e \in Events, SubmitOverflow(e) PROVE Counted'
    BY <1>3, <1>4, <1>5 DEF SubmitOverflow, DeadLetterOverflow
<1>6. ASSUME NEW w \in Workers, NEW e \in Events, DeadLetter(w, e) PROVE Counted'
    BY <1>3, <1>4, <1>6 DEF DeadLetter
<1>7. \/ UNCHANGED <<gone, dropped>>
      \/ \E e \in Events : SubmitOverflow(e)
      \/ \E w \in Workers, e \in Events : DeadLetter(w, e)
    BY DEF Next, Submit, SubmitQueued, Worker, Storing, Take, Publish, Tick, BeginDrain,
           EndDrain, InsertOK, InsertFails, Main, StopServer, TraceCancel, TraceWait,
           vars
<1> QED
    BY <1>4, <1>5, <1>6, <1>7

-----------------------------------------------------------------------------
(* Shutdown. *)

\* The workers run and nobody has asked them to stop.
LEMMA OrderInit == Init => ShutdownOrder
BY DEF Init, ShutdownOrder, Draining, Leaving

\* What a flush does to where a worker is and where it goes on.
LEMMA FlushRoute ==
    ASSUME TypeOK, NEW w \in Workers, NEW events,
           NEW next \in {"run", "drain", "exited"}, StartFlush(w, events, next)
    PROVE  /\ \A v \in Workers \ {w} : pc'[v] = pc[v] /\ then'[v] = then[v]
           /\ pc'[w] \in {next, "insert"} /\ then'[w] \in {next, then[w]}
<1>1. CASE events = {}
    BY <1>1 DEF StartFlush, TypeOK
<1>2. CASE events # {}
    BY <1>2 DEF StartFlush, TypeOK
<1> QED
    BY <1>1, <1>2

\* The server stops before the workers are cancelled, and a worker that has found
\* the queue empty after a graceful stop is not needed again.
LEMMA OrderStep == TypeOK /\ ShutdownOrder /\ [Next]_vars => ShutdownOrder'
<1> SUFFICES ASSUME TypeOK, ShutdownOrder, [Next]_vars PROVE ShutdownOrder'
    OBVIOUS
<1> USE DEF workerVars, storeVars, serverVars, Draining, Leaving
<1>1. ASSUME NEW e \in Events, SubmitQueued(e) \/ SubmitOverflow(e)
      PROVE  ShutdownOrder'
    BY <1>1 DEF SubmitQueued, SubmitOverflow, HandlersRun, ShutdownOrder
<1>2. ASSUME NEW w \in Workers, NEW events, NEW next \in {"run", "drain", "exited"},
             StartFlush(w, events, next), pc[w] # "exited",
             next = "drain" => pc[w] = "drain",
             next = "exited" => pc[w] = "drain" /\ queue = {},
             queue' \subseteq queue, UNCHANGED <<server, main>>
      PROVE  ShutdownOrder'
    <2>1. /\ \A v \in Workers \ {w} : pc'[v] = pc[v] /\ then'[v] = then[v]
          /\ pc'[w] \in {next, "insert"} /\ then'[w] \in {next, then[w]}
        BY <1>2, FlushRoute
    <2>2. main # "stopped"
        BY <1>2 DEF ShutdownOrder
    <2>3. ASSUME NEW v \in Workers, (Draining(v) \/ Leaving(v))' PROVE main' # "serving"
        BY <1>2, <2>1, <2>3 DEF ShutdownOrder
    <2>4. ASSUME NEW v \in Workers, Leaving(v)', server' = "graceful" PROVE queue' = {}
        BY <1>2, <2>1, <2>4 DEF ShutdownOrder
    <2> QED
        BY <1>2, <2>2, <2>3, <2>4 DEF ShutdownOrder
<1>3. ASSUME NEW w \in Workers, NEW e \in Events, Take(w, e) PROVE ShutdownOrder'
    <2>1. CASE Cardinality(batch[w] \cup {e}) >= BatchSize
        BY <1>2, <1>3, <2>1 DEF Take
    <2>2. CASE ~(Cardinality(batch[w] \cup {e}) >= BatchSize)
        BY <1>3, <2>2 DEF Take, ShutdownOrder
    <2> QED
        BY <2>1, <2>2
<1>4. ASSUME NEW w \in Workers, NEW e \in Events, DeadLetter(w, e) \/ Publish(w, e)
      PROVE  ShutdownOrder'
    BY <1>4 DEF DeadLetter, Publish, Done, TypeOK, ShutdownOrder
<1>5. ASSUME NEW w \in Workers, Tick(w) \/ EndDrain(w) PROVE ShutdownOrder'
    BY <1>2, <1>5 DEF Tick, EndDrain
<1>6. ASSUME NEW w \in Workers, BeginDrain(w) \/ InsertOK(w) \/ InsertFails(w)
      PROVE  ShutdownOrder'
    BY <1>6 DEF BeginDrain, Canceled, InsertOK, InsertFails, TypeOK, ShutdownOrder
<1>7. CASE Main
    BY <1>7 DEF Main, StopServer, TraceCancel, TraceWait, TypeOK, ShutdownOrder
<1>8. CASE UNCHANGED vars
    BY <1>8 DEF vars, ShutdownOrder
<1> QED
    BY <1>1, <1>3, <1>4, <1>5, <1>6, <1>7, <1>8 DEF Next, Submit, Worker, Storing

\* What is in the process has somebody to take it, or a forced stop left the last
\* worker go before it came.
LEMMA QueuedMeansTaken ==
    ASSUME TypeOK, ShutdownOrder, NEW e \in Events
    PROVE  /\ InProcess(e) => InMemory(e) \/ Stranded(e)
           /\ Stranded(e) => server = "forced"
<1>1. InProcess(e) => InMemory(e) \/ Stranded(e)
    BY DEF InProcess, InMemory, Stranded
<1>2. ASSUME Stranded(e) PROVE server = "forced"
    <2>1. PICK w \in Workers : Leaving(w)
        BY <1>2 DEF Stranded
    <2>2. server # "serving" /\ server # "graceful"
        BY <1>2, <2>1 DEF Stranded, ShutdownOrder
    <2> QED
        BY <2>2 DEF TypeOK
<1> QED
    BY <1>1, <1>2

\* When main has stopped, all workers have let go of their events.
LEMMA StoppedMeansEmpty ==
    ASSUME TypeOK, HeldWhere, ShutdownOrder, main = "stopped", NEW e \in Events
    PROVE  ~InMemory(e)
<1>1. \A w \in Workers : pc[w] = "exited"
    BY DEF ShutdownOrder
<1>2. \A w \in Workers : batch[w] = {} /\ pending[w] = {}
    BY <1>1 DEF HeldWhere, Flushing
<1> QED
    BY <1>1, <1>2 DEF InMemory, Leaving

\* Only the handler that submits an event strands it: the worker that leaves last
\* has seen the queue empty.
LEMMA StrandStep ==
    ASSUME TypeOK, [Next]_vars, NEW e \in Events, Stranded(e)', e \notin fresh
    PROVE  Stranded(e)
<1> USE DEF workerVars, storeVars, serverVars
<1> SUFFICES ASSUME ~Stranded(e) PROVE FALSE
    OBVIOUS
<1>1. e \in queue
    <2>1. e \in queue'
        BY DEF Stranded
    <2>2. \/ queue' \subseteq queue
          \/ \E d \in fresh : queue' = queue \cup {d}
        BY DEF Next, Submit, SubmitQueued, SubmitOverflow, Worker, Storing, Take, DeadLetter,
               Publish, Tick, BeginDrain, EndDrain, InsertOK, InsertFails, Main,
               StopServer, TraceCancel, TraceWait, vars
    <2> QED
        BY <2>1, <2>2
<1>2. PICK v \in Workers : ~Leaving(v)
    BY <1>1 DEF Stranded
<1>3. Leaving(v)'
    BY DEF Stranded
<1> USE DEF Leaving
<1>4. ASSUME NEW w \in Workers, NEW events, NEW next \in {"run", "drain"},
             StartFlush(w, events, next)
      PROVE  FALSE
    <2>1. /\ \A u \in Workers \ {w} : pc'[u] = pc[u] /\ then'[u] = then[u]
          /\ pc'[w] \in {next, "insert"} /\ then'[w] \in {next, then[w]}
        BY <1>4, FlushRoute
    <2> QED
        BY <1>2, <1>3, <2>1
<1>5. ASSUME NEW w \in Workers, NEW d \in Events, Take(w, d) PROVE FALSE
    <2>1. CASE Cardinality(batch[w] \cup {d}) >= BatchSize
        BY <1>4, <1>5, <2>1 DEF Take
    <2>2. CASE ~(Cardinality(batch[w] \cup {d}) >= BatchSize)
        BY <1>2, <1>3, <1>5, <2>2 DEF Take
    <2> QED
        BY <2>1, <2>2
<1>6. ASSUME NEW w \in Workers, NEW d \in Events, DeadLetter(w, d) \/ Publish(w, d)
      PROVE  FALSE
    BY <1>2, <1>3, <1>6 DEF DeadLetter, Publish, Done, TypeOK
<1>7. ASSUME NEW w \in Workers, Tick(w) \/ EndDrain(w) PROVE FALSE
    BY <1>1, <1>4, <1>7 DEF Tick, EndDrain
<1>8. ASSUME NEW w \in Workers, BeginDrain(w) \/ InsertOK(w) \/ InsertFails(w)
      PROVE  FALSE
    BY <1>2, <1>3, <1>8 DEF BeginDrain, InsertOK, InsertFails, TypeOK
<1>9. CASE Submit \/ Main \/ UNCHANGED vars
    BY <1>2, <1>3, <1>9 DEF Submit, SubmitQueued, SubmitOverflow, Main, StopServer,
                            TraceCancel, TraceWait, vars
<1> QED
    BY <1>5, <1>6, <1>7, <1>8, <1>9 DEF Next, Worker, Storing

-----------------------------------------------------------------------------
(* One place for an event. *)

\* flush leaves a worker with the events it is given, and the others alone.
LEMMA FlushHolds ==
    ASSUME TypeOK, HeldWhere, NEW w \in Workers, NEW events \in SUBSET Events,
           NEW next \in {"run", "drain", "exited"}, StartFlush(w, events, next),
           pc[w] \notin Flushing
    PROVE  /\ Holds(w)' \subseteq events
           /\ \A v \in Workers : v # w => Holds(v)' = Holds(v)
<1>1. pending[w] = {}
    BY DEF HeldWhere
<1>2. CASE events = {}
    BY <1>1, <1>2 DEF StartFlush, TypeOK, Holds
<1>3. CASE events # {}
    BY <1>3 DEF StartFlush, TypeOK, Holds
<1> QED
    BY <1>2, <1>3

\* All events are with nobody yet.
LEMMA OneHolderInit == Init => OneHolder
BY DEF Init, OneHolder, Holds

\* Submit, the workers and main pass an event on and never copy it.
LEMMA OneHolderStep ==
    TypeOK /\ HeldWhere /\ OneHolder /\ [Next]_vars => OneHolder'
<1> SUFFICES ASSUME TypeOK, HeldWhere, OneHolder, [Next]_vars PROVE OneHolder'
    OBVIOUS
<1> USE DEF workerVars, storeVars, serverVars
<1>1. ASSUME NEW e \in Events, SubmitQueued(e) \/ SubmitOverflow(e) PROVE OneHolder'
    <2>1. /\ UNCHANGED <<batch, pending, handed>> /\ e \in fresh /\ fresh' = fresh \ {e}
          /\ queue' \in {queue, queue \cup {e}}
        BY <1>1 DEF SubmitQueued, SubmitOverflow
    <2> QED
        BY <2>1 DEF OneHolder, Holds
<1>2. ASSUME NEW w \in Workers, UNCHANGED <<fresh, queue, handed>>,
             Holds(w)' \subseteq Holds(w),
             \A v \in Workers : v # w => Holds(v)' = Holds(v)
      PROVE  OneHolder'
    BY <1>2 DEF OneHolder
<1>3. ASSUME NEW w \in Workers, NEW e \in Events, Take(w, e) PROVE OneHolder'
    <2>1. /\ e \in queue /\ queue' = queue \ {e} /\ UNCHANGED <<fresh, handed>>
          /\ pc[w] \in {"run", "drain", "exited"} /\ pc[w] \notin Flushing
          /\ batch[w] \cup {e} \in SUBSET Events
        BY <1>3 DEF Take, TypeOK, Flushing
    <2>2. /\ Holds(w)' \subseteq Holds(w) \cup {e}
          /\ \A v \in Workers : v # w => Holds(v)' = Holds(v)
        <3>1. CASE StartFlush(w, batch[w] \cup {e}, pc[w])
            <4>1. /\ Holds(w)' \subseteq batch[w] \cup {e}
                  /\ \A v \in Workers : v # w => Holds(v)' = Holds(v)
                BY <2>1, <3>1, FlushHolds
            <4> QED
                BY <4>1 DEF Holds
        <3>2. CASE batch' = [batch EXCEPT ![w] = batch[w] \cup {e}] /\ UNCHANGED pending
            BY <3>2 DEF TypeOK, Holds
        <3> QED
            BY <1>3, <3>1, <3>2 DEF Take
    <2> QED
        BY <2>1, <2>2 DEF OneHolder
<1>4. ASSUME NEW w \in Workers, NEW e \in Events, Done(w, e), UNCHANGED batch
      PROVE  /\ Holds(w)' = batch[w] \cup (pending[w] \ {e})
             /\ \A v \in Workers : v # w => Holds(v)' = Holds(v)
    BY <1>4 DEF Done, TypeOK, Holds
<1>5. ASSUME NEW w \in Workers, NEW e \in Events, DeadLetter(w, e) PROVE OneHolder'
    <2>1. Done(w, e) /\ UNCHANGED <<batch, fresh, queue, handed>>
        BY <1>5 DEF DeadLetter
    <2> QED
        BY <1>2, <1>4, <2>1 DEF Holds
<1>6. ASSUME NEW w \in Workers, NEW e \in Events, Publish(w, e) PROVE OneHolder'
    <2>1. /\ Done(w, e) /\ UNCHANGED <<batch, fresh, queue>> /\ handed' = handed \cup {e}
          /\ e \in pending[w] /\ pc[w] = "publish"
        BY <1>6 DEF Publish
    <2>2. batch[w] = {}
        BY <2>1 DEF HeldWhere, Flushing
    <2>3. /\ Holds(w)' = Holds(w) \ {e} /\ e \in Holds(w)
          /\ \A v \in Workers : v # w => Holds(v)' = Holds(v)
        BY <1>4, <2>1, <2>2 DEF Holds
    <2>4. e \notin fresh \cup queue /\ \A v \in Workers : v # w => e \notin Holds(v)
        BY <2>3 DEF OneHolder
    <2> QED
        BY <2>1, <2>3, <2>4 DEF OneHolder
<1>7. ASSUME NEW w \in Workers, Tick(w) \/ EndDrain(w) PROVE OneHolder'
    <2>1. /\ UNCHANGED <<fresh, queue, handed>> /\ pc[w] \notin Flushing
          /\ StartFlush(w, batch[w], "run") \/ StartFlush(w, batch[w], "exited")
          /\ batch[w] \in SUBSET Events
        BY <1>7 DEF Tick, EndDrain, TypeOK, Flushing
    <2>2. /\ Holds(w)' \subseteq batch[w]
          /\ \A v \in Workers : v # w => Holds(v)' = Holds(v)
        BY <2>1, FlushHolds
    <2> QED
        BY <1>2, <2>1, <2>2 DEF Holds
<1>8. CASE UNCHANGED <<batch, pending, fresh, queue, handed>>
    BY <1>8 DEF OneHolder, Holds
<1>9. ASSUME NEW w \in Workers, BeginDrain(w) \/ InsertOK(w) \/ InsertFails(w)
      PROVE  OneHolder'
    BY <1>8, <1>9 DEF BeginDrain, InsertOK, InsertFails
<1>10. CASE Main \/ UNCHANGED vars
    BY <1>8, <1>10 DEF Main, StopServer, TraceCancel, TraceWait, vars
<1> QED
    BY <1>1, <1>3, <1>5, <1>6, <1>7, <1>9, <1>10 DEF Next, Submit, Worker, Storing

-----------------------------------------------------------------------------
(* The theorems. *)

\* The inductive invariant holds when the process starts.
LEMMA InvInit == Init => IInv
<1>1. Init => Counted
    BY FS_EmptySet DEF Init, Counted
<1> QED
    BY <1>1, TypeInit, HeldInit, OneHolderInit, KeptInit, OrderInit, RowsInit DEF IInv

\* Every step of a handler, a worker or main keeps it.
LEMMA InvStep == IInv /\ [Next]_vars => IInv'
BY TypeStep, HeldStep, OneHolderStep, KeptStep, CountedStep, OrderStep, RowsStep DEF IInv

\* It holds throughout.
LEMMA Invariance == Spec => []IInv
BY InvInit, InvStep, PTL DEF Spec

\* Submit, the workers and the shutdown of main lose no event silently but one that
\* an abandoned handler submits when the last worker has left: whatever the pool, the
\* queue and the batches, any other is in memory, handed to the sink, dead-lettered
\* or counted as dropped, only a stored one reaches Kafka, and none is left in memory
\* when main goes on.
THEOREM NothingIsSilentlyLost == Spec => NoSilentLoss
<1>1. IInv => TypeOK /\ Accounted
    <2> SUFFICES ASSUME IInv PROVE TypeOK /\ Accounted
        OBVIOUS
    <2>1. \A e \in Events :
              /\ InProcess(e) => InMemory(e) \/ Stranded(e)
              /\ Stranded(e) => server = "forced"
        BY QueuedMeansTaken DEF IInv
    <2>2. \A e \in Events : main = "stopped" => ~InMemory(e)
        BY StoppedMeansEmpty DEF IInv
    <2>3. \A e \in Events \ fresh : InMemory(e) \/ Settled(e) \/ Stranded(e)
        <3>1. \A e \in Events \ fresh : InProcess(e) \/ Settled(e)
            BY DEF IInv, Kept, Settled
        <3> QED
            BY <2>1, <3>1 DEF InMemory, Stranded, Settled, InProcess
    <2> QED
        BY <2>1, <2>2, <2>3 DEF IInv, Accounted, Kept, Counted
<1>2. IInv /\ [Next]_vars =>
          [\A e \in Events : Stranded(e)' => Stranded(e) \/ e \in fresh]_vars
    BY StrandStep DEF IInv
<1> QED
    BY <1>1, <1>2, Invariance, PTL DEF Spec, NoSilentLoss

\* InsertTraceBatch leaves at most one row for an external event id, however
\* often the event is delivered and however its workers interleave.
THEOREM RedeliveryLeavesOneRow == Spec => []OneRowPerExternalId
<1>1. IInv => OneRowPerExternalId
    BY DEF IInv, RowsAreKnown
<1> QED
    BY <1>1, Invariance, PTL
-----------------------------------------------------------------------------
(* The event sink, to which the trace workers hand what they have stored. *)

\* flush of the sink works on a batch, and otherwise nothing is pending.
SinkPendingInFlush == spc \notin {"write", "spill"} => spending = {}

\* A worker says "published" only of an event that Kafka has acknowledged.
Acknowledged ==
    \A r \in Replicas : \A e \in Events : current[r] = <<e, "published">> => e \in topic

\* The drain begins after eventCancel, when nobody offers any more, and ends with
\* an empty queue; a flush, and the return, leave no batch.
SinkOrder ==
    /\ {spc, sthen} \cap {"drain", "exited"} # {} => stopping
    /\ "exited" \in {spc, sthen} => squeue = {}
    /\ spc \in {"write", "spill", "exited"} => sbatch = {}

SinkSafe ==
    /\ SinkTypeOK
    /\ PublishedRowsAreInTopic
    /\ \A e \in Events \ unoffered : InSink(e) \/ Delivered(e)

\* What was not offered is nowhere in the sink, in the topic or in the outbox.
OnlyOffered ==
    \A e \in unoffered :
        /\ ~InSink(e) /\ ~Delivered(e)
        /\ \A r \in Replicas : e \notin claimed[r] /\ (current[r] # NoMark => current[r][1] # e)

SinkInv == /\ SinkSafe /\ SinkPendingInFlush /\ Acknowledged /\ SinkOrder
           /\ OnlyOffered

\* Initially every event is unoffered and every worker of the outbox is idle.
LEMMA SinkInvInit == SinkInit => SinkInv
<1> SUFFICES ASSUME SinkInit PROVE SinkInv
    OBVIOUS
<1>1. SinkTypeOK
    <2>1. Cardinality(squeue) <= SinkQueue
        BY FS_EmptySet DEF SinkInit, EventSinkAssumption
    <2>2. current \in [Replicas -> {NoMark} \cup (Events \X MarkKinds)]
        BY DEF SinkInit
    <2> QED
        BY <2>1, <2>2 DEF SinkInit, SinkTypeOK
<1>2. SinkPendingInFlush /\ PublishedRowsAreInTopic
    BY DEF SinkInit, SinkPendingInFlush, PublishedRowsAreInTopic
<1>3. Acknowledged
    <2>1. \A r \in Replicas : current[r] = <<>>
        BY DEF SinkInit, NoMark
    <2> QED
        BY <2>1 DEF Acknowledged
<1>4. \A e \in Events : e \in unoffered
    BY DEF SinkInit
<1>5. OnlyOffered
    BY DEF SinkInit, OnlyOffered, InSink, Delivered
<1> QED
    BY <1>1, <1>2, <1>3, <1>4, <1>5 DEF SinkInv, SinkSafe, SinkOrder, SinkInit

\* StartWrite moves a whole batch to the flush, or goes where it was to return.
LEMMA StartWriteTypes ==
    ASSUME SinkTypeOK, NEW events \in SUBSET Events, spending = {},
           NEW next \in {"run", "drain", "exited"}, StartWrite(events, next)
    PROVE  /\ sbatch' = {} /\ spending' = events
           /\ spc' \in {"run", "drain", "write", "exited"}
           /\ sthen' \in {"run", "drain", "exited"}
           /\ spc' # "write" => spending' = {}
<1>1. CASE events = {}
    BY <1>1 DEF StartWrite, SinkTypeOK
<1>2. CASE events # {}
    BY <1>2 DEF StartWrite, SinkTypeOK
<1> QED
    BY <1>1, <1>2

\* The shutdown of the sink, through both loops of writeWorker.
LEMMA SinkOrderStep ==
    SinkTypeOK /\ SinkPendingInFlush /\ SinkOrder /\ [SinkNext]_sinkVars => SinkOrder'
<1> SUFFICES ASSUME SinkTypeOK, SinkPendingInFlush, SinkOrder, [SinkNext]_sinkVars
             PROVE  SinkOrder'
    OBVIOUS
<1>1. CASE OfferAny
    <2>1. /\ ~stopping
          /\ UNCHANGED <<sbatch, spc, sthen, stopping>>
        BY <1>1 DEF OfferAny, Offer, PublishQueued, PublishOverflow, PublishUnencoded,
                    writerVars
    <2> QED
        BY <2>1 DEF SinkOrder
<1>2. ASSUME NEW e \in Events, WriterTake(e) PROVE SinkOrder'
    <2>1. /\ spc \in {"run", "drain"} /\ squeue # {} /\ squeue' \subseteq squeue
          /\ UNCHANGED stopping
        BY <1>2 DEF WriterTake
    <2>2. CASE StartWrite(sbatch \cup {e}, spc)
        <3>1. sbatch' = {} /\ spc' = "write" /\ sthen' = spc
            BY <2>2 DEF StartWrite
        <3> QED
            BY <2>1, <3>1 DEF SinkOrder
    <2>3. CASE sbatch' = sbatch \cup {e} /\ UNCHANGED <<spending, spc, sthen>>
        BY <2>1, <2>3 DEF SinkOrder
    <2> QED
        BY <1>2, <2>2, <2>3 DEF WriterTake
<1>3. ASSUME NEW e \in Events, WriterSpill(e) PROVE SinkOrder'
    <2>1. /\ UNCHANGED <<squeue, sbatch, sthen, stopping>>
          /\ spc = "spill" /\ spc' \in {sthen, "spill"}
        BY <1>3 DEF WriterSpill
    <2> QED
        BY <2>1 DEF SinkOrder
<1>4. CASE WriterTick
    <2>1. sbatch' = {} /\ spc' = "write" /\ sthen' = "run" /\ UNCHANGED <<squeue, stopping>>
        BY <1>4 DEF WriterTick, StartWrite
    <2> QED
        BY <2>1 DEF SinkOrder
<1>5. CASE WriterBeginDrain
    BY <1>5 DEF WriterBeginDrain, SinkOrder
<1>6. CASE WriterEndDrain
    <2>1. /\ sbatch' = {} /\ spc = "drain" /\ squeue' = {} /\ UNCHANGED stopping
          /\ spc' \in {"write", "exited"}
        BY <1>6 DEF WriterEndDrain, StartWrite
    <2> QED
        BY <2>1 DEF SinkOrder
<1>7. CASE WriteOK \/ WriteFails
    <2>1. /\ spc = "write" /\ spc' \in {sthen, "spill"}
          /\ UNCHANGED <<squeue, sbatch, sthen, stopping>>
        BY <1>7 DEF WriteOK, WriteFails
    <2> QED
        BY <2>1 DEF SinkOrder
<1>8. CASE (\E r \in Replicas : Outbox(r)) \/ (\E e \in Events : LockExpires(e) \/ BackoffEnds(e))
           \/ UNCHANGED sinkVars
    <2>1. UNCHANGED <<squeue, sbatch, spc, sthen, stopping>>
        BY <1>8 DEF Outbox, ClaimAny, SendAny, Claim, Send, Mark, Restart, LockExpires,
                    BackoffEnds, sinkVars, writerVars
    <2> QED
        BY <2>1 DEF SinkOrder
<1>9. CASE EventCancel
    <2>1. stopping' /\ UNCHANGED <<squeue, sbatch, spc, sthen>>
        BY <1>9 DEF EventCancel, writerVars
    <2> QED
        BY <2>1 DEF SinkOrder
<1> QED
    BY <1>1, <1>2, <1>3, <1>4, <1>5, <1>6, <1>7, <1>8, <1>9
    DEF SinkNext, Delivering, WriteWorker

\* The sink, Kafka and the outbox get to know an event through PublishTrace only.
LEMMA OnlyOfferedStep ==
    SinkTypeOK /\ OnlyOffered /\ [SinkNext]_sinkVars => OnlyOffered'
<1> SUFFICES ASSUME SinkTypeOK, OnlyOffered, [SinkNext]_sinkVars, NEW x \in unoffered'
             PROVE  /\ ~InSink(x)' /\ ~Delivered(x)'
                    /\ \A r \in Replicas : /\ x \notin claimed'[r]
                                           /\ current'[r] # NoMark => current'[r][1] # x
    BY DEF OnlyOffered
<1> USE DEF writerVars, outboxVars, InSink, Delivered
<1> DEFINE Unknown == /\ ~InSink(x)' /\ ~Delivered(x)'
                      /\ \A r \in Replicas : /\ x \notin claimed'[r]
                                             /\ current'[r] # NoMark => current'[r][1] # x
<1>1. x \in unoffered /\ x \in Events
    BY DEF SinkNext, OfferAny, Offer, PublishQueued, PublishOverflow,
           PublishUnencoded, Delivering,
           WriteWorker, WriterTake, WriterSpill, WriterTick, WriterBeginDrain,
           WriterEndDrain, WriteOK, WriteFails, Outbox, ClaimAny, SendAny, Claim, Send,
           Mark, Restart, LockExpires, BackoffEnds, EventCancel, sinkVars, SinkTypeOK
<1>2. /\ ~InSink(x) /\ ~Delivered(x)
      /\ \A r \in Replicas : x \notin claimed[r] /\ (current[r] # NoMark => current[r][1] # x)
    BY <1>1 DEF OnlyOffered
<1> SUFFICES Unknown
    OBVIOUS
<1>3. ASSUME NEW e \in Events, Offer(e) PROVE Unknown
    <2>1. x # e
        BY <1>3 DEF Offer, PublishQueued, PublishOverflow, PublishUnencoded
    <2>2. /\ squeue' \in {squeue, squeue \cup {e}}
          /\ row'[x] = row[x] /\ unlogged' \in {unlogged, unlogged \cup {e}}
          /\ UNCHANGED <<sbatch, spending, claimed, current, topic>>
        BY <1>1, <1>3, <2>1
        DEF Offer, PublishQueued, PublishOverflow, PublishUnencoded, Spill, SinkTypeOK
    <2> QED
        BY <1>2, <2>1, <2>2
<1>4. ASSUME squeue' \cup sbatch' \cup spending' \subseteq squeue \cup sbatch \cup spending,
             topic' \subseteq topic \cup spending, UNCHANGED <<row, unlogged, claimed, current>>
      PROVE  Unknown
    BY <1>2, <1>4
<1>5. ASSUME NEW events, NEW next, StartWrite(events, next), events \subseteq squeue \cup sbatch
      PROVE  sbatch' \cup spending' \subseteq squeue \cup sbatch \cup spending
    BY <1>5 DEF StartWrite
<1>6. ASSUME NEW e \in Events, WriterTake(e) PROVE Unknown
    <2>1. /\ squeue' \subseteq squeue /\ e \in squeue
          /\ UNCHANGED <<row, unlogged, claimed, current, topic>>
        BY <1>6 DEF WriterTake
    <2>2. sbatch' \cup spending' \subseteq squeue \cup sbatch \cup spending
        <3>1. CASE StartWrite(sbatch \cup {e}, spc)
            BY <1>5, <2>1, <3>1
        <3>2. CASE sbatch' = sbatch \cup {e} /\ UNCHANGED spending
            BY <2>1, <3>2
        <3> QED
            BY <1>6, <3>1, <3>2 DEF WriterTake
    <2> QED
        BY <1>4, <2>1, <2>2
<1>7. CASE WriterTick \/ WriterEndDrain
    <2>1. /\ StartWrite(sbatch, "run") \/ StartWrite(sbatch, "exited")
          /\ UNCHANGED <<squeue, row, unlogged, claimed, current, topic>>
        BY <1>7 DEF WriterTick, WriterEndDrain
    <2>2. sbatch' \cup spending' \subseteq squeue \cup sbatch \cup spending
        BY <1>5, <2>1
    <2> QED
        BY <1>4, <2>1, <2>2
<1>8. CASE WriterBeginDrain \/ EventCancel
    BY <1>4, <1>8 DEF WriterBeginDrain, EventCancel
<1>9. CASE WriteOK \/ WriteFails
    <2>1. /\ topic' \subseteq topic \cup spending /\ spending' \in {spending, {}}
          /\ UNCHANGED <<squeue, sbatch, row, unlogged, claimed, current>>
        BY <1>9 DEF WriteOK, WriteFails, Deliver
    <2> QED
        BY <1>4, <2>1
<1>10. ASSUME NEW e \in Events, WriterSpill(e) PROVE Unknown
    <2>1. /\ e \in spending /\ spending' = spending \ {e}
          /\ UNCHANGED <<squeue, sbatch, claimed, current, topic>>
          /\ unlogged' \in {unlogged, unlogged \cup {e}}
        BY <1>10 DEF WriterSpill, Spill
    <2>2. x # e
        BY <1>2, <2>1
    <2>3. row'[x] = row[x]
        BY <1>1, <1>10, <2>2 DEF WriterSpill, Spill, SinkTypeOK
    <2> QED
        BY <1>2, <2>1, <2>2, <2>3
<1>11. ASSUME NEW r \in Replicas, NEW S \in SUBSET Events, Claim(r, S) PROVE Unknown
    <2>1. /\ \A e \in S : row[e] = "ready"
          /\ row' = [e \in Events |-> IF e \in S THEN "locked" ELSE row[e]]
          /\ claimed' = [claimed EXCEPT ![r] = S] \/ claimed' = claimed
          /\ UNCHANGED <<squeue, sbatch, spending, current, topic, unlogged>>
        BY <1>11 DEF Claim
    <2>2. x \notin S
        BY <1>2, <2>1
    <2>3. row'[x] = row[x] /\ \A q \in Replicas : x \notin claimed'[q]
        BY <1>1, <1>2, <2>1, <2>2 DEF SinkTypeOK
    <2> QED
        BY <1>2, <2>1, <2>3
<1>12. ASSUME NEW r \in Replicas, NEW e \in Events, NEW how \in MarkKinds, Send(r, e, how)
       PROVE  Unknown
    <2>1. /\ e \in claimed[r] /\ claimed' = [claimed EXCEPT ![r] = @ \ {e}]
          /\ current' = [current EXCEPT ![r] = <<e, how>>]
          /\ topic' \in {topic, topic \cup {e}}
          /\ UNCHANGED <<squeue, sbatch, spending, row, unlogged>>
        BY <1>12 DEF Send, Deliver
    <2>2. x # e
        BY <1>2, <2>1
    <2>3. ASSUME NEW q \in Replicas
          PROVE  x \notin claimed'[q] /\ (current'[q] # NoMark => current'[q][1] # x)
        <3>1. CASE q = r
            BY <1>2, <2>1, <2>2, <3>1 DEF SinkTypeOK
        <3>2. CASE q # r
            BY <1>2, <2>1, <3>2 DEF SinkTypeOK
        <3> QED
            BY <3>1, <3>2
    <2> QED
        BY <1>2, <2>1, <2>2, <2>3
<1>13. ASSUME NEW r \in Replicas, Mark(r) PROVE Unknown
    <2>1. /\ current[r] # NoMark /\ current' = [current EXCEPT ![r] = NoMark]
          /\ \/ row' = [row EXCEPT ![current[r][1]] =
                           Marked(row[current[r][1]], current[r][2])]
             \/ row' = row
          /\ UNCHANGED <<squeue, sbatch, spending, claimed, topic, unlogged>>
        BY <1>13 DEF Mark
    <2>2. current[r][1] # x
        BY <1>2, <2>1
    <2>3. row'[x] = row[x]
        BY <1>1, <2>1, <2>2 DEF SinkTypeOK
    <2>4. \A q \in Replicas : current'[q] # NoMark => current'[q] = current[q]
        BY <2>1 DEF SinkTypeOK
    <2> QED
        BY <1>2, <2>1, <2>3, <2>4
<1>14. ASSUME NEW r \in Replicas, Restart(r) PROVE Unknown
    <2>1. /\ \A q \in Replicas : claimed'[q] \subseteq claimed[q]
          /\ \A q \in Replicas : current'[q] # NoMark => current'[q] = current[q]
          /\ UNCHANGED <<squeue, sbatch, spending, row, topic, unlogged>>
        BY <1>14 DEF Restart, SinkTypeOK
    <2> QED
        BY <1>2, <2>1
<1>15. ASSUME NEW e \in Events, LockExpires(e) \/ BackoffEnds(e) PROVE Unknown
    <2>1. /\ row[e] # "none" /\ row' = [row EXCEPT ![e] = "ready"]
          /\ UNCHANGED <<squeue, sbatch, spending, claimed, current, topic, unlogged>>
        BY <1>15 DEF LockExpires, BackoffEnds
    <2>2. x # e
        BY <1>2, <2>1
    <2>3. row'[x] = row[x]
        BY <1>1, <2>1, <2>2 DEF SinkTypeOK
    <2> QED
        BY <1>2, <2>1, <2>3
<1>16. CASE UNCHANGED sinkVars
    BY <1>2, <1>16 DEF sinkVars
<1> HIDE DEF Unknown
<1>17. CASE WriteWorker
    BY <1>6, <1>7, <1>8, <1>9, <1>10, <1>17 DEF WriteWorker
<1>18. ASSUME NEW r \in Replicas, Outbox(r) PROVE Unknown
    BY <1>11, <1>12, <1>13, <1>14, <1>18 DEF Outbox, ClaimAny, SendAny
<1> QED
    BY <1>3, <1>8, <1>15, <1>16, <1>17, <1>18 DEF SinkNext, OfferAny, Delivering

\* What is in memory moves on, to the topic, to the outbox or into the log; what
\* has left memory stays where it is.
LEMMA SinkStep == SinkInv /\ [SinkNext]_sinkVars => SinkInv'
<1> SUFFICES ASSUME SinkInv, [SinkNext]_sinkVars PROVE SinkInv'
    OBVIOUS
<1> DEFINE Kinds == {"published", "failed"}
           Memory == squeue \cup sbatch \cup spending
           Safe(e) == e \in Memory \/ e \in topic \/ row[e] # "none" \/ e \in unlogged
           Types == /\ unoffered \in SUBSET Events
                    /\ squeue \in SUBSET Events /\ Cardinality(squeue) <= SinkQueue
                    /\ sbatch \in SUBSET Events /\ spending \in SUBSET Events
                    /\ spc \in {"run", "drain", "write", "spill", "exited"}
                    /\ sthen \in {"run", "drain", "exited"} /\ stopping \in BOOLEAN
                    /\ row \in [Events -> {"none", "ready", "locked", "backoff", "published"}]
                    /\ claimed \in [Replicas -> SUBSET Events]
                    /\ current \in [Replicas -> {<<>>} \cup (Events \X Kinds)]
                    /\ topic \in SUBSET Events /\ unlogged \in SUBSET Events
           Closed == \A e \in Events : row[e] = "published" => e \in topic
<1>0. SinkTypeOK <=> Types
    BY DEF SinkTypeOK, NoMark, MarkKinds
<1>1. Types /\ Closed /\ (\A e \in Events \ unoffered : Safe(e))
    <2>1. Closed /\ (\A e \in Events \ unoffered : Safe(e)) /\ SinkTypeOK
        BY DEF SinkInv, SinkSafe, PublishedRowsAreInTopic, InSink, Delivered
    <2> QED
        BY <1>0, <2>1
<1>2. SinkPendingInFlush /\ Acknowledged
    BY DEF SinkInv
<1> DEFINE Goal == /\ Types' /\ Closed' /\ (\A e \in Events \ unoffered' : Safe(e)')
                   /\ SinkPendingInFlush' /\ Acknowledged'
<1>3. SUFFICES Goal
    <2>1. Types' => SinkTypeOK'
        BY DEF SinkTypeOK, NoMark, MarkKinds
    <2>2. (Types' /\ Closed' /\ \A e \in Events \ unoffered' : Safe(e)') => SinkSafe'
        BY <2>1 DEF SinkSafe, PublishedRowsAreInTopic, InSink, Delivered
    <2>3. SinkOrder' /\ OnlyOffered'
        BY SinkOrderStep, OnlyOfferedStep DEF SinkInv, SinkSafe
    <2> QED
        BY <2>2, <2>3 DEF SinkInv
<1>4. \A S \in SUBSET Events : IsFiniteSet(S) /\ Cardinality(S) \in Nat
    BY QueueIsFinite
<1>5. ASSUME NEW e \in Events, PublishQueued(e)
      PROVE  Goal
    <2>1. /\ squeue' = squeue \cup {e} /\ unoffered' = unoffered \ {e}
          /\ Cardinality(squeue) < SinkQueue
          /\ UNCHANGED <<sbatch, spending, spc, sthen, stopping, row, claimed, current,
                         topic, unlogged>>
        <3>1. SinkRoom
            BY <1>5 DEF PublishQueued
        <3>2. Cardinality(squeue) < SinkQueue
            BY <3>1 DEF SinkRoom
        <3> QED
            BY <1>5, <3>2 DEF PublishQueued, outboxVars
    <2>2. Cardinality(squeue') <= SinkQueue
        <3>1. Cardinality(squeue \cup {e}) <= Cardinality(squeue) + 1
            <4>1. IsFiniteSet(squeue) /\ Cardinality(squeue) \in Nat
                BY <1>1, <1>4
            <4>2. \/ Cardinality(squeue \cup {e}) = Cardinality(squeue)
                  \/ Cardinality(squeue \cup {e}) = Cardinality(squeue) + 1
                BY <4>1, FS_AddElement
            <4> QED
                BY <4>1, <4>2
        <3>2. squeue \cup {e} \in SUBSET Events
            BY <1>1
        <3> QED
            BY <1>1, <1>4, <2>1, <3>1, <3>2 DEF EventSinkAssumption
    <2> QED
        BY <1>1, <1>2, <2>1, <2>2 DEF SinkPendingInFlush, Acknowledged
<1>6. ASSUME NEW e \in Events, PublishOverflow(e) \/ PublishUnencoded(e)
      PROVE  Goal
    <2>1. /\ unoffered' = unoffered \ {e}
          /\ \/ row' = [row EXCEPT ![e] = "ready"] /\ unlogged' = unlogged
             \/ unlogged' = unlogged \cup {e} /\ row' = row
          /\ UNCHANGED <<squeue, sbatch, spending, spc, sthen, stopping, claimed, current,
                         topic>>
        BY <1>6 DEF PublishOverflow, PublishUnencoded, Spill, writerVars, outboxVars
    <2> QED
        BY <1>1, <1>2, <2>1 DEF SinkPendingInFlush, Acknowledged
<1>7. ASSUME NEW e \in Events, WriterTake(e)
      PROVE  Goal
    <2>1. /\ spc \in {"run", "drain"} /\ e \in squeue /\ squeue' = squeue \ {e}
          /\ UNCHANGED <<unoffered, stopping, row, claimed, current, topic, unlogged>>
        BY <1>7 DEF WriterTake, outboxVars
    <2>2. spending = {}
        BY <1>2, <2>1 DEF SinkPendingInFlush
    <2>3. Cardinality(squeue') <= SinkQueue /\ squeue' \in SUBSET Events
        <3>1. Cardinality(squeue \ {e}) = Cardinality(squeue) - 1
            BY <1>1, <1>4, <2>1, FS_RemoveElement
        <3>2. Cardinality(squeue) \in Nat /\ SinkQueue \in Nat
            BY <1>1, <1>4 DEF EventSinkAssumption
        <3> QED
            BY <1>1, <2>1, <3>1, <3>2
    <2>4. CASE StartWrite(sbatch \cup {e}, spc)
        <3>1. sbatch \cup {e} \in SUBSET Events
            BY <1>1
        <3>2. SinkTypeOK
            BY DEF SinkInv, SinkSafe
        <3>3. /\ sbatch' = {} /\ spending' = sbatch \cup {e}
              /\ spc' \in {"run", "drain", "write", "exited"}
              /\ sthen' \in {"run", "drain", "exited"}
              /\ spc' # "write" => spending' = {}
            BY <2>1, <2>2, <2>4, <3>1, <3>2, StartWriteTypes
        <3> QED
            BY <1>1, <1>2, <2>1, <2>2, <2>3, <3>1, <3>3 DEF SinkPendingInFlush, Acknowledged
    <2>5. CASE sbatch' = sbatch \cup {e} /\ UNCHANGED <<spending, spc, sthen>>
        BY <1>1, <1>2, <2>1, <2>2, <2>3, <2>5 DEF SinkPendingInFlush, Acknowledged
    <2> QED
        BY <1>7, <2>4, <2>5 DEF WriterTake
<1>8. ASSUME NEW to \in {"run", "exited"}, spc \in {"run", "drain"}, StartWrite(sbatch, to),
             UNCHANGED <<unoffered, squeue, stopping, row, claimed, current, topic, unlogged>>
      PROVE  Goal
    <2>1. spending = {} /\ SinkTypeOK
        BY <1>2, <1>8 DEF SinkPendingInFlush, SinkInv, SinkSafe
    <2>2. /\ sbatch' = {} /\ spending' = sbatch
          /\ spc' \in {"run", "drain", "write", "exited"}
          /\ sthen' \in {"run", "drain", "exited"}
          /\ spc' # "write" => spending' = {}
        BY <1>1, <1>8, <2>1, StartWriteTypes
    <2> QED
        BY <1>1, <1>2, <1>8, <2>1, <2>2 DEF SinkPendingInFlush, Acknowledged
<1>9. CASE WriterTick \/ WriterEndDrain
    BY <1>8, <1>9 DEF WriterTick, WriterEndDrain, outboxVars
<1>10. CASE WriterBeginDrain
    BY <1>1, <1>2, <1>10 DEF WriterBeginDrain, outboxVars, SinkPendingInFlush, Acknowledged
<1>11. CASE WriteOK
    <2>1. /\ topic' = topic \cup spending /\ spending' = {} /\ spc' = sthen
          /\ UNCHANGED <<unoffered, squeue, sbatch, sthen, stopping, row, claimed, current,
                         unlogged>>
        BY <1>11 DEF WriteOK, Deliver, outboxVars
    <2> QED
        BY <1>1, <1>2, <2>1 DEF SinkPendingInFlush, Acknowledged
<1>12. CASE WriteFails
    <2>1. PICK S \in SUBSET spending : topic' = topic \cup S
        BY <1>12 DEF WriteFails, Deliver
    <2>2. /\ spc' = "spill"
          /\ UNCHANGED <<unoffered, squeue, sbatch, spending, sthen, stopping, row, claimed,
                         current, unlogged>>
        BY <1>12 DEF WriteFails, outboxVars
    <2> QED
        BY <1>1, <1>2, <2>1, <2>2 DEF SinkPendingInFlush, Acknowledged
<1>13. ASSUME NEW e \in Events, WriterSpill(e)
       PROVE  Goal
    <2>1. /\ e \in spending /\ spending' = spending \ {e}
          /\ spc' = IF spending = {e} THEN sthen ELSE "spill"
          /\ \/ row' = [row EXCEPT ![e] = "ready"] /\ unlogged' = unlogged
             \/ unlogged' = unlogged \cup {e} /\ row' = row
          /\ UNCHANGED <<unoffered, squeue, sbatch, sthen, stopping, claimed, current, topic>>
        BY <1>13 DEF WriterSpill, Spill
    <2> QED
        BY <1>1, <1>2, <2>1 DEF SinkPendingInFlush, Acknowledged
<1>14. ASSUME NEW r \in Replicas, NEW S \in SUBSET Events, Claim(r, S)
       PROVE  Goal
    <2>1. /\ row' = [e \in Events |-> IF e \in S THEN "locked" ELSE row[e]]
          /\ claimed' = [claimed EXCEPT ![r] = S] \/ claimed' = claimed
          /\ UNCHANGED <<unoffered, squeue, sbatch, spending, spc, sthen, stopping, current,
                         topic, unlogged>>
        BY <1>14 DEF Claim, writerVars
    <2> QED
        BY <1>1, <1>2, <2>1 DEF SinkPendingInFlush, Acknowledged
<1>15. ASSUME NEW r \in Replicas, NEW e \in Events, NEW how \in MarkKinds,
              Send(r, e, how)
       PROVE  Goal
    <2>1. /\ claimed' = [claimed EXCEPT ![r] = @ \ {e}]
          /\ current' = [current EXCEPT ![r] = <<e, how>>]
          /\ topic' = topic \cup {e} \/ (how = "failed" /\ topic' = topic)
          /\ UNCHANGED <<unoffered, squeue, sbatch, spending, spc, sthen, stopping, row,
                         unlogged>>
        BY <1>15 DEF Send, Deliver, writerVars
    <2>2. how \in Kinds
        BY DEF MarkKinds
    <2>3. Acknowledged'
        <3> SUFFICES ASSUME NEW q \in Replicas, NEW x \in Events,
                            current'[q] = <<x, "published">>
                     PROVE  x \in topic'
            BY DEF Acknowledged
        <3>1. CASE q = r
            <4>1. x = e /\ how = "published"
                BY <1>1, <2>1, <3>1
            <4> QED
                BY <2>1, <4>1
        <3>2. CASE q # r
            BY <1>1, <1>2, <2>1, <3>2 DEF Acknowledged
        <3> QED
            BY <3>1, <3>2
    <2>4. Types'
        <3>1. current' \in [Replicas -> {<<>>} \cup (Events \X Kinds)]
            BY <1>1, <2>1, <2>2
        <3>2. claimed' \in [Replicas -> SUBSET Events] /\ topic' \in SUBSET Events
            BY <1>1, <2>1
        <3> QED
            BY <1>1, <2>1, <3>1, <3>2
    <2> QED
        BY <1>1, <1>2, <2>1, <2>3, <2>4 DEF SinkPendingInFlush
<1>16. ASSUME NEW r \in Replicas, Mark(r)
       PROVE  Goal
    <2>1. /\ current[r] # <<>> /\ current' = [current EXCEPT ![r] = <<>>]
          /\ UNCHANGED <<unoffered, squeue, sbatch, spending, spc, sthen, stopping, claimed,
                         topic, unlogged>>
        BY <1>16 DEF Mark, NoMark, writerVars
    <2>2. PICK e \in Events, how \in Kinds : current[r] = <<e, how>>
        BY <1>1, <2>1
    <2>3. \/ row' = row
          \/ row' = [row EXCEPT ![e] = IF how = "published" THEN "published"
                                       ELSE IF row[e] = "published" THEN "published"
                                       ELSE "backoff"]
        <3>1. row' = row \/ row' = [row EXCEPT ![e] = Marked(row[e], how)]
            BY <1>16, <2>2 DEF Mark
        <3>2. Marked(row[e], how) = IF how = "published" THEN "published"
                                         ELSE IF row[e] = "published" THEN "published"
                                         ELSE "backoff"
            BY DEF Marked
        <3> QED
            BY <3>1, <3>2
    <2>4. how = "published" => e \in topic
        BY <1>2, <2>2 DEF Acknowledged
    <2>5. Acknowledged'
        <3> SUFFICES ASSUME NEW q \in Replicas, NEW x \in Events,
                            current'[q] = <<x, "published">>
                     PROVE  x \in topic'
            BY DEF Acknowledged
        <3>1. q # r
            BY <1>1, <2>1
        <3> QED
            BY <1>1, <1>2, <2>1, <3>1 DEF Acknowledged
    <2>6. current' \in [Replicas -> {<<>>} \cup (Events \X Kinds)]
        BY <1>1, <2>1
    <2> QED
        BY <1>1, <1>2, <2>1, <2>3, <2>4, <2>5, <2>6 DEF SinkPendingInFlush
<1>17. ASSUME NEW r \in Replicas, Restart(r)
       PROVE  Goal
    <2>1. /\ claimed' = [claimed EXCEPT ![r] = {}] /\ current' = [current EXCEPT ![r] = <<>>]
          /\ UNCHANGED <<unoffered, squeue, sbatch, spending, spc, sthen, stopping, row,
                         topic, unlogged>>
        BY <1>17 DEF Restart, NoMark, writerVars
    <2>2. Acknowledged'
        <3> SUFFICES ASSUME NEW q \in Replicas, NEW x \in Events,
                            current'[q] = <<x, "published">>
                     PROVE  x \in topic'
            BY DEF Acknowledged
        <3>1. q # r
            BY <1>1, <2>1
        <3> QED
            BY <1>1, <1>2, <2>1, <3>1 DEF Acknowledged
    <2> QED
        BY <1>1, <1>2, <2>1, <2>2 DEF SinkPendingInFlush
<1>18. ASSUME NEW e \in Events, LockExpires(e) \/ BackoffEnds(e)
       PROVE  Goal
    <2>1. /\ row' = [row EXCEPT ![e] = "ready"]
          /\ UNCHANGED <<unoffered, squeue, sbatch, spending, spc, sthen, stopping, claimed,
                         current, topic, unlogged>>
        BY <1>18 DEF LockExpires, BackoffEnds, writerVars
    <2> QED
        BY <1>1, <1>2, <2>1 DEF SinkPendingInFlush, Acknowledged
<1>19. CASE EventCancel
    <2>1. /\ stopping' \in BOOLEAN
          /\ UNCHANGED <<unoffered, squeue, sbatch, spending, spc, sthen, row, claimed,
                         current, topic, unlogged>>
        BY <1>19 DEF EventCancel, writerVars, outboxVars
    <2> QED
        BY <1>1, <1>2, <2>1 DEF SinkPendingInFlush, Acknowledged
<1>20. CASE UNCHANGED sinkVars
    BY <1>1, <1>2, <1>20 DEF sinkVars, writerVars, outboxVars,
                             SinkPendingInFlush, Acknowledged
<1> HIDE DEF Goal
<1>21. CASE WriteWorker
    BY <1>7, <1>9, <1>10, <1>11, <1>12, <1>13, <1>21 DEF WriteWorker
<1>22. ASSUME NEW r \in Replicas, Outbox(r)
       PROVE  Goal
    BY <1>14, <1>15, <1>16, <1>17, <1>22 DEF Outbox, ClaimAny, SendAny
<1>23. Goal
    BY <1>5, <1>6, <1>18, <1>19, <1>20, <1>21, <1>22
    DEF SinkNext, OfferAny, Offer, Delivering
<1> QED
    BY <1>23

\* SinkInv holds throughout.
LEMMA SinkInvariance == SinkSpec => []SinkInv
BY SinkInvInit, SinkStep, PTL DEF SinkSpec

\* PublishTrace, writeWorker and the outbox workers of all replicas: an event that
\* was offered is in memory, in the topic, in the outbox or its failed insert was
\* logged, and a row is closed only by a write that Kafka acknowledged, for every
\* number of events and replicas and any sizes of queue, batch and claim.
THEOREM SinkLosesNothing == SinkSpec => []NothingLost
<1>1. SinkInv => NothingLost
    BY DEF SinkInv, SinkSafe, NothingLost, WriterLeavesNothing, SinkOrder, SinkPendingInFlush,
           InSink
<1> QED
    BY <1>1, SinkInvariance, PTL

-----------------------------------------------------------------------------
(* The two together. *)

\* The sink was offered what the trace workers have published, and is told to
\* stop only when they are done.
Handover == handed = Events \ unoffered /\ (stopping => main = "stopped")

PipelineInv == IInv /\ SinkInv /\ Handover

\* What the sink relies on: a worker that publishes has an event that the sink has
\* not seen, and main is still waiting for it.
LEMMA SinkStaysOpen == PipelineInv => SinkIsOpen
<1> SUFFICES ASSUME PipelineInv, NEW w \in Workers, NEW e \in pending[w], pc[w] = "publish"
             PROVE  e \in unoffered /\ ~stopping
    BY DEF SinkIsOpen
<1>1. e \in Events /\ e \notin handed
    BY DEF PipelineInv, IInv, TypeOK, OneHolder, Holds
<1>2. main # "stopped"
    BY DEF PipelineInv, IInv, ShutdownOrder
<1> QED
    BY <1>1, <1>2 DEF PipelineInv, Handover

\* A step of the pipeline is a step of the trace writer, or leaves it alone.
LEMMA WriterSide == [PipelineNext]_pipelineVars => [Next]_vars
<1> SUFFICES ASSUME [PipelineNext]_pipelineVars PROVE [Next]_vars
    OBVIOUS
<1>1. CASE PipelineNext
    BY <1>1 DEF PipelineNext, PublishTrace, Next, Worker
<1>2. CASE UNCHANGED pipelineVars
    BY <1>2 DEF pipelineVars
<1> QED
    BY <1>1, <1>2

\* And a step of the sink: what a worker offers, it offers before eventCancel.
LEMMA SinkSide ==
    PipelineInv /\ [PipelineNext]_pipelineVars => [SinkNext]_sinkVars
<1> SUFFICES ASSUME PipelineInv, [PipelineNext]_pipelineVars PROVE [SinkNext]_sinkVars
    OBVIOUS
<1>1. ASSUME NEW w \in Workers, NEW e \in Events, PublishTrace(w, e) PROVE SinkNext
    <2>1. e \in pending[w] /\ pc[w] = "publish" /\ Offer(e)
        BY <1>1 DEF PublishTrace, Publish
    <2>2. ~stopping
        BY <2>1, SinkStaysOpen DEF SinkIsOpen
    <2> QED
        BY <2>1, <2>2 DEF SinkNext, OfferAny
<1>2. CASE (Delivering \/ StopSink) /\ UNCHANGED vars
    BY <1>2 DEF StopSink, SinkNext
<1>3. CASE UNCHANGED pipelineVars
    BY <1>3 DEF pipelineVars
<1> QED
    BY <1>1, <1>2, <1>3 DEF PipelineNext

\* The call of PublishTrace passes an event from one set to the other.
LEMMA HandoverStep ==
    PipelineInv /\ [PipelineNext]_pipelineVars => Handover'
<1> SUFFICES ASSUME PipelineInv, [PipelineNext]_pipelineVars PROVE Handover'
    OBVIOUS
<1> USE DEF workerVars, storeVars, serverVars, writerVars, outboxVars
<1>0. Handover /\ unoffered \in SUBSET Events
    BY DEF PipelineInv, SinkInv, SinkSafe, SinkTypeOK
<1>1. CASE (Submit \/ (\E w \in Workers : Storing(w)) \/ Main) /\ UNCHANGED sinkVars
    <2>1. UNCHANGED handed
        BY <1>1 DEF Submit, SubmitQueued, SubmitOverflow, Storing, Take, DeadLetter, Tick,
                    BeginDrain, EndDrain, InsertOK, InsertFails, Main, StopServer,
                    TraceCancel, TraceWait
    <2>2. main = "stopped" => main' = "stopped"
        BY <1>1 DEF Submit, SubmitQueued, SubmitOverflow, Storing, Take, DeadLetter, Tick,
                    BeginDrain, EndDrain, InsertOK, InsertFails, Main, StopServer,
                    TraceCancel, TraceWait
    <2> QED
        BY <1>0, <1>1, <2>1, <2>2 DEF Handover, sinkVars
<1>2. ASSUME NEW w \in Workers, NEW e \in Events, PublishTrace(w, e) PROVE Handover'
    <2>1. handed' = handed \cup {e} /\ UNCHANGED main
        BY <1>2 DEF PublishTrace, Publish
    <2>2. unoffered' = unoffered \ {e} /\ UNCHANGED stopping
        BY <1>2 DEF PublishTrace, Offer, PublishQueued, PublishOverflow, PublishUnencoded
    <2> QED
        BY <1>0, <2>1, <2>2 DEF Handover
<1>3. CASE Delivering /\ UNCHANGED vars
    <2>1. UNCHANGED <<unoffered, stopping>>
        BY <1>3 DEF Delivering, WriteWorker, WriterTake, WriterSpill, WriterTick,
                    WriterBeginDrain, WriterEndDrain, WriteOK, WriteFails, Outbox, ClaimAny,
                    SendAny, Claim, Send, Mark, Restart, LockExpires, BackoffEnds
    <2> QED
        BY <1>0, <1>3, <2>1 DEF Handover, vars
<1>4. CASE StopSink /\ UNCHANGED vars
    BY <1>0, <1>4 DEF StopSink, EventCancel, Handover, vars
<1>5. CASE UNCHANGED pipelineVars
    BY <1>0, <1>5 DEF pipelineVars, vars, sinkVars, Handover
<1> QED
    BY <1>1, <1>2, <1>3, <1>4, <1>5 DEF PipelineNext

\* The invariants of both components, and how they hand over, hold throughout.
LEMMA PipelineInvariance == PipelineSpec => []PipelineInv
<1>1. PipelineInit => PipelineInv
    <2>1. PipelineInit => Handover
        BY DEF PipelineInit, Init, SinkInit, Handover
    <2> QED
        BY <2>1, InvInit, SinkInvInit DEF PipelineInit, PipelineInv
<1>2. PipelineInv /\ [PipelineNext]_pipelineVars => PipelineInv'
    BY WriterSide, SinkSide, InvStep, SinkStep, HandoverStep DEF PipelineInv
<1> QED
    BY <1>1, <1>2, PTL DEF PipelineSpec

\* TracePipeline restricts neither component: with the sink behind it the trace
\* writer is still TraceWriter, ...
THEOREM PipelineIsATraceWriter == PipelineSpec => Spec
<1>1. PipelineInit => Init
    BY DEF PipelineInit
<1> QED
    BY <1>1, WriterSide, PTL DEF PipelineSpec, Spec

\* ... and the sink is EventSink, whose caller has stopped before eventCancel: that
\* is the order of main's shutdown, of which EventSink assumes only the result.
THEOREM PipelineIsAnEventSink == PipelineSpec => SinkSpec
<1>1. PipelineInit => SinkInit
    BY DEF PipelineInit
<1> QED
    BY <1>1, SinkSide, PipelineInvariance, PTL DEF PipelineSpec, SinkSpec

\* From Submit to Kafka: a submitted trace is in the memory of one of the two, in a
\* dead letter stream, gone and counted, or in PostgreSQL and then in the topic, in
\* the outbox or in the log, or a forced stop has stranded it; Kafka and the outbox
\* never know one that PostgreSQL has not, the sink takes all it is given, and the
\* shutdown empties both of all but what was stranded.
THEOREM TracesAreAccountedFor == PipelineSpec => []EveryTraceIsAccountedFor
<1>1. PipelineInv => EveryTraceIsAccountedFor
    <2> SUFFICES ASSUME PipelineInv PROVE EveryTraceIsAccountedFor
        OBVIOUS
    <2>1. IInv /\ SinkInv /\ Handover
        BY DEF PipelineInv
    <2>2. ASSUME NEW e \in Events
          PROVE  /\ e \in handed => Stored(e) /\ (InSink(e) \/ Delivered(e))
                 /\ InSink(e) \/ Delivered(e) => Stored(e)
        <3>1. e \in handed <=> e \notin unoffered
            BY <2>1 DEF Handover
        <3>2. e \in handed => Stored(e)
            BY <2>1 DEF IInv, Kept
        <3>3. e \notin unoffered => InSink(e) \/ Delivered(e)
            BY <2>1 DEF SinkInv, SinkSafe
        <3>4. InSink(e) \/ Delivered(e) => e \notin unoffered
            BY <2>1 DEF SinkInv, OnlyOffered
        <3> QED
            BY <3>1, <3>2, <3>3, <3>4
    <2>3. ASSUME NEW e \in Events
          PROVE  /\ \/ e \in fresh \/ InMemory(e) \/ e \in handed
                    \/ e \in dlq \/ e \in gone \/ Stranded(e)
                 /\ Stranded(e) => server = "forced"
        BY <2>1, QueuedMeansTaken DEF IInv, Kept
    <2>4. ASSUME spc = "exited"
          PROVE  \A e \in Events : ~InMemory(e) /\ ~InSink(e)
        <3>1. stopping /\ squeue \cup sbatch \cup spending = {}
            BY <2>1, <2>4 DEF SinkInv, SinkOrder, SinkPendingInFlush
        <3>2. main = "stopped"
            BY <2>1, <3>1 DEF Handover
        <3>3. \A e \in Events : ~InMemory(e)
            BY <2>1, <3>2, StoppedMeansEmpty DEF IInv
        <3> QED
            BY <3>1, <3>3 DEF InSink
    <2>5. Cardinality(gone) <= dropped
        BY <2>1 DEF IInv, Counted
    <2>6. ASSUME NEW e \in Events
          PROVE  \/ e \in fresh \/ InMemory(e) \/ e \in dlq \/ e \in gone
                 \/ Stored(e) /\ (InSink(e) \/ Delivered(e))
                 \/ Stranded(e) /\ server = "forced"
        <3>1. e \in handed => Stored(e) /\ (InSink(e) \/ Delivered(e))
            BY <2>2
        <3>2. /\ \/ e \in fresh \/ InMemory(e) \/ e \in handed
                 \/ e \in dlq \/ e \in gone \/ Stranded(e)
              /\ Stranded(e) => server = "forced"
            BY <2>3
        <3> QED
            BY Zenon, <3>1, <3>2
    <2> QED
        BY Zenon, <2>2, <2>4, <2>5, <2>6, SinkStaysOpen DEF EveryTraceIsAccountedFor
<1> QED
    BY <1>1, PipelineInvariance, PTL
=============================================================================
