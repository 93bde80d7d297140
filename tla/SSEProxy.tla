------------------------------ MODULE SSEProxy ------------------------------
(***************************************************************************)
(* Gateway.proxySSE (internal/platform/gateway.go): one upstream event     *)
(* stream relayed to one client.  A reader goroutine parses the response   *)
(* body and hands each parse to the handler over a channel of capacity 1;  *)
(* the handler holds the events back until the first meaningful one (so    *)
(* that an early failure can still become an HTTP 555), then relays them.  *)
(* The context of the upstream request is cancelled by the idle timer, by  *)
(* the client going away, or by the handler's own deferred cancel.         *)
(*                                                                         *)
(* An event is its kind.  Heartbeats are SSE comments with no content:     *)
(* only their effect on the commit and their write failure are modelled.   *)
(***************************************************************************)
EXTENDS Naturals, Sequences

CONSTANTS
    MaxEvents,    \* bound on the events one upstream sends
    PendingMax,   \* len(pending) that forces the commit (16 in the code)
    HeartbeatOn   \* cfg.SSEHeartbeatInterval > 0

ASSUME SSEAssumption ==
    /\ MaxEvents \in Nat
    /\ PendingMax \in Nat \ {0}
    /\ HeartbeatOn \in BOOLEAN

(***************************************************************************)
(* "comment" has no data: or event: line; "bulk" is a comment of 64 KiB or *)
(* more; "done" is a terminal event; "error" is what isSSEErrorEvent finds.*)
(***************************************************************************)
EventKinds == {"comment", "bulk", "data", "done", "error"}

\* The other results of nextSSEEvent: ok = false, and err != nil.
EndKinds == {"eof", "err"}

\* The empty risk code: success, and nothing returned yet.
NoRisk == ""

RiskCodes == {NoRisk, "UPSTREAM_STREAM_ERROR", "UPSTREAM_STREAM_TIMEOUT",
              "UPSTREAM_STREAM_INTERRUPTED", "CLIENT_DISCONNECT"}

VARIABLES
    sent,       \* every event the upstream wrote, in order
    body,       \* the part of it the reader has not parsed yet
    wire,       \* the upstream connection: "open", "eof" or "reset"
    client,     \* "up" or "gone"
    ctx,        \* streamContext: "live", or its cause once cancelled
    reader,     \* the goroutine: "reading", "sending" or "exited"
    held,       \* the result it is trying to send
    results,    \* the buffered channel; closed once the reader has exited
    phase,      \* proxySSE: "initial", "stream", "returned", "unwound"
    pending,    \* events held back before the commit
    http,       \* status line written to the client, 0 when none
    out,        \* events (and the logical error) written to the client
    completed,  \* observation.CompletionObserved
    risk        \* risk code returned, NoRisk for success

upstreamVars == <<sent, body, wire>>
readerVars == <<reader, held, results>>
handlerVars == <<phase, pending, http, out, completed, risk>>
vars == <<upstreamVars, client, ctx, readerVars, handlerVars>>

Init ==
    /\ sent = <<>> /\ body = <<>> /\ wire = "open"
    /\ client = "up"
    \* requestTimer.Stop() may come after that timer has already fired.
    /\ ctx \in {"live", "timeout"}
    /\ reader = "reading" /\ held = "eof" /\ results = <<>>
    /\ phase = "initial" /\ pending = <<>> /\ http = 0 /\ out = <<>>
    /\ completed = FALSE /\ risk = NoRisk

-----------------------------------------------------------------------------
(* The environment: the upstream, the idle timer and the client. *)

UpstreamSend(kind) ==
    /\ wire = "open"
    /\ Len(sent) < MaxEvents
    /\ sent' = Append(sent, kind)
    /\ body' = Append(body, kind)
    /\ UNCHANGED <<wire, client, ctx, readerVars, handlerVars>>

UpstreamClose(how) ==
    /\ wire = "open"
    /\ wire' = how
    /\ UNCHANGED <<sent, body, client, ctx, readerVars, handlerVars>>

(***************************************************************************)
(* streamIdleTimer is reset only when the handler observes an event, and a *)
(* write to a slow client may block the handler for longer than the        *)
(* timeout: it can fire whatever the upstream has sent.                    *)
(***************************************************************************)
IdleTimeout ==
    /\ ctx = "live"
    /\ phase \in {"initial", "stream"}
    /\ ctx' = "timeout"
    /\ UNCHANGED <<upstreamVars, client, readerVars, handlerVars>>

ClientLeaves ==
    /\ client = "up"
    /\ client' = "gone"
    /\ UNCHANGED <<upstreamVars, ctx, readerVars, handlerVars>>

\* net/http cancels r.Context() once it sees the connection closed.
ClientCancel ==
    /\ client = "gone"
    /\ ctx = "live"
    /\ ctx' = "canceled"
    /\ UNCHANGED <<upstreamVars, client, readerVars, handlerVars>>

-----------------------------------------------------------------------------
(* The reader goroutine. *)

\* nextSSEEvent: an event, a clean end, or a read error.  A cancelled context
\* or a reset fails the read whatever was left in the body.
ReaderRead ==
    /\ reader = "reading"
    /\ reader' = "sending"
    /\ \/ /\ body # <<>>
          /\ held' = Head(body)
          /\ body' = Tail(body)
       \/ /\ body = <<>> /\ wire = "eof"
          /\ held' = "eof"
          /\ UNCHANGED body
       \/ /\ wire = "reset" \/ ctx # "live"
          /\ held' = "err"
          /\ UNCHANGED body
    /\ UNCHANGED <<sent, wire, client, ctx, results, handlerVars>>

\* case results <- result; the goroutine goes on after an event only.
ReaderSend ==
    /\ reader = "sending"
    /\ results = <<>>
    /\ results' = <<held>>
    /\ reader' = IF held \in EventKinds THEN "reading" ELSE "exited"
    /\ UNCHANGED <<upstreamVars, client, ctx, held, handlerVars>>

\* case <-streamContext.Done(): return, which drops the result it holds.
ReaderQuit ==
    /\ reader = "sending"
    /\ ctx # "live"
    /\ reader' = "exited"
    /\ UNCHANGED <<upstreamVars, client, ctx, held, results, handlerVars>>

-----------------------------------------------------------------------------
(* The handler: what its select statements do with each ready case. *)

\* classifyUpstreamStreamReadError: the cause of the context decides first.
Classify ==
    CASE ctx = "timeout"  -> "UPSTREAM_STREAM_TIMEOUT"
      [] ctx = "canceled" -> "CLIENT_DISCONNECT"
      [] OTHER            -> "UPSTREAM_STREAM_INTERRUPTED"

Return(code) ==
    /\ phase' = "returned"
    /\ risk' = code

\* writeLines over events, after commit().  A write to a client that has gone
\* may fail at any of them.
WriteThen(events, next) ==
    /\ http' = 200
    /\ \/ /\ out' = out \o events
          /\ phase' = next
          /\ UNCHANGED risk
       \/ /\ client = "gone"
          /\ \E n \in 0 .. Len(events) :
                out' = out \o SubSeq(events, 1, n)
          /\ Return("CLIENT_DISCONNECT")

\* A failure before the commit: HTTP 555, unless nobody is there to read it.
FailBeforeCommit(code) ==
    /\ http' = IF code = "CLIENT_DISCONNECT" THEN http ELSE 555
    /\ Return(code)
    /\ UNCHANGED out

\* Mutant of FailAfterCommit: an error event for a client that has left too.
FailAfterCommitAlways(code) ==
    /\ out' = Append(out, "logical555")
    /\ Return(code)
    /\ UNCHANGED http

\* A failure after the commit: a logical 555 event closes the stream.
FailAfterCommit(code) ==
    /\ out' = IF code = "CLIENT_DISCONNECT" THEN out
                                            ELSE Append(out, "logical555")
    /\ Return(code)
    /\ UNCHANGED http

\* Mutant of FirstHeartbeat: commits without flushing what is pending.
FirstHeartbeatKeepsPending ==
    /\ HeartbeatOn
    /\ phase = "initial"
    /\ WriteThen(<<>>, "stream")
    /\ UNCHANGED <<upstreamVars, client, ctx, readerVars, pending, completed>>

\* case <-firstHeartbeat: commits and flushes what is pending.
FirstHeartbeat ==
    /\ HeartbeatOn
    /\ phase = "initial"
    /\ WriteThen(pending, "stream")
    /\ UNCHANGED <<upstreamVars, client, ctx, readerVars, pending, completed>>

\* case <-heartbeat: nothing a client can see, unless the write fails.
HeartbeatFails ==
    /\ HeartbeatOn
    /\ phase = "stream"
    /\ client = "gone"
    /\ Return("CLIENT_DISCONNECT")
    /\ UNCHANGED <<upstreamVars, client, ctx, readerVars, pending, http, out,
                   completed>>

\* case <-streamContext.Done().
ContextDone ==
    /\ ctx # "live"
    /\ \/ phase = "initial" /\ FailBeforeCommit(Classify)
       \/ phase = "stream" /\ FailAfterCommit(Classify)
    /\ UNCHANGED <<upstreamVars, client, ctx, readerVars, pending, completed>>

\* case result, open := <-results with open = false.
ResultsClosed ==
    /\ reader = "exited" /\ results = <<>>
    /\ \/ phase = "initial" /\ WriteThen(pending, "returned")
       \/ phase = "stream" /\ Return(NoRisk) /\ UNCHANGED <<http, out>>
    /\ UNCHANGED <<upstreamVars, client, ctx, readerVars, pending, completed>>

\* Mutant of ErrAfterCommit: a read error passes for the end.
ErrIsEnd == Return(NoRisk) /\ UNCHANGED <<http, out>>

\* A read error after the commit is no failure once a terminal event was seen.
ErrAfterCommit ==
    IF completed THEN Return(NoRisk) /\ UNCHANGED <<http, out>>
                 ELSE FailAfterCommit(Classify)

\* case result with err != nil.
ResultErr ==
    /\ results = <<"err">>
    /\ results' = <<>>
    /\ \/ phase = "initial" /\ FailBeforeCommit(Classify)
       \/ phase = "stream" /\ ErrAfterCommit
    /\ UNCHANGED <<upstreamVars, client, ctx, reader, held, pending, completed>>

\* case result with ok = false; before the commit the pending comments are
\* not written.
ResultEnd ==
    /\ results = <<"eof">>
    /\ results' = <<>>
    /\ phase \in {"initial", "stream"}
    /\ http' = 200
    /\ Return(NoRisk)
    /\ UNCHANGED <<upstreamVars, client, ctx, reader, held, pending, out,
                   completed>>

\* ObserveSSEEvent
Observe(event) ==
    completed' = (completed \/ event = "done")

Meaningful(event) == event \in {"data", "done", "error"}

MustCommit(events) ==
    \/ Len(events) >= PendingMax
    \/ \E i \in DOMAIN events : Meaningful(events[i]) \/ events[i] = "bulk"

\* case result with an event.
ResultEvent ==
    /\ results # <<>> /\ results[1] \in EventKinds
    /\ results' = <<>>
    /\ LET event == results[1]
           held1 == Append(pending, event)
       IN  /\ Observe(event)
           /\ \/ /\ phase = "initial" /\ event = "error"
                 /\ FailBeforeCommit("UPSTREAM_STREAM_ERROR")
                 /\ UNCHANGED pending
              \/ /\ phase = "initial" /\ event # "error"
                 /\ pending' = held1
                 /\ IF MustCommit(held1)
                       THEN WriteThen(held1, "stream")
                       ELSE UNCHANGED <<phase, risk, http, out>>
              \/ /\ phase = "stream" /\ event = "error"
                 /\ FailAfterCommit("UPSTREAM_STREAM_ERROR")
                 /\ UNCHANGED pending
              \/ /\ phase = "stream" /\ event # "error"
                 /\ WriteThen(<<event>>, "stream")
                 /\ UNCHANGED pending
    /\ UNCHANGED <<upstreamVars, client, ctx, reader, held>>

\* Mutant of Unwind: no deferred cancel.
UnwindWithoutCancel ==
    /\ phase = "returned"
    /\ phase' = "unwound"
    /\ UNCHANGED <<upstreamVars, client, ctx, readerVars, pending, http, out,
                   completed, risk>>

\* ServeHTTP after proxySSE: the idle timer is stopped, the trace finished,
\* and the deferred cancelRequest(context.Canceled) runs.
Unwind ==
    /\ phase = "returned"
    /\ phase' = "unwound"
    /\ ctx' = IF ctx = "live" THEN "canceled" ELSE ctx
    /\ UNCHANGED <<upstreamVars, client, readerVars, pending, http, out,
                   completed, risk>>

-----------------------------------------------------------------------------

Reader == ReaderRead \/ ReaderSend \/ ReaderQuit

Handler ==
    \/ FirstHeartbeat \/ HeartbeatFails \/ ContextDone \/ ResultsClosed
    \/ ResultErr \/ ResultEnd \/ ResultEvent \/ Unwind

Next ==
    \/ \E kind \in EventKinds : UpstreamSend(kind)
    \/ \E how \in {"eof", "reset"} : UpstreamClose(how)
    \/ IdleTimeout
    \/ ClientLeaves
    \/ ClientCancel
    \/ Reader
    \/ Handler

Spec == Init /\ [][Next]_vars

(***************************************************************************)
(* The goroutines run, and the idle timer, armed by the runtime, fires if  *)
(* it is never reset.  The server has no write timeout and writeLines sets *)
(* no deadline: while the caller stays, any step of the handler, heartbeat *)
(* or event, may be one that waits for it to read, and only its departure  *)
(* is sure to fail the write.                                              *)
(***************************************************************************)
FairSpec ==
    /\ Spec
    /\ WF_vars(Reader)
    /\ WF_vars(IdleTimeout)
    /\ WF_vars(Unwind)
    /\ WF_vars(client = "gone" /\ Handler)

-----------------------------------------------------------------------------
(* Properties. *)

TypeOK ==
    /\ sent \in Seq(EventKinds) /\ Len(sent) <= MaxEvents
    /\ body \in Seq(EventKinds)
    /\ wire \in {"open", "eof", "reset"}
    /\ client \in {"up", "gone"}
    /\ ctx \in {"live", "timeout", "canceled"}
    /\ reader \in {"reading", "sending", "exited"}
    /\ held \in EventKinds \cup EndKinds
    /\ results \in Seq(EventKinds \cup EndKinds) /\ Len(results) <= 1
    /\ phase \in {"initial", "stream", "returned", "unwound"}
    /\ pending \in Seq(EventKinds)
    /\ http \in {0, 200, 555}
    /\ out \in Seq(EventKinds \cup {"logical555"})
    /\ completed \in BOOLEAN
    /\ risk \in RiskCodes

Returned == phase \in {"returned", "unwound"}

LogicalErrors == {i \in DOMAIN out : out[i] = "logical555"}

(***************************************************************************)
(* What the client reads is what the upstream wrote, in order and without  *)
(* a gap, whatever mixture of pending flush, heartbeat commit and direct   *)
(* relay produced it, and an upstream error event is never passed through. *)
(***************************************************************************)
RelaysAPrefix ==
    /\ TypeOK
    /\ \A i \in DOMAIN out \ LogicalErrors :
           /\ i \in DOMAIN sent
           /\ out[i] = sent[i]
           /\ out[i] # "error"

(***************************************************************************)
(* The caller is blamed only when it left: CLIENT_DISCONNECT, which hides  *)
(* the request from the upstream error statistics, is never recorded for a *)
(* client that stayed.                                                     *)
(***************************************************************************)
DisconnectBlamesTheClient ==
    Returned /\ risk = "CLIENT_DISCONNECT" => client = "gone"

(***************************************************************************)
(* A failure of the upstream reaches the client in exactly one form: the   *)
(* status 555 with nothing else, or the status 200 with one logical 555 as *)
(* the last event (the "SSE" section of README.md); and a failure is       *)
(* blamed on the client only if the client left.                           *)
(***************************************************************************)
FailureSurfacesOnce ==
    /\ DisconnectBlamesTheClient
    /\ \A i \in LogicalErrors : i = Len(out) /\ http = 200
    /\ http = 555 => out = <<>>
    /\ Returned /\ risk \notin {NoRisk, "CLIENT_DISCONNECT"} =>
          (http = 555) # (LogicalErrors # {})
    /\ Returned /\ risk \in {NoRisk, "CLIENT_DISCONNECT"} =>
          http # 555 /\ LogicalErrors = {}

\* The body ended cleanly and every meaningful event of it was relayed.
CleanEnd ==
    /\ wire = "eof" /\ body = <<>>
    /\ \/ out = sent
       \/ out = <<>> /\ \A i \in DOMAIN sent : ~Meaningful(sent[i])

(***************************************************************************)
(* The outcome follows the stream.  A success is a stream that was seen to *)
(* its terminal event or its clean end, with one exception: under a        *)
(* cancelled context the reader may give up, and the channel it closes may *)
(* win the handler's select.  A timeout was one of the context, an error   *)
(* one the upstream sent, and an interruption a broken connection, never   *)
(* one after a terminal event: "即使服务端随后用 TCP reset 关闭连接，也按  *)
(* 已完成处理" (docs/upstream-stream-and-token-usage.md).  (CLIENT_        *)
(* DISCONNECT is DisconnectBlamesTheClient; an idle timeout may still come *)
(* after the terminal event.)                                              *)
(***************************************************************************)
OutcomeFollowsTheStream ==
    Returned =>
        /\ risk = NoRisk => completed \/ CleanEnd \/ (ctx # "live" /\ reader = "exited")
        /\ risk = "UPSTREAM_STREAM_TIMEOUT" => ctx = "timeout"
        /\ risk = "UPSTREAM_STREAM_ERROR" => \E i \in DOMAIN sent : sent[i] = "error"
        /\ risk = "UPSTREAM_STREAM_INTERRUPTED" => wire = "reset" /\ ~completed

\* The caller goes on reading: no write to it blocks the handler for ever.
CallerReads == WF_vars(Handler)

(***************************************************************************)
(* A caller that leaves ends its request, whatever the upstream does; for  *)
(* one that goes on reading, anything that ends the stream does; and the   *)
(* goroutine that proxySSE started never outlives the request for ever,    *)
(* blocked on its channel.                                                 *)
(***************************************************************************)
StreamEnds ==
    /\ client = "gone" ~> phase = "unwound"
    /\ CallerReads => ((ctx # "live" \/ wire # "open") ~> phase = "unwound")
    /\ phase = "unwound" ~> reader = "exited"
=============================================================================
