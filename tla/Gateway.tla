------------------------------ MODULE Gateway -------------------------------
(***************************************************************************)
(* Gateway.ServeHTTP (internal/platform/gateway.go): the life of a request *)
(* from admission to the last deferred call, for several requests that     *)
(* compete for the slots of one replica.  A request passes route, key,     *)
(* rate, global slot, body, audit, route slot and upstream; every stage    *)
(* may end it, and then the deferred calls run in reverse order.           *)
(*                                                                         *)
(* The audit (AuditRequest) and the relay of an event stream (SSEProxy)    *)
(* are single steps with the results that their own modules allow.  The    *)
(* route slot is the process-local semaphore of RedisGuard.Acquire; the    *)
(* one in Redis is the subject of RouteSlots.                              *)
(***************************************************************************)
EXTENDS Naturals, Sequences, FiniteSets

CONSTANTS
    Requests,
    Sizes,       \* request -> the Content-Lengths it may come with
    GlobalMax,   \* cfg.GlobalMaxConcurrency
    LargeMax,    \* cfg.LargeRequestMaxConcurrency
    RouteMax     \* route.MaxConcurrency

\* What Content-Length says, with the policy of resolveRequestBodyLimit applied.
Lengths == {"small", "large", "over", "unknown"}

ASSUME GatewayAssumption ==
    /\ IsFiniteSet(Requests)
    /\ Sizes \in [Requests -> SUBSET Lengths]
    /\ GlobalMax \in Nat \ {0}
    /\ LargeMax \in Nat \ {0}
    /\ RouteMax \in Nat \ {0}

Slots == {"global", "large", "route"}
Max == [global |-> GlobalMax, large |-> LargeMax, route |-> RouteMax]

VARIABLES
    pc,        \* request -> the stage it is at
    length,    \* request -> its Content-Length
    client,    \* request -> "up" or "gone" (r.Context() has ended)
    cause,     \* request -> "none", "live", or the cause that ended requestContext
    verdict,   \* request -> decision of the audit, and the client at that moment
    upstream,  \* request -> "none", "open" or "closed"
    defers,    \* request -> its deferred calls, the last one runs first
    used,      \* slots taken: the lengths of g.global and g.largeBodies, and
               \* g.semaphores["route:" + slug]
    traces,    \* request -> what it handed to g.traces.Submit
    reply      \* request -> status lines written to the client

reqVars == <<length, verdict>>
vars == <<pc, length, client, cause, verdict, upstream, defers, used, traces, reply>>

\* event.ErrorCode of an answer that was delivered.
NoCode == ""

NoVerdict == [decision |-> "none", client |-> "up"]

Init ==
    /\ pc = [r \in Requests |-> "idle"]
    /\ length = [r \in Requests |-> "small"]
    /\ client = [r \in Requests |-> "up"]
    /\ cause = [r \in Requests |-> "none"]
    /\ verdict = [r \in Requests |-> NoVerdict]
    /\ upstream = [r \in Requests |-> "none"]
    /\ defers = [r \in Requests |-> <<>>]
    /\ used = [s \in Slots |-> 0]
    /\ traces = [r \in Requests |-> <<>>]
    /\ reply = [r \in Requests |-> <<>>]

-----------------------------------------------------------------------------
(* How a stage ends. *)

Goto(r, stage) ==
    /\ pc' = [pc EXCEPT ![r] = stage]
    /\ UNCHANGED <<traces, reply>>

\* The closure finish: its flag lets one call through.
Finish(r, decision, code, status) ==
    traces' = [traces EXCEPT ![r] =
        IF @ = <<>> THEN <<[decision |-> decision, code |-> code, status |-> status]>>
        ELSE @]

Write(r, status) == reply' = [reply EXCEPT ![r] = Append(@, status)]

Return(r) == pc' = [pc EXCEPT ![r] = "unwind"]

\* finish, then writeGatewayError or writeRiskError, then return.
Reject(r, decision, code, status) ==
    /\ Finish(r, decision, code, status)
    /\ Write(r, status)
    /\ Return(r)

\* finish without an answer: the socket is gone.
Leave(r) ==
    /\ Finish(r, "error", "CLIENT_DISCONNECT", 499)
    /\ Return(r)
    /\ UNCHANGED reply

-----------------------------------------------------------------------------
(* Admission. *)

\* A method or path that is refused before the trace exists.
Refuse(r) ==
    /\ pc[r] = "idle"
    /\ Write(r, 405)
    /\ Return(r)
    /\ UNCHANGED <<reqVars, client, cause, upstream, defers, used, traces>>

Arrive(r) ==
    /\ pc[r] = "idle"
    /\ length' \in {[length EXCEPT ![r] = l] : l \in Sizes[r]}
    /\ Goto(r, "check")
    /\ UNCHANGED <<client, cause, verdict, upstream, defers, used>>

\* getRoute, VerifyDigest and redis.Allow, none of which the requests share.
Check(r) ==
    /\ pc[r] = "check"
    /\ \/ Reject(r, "error", "ROUTE_NOT_FOUND", 404)
       \/ Reject(r, "error", "GATEWAY_AUTH_FAILED", 401)
       \/ Reject(r, "error", "RATE_LIMITED", 429)
       \/ Goto(r, "global")
    /\ UNCHANGED <<reqVars, client, cause, upstream, defers, used>>

\* A slot is taken without waiting and its release deferred, or the request ends.
Take(r, slot, next, code) ==
    \/ /\ used[slot] < Max[slot]
       /\ used' = [used EXCEPT ![slot] = @ + 1]
       /\ defers' = [defers EXCEPT ![r] = Append(@, slot)]
       /\ Goto(r, next)
    \/ /\ used[slot] = Max[slot]
       /\ Reject(r, "error", code, 503)
       /\ UNCHANGED <<used, defers>>

TakeGlobal(r) ==
    /\ pc[r] = "global"
    /\ Take(r, "global", "length", "GATEWAY_OVERLOADED")
    /\ UNCHANGED <<reqVars, client, cause, upstream>>

\* ExceedsKnownLength and requestBodyNeedsLargeSlot.
CheckLength(r) ==
    /\ pc[r] = "length"
    /\ \/ /\ length[r] = "over"
          /\ Reject(r, "error", "REQUEST_TOO_LARGE", 555)
          /\ UNCHANGED <<used, defers>>
       \/ /\ length[r] \in {"large", "unknown"}
          /\ Take(r, "large", "read", "LARGE_REQUEST_CONCURRENCY_LIMITED")
       \/ /\ length[r] = "small"
          /\ Goto(r, "read")
          /\ UNCHANGED <<used, defers>>
    /\ UNCHANGED <<reqVars, client, cause, upstream>>

ReadBody(r) ==
    /\ pc[r] = "read"
    /\ \/ Goto(r, "audit")
       \/ Reject(r, "error", "REQUEST_READ_ERROR", 555)
       \/ /\ length[r] = "unknown"
          /\ Reject(r, "error", "REQUEST_TOO_LARGE", 555)
    /\ UNCHANGED <<reqVars, client, cause, upstream, defers, used>>

\* g.audit.Audit: any decision, whatever became of the client meanwhile.
Audit(r) ==
    /\ pc[r] = "audit"
    /\ \E d \in {"allow", "block"} :
          /\ verdict' = [verdict EXCEPT ![r] = [decision |-> d, client |-> client[r]]]
          /\ \/ d = "block" /\ Reject(r, "block", "CYBER_POLICY_BLOCK", 555)
             \/ d = "allow" /\ Goto(r, "present")
    /\ UNCHANGED <<length, client, cause, upstream, defers, used>>

\* Mutant of CheckClient: the audit's allow is enough.
CheckNobody(r) ==
    /\ pc[r] = "present"
    /\ Goto(r, "slot")
    /\ UNCHANGED <<reqVars, client, cause, upstream, defers, used>>

\* r.Context().Err() after the audit.
CheckClient(r) ==
    /\ pc[r] = "present"
    /\ IF client[r] = "gone" THEN Leave(r) ELSE Goto(r, "slot")
    /\ UNCHANGED <<reqVars, client, cause, upstream, defers, used>>

Acquire(r) ==
    /\ pc[r] = "slot"
    /\ Take(r, "route", "build", "ROUTE_CONCURRENCY_LIMITED")
    /\ UNCHANGED <<reqVars, client, cause, upstream>>

-----------------------------------------------------------------------------
(* The upstream call. *)

\* buildUpstreamRequest, the context with its timer, and the call to Do.
Build(r) ==
    /\ pc[r] = "build"
    /\ \/ /\ Reject(r, "error", "GATEWAY_CONFIG_ERROR", 555)
          /\ UNCHANGED <<cause, upstream, defers>>
       \/ /\ cause' = [cause EXCEPT ![r] = IF client[r] = "gone" THEN "canceled" ELSE "live"]
          /\ defers' = [defers EXCEPT ![r] = Append(@, "cancel")]
          /\ upstream' = [upstream EXCEPT ![r] = "open"]
          /\ Goto(r, "do")
    /\ UNCHANGED <<reqVars, client, used>>

\* Mutant of DoCode: every end of the context is taken for the caller's.
DoCodeAnyEnd(r, timedOut) ==
    CASE timedOut -> "UPSTREAM_TIMEOUT"
      [] cause[r] # "live" /\ ~timedOut -> "CLIENT_DISCONNECT"
      [] OTHER -> "UPSTREAM_CONNECTION_ERROR"

\* The code of a failed Do, from the cause at the time it is looked at; timedOut
\* is a timeout of the dialer's own.
DoCode(r, timedOut) ==
    CASE cause[r] = "timeout" \/ timedOut -> "UPSTREAM_TIMEOUT"
      [] cause[r] = "canceled" /\ ~timedOut -> "CLIENT_DISCONNECT"
      [] OTHER -> "UPSTREAM_CONNECTION_ERROR"

DoFails(r) ==
    /\ pc[r] = "do"
    /\ upstream' = [upstream EXCEPT ![r] = "closed"]
    /\ \E timedOut \in BOOLEAN :
          LET code == DoCode(r, timedOut)
          IN  IF code = "CLIENT_DISCONNECT" THEN Leave(r)
              ELSE Reject(r, "error", code, 555)
    /\ UNCHANGED <<reqVars, client, cause, defers, used>>

\* Response headers: an error status ends the request.
DoReturns(r) ==
    /\ pc[r] = "do"
    /\ defers' = [defers EXCEPT ![r] = Append(@, "body")]
    /\ \/ Reject(r, "error", "UPSTREAM_MODEL_ERROR", 555)
       \/ Goto(r, "sse")
       \/ Goto(r, "prefix")
    /\ UNCHANGED <<reqVars, client, cause, upstream, used>>

\* proxySSE and what ServeHTTP records of it: DisconnectBlamesTheClient of
\* SSEProxy says when it returns CLIENT_DISCONNECT, FailureSurfacesOnce what it
\* writes.
Stream(r) ==
    /\ pc[r] = "sse"
    /\ \/ Write(r, 200) /\ Finish(r, "allow", NoCode, 200)
       \/ \E code \in {"UPSTREAM_STREAM_ERROR", "UPSTREAM_STREAM_TIMEOUT",
                       "UPSTREAM_STREAM_INTERRUPTED"}, status \in {200, 555} :
             Write(r, status) /\ Finish(r, "error", code, status)
       \/ /\ client[r] = "gone"
          /\ \/ Write(r, 200) /\ Finish(r, "error", "CLIENT_DISCONNECT", 200)
             \/ UNCHANGED reply /\ Finish(r, "error", "CLIENT_DISCONNECT", 555)
    /\ Return(r)
    /\ UNCHANGED <<reqVars, client, cause, upstream, defers, used>>

\* proxyBuffered up to the status line: the prefix is inspected first.  Any error
\* of the read is the upstream's; what has arrived may be read after a cancel too.
ReadPrefix(r) ==
    /\ pc[r] = "prefix"
    /\ \/ Reject(r, "error", "UPSTREAM_READ_ERROR", 555)
       \/ Reject(r, "error", "UPSTREAM_MODEL_ERROR", 555)
       \/ \E next \in {"whole", "copy"} :
             /\ Write(r, 200)
             /\ pc' = [pc EXCEPT ![r] = next]
             /\ UNCHANGED traces
    /\ UNCHANGED <<reqVars, client, cause, upstream, defers, used>>

\* w.Write(prefix) and, for a body longer than the prefix, io.Copy of the rest: any
\* error of theirs, of the write or of the read, is returned as CLIENT_DISCONNECT.
Send(r) ==
    /\ pc[r] \in {"whole", "copy"}
    /\ \/ Finish(r, "allow", NoCode, 200)
       \/ /\ client[r] = "gone" \/ pc[r] = "copy"
          /\ Finish(r, "error", "CLIENT_DISCONNECT", 200)
    /\ Return(r)
    /\ UNCHANGED <<reqVars, client, cause, upstream, defers, used, reply>>

-----------------------------------------------------------------------------
(* The end of a request. *)

NextDeferred(r) == defers[r][Len(defers[r])]

Deferred(r, call) ==
    /\ used' = IF call \in Slots THEN [used EXCEPT ![call] = @ - 1] ELSE used
    /\ upstream' = IF call \in Slots THEN upstream
                   ELSE [upstream EXCEPT ![r] = "closed"]
    /\ cause' = IF call = "cancel" /\ cause[r] = "live"
                THEN [cause EXCEPT ![r] = "canceled"] ELSE cause

\* Mutant of Unwind: the last deferred call is forgotten.
UnwindLeavesOne(r) ==
    /\ pc[r] = "unwind"
    /\ IF Len(defers[r]) > 1
          THEN /\ Deferred(r, NextDeferred(r))
               /\ defers' = [defers EXCEPT ![r] = SubSeq(@, 1, Len(@) - 1)]
               /\ UNCHANGED pc
          ELSE /\ pc' = [pc EXCEPT ![r] = "done"]
               /\ defers' = [defers EXCEPT ![r] = <<>>]
               /\ UNCHANGED <<used, upstream, cause>>
    /\ UNCHANGED <<reqVars, client, traces, reply>>

\* One deferred call after the other, the last one first.
Unwind(r) ==
    /\ pc[r] = "unwind"
    /\ IF defers[r] # <<>>
          THEN /\ Deferred(r, NextDeferred(r))
               /\ defers' = [defers EXCEPT ![r] = SubSeq(@, 1, Len(@) - 1)]
               /\ UNCHANGED pc
          ELSE /\ pc' = [pc EXCEPT ![r] = "done"]
               /\ UNCHANGED <<used, upstream, cause, defers>>
    /\ UNCHANGED <<reqVars, client, traces, reply>>

-----------------------------------------------------------------------------
(* The environment. *)

\* Mutant of RequestTimeout: a deadline for the headers only.
RequestTimeoutForHeaders(r) ==
    /\ cause[r] = "live" /\ pc[r] = "do"
    /\ cause' = [cause EXCEPT ![r] = "timeout"]
    /\ UNCHANGED <<pc, reqVars, client, upstream, defers, used, traces, reply>>

\* requestTimer; it is stopped when the response turns out to be a stream.
RequestTimeout(r) ==
    /\ cause[r] = "live" /\ pc[r] \in {"do", "prefix", "copy"}
    /\ cause' = [cause EXCEPT ![r] = "timeout"]
    /\ UNCHANGED <<pc, reqVars, client, upstream, defers, used, traces, reply>>

\* The caller leaves; net/http ends r.Context() and with it requestContext.
ClientLeaves(r) ==
    /\ client[r] = "up" /\ pc[r] \notin {"idle", "done"}
    /\ client' = [client EXCEPT ![r] = "gone"]
    /\ cause' = IF cause[r] = "live" THEN [cause EXCEPT ![r] = "canceled"] ELSE cause
    /\ UNCHANGED <<pc, reqVars, upstream, defers, used, traces, reply>>

-----------------------------------------------------------------------------

\* The steps that wait for nobody.
Handle(r) ==
    \/ Check(r) \/ TakeGlobal(r) \/ CheckLength(r) \/ Audit(r) \/ CheckClient(r)
    \/ Acquire(r) \/ Build(r) \/ Unwind(r)

AwaitUpstream(r) == DoFails(r) \/ DoReturns(r) \/ ReadPrefix(r)
AwaitClient(r) == ReadBody(r) \/ Send(r)

Next ==
    \E r \in Requests :
        \/ Arrive(r) \/ Refuse(r)
        \/ Handle(r) \/ AwaitUpstream(r) \/ AwaitClient(r) \/ Stream(r)
        \/ RequestTimeout(r) \/ ClientLeaves(r)

Spec == Init /\ [][Next]_vars

(***************************************************************************)
(* The handler's goroutine runs, the audit ends (AuditEnds) and the timer  *)
(* fires.  The upstream may stay silent until the context is cancelled.    *)
(* The server sets no read or write timeout: a caller who stays may hold   *)
(* up the read of its body and the write of its answer for ever, and a     *)
(* stream may go on for as long as it is fed and read.                     *)
(***************************************************************************)
Progress(r) ==
    \/ Handle(r)
    \/ cause[r] # "live" /\ AwaitUpstream(r)
    \/ client[r] = "gone" /\ AwaitClient(r)
    \/ client[r] = "gone" /\ cause[r] # "live" /\ Stream(r)

FairSpec ==
    /\ Spec
    /\ \A r \in Requests : WF_vars(Progress(r)) /\ WF_vars(RequestTimeout(r))

-----------------------------------------------------------------------------
(* Properties. *)

Stages == {"idle", "check", "global", "length", "read", "audit",
           "present", "slot", "build", "do", "sse", "prefix", "whole", "copy",
           "unwind", "done"}
Codes == {NoCode, "ROUTE_NOT_FOUND", "GATEWAY_AUTH_FAILED", "RATE_LIMITED",
          "GATEWAY_OVERLOADED", "REQUEST_TOO_LARGE", "REQUEST_READ_ERROR",
          "LARGE_REQUEST_CONCURRENCY_LIMITED", "CYBER_POLICY_BLOCK",
          "CLIENT_DISCONNECT", "ROUTE_CONCURRENCY_LIMITED",
          "GATEWAY_CONFIG_ERROR", "UPSTREAM_TIMEOUT",
          "UPSTREAM_CONNECTION_ERROR", "UPSTREAM_MODEL_ERROR",
          "UPSTREAM_STREAM_ERROR", "UPSTREAM_STREAM_TIMEOUT",
          "UPSTREAM_STREAM_INTERRUPTED", "UPSTREAM_READ_ERROR"}
Events == [decision : {"allow", "block", "error"}, code : Codes, status : Nat]

TypeOK ==
    /\ pc \in [Requests -> Stages]
    /\ length \in [Requests -> Lengths]
    /\ client \in [Requests -> {"up", "gone"}]
    /\ cause \in [Requests -> {"none", "live", "timeout", "canceled"}]
    /\ verdict \in [Requests -> [decision : {"none", "allow", "block"},
                                 client : {"up", "gone"}]]
    /\ upstream \in [Requests -> {"none", "open", "closed"}]
    /\ defers \in [Requests -> Seq(Slots \cup {"cancel", "body"})]
    /\ used \in [Slots -> Nat]
    /\ \A s \in Slots : used[s] <= Max[s]
    /\ traces \in [Requests -> Seq(Events)]
    /\ reply \in [Requests -> Seq(Nat)]

Has(r, call) == \E i \in DOMAIN defers[r] : defers[r][i] = call
Holders(slot) == {r \in Requests : Has(r, slot)}

(***************************************************************************)
(* The call to the upstream is over before its route slot and its global   *)
(* slot can be taken by another request: concurrent upstream calls never   *)
(* exceed route.MaxConcurrency.                                            *)
(***************************************************************************)
UpstreamIsCovered ==
    \A r \in Requests : upstream[r] = "open" => Has(r, "route") /\ Has(r, "global")

(***************************************************************************)
(* A slot that is taken belongs to a request that will give it back: the   *)
(* counters are exactly the holders, whichever of the twenty returns the   *)
(* requests left through, a request that is done holds nothing, and an     *)
(* open upstream call is covered.                                          *)
(***************************************************************************)
SlotsAreHeld ==
    /\ TypeOK
    /\ UpstreamIsCovered
    /\ \A slot \in Slots : used[slot] = Cardinality(Holders(slot))
    /\ \A r \in Requests : pc[r] = "done" => defers[r] = <<>>

(***************************************************************************)
(* "Never turn a fail-open audit result into an orphaned upstream request" *)
(* (gateway.go): the upstream is called only for a request that the audit  *)
(* allowed while its caller was still there.                               *)
(***************************************************************************)
NoOrphanedUpstream ==
    \A r \in Requests : upstream[r] # "none" =>
        verdict[r] = [decision |-> "allow", client |-> "up"]

\* A request that is over has one trace: the status of its one answer, or that it
\* had none because of its caller.
TracedOnce(r) ==
    pc[r] = "done" /\ reply[r] # <<405>> =>
        /\ Len(traces[r]) = 1 /\ Len(reply[r]) <= 1
        /\ IF reply[r] = <<>> THEN traces[r][1].code = "CLIENT_DISCONNECT"
           ELSE traces[r][1].status = reply[r][1]

\* What a step that records the trace of r may blame.
BlamesRightly(r) ==
    traces'[r] # traces[r] =>
        /\ traces'[r][1].code = "CLIENT_DISCONNECT" => client[r] = "gone" \/ pc[r] = "copy"
        /\ traces'[r][1].code = "UPSTREAM_CONNECTION_ERROR" =>
              cause[r] \notin {"timeout", "canceled"}

(***************************************************************************)
(* The trace of a request tells what its caller was answered, and the      *)
(* caller and the upstream are not blamed for each other: "Do not          *)
(* attribute its timeout or cancellation to the model/channel"             *)
(* (gateway.go:561), and CLIENT_DISCONNECT "means the caller disconnected  *)
(* first" (docs/upstream-stream-and-token-usage.md:101-103).  The code has *)
(* one exception to the latter: while it copies the rest of a body beyond  *)
(* ResponseInspectMaxBytes, a broken upstream and the request timer are    *)
(* recorded as CLIENT_DISCONNECT too (gateway.go:838), with status 200.    *)
(***************************************************************************)
TraceTellsTheAnswer ==
    /\ [](\A r \in Requests : TracedOnce(r))
    /\ [][\A r \in Requests : BlamesRightly(r)]_vars

(***************************************************************************)
(* A request whose body has arrived is answered, or waits for its own      *)
(* caller; and a caller that leaves, at whatever stage, gives back every   *)
(* slot.                                                                   *)
(***************************************************************************)
RequestsReturn ==
    \A r \in Requests :
        /\ pc[r] = "audit" ~> pc[r] \in {"done", "sse", "whole", "copy"}
        /\ client[r] = "gone" ~> pc[r] = "done"
=============================================================================
