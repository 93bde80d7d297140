--------------------------- MODULE SSEProxyProofs ---------------------------
(***************************************************************************)
(* RelaysAPrefix, FailureSurfacesOnce and OutcomeFollowsTheStream of       *)
(* SSEProxy for streams of any length and any bound on the pending events. *)
(***************************************************************************)
EXTENDS SSEProxy, SequenceTheorems, TLAPS

Running == phase \in {"initial", "stream"}

\* What the handler has taken from the channel.
Taken == IF phase = "initial" THEN pending ELSE out

InChannel == IF results # <<>> /\ results[1] \in EventKinds THEN 1 ELSE 0
InHand == IF reader = "sending" /\ held \in EventKinds THEN 1 ELSE 0

\* The upstream's events are with the handler, in the channel, with the reader and
\* in the body, in this order.  A reader that has left may have dropped one.
Flow ==
    Running =>
        /\ \A i \in DOMAIN Taken : Taken[i] = sent[i]
        /\ Len(Taken) + InChannel <= Len(sent)
        /\ InChannel = 1 => results[1] = sent[Len(Taken) + 1]
        /\ InHand = 1 => held = sent[Len(Taken) + InChannel + 1]
        /\ reader # "exited" =>
              /\ Len(Taken) + InChannel + InHand + Len(body) = Len(sent)
              /\ \A i \in DOMAIN body : body[i] = sent[Len(sent) - Len(body) + i]

\* Before the commit nothing was written and nothing meaningful is held back.
Uncommitted ==
    /\ phase = "initial" =>
          /\ out = <<>> /\ http = 0 /\ ~completed
          /\ \A i \in DOMAIN pending : ~Meaningful(pending[i])
    /\ phase = "stream" => http = 200
    /\ Running => risk = NoRisk /\ \A i \in DOMAIN out : out[i] \in EventKinds \ {"error"}

\* A context that nobody ended by its timer was cancelled by the client.
CanceledByClient == ctx = "canceled" /\ phase # "unwound" => client = "gone"

\* The reader leaves on its own only behind the end it has announced, a clean end is
\* behind every event, and a read fails with the connection or its context.
EndInv ==
    /\ Running /\ reader = "exited" /\ ctx = "live" =>
          results # <<>> /\ results[1] \in EndKinds
    /\ results # <<>> /\ results[1] \in EndKinds => reader = "exited"
    /\ reader = "sending" /\ held = "eof" => wire = "eof" /\ body = <<>>
    /\ reader = "sending" /\ held = "err" => wire = "reset" \/ ctx # "live"
    /\ results # <<>> /\ results[1] = "err" => wire = "reset" \/ ctx # "live"
    /\ results # <<>> /\ results[1] = "eof" =>
          /\ wire = "eof" /\ body = <<>>
          /\ Running => Len(Taken) = Len(sent)

\* The failures that OutcomeFollowsTheStream gives a cause.
Caused ==
    /\ risk = "UPSTREAM_STREAM_TIMEOUT" => ctx = "timeout"
    /\ risk = "UPSTREAM_STREAM_ERROR" => \E i \in DOMAIN sent : sent[i] = "error"
    /\ risk = "UPSTREAM_STREAM_INTERRUPTED" => wire = "reset" /\ ~completed

\* What was returned is what the properties ask for.
Settled ==
    Returned =>
        /\ \A i \in DOMAIN out \ LogicalErrors :
               i \in DOMAIN sent /\ out[i] = sent[i] /\ out[i] # "error"
        /\ FailureSurfacesOnce /\ OutcomeFollowsTheStream

IInv ==
    TypeOK /\ Flow /\ Uncommitted /\ CanceledByClient /\ EndInv /\ Settled

USE SSEAssumption

-----------------------------------------------------------------------------
(* Types. *)

\* The risk codes differ: success is none of the failures.
LEMMA RisksDiffer ==
    NoRisk \notin {"UPSTREAM_STREAM_ERROR", "UPSTREAM_STREAM_TIMEOUT",
                   "UPSTREAM_STREAM_INTERRUPTED", "CLIENT_DISCONNECT"}
BY Zenon DEF NoRisk

\* What writeLines adds to what the client has read: all of the events, or some
\* first ones before the connection fails.
LEMMA WriteAppends ==
    ASSUME NEW S, out \in Seq(S), NEW events \in Seq(S), NEW next, WriteThen(events, next)
    PROVE  /\ http' = 200 /\ out' \in Seq(S)
           /\ Len(out') \in Nat /\ Len(out) <= Len(out')
           /\ Len(out') <= Len(out) + Len(events)
           /\ \A i \in 1 .. Len(out') :
                 out'[i] = IF i <= Len(out) THEN out[i] ELSE events[i - Len(out)]
           /\ \/ /\ Len(out') = Len(out) + Len(events)
                 /\ phase' = next /\ risk' = risk
              \/ /\ client = "gone" /\ phase' = "returned"
                 /\ risk' = "CLIENT_DISCONNECT"
<1>0. Len(out) \in Nat /\ Len(events) \in Nat
    OBVIOUS
<1>1. CASE out' = out \o events /\ phase' = next /\ UNCHANGED risk
    BY <1>0, <1>1, ConcatProperties DEF WriteThen
<1>2. ASSUME NEW n \in 0 .. Len(events), out' = out \o SubSeq(events, 1, n),
             client = "gone", Return("CLIENT_DISCONNECT")
      PROVE  /\ out' \in Seq(S)
             /\ Len(out') \in Nat /\ Len(out) <= Len(out')
             /\ Len(out') <= Len(out) + Len(events)
             /\ \A i \in 1 .. Len(out') :
                   out'[i] = IF i <= Len(out) THEN out[i] ELSE events[i - Len(out)]
    <2>1. PICK part : part = SubSeq(events, 1, n)
        OBVIOUS
    <2>2. /\ part \in Seq(S) /\ Len(part) = n
          /\ \A i \in 1 .. n : part[i] = events[i]
        BY <1>0, <2>1
    <2>3. /\ out \o part \in Seq(S) /\ Len(out \o part) = Len(out) + n
          /\ \A i \in 1 .. Len(out) + n :
                (out \o part)[i] = IF i <= Len(out) THEN out[i] ELSE part[i - Len(out)]
        BY <1>0, <2>2, ConcatProperties
    <2>4. \A i \in 1 .. Len(out) + n :
              (out \o part)[i] = IF i <= Len(out) THEN out[i] ELSE events[i - Len(out)]
        <3> SUFFICES ASSUME NEW i \in 1 .. Len(out) + n, ~(i <= Len(out))
                     PROVE  (out \o part)[i] = events[i - Len(out)]
            BY <1>0, <2>3
        <3>1. i - Len(out) \in 1 .. n
            BY <1>0
        <3> QED
            BY <1>0, <2>2, <2>3, <3>1
    <2> QED
        BY <1>0, <1>2, <2>1, <2>3, <2>4
<1> QED
    BY <1>1, <1>2 DEF WriteThen, Return

\* Nothing was read, sent or written yet.
LEMMA TypeInit == Init => TypeOK
<1> SUFFICES ASSUME Init PROVE TypeOK
    OBVIOUS
<1>1. /\ <<>> \in Seq(EventKinds) /\ <<>> \in Seq(EventKinds \cup EndKinds)
      /\ <<>> \in Seq(EventKinds \cup {"logical555"}) /\ Len(<<>>) = 0
    OBVIOUS
<1>2. "eof" \in EventKinds \cup EndKinds /\ NoRisk \in RiskCodes
    BY DEF EndKinds, RiskCodes
<1>3. /\ sent \in Seq(EventKinds) /\ Len(sent) <= MaxEvents
      /\ results \in Seq(EventKinds \cup EndKinds) /\ Len(results) <= 1
    BY <1>1 DEF Init
<1> QED
    BY <1>1, <1>2, <1>3 DEF Init, TypeOK

\* The handler's ways of writing and returning keep the types of what it has.
LEMMA WriteTypes ==
    ASSUME TypeOK, NEW events \in Seq(EventKinds), NEW next \in {"stream", "returned"},
           WriteThen(events, next)
    PROVE  /\ out' \in Seq(EventKinds \cup {"logical555"}) /\ http' = 200
           /\ phase' \in {"stream", "returned"} /\ risk' \in RiskCodes
<1>1. /\ out \in Seq(EventKinds \cup {"logical555"})
      /\ events \in Seq(EventKinds \cup {"logical555"})
    BY DEF TypeOK
<1>2. "CLIENT_DISCONNECT" \in RiskCodes
    BY DEF RiskCodes
<1> QED
    BY <1>1, <1>2, WriteAppends DEF TypeOK

\* A failure before or after the commit keeps the types.
LEMMA FailTypes ==
    ASSUME TypeOK, NEW code \in RiskCodes, FailBeforeCommit(code) \/ FailAfterCommit(code)
    PROVE  /\ out' \in Seq(EventKinds \cup {"logical555"}) /\ http' \in {0, 200, 555}
           /\ phase' = "returned" /\ risk' \in RiskCodes
<1>1. Append(out, "logical555") \in Seq(EventKinds \cup {"logical555"})
    BY DEF TypeOK
<1>2. CASE FailBeforeCommit(code)
    BY <1>2 DEF FailBeforeCommit, Return, TypeOK
<1>3. CASE FailAfterCommit(code)
    BY <1>1, <1>3 DEF FailAfterCommit, Return, TypeOK
<1> QED
    BY <1>2, <1>3

\* The handler keeps the types.
LEMMA HandlerTypes == ASSUME TypeOK, Handler PROVE TypeOK'
<1> USE DEF upstreamVars, readerVars, handlerVars
<1>0. /\ <<>> \in Seq(EventKinds \cup EndKinds) /\ Len(<<>>) = 0
      /\ Classify \in RiskCodes /\ "CLIENT_DISCONNECT" \in RiskCodes
      /\ "UPSTREAM_STREAM_ERROR" \in RiskCodes /\ NoRisk \in RiskCodes
    BY DEF Classify, RiskCodes
<1>1. CASE FirstHeartbeat
    BY <1>1, WriteTypes DEF FirstHeartbeat, TypeOK
<1>2. CASE HeartbeatFails
    BY <1>0, <1>2 DEF HeartbeatFails, Return, TypeOK
<1>3. CASE ContextDone
    BY <1>0, <1>3, FailTypes DEF ContextDone, TypeOK
<1>4. CASE ResultsClosed
    <2>1. CASE WriteThen(pending, "returned")
        BY <1>4, <2>1, WriteTypes DEF ResultsClosed, TypeOK
    <2>2. CASE Return(NoRisk) /\ UNCHANGED <<http, out>>
        BY <1>0, <1>4, <2>2 DEF ResultsClosed, Return, TypeOK
    <2> QED
        BY <1>4, <2>1, <2>2 DEF ResultsClosed
<1>5. CASE ResultErr
    <2>1. CASE FailBeforeCommit(Classify) \/ FailAfterCommit(Classify)
        BY <1>0, <1>5, <2>1, FailTypes DEF ResultErr, TypeOK
    <2>2. CASE Return(NoRisk) /\ UNCHANGED <<http, out>>
        BY <1>0, <1>5, <2>2 DEF ResultErr, Return, TypeOK
    <2> QED
        BY <1>5, <2>1, <2>2 DEF ResultErr, ErrAfterCommit
<1>6. CASE ResultEnd
    BY <1>0, <1>6 DEF ResultEnd, Return, TypeOK
<1>7. CASE ResultEvent
    <2>1. PICK event \in EventKinds : event = results[1]
        BY <1>7 DEF ResultEvent
    <2>2. /\ completed' \in BOOLEAN /\ results' = <<>>
          /\ UNCHANGED <<upstreamVars, client, ctx, reader, held>>
        BY <1>7 DEF ResultEvent, Observe
    <2>3. Append(pending, event) \in Seq(EventKinds) /\ <<event>> \in Seq(EventKinds)
        BY DEF TypeOK
    <2>4. CASE /\ FailBeforeCommit("UPSTREAM_STREAM_ERROR") \/ FailAfterCommit("UPSTREAM_STREAM_ERROR")
               /\ UNCHANGED pending
        BY <1>0, <2>2, <2>4, FailTypes DEF TypeOK
    <2>5. CASE /\ pending' = Append(pending, event)
               /\ \/ WriteThen(Append(pending, event), "stream")
                  \/ UNCHANGED <<phase, risk, http, out>>
        <3>1. CASE WriteThen(Append(pending, event), "stream")
            <4>1. /\ out' \in Seq(EventKinds \cup {"logical555"}) /\ http' = 200
                  /\ phase' \in {"stream", "returned"} /\ risk' \in RiskCodes
                BY <2>3, <3>1, WriteTypes
            <4> QED
                BY <1>0, <2>2, <2>3, <2>5, <4>1 DEF TypeOK
        <3>2. CASE UNCHANGED <<phase, risk, http, out>>
            BY <1>0, <2>2, <2>3, <2>5, <3>2 DEF TypeOK
        <3> QED
            BY <2>5, <3>1, <3>2
    <2>6. CASE WriteThen(<<event>>, "stream") /\ UNCHANGED pending
        <3>1. /\ out' \in Seq(EventKinds \cup {"logical555"}) /\ http' = 200
              /\ phase' \in {"stream", "returned"} /\ risk' \in RiskCodes
            BY <2>3, <2>6, WriteTypes
        <3> QED
            BY <1>0, <2>2, <2>6, <3>1 DEF TypeOK
    <2> QED
        BY <1>7, <2>1, <2>4, <2>5, <2>6 DEF ResultEvent
<1>8. CASE Unwind
    BY <1>8 DEF Unwind, TypeOK
<1> QED
    BY <1>1, <1>2, <1>3, <1>4, <1>5, <1>6, <1>7, <1>8 DEF Handler

\* The upstream, the client and the reader keep the types.
LEMMA OtherTypes ==
    ASSUME TypeOK,
           \/ \E kind \in EventKinds : UpstreamSend(kind)
           \/ \E how \in {"eof", "reset"} : UpstreamClose(how)
           \/ IdleTimeout \/ ClientLeaves \/ ClientCancel \/ Reader \/ UNCHANGED vars
    PROVE  TypeOK'
<1> USE DEF upstreamVars, readerVars, handlerVars
<1>1. ASSUME NEW kind \in EventKinds, UpstreamSend(kind) PROVE TypeOK'
    <2>1. /\ sent' \in Seq(EventKinds) /\ Len(sent') = Len(sent) + 1
          /\ body' \in Seq(EventKinds) /\ Len(sent) \in Nat
        BY <1>1 DEF UpstreamSend, TypeOK
    <2>2. Len(sent') <= MaxEvents
        BY <1>1, <2>1 DEF UpstreamSend
    <2> QED
        BY <1>1, <2>1, <2>2 DEF UpstreamSend, TypeOK
<1>2. CASE \/ \E how \in {"eof", "reset"} : UpstreamClose(how)
           \/ IdleTimeout \/ ClientLeaves \/ ClientCancel \/ UNCHANGED vars
    BY <1>2 DEF UpstreamClose, IdleTimeout, ClientLeaves, ClientCancel, vars, TypeOK
<1>3. CASE ReaderRead
    <2>1. body # <<>> => Head(body) \in EventKinds /\ Tail(body) \in Seq(EventKinds)
        BY DEF TypeOK
    <2>2. body' \in Seq(EventKinds) /\ held' \in EventKinds \cup EndKinds
        <3>1. body \in Seq(EventKinds) /\ "eof" \in EndKinds /\ "err" \in EndKinds
            BY DEF TypeOK, EndKinds
        <3>2. CASE body # <<>> /\ held' = Head(body) /\ body' = Tail(body)
            BY <2>1, <3>2
        <3>3. CASE held' \in {"eof", "err"} /\ UNCHANGED body
            BY <3>1, <3>3
        <3> QED
            BY <1>3, <3>2, <3>3 DEF ReaderRead
    <2> QED
        BY <1>3, <2>2 DEF ReaderRead, TypeOK
<1>4. CASE ReaderSend
    <2>1. <<held>> \in Seq(EventKinds \cup EndKinds) /\ Len(<<held>>) = 1
        BY DEF TypeOK
    <2> QED
        BY <1>4, <2>1 DEF ReaderSend, TypeOK
<1>5. CASE ReaderQuit
    BY <1>5 DEF ReaderQuit, TypeOK
<1> QED
    BY <1>1, <1>2, <1>3, <1>4, <1>5 DEF Reader

-----------------------------------------------------------------------------
(* The flow of the events, on the side of the upstream and of the reader. *)

\* The lengths and the domains of what is on the way are what arithmetic needs.
LEMMA Sizes ==
    ASSUME TypeOK
    PROVE  /\ Len(sent) \in Nat /\ DOMAIN sent = 1 .. Len(sent)
           /\ Len(body) \in Nat /\ DOMAIN body = 1 .. Len(body)
           /\ Len(out) \in Nat /\ DOMAIN out = 1 .. Len(out)
           /\ Len(pending) \in Nat /\ DOMAIN pending = 1 .. Len(pending)
           /\ Len(Taken) \in Nat /\ DOMAIN Taken = 1 .. Len(Taken)
           /\ InChannel \in {0, 1} /\ InHand \in {0, 1}
<1>1. /\ Len(sent) \in Nat /\ DOMAIN sent = 1 .. Len(sent)
      /\ Len(body) \in Nat /\ DOMAIN body = 1 .. Len(body)
    BY DEF TypeOK
<1>2. /\ Len(out) \in Nat /\ DOMAIN out = 1 .. Len(out)
      /\ Len(pending) \in Nat /\ DOMAIN pending = 1 .. Len(pending)
    BY DEF TypeOK
<1> QED
    BY <1>1, <1>2 DEF Taken, InChannel, InHand

\* An end is not an event.
LEMMA EndsAreNoEvents == "eof" \notin EventKinds /\ "err" \notin EventKinds
BY DEF EventKinds

\* Nothing is on the way yet.
LEMMA FlowInit == Init => Flow /\ Uncommitted /\ CanceledByClient /\ EndInv /\ Settled
<1> SUFFICES ASSUME Init PROVE Flow /\ Uncommitted /\ CanceledByClient /\ EndInv /\ Settled
    OBVIOUS
<1>1. Len(<<>>) = 0 /\ DOMAIN <<>> = {}
    OBVIOUS
<1>2. Flow
    BY <1>1 DEF Init, Flow, Taken, InChannel, InHand
<1> QED
    BY <1>1, <1>2 DEF Init, Uncommitted, CanceledByClient, EndInv, Settled, Returned, Running

\* What the upstream adds is behind everything else.
LEMMA SendFlow ==
    ASSUME TypeOK, Flow, NEW kind \in EventKinds, UpstreamSend(kind)
    PROVE  Flow'
<1> USE DEF readerVars, handlerVars
<1>1. /\ Len(sent') = Len(sent) + 1 /\ Len(body') = Len(body) + 1
      /\ DOMAIN body' = 1 .. (Len(body) + 1)
      /\ \A i \in 1 .. Len(sent) : sent'[i] = sent[i]
      /\ \A i \in 1 .. Len(body) : body'[i] = body[i]
      /\ sent'[Len(sent) + 1] = kind /\ body'[Len(body) + 1] = kind
    BY DEF UpstreamSend, TypeOK
<1>2. /\ UNCHANGED <<Taken, InChannel, InHand, results, held, reader>> /\ (Running' <=> Running)
    BY DEF UpstreamSend, Taken, InChannel, InHand, Running
<1> SUFFICES ASSUME Running PROVE Flow'
    BY <1>2 DEF Flow
<1>3. /\ \A i \in DOMAIN Taken : Taken[i] = sent[i]
      /\ Len(Taken) + InChannel <= Len(sent)
      /\ InChannel = 1 => results[1] = sent[Len(Taken) + 1]
      /\ InHand = 1 => held = sent[Len(Taken) + InChannel + 1]
      /\ reader # "exited" =>
            /\ Len(Taken) + InChannel + InHand + Len(body) = Len(sent)
            /\ \A i \in DOMAIN body : body[i] = sent[Len(sent) - Len(body) + i]
    BY DEF Flow
<1>4. InHand = 1 => reader # "exited"
    BY DEF InHand
<1>5. \A i \in DOMAIN Taken : Taken[i] = sent'[i]
    BY <1>1, <1>3, Sizes
<1>6. InChannel = 1 => results[1] = sent'[Len(Taken) + 1]
    BY <1>1, <1>3, Sizes
<1>7. InHand = 1 => held = sent'[Len(Taken) + InChannel + 1]
    BY <1>1, <1>3, <1>4, Sizes
<1>8. ASSUME reader # "exited", NEW i \in DOMAIN body'
      PROVE  body'[i] = sent'[Len(sent') - Len(body') + i]
    <2>1. Len(sent') - Len(body') + i = Len(sent) - Len(body) + i
        BY <1>1, Sizes
    <2>2. CASE i = Len(body) + 1
        BY <1>1, <2>1, <2>2, Sizes
    <2>3. CASE i \in 1 .. Len(body)
        <3>1. Len(sent) - Len(body) + i \in 1 .. Len(sent)
            <4>1. Len(Taken) + InChannel + InHand + Len(body) = Len(sent)
                BY <1>2, <1>3, <1>8
            <4>2. /\ Len(Taken) \in Nat /\ InChannel \in Nat /\ InHand \in Nat
                  /\ Len(body) \in Nat /\ Len(sent) \in Nat
                BY Sizes
            <4> QED
                BY <2>3, <4>1, <4>2
        <3> QED
            BY <1>1, <1>3, <1>8, <2>1, <2>3, <3>1, Sizes
    <2> QED
        BY <1>1, <2>2, <2>3, Sizes
<1>9. /\ Len(Taken) + InChannel <= Len(sent')
      /\ reader # "exited" => Len(Taken) + InChannel + InHand + Len(body') = Len(sent')
    <2>1. Len(sent') = Len(sent) + 1 /\ Len(body') = Len(body) + 1
        BY <1>1
    <2>2. /\ Len(Taken) + InChannel <= Len(sent)
          /\ reader # "exited" => Len(Taken) + InChannel + InHand + Len(body) = Len(sent)
        BY <1>3
    <2>3. /\ Len(sent) \in Nat /\ Len(body) \in Nat /\ Len(Taken) \in Nat
          /\ InChannel \in Nat /\ InHand \in Nat
        BY Sizes
    <2> QED
        BY <2>1, <2>2, <2>3
<1> QED
    BY <1>2, <1>5, <1>6, <1>7, <1>8, <1>9 DEF Flow

\* The reader takes the first event of the body, or finds an end.
LEMMA ReadFlow ==
    ASSUME TypeOK, Flow, ReaderRead
    PROVE  Flow'
<1> USE DEF handlerVars
<1>1. /\ UNCHANGED <<sent, results, Taken, InChannel>> /\ (Running' <=> Running)
      /\ reader = "reading" /\ reader' = "sending" /\ InHand = 0
    BY DEF ReaderRead, Taken, InChannel, InHand, Running
<1> SUFFICES ASSUME Running PROVE Flow'
    BY <1>1 DEF Flow
<1>2. /\ \A i \in DOMAIN Taken : Taken[i] = sent[i]
      /\ Len(Taken) + InChannel <= Len(sent)
      /\ InChannel = 1 => results[1] = sent[Len(Taken) + 1]
      /\ Len(Taken) + InChannel + Len(body) = Len(sent)
      /\ \A i \in DOMAIN body : body[i] = sent[Len(sent) - Len(body) + i]
    BY <1>1, Sizes DEF Flow
<1>3. CASE body # <<>> /\ held' = Head(body) /\ body' = Tail(body)
    <2>1. /\ Len(body) >= 1 /\ Len(body') = Len(body) - 1
          /\ DOMAIN body' = 1 .. (Len(body) - 1)
          /\ \A i \in 1 .. (Len(body) - 1) : body'[i] = body[i + 1]
          /\ held' = body[1] /\ held' \in EventKinds
        BY <1>3, Sizes DEF TypeOK
    <2>2. InHand' = 1
        BY <1>1, <2>1 DEF InHand
    <2>3. held' = sent[Len(Taken) + InChannel + 1]
        <3>1. 1 \in DOMAIN body /\ Len(sent) - Len(body) + 1 = Len(Taken) + InChannel + 1
            BY <1>2, <2>1, Sizes
        <3>2. body[1] = sent[Len(sent) - Len(body) + 1]
            BY <1>2, <3>1
        <3> QED
            BY <2>1, <3>1, <3>2
    <2>4. \A i \in DOMAIN body' : body'[i] = sent[Len(sent) - Len(body') + i]
        <3> SUFFICES ASSUME NEW i \in 1 .. (Len(body) - 1)
                     PROVE  body[i + 1] = sent[Len(sent) - (Len(body) - 1) + i]
            BY <2>1
        <3>1. i + 1 \in DOMAIN body
            BY Sizes
        <3>2. Len(sent) - Len(body) + (i + 1) = Len(sent) - (Len(body) - 1) + i
            BY Sizes
        <3> QED
            BY <1>2, <3>1, <3>2
    <2>5. Len(Taken) + InChannel + InHand' + Len(body') = Len(sent)
        <3>1. Len(Taken) \in Nat /\ InChannel \in Nat /\ Len(body) \in Nat /\ Len(sent) \in Nat
            BY Sizes
        <3>2. Len(Taken) + InChannel + Len(body) = Len(sent)
            BY <1>2
        <3>3. Len(body') = Len(body) - 1 /\ InHand' = 1
            BY <2>1, <2>2
        <3> QED
            BY <3>1, <3>2, <3>3
    <2> QED
        BY <1>1, <1>2, <2>2, <2>3, <2>4, <2>5 DEF Flow
<1>4. CASE held' \in {"eof", "err"} /\ UNCHANGED body
    <2>1. InHand' = 0
        BY <1>4, EndsAreNoEvents DEF InHand
    <2> QED
        BY <1>1, <1>2, <1>4, <2>1, Sizes DEF Flow
<1> QED
    BY <1>3, <1>4 DEF ReaderRead

\* What was in the reader's hand is in the channel, or dropped.
LEMMA HandFlow ==
    ASSUME TypeOK, Flow, ReaderSend \/ ReaderQuit
    PROVE  Flow'
<1> USE DEF upstreamVars, handlerVars
<1>1. /\ UNCHANGED <<sent, body, Taken>> /\ (Running' <=> Running)
      /\ reader = "sending" /\ UNCHANGED held
      /\ InHand' = 0
    BY DEF ReaderSend, ReaderQuit, Taken, InHand, Running
<1> SUFFICES ASSUME Running PROVE Flow'
    BY <1>1 DEF Flow
<1>2. /\ \A i \in DOMAIN Taken : Taken[i] = sent[i]
      /\ Len(Taken) + InChannel <= Len(sent)
      /\ InChannel = 1 => results[1] = sent[Len(Taken) + 1]
      /\ InHand = 1 => held = sent[Len(Taken) + InChannel + 1]
      /\ Len(Taken) + InChannel + InHand + Len(body) = Len(sent)
      /\ \A i \in DOMAIN body : body[i] = sent[Len(sent) - Len(body) + i]
    BY <1>1 DEF Flow
<1>3. CASE ReaderSend
    <2>1. InChannel = 0 /\ results'[1] = held /\ results' # <<>>
        BY <1>3 DEF ReaderSend, InChannel
    <2>2. InChannel' = InHand
        BY <1>1, <2>1 DEF InChannel, InHand
    <2> QED
        BY <1>1, <1>2, <2>1, <2>2, Sizes DEF Flow
<1>4. CASE ReaderQuit
    <2>1. UNCHANGED <<results, InChannel>> /\ reader' = "exited"
        BY <1>4 DEF ReaderQuit, InChannel
    <2> QED
        BY <1>1, <1>2, <2>1 DEF Flow
<1> QED
    BY <1>3, <1>4

-----------------------------------------------------------------------------
(* The upstream, the timer, the client and the reader. *)

Outside ==
    \/ \E kind \in EventKinds : UpstreamSend(kind)
    \/ \E how \in {"eof", "reset"} : UpstreamClose(how)
    \/ IdleTimeout \/ ClientLeaves \/ ClientCancel \/ Reader \/ UNCHANGED vars

\* What the others may do to the handler's view: the stream grows until it is
\* closed, a client that left stays away, and a context that ended has ended.
LEMMA OutsideEffect ==
    ASSUME TypeOK, Outside
    PROVE  /\ UNCHANGED handlerVars
           /\ \A i \in DOMAIN sent : i \in DOMAIN sent' /\ sent'[i] = sent[i]
           /\ client = "gone" => client' = "gone"
           /\ ctx' = "live" => ctx = "live"
           /\ ctx' = "canceled" => ctx = "canceled" \/ client = "gone"
           /\ ctx = "timeout" => ctx' = "timeout"
           /\ reader = "exited" => reader' = "exited"
           /\ wire = "reset" => wire' = "reset"
           /\ wire = "eof" => wire' = "eof" /\ sent' = sent /\ (body = <<>> => body' = <<>>)
<1> USE DEF upstreamVars, readerVars
<1>1. ASSUME NEW kind \in EventKinds, UpstreamSend(kind)
      PROVE  /\ wire = "open" /\ UNCHANGED <<client, ctx, reader, handlerVars>>
             /\ \A i \in DOMAIN sent : i \in DOMAIN sent' /\ sent'[i] = sent[i]
    <2>1. sent \in Seq(EventKinds) /\ sent' = Append(sent, kind)
        BY <1>1 DEF UpstreamSend, TypeOK
    <2>2. \A i \in DOMAIN sent : i \in DOMAIN sent' /\ sent'[i] = sent[i]
        BY <2>1
    <2> QED
        BY <1>1, <2>2 DEF UpstreamSend
<1>2. CASE \/ \E how \in {"eof", "reset"} : UpstreamClose(how)
           \/ IdleTimeout \/ ClientLeaves \/ ClientCancel \/ UNCHANGED vars
    BY <1>2 DEF UpstreamClose, IdleTimeout, ClientLeaves, ClientCancel, vars
<1>3. CASE Reader
    BY <1>3 DEF Reader, ReaderRead, ReaderSend, ReaderQuit
<1> QED
    BY <1>1, <1>2, <1>3 DEF Outside

\* What was returned is not changed by what the others do later.
LEMMA OutsideSettled ==
    ASSUME TypeOK, Uncommitted, CanceledByClient, Settled, Outside
    PROVE  Uncommitted' /\ CanceledByClient' /\ Settled'
<1> USE DEF handlerVars
<1>1. /\ UNCHANGED <<phase, pending, http, out, completed, risk>>
      /\ \A i \in DOMAIN sent : i \in DOMAIN sent' /\ sent'[i] = sent[i]
      /\ client = "gone" => client' = "gone"
      /\ ctx' = "live" => ctx = "live"
      /\ ctx' = "canceled" => ctx = "canceled" \/ client = "gone"
      /\ ctx = "timeout" => ctx' = "timeout"
      /\ reader = "exited" => reader' = "exited"
      /\ wire = "reset" => wire' = "reset"
      /\ wire = "eof" => wire' = "eof" /\ sent' = sent /\ (body = <<>> => body' = <<>>)
    BY OutsideEffect
<1>2. Uncommitted'
    BY <1>1 DEF Uncommitted, Running
<1>3. CanceledByClient'
    BY <1>1 DEF CanceledByClient
<1>4. ASSUME Returned' PROVE Settled'
    <2>1. Returned /\ UNCHANGED LogicalErrors
        BY <1>1, <1>4 DEF Returned, LogicalErrors
    <2>2. \A i \in DOMAIN out' \ LogicalErrors' :
               i \in DOMAIN sent' /\ out'[i] = sent'[i] /\ out'[i] # "error"
        BY <1>1, <2>1 DEF Settled
    <2>3. FailureSurfacesOnce'
        BY <1>1, <1>4, <2>1 DEF Settled, FailureSurfacesOnce, DisconnectBlamesTheClient, Returned
    <2>4. OutcomeFollowsTheStream'
        <3>1. CleanEnd => CleanEnd'
            BY <1>1 DEF CleanEnd, Meaningful
        <3>2. OutcomeFollowsTheStream
            BY <2>1 DEF Settled
        <3> QED
            BY <1>1, <1>4, <2>1, <3>1, <3>2 DEF OutcomeFollowsTheStream
    <2> QED
        BY <2>2, <2>3, <2>4 DEF Settled
<1> QED
    BY <1>2, <1>3, <1>4 DEF Settled

\* The reader announces an end when it has found it, and leaves behind it.
LEMMA OutsideEnd ==
    ASSUME TypeOK, Flow, EndInv, Outside
    PROVE  EndInv'
<1> USE DEF upstreamVars, readerVars, handlerVars
<1>1. ASSUME NEW kind \in EventKinds, UpstreamSend(kind) PROVE EndInv'
    BY <1>1 DEF UpstreamSend, EndInv, Running
<1>2. CASE \/ \E how \in {"eof", "reset"} : UpstreamClose(how)
           \/ IdleTimeout \/ ClientLeaves \/ ClientCancel \/ UNCHANGED vars
    BY <1>2 DEF UpstreamClose, IdleTimeout, ClientLeaves, ClientCancel, vars, EndInv,
                Running, Taken
<1>3. CASE ReaderRead
    <2>1. /\ reader = "reading" /\ reader' = "sending"
          /\ UNCHANGED <<sent, wire, results, phase, pending, out>>
        BY <1>3 DEF ReaderRead
    <2>2. ~(results # <<>> /\ results[1] \in EndKinds)
        BY <2>1 DEF EndInv
    <2>3. held' = "eof" => wire = "eof" /\ body' = <<>>
        <3>1. body # <<>> => Head(body) \in EventKinds
            BY DEF TypeOK
        <3> QED
            BY <1>3, <3>1, EndsAreNoEvents DEF ReaderRead
    <2>4. UNCHANGED ctx /\ (held' = "err" => wire = "reset" \/ ctx # "live")
        <3>1. body # <<>> => Head(body) \in EventKinds
            BY DEF TypeOK
        <3> QED
            BY <1>3, <3>1, EndsAreNoEvents DEF ReaderRead
    <2> QED
        BY <2>1, <2>2, <2>3, <2>4 DEF EndInv, EndKinds
<1>4. CASE ReaderSend
    <2>1. /\ reader = "sending" /\ results = <<>> /\ results' = <<held>>
          /\ reader' = IF held \in EventKinds THEN "reading" ELSE "exited"
          /\ UNCHANGED <<sent, body, wire, ctx, phase, pending, out, held>>
        BY <1>4 DEF ReaderSend
    <2>2. results' # <<>> /\ results'[1] = held
        BY <2>1
    <2>3. held \in EventKinds \cup EndKinds /\ \A k \in EndKinds : k \notin EventKinds
        BY EndsAreNoEvents DEF TypeOK, EndKinds
    <2>4. held = "eof" /\ Running => Len(Taken) = Len(sent)
        <3> SUFFICES ASSUME held = "eof", Running PROVE Len(Taken) = Len(sent)
            OBVIOUS
        <3>1. InChannel = 0 /\ InHand = 0 /\ Len(body) = 0
            BY <2>1, EndsAreNoEvents DEF InChannel, InHand, EndInv
        <3>2. Len(Taken) + InChannel + InHand + Len(body) = Len(sent)
            BY <2>1 DEF Flow
        <3> QED
            BY <3>1, <3>2, Sizes
    <2>5. UNCHANGED Taken /\ (Running' <=> Running)
        BY <2>1 DEF Taken, Running
    <2>6. held = "eof" => wire = "eof" /\ body = <<>>
        BY <2>1 DEF EndInv
    <2> QED
        BY <2>1, <2>2, <2>3, <2>4, <2>5, <2>6 DEF EndInv
<1>5. CASE ReaderQuit
    <2>1. /\ ctx # "live" /\ reader' = "exited"
          /\ UNCHANGED <<sent, body, wire, ctx, phase, pending, out, held, results>>
        BY <1>5 DEF ReaderQuit
    <2>2. UNCHANGED Taken /\ (Running' <=> Running)
        BY <2>1 DEF Taken, Running
    <2> QED
        BY <2>1, <2>2 DEF EndInv
<1> QED
    BY <1>1, <1>2, <1>3, <1>4, <1>5 DEF Outside, Reader

\* Whatever the others do, the invariant is kept.
LEMMA OutsideStep == ASSUME IInv, Outside PROVE IInv'
<1> USE DEF IInv
<1>1. TypeOK'
    BY OtherTypes DEF Outside
<1>2. Uncommitted' /\ CanceledByClient' /\ Settled' /\ EndInv'
    BY OutsideSettled, OutsideEnd
<1>3. Flow'
    <2>1. CASE \E kind \in EventKinds : UpstreamSend(kind)
        BY <2>1, SendFlow
    <2>2. CASE Reader
        BY <2>2, ReadFlow, HandFlow DEF Reader
    <2>3. CASE \/ \E how \in {"eof", "reset"} : UpstreamClose(how)
               \/ IdleTimeout \/ ClientLeaves \/ ClientCancel \/ UNCHANGED vars
        <3>1. UNCHANGED <<sent, body, reader, held, results, phase, pending, out>>
            BY <2>3 DEF UpstreamClose, IdleTimeout, ClientLeaves, ClientCancel, vars,
                        upstreamVars, readerVars, handlerVars
        <3> QED
            BY <3>1 DEF Flow, Running, Taken, InChannel, InHand
    <2> QED
        BY <2>1, <2>2, <2>3 DEF Outside
<1> QED
    BY <1>1, <1>2, <1>3

-----------------------------------------------------------------------------
(* The returns of the handler. *)

Failures == {"UPSTREAM_STREAM_ERROR", "UPSTREAM_STREAM_TIMEOUT",
             "UPSTREAM_STREAM_INTERRUPTED"}

\* What the client has read is a part of the stream, without an error.
Relayed ==
    \A i \in DOMAIN out :
        i \in DOMAIN sent /\ out[i] = sent[i] /\ out[i] \notin {"error", "logical555"}

\* While the stream runs, what the client has read was taken in order.
LEMMA RunningRelays == ASSUME IInv, Running PROVE Relayed
<1>1. CASE phase = "initial"
    <2>1. DOMAIN out = {}
        BY <1>1 DEF IInv, Uncommitted
    <2> QED
        BY <2>1 DEF Relayed
<1>2. CASE phase = "stream"
    <2>1. Taken = out /\ Len(Taken) + InChannel <= Len(sent)
          /\ \A i \in DOMAIN Taken : Taken[i] = sent[i]
        BY <1>2 DEF IInv, Flow, Taken, Running
    <2>2. \A i \in DOMAIN out : out[i] \in EventKinds \ {"error"}
        BY <1>2 DEF IInv, Uncommitted, Running
    <2>3. "logical555" \notin EventKinds
        BY DEF EventKinds
    <2>4. Len(out) <= Len(sent)
        BY <2>1, Sizes DEF IInv
    <2> QED
        BY <2>1, <2>2, <2>3, <2>4, Sizes DEF IInv, Relayed
<1> QED
    BY <1>1, <1>2 DEF Running

\* The handler's last statement: nothing else depends on the phase any more.
LEMMA ReturnKeeps ==
    ASSUME IInv, Running, phase' = "returned",
           UNCHANGED <<upstreamVars, client, ctx, reader, held>>,
           results' \in {results, <<>>}, TypeOK', Settled'
    PROVE  IInv'
<1>1. ~Running' /\ phase # "unwound"
    BY DEF Running
<1>2. Flow' /\ Uncommitted' /\ CanceledByClient'
    BY <1>1 DEF IInv, Flow, Uncommitted, CanceledByClient, Running
<1>3. EndInv'
    BY <1>1 DEF IInv, EndInv, upstreamVars
<1> QED
    BY <1>2, <1>3 DEF IInv

\* A client that has gone is told nothing.
LEMMA GaveUp ==
    ASSUME phase' = "returned", risk' = "CLIENT_DISCONNECT", client' = "gone",
           http' # 555, Relayed'
    PROVE  Settled'
<1>1. LogicalErrors' = {}
    BY DEF LogicalErrors, Relayed
<1>2. FailureSurfacesOnce'
    BY <1>1 DEF FailureSurfacesOnce, DisconnectBlamesTheClient, Returned
<1>3. OutcomeFollowsTheStream'
    BY RisksDiffer DEF OutcomeFollowsTheStream
<1> QED
    BY <1>2, <1>3 DEF Settled, Relayed

\* A failure before the commit is an HTTP 555 and nothing else.
LEMMA Refused ==
    ASSUME phase' = "returned", out' = <<>>, http' = 555, risk' \in Failures, Caused'
    PROVE  Settled'
<1>1. LogicalErrors' = {} /\ DOMAIN out' = {}
    BY DEF LogicalErrors
<1>2. risk' # NoRisk /\ risk' # "CLIENT_DISCONNECT"
    BY RisksDiffer DEF Failures
<1>3. FailureSurfacesOnce'
    BY <1>1, <1>2 DEF FailureSurfacesOnce, DisconnectBlamesTheClient
<1>4. OutcomeFollowsTheStream'
    BY <1>2 DEF OutcomeFollowsTheStream, Caused
<1> QED
    BY <1>1, <1>3, <1>4 DEF Settled

\* A failure after the commit is one event behind what was relayed.
LEMMA Broken ==
    ASSUME TypeOK, Relayed, phase' = "returned", out' = Append(out, "logical555"),
           http' = 200, risk' \in Failures, UNCHANGED sent, Caused'
    PROVE  Settled'
<1>1. /\ Len(out) \in Nat /\ DOMAIN out = 1 .. Len(out)
      /\ Len(out') = Len(out) + 1 /\ DOMAIN out' = 1 .. (Len(out) + 1)
      /\ \A i \in 1 .. Len(out) : out'[i] = out[i]
      /\ out'[Len(out) + 1] = "logical555"
    BY DEF TypeOK
<1>2. LogicalErrors' = {Len(out')}
    BY <1>1 DEF LogicalErrors, Relayed
<1>3. risk' # NoRisk /\ risk' # "CLIENT_DISCONNECT"
    BY RisksDiffer DEF Failures
<1>4. FailureSurfacesOnce'
    BY <1>2, <1>3 DEF FailureSurfacesOnce, DisconnectBlamesTheClient
<1>5. OutcomeFollowsTheStream'
    BY <1>3 DEF OutcomeFollowsTheStream, Caused
<1>6. \A i \in DOMAIN out' \ LogicalErrors' :
          i \in DOMAIN sent' /\ out'[i] = sent'[i] /\ out'[i] # "error"
    BY <1>1, <1>2 DEF Relayed
<1> QED
    BY <1>4, <1>5, <1>6 DEF Settled

\* A success is a complete stream, unless the reader gave up with the context.
LEMMA Accepted ==
    ASSUME phase' = "returned", risk' = NoRisk, http' # 555, Relayed',
           completed' \/ CleanEnd' \/ (ctx' # "live" /\ reader' = "exited")
    PROVE  Settled'
<1>1. LogicalErrors' = {}
    BY DEF LogicalErrors, Relayed
<1>2. risk' # "CLIENT_DISCONNECT" /\ risk' \notin Failures
    BY RisksDiffer DEF Failures
<1>3. FailureSurfacesOnce'
    BY <1>1, <1>2 DEF FailureSurfacesOnce, DisconnectBlamesTheClient, Returned
<1>4. OutcomeFollowsTheStream'
    BY <1>2 DEF OutcomeFollowsTheStream, Failures
<1> QED
    BY <1>3, <1>4 DEF Settled, Relayed

\* classifyUpstreamStreamReadError blames the client only if it left.
LEMMA ClassifyBlames ==
    ASSUME IInv, Running
    PROVE  /\ Classify \in Failures \cup {"CLIENT_DISCONNECT"}
           /\ Classify = "CLIENT_DISCONNECT" => client = "gone"
           /\ Classify = "UPSTREAM_STREAM_INTERRUPTED" => ctx = "live"
           /\ Classify = "UPSTREAM_STREAM_TIMEOUT" => ctx = "timeout"
           /\ Classify # "UPSTREAM_STREAM_ERROR"
<1>1. ctx \in {"live", "timeout", "canceled"}
    BY DEF IInv, TypeOK
<1>2. ctx = "canceled" => client = "gone"
    BY DEF IInv, CanceledByClient, Running
<1> QED
    BY <1>1, <1>2 DEF Classify, Failures

\* A failure of either phase surfaces once.
LEMMA FailSettles ==
    ASSUME IInv, UNCHANGED <<upstreamVars, client>>,
           NEW code \in Failures \cup {"CLIENT_DISCONNECT"},
           code = "CLIENT_DISCONNECT" => client = "gone",
           code = "UPSTREAM_STREAM_TIMEOUT" => ctx' = "timeout",
           code = "UPSTREAM_STREAM_ERROR" => \E i \in DOMAIN sent : sent[i] = "error",
           code = "UPSTREAM_STREAM_INTERRUPTED" => wire = "reset" /\ ~completed',
           \/ phase = "initial" /\ FailBeforeCommit(code)
           \/ phase = "stream" /\ FailAfterCommit(code)
    PROVE  Settled' /\ phase' = "returned"
<1>1. phase' = "returned" /\ risk' = code /\ Running /\ UNCHANGED sent
    BY DEF FailBeforeCommit, FailAfterCommit, Return, Running, upstreamVars
<1>2. Relayed
    BY <1>1, RunningRelays
<1>2a. Caused'
    BY <1>1 DEF Caused, upstreamVars
<1>2b. code # "CLIENT_DISCONNECT" => code \in Failures
    OBVIOUS
<1>3. CASE code = "CLIENT_DISCONNECT"
    <2>1. UNCHANGED <<out, http>> /\ http # 555
        BY <1>3 DEF FailBeforeCommit, FailAfterCommit, IInv, Uncommitted
    <2>2. Relayed'
        BY <1>1, <1>2, <2>1 DEF Relayed
    <2> QED
        BY <1>1, <1>3, <2>1, <2>2, GaveUp
<1>4. CASE code # "CLIENT_DISCONNECT" /\ phase = "initial"
    <2>1. out' = <<>> /\ http' = 555
        BY <1>4 DEF FailBeforeCommit, IInv, Uncommitted
    <2> QED
        BY <1>1, <1>2a, <1>2b, <1>4, <2>1, Refused
<1>5. CASE code # "CLIENT_DISCONNECT" /\ phase = "stream"
    <2>1. out' = Append(out, "logical555") /\ http' = 200
        BY <1>5 DEF FailAfterCommit, IInv, Uncommitted
    <2> QED
        BY <1>1, <1>2, <1>2a, <1>2b, <1>5, <2>1, Broken DEF IInv
<1> QED
    BY <1>1, <1>3, <1>4, <1>5

-----------------------------------------------------------------------------
(* The cases of the handler's select statements. *)

\* What was written so far is a part of the stream, and a write that fails ends
\* the relay there.
LEMMA WriteRelays ==
    ASSUME IInv, Running, UNCHANGED <<upstreamVars, client>>, NEW events \in Seq(EventKinds),
           NEW next, WriteThen(events, next),
           Len(out) + Len(events) <= Len(sent),
           \A i \in DOMAIN events :
               events[i] = sent[Len(out) + i] /\ events[i] # "error"
    PROVE  /\ Relayed' /\ http' = 200
           /\ \A i \in DOMAIN out' : out'[i] \in EventKinds \ {"error"}
           /\ \/ /\ Len(out') = Len(out) + Len(events)
                 /\ phase' = next /\ risk' = NoRisk
              \/ phase' = "returned" /\ Settled'
<1>0. TypeOK /\ Relayed /\ UNCHANGED <<sent, client>> /\ risk = NoRisk
    BY RunningRelays DEF IInv, upstreamVars, Uncommitted
<1>1. /\ out \in Seq(EventKinds \cup {"logical555"})
      /\ events \in Seq(EventKinds \cup {"logical555"})
      /\ Len(events) \in Nat /\ DOMAIN events = 1 .. Len(events)
      /\ \A i \in DOMAIN events : events[i] \in EventKinds
    BY <1>0 DEF TypeOK
<1>2. /\ http' = 200 /\ out' \in Seq(EventKinds \cup {"logical555"})
      /\ Len(out') \in Nat /\ Len(out) <= Len(out')
      /\ Len(out') <= Len(out) + Len(events)
      /\ \A i \in 1 .. Len(out') :
            out'[i] = IF i <= Len(out) THEN out[i] ELSE events[i - Len(out)]
      /\ \/ /\ Len(out') = Len(out) + Len(events)
            /\ phase' = next /\ risk' = risk
         \/ /\ client = "gone" /\ phase' = "returned"
            /\ risk' = "CLIENT_DISCONNECT"
    BY <1>1, WriteAppends
<1>3. ASSUME NEW i \in DOMAIN out'
      PROVE  /\ i \in DOMAIN sent /\ out'[i] = sent[i]
             /\ out'[i] \in EventKinds \ {"error"} /\ out'[i] # "logical555"
    <2>1. i \in 1 .. Len(out') /\ Len(out) \in Nat /\ DOMAIN out = 1 .. Len(out)
          /\ Len(sent) \in Nat /\ DOMAIN sent = 1 .. Len(sent)
        BY <1>0, <1>2, <1>3, Sizes
    <2>2. CASE i <= Len(out)
        <3>1. i \in DOMAIN out /\ out'[i] = out[i] /\ out[i] \in EventKinds \cup {"logical555"}
            BY <1>1, <1>2, <2>1, <2>2
        <3> QED
            BY <1>0, <3>1 DEF Relayed
    <2>3. CASE i > Len(out)
        <3>1. PICK k \in Nat : k = i - Len(out)
            BY <2>1, <2>3
        <3>2. k \in DOMAIN events /\ i = Len(out) + k /\ out'[i] = events[k]
            <4>1. Len(out') <= Len(out) + Len(events) /\ Len(out') \in Nat
                BY <1>2
            <4>2. k \in 1 .. Len(events) /\ i = Len(out) + k /\ ~(i <= Len(out))
                BY <1>1, <2>1, <2>3, <3>1, <4>1
            <4>3. out'[i] = events[i - Len(out)]
                BY <1>2, <2>1, <4>2
            <4> QED
                BY <1>1, <3>1, <4>2, <4>3
        <3>3. i \in DOMAIN sent
            BY <1>1, <2>1, <3>2
        <3>4. "logical555" \notin EventKinds
            BY DEF EventKinds
        <3> QED
            BY <1>1, <3>2, <3>3, <3>4
    <2> QED
        BY <2>1, <2>2, <2>3
<1>4. Relayed'
    BY <1>0, <1>3 DEF Relayed
<1> QED
    BY <1>0, <1>2, <1>3, <1>4, GaveUp

\* The events held back are the first of the stream, and none is an error.
LEMMA PendingRelays ==
    ASSUME IInv, phase = "initial"
    PROVE  /\ pending \in Seq(EventKinds) /\ out = <<>> /\ Len(out) = 0 /\ Running
           /\ Len(out) + Len(pending) <= Len(sent)
           /\ \A i \in DOMAIN pending : pending[i] = sent[Len(out) + i] /\ pending[i] # "error"
<1>1. /\ pending \in Seq(EventKinds) /\ out = <<>> /\ Len(out) = 0 /\ Running
      /\ \A i \in DOMAIN pending : pending[i] # "error"
    BY DEF IInv, TypeOK, Uncommitted, Running, Meaningful
<1>2. Taken = pending
    BY DEF Taken
<1>3. /\ \A i \in DOMAIN pending : pending[i] = sent[i]
      /\ Len(pending) + InChannel <= Len(sent)
    BY <1>1, <1>2 DEF IInv, Flow
<1>4. Len(pending) <= Len(sent)
    BY <1>3, Sizes DEF IInv
<1> QED
    BY <1>1, <1>3, <1>4, Sizes DEF IInv

\* The relay goes on with what it had, or with the event of the channel.
LEMMA ContinueKeeps ==
    ASSUME IInv, Running, Running', UNCHANGED <<upstreamVars, client, ctx, reader, held>>,
           TypeOK', Uncommitted',
           \/ results' = results /\ Len(Taken') = Len(Taken)
           \/ results' = <<>> /\ InChannel = 1 /\ Len(Taken') = Len(Taken) + 1,
           \A i \in DOMAIN Taken' : Taken'[i] = sent[i]
    PROVE  IInv'
<1>0. UNCHANGED <<sent, body, wire, InHand>> /\ TypeOK
    BY DEF upstreamVars, InHand, IInv
<1>1. /\ Len(Taken) + InChannel <= Len(sent)
      /\ InChannel = 1 => results[1] = sent[Len(Taken) + 1]
      /\ InHand = 1 => held = sent[Len(Taken) + InChannel + 1]
      /\ reader # "exited" =>
            /\ Len(Taken) + InChannel + InHand + Len(body) = Len(sent)
            /\ \A i \in DOMAIN body : body[i] = sent[Len(sent) - Len(body) + i]
    BY DEF IInv, Flow
<1>2. CASE results' = results /\ Len(Taken') = Len(Taken)
    <2>1. InChannel' = InChannel
        BY <1>2 DEF InChannel
    <2>2. Flow'
        BY <1>0, <1>1, <1>2, <2>1 DEF Flow
    <2>3. EndInv'
        BY <1>0, <1>2 DEF IInv, EndInv
    <2>4. CanceledByClient' /\ Settled'
        BY DEF IInv, CanceledByClient, Settled, Returned, Running
    <2> QED
        BY <2>2, <2>3, <2>4 DEF IInv
<1>3. CASE results' = <<>> /\ InChannel = 1 /\ Len(Taken') = Len(Taken) + 1
    <2>1. InChannel' = 0
        BY <1>3 DEF InChannel
    <2>2. /\ Len(Taken') + InChannel' <= Len(sent)
          /\ Len(Taken') + InChannel' + 1 = Len(Taken) + InChannel + 1
          /\ reader # "exited" => Len(Taken') + InChannel' + InHand + Len(body) = Len(sent)
        BY <1>0, <1>1, <1>3, <2>1, Sizes
    <2>3. Flow'
        BY <1>0, <1>1, <2>1, <2>2 DEF Flow
    <2>4. EndInv'
        <3>1. results # <<>> /\ results[1] \in EventKinds
            BY <1>3 DEF InChannel
        <3>2. results[1] \notin EndKinds
            BY <3>1, EndsAreNoEvents DEF EndKinds
        <3> QED
            BY <1>0, <1>3, <3>2 DEF IInv, EndInv
    <2>5. CanceledByClient' /\ Settled'
        BY DEF IInv, CanceledByClient, Settled, Returned, Running
    <2> QED
        BY <2>3, <2>4, <2>5 DEF IInv
<1> QED
    BY <1>2, <1>3

\* The first heartbeat commits what was held back.
LEMMA HeartbeatStep == ASSUME IInv, FirstHeartbeat \/ HeartbeatFails PROVE IInv'
<1>0. TypeOK'
    BY HandlerTypes DEF IInv, Handler
<1>1. CASE FirstHeartbeat
    <2>1. /\ phase = "initial" /\ WriteThen(pending, "stream")
          /\ UNCHANGED <<upstreamVars, client, ctx, reader, held, results, pending>>
        BY <1>1 DEF FirstHeartbeat, readerVars
    <2>2. /\ Relayed' /\ http' = 200
          /\ \A i \in DOMAIN out' : out'[i] \in EventKinds \ {"error"}
          /\ \/ /\ Len(out') = Len(out) + Len(pending)
                /\ phase' = "stream" /\ risk' = NoRisk
             \/ phase' = "returned" /\ Settled'
        BY <2>1, PendingRelays, WriteRelays
    <2>3. Running
        BY <2>1 DEF Running
    <2>4. CASE phase' = "returned" /\ Settled'
        BY <1>0, <2>1, <2>3, <2>4, ReturnKeeps
    <2>5. CASE /\ Len(out') = Len(out) + Len(pending)
               /\ phase' = "stream" /\ risk' = NoRisk
        <3>1. Running' /\ Taken' = out' /\ Taken = pending
            BY <2>1, <2>5 DEF Running, Taken
        <3>2. Len(Taken') = Len(Taken)
            BY <2>1, <2>5, <3>1, PendingRelays, Sizes DEF IInv
        <3>3. Uncommitted'
            BY <2>2, <2>5 DEF Uncommitted
        <3>4. \A i \in DOMAIN Taken' : Taken'[i] = sent[i]
            BY <2>1, <2>2, <3>1 DEF Relayed, upstreamVars
        <3> QED
            BY <1>0, <2>1, <2>3, <3>1, <3>2, <3>3, <3>4, ContinueKeeps
    <2> QED
        BY <2>2, <2>4, <2>5
<1>2. CASE HeartbeatFails
    <2>1. /\ phase = "stream" /\ client = "gone" /\ phase' = "returned" /\ Running
          /\ risk' = "CLIENT_DISCONNECT"
          /\ UNCHANGED <<upstreamVars, client, ctx, reader, held, results, http, out>>
        BY <1>2 DEF HeartbeatFails, Return, readerVars, Running
    <2>2. Relayed'
        BY <2>1, RunningRelays DEF Relayed, upstreamVars
    <2>3. http' # 555
        BY <2>1 DEF IInv, Uncommitted
    <2>4. Settled'
        BY <2>1, <2>2, <2>3, GaveUp
    <2> QED
        BY <1>0, <2>1, <2>4, ReturnKeeps
<1> QED
    BY <1>1, <1>2

\* The end of the context is a failure of the phase it finds.
LEMMA ContextStep == ASSUME IInv, ContextDone PROVE IInv'
<1>0. TypeOK'
    BY HandlerTypes DEF IInv, Handler
<1>1. /\ ctx # "live" /\ Running
      /\ UNCHANGED <<upstreamVars, client, ctx, reader, held, results>>
      /\ \/ phase = "initial" /\ FailBeforeCommit(Classify)
         \/ phase = "stream" /\ FailAfterCommit(Classify)
    BY DEF ContextDone, readerVars, Running
<1>2. PICK code : code = Classify
    OBVIOUS
<1>3. /\ code \in Failures \cup {"CLIENT_DISCONNECT"}
      /\ code = "CLIENT_DISCONNECT" => client = "gone"
      /\ code # "UPSTREAM_STREAM_INTERRUPTED" /\ code # "UPSTREAM_STREAM_ERROR"
      /\ code = "UPSTREAM_STREAM_TIMEOUT" => ctx' = "timeout"
    BY <1>1, <1>2, ClassifyBlames
<1>4. Settled' /\ phase' = "returned"
    BY <1>1, <1>2, <1>3, FailSettles
<1> QED
    BY <1>0, <1>1, <1>4, ReturnKeeps

\* A channel that is closed and empty, with the relay still running, is one whose
\* reader left for the context.
LEMMA ClosedStep == ASSUME IInv, ResultsClosed PROVE IInv'
<1>0. TypeOK'
    BY HandlerTypes DEF IInv, Handler
<1>1. /\ reader = "exited" /\ results = <<>> /\ Running
      /\ UNCHANGED <<upstreamVars, client, ctx, reader, held, results, pending>>
    BY DEF ResultsClosed, readerVars, Running
<1>2. ctx' # "live" /\ reader' = "exited"
    BY <1>1 DEF IInv, EndInv
<1>3. CASE phase = "initial" /\ WriteThen(pending, "returned")
    <2>1. /\ Relayed' /\ http' = 200
          /\ \/ phase' = "returned" /\ risk' = NoRisk
             \/ phase' = "returned" /\ Settled'
        BY <1>1, <1>3, PendingRelays, WriteRelays
    <2>2. Settled' /\ phase' = "returned"
        BY <1>2, <2>1, Accepted
    <2> QED
        BY <1>0, <1>1, <2>2, ReturnKeeps
<1>4. CASE phase = "stream" /\ Return(NoRisk) /\ UNCHANGED <<http, out>>
    <2>1. phase' = "returned" /\ risk' = NoRisk
        BY <1>4 DEF Return
    <2>2. Relayed' /\ http' # 555
        BY <1>1, <1>4, RunningRelays DEF Relayed, upstreamVars, IInv, Uncommitted
    <2>3. Settled'
        BY <1>2, <2>1, <2>2, Accepted
    <2> QED
        BY <1>0, <1>1, <2>1, <2>3, ReturnKeeps
<1> QED
    BY <1>3, <1>4 DEF ResultsClosed

\* A read error is a failure, unless a terminal event was relayed.
LEMMA ErrStep == ASSUME IInv, ResultErr PROVE IInv'
<1>0. TypeOK'
    BY HandlerTypes DEF IInv, Handler
<1>1. /\ results' = <<>> /\ Running
      /\ UNCHANGED <<upstreamVars, client, ctx, reader, held, pending, completed>>
      /\ wire = "reset" \/ ctx # "live"
    <2>1. results # <<>> /\ results[1] = "err"
        BY DEF ResultErr
    <2> QED
        BY <2>1 DEF ResultErr, Running, IInv, EndInv
<1>2. CASE /\ ~completed
           /\ \/ phase = "initial" /\ FailBeforeCommit(Classify)
              \/ phase = "stream" /\ FailAfterCommit(Classify)
    <2>1. PICK code : code = Classify
        OBVIOUS
    <2>2. /\ code \in Failures \cup {"CLIENT_DISCONNECT"}
          /\ code = "CLIENT_DISCONNECT" => client = "gone"
          /\ code = "UPSTREAM_STREAM_TIMEOUT" => ctx' = "timeout"
          /\ code # "UPSTREAM_STREAM_ERROR"
          /\ code = "UPSTREAM_STREAM_INTERRUPTED" => wire = "reset"
        BY <1>1, <2>1, ClassifyBlames
    <2>3. Settled' /\ phase' = "returned"
        BY <1>1, <1>2, <2>1, <2>2, FailSettles
    <2> QED
        BY <1>0, <1>1, <2>3, ReturnKeeps
<1>3. CASE phase = "stream" /\ completed /\ Return(NoRisk) /\ UNCHANGED <<http, out>>
    <2>1. phase' = "returned" /\ risk' = NoRisk
        BY <1>3 DEF Return
    <2>2. Relayed' /\ http' # 555
        BY <1>1, <1>3, RunningRelays DEF Relayed, upstreamVars, IInv, Uncommitted
    <2>3. Settled'
        BY <1>1, <1>3, <2>1, <2>2, Accepted
    <2> QED
        BY <1>0, <1>1, <2>1, <2>3, ReturnKeeps
<1>4. phase = "initial" => ~completed
    BY DEF IInv, Uncommitted
<1> QED
    BY <1>2, <1>3, <1>4 DEF ResultErr, ErrAfterCommit

\* A clean end is behind every event: all were relayed, or none mattered.
LEMMA EndStep == ASSUME IInv, ResultEnd PROVE IInv'
<1>0. TypeOK' /\ TypeOK
    BY HandlerTypes DEF IInv, Handler
<1>1. /\ results = <<"eof">> /\ results' = <<>> /\ Running /\ http' = 200
      /\ phase' = "returned" /\ risk' = NoRisk
      /\ UNCHANGED <<upstreamVars, client, ctx, reader, held, out>>
    BY DEF ResultEnd, Running, Return
<1>2. results # <<>> /\ results[1] = "eof"
    BY <1>1
<1>3. wire = "eof" /\ body = <<>> /\ Len(Taken) = Len(sent)
    BY <1>1, <1>2 DEF IInv, EndInv
<1>4. \A i \in DOMAIN Taken : Taken[i] = sent[i]
    BY <1>1 DEF IInv, Flow
<1>5. Relayed'
    BY <1>1, RunningRelays DEF Relayed, upstreamVars
<1>6. \/ out = sent
      \/ out = <<>> /\ \A i \in DOMAIN sent : ~Meaningful(sent[i])
    <2>1. CASE phase = "stream"
        <3>1. Taken = out
            BY <2>1 DEF Taken
        <3>2. \A i \in 1 .. Len(out) : out[i] = sent[i]
            BY <1>0, <1>4, <3>1, Sizes
        <3>3. out \in Seq(EventKinds \cup {"logical555"}) /\ sent \in Seq(EventKinds)
              /\ Len(out) = Len(sent)
            BY <1>0, <1>3, <3>1 DEF TypeOK
        <3> QED
            BY <3>2, <3>3, SeqEqual
    <2>2. CASE phase = "initial"
        <3>1. Taken = pending /\ out = <<>> /\ \A i \in DOMAIN pending : ~Meaningful(pending[i])
            BY <2>2 DEF Taken, IInv, Uncommitted
        <3>2. DOMAIN sent = DOMAIN pending
            BY <1>0, <1>3, <3>1, Sizes
        <3> QED
            BY <1>4, <3>1, <3>2
    <2> QED
        BY <1>1, <2>1, <2>2 DEF Running
<1>7. CleanEnd'
    BY <1>1, <1>3, <1>6 DEF upstreamVars, CleanEnd, Meaningful
<1>8. Settled'
    BY <1>1, <1>5, <1>7, Accepted
<1> QED
    BY <1>0, <1>1, <1>8, ReturnKeeps

\* An event is held back, relayed, or an error that ends the relay.
LEMMA EventStep == ASSUME IInv, ResultEvent PROVE IInv'
<1>0. TypeOK' /\ TypeOK
    BY HandlerTypes DEF IInv, Handler
<1>1. PICK event \in EventKinds : event = results[1]
    BY DEF ResultEvent
<1>2. /\ results # <<>> /\ results' = <<>> /\ InChannel = 1 /\ Running
      /\ completed' = (completed \/ event = "done")
      /\ UNCHANGED <<upstreamVars, client, ctx, reader, held>>
    BY <1>1 DEF ResultEvent, Observe, InChannel, Running
<1>3. UNCHANGED sent
    BY <1>2 DEF upstreamVars
<1>4. /\ event = sent[Len(Taken) + 1] /\ Len(Taken) + 1 <= Len(sent)
      /\ \A i \in DOMAIN Taken : Taken[i] = sent[i]
    BY <1>1, <1>2 DEF IInv, Flow
<1>5. CASE /\ event = "error"
           /\ \/ phase = "initial" /\ FailBeforeCommit("UPSTREAM_STREAM_ERROR")
              \/ phase = "stream" /\ FailAfterCommit("UPSTREAM_STREAM_ERROR")
    <2>1. Len(Taken) + 1 \in DOMAIN sent
        BY <1>0, <1>4, Sizes
    <2>2. \E i \in DOMAIN sent : sent[i] = "error"
        BY <1>4, <1>5, <2>1
    <2>3. Settled' /\ phase' = "returned"
        BY <1>2, <1>5, <2>2, FailSettles DEF Failures
    <2> QED
        BY <1>0, <1>2, <2>3, ReturnKeeps
<1>6. CASE phase = "initial" /\ event # "error" /\ pending' = Append(pending, event)
           /\ IF MustCommit(Append(pending, event))
                 THEN WriteThen(Append(pending, event), "stream")
                 ELSE UNCHANGED <<phase, risk, http, out>>
    <2>1. PICK held1 : held1 = Append(pending, event)
        OBVIOUS
    <2>2. /\ held1 \in Seq(EventKinds) /\ Len(held1) = Len(pending) + 1
          /\ DOMAIN held1 = 1 .. (Len(pending) + 1)
          /\ \A i \in 1 .. Len(pending) : held1[i] = pending[i]
          /\ held1[Len(pending) + 1] = event
        BY <1>0, <2>1 DEF TypeOK
    <2>3. /\ out = <<>> /\ Len(out) = 0 /\ Taken = pending
          /\ \A i \in DOMAIN pending : pending[i] # "error"
        BY <1>6, PendingRelays DEF Taken
    <2>4. \A i \in DOMAIN held1 : held1[i] = sent[i] /\ held1[i] # "error"
        <3> SUFFICES ASSUME NEW i \in DOMAIN held1
                     PROVE  held1[i] = sent[i] /\ held1[i] # "error"
            OBVIOUS
        <3>1. CASE i = Len(pending) + 1
            BY <1>4, <1>6, <2>2, <2>3, <3>1
        <3>2. CASE i \in 1 .. Len(pending)
            BY <1>0, <1>4, <2>2, <2>3, <3>2, Sizes
        <3> QED
            BY <1>0, <2>2, <3>1, <3>2, Sizes
    <2>5. CASE MustCommit(held1)
        <3>1. WriteThen(held1, "stream")
            BY <1>6, <2>1, <2>5
        <3>2. Len(out) + Len(held1) <= Len(sent)
            BY <1>0, <1>4, <2>2, <2>3, Sizes
        <3>3. \A i \in DOMAIN held1 : held1[i] = sent[Len(out) + i] /\ held1[i] # "error"
            <4>1. \A i \in DOMAIN held1 : Len(out) + i = i
                BY <1>0, <2>2, <2>3, Sizes
            <4> QED
                BY <2>4, <4>1
        <3>4. /\ Relayed' /\ http' = 200
              /\ \A i \in DOMAIN out' : out'[i] \in EventKinds \ {"error"}
              /\ \/ /\ Len(out') = Len(out) + Len(held1)
                    /\ phase' = "stream" /\ risk' = NoRisk
                 \/ phase' = "returned" /\ Settled'
            BY <1>2, <2>2, <3>1, <3>2, <3>3, WriteRelays
        <3>5. CASE phase' = "returned" /\ Settled'
            BY <1>0, <1>2, <3>5, ReturnKeeps
        <3>6. CASE /\ Len(out') = Len(out) + Len(held1)
                   /\ phase' = "stream" /\ risk' = NoRisk
            <4>1. Running' /\ Taken' = out'
                BY <3>6 DEF Running, Taken
            <4>2. Len(Taken') = Len(Taken) + 1
                BY <1>0, <2>2, <2>3, <3>6, <4>1, Sizes
            <4>3. Uncommitted'
                BY <3>4, <3>6 DEF Uncommitted
            <4>4. \A i \in DOMAIN Taken' : Taken'[i] = sent[i]
                BY <1>3, <3>4, <4>1 DEF Relayed
            <4> QED
                BY <1>0, <1>2, <4>1, <4>2, <4>3, <4>4, ContinueKeeps
        <3> QED
            BY <3>4, <3>5, <3>6
    <2>6. CASE ~MustCommit(held1)
        <3>1. UNCHANGED <<phase, risk, http, out>> /\ pending' = held1
            BY <1>6, <2>1, <2>6
        <3>2. \A i \in DOMAIN held1 : ~Meaningful(held1[i])
            BY <2>6 DEF MustCommit
        <3>3. ~Meaningful(event)
            BY <1>0, <2>2, <3>2, Sizes
        <3>4. event # "done"
            BY <3>3 DEF Meaningful
        <3>5. Running' /\ Taken' = held1
            BY <1>6, <3>1 DEF Running, Taken
        <3>6. ~completed' /\ http' = 0 /\ out' = <<>> /\ risk' = NoRisk /\ phase' = "initial"
            BY <1>2, <1>6, <3>1, <3>4 DEF IInv, Uncommitted
        <3>7. Uncommitted'
            BY <3>1, <3>2, <3>6 DEF Uncommitted, Meaningful
        <3>8. Len(Taken') = Len(Taken) + 1 /\ \A i \in DOMAIN Taken' : Taken'[i] = sent[i]
            BY <2>2, <2>3, <2>4, <3>5
        <3> QED
            BY <1>0, <1>2, <3>5, <3>7, <3>8, ContinueKeeps
    <2> QED
        BY <2>5, <2>6
<1>7. CASE phase = "stream" /\ event # "error" /\ WriteThen(<<event>>, "stream")
    <2>1. PICK one : one = <<event>>
        OBVIOUS
    <2>2. one \in Seq(EventKinds) /\ Len(one) = 1 /\ DOMAIN one = {1} /\ one[1] = event
        BY <2>1
    <2>3. Taken = out
        BY <1>7 DEF Taken
    <2>4. /\ Len(out) + Len(one) <= Len(sent)
          /\ \A i \in DOMAIN one : one[i] = sent[Len(out) + i] /\ one[i] # "error"
        BY <1>4, <1>7, <2>2, <2>3
    <2>5. /\ Relayed' /\ http' = 200
          /\ \A i \in DOMAIN out' : out'[i] \in EventKinds \ {"error"}
          /\ \/ /\ Len(out') = Len(out) + Len(one)
                /\ phase' = "stream" /\ risk' = NoRisk
             \/ phase' = "returned" /\ Settled'
        BY <1>2, <1>7, <2>1, <2>2, <2>4, WriteRelays
    <2>6. CASE phase' = "returned" /\ Settled'
        BY <1>0, <1>2, <2>6, ReturnKeeps
    <2>7. CASE /\ Len(out') = Len(out) + Len(one)
               /\ phase' = "stream" /\ risk' = NoRisk
        <3>1. Running' /\ Taken' = out'
            BY <2>7 DEF Running, Taken
        <3>2. Len(Taken') = Len(Taken) + 1
            BY <2>2, <2>3, <2>7, <3>1
        <3>3. Uncommitted'
            BY <2>5, <2>7 DEF Uncommitted
        <3>4. \A i \in DOMAIN Taken' : Taken'[i] = sent[i]
            BY <1>3, <2>5, <3>1 DEF Relayed
        <3> QED
            BY <1>0, <1>2, <3>1, <3>2, <3>3, <3>4, ContinueKeeps
    <2> QED
        BY <2>5, <2>6, <2>7
<1> QED
    BY <1>1, <1>5, <1>6, <1>7 DEF ResultEvent

\* The deferred cancel ends the context, and changes nothing that was returned.
LEMMA UnwindStep == ASSUME IInv, Unwind PROVE IInv'
<1>0. TypeOK'
    BY HandlerTypes DEF IInv, Handler
<1>1. /\ phase = "returned" /\ phase' = "unwound"
      /\ UNCHANGED <<upstreamVars, client, readerVars, pending, http, out, completed, risk>>
    BY DEF Unwind
<1>2. ~Running' /\ Returned /\ UNCHANGED LogicalErrors
    BY <1>1 DEF Running, Returned, LogicalErrors
<1>3. Flow' /\ Uncommitted' /\ CanceledByClient'
    BY <1>1, <1>2 DEF Flow, Uncommitted, CanceledByClient
<1>4. EndInv'
    BY <1>1, <1>2 DEF IInv, EndInv, Unwind, upstreamVars, readerVars
<1>5. ctx = "timeout" => ctx' = "timeout"
    BY DEF Unwind
<1>6. (CleanEnd' <=> CleanEnd) /\ (ctx # "live" => ctx' # "live")
    BY <1>1 DEF Unwind, CleanEnd, Meaningful, upstreamVars
<1>7. OutcomeFollowsTheStream'
    BY <1>1, <1>2, <1>5, <1>6
    DEF IInv, Settled, OutcomeFollowsTheStream, upstreamVars, readerVars
<1>8. Settled'
    BY <1>1, <1>2, <1>7 DEF IInv, Settled, FailureSurfacesOnce, DisconnectBlamesTheClient,
                            Returned, upstreamVars
<1> QED
    BY <1>0, <1>3, <1>4, <1>8 DEF IInv

-----------------------------------------------------------------------------
(* The theorems. *)

\* Every step of the two goroutines and of their environment keeps IInv.
LEMMA Invariance == Spec => []IInv
<1>1. Init => IInv
    BY TypeInit, FlowInit DEF IInv
<1>2. IInv /\ [Next]_vars => IInv'
    <2> SUFFICES ASSUME IInv, [Next]_vars PROVE IInv'
        OBVIOUS
    <2>1. CASE Outside
        BY <2>1, OutsideStep
    <2>2. CASE Handler
        BY <2>2, HeartbeatStep, ContextStep, ClosedStep, ErrStep, EndStep, EventStep,
           UnwindStep DEF Handler
    <2> QED
        BY <2>1, <2>2 DEF Next, Outside
<1> QED
    BY <1>1, <1>2, PTL DEF Spec

\* While the relay runs the properties of its return hold of what it has written.
LEMMA RunningIsFine ==
    ASSUME IInv, Running
    PROVE  RelaysAPrefix /\ FailureSurfacesOnce /\ OutcomeFollowsTheStream
<1>1. Relayed /\ ~Returned
    BY RunningRelays DEF Running, Returned
<1>2. LogicalErrors = {} /\ http # 555 /\ phase # "returned"
    BY <1>1 DEF Relayed, LogicalErrors, IInv, Uncommitted, Running
<1> QED
    BY <1>1, <1>2
    DEF RelaysAPrefix, FailureSurfacesOnce, DisconnectBlamesTheClient,
        OutcomeFollowsTheStream, Relayed, IInv

\* The invariant gives the properties.
LEMMA InvariantIsEnough ==
    IInv => RelaysAPrefix /\ FailureSurfacesOnce /\ OutcomeFollowsTheStream
<1> SUFFICES ASSUME IInv
             PROVE  RelaysAPrefix /\ FailureSurfacesOnce /\ OutcomeFollowsTheStream
    OBVIOUS
<1>1. CASE Running
    BY <1>1, RunningIsFine
<1>2. CASE Returned
    BY <1>2 DEF IInv, Settled, RelaysAPrefix
<1> QED
    BY <1>1, <1>2 DEF IInv, TypeOK, Running, Returned

\* proxySSE relays a prefix of the upstream's stream, whatever mixture of pending
\* flush, heartbeat commit and direct relay wrote it, for streams of any length.
THEOREM ClientReadsAPrefix == Spec => []RelaysAPrefix
<1> QED
    BY Invariance, InvariantIsEnough, PTL

\* A failure reaches the client as a 555 or as one logical 555 at the end, never
\* as both or none, and the client is blamed only if it left.
THEOREM FailuresSurfaceOnce == Spec => []FailureSurfacesOnce
<1> QED
    BY Invariance, InvariantIsEnough, PTL

\* A success of proxySSE was seen to its terminal event or its clean end, unless the
\* reader gave up with a cancelled context, and a timeout, an error of the upstream
\* and an interruption have the cause they name.
THEOREM OutcomesFollowTheStream == Spec => []OutcomeFollowsTheStream
<1> QED
    BY Invariance, InvariantIsEnough, PTL
=============================================================================
