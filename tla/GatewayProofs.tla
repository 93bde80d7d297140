---------------------------- MODULE GatewayProofs ----------------------------
(***************************************************************************)
(* SlotsAreHeld, NoOrphanedUpstream and TraceTellsTheAnswer of Gateway for *)
(* any set of requests and any limits, and that no request goes round in   *)
(* circles.                                                                *)
(***************************************************************************)
EXTENDS Gateway, FiniteSetTheorems, SequenceTheorems, TLAPS

\* The stages of ServeHTTP, by what a request has behind it.
Waiting == {"idle", "check", "global"}
NoLarge == {"length"}
Screened == {"read", "audit", "present", "slot"}
Calling == {"build", "do", "sse", "prefix", "whole", "copy"}
Over == {"unwind", "done"}

\* Counters: each is the number of requests that have its release deferred.
Counted == \A slot \in Slots : used[slot] = Cardinality(Holders(slot))

\* A release is deferred at most once, and at its stage.
Deferrals ==
    \A r \in Requests :
        /\ \A i, j \in DOMAIN defers[r] :
              defers[r][i] = defers[r][j] /\ defers[r][i] \in Slots => i = j
        /\ pc[r] \in Waiting \cup {"done"} => defers[r] = <<>>
        /\ pc[r] \in NoLarge => ~Has(r, "large")
        /\ pc[r] \in NoLarge \cup Screened => ~Has(r, "route")
        /\ pc[r] \in NoLarge \cup Screened \cup Calling => Has(r, "global")
        /\ pc[r] \in Calling => Has(r, "route")

\* While the call is open, the next deferred call is one that ends it.
Covered ==
    \A r \in Requests :
        upstream[r] = "open" =>
            /\ Has(r, "route") /\ Has(r, "global")
            /\ NextDeferred(r) \in {"cancel", "body"}

\* The cancellation and the body of a call are deferred only once it has begun.
Begun ==
    \A r \in Requests :
        pc[r] = "do" \/ Has(r, "cancel") \/ Has(r, "body") => upstream[r] # "none"

\* The upstream is called after the audit, for a caller who was still there; and
\* a caller who has left does not come back.
Called(r) ==
    /\ verdict[r].client = "gone" => client[r] = "gone"
    /\ pc[r] = "present" => verdict[r].decision = "allow"
    /\ pc[r] \in {"slot"} \cup Calling =>
          verdict[r] = [decision |-> "allow", client |-> "up"]
    /\ pc[r] \in Waiting \cup NoLarge \cup Screened \cup {"build"} =>
          upstream[r] = "none"
    /\ upstream[r] # "none" =>
          verdict[r] = [decision |-> "allow", client |-> "up"]

CalledForACaller == \A r \in Requests : Called(r)

Settled(r) ==
    \/ /\ Len(traces[r]) = 1
       /\ \/ reply[r] = <<traces[r][1].status>>
          \/ reply[r] = <<>> /\ traces[r][1].code = "CLIENT_DISCONNECT"
    \/ traces[r] = <<>> /\ reply[r] = <<405>>

\* Nothing is recorded or written before the end, but the status line of a
\* buffered answer; requestContext is cancelled before the end only by the caller.
Record(r) ==
    /\ pc[r] \notin Over => traces[r] = <<>>
    /\ pc[r] \notin Over \cup {"whole", "copy"} => reply[r] = <<>>
    /\ pc[r] \in {"whole", "copy"} => reply[r] = <<200>>
    /\ pc[r] \in Over => Settled(r)
    /\ pc[r] \notin Over /\ cause[r] = "canceled" => client[r] = "gone"

Recorded == \A r \in Requests : Record(r)

IInv ==
    /\ TypeOK /\ Deferrals /\ Counted
    /\ Covered /\ Begun /\ CalledForACaller
    /\ Recorded

USE GatewayAssumption

Calls == Slots \cup {"cancel", "body"}

-----------------------------------------------------------------------------
(* The stack of deferred calls. *)

\* defer adds one call on top.
LEMMA Pushed ==
    ASSUME TypeOK, NEW r \in Requests, NEW call \in Calls,
           defers' = [defers EXCEPT ![r] = Append(@, call)]
    PROVE  /\ defers' \in [Requests -> Seq(Calls)]
           /\ \A q \in Requests \ {r} : defers'[q] = defers[q]
           /\ Len(defers'[r]) = Len(defers[r]) + 1
           /\ defers'[r][Len(defers[r]) + 1] = call
           /\ \A i \in DOMAIN defers[r] : defers'[r][i] = defers[r][i]
           /\ NextDeferred(r)' = call
<1>1. defers \in [Requests -> Seq(Calls)] /\ defers[r] \in Seq(Calls)
    BY DEF TypeOK, Calls
<1>2. defers'[r] = Append(defers[r], call)
    BY <1>1
<1>3. Append(defers[r], call) \in Seq(Calls)
    BY <1>1
<1> QED
    BY <1>1, <1>2, <1>3 DEF NextDeferred

\* A defer statement adds one call to its own request and leaves the others alone.
LEMMA PushedHas ==
    ASSUME TypeOK, NEW r \in Requests, NEW call \in Calls,
           defers' = [defers EXCEPT ![r] = Append(@, call)]
    PROVE  /\ \A c : Has(r, c)' <=> Has(r, c) \/ c = call
           /\ \A q \in Requests \ {r} : \A c : Has(q, c)' <=> Has(q, c)
<1>1. /\ defers' \in [Requests -> Seq(Calls)]
      /\ \A q \in Requests \ {r} : defers'[q] = defers[q]
      /\ Len(defers'[r]) = Len(defers[r]) + 1
      /\ defers'[r][Len(defers[r]) + 1] = call
      /\ \A i \in DOMAIN defers[r] : defers'[r][i] = defers[r][i]
    BY Pushed
<1>2. defers[r] \in Seq(Calls) /\ defers'[r] \in Seq(Calls)
    BY <1>1 DEF TypeOK, Calls
<1>3. /\ DOMAIN defers[r] = 1 .. Len(defers[r]) /\ Len(defers[r]) \in Nat
      /\ DOMAIN defers'[r] = 1 .. (Len(defers[r]) + 1)
    BY <1>1, <1>2
<1>4. ASSUME NEW c PROVE Has(r, c)' <=> Has(r, c) \/ c = call
    BY <1>1, <1>3 DEF Has
<1> QED
    BY <1>1, <1>4 DEF Has

\* The unwinding takes the call on top.
LEMMA Popped ==
    ASSUME TypeOK, NEW r \in Requests, defers[r] # <<>>,
           defers' = [defers EXCEPT ![r] = SubSeq(@, 1, Len(@) - 1)]
    PROVE  /\ defers' \in [Requests -> Seq(Calls)]
           /\ \A q \in Requests \ {r} : defers'[q] = defers[q]
           /\ Len(defers[r]) \in Nat \ {0} /\ DOMAIN defers[r] = 1 .. Len(defers[r])
           /\ DOMAIN defers'[r] = 1 .. (Len(defers[r]) - 1)
           /\ \A i \in DOMAIN defers'[r] : defers'[r][i] = defers[r][i]
           /\ NextDeferred(r) \in Calls
<1>1. defers \in [Requests -> Seq(Calls)] /\ defers[r] \in Seq(Calls)
    BY DEF TypeOK, Calls
<1>2. Len(defers[r]) \in Nat \ {0} /\ DOMAIN defers[r] = 1 .. Len(defers[r])
    BY <1>1, EmptySeq, LenProperties
<1>3. defers'[r] = SubSeq(defers[r], 1, Len(defers[r]) - 1)
    BY <1>1
<1>4. /\ SubSeq(defers[r], 1, Len(defers[r]) - 1) \in Seq(Calls)
      /\ Len(SubSeq(defers[r], 1, Len(defers[r]) - 1)) = Len(defers[r]) - 1
      /\ \A i \in 1 .. (Len(defers[r]) - 1) :
            SubSeq(defers[r], 1, Len(defers[r]) - 1)[i] = defers[r][i]
    BY <1>1, <1>2
<1>5. NextDeferred(r) \in Calls
    BY <1>1, <1>2 DEF NextDeferred
<1> QED
    BY <1>1, <1>2, <1>3, <1>4, <1>5

\* A slot on top is deferred once, so it is gone after its release.
LEMMA PoppedHas ==
    ASSUME TypeOK, Deferrals, NEW r \in Requests, defers[r] # <<>>,
           defers' = [defers EXCEPT ![r] = SubSeq(@, 1, Len(@) - 1)]
    PROVE  /\ Has(r, NextDeferred(r))
           /\ \A c : c # NextDeferred(r) => (Has(r, c)' <=> Has(r, c))
           /\ \A q \in Requests \ {r} : \A c : Has(q, c)' <=> Has(q, c)
           /\ \A s \in Slots : s = NextDeferred(r) => ~Has(r, s)'
<1> DEFINE n == Len(defers[r])
<1>1. /\ \A q \in Requests \ {r} : defers'[q] = defers[q]
      /\ n \in Nat \ {0} /\ DOMAIN defers[r] = 1 .. n
      /\ DOMAIN defers'[r] = 1 .. (n - 1)
      /\ \A i \in DOMAIN defers'[r] : defers'[r][i] = defers[r][i]
    BY Popped
<1>2. NextDeferred(r) = defers[r][n] /\ n \in DOMAIN defers[r]
    BY <1>1 DEF NextDeferred
<1>3. Has(r, NextDeferred(r))
    BY <1>2 DEF Has
<1>4. ASSUME NEW c, c # NextDeferred(r) PROVE Has(r, c)' <=> Has(r, c)
    BY <1>1, <1>2, <1>4 DEF Has
<1>5. ASSUME NEW s \in Slots, s = NextDeferred(r), Has(r, s)' PROVE FALSE
    <2>1. PICK i \in DOMAIN defers'[r] : defers'[r][i] = s
        BY <1>5 DEF Has
    <2>2. i \in DOMAIN defers[r] /\ i # n /\ defers[r][i] = defers[r][n]
        BY <1>1, <1>2, <1>5, <2>1
    <2> QED
        BY <1>2, <1>5, <2>2 DEF Deferrals
<1>6. \A q \in Requests \ {r} : \A c : Has(q, c)' <=> Has(q, c)
    BY <1>1 DEF Has
<1> QED
    BY <1>3, <1>4, <1>5, <1>6

-----------------------------------------------------------------------------
(* Types. *)

\* finishTrace submits one well-formed event.
LEMMA FinishTypes ==
    ASSUME TypeOK, NEW r \in Requests, NEW d \in {"allow", "block", "error"},
           NEW c \in Codes, NEW s \in Nat, Finish(r, d, c, s)
    PROVE  traces' \in [Requests -> Seq(Events)]
<1>1. <<[decision |-> d, code |-> c, status |-> s]>> \in Seq(Events)
    BY DEF Events
<1> QED
    BY <1>1 DEF Finish, TypeOK

\* writeError and the relays write one status.
LEMMA WriteTypes ==
    ASSUME TypeOK, NEW r \in Requests, NEW s \in Nat, Write(r, s)
    PROVE  reply' \in [Requests -> Seq(Nat)]
<1>1. Append(reply[r], s) \in Seq(Nat)
    BY DEF TypeOK
<1> QED
    BY <1>1 DEF Write, TypeOK

\* Every limit admits at least one holder.
LEMMA MaxTypes == \A s \in Slots : Max[s] \in Nat \ {0}
BY DEF Max, Slots

\* What a request says of its end.
OutTypes ==
    /\ pc' \in [Requests -> Stages]
    /\ traces' \in [Requests -> Seq(Events)]
    /\ reply' \in [Requests -> Seq(Nat)]

\* A rejection records, answers and returns.
LEMMA RejectTypes ==
    ASSUME TypeOK, NEW r \in Requests, NEW d \in {"allow", "block", "error"},
           NEW c \in Codes, NEW s \in Nat, Reject(r, d, c, s)
    PROVE  OutTypes
<1>1. pc' \in [Requests -> Stages]
    BY DEF Reject, Return, TypeOK, Stages
<1> QED
    BY <1>1, FinishTypes, WriteTypes DEF Reject, OutTypes

\* A return for a caller that is gone records and answers nothing.
LEMMA LeaveTypes ==
    ASSUME TypeOK, NEW r \in Requests, Leave(r)
    PROVE  OutTypes
<1>1. pc' \in [Requests -> Stages]
    BY DEF Leave, Return, TypeOK, Stages
<1>2. "CLIENT_DISCONNECT" \in Codes
    BY DEF Codes
<1>3. traces' \in [Requests -> Seq(Events)]
    BY <1>2, FinishTypes DEF Leave
<1> QED
    BY <1>1, <1>3 DEF Leave, OutTypes, TypeOK

\* A stage that goes on neither records nor answers.
LEMMA GotoTypes ==
    ASSUME TypeOK, NEW r \in Requests, NEW stage \in Stages, Goto(r, stage)
    PROVE  OutTypes
BY DEF Goto, OutTypes, TypeOK

\* A slot is taken only below its limit.
LEMMA TakeTypes ==
    ASSUME TypeOK, NEW r \in Requests, NEW slot \in Slots, NEW next \in Stages,
           NEW code \in Codes, Take(r, slot, next, code)
    PROVE  /\ OutTypes
           /\ defers' \in [Requests -> Seq(Calls)]
           /\ used' \in [Slots -> Nat] /\ \A s \in Slots : used'[s] <= Max[s]
<1>1. CASE /\ used[slot] < Max[slot]
           /\ used' = [used EXCEPT ![slot] = @ + 1]
           /\ defers' = [defers EXCEPT ![r] = Append(@, slot)]
           /\ Goto(r, next)
    <2>1. defers' \in [Requests -> Seq(Calls)]
        BY <1>1, Pushed DEF Calls
    <2>2. used' \in [Slots -> Nat] /\ \A s \in Slots : used'[s] <= Max[s]
        BY <1>1, MaxTypes DEF TypeOK
    <2> QED
        BY <1>1, <2>1, <2>2, GotoTypes
<1>2. CASE Reject(r, "error", code, 503) /\ UNCHANGED <<used, defers>>
    <2>1. OutTypes
        BY <1>2, RejectTypes
    <2> QED
        BY <1>2, <2>1 DEF TypeOK, Calls
<1> QED
    BY <1>1, <1>2 DEF Take

\* Nothing has arrived and no slot is in use.
LEMMA TypeInit == Init => TypeOK
<1> SUFFICES ASSUME Init PROVE TypeOK
    OBVIOUS
<1>1. \A s \in Slots : used[s] <= Max[s]
    BY MaxTypes DEF Init
<1>2. <<>> \in Seq(Events) /\ <<>> \in Seq(Nat) /\ <<>> \in Seq(Slots \cup {"cancel", "body"})
    OBVIOUS
<1> QED
    BY <1>1, <1>2 DEF Init, TypeOK, Stages, Lengths, NoVerdict

\* The codes and the stages that ServeHTTP uses are the declared ones, and the
\* counters stay within their limits.
LEMMA TypeStep ==
    TypeOK /\ Deferrals /\ Counted /\ [Next]_vars => TypeOK'
<1> SUFFICES ASSUME TypeOK, Deferrals, Counted, [Next]_vars PROVE TypeOK'
    OBVIOUS
<1> USE DEF reqVars
<1>1. ASSUME NEW r \in Requests, Refuse(r) PROVE TypeOK'
    <2>1. pc' \in [Requests -> Stages]
        BY <1>1 DEF Refuse, Return, TypeOK, Stages
    <2>2. reply' \in [Requests -> Seq(Nat)]
        BY <1>1, WriteTypes DEF Refuse
    <2> QED
        BY <1>1, <2>1, <2>2 DEF Refuse, TypeOK
<1>2. ASSUME NEW r \in Requests, Arrive(r) PROVE TypeOK'
    <2>1. OutTypes
        BY <1>2, GotoTypes DEF Arrive, Stages
    <2>2. PICK l \in Sizes[r] : length' = [length EXCEPT ![r] = l]
        BY <1>2 DEF Arrive
    <2>3. l \in Lengths
        <3>1. Sizes[r] \in SUBSET Lengths
            OBVIOUS
        <3> QED
            BY <3>1
    <2>4. length' \in [Requests -> Lengths]
        BY <2>2, <2>3 DEF TypeOK
    <2> QED
        BY <1>2, <2>1, <2>4 DEF Arrive, OutTypes, TypeOK
<1>3. ASSUME NEW r \in Requests, Check(r) PROVE TypeOK'
    <2>1. OutTypes
        <3>1. {"ROUTE_NOT_FOUND", "GATEWAY_AUTH_FAILED", "RATE_LIMITED"} \subseteq Codes
            BY DEF Codes
        <3>2. "global" \in Stages
            BY DEF Stages
        <3> QED
            BY <1>3, <3>1, <3>2, GotoTypes, RejectTypes DEF Check
    <2> QED
        BY <1>3, <2>1 DEF Check, OutTypes, TypeOK
<1>4. ASSUME NEW r \in Requests, TakeGlobal(r) PROVE TypeOK'
    <2>1. "global" \in Slots /\ "length" \in Stages /\ "GATEWAY_OVERLOADED" \in Codes
        BY DEF Slots, Stages, Codes
    <2>2. Take(r, "global", "length", "GATEWAY_OVERLOADED")
        BY <1>4 DEF TakeGlobal
    <2>3. /\ OutTypes
          /\ defers' \in [Requests -> Seq(Calls)]
          /\ used' \in [Slots -> Nat] /\ \A s \in Slots : used'[s] <= Max[s]
        BY <2>1, <2>2, TakeTypes
    <2> QED
        BY <1>4, <2>3 DEF TakeGlobal, OutTypes, TypeOK, Calls
<1>5. ASSUME NEW r \in Requests, CheckLength(r) PROVE TypeOK'
    <2>1. /\ "large" \in Slots /\ "read" \in Stages
          /\ {"LARGE_REQUEST_CONCURRENCY_LIMITED", "REQUEST_TOO_LARGE"} \subseteq Codes
        BY DEF Slots, Stages, Codes
    <2>2. /\ OutTypes
          /\ defers' \in [Requests -> Seq(Calls)]
          /\ used' \in [Slots -> Nat] /\ \A s \in Slots : used'[s] <= Max[s]
        <3>1. CASE Take(r, "large", "read", "LARGE_REQUEST_CONCURRENCY_LIMITED")
            BY <2>1, <3>1, TakeTypes
        <3>2. CASE Goto(r, "read") /\ UNCHANGED <<used, defers>>
            <4>1. OutTypes
                BY <2>1, <3>2, GotoTypes
            <4> QED
                BY <3>2, <4>1 DEF TypeOK, Calls
        <3>3. CASE /\ Reject(r, "error", "REQUEST_TOO_LARGE", 555)
                   /\ UNCHANGED <<used, defers>>
            <4>1. OutTypes
                BY <2>1, <3>3, RejectTypes
            <4> QED
                BY <3>3, <4>1 DEF TypeOK, Calls
        <3> QED
            BY <1>5, <3>1, <3>2, <3>3 DEF CheckLength
    <2> QED
        BY <1>5, <2>2 DEF CheckLength, OutTypes, TypeOK, Calls
<1>6. ASSUME NEW r \in Requests, ReadBody(r) PROVE TypeOK'
    <2>1. /\ "audit" \in Stages
          /\ {"REQUEST_READ_ERROR", "REQUEST_TOO_LARGE"} \subseteq Codes
        BY DEF Stages, Codes
    <2>2. OutTypes
        BY <1>6, <2>1, GotoTypes, RejectTypes DEF ReadBody
    <2> QED
        BY <1>6, <2>2 DEF ReadBody, OutTypes, TypeOK
<1>7. ASSUME NEW r \in Requests, Audit(r) PROVE TypeOK'
    <2>1. "present" \in Stages /\ "CYBER_POLICY_BLOCK" \in Codes
        BY DEF Stages, Codes
    <2>2. OutTypes
        BY <1>7, <2>1, GotoTypes, RejectTypes DEF Audit
    <2>3. verdict' \in [Requests -> [decision : {"none", "allow", "block"},
                                     client : {"up", "gone"}]]
        BY <1>7 DEF Audit, TypeOK
    <2> QED
        BY <1>7, <2>2, <2>3 DEF Audit, OutTypes, TypeOK
<1>8. ASSUME NEW r \in Requests, CheckClient(r) PROVE TypeOK'
    <2>1. "slot" \in Stages
        BY DEF Stages
    <2>2. OutTypes
        BY <1>8, <2>1, GotoTypes, LeaveTypes DEF CheckClient
    <2> QED
        BY <1>8, <2>2 DEF CheckClient, OutTypes, TypeOK
<1>9. ASSUME NEW r \in Requests, Acquire(r) PROVE TypeOK'
    <2>1. "route" \in Slots /\ "build" \in Stages /\ "ROUTE_CONCURRENCY_LIMITED" \in Codes
        BY DEF Slots, Stages, Codes
    <2>2. Take(r, "route", "build", "ROUTE_CONCURRENCY_LIMITED")
        BY <1>9 DEF Acquire
    <2>3. /\ OutTypes
          /\ defers' \in [Requests -> Seq(Calls)]
          /\ used' \in [Slots -> Nat] /\ \A s \in Slots : used'[s] <= Max[s]
        BY <2>1, <2>2, TakeTypes
    <2> QED
        BY <1>9, <2>3 DEF Acquire, OutTypes, TypeOK, Calls
<1>10. ASSUME NEW r \in Requests, Build(r) PROVE TypeOK'
    <2>1. "do" \in Stages /\ "GATEWAY_CONFIG_ERROR" \in Codes /\ "cancel" \in Calls
        BY DEF Stages, Codes, Calls
    <2>2. OutTypes
        BY <1>10, <2>1, GotoTypes, RejectTypes DEF Build
    <2>3. defers' \in [Requests -> Seq(Calls)]
        BY <1>10, <2>1, Pushed DEF Build, TypeOK, Calls
    <2> QED
        BY <1>10, <2>2, <2>3 DEF Build, OutTypes, TypeOK, Calls
<1>11. ASSUME NEW r \in Requests, DoFails(r) PROVE TypeOK'
    <2>1. \A b \in BOOLEAN : DoCode(r, b) \in Codes
        BY DEF DoCode, Codes
    <2>2. OutTypes
        BY <1>11, <2>1, LeaveTypes, RejectTypes DEF DoFails
    <2> QED
        BY <1>11, <2>2 DEF DoFails, OutTypes, TypeOK
<1>12. ASSUME NEW r \in Requests, DoReturns(r) PROVE TypeOK'
    <2>1. /\ "sse" \in Stages /\ "prefix" \in Stages
          /\ "UPSTREAM_MODEL_ERROR" \in Codes /\ "body" \in Calls
        BY DEF Stages, Codes, Calls
    <2>2. OutTypes
        BY <1>12, <2>1, GotoTypes, RejectTypes DEF DoReturns
    <2>3. defers' \in [Requests -> Seq(Calls)]
        BY <1>12, <2>1, Pushed DEF DoReturns
    <2> QED
        BY <1>12, <2>2, <2>3 DEF DoReturns, OutTypes, TypeOK, Calls
<1>13. ASSUME NEW r \in Requests, Stream(r) PROVE TypeOK'
    <2>1. /\ NoCode \in Codes /\ "CLIENT_DISCONNECT" \in Codes
          /\ {"UPSTREAM_STREAM_ERROR", "UPSTREAM_STREAM_TIMEOUT",
              "UPSTREAM_STREAM_INTERRUPTED"} \subseteq Codes
        BY DEF Codes
    <2>2. traces' \in [Requests -> Seq(Events)] /\ reply' \in [Requests -> Seq(Nat)]
        <3>1. CASE Write(r, 200) /\ Finish(r, "allow", NoCode, 200)
            BY <2>1, <3>1, FinishTypes, WriteTypes
        <3>2. ASSUME NEW code \in {"UPSTREAM_STREAM_ERROR", "UPSTREAM_STREAM_TIMEOUT",
                                   "UPSTREAM_STREAM_INTERRUPTED"},
                     NEW status \in {200, 555},
                     Write(r, status), Finish(r, "error", code, status)
              PROVE  traces' \in [Requests -> Seq(Events)] /\ reply' \in [Requests -> Seq(Nat)]
            <4>1. code \in Codes /\ status \in Nat
                BY <2>1
            <4> QED
                BY <3>2, <4>1, FinishTypes, WriteTypes
        <3>3. CASE Write(r, 200) /\ Finish(r, "error", "CLIENT_DISCONNECT", 200)
            BY <2>1, <3>3, FinishTypes, WriteTypes
        <3>4. CASE UNCHANGED reply /\ Finish(r, "error", "CLIENT_DISCONNECT", 555)
            <4>1. traces' \in [Requests -> Seq(Events)]
                BY <2>1, <3>4, FinishTypes
            <4> QED
                BY <3>4, <4>1 DEF TypeOK
        <3> QED
            BY <1>13, <3>1, <3>2, <3>3, <3>4 DEF Stream
    <2>3. pc' \in [Requests -> Stages]
        BY <1>13 DEF Stream, Return, TypeOK, Stages
    <2> QED
        BY <1>13, <2>2, <2>3 DEF Stream, TypeOK
<1>14. ASSUME NEW r \in Requests, ReadPrefix(r) PROVE TypeOK'
    <2>1. {"UPSTREAM_READ_ERROR", "UPSTREAM_MODEL_ERROR"} \subseteq Codes
        BY DEF Codes
    <2>2. OutTypes
        <3>1. CASE \E next \in {"whole", "copy"} :
                      /\ Write(r, 200)
                      /\ pc' = [pc EXCEPT ![r] = next]
                      /\ UNCHANGED traces
            BY <3>1, WriteTypes DEF OutTypes, TypeOK, Stages
        <3> QED
            BY <1>14, <2>1, <3>1, RejectTypes DEF ReadPrefix
    <2> QED
        BY <1>14, <2>2 DEF ReadPrefix, OutTypes, TypeOK
<1>15. ASSUME NEW r \in Requests, Send(r) PROVE TypeOK'
    <2>1. {NoCode, "CLIENT_DISCONNECT"} \subseteq Codes
        BY DEF Codes
    <2>2. traces' \in [Requests -> Seq(Events)]
        BY <1>15, <2>1, FinishTypes DEF Send
    <2>3. pc' \in [Requests -> Stages]
        BY <1>15 DEF Send, Return, TypeOK, Stages
    <2> QED
        BY <1>15, <2>2, <2>3 DEF Send, TypeOK
<1>16. ASSUME NEW r \in Requests, Unwind(r) PROVE TypeOK'
    <2>1. CASE defers[r] = <<>>
        BY <1>16, <2>1 DEF Unwind, TypeOK, Stages
    <2>2. CASE defers[r] # <<>>
        <3> DEFINE call == NextDeferred(r)
        <3>1. Deferred(r, call) /\ defers' = [defers EXCEPT ![r] = SubSeq(@, 1, Len(@) - 1)]
            BY <1>16, <2>2 DEF Unwind
        <3>2. defers' \in [Requests -> Seq(Calls)]
            BY <2>2, <3>1, Popped
        <3>3. used' \in [Slots -> Nat] /\ \A s \in Slots : used'[s] <= Max[s]
            <4>1. CASE call \notin Slots
                BY <3>1, <4>1 DEF Deferred, TypeOK
            <4>2. CASE call \in Slots
                <5>1. r \in Holders(call)
                    BY <2>2, <3>1, PoppedHas DEF Holders
                <5>2. IsFiniteSet(Holders(call))
                    BY FS_Subset DEF Holders
                <5>3. Cardinality(Holders(call)) # 0
                    BY <5>1, <5>2, FS_EmptySet
                <5>4. used[call] \in Nat \ {0}
                    BY <4>2, <5>3 DEF Counted, TypeOK
                <5>5. used' = [used EXCEPT ![call] = used[call] - 1]
                    BY <3>1, <4>2 DEF Deferred
                <5> QED
                    BY <4>2, <5>4, <5>5, MaxTypes DEF TypeOK
            <4> QED
                BY <4>1, <4>2
        <3>4. /\ upstream' \in [Requests -> {"none", "open", "closed"}]
              /\ cause' \in [Requests -> {"none", "live", "timeout", "canceled"}]
            BY <3>1 DEF Deferred, TypeOK
        <3> QED
            BY <1>16, <2>2, <3>2, <3>3, <3>4 DEF Unwind, TypeOK, Calls
    <2> QED
        BY <2>1, <2>2
<1>17. ASSUME NEW r \in Requests, RequestTimeout(r) \/ ClientLeaves(r) PROVE TypeOK'
    BY <1>17 DEF RequestTimeout, ClientLeaves, TypeOK
<1>18. CASE UNCHANGED vars
    BY <1>18 DEF vars, TypeOK
<1> QED
    BY <1>1, <1>2, <1>3, <1>4, <1>5, <1>6, <1>7, <1>8, <1>9, <1>10, <1>11, <1>12,
       <1>13, <1>14, <1>15, <1>16, <1>17, <1>18
    DEF Next, Handle, AwaitUpstream, AwaitClient

-----------------------------------------------------------------------------
(* The deferred calls and the counters. *)

\* The steps of ServeHTTP between stages that defer nothing.
Moves == {<<"idle", "check">>, <<"check", "global">>, <<"length", "read">>,
          <<"read", "audit">>, <<"audit", "present">>, <<"present", "slot">>,
          <<"prefix", "whole">>, <<"prefix", "copy">>}

\* A request that moves on, or returns, without a defer.
LEMMA QuietKeeps ==
    ASSUME TypeOK, Deferrals, NEW r \in Requests, NEW to,
           pc' = [pc EXCEPT ![r] = to], UNCHANGED defers,
           to = "unwind" \/ <<pc[r], to>> \in Moves \/ (to = "done" /\ defers[r] = <<>>)
    PROVE  Deferrals'
<1>1. \A q \in Requests \ {r} : pc'[q] = pc[q]
    BY DEF TypeOK
<1>2. pc'[r] = to
    BY DEF TypeOK
<1> QED
    BY <1>1, <1>2 DEF Deferrals, Has, Moves, Waiting, NoLarge, Screened, Calling

\* A call deferred for the first time, at the stage it belongs to.
LEMMA PushKeeps ==
    ASSUME TypeOK, Deferrals, NEW r \in Requests, NEW call \in Calls, NEW to,
           pc' = [pc EXCEPT ![r] = to],
           defers' = [defers EXCEPT ![r] = Append(@, call)],
           call \in Slots => ~Has(r, call),
           \/ to = "unwind" /\ call = "body"
           \/ <<pc[r], call, to>> \in
                 {<<"global", "global", "length">>, <<"length", "large", "read">>,
                  <<"slot", "route", "build">>, <<"build", "cancel", "do">>,
                  <<"do", "body", "sse">>, <<"do", "body", "prefix">>}
    PROVE  Deferrals'
<1>1. /\ \A q \in Requests \ {r} : pc'[q] = pc[q] /\ defers'[q] = defers[q]
      /\ pc'[r] = to
    BY Pushed DEF TypeOK
<1>2. /\ \A c : Has(r, c)' <=> Has(r, c) \/ c = call
      /\ \A q \in Requests \ {r} : \A c : Has(q, c)' <=> Has(q, c)
    BY PushedHas
<1>3. ASSUME NEW i \in DOMAIN defers'[r], NEW j \in DOMAIN defers'[r],
             defers'[r][i] = defers'[r][j], defers'[r][i] \in Slots
      PROVE  i = j
    <2> DEFINE n == Len(defers[r])
    <2>1. defers[r] \in Seq(Calls) /\ defers'[r] \in Seq(Calls)
        BY Pushed DEF TypeOK, Calls
    <2>2. /\ DOMAIN defers[r] = 1 .. n /\ n \in Nat
          /\ DOMAIN defers'[r] = 1 .. (n + 1)
          /\ defers'[r][n + 1] = call
          /\ \A k \in 1 .. n : defers'[r][k] = defers[r][k]
        <3>1. /\ Len(defers'[r]) = Len(defers[r]) + 1
              /\ defers'[r][Len(defers[r]) + 1] = call
              /\ \A k \in DOMAIN defers[r] : defers'[r][k] = defers[r][k]
            BY Pushed
        <3>2. /\ DOMAIN defers[r] = 1 .. Len(defers[r]) /\ Len(defers[r]) \in Nat
              /\ DOMAIN defers'[r] = 1 .. Len(defers'[r])
            BY <2>1
        <3> QED
            BY <3>1, <3>2
    <2>3. CASE i \in 1 .. n /\ j \in 1 .. n
        BY <1>3, <2>2, <2>3 DEF Deferrals
    <2>4. CASE i = n + 1 /\ j \in 1 .. n
        BY <1>3, <2>2, <2>4 DEF Has
    <2>5. CASE i \in 1 .. n /\ j = n + 1
        BY <1>3, <2>2, <2>5 DEF Has
    <2> QED
        BY <2>2, <2>3, <2>4, <2>5
<1>4. ASSUME NEW q \in Requests \ {r}
      PROVE  /\ \A i, j \in DOMAIN defers'[q] :
                  defers'[q][i] = defers'[q][j] /\ defers'[q][i] \in Slots => i = j
             /\ pc'[q] \in Waiting \cup {"done"} => defers'[q] = <<>>
             /\ pc'[q] \in NoLarge => ~Has(q, "large")'
             /\ pc'[q] \in NoLarge \cup Screened => ~Has(q, "route")'
             /\ pc'[q] \in NoLarge \cup Screened \cup Calling => Has(q, "global")'
             /\ pc'[q] \in Calling => Has(q, "route")'
    BY <1>1, <1>2 DEF Deferrals
<1>5. /\ pc'[r] \notin Waiting \cup {"done"}
      /\ pc'[r] \in NoLarge => ~Has(r, "large")'
      /\ pc'[r] \in NoLarge \cup Screened => ~Has(r, "route")'
      /\ pc'[r] \in NoLarge \cup Screened \cup Calling => Has(r, "global")'
      /\ pc'[r] \in Calling => Has(r, "route")'
    <2>1. pc[r] = "global" => defers[r] = <<>> /\ \A c : ~Has(r, c)
        BY DEF Deferrals, Has, Waiting
    <2> QED
        BY <1>1, <1>2, <2>1 DEF Deferrals, Waiting, NoLarge, Screened, Calling
<1> QED
    BY <1>3, <1>4, <1>5 DEF Deferrals

\* Taking a slot counts the request among its holders.
LEMMA CountTake ==
    ASSUME TypeOK, Counted, NEW r \in Requests, NEW slot \in Slots, ~Has(r, slot),
           used' = [used EXCEPT ![slot] = @ + 1],
           defers' = [defers EXCEPT ![r] = Append(@, slot)]
    PROVE  Counted'
<1>1. /\ \A c : Has(r, c)' <=> Has(r, c) \/ c = slot
      /\ \A q \in Requests \ {r} : \A c : Has(q, c)' <=> Has(q, c)
    BY PushedHas DEF Calls
<1>2. Holders(slot)' = Holders(slot) \cup {r} /\ r \notin Holders(slot)
    BY <1>1 DEF Holders
<1>3. \A s \in Slots \ {slot} : Holders(s)' = Holders(s)
    BY <1>1 DEF Holders
<1>4. IsFiniteSet(Holders(slot))
    BY FS_Subset DEF Holders
<1>5. Cardinality(Holders(slot) \cup {r}) = Cardinality(Holders(slot)) + 1
    BY <1>2, <1>4, FS_AddElement
<1>6. used'[slot] = used[slot] + 1 /\ \A s \in Slots \ {slot} : used'[s] = used[s]
    BY DEF TypeOK
<1>7. used'[slot] = Cardinality(Holders(slot)')
    BY <1>2, <1>5, <1>6 DEF Counted
<1>8. \A s \in Slots \ {slot} : used'[s] = Cardinality(Holders(s)')
    BY <1>3, <1>6 DEF Counted
<1> QED
    BY <1>7, <1>8 DEF Counted

\* A deferred call that is no release changes no holder.
LEMMA CountOther ==
    ASSUME TypeOK, Counted, NEW r \in Requests, NEW call \in {"cancel", "body"},
           UNCHANGED used, defers' = [defers EXCEPT ![r] = Append(@, call)]
    PROVE  Counted'
<1>1. /\ \A c : Has(r, c)' <=> Has(r, c) \/ c = call
      /\ \A q \in Requests \ {r} : \A c : Has(q, c)' <=> Has(q, c)
    BY PushedHas DEF Calls
<1>2. \A s \in Slots : Holders(s)' = Holders(s)
    BY <1>1 DEF Holders, Slots
<1> QED
    BY <1>2 DEF Counted

\* The stage at which a slot is taken, with what the failure to take it does.
LEMMA TakeKeeps ==
    ASSUME TypeOK, Deferrals, Counted, NEW r \in Requests, NEW slot, NEW next, NEW code,
           Take(r, slot, next, code),
           <<pc[r], slot, next>> \in
                {<<"global", "global", "length">>, <<"length", "large", "read">>,
                 <<"slot", "route", "build">>}
    PROVE  Deferrals' /\ Counted'
<1>1. slot \in Slots /\ slot \in Calls /\ ~Has(r, slot)
    BY DEF Slots, Calls, Deferrals, Has, Waiting, NoLarge, Screened
<1>2. CASE /\ used' = [used EXCEPT ![slot] = @ + 1]
           /\ defers' = [defers EXCEPT ![r] = Append(@, slot)]
           /\ Goto(r, next)
    <2>1. pc' = [pc EXCEPT ![r] = next]
        BY <1>2 DEF Goto
    <2>2. Deferrals'
        BY <1>1, <1>2, <2>1, PushKeeps
    <2>3. Counted'
        BY <1>1, <1>2, CountTake
    <2> QED
        BY <2>2, <2>3
<1>3. CASE Reject(r, "error", code, 503) /\ UNCHANGED <<used, defers>>
    <2>1. pc' = [pc EXCEPT ![r] = "unwind"]
        BY <1>3 DEF Reject, Return
    <2>2. Deferrals'
        BY <1>3, <2>1, QuietKeeps
    <2>3. Counted'
        BY <1>3 DEF Counted, Holders, Has
    <2> QED
        BY <2>2, <2>3
<1> QED
    BY <1>2, <1>3 DEF Take

\* One deferred call of the unwinding: a release gives back exactly one slot.
LEMMA UnwindKeeps ==
    ASSUME TypeOK, Deferrals, Counted, NEW r \in Requests, Unwind(r)
    PROVE  Deferrals' /\ Counted'
<1>1. CASE defers[r] = <<>>
    <2>1. pc' = [pc EXCEPT ![r] = "done"] /\ UNCHANGED <<defers, used>>
        BY <1>1 DEF Unwind
    <2>2. Deferrals'
        BY <1>1, <2>1, QuietKeeps
    <2>3. Counted'
        BY <2>1 DEF Counted, Holders, Has
    <2> QED
        BY <2>2, <2>3
<1>2. CASE defers[r] # <<>>
    <2>0. PICK call \in Calls : call = NextDeferred(r)
        BY <1>2, Popped DEF Unwind
    <2>1. /\ Deferred(r, call) /\ UNCHANGED pc /\ pc[r] = "unwind"
          /\ defers' = [defers EXCEPT ![r] = SubSeq(@, 1, Len(@) - 1)]
        BY <1>2, <2>0 DEF Unwind
    <2>2. /\ \A q \in Requests \ {r} : defers'[q] = defers[q]
          /\ Len(defers[r]) \in Nat \ {0} /\ DOMAIN defers[r] = 1 .. Len(defers[r])
          /\ DOMAIN defers'[r] = 1 .. (Len(defers[r]) - 1)
          /\ \A i \in DOMAIN defers'[r] : defers'[r][i] = defers[r][i]
        BY <1>2, <2>1, Popped
    <2>3. /\ Has(r, call)
          /\ \A c : c # call => (Has(r, c)' <=> Has(r, c))
          /\ \A q \in Requests \ {r} : \A c : Has(q, c)' <=> Has(q, c)
          /\ \A s \in Slots : s = call => ~Has(r, s)'
        BY <1>2, <2>0, <2>1, PoppedHas
    <2>4. Deferrals'
        <3>1. ASSUME NEW i \in DOMAIN defers'[r], NEW j \in DOMAIN defers'[r],
                     defers'[r][i] = defers'[r][j], defers'[r][i] \in Slots
              PROVE  i = j
            <4>1. i \in DOMAIN defers[r] /\ j \in DOMAIN defers[r]
                BY <2>2
            <4> QED
                BY <2>2, <3>1, <4>1 DEF Deferrals
        <3>2. pc'[r] = "unwind"
            BY <2>1
        <3> QED
            BY <2>1, <2>2, <2>3, <3>1, <3>2
            DEF Deferrals, Waiting, NoLarge, Screened, Calling
    <2>5. Counted'
        <3>1. CASE call \notin Slots
            <4>1. \A s \in Slots : Holders(s)' = Holders(s)
                BY <2>3, <3>1 DEF Holders
            <4> QED
                BY <2>1, <3>1, <4>1 DEF Deferred, Counted
        <3>2. CASE call \in Slots
            <4>1. Holders(call)' = Holders(call) \ {r} /\ r \in Holders(call)
                BY <2>3, <3>2 DEF Holders
            <4>2. \A s \in Slots \ {call} : Holders(s)' = Holders(s)
                BY <2>3 DEF Holders
            <4>3. IsFiniteSet(Holders(call))
                BY FS_Subset DEF Holders
            <4>4. Cardinality(Holders(call) \ {r}) = Cardinality(Holders(call)) - 1
                BY <4>1, <4>3, FS_RemoveElement
            <4>5. /\ used'[call] = used[call] - 1
                  /\ \A s \in Slots \ {call} : used'[s] = used[s]
                BY <2>1, <3>2 DEF Deferred, TypeOK
            <4>6. used'[call] = Cardinality(Holders(call)')
                BY <3>2, <4>1, <4>4, <4>5 DEF Counted
            <4>7. \A s \in Slots \ {call} : used'[s] = Cardinality(Holders(s)')
                BY <4>2, <4>5 DEF Counted
            <4> QED
                BY <4>6, <4>7 DEF Counted
        <3> QED
            BY <3>1, <3>2
    <2> QED
        BY <2>4, <2>5
<1> QED
    BY <1>1, <1>2

\* No request has deferred anything and no slot is counted.
LEMMA DeferInit == Init => Deferrals /\ Counted
<1> SUFFICES ASSUME Init PROVE Deferrals /\ Counted
    OBVIOUS
<1>1. \A slot \in Slots : Holders(slot) = {}
    BY DEF Init, Holders, Has
<1>2. Counted
    BY <1>1, FS_EmptySet DEF Init, Counted
<1>3. Deferrals
    BY DEF Init, Deferrals, Waiting, NoLarge, Screened, Calling
<1> QED
    BY <1>2, <1>3

\* Every return of ServeHTTP runs the deferred releases, each of them once.
LEMMA DeferStep ==
    TypeOK /\ Deferrals /\ Counted /\ [Next]_vars => Deferrals' /\ Counted'
<1> SUFFICES ASSUME TypeOK, Deferrals, Counted, [Next]_vars PROVE Deferrals' /\ Counted'
    OBVIOUS
<1>0. ASSUME UNCHANGED <<defers, used>> PROVE Counted'
    BY <1>0 DEF Counted, Holders, Has
<1>1. ASSUME NEW r \in Requests, NEW to, pc' = [pc EXCEPT ![r] = to],
             UNCHANGED <<defers, used>>,
             \/ to = "unwind" \/ <<pc[r], to>> \in Moves
      PROVE  Deferrals' /\ Counted'
    BY <1>0, <1>1, QuietKeeps
<1>2. ASSUME NEW r \in Requests,
             \/ Refuse(r) \/ Arrive(r) \/ Check(r) \/ ReadBody(r) \/ Audit(r)
             \/ CheckClient(r) \/ DoFails(r) \/ Stream(r) \/ ReadPrefix(r) \/ Send(r)
      PROVE  Deferrals' /\ Counted'
    <2>1. UNCHANGED <<defers, used>>
        BY <1>2 DEF Refuse, Arrive, Check, ReadBody, Audit, CheckClient, DoFails,
                    Stream, ReadPrefix, Send
    <2>2. \E to : /\ pc' = [pc EXCEPT ![r] = to]
                  /\ to = "unwind" \/ <<pc[r], to>> \in Moves
        BY <1>2 DEF Refuse, Arrive, Check, ReadBody, Audit, CheckClient, DoFails,
                    Stream, ReadPrefix, Send, Goto, Reject, Leave, Return, Moves
    <2> QED
        BY <1>1, <2>1, <2>2
<1>3. ASSUME NEW r \in Requests, TakeGlobal(r) \/ Acquire(r) PROVE Deferrals' /\ Counted'
    BY <1>3, TakeKeeps DEF TakeGlobal, Acquire
<1>4. ASSUME NEW r \in Requests, CheckLength(r) PROVE Deferrals' /\ Counted'
    <2>1. CASE Take(r, "large", "read", "LARGE_REQUEST_CONCURRENCY_LIMITED")
        BY <1>4, <2>1, TakeKeeps DEF CheckLength
    <2>2. CASE Reject(r, "error", "REQUEST_TOO_LARGE", 555) /\ UNCHANGED <<used, defers>>
        BY <1>1, <2>2 DEF Reject, Return
    <2>3. CASE Goto(r, "read") /\ UNCHANGED <<used, defers>>
        BY <1>1, <1>4, <2>3 DEF CheckLength, Goto, Moves
    <2> QED
        BY <1>4, <2>1, <2>2, <2>3 DEF CheckLength
<1>5. ASSUME NEW r \in Requests, Build(r) PROVE Deferrals' /\ Counted'
    <2>1. CASE /\ Reject(r, "error", "GATEWAY_CONFIG_ERROR", 555)
               /\ UNCHANGED <<cause, upstream, defers>>
        BY <1>1, <1>5, <2>1 DEF Build, Reject, Return
    <2>2. CASE /\ defers' = [defers EXCEPT ![r] = Append(@, "cancel")]
               /\ Goto(r, "do")
        <3>1. Deferrals'
            BY <1>5, <2>2, PushKeeps DEF Build, Goto, Calls, Slots
        <3>2. Counted'
            BY <1>5, <2>2, CountOther DEF Build
        <3> QED
            BY <3>1, <3>2
    <2> QED
        BY <1>5, <2>1, <2>2 DEF Build
<1>6. ASSUME NEW r \in Requests, DoReturns(r) PROVE Deferrals' /\ Counted'
    <2>1. defers' = [defers EXCEPT ![r] = Append(@, "body")] /\ UNCHANGED used
        BY <1>6 DEF DoReturns
    <2>2. PICK to \in {"unwind", "sse", "prefix"} : pc' = [pc EXCEPT ![r] = to]
        BY <1>6 DEF DoReturns, Reject, Return, Goto
    <2>3. Deferrals'
        <3>1. "body" \in Calls /\ "body" \notin Slots
            BY DEF Calls, Slots
        <3>2. pc[r] = "do"
            BY <1>6 DEF DoReturns
        <3> QED
            BY <2>1, <2>2, <3>1, <3>2, PushKeeps
    <2>4. Counted'
        BY <2>1, CountOther
    <2> QED
        BY <2>3, <2>4
<1>7. ASSUME NEW r \in Requests, Unwind(r) PROVE Deferrals' /\ Counted'
    BY <1>7, UnwindKeeps
<1>8. ASSUME UNCHANGED <<pc, defers, used>> PROVE Deferrals' /\ Counted'
    BY <1>0, <1>8 DEF Deferrals, Has
<1>9. ASSUME NEW r \in Requests, RequestTimeout(r) \/ ClientLeaves(r)
      PROVE  Deferrals' /\ Counted'
    BY <1>8, <1>9 DEF RequestTimeout, ClientLeaves
<1>10. CASE UNCHANGED vars
    BY <1>8, <1>10 DEF vars
<1> QED
    BY <1>2, <1>3, <1>4, <1>5, <1>6, <1>7, <1>9, <1>10
    DEF Next, Handle, AwaitUpstream, AwaitClient

-----------------------------------------------------------------------------
(* The upstream call. *)

\* No upstream is called.
LEMMA CallInit == Init => Covered /\ Begun /\ CalledForACaller
BY DEF Init, NoVerdict, Covered, Begun, Has, CalledForACaller, Called, Waiting, NoLarge, Screened, Calling

\* The call begins with a route slot and a global slot, and ends before either is
\* released.
LEMMA CoveredStep ==
    TypeOK /\ Deferrals /\ Covered /\ CalledForACaller /\ [Next]_vars => Covered'
<1> SUFFICES ASSUME TypeOK, Deferrals, Covered, CalledForACaller, [Next]_vars
             PROVE  Covered'
    OBVIOUS
<1>1. ASSUME UNCHANGED <<defers, upstream>> PROVE Covered'
    BY <1>1 DEF Covered, Has, NextDeferred
<1>2. ASSUME NEW r \in Requests, upstream'[r] # "open",
             \A q \in Requests \ {r} : upstream'[q] = upstream[q] /\ defers'[q] = defers[q]
      PROVE  Covered'
    BY <1>2 DEF Covered, Has, NextDeferred
<1>3. ASSUME NEW r \in Requests, NEW slot \in Calls, NEW next, NEW code,
             Take(r, slot, next, code), UNCHANGED upstream, upstream[r] = "none"
      PROVE  Covered'
    <2>1. \A q \in Requests \ {r} : defers'[q] = defers[q]
        BY <1>3 DEF Take, TypeOK
    <2> QED
        BY <1>2, <1>3, <2>1
<1>4. ASSUME NEW r \in Requests, TakeGlobal(r) \/ Acquire(r) \/ CheckLength(r)
      PROVE  Covered'
    <2>1. upstream[r] = "none" /\ UNCHANGED upstream
        BY <1>4 DEF TakeGlobal, Acquire, CheckLength, CalledForACaller, Called,
                    Waiting, NoLarge, Screened
    <2>2. \/ UNCHANGED defers
          \/ \E slot \in Calls : \E next, code : Take(r, slot, next, code)
        BY <1>4 DEF TakeGlobal, Acquire, CheckLength, Calls, Slots
    <2> QED
        BY <1>1, <1>3, <2>1, <2>2
<1>5. ASSUME NEW r \in Requests, NEW call \in {"cancel", "body"},
             defers' = [defers EXCEPT ![r] = Append(@, call)], pc[r] \in Calling,
             \A q \in Requests \ {r} : upstream'[q] = upstream[q]
      PROVE  Covered'
    <2>1. call \in Calls
        BY DEF Calls
    <2>2. Has(r, "route") /\ Has(r, "global")
        BY <1>5 DEF Deferrals
    <2>3. Has(r, "route")' /\ Has(r, "global")'
        BY <1>5, <2>1, <2>2, PushedHas
    <2>4. NextDeferred(r)' = call /\ \A q \in Requests \ {r} : defers'[q] = defers[q]
        BY <1>5, <2>1, Pushed
    <2> QED
        BY <1>5, <2>3, <2>4 DEF Covered, Has, NextDeferred
<1>6. ASSUME NEW r \in Requests, Build(r) \/ DoReturns(r) PROVE Covered'
    <2>1. pc[r] \in Calling
        BY <1>6 DEF Build, DoReturns, Calling
    <2>2. \A q \in Requests \ {r} : upstream'[q] = upstream[q]
        BY <1>6 DEF Build, DoReturns, TypeOK
    <2>3. \/ UNCHANGED <<defers, upstream>>
          \/ \E call \in {"cancel", "body"} : defers' = [defers EXCEPT ![r] = Append(@, call)]
        BY <1>6 DEF Build, DoReturns
    <2> QED
        BY <1>1, <1>5, <2>1, <2>2, <2>3
<1>7. ASSUME NEW r \in Requests, DoFails(r) PROVE Covered'
    BY <1>2, <1>7 DEF DoFails, TypeOK
<1>8. ASSUME NEW r \in Requests, Unwind(r) PROVE Covered'
    <2>1. CASE defers[r] = <<>>
        BY <1>1, <1>8, <2>1 DEF Unwind
    <2>2. CASE defers[r] # <<>>
        <3>1. /\ Deferred(r, NextDeferred(r))
              /\ defers' = [defers EXCEPT ![r] = SubSeq(@, 1, Len(@) - 1)]
            BY <1>8, <2>2 DEF Unwind
        <3>2. \A q \in Requests \ {r} : upstream'[q] = upstream[q] /\ defers'[q] = defers[q]
            BY <3>1 DEF Deferred, TypeOK
        <3>3. upstream'[r] # "open"
            <4>1. CASE NextDeferred(r) \in Slots
                <5>1. NextDeferred(r) \notin {"cancel", "body"}
                    BY <4>1 DEF Slots
                <5> QED
                    BY <3>1, <4>1, <5>1 DEF Deferred, Covered
            <4>2. CASE NextDeferred(r) \notin Slots
                BY <3>1, <4>2 DEF Deferred, TypeOK
            <4> QED
                BY <4>1, <4>2
        <3> QED
            BY <1>2, <3>2, <3>3
    <2> QED
        BY <2>1, <2>2
<1>9. \/ UNCHANGED <<defers, upstream>>
      \/ \E r \in Requests :
            \/ TakeGlobal(r) \/ Acquire(r) \/ CheckLength(r) \/ Build(r)
            \/ DoReturns(r) \/ DoFails(r) \/ Unwind(r)
    BY DEF Next, Handle, AwaitUpstream, AwaitClient, Refuse, Arrive, Check, ReadBody,
           Audit, CheckClient, Stream, ReadPrefix, Send, RequestTimeout, ClientLeaves,
           vars
<1> QED
    BY <1>1, <1>4, <1>6, <1>7, <1>8, <1>9

\* A step of one request leaves the others alone.
LEMMA OnlyMine ==
    ASSUME TypeOK, Deferrals, NEW r \in Requests,
           \/ Arrive(r) \/ Refuse(r)
           \/ Handle(r) \/ AwaitUpstream(r) \/ AwaitClient(r) \/ Stream(r)
           \/ RequestTimeout(r) \/ ClientLeaves(r)
    PROVE  \A q \in Requests \ {r} :
              /\ pc'[q] = pc[q] /\ client'[q] = client[q] /\ cause'[q] = cause[q]
              /\ verdict'[q] = verdict[q] /\ upstream'[q] = upstream[q]
              /\ traces'[q] = traces[q] /\ reply'[q] = reply[q]
<1> USE DEF TypeOK, reqVars, Goto, Reject, Leave, Return, Finish, Write
<1>1. CASE Arrive(r) \/ Refuse(r) \/ Check(r) \/ ReadBody(r) \/ Audit(r) \/ CheckClient(r)
    BY <1>1 DEF Arrive, Refuse, Check, ReadBody, Audit, CheckClient
<1>2. CASE TakeGlobal(r) \/ CheckLength(r) \/ Acquire(r)
    BY <1>2 DEF TakeGlobal, CheckLength, Acquire, Take
<1>3. CASE Build(r) \/ DoReturns(r)
    BY <1>3 DEF Build, DoReturns
<1>4. CASE DoFails(r)
    BY <1>4 DEF DoFails
<1>5. CASE Stream(r) \/ ReadPrefix(r) \/ Send(r)
    BY <1>5 DEF Stream, ReadPrefix, Send
<1>6. CASE Unwind(r)
    BY <1>6 DEF Unwind, Deferred
<1>7. CASE RequestTimeout(r) \/ ClientLeaves(r)
    BY <1>7 DEF RequestTimeout, ClientLeaves
<1> QED
    BY <1>1, <1>2, <1>3, <1>4, <1>5, <1>6, <1>7 DEF Handle, AwaitUpstream, AwaitClient

\* Do begins the call before the cancellation and the body are deferred.
LEMMA BegunStep == TypeOK /\ Deferrals /\ Begun /\ [Next]_vars => Begun'
<1> SUFFICES ASSUME TypeOK, Deferrals, Begun, [Next]_vars PROVE Begun'
    OBVIOUS
<1> USE DEF Goto, Reject, Leave, Return
<1>1. ASSUME UNCHANGED <<defers, upstream>>,
             \A q \in Requests : pc'[q] = "do" => pc[q] = "do"
      PROVE  Begun'
    BY <1>1 DEF Begun, Has
<1>2. ASSUME NEW r \in Requests,
             \/ Arrive(r) \/ Refuse(r) \/ Check(r) \/ ReadBody(r) \/ Audit(r)
             \/ CheckClient(r) \/ Stream(r) \/ ReadPrefix(r) \/ Send(r)
             \/ RequestTimeout(r) \/ ClientLeaves(r)
      PROVE  Begun'
    <2>1. UNCHANGED <<defers, upstream>>
        BY <1>2 DEF Arrive, Refuse, Check, ReadBody, Audit, CheckClient, Stream,
                    ReadPrefix, Send, RequestTimeout, ClientLeaves
    <2>2. \A q \in Requests : pc'[q] = "do" => pc[q] = "do"
        BY <1>2 DEF Arrive, Refuse, Check, ReadBody, Audit, CheckClient, Stream,
                    ReadPrefix, Send, RequestTimeout, ClientLeaves, TypeOK
    <2> QED
        BY <1>1, <2>1, <2>2
<1>3. ASSUME NEW r \in Requests, TakeGlobal(r) \/ CheckLength(r) \/ Acquire(r)
      PROVE  Begun'
    <2>1. UNCHANGED upstream /\ \A q \in Requests : pc'[q] = "do" => pc[q] = "do"
        BY <1>3 DEF TakeGlobal, CheckLength, Acquire, Take, TypeOK
    <2>2. \/ UNCHANGED defers
          \/ \E slot \in Slots : defers' = [defers EXCEPT ![r] = Append(@, slot)]
        BY <1>3 DEF TakeGlobal, CheckLength, Acquire, Take, Slots
    <2>3. ASSUME NEW slot \in Slots, defers' = [defers EXCEPT ![r] = Append(@, slot)]
          PROVE  Begun'
        <3>1. slot \in Calls /\ slot \notin {"cancel", "body"}
            BY DEF Calls, Slots
        <3>2. \A q \in Requests : \A c \in {"cancel", "body"} : Has(q, c)' => Has(q, c)
            BY <2>3, <3>1, PushedHas
        <3> QED
            BY <2>1, <3>2 DEF Begun
    <2> QED
        BY <1>1, <2>1, <2>2, <2>3
<1>4. ASSUME NEW r \in Requests, Build(r) \/ DoFails(r) PROVE Begun'
    <2>1. CASE UNCHANGED <<defers, upstream>> /\ pc' = [pc EXCEPT ![r] = "unwind"]
        BY <1>1, <2>1 DEF TypeOK
    <2>2. CASE upstream' = [upstream EXCEPT ![r] = "open"]
               \/ upstream' = [upstream EXCEPT ![r] = "closed"]
        <3>1. upstream'[r] # "none" /\ \A q \in Requests \ {r} : upstream'[q] = upstream[q]
            BY <2>2 DEF TypeOK
        <3>2. \A q \in Requests \ {r} : pc'[q] = pc[q] /\ defers'[q] = defers[q]
            BY <1>4 DEF Build, DoFails, TypeOK
        <3> QED
            BY <3>1, <3>2 DEF Begun, Has
    <2> QED
        BY <1>4, <2>1, <2>2 DEF Build, DoFails
<1>5. ASSUME NEW r \in Requests, DoReturns(r) PROVE Begun'
    <2>1. UNCHANGED upstream /\ upstream[r] # "none"
        BY <1>5 DEF DoReturns, Begun
    <2>2. \A q \in Requests \ {r} : pc'[q] = pc[q] /\ defers'[q] = defers[q]
        BY <1>5 DEF DoReturns, TypeOK
    <2> QED
        BY <2>1, <2>2 DEF Begun, Has
<1>6. ASSUME NEW r \in Requests, Unwind(r) PROVE Begun'
    <2>1. CASE defers[r] = <<>>
        BY <1>1, <1>6, <2>1 DEF Unwind, TypeOK
    <2>2. CASE defers[r] # <<>>
        <3>1. /\ Deferred(r, NextDeferred(r)) /\ UNCHANGED pc
              /\ defers' = [defers EXCEPT ![r] = SubSeq(@, 1, Len(@) - 1)]
            BY <1>6, <2>2 DEF Unwind
        <3>2. /\ \A c : Has(r, c)' => Has(r, c)
              /\ \A q \in Requests \ {r} : \A c : Has(q, c)' <=> Has(q, c)
            BY <2>2, <3>1, PoppedHas
        <3>3. \A q \in Requests : upstream'[q] = "none" => upstream[q] = "none"
            BY <3>1 DEF Deferred, TypeOK
        <3> QED
            BY <3>1, <3>2, <3>3 DEF Begun
    <2> QED
        BY <2>1, <2>2
<1>7. CASE UNCHANGED vars
    BY <1>1, <1>7 DEF vars
<1> QED
    BY <1>2, <1>3, <1>4, <1>5, <1>6, <1>7 DEF Next, Handle, AwaitUpstream, AwaitClient

\* The client is looked at between the audit and the call.
LEMMA CalledStep ==
    TypeOK /\ Deferrals /\ Begun /\ CalledForACaller /\ [Next]_vars => CalledForACaller'
<1> SUFFICES ASSUME TypeOK, Deferrals, Begun, CalledForACaller, [Next]_vars
             PROVE  CalledForACaller'
    OBVIOUS
<1>1. CASE UNCHANGED vars
    BY <1>1 DEF vars, CalledForACaller, Called
<1>2. ASSUME NEW r \in Requests,
             \/ Arrive(r) \/ Refuse(r)
             \/ Handle(r) \/ AwaitUpstream(r) \/ AwaitClient(r) \/ Stream(r)
             \/ RequestTimeout(r) \/ ClientLeaves(r)
      PROVE  CalledForACaller'
    <2>1. \A q \in Requests \ {r} : Called(q)'
        BY <1>2, OnlyMine DEF CalledForACaller, Called
    <2> SUFFICES Called(r)'
        BY <2>1 DEF CalledForACaller
    <2>2. Called(r)
        BY DEF CalledForACaller
    <2> USE DEF Called, TypeOK, reqVars, Waiting, NoLarge, Screened, Calling,
                Goto, Reject, Leave, Return
    <2>3. CASE Arrive(r) \/ Refuse(r) \/ Check(r) \/ ReadBody(r)
        BY <2>2, <2>3 DEF Arrive, Refuse, Check, ReadBody
    <2>4. CASE TakeGlobal(r) \/ CheckLength(r) \/ Acquire(r)
        BY <2>2, <2>4 DEF TakeGlobal, CheckLength, Acquire, Take
    <2>5. CASE Audit(r)
        <3>1. /\ verdict'[r].client = client[r] /\ UNCHANGED <<client, upstream>>
              /\ pc[r] = "audit" /\ upstream[r] = "none"
              /\ \/ pc'[r] = "unwind"
                 \/ pc'[r] = "present" /\ verdict'[r].decision = "allow"
            BY <2>2, <2>5 DEF Audit
        <3> QED
            BY <3>1
    <2>6. CASE CheckClient(r)
        <3>1. CASE client[r] = "gone"
            BY <2>2, <2>6, <3>1 DEF CheckClient
        <3>2. CASE client[r] # "gone"
            <4>1. verdict[r].client = "up" /\ verdict[r].decision = "allow"
                BY <2>2, <2>6, <3>2 DEF CheckClient
            <4>2. verdict[r] = [decision |-> "allow", client |-> "up"]
                BY <4>1
            <4> QED
                BY <2>2, <2>6, <3>2, <4>2 DEF CheckClient
        <3> QED
            BY <3>1, <3>2
    <2>7. CASE Build(r) \/ DoFails(r) \/ DoReturns(r)
        BY <2>2, <2>7 DEF Build, DoFails, DoReturns
    <2>8. CASE Stream(r) \/ ReadPrefix(r) \/ Send(r)
        BY <2>2, <2>8 DEF Stream, ReadPrefix, Send
    <2>9. CASE Unwind(r)
        <3>1. CASE defers[r] = <<>>
            BY <2>2, <2>9, <3>1 DEF Unwind
        <3>2. CASE defers[r] # <<>>
            <4>1. Has(r, NextDeferred(r))
                BY <2>9, <3>2, PoppedHas DEF Unwind
            <4>2. NextDeferred(r) \in Calls
                BY <2>9, <3>2, Popped DEF Unwind
            <4>3. NextDeferred(r) \notin Slots => upstream[r] # "none"
                BY <4>1, <4>2 DEF Begun, Calls
            <4> QED
                BY <2>2, <2>9, <3>2, <4>3 DEF Unwind, Deferred
        <3> QED
            BY <3>1, <3>2
    <2>10. CASE RequestTimeout(r) \/ ClientLeaves(r)
        BY <2>2, <2>10 DEF RequestTimeout, ClientLeaves
    <2> QED
        BY <1>2, <2>3, <2>4, <2>5, <2>6, <2>7, <2>8, <2>9, <2>10
        DEF Handle, AwaitUpstream, AwaitClient
<1> QED
    BY <1>1, <1>2 DEF Next

-----------------------------------------------------------------------------
(* Traces and answers. *)

\* The one call of finish that gets through, with the answer it reports.
LEMMA EndIsRecorded ==
    ASSUME TypeOK, NEW r \in Requests, Record(r), pc[r] \notin Over,
           NEW d \in {"allow", "block", "error"}, NEW c \in Codes, NEW s \in Nat,
           Finish(r, d, c, s), Return(r), UNCHANGED client,
           reply'[r] = <<s>> \/ (reply'[r] = <<>> /\ c = "CLIENT_DISCONNECT")
    PROVE  Record(r)'
<1>1. traces'[r] = <<[decision |-> d, code |-> c, status |-> s]>>
    BY DEF Finish, TypeOK, Record
<1>2. pc'[r] = "unwind"
    BY DEF Return, TypeOK
<1>3. Settled(r)'
    BY <1>1 DEF Settled
<1> QED
    BY <1>2, <1>3 DEF Record, Over

\* The first status written is the whole reply.
LEMMA FirstAnswer ==
    ASSUME TypeOK, NEW r \in Requests, reply[r] = <<>>, NEW s \in Nat, Write(r, s)
    PROVE  reply'[r] = <<s>>
BY DEF Write, TypeOK

\* A rejection records the status it writes.
LEMMA RejectIsRecorded ==
    ASSUME TypeOK, NEW r \in Requests, Record(r), pc[r] \notin Over \cup {"whole", "copy"},
           NEW d \in {"allow", "block", "error"}, NEW c \in Codes, NEW s \in Nat,
           Reject(r, d, c, s), UNCHANGED client
    PROVE  Record(r)'
<1>1. reply'[r] = <<s>>
    BY FirstAnswer DEF Reject, Record
<1> QED
    BY <1>1, EndIsRecorded DEF Reject

\* A caller that is gone is recorded as a disconnect, and nothing was written.
LEMMA LeaveIsRecorded ==
    ASSUME TypeOK, NEW r \in Requests, Record(r), pc[r] \notin Over \cup {"whole", "copy"},
           client[r] = "gone", Leave(r), UNCHANGED client
    PROVE  Record(r)'
<1>1. reply'[r] = <<>> /\ "CLIENT_DISCONNECT" \in Codes
    BY DEF Leave, Record, Codes
<1> QED
    BY <1>1, EndIsRecorded DEF Leave

\* A stage that neither answers nor records, and leaves requestContext alone.
LEMMA GotoIsRecorded ==
    ASSUME TypeOK, NEW r \in Requests, Record(r), pc[r] \notin Over \cup {"whole", "copy"},
           NEW to \in Stages \ (Over \cup {"whole", "copy"}), Goto(r, to),
           UNCHANGED <<client, cause>>
    PROVE  Record(r)'
<1>1. pc'[r] = to /\ traces'[r] = traces[r] /\ reply'[r] = reply[r]
    BY DEF Goto, TypeOK
<1> QED
    BY <1>1 DEF Record, Over

\* A slot is taken without a word, or its refusal is recorded as the 503 it writes.
LEMMA TakeIsRecorded ==
    ASSUME TypeOK, NEW r \in Requests, Record(r), pc[r] \notin Over \cup {"whole", "copy"},
           NEW slot, NEW next \in Stages \ (Over \cup {"whole", "copy"}),
           NEW code \in Codes, Take(r, slot, next, code), UNCHANGED <<client, cause>>
    PROVE  Record(r)'
<1>1. CASE Goto(r, next)
    BY <1>1, GotoIsRecorded
<1>2. CASE Reject(r, "error", code, 503)
    BY <1>2, RejectIsRecorded
<1> QED
    BY <1>1, <1>2 DEF Take

\* Nothing is recorded before a request arrives.
LEMMA RecordInit == Init => Recorded
BY DEF Init, Recorded, Record, Over

\* Every return of ServeHTTP records once, and what it records is what it wrote.
LEMMA RecordStep ==
    TypeOK /\ Deferrals /\ Recorded /\ [Next]_vars => Recorded'
<1> SUFFICES ASSUME TypeOK, Deferrals, Recorded, [Next]_vars PROVE Recorded'
    OBVIOUS
<1>1. CASE UNCHANGED vars
    BY <1>1 DEF vars, Recorded, Record, Settled
<1>2. ASSUME NEW r \in Requests,
             \/ Arrive(r) \/ Refuse(r)
             \/ Handle(r) \/ AwaitUpstream(r) \/ AwaitClient(r) \/ Stream(r)
             \/ RequestTimeout(r) \/ ClientLeaves(r)
      PROVE  Recorded'
    <2>1. \A q \in Requests \ {r} : Record(q)'
        BY <1>2, OnlyMine DEF Recorded, Record, Settled
    <2> SUFFICES Record(r)'
        BY <2>1 DEF Recorded
    <2>2. Record(r)
        BY DEF Recorded
    <2> DEFINE Early == Stages \ (Over \cup {"whole", "copy"})
    <2>3. {"check", "global", "length", "read", "audit", "present", "slot", "build",
           "do", "sse", "prefix"} \subseteq Early
        BY DEF Stages, Over
    <2>4. "idle" \notin Over \cup {"whole", "copy"}
        BY DEF Over
    <2>5. CASE Refuse(r)
        <3>1. reply[r] = <<>> /\ traces[r] = <<>>
            BY <2>2, <2>4, <2>5 DEF Refuse, Record
        <3>2. reply'[r] = <<405>>
            BY <2>5, <3>1, FirstAnswer DEF Refuse
        <3>3. pc'[r] = "unwind"
            BY <2>5 DEF Refuse, Return, TypeOK
        <3>4. traces'[r] = <<>>
            BY <2>5, <3>1 DEF Refuse
        <3> QED
            BY <3>2, <3>3, <3>4 DEF Record, Settled, Over
    <2>6. CASE Arrive(r)
        BY <2>2, <2>3, <2>4, <2>6, GotoIsRecorded DEF Arrive
    <2>7. CASE Check(r)
        <3>1. {"ROUTE_NOT_FOUND", "GATEWAY_AUTH_FAILED", "RATE_LIMITED"} \subseteq Codes
            BY DEF Codes
        <3>2. pc[r] \in Early /\ UNCHANGED <<client, cause>>
            BY <2>3, <2>7 DEF Check
        <3> QED
            BY <2>2, <2>3, <2>7, <3>1, <3>2, GotoIsRecorded, RejectIsRecorded DEF Check
    <2>8. CASE TakeGlobal(r) \/ Acquire(r)
        <3>1. {"GATEWAY_OVERLOADED", "ROUTE_CONCURRENCY_LIMITED"} \subseteq Codes
            BY DEF Codes
        <3>2. pc[r] \in Early /\ UNCHANGED <<client, cause>>
            BY <2>3, <2>8 DEF TakeGlobal, Acquire
        <3> QED
            BY <2>2, <2>3, <2>8, <3>1, <3>2, TakeIsRecorded DEF TakeGlobal, Acquire
    <2>9. CASE CheckLength(r)
        <3>1. {"REQUEST_TOO_LARGE", "LARGE_REQUEST_CONCURRENCY_LIMITED"} \subseteq Codes
            BY DEF Codes
        <3>2. pc[r] \in Early /\ UNCHANGED <<client, cause>>
            BY <2>3, <2>9 DEF CheckLength
        <3> QED
            BY <2>2, <2>3, <2>9, <3>1, <3>2, TakeIsRecorded, GotoIsRecorded,
               RejectIsRecorded DEF CheckLength
    <2>10. CASE ReadBody(r)
        <3>1. {"REQUEST_READ_ERROR", "REQUEST_TOO_LARGE"} \subseteq Codes
            BY DEF Codes
        <3>2. pc[r] \in Early /\ UNCHANGED <<client, cause>>
            BY <2>3, <2>10 DEF ReadBody
        <3> QED
            BY <2>2, <2>3, <2>10, <3>1, <3>2, GotoIsRecorded, RejectIsRecorded
            DEF ReadBody
    <2>11. CASE Audit(r)
        <3>1. "CYBER_POLICY_BLOCK" \in Codes
            BY DEF Codes
        <3>2. pc[r] \in Early /\ UNCHANGED <<client, cause>>
            BY <2>3, <2>11 DEF Audit
        <3> QED
            BY <2>2, <2>3, <2>11, <3>1, <3>2, GotoIsRecorded, RejectIsRecorded
            DEF Audit
    <2>12. CASE CheckClient(r)
        <3>1. pc[r] \in Early /\ UNCHANGED <<client, cause>>
            BY <2>3, <2>12 DEF CheckClient
        <3> QED
            BY <2>2, <2>3, <2>12, <3>1, GotoIsRecorded, LeaveIsRecorded
            DEF CheckClient
    <2>13. CASE Build(r)
        <3>1. "GATEWAY_CONFIG_ERROR" \in Codes
            BY DEF Codes
        <3>2. pc[r] \in Early /\ UNCHANGED client
            BY <2>3, <2>13 DEF Build
        <3>3. CASE /\ cause' = [cause EXCEPT ![r] = IF client[r] = "gone" THEN "canceled"
                                                     ELSE "live"]
                   /\ Goto(r, "do")
            <4>1. /\ pc'[r] = "do" /\ traces'[r] = traces[r] /\ reply'[r] = reply[r]
                  /\ cause'[r] = "canceled" => client[r] = "gone"
                BY <3>3 DEF Goto, TypeOK
            <4> QED
                BY <2>2, <3>2, <4>1 DEF Record, Over
        <3> QED
            BY <2>2, <2>13, <3>1, <3>2, <3>3, RejectIsRecorded DEF Build
    <2>14. CASE DoFails(r)
        <3>1. \A b \in BOOLEAN : DoCode(r, b) \in Codes
            BY DEF DoCode, Codes
        <3>2. pc[r] \in Early /\ UNCHANGED <<client, cause>>
            BY <2>3, <2>14 DEF DoFails
        <3>3. PICK b \in BOOLEAN :
                 IF DoCode(r, b) = "CLIENT_DISCONNECT" THEN Leave(r)
                 ELSE Reject(r, "error", DoCode(r, b), 555)
            BY <2>14 DEF DoFails
        <3>4. CASE DoCode(r, b) = "CLIENT_DISCONNECT"
            <4>1. cause[r] = "canceled"
                BY <3>4 DEF DoCode
            <4>2. client[r] = "gone"
                BY <2>2, <3>2, <4>1 DEF Record
            <4> QED
                BY <2>2, <3>2, <3>3, <3>4, <4>2, LeaveIsRecorded
        <3>5. CASE DoCode(r, b) # "CLIENT_DISCONNECT"
            <4>1. DoCode(r, b) \in Codes
                BY <3>1
            <4> QED
                BY <2>2, <3>2, <3>3, <3>5, <4>1, RejectIsRecorded
        <3> QED
            BY <3>4, <3>5
    <2>15. CASE DoReturns(r)
        <3>1. "UPSTREAM_MODEL_ERROR" \in Codes
            BY DEF Codes
        <3>2. pc[r] \in Early /\ UNCHANGED <<client, cause>>
            BY <2>3, <2>15 DEF DoReturns
        <3> QED
            BY <2>2, <2>3, <2>15, <3>1, <3>2, GotoIsRecorded, RejectIsRecorded
            DEF DoReturns
    <2>16. CASE Stream(r)
        <3>1. /\ NoCode \in Codes /\ "CLIENT_DISCONNECT" \in Codes
              /\ {"UPSTREAM_STREAM_ERROR", "UPSTREAM_STREAM_TIMEOUT",
                  "UPSTREAM_STREAM_INTERRUPTED"} \subseteq Codes
            BY DEF Codes
        <3>2. pc[r] \in Early /\ UNCHANGED <<client, cause>> /\ Return(r)
            BY <2>3, <2>16 DEF Stream
        <3>3. reply[r] = <<>>
            BY <2>2, <3>2 DEF Record
        <3>4. ASSUME NEW d \in {"allow", "error"}, NEW c \in Codes, NEW s \in {200, 555},
                     Write(r, s), Finish(r, d, c, s)
              PROVE  Record(r)'
            <4>1. reply'[r] = <<s>> /\ s \in Nat
                BY <3>3, <3>4, FirstAnswer
            <4> QED
                BY <2>2, <3>2, <3>4, <4>1, EndIsRecorded
        <3>5. CASE UNCHANGED reply /\ Finish(r, "error", "CLIENT_DISCONNECT", 555)
            BY <2>2, <3>1, <3>2, <3>3, <3>5, EndIsRecorded
        <3> QED
            BY <2>16, <3>1, <3>4, <3>5 DEF Stream
    <2>17. CASE ReadPrefix(r)
        <3>1. {"UPSTREAM_READ_ERROR", "UPSTREAM_MODEL_ERROR"} \subseteq Codes
            BY DEF Codes
        <3>2. pc[r] \in Early /\ UNCHANGED <<client, cause>>
            BY <2>3, <2>17 DEF ReadPrefix
        <3>3. ASSUME NEW next \in {"whole", "copy"}, Write(r, 200),
                     pc' = [pc EXCEPT ![r] = next], UNCHANGED traces
              PROVE  Record(r)'
            <4>1. reply'[r] = <<200>> /\ pc'[r] = next
                BY <2>2, <3>2, <3>3, FirstAnswer DEF Record, TypeOK
            <4> QED
                BY <2>2, <3>2, <3>3, <4>1 DEF Record, Over
        <3> QED
            BY <2>2, <2>17, <3>1, <3>2, <3>3, RejectIsRecorded DEF ReadPrefix
    <2>18. CASE Send(r)
        <3>1. NoCode \in Codes /\ "CLIENT_DISCONNECT" \in Codes
            BY DEF Codes
        <3>2. /\ pc[r] \in {"whole", "copy"} /\ Return(r)
              /\ UNCHANGED <<client, cause, reply>>
            BY <2>18 DEF Send
        <3>3. pc[r] \notin Over /\ reply'[r] = <<200>>
            BY <2>2, <3>2 DEF Record, Over
        <3> QED
            BY <2>2, <2>18, <3>1, <3>2, <3>3, EndIsRecorded DEF Send
    <2>19. CASE Unwind(r)
        <3>1. pc[r] \in Over /\ pc'[r] \in Over /\ UNCHANGED <<client, traces, reply>>
            BY <2>19 DEF Unwind, Over, TypeOK
        <3> QED
            BY <2>2, <3>1 DEF Record, Settled, Over
    <2>20. CASE RequestTimeout(r) \/ ClientLeaves(r)
        <3>1. /\ UNCHANGED <<pc, traces, reply>>
              /\ client[r] = "gone" => client'[r] = "gone"
              /\ cause'[r] = "canceled" => cause[r] = "canceled" \/ client'[r] = "gone"
            BY <2>20 DEF RequestTimeout, ClientLeaves, TypeOK
        <3> QED
            BY <2>2, <3>1 DEF Record, Settled
    <2> QED
        BY <1>2, <2>5, <2>6, <2>7, <2>8, <2>9, <2>10, <2>11, <2>12, <2>13, <2>14,
           <2>15, <2>16, <2>17, <2>18, <2>19, <2>20
        DEF Handle, AwaitUpstream, AwaitClient
<1> QED
    BY <1>1, <1>2 DEF Next

-----------------------------------------------------------------------------
(* The theorems. *)

\* Every step of every request keeps the inductive invariant.
LEMMA Invariance == Spec => []IInv
<1>1. Init => IInv
    BY TypeInit, DeferInit, CallInit, RecordInit DEF IInv
<1>2. IInv /\ [Next]_vars => IInv'
    BY TypeStep, DeferStep, CoveredStep, BegunStep, CalledStep, RecordStep DEF IInv
<1> QED
    BY <1>1, <1>2, PTL DEF Spec

\* Whichever return of ServeHTTP the requests leave through, the counters of the
\* slots are exactly the requests that will release them, an open upstream call is
\* covered by its slots, and a finished request holds nothing.
THEOREM EverySlotIsHeld == Spec => []SlotsAreHeld
<1>1. IInv => SlotsAreHeld
    BY DEF IInv, SlotsAreHeld, UpstreamIsCovered, Covered, Counted, Deferrals
<1> QED
    BY <1>1, Invariance, PTL

\* ServeHTTP calls the upstream only for a request that the audit allowed while
\* its caller was there.
THEOREM NoUpstreamIsOrphaned == Spec => []NoOrphanedUpstream
<1>1. IInv => NoOrphanedUpstream
    BY DEF IInv, NoOrphanedUpstream, CalledForACaller, Called
<1> QED
    BY <1>1, Invariance, PTL

\* A step that records a trace blames the caller only if it has left or a copy
\* broke, and the connection only while nobody had ended the request.
LEMMA BlameStep ==
    ASSUME IInv, [Next]_vars
    PROVE  \A r \in Requests : BlamesRightly(r)
<1>1. CASE UNCHANGED vars
    BY <1>1 DEF vars, BlamesRightly
<1>2. ASSUME NEW r \in Requests,
             \/ Arrive(r) \/ Refuse(r)
             \/ Handle(r) \/ AwaitUpstream(r) \/ AwaitClient(r) \/ Stream(r)
             \/ RequestTimeout(r) \/ ClientLeaves(r)
      PROVE  \A q \in Requests : BlamesRightly(q)
    <2>1. \A q \in Requests \ {r} : BlamesRightly(q)
        BY <1>2, OnlyMine DEF IInv, BlamesRightly
    <2> SUFFICES BlamesRightly(r)
        BY <2>1
    <2>2. Record(r)
        BY DEF IInv, Recorded
    <2>3. ASSUME NEW d, NEW c, NEW s, Finish(r, d, c, s), traces'[r] # traces[r]
          PROVE  traces'[r][1].code = c
        BY <2>3 DEF Finish, IInv, TypeOK
    <2>4. ASSUME NEW d, NEW c, NEW s, Finish(r, d, c, s), traces'[r] # traces[r],
                 c \notin {"CLIENT_DISCONNECT", "UPSTREAM_CONNECTION_ERROR"}
          PROVE  BlamesRightly(r)
        BY <2>3, <2>4 DEF BlamesRightly
    <2>5. ASSUME NEW d, NEW s, Finish(r, d, "CLIENT_DISCONNECT", s),
                 client[r] = "gone" \/ pc[r] = "copy"
          PROVE  BlamesRightly(r)
        BY <2>3, <2>5 DEF BlamesRightly
    <2>6. traces'[r] = traces[r] => BlamesRightly(r)
        BY DEF BlamesRightly
    <2>7. NoCode \notin {"CLIENT_DISCONNECT", "UPSTREAM_CONNECTION_ERROR"}
        BY Zenon DEF NoCode
    <2>8. CASE Arrive(r) \/ Refuse(r) \/ Unwind(r) \/ RequestTimeout(r) \/ ClientLeaves(r)
        BY <2>6, <2>8 DEF Arrive, Refuse, Unwind, RequestTimeout, ClientLeaves, Goto
    <2>9. CASE Check(r) \/ TakeGlobal(r) \/ CheckLength(r) \/ Acquire(r)
        BY <2>4, <2>6, <2>9 DEF Check, TakeGlobal, CheckLength, Acquire, Take, Goto, Reject
    <2>10. CASE ReadBody(r) \/ Audit(r) \/ Build(r) \/ DoReturns(r) \/ ReadPrefix(r)
        BY <2>4, <2>6, <2>10 DEF ReadBody, Audit, Build, DoReturns, ReadPrefix, Goto, Reject
    <2>11. CASE CheckClient(r)
        BY <2>5, <2>6, <2>11 DEF CheckClient, Goto, Leave
    <2>12. CASE DoFails(r)
        <3>1. PICK b \in BOOLEAN :
                 IF DoCode(r, b) = "CLIENT_DISCONNECT" THEN Leave(r)
                 ELSE Reject(r, "error", DoCode(r, b), 555)
            BY <2>12 DEF DoFails
        <3>2. cause[r] = "canceled" => client[r] = "gone"
            BY <2>2, <2>12 DEF DoFails, Record, Over
        <3>3. /\ DoCode(r, b) = "CLIENT_DISCONNECT" => cause[r] = "canceled"
              /\ DoCode(r, b) = "UPSTREAM_CONNECTION_ERROR" => cause[r] \notin {"timeout", "canceled"}
            BY DEF DoCode
        <3>4. CASE DoCode(r, b) = "CLIENT_DISCONNECT"
            BY <2>5, <3>1, <3>2, <3>3, <3>4 DEF Leave
        <3>5. CASE DoCode(r, b) # "CLIENT_DISCONNECT"
            <4>1. Finish(r, "error", DoCode(r, b), 555)
                BY <3>1, <3>5 DEF Reject
            <4>2. traces'[r] # traces[r] => traces'[r][1].code = DoCode(r, b)
                BY <2>3, <4>1
            <4> QED
                BY <3>3, <3>5, <4>2 DEF BlamesRightly
        <3> QED
            BY <3>4, <3>5
    <2>13. CASE Stream(r)
        BY <2>4, <2>5, <2>6, <2>7, <2>13 DEF Stream
    <2>14. CASE Send(r)
        BY <2>4, <2>5, <2>6, <2>7, <2>14 DEF Send
    <2> QED
        BY <1>2, <2>8, <2>9, <2>10, <2>11, <2>12, <2>13, <2>14
        DEF Handle, AwaitUpstream, AwaitClient
<1> QED
    BY <1>1, <1>2 DEF Next

\* The closure finish leaves one trace per request, with the status that the caller
\* was answered; and it blames a caller that stayed only when the copy of a long
\* body broke, and the connection to the upstream never for a caller that left.
THEOREM TracesTellTheAnswer == Spec => TraceTellsTheAnswer
<1>1. IInv => \A r \in Requests : TracedOnce(r)
    <2> SUFFICES ASSUME IInv, NEW r \in Requests
                 PROVE  TracedOnce(r)
        OBVIOUS
    <2>1. pc[r] = "done" => Settled(r)
        BY DEF IInv, Recorded, Record, Over
    <2>2. CASE Len(traces[r]) = 1 /\ reply[r] = <<traces[r][1].status>>
        <3>1. reply[r] # <<>> /\ Len(reply[r]) = 1 /\ reply[r][1] = traces[r][1].status
            BY <2>2
        <3> QED
            BY <2>2, <3>1 DEF TracedOnce
    <2>3. CASE /\ Len(traces[r]) = 1 /\ reply[r] = <<>>
               /\ traces[r][1].code = "CLIENT_DISCONNECT"
        BY <2>3 DEF TracedOnce
    <2> QED
        BY <2>1, <2>2, <2>3 DEF Settled, TracedOnce
<1>2. IInv /\ [Next]_vars => [\A r \in Requests : BlamesRightly(r)]_vars
    BY BlameStep
<1> QED
    BY <1>1, <1>2, Invariance, PTL DEF Spec, TraceTellsTheAnswer

-----------------------------------------------------------------------------
(* No request goes round in circles.                                       *)

\* The stages in the order of ServeHTTP: every one leads to a later one.
Rank(stage) ==
    CASE stage = "idle"    -> 14
      [] stage = "check"   -> 13
      [] stage = "global"  -> 12
      [] stage = "length"  -> 11
      [] stage = "read"    -> 10
      [] stage = "audit"   -> 9
      [] stage = "present" -> 8
      [] stage = "slot"    -> 7
      [] stage = "build"   -> 6
      [] stage = "do"      -> 5
      [] stage = "sse"     -> 4
      [] stage = "prefix"  -> 3
      [] stage \in {"whole", "copy"} -> 2
      [] stage = "unwind"  -> 1
      [] stage = "done"    -> 0

\* What the goroutine of a request may still do: its stages, each of which may
\* defer one call more, and the calls it has deferred.
StepsLeft(r) == 2 * Rank(pc[r]) + Len(defers[r])

\* The steps of the goroutine, and not those of its timer or of its caller.
HandlerStep(r) ==
    Arrive(r) \/ Refuse(r) \/ Handle(r) \/ AwaitUpstream(r) \/ AwaitClient(r) \/ Stream(r)

StepsAreSpent ==
    \A r \in Requests :
        /\ StepsLeft(r) \in Nat
        /\ StepsLeft(r)' <= StepsLeft(r)
        /\ HandlerStep(r) => StepsLeft(r)' < StepsLeft(r)

\* A stage leads to a later one, by way of at most one defer.
Onward(r) ==
    /\ Rank(pc'[r]) < Rank(pc[r])
    /\ \/ UNCHANGED defers
       \/ \E call \in Calls : defers' = [defers EXCEPT ![r] = Append(@, call)]

\* The ranks of the stages are numbers, and a return is later than every stage.
LEMMA RankTypes ==
    /\ \A stage \in Stages : Rank(stage) \in Nat
    /\ \A stage \in Stages \ Over : Rank("unwind") < Rank(stage)
BY DEF Rank, Stages, Over

\* A stage that takes a slot goes on or returns.
LEMMA TakeAdvances ==
    ASSUME TypeOK, NEW r \in Requests, NEW slot \in Slots, NEW next, NEW code,
           Take(r, slot, next, code), pc[r] \in Stages \ Over,
           Rank(next) < Rank(pc[r])
    PROVE  Onward(r)
<1>1. CASE defers' = [defers EXCEPT ![r] = Append(@, slot)] /\ Goto(r, next)
    BY <1>1 DEF Goto, TypeOK, Onward, Calls
<1>2. CASE Reject(r, "error", code, 503) /\ UNCHANGED defers
    BY <1>2, RankTypes DEF Reject, Return, TypeOK, Onward
<1> QED
    BY <1>1, <1>2 DEF Take

\* Every step of a handler but the deferred calls goes on to a later stage.
LEMMA HandlerAdvances ==
    ASSUME TypeOK, NEW r \in Requests, HandlerStep(r), ~(Unwind(r) /\ defers[r] # <<>>)
    PROVE  Onward(r)
<1> USE DEF reqVars
<1>0. pc \in [Requests -> Stages]
    BY DEF TypeOK
<1>1. CASE TakeGlobal(r)
    <2>1. Rank("length") < Rank("global") /\ pc[r] = "global" /\ "global" \in Stages \ Over
        BY <1>1 DEF TakeGlobal, Rank, Stages, Over
    <2> QED
        BY <1>1, <2>1, TakeAdvances DEF TakeGlobal, Slots
<1>2. CASE Acquire(r)
    <2>1. Rank("build") < Rank("slot") /\ pc[r] = "slot" /\ "slot" \in Stages \ Over
        BY <1>2 DEF Acquire, Rank, Stages, Over
    <2> QED
        BY <1>2, <2>1, TakeAdvances DEF Acquire, Slots
<1>3. CASE CheckLength(r)
    <2>1. Rank("read") < Rank("length") /\ pc[r] = "length" /\ "length" \in Stages \ Over
        BY <1>3 DEF CheckLength, Rank, Stages, Over
    <2>2. CASE Take(r, "large", "read", "LARGE_REQUEST_CONCURRENCY_LIMITED")
        BY <2>1, <2>2, TakeAdvances DEF Slots
    <2>3. CASE Goto(r, "read") /\ UNCHANGED defers
        BY <1>0, <2>1, <2>3 DEF Goto, Onward
    <2>4. CASE Reject(r, "error", "REQUEST_TOO_LARGE", 555) /\ UNCHANGED defers
        BY <1>0, <2>1, <2>4, RankTypes DEF Reject, Return, Onward
    <2> QED
        BY <1>3, <2>2, <2>3, <2>4 DEF CheckLength
<1>4. CASE /\ UNCHANGED defers
           /\ pc' = [pc EXCEPT ![r] = "unwind"] /\ pc[r] \in Stages \ Over
    BY <1>0, <1>4, RankTypes DEF Onward
<1>5. CASE Refuse(r) \/ Stream(r) \/ Send(r) \/ DoFails(r)
    <2>1. UNCHANGED defers /\ pc[r] \in Stages \ Over
        BY <1>5 DEF Refuse, Stream, Send, DoFails, Stages, Over
    <2>2. pc' = [pc EXCEPT ![r] = "unwind"]
        BY <1>5 DEF Refuse, Stream, Send, DoFails, Return, Reject, Leave
    <2> QED
        BY <1>4, <2>1, <2>2
<1>6. CASE Arrive(r) \/ Check(r) \/ ReadBody(r) \/ Audit(r) \/ CheckClient(r) \/ ReadPrefix(r)
    <2>1. UNCHANGED defers /\ pc[r] \in Stages \ Over
        BY <1>6 DEF Arrive, Check, ReadBody, Audit, CheckClient, ReadPrefix, Stages, Over
    <2>2. \/ pc' = [pc EXCEPT ![r] = "unwind"]
          \/ pc[r] = "idle" /\ pc' = [pc EXCEPT ![r] = "check"]
          \/ pc[r] = "check" /\ pc' = [pc EXCEPT ![r] = "global"]
          \/ pc[r] = "read" /\ pc' = [pc EXCEPT ![r] = "audit"]
          \/ pc[r] = "audit" /\ pc' = [pc EXCEPT ![r] = "present"]
          \/ pc[r] = "present" /\ pc' = [pc EXCEPT ![r] = "slot"]
          \/ pc[r] = "prefix" /\ \E next \in {"whole", "copy"} : pc' = [pc EXCEPT ![r] = next]
        BY <1>6
        DEF Arrive, Check, ReadBody, Audit, CheckClient, ReadPrefix, Goto, Reject, Leave,
            Return
    <2>3. CASE pc' = [pc EXCEPT ![r] = "unwind"]
        BY <1>4, <2>1, <2>3
    <2>4. CASE pc' # [pc EXCEPT ![r] = "unwind"]
        BY <1>0, <2>1, <2>2, <2>4 DEF Onward, Rank
    <2> QED
        BY <2>3, <2>4
<1>7. CASE Build(r)
    <2>1. pc[r] = "build" /\ pc[r] \in Stages \ Over
        BY <1>7 DEF Build, Stages, Over
    <2>2. CASE Reject(r, "error", "GATEWAY_CONFIG_ERROR", 555) /\ UNCHANGED defers
        BY <1>4, <2>1, <2>2 DEF Reject, Return
    <2>3. CASE defers' = [defers EXCEPT ![r] = Append(@, "cancel")] /\ Goto(r, "do")
        <3>1. Rank("do") < Rank("build")
            BY DEF Rank
        <3> QED
            BY <1>0, <2>1, <2>3, <3>1 DEF Goto, Onward, Calls
    <2> QED
        BY <1>7, <2>2, <2>3 DEF Build
<1>8. CASE DoReturns(r)
    <2>1. /\ pc[r] = "do" /\ pc[r] \in Stages \ Over
          /\ \E call \in Calls : defers' = [defers EXCEPT ![r] = Append(@, call)]
        BY <1>8 DEF DoReturns, Stages, Over, Calls
    <2>2. \E next \in {"unwind", "sse", "prefix"} : pc' = [pc EXCEPT ![r] = next]
        BY <1>8 DEF DoReturns, Reject, Return, Goto
    <2>3. pc'[r] \in {"unwind", "sse", "prefix"}
        BY <1>0, <2>2
    <2>4. \A next \in {"unwind", "sse", "prefix"} : Rank(next) < Rank("do")
        BY DEF Rank
    <2> QED
        BY <2>1, <2>3, <2>4 DEF Onward
<1>9. CASE Unwind(r) /\ defers[r] = <<>>
    <2>1. pc[r] = "unwind" /\ pc'[r] = "done" /\ UNCHANGED defers
        BY <1>0, <1>9 DEF Unwind
    <2> QED
        BY <2>1 DEF Onward, Rank
<1> QED
    BY <1>1, <1>2, <1>3, <1>5, <1>6, <1>7, <1>8, <1>9
    DEF HandlerStep, Handle, AwaitUpstream, AwaitClient

\* A later stage outweighs the call it may have deferred.
LEMMA OnwardSpends ==
    ASSUME TypeOK, TypeOK', NEW r \in Requests, Onward(r)
    PROVE  StepsLeft(r)' < StepsLeft(r)
<1>1. Rank(pc[r]) \in Nat /\ Rank(pc'[r]) \in Nat
    BY RankTypes DEF TypeOK
<1>2. Len(defers[r]) \in Nat /\ Len(defers'[r]) <= Len(defers[r]) + 1
    <2>1. defers[r] \in Seq(Calls) /\ Len(defers[r]) \in Nat
        BY DEF TypeOK, Calls
    <2>2. CASE UNCHANGED defers
        BY <2>1, <2>2
    <2>3. CASE \E call \in Calls : defers' = [defers EXCEPT ![r] = Append(@, call)]
        <3>1. Len(defers'[r]) = Len(defers[r]) + 1
            BY <2>3, Pushed
        <3> QED
            BY <2>1, <3>1
    <2> QED
        BY <2>2, <2>3 DEF Onward
<1>3. Len(defers'[r]) \in Nat
    BY DEF TypeOK
<1>4. PICK high \in Nat : high = Rank(pc[r])
    BY <1>1
<1>5. PICK low \in Nat : low = Rank(pc'[r])
    BY <1>1
<1>6. PICK n \in Nat : n = Len(defers[r])
    BY <1>2
<1>7. PICK m \in Nat : m = Len(defers'[r])
    BY <1>3
<1>8. low < high /\ m <= n + 1
    BY <1>2, <1>4, <1>5, <1>6, <1>7 DEF Onward
<1>9. StepsLeft(r) = 2 * high + n /\ StepsLeft(r)' = 2 * low + m
    BY <1>4, <1>5, <1>6, <1>7 DEF StepsLeft
<1>10. 2 * low + m < 2 * high + n
    BY <1>8
<1> QED
    BY <1>9, <1>10

\* A deferred call is run once.
LEMMA UnwindSpends ==
    ASSUME TypeOK, NEW r \in Requests, Unwind(r), defers[r] # <<>>
    PROVE  StepsLeft(r)' < StepsLeft(r)
<1>1. /\ pc' = pc
      /\ defers' = [defers EXCEPT ![r] = SubSeq(@, 1, Len(@) - 1)]
    BY DEF Unwind
<1>2. defers[r] \in Seq(Calls) /\ Len(defers[r]) \in Nat \ {0}
    BY <1>1, Popped DEF TypeOK, Calls
<1>3. Len(defers'[r]) = Len(defers[r]) - 1
    <2>1. defers'[r] = SubSeq(defers[r], 1, Len(defers[r]) - 1)
        BY <1>1 DEF TypeOK
    <2> QED
        BY <1>2, <2>1
<1>4. PICK rank \in Nat : rank = Rank(pc[r])
    BY RankTypes DEF TypeOK
<1>5. PICK n \in Nat : n = Len(defers[r])
    BY <1>2
<1>6. StepsLeft(r) = 2 * rank + n /\ StepsLeft(r)' = 2 * rank + (n - 1)
    BY <1>1, <1>3, <1>4, <1>5 DEF StepsLeft
<1>7. 2 * rank + (n - 1) < 2 * rank + n
    OBVIOUS
<1> QED
    BY <1>6, <1>7

\* The request that takes a step is the only one whose deferred calls change.
LEMMA DefersAreMine ==
    ASSUME TypeOK, NEW r \in Requests,
           HandlerStep(r) \/ RequestTimeout(r) \/ ClientLeaves(r)
    PROVE  \A q \in Requests \ {r} : defers'[q] = defers[q]
<1>1. CASE HandlerStep(r) /\ ~(Unwind(r) /\ defers[r] # <<>>)
    BY <1>1, HandlerAdvances, Pushed DEF Onward
<1>2. CASE Unwind(r) /\ defers[r] # <<>>
    BY <1>2, Popped DEF Unwind
<1>3. CASE RequestTimeout(r) \/ ClientLeaves(r)
    BY <1>3 DEF RequestTimeout, ClientLeaves
<1> QED
    BY <1>1, <1>2, <1>3

\* RequestsReturn without its fairness: a request cannot go round in circles, whatever
\* its caller, its timer, its upstream and the other requests do.  Every step of its
\* goroutine through ServeHTTP and its deferred calls uses up a part of a bound that
\* nobody can extend.
THEOREM RequestsAreBounded == Spec => [][StepsAreSpent]_vars
<1>1. IInv /\ IInv' /\ [Next]_vars => [StepsAreSpent]_vars
    <2> SUFFICES ASSUME IInv, IInv', Next PROVE StepsAreSpent
        BY DEF vars
    <2>1. TypeOK /\ TypeOK' /\ Deferrals
        BY DEF IInv
    <2>2. PICK r \in Requests : HandlerStep(r) \/ RequestTimeout(r) \/ ClientLeaves(r)
        BY DEF Next, HandlerStep
    <2> SUFFICES ASSUME NEW q \in Requests
                 PROVE  /\ StepsLeft(q) \in Nat
                        /\ StepsLeft(q)' <= StepsLeft(q)
                        /\ HandlerStep(q) => StepsLeft(q)' < StepsLeft(q)
        BY DEF StepsAreSpent
    <2>3. StepsLeft(q) \in Nat
        <3>1. Rank(pc[q]) \in Nat /\ Len(defers[q]) \in Nat
            BY <2>1, RankTypes DEF TypeOK
        <3> QED
            BY <3>1 DEF StepsLeft
    <2>4. StepsLeft(q)' \in Nat
        <3>1. Rank(pc'[q]) \in Nat /\ Len(defers'[q]) \in Nat
            BY <2>1, RankTypes DEF TypeOK
        <3> QED
            BY <3>1 DEF StepsLeft
    <2>5. CASE HandlerStep(q)
        <3>1. StepsLeft(q)' < StepsLeft(q)
            BY <2>1, <2>5, HandlerAdvances, OnwardSpends, UnwindSpends
        <3> HIDE DEF StepsLeft
        <3> QED
            BY <2>3, <2>4, <3>1
    <2>6. CASE ~HandlerStep(q)
        <3>1. pc'[q] = pc[q] /\ defers'[q] = defers[q]
            <4>1. CASE q # r
                BY <2>1, <2>2, <4>1, OnlyMine, DefersAreMine DEF HandlerStep
            <4>2. CASE q = r
                BY <2>2, <2>6, <4>2 DEF RequestTimeout, ClientLeaves
            <4> QED
                BY <4>1, <4>2
        <3>2. StepsLeft(q)' = StepsLeft(q)
            BY <3>1 DEF StepsLeft
        <3> QED
            BY <2>3, <2>6, <3>2
    <2> QED
        BY <2>3, <2>5, <2>6
<1> QED
    BY <1>1, Invariance, PTL DEF Spec
=============================================================================
