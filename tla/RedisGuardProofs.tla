--------------------------- MODULE RedisGuardProofs ---------------------------
(***************************************************************************)
(* A nonce store takes a signed request as fresh once in the life of its   *)
(* nonce, a withdrawn secret is used by none but the handlers that had     *)
(* read it, and each token bucket keeps its rate, for every number of      *)
(* handlers and replicas and for every clock offset, skew, TTL, rate and   *)
(* burst.  How often a request passes the check of its time, and what a    *)
(* forgotten bucket gives back, depends on the handlers in flight: the     *)
(* invariant bounds how old the clock of each can be.                      *)
(* Then SlotBound and RefusalIsJustified of the slots of a route, for any  *)
(* set of requests, any limit and any loss of replies.                     *)
(***************************************************************************)
EXTENDS RedisGuard, RouteSlots, FiniteSetTheorems, TLAPS

Pcs == {"idle", "script", "local", "client", "nonce", "postgres"}

\* The types of what the ingestion of tracking events reads and writes.
IngestTypes ==
    /\ clock \in Nat
    /\ nonces \in [Messages -> Nat] /\ stored \in [Messages -> Nat]
    /\ call \in [Callers -> [pc : Pcs, stamp : Nat, since : Nat,
                             msg : Messages \cup {NoMessage}, read : Nat]]
    /\ accepted \in [NonceStores -> [Messages -> Nat]]
    /\ lastUse \in [NonceStores -> [Messages -> Int]]
    /\ revoked \in [Messages -> Int]

BudgetTypes ==
    /\ client \in [secret : Secrets, enabled : BOOLEAN]
    /\ budget \in [allow : Nat, ingest : Nat, edits : Nat, time : Nat,
                   errors : 0..MaxErrors]
    /\ clock + budget.time <= MaxTime

\* A handler at work read its clock at most MaxDelay ago, one that ingests found
\* the request's time stamp in its window then, and one that turns to PostgreSQL
\* has read its clock again.
InFlight(c) ==
    /\ call[c].pc # "idle" => call[c].since <= clock /\ clock <= call[c].since + MaxDelay
    /\ call[c].pc \in {"client", "nonce", "postgres"} =>
           /\ call[c].msg \in Messages
           /\ InWindow(call[c].msg, call[c].since + Offset[Home[c]])
    /\ call[c].pc = "postgres" => call[c].since + Offset[Home[c]] <= call[c].stamp

HandlersAreFresh == \A c \in Callers : InFlight(c)

\* The nonce of the last acceptance is kept until its life is over.
Remembered(m) ==
    /\ accepted["redis"][m] # 0 => lastUse["redis"][m] + NonceTTL <= nonces[m]
    /\ accepted["postgres"][m] # 0 =>
           \/ stored[m] # 0 /\ lastUse["postgres"][m] + NonceTTL <= stored[m]
           \/ lastUse["postgres"][m] + NonceTTL <= clock

\* The time between n acceptances, less what a handler waits.
Lives(n) == (n - 1) * (NonceTTL - MaxDelay)

\* The first instant at which a handler of some replica takes m for fresh.
FirstInstant(m) == m.ts - ClockSkew - MaxOffset

\* Each acceptance is one life later than the one before it.
Paced(m) ==
    \A s \in NonceStores :
        /\ accepted[s][m] # 0 => Lives(accepted[s][m]) <= lastUse[s][m] - FirstInstant(m)
        /\ accepted[s][m] > 1 => Lives(accepted[s][m]) <= 2 * ClockSkew + MaxOffset

NoncesLive == \A m \in Messages : Remembered(m) /\ Paced(m)

\* The signature of m stopped being valid when so many edits were left, or never.
Withdrawn(m) == revoked[m] # -1 => ~Authorized(m) /\ budget.edits <= revoked[m]

\* Whoever is about to use a nonce had found its request authorized: before it
\* was withdrawn, if it is.
Reader(c) ==
    call[c].pc \in {"nonce", "postgres"} =>
        IF revoked[call[c].msg] = -1 THEN call[c].read >= budget.edits
                                     ELSE call[c].read > revoked[call[c].msg]

Revocation == (\A m \in Messages : Withdrawn(m)) /\ (\A c \in Callers : Reader(c))

IInv == IngestTypes /\ BudgetTypes /\ HandlersAreFresh /\ NoncesLive /\ Revocation
-----------------------------------------------------------------------------
(* The constants. *)

Beyond(S, x) == {y \in S : y > x}

\* A finite set of numbers that is not empty has a largest one.
LEMMA MaxIsLargest ==
    ASSUME NEW S, IsFiniteSet(S), S # {}, S \subseteq Int
    PROVE  Max(S) \in S /\ \A y \in S : y <= Max(S)
<1> DEFINE R == StrictSubsetOrdering(S)
           T == {Beyond(S, x) : x \in S}
<1>1. IsWellFoundedOn(R, FiniteSubsetsOf(S))
  BY FS_StrictSubsetOrderingWellFounded
<1>2. T \subseteq FiniteSubsetsOf(S)
  BY FS_FiniteSubsetsOfFinite DEF Beyond
<1>3. T # {}
  OBVIOUS
<1>4. PICK m \in T : \A y \in T : ~(<<y, m>> \in R)
  <2> HIDE DEF T, R
  <2> QED BY <1>1, <1>2, <1>3, WFMin
<1>5. PICK x \in S : m = Beyond(S, x)
  OBVIOUS
<1>6. ASSUME NEW y \in Beyond(S, x)
      PROVE  FALSE
  <2>1. y \in S /\ y > x
    BY DEF Beyond
  <2>2. Beyond(S, y) \subseteq Beyond(S, x)
    <3>1. \A z \in S : z > y => z > x
      BY <2>1
    <3> QED BY <3>1 DEF Beyond
  <2>4. y \in Beyond(S, x) /\ y \notin Beyond(S, y)
    BY <2>1 DEF Beyond
  <2>3. <<Beyond(S, y), Beyond(S, x)>> \in R
    BY <2>2, <2>4 DEF StrictSubsetOrdering, Beyond
  <2> QED BY <1>4, <1>5, <2>1, <2>3
<1>7. x \in S /\ \A y \in S : x >= y
  BY <1>6 DEF Beyond
<1>8. Max(S) \in S /\ \A y \in S : Max(S) >= y
  BY <1>7 DEF Max
<1> QED BY <1>8

\* MaxOffset bounds the offset of every replica.
LEMMA OffsetBound == MaxOffset \in Nat /\ \A r \in Replicas : Offset[r] <= MaxOffset
<1> DEFINE S == {Offset[r] : r \in Replicas}
<1>1. IsFiniteSet(S) /\ S # {} /\ S \subseteq Nat
  <2>1. [r \in Replicas |-> Offset[r]] \in Surjection(Replicas, S)
    BY DEF Surjection
  <2>2. IsFiniteSet(S)
    <3> HIDE DEF S
    <3> QED BY <2>1, FS_Surjection, RedisGuardAssumption
  <2> QED BY <2>2, RedisGuardAssumption
<1>2. Max(S) \in S /\ \A y \in S : y <= Max(S)
  <2>1. S \subseteq Int
    BY <1>1
  <2> HIDE DEF S
  <2> QED BY <1>1, <2>1, MaxIsLargest
<1> QED BY <1>1, <1>2 DEF MaxOffset

\* What the proofs use of the constants.
LEMMA Constants ==
    /\ ClockSkew \in Nat /\ NonceTTL \in Nat /\ MaxDelay \in Nat
    /\ \A m \in Messages : m.ts \in Nat
    /\ \A c \in Callers : /\ Home[c] \in Replicas /\ Offset[Home[c]] \in Nat
                          /\ Offset[Home[c]] <= MaxOffset
  BY RedisGuardAssumption, OffsetBound

-----------------------------------------------------------------------------
(* Types. *)

\* Initially the types hold.
LEMMA TypeInit == Init => IngestTypes
  BY DEF Init, IngestTypes, Free, Pcs

\* Accept counts the message in a store and leaves the types as they were.
LEMMA AcceptTypes ==
    ASSUME IngestTypes, NEW s \in NonceStores, NEW m, NEW use \in Int, Accept(s, m, use)
    PROVE  /\ accepted' \in [NonceStores -> [Messages -> Nat]]
           /\ lastUse' \in [NonceStores -> [Messages -> Int]]
<1>1. accepted[s] \in [Messages -> Nat]
  BY DEF IngestTypes
<1>2. [accepted[s] EXCEPT ![m] = @ + 1] \in [Messages -> Nat]
  <2> DEFINE f == accepted[s]
             g == [f EXCEPT ![m] = @ + 1]
  <2>1. g = [x \in Messages |-> IF x = m THEN f[m] + 1 ELSE f[x]]
    BY <1>1
  <2>2. \A x \in Messages : f[x] + 1 \in Nat
    BY <1>1
  <2> QED BY <1>1, <2>1, <2>2
<1>3. accepted' = [accepted EXCEPT ![s] = [accepted[s] EXCEPT ![m] = @ + 1]]
  BY DEF Accept
<1>4. lastUse' \in [NonceStores -> [Messages -> Int]]
  <2>1. lastUse' = [lastUse EXCEPT ![s] = [lastUse[s] EXCEPT ![m] = use]]
    BY DEF Accept
  <2>2. [lastUse[s] EXCEPT ![m] = use] \in [Messages -> Int]
    BY DEF IngestTypes
  <2> QED BY <2>1, <2>2 DEF IngestTypes
<1> QED BY <1>2, <1>3, <1>4 DEF IngestTypes

\* Every action of the handlers and of the stores keeps the types.
LEMMA TypeStep == IngestTypes /\ BudgetTypes /\ [Next]_vars => IngestTypes'
<1> SUFFICES ASSUME IngestTypes, BudgetTypes, [Next]_vars PROVE IngestTypes'
  OBVIOUS
<1> USE DEF IngestTypes
<1>1. CASE Tick
  BY <1>1 DEF Tick, nonceVars, clientVars
<1>2. CASE PurgeNonces
  BY <1>2 DEF PurgeNonces, clientVars
<1>3. CASE SaveTrackingClient
  <2>1. budget'.edits \in Int
    BY <1>3 DEF SaveTrackingClient, BudgetTypes
  <2> QED BY <1>3, <2>1 DEF SaveTrackingClient, nonceVars
<1>4. ASSUME NEW c \in Callers, Allow(c)
      PROVE  IngestTypes'
  BY <1>4, Constants DEF Allow, Begin, Now, Pcs, nonceVars, clientVars
<1>5. ASSUME NEW c \in Callers, AllowRedis(c)
      PROVE  IngestTypes'
  BY <1>5 DEF AllowRedis, Answer, Free, Pcs, nonceVars, clientVars
<1>6. ASSUME NEW c \in Callers, AllowError(c)
      PROVE  IngestTypes'
  <2>1. Now(Home[c]) \in Nat
    BY Constants DEF Now
  <2>2. call' \in [Callers -> [pc : Pcs, stamp : Nat, since : Nat,
                               msg : Messages \cup {NoMessage}, read : Nat]]
    <3> DEFINE Calls == [pc : Pcs, stamp : Nat, since : Nat, msg : Messages \cup {NoMessage}, read : Nat]
               next == [pc |-> "local", stamp |-> Now(Home[c]), since |-> call[c].since,
                        msg |-> call[c].msg, read |-> call[c].read]
    <3>1. call \in [Callers -> Calls]
      OBVIOUS
    <3>2. next \in Calls
      BY <2>1, <3>1 DEF Pcs
    <3>3. call' = [call EXCEPT ![c] = next]
      <4>1. call' = [call EXCEPT ![c].pc = "local", ![c].stamp = Now(Home[c])]
        BY <1>6 DEF AllowError
      <4>2. ASSUME NEW k \in Calls, NEW x \in Nat
            PROVE  [k EXCEPT !.pc = "local", !.stamp = x]
                       = [pc |-> "local", stamp |-> x, since |-> k.since, msg |-> k.msg,
                              read |-> k.read]
        <5>1. [k EXCEPT !.pc = "local"]
                  = [pc |-> "local", stamp |-> k.stamp, since |-> k.since, msg |-> k.msg,
                              read |-> k.read]
          OBVIOUS
        <5>2. [[pc |-> "local", stamp |-> k.stamp, since |-> k.since, msg |-> k.msg,
                              read |-> k.read]
                   EXCEPT !.stamp = x]
                  = [pc |-> "local", stamp |-> x, since |-> k.since, msg |-> k.msg,
                              read |-> k.read]
          OBVIOUS
        <5> QED BY <5>1, <5>2
      <4>3. [call[c] EXCEPT !.pc = "local", !.stamp = Now(Home[c])] = next
        BY <2>1, <3>1, <4>2
      <4> QED BY <3>1, <4>1, <4>3
    <3> HIDE DEF Calls, next
    <3>4. call' \in [Callers -> Calls]
      BY <3>1, <3>2, <3>3
    <3> QED BY <3>4 DEF Calls
  <2> QED BY <1>6, <2>2 DEF AllowError, nonceVars, clientVars
<1>7. ASSUME NEW c \in Callers, AllowLocal(c)
      PROVE  IngestTypes'
  BY <1>7 DEF AllowLocal, Answer, Free, Pcs, nonceVars, clientVars
<1>8. ASSUME NEW c \in Callers, NEW m \in Messages, Ingest(c, m)
      PROVE  IngestTypes'
  BY <1>8, Constants DEF Ingest, Begin, Now, Pcs, nonceVars, clientVars
<1>9. ASSUME NEW c \in Callers, ReadClient(c)
      PROVE  IngestTypes'
  <2>1. CASE call' = [call EXCEPT ![c].pc = "nonce", ![c].read = budget.edits]
    <3>1. budget.edits \in Nat
      BY DEF BudgetTypes
    <3> QED BY <1>9, <2>1, <3>1 DEF ReadClient, Pcs, nonceVars, clientVars
  <2>2. CASE Answer(c, "client")
    BY <1>9, <2>2 DEF ReadClient, Answer, Free, Pcs, nonceVars, clientVars
  <2> QED BY <1>9, <2>1, <2>2 DEF ReadClient
<1>10. ASSUME NEW c \in Callers, UseNonce(c)
       PROVE  IngestTypes'
  <2>1. call' \in [Callers -> [pc : Pcs, stamp : Nat, since : Nat,
                               msg : Messages \cup {NoMessage}, read : Nat]]
    BY <1>10 DEF UseNonce, Answer, Free, Pcs
  <2>2. nonces' \in [Messages -> Nat]
    BY <1>10, Constants DEF UseNonce, SetNonce
  <2>3. /\ accepted' \in [NonceStores -> [Messages -> Nat]]
        /\ lastUse' \in [NonceStores -> [Messages -> Int]]
    <3>1. CASE Accept("redis", call[c].msg, clock)
      BY <3>1, AcceptTypes DEF NonceStores
    <3>2. CASE UNCHANGED <<accepted, lastUse>>
      BY <3>2
    <3> QED BY <1>10, <3>1, <3>2 DEF UseNonce
  <2> QED BY <1>10, <2>1, <2>2, <2>3 DEF UseNonce, clientVars
<1>11. ASSUME NEW c \in Callers, UseNonceError(c)
       PROVE  IngestTypes'
  <2>1. call' \in [Callers -> [pc : Pcs, stamp : Nat, since : Nat,
                               msg : Messages \cup {NoMessage}, read : Nat]]
    <3>1. Now(Home[c]) \in Nat
      BY Constants DEF Now
    <3> QED BY <1>11, <3>1 DEF UseNonceError, Pcs
  <2>2. nonces' \in [Messages -> Nat]
    BY <1>11, Constants DEF UseNonceError, SetNonce
  <2> QED BY <1>11, <2>1, <2>2 DEF UseNonceError, clientVars
<1>12. ASSUME NEW c \in Callers, UseNonceFallback(c)
       PROVE  IngestTypes'
  <2>1. call' \in [Callers -> [pc : Pcs, stamp : Nat, since : Nat,
                               msg : Messages \cup {NoMessage}, read : Nat]]
    BY <1>12 DEF UseNonceFallback, Answer, Free, Pcs
  <2>2. stored' \in [Messages -> Nat]
    BY <1>12, Constants DEF UseNonceFallback, InsertNonce
  <2>3. /\ accepted' \in [NonceStores -> [Messages -> Nat]]
        /\ lastUse' \in [NonceStores -> [Messages -> Int]]
    <3>1. CASE Accept("postgres", call[c].msg, call[c].stamp)
      <4>1. call[c].stamp \in Int
        OBVIOUS
      <4> QED BY <3>1, <4>1, AcceptTypes DEF NonceStores
    <3>2. CASE UNCHANGED <<accepted, lastUse>>
      BY <3>2
    <3> QED BY <1>12, <3>1, <3>2 DEF UseNonceFallback
  <2> QED BY <1>12, <2>1, <2>2, <2>3 DEF UseNonceFallback, clientVars
<1>13. ASSUME NEW c \in Callers, NonceStoreUnavailable(c)
       PROVE  IngestTypes'
  <2>1. stored' \in [Messages -> Nat]
    BY <1>13, Constants DEF NonceStoreUnavailable, InsertNonce
  <2>2. call' \in [Callers -> [pc : Pcs, stamp : Nat, since : Nat,
                               msg : Messages \cup {NoMessage}, read : Nat]]
    BY <1>13 DEF NonceStoreUnavailable, Answer, Free, Pcs
  <2> QED BY <1>13, <2>1, <2>2 DEF NonceStoreUnavailable, clientVars
<1>14. CASE UNCHANGED vars
  BY <1>14 DEF vars, nonceVars, clientVars
<1> QED
  BY <1>1, <1>2, <1>3, <1>4, <1>5, <1>6, <1>7, <1>8, <1>9, <1>10, <1>11, <1>12,
     <1>13, <1>14 DEF Next
-----------------------------------------------------------------------------
(* The handlers in flight. *)

\* Initially nobody is in flight.
LEMMA FreshInit == Init => HandlersAreFresh
  BY DEF Init, HandlersAreFresh, InFlight, Free

\* A handler that answers is no longer in flight, and nobody else is touched.
LEMMA AnswerIsFresh ==
    ASSUME IngestTypes, HandlersAreFresh, NEW c \in Callers, NEW from,
           Answer(c, from), UNCHANGED clock
    PROVE  HandlersAreFresh'
<1> SUFFICES ASSUME NEW d \in Callers PROVE InFlight(d)'
  BY DEF HandlersAreFresh
<1>1. CASE d = c
  BY <1>1 DEF IngestTypes, Answer, Free, InFlight
<1>2. CASE d # c
  <2>1. call'[d] = call[d]
    BY <1>2 DEF IngestTypes, Answer
  <2> QED BY <2>1 DEF HandlersAreFresh, InFlight, InWindow
<1> QED BY <1>1, <1>2

\* A handler that goes on keeps its clock and its request.
LEMMA MoveIsFresh ==
    ASSUME IngestTypes, HandlersAreFresh, NEW c \in Callers, NEW to,
           call[c].pc \in {"script", "client", "nonce"},
           call'[c].pc = to,
           to \in {"local", "nonce", "postgres"}, (to = "local") <=> (call[c].pc = "script"),
           call'[c].since = call[c].since, call'[c].msg = call[c].msg,
           to = "postgres" => call'[c].stamp = Now(Home[c]),
           \A d \in Callers \ {c} : call'[d] = call[d],
           UNCHANGED clock
    PROVE  HandlersAreFresh'
<1> SUFFICES ASSUME NEW d \in Callers PROVE InFlight(d)'
  BY DEF HandlersAreFresh
<1>1. CASE d = c
  <2>1. call[c].since <= clock /\ call[c].since \in Nat /\ clock \in Nat /\ Offset[Home[c]] \in Nat
    BY Constants DEF HandlersAreFresh, InFlight, IngestTypes
  <2>2. call'[c].pc = "postgres" => call[c].since + Offset[Home[c]] <= call'[c].stamp
    BY <2>1 DEF Now
  <2> QED BY <1>1, <2>2 DEF HandlersAreFresh, InFlight, InWindow
<1>2. CASE d # c
  BY <1>2 DEF HandlersAreFresh, InFlight, InWindow
<1> QED BY <1>1, <1>2

\* A handler that begins reads the clock now.
LEMMA BeginIsFresh ==
    ASSUME IngestTypes, HandlersAreFresh, NEW c \in Callers, NEW kind, NEW where, NEW m,
           Begin(c, kind, where, m), UNCHANGED clock,
           \/ where = "script"
           \/ where = "client" /\ m \in Messages /\ InWindow(m, Now(Home[c]))
    PROVE  HandlersAreFresh'
<1> SUFFICES ASSUME NEW d \in Callers PROVE InFlight(d)'
  BY DEF HandlersAreFresh
<1>1. CASE d = c
  <2>1. call'[c] = [pc |-> where, stamp |-> Now(Home[c]), since |-> clock, msg |-> m,
                    read |-> 0]
    BY DEF IngestTypes, Begin
  <2>2. clock' = clock /\ clock \in Nat /\ MaxDelay \in Nat
    BY Constants DEF IngestTypes
  <2> QED BY <1>1, <2>1, <2>2 DEF InFlight, InWindow, Now
<1>2. CASE d # c
  <2>1. call'[d] = call[d]
    BY <1>2 DEF IngestTypes, Begin
  <2> QED BY <2>1 DEF HandlersAreFresh, InFlight, InWindow
<1> QED BY <1>1, <1>2

\* Nothing keeps a handler in flight for longer than MaxDelay, and none uses a
\* request whose time stamp it did not check.
LEMMA FreshStep == IngestTypes /\ HandlersAreFresh /\ [Next]_vars => HandlersAreFresh'
<1> SUFFICES ASSUME IngestTypes, HandlersAreFresh, [Next]_vars PROVE HandlersAreFresh'
  OBVIOUS
<1>1. CASE Tick
  <2> SUFFICES ASSUME NEW d \in Callers PROVE InFlight(d)'
    BY DEF HandlersAreFresh
  <2>1. call' = call /\ clock' = clock + 1
    BY <1>1 DEF Tick
  <2>2. call[d].pc # "idle" => clock - call[d].since < MaxDelay
    BY <1>1 DEF Tick, Free
  <2>3. call[d].since \in Nat /\ clock \in Nat /\ MaxDelay \in Nat
    BY Constants DEF IngestTypes
  <2>4. InFlight(d)
    BY DEF HandlersAreFresh
  <2> QED BY <2>1, <2>2, <2>3, <2>4 DEF InFlight, InWindow
<1>2. CASE UNCHANGED <<clock, call>>
  BY <1>2 DEF HandlersAreFresh, InFlight, InWindow
<1>3. ASSUME NEW c \in Callers, Allow(c)
      PROVE  HandlersAreFresh'
  <2>1. Begin(c, "allow", "script", NoMessage) /\ UNCHANGED clock
    BY <1>3 DEF Allow
  <2> QED BY <2>1, BeginIsFresh
<1>4. ASSUME NEW c \in Callers, NEW m \in Messages, Ingest(c, m)
      PROVE  HandlersAreFresh'
  <2>1. Begin(c, "ingest", "client", m) /\ UNCHANGED clock /\ InWindow(m, Now(Home[c]))
    BY <1>4 DEF Ingest
  <2> QED BY <2>1, BeginIsFresh
<1>5. ASSUME NEW c \in Callers, NEW from, Answer(c, from), UNCHANGED clock
      PROVE  HandlersAreFresh'
  BY <1>5, AnswerIsFresh
<1>6. ASSUME NEW c \in Callers, AllowError(c)
      PROVE  HandlersAreFresh'
  <2>1. /\ call[c].pc = "script" /\ call'[c].pc = "local"
        /\ call'[c].since = call[c].since /\ call'[c].msg = call[c].msg
        /\ \A d \in Callers \ {c} : call'[d] = call[d]
        /\ UNCHANGED clock
    BY <1>6 DEF IngestTypes, AllowError
  <2> QED BY <2>1, MoveIsFresh
<1>7. ASSUME NEW c \in Callers, ReadClient(c)
      PROVE  HandlersAreFresh'
  <2>1. CASE Answer(c, "client")
    BY <1>5, <1>7, <2>1 DEF ReadClient
  <2>2. CASE /\ call[c].pc = "client"
             /\ call' = [call EXCEPT ![c].pc = "nonce", ![c].read = budget.edits]
    <3>1. /\ call'[c].pc = "nonce"
          /\ call'[c].since = call[c].since /\ call'[c].msg = call[c].msg
          /\ \A d \in Callers \ {c} : call'[d] = call[d]
      BY <2>2 DEF IngestTypes
    <3>2. UNCHANGED clock
      BY <1>7 DEF ReadClient
    <3> QED BY <2>2, <3>1, <3>2, MoveIsFresh
  <2> QED BY <1>7, <2>1, <2>2 DEF ReadClient
<1>8. ASSUME NEW c \in Callers, UseNonceError(c)
      PROVE  HandlersAreFresh'
  <2>1. /\ call[c].pc = "nonce" /\ call'[c].pc = "postgres"
        /\ call'[c].since = call[c].since /\ call'[c].msg = call[c].msg
        /\ call'[c].stamp = Now(Home[c])
        /\ \A d \in Callers \ {c} : call'[d] = call[d]
        /\ UNCHANGED clock
    BY <1>8 DEF IngestTypes, UseNonceError
  <2> QED BY <2>1, MoveIsFresh
<1>9. ASSUME NEW c \in Callers,
             \/ AllowRedis(c) \/ AllowLocal(c) \/ UseNonce(c)
             \/ UseNonceFallback(c) \/ NonceStoreUnavailable(c)
      PROVE  HandlersAreFresh'
  BY <1>5, <1>9 DEF AllowRedis, AllowLocal, UseNonce, UseNonceFallback, NonceStoreUnavailable
<1>10. CASE PurgeNonces \/ SaveTrackingClient \/ UNCHANGED vars
  BY <1>2, <1>10 DEF PurgeNonces, SaveTrackingClient, vars
<1> QED
  BY <1>1, <1>3, <1>4, <1>6, <1>7, <1>8, <1>9, <1>10 DEF Next
-----------------------------------------------------------------------------
(* Nonces. *)

\* Initially no nonce is known and none was taken.
LEMMA NoncesInit == Init => NoncesLive
  BY DEF Init, NoncesLive, Remembered, Paced, NonceStores

\* Each acceptance takes one life more.
LEMMA LivesAddUp ==
    /\ Lives(1) = 0
    /\ \A n \in Nat : Lives(n) \in Int /\ Lives(n + 1) = Lives(n) + NonceTTL - MaxDelay
<1>1. PICK d : d = NonceTTL - MaxDelay
  OBVIOUS
<1>2. d \in Int /\ NonceTTL \in Nat /\ MaxDelay \in Nat
  BY <1>1, Constants
<1>3. Lives(1) = 0
  BY <1>1, <1>2 DEF Lives
<1>4. ASSUME NEW n \in Nat
      PROVE  Lives(n) \in Int /\ Lives(n + 1) = Lives(n) + NonceTTL - MaxDelay
  <2>1. Lives(n) = (n - 1) * d /\ Lives(n + 1) = ((n + 1) - 1) * d
    BY <1>1 DEF Lives
  <2>2. ((n + 1) - 1) * d = (n - 1) * d + d /\ (n - 1) * d \in Int
    BY <1>2
  <2> QED BY <1>1, <1>2, <2>1, <2>2
<1> QED BY <1>3, <1>4

\* Whoever uses a nonce does so within MaxDelay of the window in which its request
\* passes the check, and so does the clock from which the nonce lives.
LEMMA UseIsInTime ==
    ASSUME IngestTypes, HandlersAreFresh,
           NEW c \in Callers, call[c].pc \in {"nonce", "postgres"}, NEW use \in Int,
           \/ call[c].pc = "nonce" /\ use = clock
           \/ call[c].pc = "postgres" /\ use = call[c].stamp
    PROVE  /\ call[c].msg \in Messages
           /\ FirstInstant(call[c].msg) \in Int
           /\ FirstInstant(call[c].msg) <= use
           /\ clock <= use + MaxDelay
           /\ clock <= FirstInstant(call[c].msg) + 2 * ClockSkew + MaxOffset + MaxDelay
<1>1. PICK m : m = call[c].msg
  OBVIOUS
<1>2. PICK s : s = call[c].since
  OBVIOUS
<1>3. PICK o : o = Offset[Home[c]]
  OBVIOUS
<1>4. /\ m \in Messages /\ s <= clock /\ clock <= s + MaxDelay
      /\ m.ts - (s + o) <= ClockSkew /\ (s + o) - m.ts <= ClockSkew
  BY <1>1, <1>2, <1>3 DEF HandlersAreFresh, InFlight, InWindow
<1>5. s \in Nat /\ clock \in Nat
  BY <1>2 DEF IngestTypes
<1>6. /\ o \in Nat /\ o <= MaxOffset /\ MaxOffset \in Nat /\ m.ts \in Nat
      /\ ClockSkew \in Nat /\ MaxDelay \in Nat
  BY <1>3, <1>4, Constants, OffsetBound
<1>7. use = clock \/ s + o <= use
  BY <1>2, <1>3 DEF HandlersAreFresh, InFlight
<1>8. /\ m.ts - ClockSkew - MaxOffset <= use
      /\ clock <= use + MaxDelay
      /\ clock <= m.ts - ClockSkew - MaxOffset + 2 * ClockSkew + MaxOffset + MaxDelay
  BY <1>4, <1>5, <1>6, <1>7
<1>9. FirstInstant(m) = m.ts - ClockSkew - MaxOffset /\ FirstInstant(m) \in Int
  BY <1>6 DEF FirstInstant
<1> QED BY <1>1, <1>4, <1>8, <1>9

\* A store that takes a message as fresh counts it once more and nothing else.
LEMMA AcceptCounts ==
    ASSUME IngestTypes, NEW s \in NonceStores, NEW m \in Messages, NEW use, Accept(s, m, use)
    PROVE  /\ accepted'[s][m] = accepted[s][m] + 1
           /\ lastUse'[s][m] = use
           /\ \A x \in Messages : x # m => /\ accepted'[s][x] = accepted[s][x]
                                           /\ lastUse'[s][x] = lastUse[s][x]
           /\ \A z \in NonceStores : z # s => /\ accepted'[z] = accepted[z]
                                              /\ lastUse'[z] = lastUse[z]
  BY DEF Accept, IngestTypes, NonceStores

\* An acceptance a life after the last one keeps the pace.
LEMMA AcceptKeepsPace ==
    ASSUME IngestTypes, HandlersAreFresh, NoncesLive,
           NEW c \in Callers, NEW use \in Int, NEW s \in NonceStores,
           \/ s = "redis" /\ call[c].pc = "nonce" /\ use = clock
           \/ s = "postgres" /\ call[c].pc = "postgres" /\ use = call[c].stamp,
           Accept(s, call[c].msg, use),
           accepted[s][call[c].msg] # 0 =>
               lastUse[s][call[c].msg] + NonceTTL <= clock
    PROVE  \A x \in Messages : Paced(x)'
<1>1. PICK m : m = call[c].msg
  OBVIOUS
<1>2. PICK first : first = FirstInstant(m)
  OBVIOUS
<1>3. /\ m \in Messages /\ first \in Int /\ first <= use /\ clock <= use + MaxDelay
      /\ clock <= first + 2 * ClockSkew + MaxOffset + MaxDelay
  BY <1>1, <1>2, UseIsInTime
<1>4. PICK n : n = accepted[s][m]
  OBVIOUS
<1>5. PICK old : old = lastUse[s][m]
  OBVIOUS
<1>6. /\ n \in Nat /\ old \in Int /\ clock \in Nat
      /\ NonceTTL \in Nat /\ MaxDelay \in Nat /\ ClockSkew \in Nat /\ MaxOffset \in Nat
  BY <1>3, <1>4, <1>5, Constants, OffsetBound DEF IngestTypes
<1>7. n # 0 => old + NonceTTL <= clock /\ Lives(n) <= old - first
  BY <1>1, <1>2, <1>3, <1>4, <1>5 DEF NoncesLive, Paced
<1>8. Lives(n + 1) <= use - first /\ (n # 0 => Lives(n + 1) <= 2 * ClockSkew + MaxOffset)
  <2>1. CASE n = 0
    <3>1. n + 1 = 1
      BY <2>1
    <3> QED BY <1>3, <2>1, <3>1, LivesAddUp
  <2>2. CASE n # 0
    <3>1. Lives(n) \in Int /\ Lives(n + 1) = Lives(n) + NonceTTL - MaxDelay
      BY <1>6, LivesAddUp
    <3> QED BY <1>3, <1>6, <1>7, <2>2, <3>1
  <2> QED BY <2>1, <2>2
<1>9. /\ accepted'[s][m] = n + 1 /\ lastUse'[s][m] = use
      /\ \A x \in Messages : x # m => /\ accepted'[s][x] = accepted[s][x]
                                      /\ lastUse'[s][x] = lastUse[s][x]
      /\ \A z \in NonceStores : z # s => /\ accepted'[z] = accepted[z]
                                         /\ lastUse'[z] = lastUse[z]
  BY <1>1, <1>3, <1>4, AcceptCounts
<1> SUFFICES ASSUME NEW x \in Messages, NEW z \in NonceStores
             PROVE  /\ accepted'[z][x] # 0 =>
                           Lives(accepted'[z][x]) <= lastUse'[z][x] - FirstInstant(x)
                    /\ accepted'[z][x] > 1 =>
                           Lives(accepted'[z][x]) <= 2 * ClockSkew + MaxOffset
  BY DEF Paced, Lives, FirstInstant
<1>10. CASE z = s /\ x = m
  <2>1. n + 1 > 1 => n # 0
    BY <1>6
  <2> QED BY <1>2, <1>8, <1>9, <1>10, <2>1
<1>11. CASE ~(z = s /\ x = m)
  <2>1. accepted'[z][x] = accepted[z][x] /\ lastUse'[z][x] = lastUse[z][x]
    BY <1>9, <1>11
  <2> QED BY <2>1 DEF NoncesLive, Paced
<1> QED BY <1>10, <1>11

\* A nonce is taken as fresh only when the life of the one before is over.
LEMMA NoncesStep ==
    IngestTypes /\ HandlersAreFresh /\ NoncesLive /\ [Next]_vars => NoncesLive'
<1> SUFFICES ASSUME IngestTypes, HandlersAreFresh, NoncesLive, [Next]_vars
             PROVE  (\A x \in Messages : Remembered(x)') /\ (\A x \in Messages : Paced(x)')
  BY DEF NoncesLive
<1>0. \A x \in Messages : Remembered(x) /\ Paced(x)
  BY DEF NoncesLive
<1>1. /\ clock \in Nat /\ NonceTTL \in Nat
      /\ \A x \in Messages :
             /\ nonces[x] \in Nat /\ stored[x] \in Nat
             /\ \A s \in NonceStores : accepted[s][x] \in Nat /\ lastUse[s][x] \in Int
  BY Constants DEF IngestTypes
<1>2. ASSUME UNCHANGED <<accepted, lastUse>>
      PROVE  \A x \in Messages : Paced(x)'
  BY <1>0, <1>2 DEF Paced, Lives, FirstInstant
<1>3. ASSUME UNCHANGED <<nonceVars, clock>> \/ (UNCHANGED nonceVars /\ clock' = clock + 1)
      PROVE  (\A x \in Messages : Remembered(x)') /\ (\A x \in Messages : Paced(x)')
  <2>1. \A x \in Messages : Remembered(x)'
    BY <1>0, <1>1, <1>3 DEF nonceVars, Remembered, NonceStores
  <2> QED BY <1>2, <1>3, <2>1 DEF nonceVars
<1>4. CASE PurgeNonces
  <2>1. /\ clock' = clock /\ nonces' = nonces /\ UNCHANGED <<accepted, lastUse>>
        /\ \A x \in Messages : stored'[x] = IF stored[x] < clock THEN 0 ELSE stored[x]
    BY <1>4 DEF PurgeNonces
  <2>2. \A x \in Messages : Remembered(x)'
    BY <1>0, <1>1, <2>1 DEF Remembered, NonceStores
  <2> QED BY <1>2, <2>1, <2>2
<1>5. ASSUME NEW m \in Messages, SetNonce(m), UNCHANGED <<clock, stored>>,
             \/ UNCHANGED <<accepted, lastUse>>
             \/ Accept("redis", m, clock)
      PROVE  \A x \in Messages : Remembered(x)'
  <2> SUFFICES ASSUME NEW x \in Messages PROVE Remembered(x)'
    OBVIOUS
  <2>1. nonces[m] <= clock /\ nonces'[m] = clock + NonceTTL
        /\ \A y \in Messages : y # m => nonces'[y] = nonces[y]
    BY <1>5 DEF SetNonce, IngestTypes
  <2>2. /\ accepted'["postgres"] = accepted["postgres"]
        /\ lastUse'["postgres"] = lastUse["postgres"]
        /\ \/ /\ accepted'["redis"][x] = accepted["redis"][x]
              /\ lastUse'["redis"][x] = lastUse["redis"][x]
           \/ x = m /\ lastUse'["redis"][x] = clock
    <3>1. CASE UNCHANGED <<accepted, lastUse>>
      BY <3>1
    <3>2. CASE Accept("redis", m, clock)
      BY <3>2, AcceptCounts DEF NonceStores
    <3> QED BY <1>5, <3>1, <3>2
  <2>3. Remembered(x) /\ nonces[x] \in Nat /\ lastUse["redis"][x] \in Int
    BY <1>0, <1>1 DEF NonceStores
  <2> QED BY <1>1, <1>5, <2>1, <2>2, <2>3 DEF Remembered
<1>6. ASSUME NEW c \in Callers, call[c].pc = "postgres", InsertNonce(c),
             UNCHANGED <<clock, nonces>>,
             \/ UNCHANGED <<accepted, lastUse>>
             \/ Accept("postgres", call[c].msg, call[c].stamp)
      PROVE  \A x \in Messages : Remembered(x)'
  <2> SUFFICES ASSUME NEW x \in Messages PROVE Remembered(x)'
    OBVIOUS
  <2>1. PICK m : m = call[c].msg
    OBVIOUS
  <2>2. PICK at : at = call[c].stamp
    OBVIOUS
  <2>3. /\ m \in Messages /\ at \in Int /\ at - MaxDelay <= clock + at
        /\ stored[m] = 0 /\ stored'[m] = at + NonceTTL
        /\ \A y \in Messages : y # m => stored'[y] = stored[y]
    <3>1. at \in Nat /\ m \in Messages /\ MaxDelay \in Nat
      BY <1>6, <2>1, <2>2, Constants DEF IngestTypes, HandlersAreFresh, InFlight
    <3> QED BY <1>1, <1>6, <2>1, <2>2, <3>1 DEF InsertNonce, IngestTypes
  <2>4. /\ accepted'["redis"] = accepted["redis"]
        /\ lastUse'["redis"] = lastUse["redis"]
        /\ \/ /\ accepted'["postgres"][x] = accepted["postgres"][x]
              /\ lastUse'["postgres"][x] = lastUse["postgres"][x]
           \/ x = m /\ lastUse'["postgres"][x] = at
    <3>1. CASE UNCHANGED <<accepted, lastUse>>
      BY <3>1
    <3>2. CASE Accept("postgres", m, at)
      BY <2>3, <3>2, AcceptCounts DEF NonceStores
    <3> QED BY <1>6, <2>1, <2>2, <3>1, <3>2
  <2>5. Remembered(x) /\ stored[x] \in Nat /\ lastUse["postgres"][x] \in Int
    BY <1>0, <1>1 DEF NonceStores
  <2> QED BY <1>1, <1>6, <2>3, <2>4, <2>5 DEF Remembered
<1>7. ASSUME NEW c \in Callers, UseNonce(c)
      PROVE  (\A x \in Messages : Remembered(x)') /\ (\A x \in Messages : Paced(x)')
  <2>1. /\ call[c].pc = "nonce" /\ UNCHANGED <<clock, stored>>
        /\ call[c].msg \in Messages
    BY <1>7 DEF UseNonce, Answer, HandlersAreFresh, InFlight
  <2>2. CASE UNCHANGED <<nonces, accepted, lastUse>>
    BY <1>3, <2>1, <2>2 DEF nonceVars
  <2>3. CASE SetNonce(call[c].msg) /\ Accept("redis", call[c].msg, clock)
    <3>1. accepted["redis"][call[c].msg] # 0 => lastUse["redis"][call[c].msg] + NonceTTL <= clock
      <4>1. PICK m \in Messages : m = call[c].msg
        BY <2>1
      <4>2. Remembered(m) /\ nonces[m] <= clock /\ nonces[m] \in Nat /\ lastUse["redis"][m] \in Int
        BY <1>0, <1>1, <2>3, <4>1 DEF SetNonce, NonceStores
      <4> QED BY <1>1, <4>1, <4>2 DEF Remembered
    <3>2. \A x \in Messages : Paced(x)'
      BY <1>1, <2>1, <2>3, <3>1, AcceptKeepsPace DEF NonceStores
    <3> QED BY <1>5, <2>1, <2>3, <3>2
  <2> QED BY <1>7, <2>2, <2>3 DEF UseNonce
<1>8. ASSUME NEW c \in Callers, UseNonceError(c)
      PROVE  (\A x \in Messages : Remembered(x)') /\ (\A x \in Messages : Paced(x)')
  <2>1. /\ UNCHANGED <<clock, stored, accepted, lastUse>> /\ call[c].msg \in Messages
        /\ SetNonce(call[c].msg) \/ UNCHANGED nonces
    BY <1>8 DEF UseNonceError, HandlersAreFresh, InFlight
  <2> QED BY <1>2, <1>3, <1>5, <2>1 DEF nonceVars
<1>9. ASSUME NEW c \in Callers, UseNonceFallback(c)
      PROVE  (\A x \in Messages : Remembered(x)') /\ (\A x \in Messages : Paced(x)')
  <2>1. /\ call[c].pc = "postgres" /\ UNCHANGED <<clock, nonces>>
        /\ call[c].msg \in Messages /\ call[c].stamp \in Int
    BY <1>9 DEF UseNonceFallback, Answer, HandlersAreFresh, InFlight, IngestTypes
  <2>2. CASE UNCHANGED <<stored, accepted, lastUse>>
    BY <1>3, <2>1, <2>2 DEF nonceVars
  <2>3. CASE InsertNonce(c) /\ Accept("postgres", call[c].msg, call[c].stamp)
    <3>1. accepted["postgres"][call[c].msg] # 0 =>
              lastUse["postgres"][call[c].msg] + NonceTTL <= clock
      BY <1>0, <2>1, <2>3 DEF Remembered, InsertNonce
    <3>2. \A x \in Messages : Paced(x)'
      BY <2>1, <2>3, <3>1, AcceptKeepsPace DEF NonceStores
    <3> QED BY <1>6, <2>1, <2>3, <3>2
  <2> QED BY <1>9, <2>2, <2>3 DEF UseNonceFallback
<1>10. ASSUME NEW c \in Callers, NonceStoreUnavailable(c)
       PROVE  (\A x \in Messages : Remembered(x)') /\ (\A x \in Messages : Paced(x)')
  <2>1. /\ call[c].pc = "postgres" /\ UNCHANGED <<clock, nonces, accepted, lastUse>>
        /\ InsertNonce(c) \/ UNCHANGED stored
    BY <1>10 DEF NonceStoreUnavailable, Answer
  <2> QED BY <1>2, <1>3, <1>6, <2>1 DEF nonceVars
<1>11. ASSUME NEW c \in Callers,
              \/ Allow(c) \/ AllowRedis(c) \/ AllowError(c) \/ AllowLocal(c)
              \/ \E m \in Messages : Ingest(c, m)
              \/ ReadClient(c)
       PROVE  UNCHANGED <<nonceVars, clock>>
  BY <1>11 DEF Allow, AllowRedis, AllowError, AllowLocal, Ingest, ReadClient
<1>12. CASE Tick \/ SaveTrackingClient \/ UNCHANGED vars
  BY <1>3, <1>12 DEF Tick, SaveTrackingClient, vars
<1> QED
  BY <1>3, <1>4, <1>7, <1>8, <1>9, <1>10, <1>11, <1>12 DEF Next

\* A message is counted only by a handler that ends with it, which found no nonce
\* of it, and which counts the life of its own from a clock it has read.
LEMMA OnlyUseAccepts ==
    ASSUME IngestTypes, HandlersAreFresh, [Next]_vars,
           NEW m \in Messages, NEW s \in NonceStores, accepted'[s][m] # accepted[s][m]
    PROVE  \E c \in Callers :
               /\ Accepts(c, m, s) /\ call[c].pc \in {"nonce", "postgres"}
               /\ \/ s = "redis" /\ nonces[m] <= clock
                  \/ s = "postgres" /\ stored[m] = 0
<1>1. ~UNCHANGED accepted
  OBVIOUS
<1>2. PICK c \in Callers : UseNonce(c) \/ UseNonceFallback(c)
  BY <1>1 DEF Next, Tick, PurgeNonces, SaveTrackingClient, Allow, AllowRedis, AllowError,
              AllowLocal, Ingest, ReadClient, UseNonceError, NonceStoreUnavailable, vars,
              nonceVars
<1>3. call[c].msg \in Messages /\ call'[c] = Free
  BY <1>2 DEF UseNonce, UseNonceFallback, Answer, HandlersAreFresh, InFlight, IngestTypes
<1>4. CASE UseNonce(c)
  <2>1. /\ call[c].pc = "nonce" /\ nonces[call[c].msg] <= clock
        /\ Accept("redis", call[c].msg, clock)
    BY <1>1, <1>4 DEF UseNonce, Answer, SetNonce
  <2>2. s = "redis" /\ call[c].msg = m
    BY <1>3, <2>1, AcceptCounts DEF NonceStores
  <2> QED BY <1>3, <2>1, <2>2 DEF Accepts
<1>5. CASE UseNonceFallback(c)
  <2>1. /\ call[c].pc = "postgres" /\ stored[call[c].msg] = 0
        /\ Accept("postgres", call[c].msg, call[c].stamp)
    BY <1>1, <1>5 DEF UseNonceFallback, Answer, InsertNonce
  <2>2. s = "postgres" /\ call[c].msg = m
    BY <1>3, <2>1, AcceptCounts DEF NonceStores
  <2> QED BY <1>3, <2>1, <2>2 DEF Accepts
<1> QED BY <1>2, <1>4, <1>5
-----------------------------------------------------------------------------
(* Revocation. *)

\* Initially nobody is about to use a nonce and nothing is withdrawn.
LEMMA RevocationInit == Init => Revocation
<1> SUFFICES ASSUME Init PROVE Revocation
  OBVIOUS
<1>1. /\ revoked = [m \in Messages |-> -1]
      /\ \A c \in Callers : call[c].pc = "idle"
  BY DEF Init, Free
<1> QED BY <1>1 DEF Revocation, Withdrawn, Reader

\* Only a handler that had read the client before its change gets through.
LEMMA RevocationStep ==
    IngestTypes /\ BudgetTypes /\ HandlersAreFresh /\ Revocation /\ [Next]_vars => Revocation'
<1> SUFFICES ASSUME IngestTypes, BudgetTypes, HandlersAreFresh, Revocation, [Next]_vars
             PROVE  Revocation'
  OBVIOUS
<1>0. (\A m \in Messages : Withdrawn(m)) /\ (\A c \in Callers : Reader(c))
  BY DEF Revocation
<1>1. SUFFICES (\A m \in Messages : Withdrawn(m)') /\ (\A c \in Callers : Reader(c)')
  BY DEF Revocation
<1>2. /\ budget.edits \in Nat
      /\ \A m \in Messages : revoked[m] \in Int
      /\ \A c \in Callers : call[c].read \in Nat
  BY DEF IngestTypes, BudgetTypes
<1>3. ASSUME UNCHANGED clientVars, budget'.edits = budget.edits
      PROVE  \A m \in Messages : Withdrawn(m)'
  BY <1>0, <1>3 DEF Withdrawn, Authorized, clientVars
<1>4. ASSUME UNCHANGED clientVars, budget'.edits = budget.edits, NEW c \in Callers,
             \A d \in Callers \ {c} : call'[d] = call[d],
             \/ call'[c].pc \notin {"nonce", "postgres"}
             \/ /\ call[c].pc = "nonce"
                /\ call'[c].read = call[c].read /\ call'[c].msg = call[c].msg
             \/ revoked[call'[c].msg] = -1 /\ call'[c].read = budget.edits
      PROVE  \A d \in Callers : Reader(d)'
  <2> SUFFICES ASSUME NEW d \in Callers PROVE Reader(d)'
    OBVIOUS
  <2>1. revoked' = revoked
    BY <1>4 DEF clientVars
  <2>2. CASE d = c
    BY <1>0, <1>2, <1>4, <2>1, <2>2 DEF Reader
  <2>3. CASE d # c
    BY <1>0, <1>4, <2>1, <2>3 DEF Reader
  <2> QED BY <2>2, <2>3
<1>5. ASSUME NEW c \in Callers, NEW from, Answer(c, from)
      PROVE  /\ call'[c].pc \notin {"nonce", "postgres"}
             /\ \A d \in Callers \ {c} : call'[d] = call[d]
  BY <1>5 DEF IngestTypes, Answer, Free
<1>6. RedisError => budget'.edits = budget.edits
  BY DEF RedisError, BudgetTypes
<1>7. CASE UNCHANGED <<clientVars, call>> /\ budget'.edits = budget.edits
  BY <1>0, <1>3, <1>7 DEF Reader, clientVars
<1>8. CASE Tick
  <2>1. budget'.edits = budget.edits
    BY <1>8 DEF Tick, BudgetTypes
  <2> QED BY <1>7, <1>8, <2>1 DEF Tick
<1>9. CASE SaveTrackingClient
  <2>1. /\ call' = call /\ budget'.edits = budget.edits - 1 /\ budget'.edits \in Nat
        /\ \A m \in Messages : revoked'[m] =
               IF client'.enabled /\ client'.secret = m.secret THEN -1
               ELSE IF revoked[m] # -1 THEN revoked[m] ELSE budget'.edits
    BY <1>2, <1>9 DEF SaveTrackingClient, BudgetTypes
  <2>2. ASSUME NEW m \in Messages PROVE Withdrawn(m)'
    <3>1. Authorized(m)' <=> client'.enabled /\ client'.secret = m.secret
      BY DEF Authorized
    <3> QED BY <1>0, <1>2, <2>1, <3>1 DEF Withdrawn
  <2>3. ASSUME NEW c \in Callers PROVE Reader(c)'
    <3>1. CASE call[c].pc \in {"nonce", "postgres"}
      <4>1. PICK m \in Messages : m = call[c].msg
        BY <3>1 DEF HandlersAreFresh, InFlight
      <4>2. Reader(c) /\ Withdrawn(m)
        BY <1>0
      <4>3. /\ revoked[m] \in Int /\ call[c].read \in Nat
            /\ revoked'[m] \in {-1, revoked[m], budget'.edits}
            /\ revoked'[m] = budget'.edits \/ revoked'[m] = -1 \/ revoked[m] # -1
        BY <1>2, <2>1
      <4> QED BY <1>2, <2>1, <3>1, <4>1, <4>2, <4>3 DEF Reader, Withdrawn
    <3>2. CASE call[c].pc \notin {"nonce", "postgres"}
      BY <2>1, <3>2 DEF Reader
    <3> QED BY <3>1, <3>2
  <2> QED BY <2>2, <2>3
<1>10. ASSUME NEW c \in Callers, NEW kind \in {"allow", "ingest"},
              NEW where \in {"script", "client"}, NEW m,
              Begin(c, kind, where, m), UNCHANGED clientVars
       PROVE  (\A x \in Messages : Withdrawn(x)') /\ (\A d \in Callers : Reader(d)')
  <2>1. /\ call'[c].pc \notin {"nonce", "postgres"}
        /\ \A d \in Callers \ {c} : call'[d] = call[d]
    BY <1>10 DEF IngestTypes, Begin
  <2>2. budget'.edits = budget.edits
    BY <1>10 DEF Begin, BudgetTypes
  <2> QED BY <1>3, <1>4, <1>10, <2>1, <2>2
<1>11. ASSUME NEW c \in Callers, Allow(c) \/ (\E m \in Messages : Ingest(c, m))
       PROVE  (\A m \in Messages : Withdrawn(m)') /\ (\A d \in Callers : Reader(d)')
  BY <1>10, <1>11 DEF Allow, Ingest
<1>12. ASSUME NEW c \in Callers, AllowError(c)
       PROVE  (\A m \in Messages : Withdrawn(m)') /\ (\A d \in Callers : Reader(d)')
  <2>1. call'[c].pc = "local" /\ \A d \in Callers \ {c} : call'[d] = call[d]
    BY <1>12 DEF IngestTypes, AllowError
  <2>2. UNCHANGED clientVars /\ budget'.edits = budget.edits
    BY <1>6, <1>12 DEF AllowError
  <2> QED BY <1>3, <1>4, <2>1, <2>2
<1>13. ASSUME NEW c \in Callers,
              \/ AllowRedis(c) \/ AllowLocal(c)
              \/ UseNonce(c) \/ UseNonceFallback(c) \/ NonceStoreUnavailable(c)
       PROVE  (\A m \in Messages : Withdrawn(m)') /\ (\A d \in Callers : Reader(d)')
  <2>1. UNCHANGED clientVars /\ budget'.edits = budget.edits /\ \E from : Answer(c, from)
    BY <1>6, <1>13 DEF AllowRedis, AllowLocal, UseNonce, UseNonceFallback,
                       NonceStoreUnavailable
  <2> QED BY <1>3, <1>4, <1>5, <2>1
<1>14. ASSUME NEW c \in Callers, ReadClient(c)
       PROVE  (\A m \in Messages : Withdrawn(m)') /\ (\A d \in Callers : Reader(d)')
  <2>1. UNCHANGED clientVars /\ budget'.edits = budget.edits
    BY <1>14 DEF ReadClient
  <2>2. CASE Answer(c, "client")
    BY <1>3, <1>4, <1>5, <2>1, <2>2
  <2>3. CASE /\ Authorized(call[c].msg) /\ call[c].pc = "client"
             /\ call' = [call EXCEPT ![c].pc = "nonce", ![c].read = budget.edits]
    <3>1. /\ call'[c].msg = call[c].msg /\ call'[c].read = budget.edits
          /\ \A d \in Callers \ {c} : call'[d] = call[d]
      BY <2>3 DEF IngestTypes
    <3>2. call[c].msg \in Messages
      BY <2>3 DEF HandlersAreFresh, InFlight
    <3>3. revoked[call'[c].msg] = -1
      BY <1>0, <2>3, <3>1, <3>2 DEF Withdrawn
    <3> QED BY <1>3, <1>4, <2>1, <3>1, <3>3
  <2> QED BY <1>14, <2>2, <2>3 DEF ReadClient
<1>15. ASSUME NEW c \in Callers, UseNonceError(c)
       PROVE  (\A m \in Messages : Withdrawn(m)') /\ (\A d \in Callers : Reader(d)')
  <2>1. UNCHANGED clientVars /\ budget'.edits = budget.edits
    BY <1>6, <1>15 DEF UseNonceError
  <2>2. /\ call[c].pc = "nonce"
        /\ call'[c].read = call[c].read /\ call'[c].msg = call[c].msg
        /\ \A d \in Callers \ {c} : call'[d] = call[d]
    BY <1>15 DEF IngestTypes, UseNonceError
  <2> QED BY <1>3, <1>4, <2>1, <2>2
<1>16. CASE PurgeNonces \/ UNCHANGED vars
  BY <1>7, <1>16 DEF PurgeNonces, vars
<1> QED
  BY <1>8, <1>9, <1>11, <1>12, <1>13, <1>14, <1>15, <1>16 DEF Next
-----------------------------------------------------------------------------
(* The rate limiter. *)

End == MaxTime + MaxOffset

\* What the rate earns in so many seconds.
Gain(seconds) == Rate * seconds

\* The calls that s admitted and that read t or later.
Since(s, t) == AdmittedIn(s, t, End)

BucketTypes ==
    /\ bucket \in [Stores -> [tokens : Int, last : Seconds, dies : Int]]
    /\ admitted \in [Stores -> [Seconds -> Nat]]
    /\ setBack \in Nat
    /\ \A s \in Stores : \A t, u \in Seconds : t <= u => admitted[s][t] <= admitted[s][u]

\* Allow reads its clock after the handler began, and not in the future.
Stamped ==
    \A c \in Callers : call[c].pc \in {"script", "local"} =>
        /\ call[c].since + Offset[Home[c]] <= call[c].stamp
        /\ call[c].stamp <= Now(Home[c])

Unused(s) == bucket[s] = NoBucket /\ \A t \in Seconds : admitted[s][t] = 0

\* What was admitted from t on and the tokens that are left do not exceed what the
\* burst and the time since t have given; x is how far the store went back.
Paid(s, x) ==
    \A t \in Seconds : t <= bucket[s].last \/ Since(s, t) > 0 =>
        Since(s, t) + bucket[s].tokens <= Burst + Gain(bucket[s].last + x - t)

Bounded(s, x) ==
    \A t, u \in Seconds : t <= u => AdmittedIn(s, t, u) <= Burst + Gain(u - t + x)

\* The bucket in Redis never owes, and was last used by a clock that its expiry
\* remembers.
RedisRate ==
    KeptInRedis =>
        /\ Bounded("redis", setBack)
        /\ \/ Unused("redis")
           \/ /\ 0 <= bucket["redis"].tokens /\ bucket["redis"].tokens <= Burst
              /\ bucket["redis"].last <= bucket["redis"].dies - ScriptTTL + MaxOffset
              /\ Paid("redis", setBack)

\* A bucket in a process may owe what an overtaken call gave back, but not more
\* than a delay, and no more than it has earned since.
LocalRate(r) ==
    KeptLocally =>
        /\ Bounded(r, 0)
        /\ \/ Unused(r)
           \/ /\ bucket[r].tokens <= Burst
              /\ bucket[r].last <= Now(r) /\ bucket[r].dies = 0
              /\ bucket[r].tokens + Gain(MaxDelay) >= 0
              /\ bucket[r].tokens + Gain(Now(r) - bucket[r].last) >= 0
              /\ Paid(r, 0)

Rates == BucketTypes /\ RedisRate /\ \A r \in Replicas : LocalRate(r)

RateInv == Stamped /\ Rates
-----------------------------------------------------------------------------
(* Constants of the rate limiter. *)

\* Max and Min of two numbers.
LEMMA TwoNumbers ==
    ASSUME NEW a \in Int, NEW b \in Int
    PROVE  /\ Max({a, b}) = IF a > b THEN a ELSE b
           /\ Min({a, b}) = IF a < b THEN a ELSE b
<1>1. \E x \in {a, b} : \A y \in {a, b} : x >= y
  OBVIOUS
<1>2. \E x \in {a, b} : \A y \in {a, b} : x <= y
  OBVIOUS
<1>3. Max({a, b}) \in {a, b} /\ \A y \in {a, b} : Max({a, b}) >= y
  BY <1>1 DEF Max
<1>4. Min({a, b}) \in {a, b} /\ \A y \in {a, b} : Min({a, b}) <= y
  BY <1>2 DEF Min
<1> QED BY <1>3, <1>4

\* The rate earns more in a longer time, and in two spans what it earns in each.
LEMMA GainIsLinear ==
    /\ \A x \in Int : Gain(x) \in Int
    /\ \A x \in Nat : Gain(x) \in Nat
    /\ \A x, y \in Int : Gain(x + y) = Gain(x) + Gain(y)
    /\ \A x, y \in Int : x <= y => Gain(x) <= Gain(y)
    /\ Gain(0) = 0
<1>1. Rate \in Nat
  BY RedisGuardAssumption
<1>2. \A x \in Int : Gain(x) \in Int
  BY <1>1 DEF Gain
<1>3. ASSUME NEW x \in Int, NEW y \in Int PROVE Gain(x + y) = Gain(x) + Gain(y)
  BY <1>1 DEF Gain
<1>4. ASSUME NEW x \in Nat PROVE Gain(x) \in Nat
  BY <1>1 DEF Gain
<1>5. ASSUME NEW x \in Int, NEW y \in Int, x <= y PROVE Gain(x) <= Gain(y)
  <2>1. y - x \in Nat /\ y = x + (y - x)
    BY <1>5
  <2>2. Gain(y) = Gain(x) + Gain(y - x)
    BY <1>3, <2>1
  <2> QED BY <1>2, <1>4, <2>1, <2>2
<1>6. Gain(0) = 0
  BY <1>1 DEF Gain
<1> QED BY <1>2, <1>3, <1>4, <1>5, <1>6

\* The seconds end after the last second of every behaviour.
LEMMA TimeIsBounded ==
    /\ MaxTime \in Nat /\ \A n \in Mixes : n.time <= MaxTime
    /\ End \in Nat /\ Seconds = 0..End
<1> DEFINE S == {n.time : n \in Mixes}
<1>1. IsFiniteSet(S) /\ S # {} /\ S \subseteq Nat
  <2>1. [n \in Mixes |-> n.time] \in Surjection(Mixes, S)
    BY DEF Surjection
  <2>2. IsFiniteSet(S)
    <3> HIDE DEF S
    <3> QED BY <2>1, FS_Surjection, RedisGuardAssumption
  <2> QED BY <2>2, RedisGuardAssumption
<1>2. Max(S) \in S /\ \A y \in S : y <= Max(S)
  <2>1. S \subseteq Int
    BY <1>1
  <2> HIDE DEF S
  <2> QED BY <1>1, <2>1, MaxIsLargest
<1> QED BY <1>1, <1>2, OffsetBound DEF MaxTime, End, Seconds

\* What the proofs use of the limit.
LEMMA Limits ==
    /\ Rate \in Nat \ {0} /\ Burst \in Nat \ {0} /\ IdleLimit \in Nat
    /\ ScriptTTL \in Int /\ MaxDelay \in Nat /\ MaxOffset \in Nat
    /\ "redis" \notin Replicas
    /\ (KeptInRedis => Gain(ScriptTTL - MaxOffset - MaxDelay) >= Burst)
    /\ (KeptLocally => Gain(IdleLimit - MaxDelay) >= Burst)
  BY RedisGuardAssumption, OffsetBound DEF ScriptTTL, KeptInRedis, KeptLocally, Gain
-----------------------------------------------------------------------------
(* Types of the rate limiter. *)

\* Charge keeps the types and the running totals.
LEMMA ChargeTypes ==
    ASSUME BucketTypes, NEW s \in Stores,
           NEW b \in [tokens : Int, last : Seconds, dies : Int], Charge(s, b)
    PROVE  /\ bucket' \in [Stores -> [tokens : Int, last : Seconds, dies : Int]]
           /\ bucket'[s].tokens = IF b.tokens >= 1 THEN b.tokens - 1 ELSE b.tokens
           /\ bucket'[s].last = b.last /\ bucket'[s].dies = b.dies
           /\ \A q \in Stores \ {s} : bucket'[q] = bucket[q] /\ admitted'[q] = admitted[q]
           /\ admitted' \in [Stores -> [Seconds -> Nat]]
           /\ \A t \in Seconds : admitted'[s][t] =
                 admitted[s][t] + (IF b.tokens >= 1 /\ t >= b.last THEN 1 ELSE 0)
           /\ \A q \in Stores : \A t, u \in Seconds :
                 t <= u => admitted'[q][t] <= admitted'[q][u]
<1> DEFINE f == [t \in Seconds |-> IF b.tokens >= 1 /\ t >= b.last THEN admitted[s][t] + 1
                                                                  ELSE admitted[s][t]]
<1>1. /\ bucket \in [Stores -> [tokens : Int, last : Seconds, dies : Int]]
      /\ admitted \in [Stores -> [Seconds -> Nat]]
  BY DEF BucketTypes
<1>0. Seconds \subseteq Int
  BY TimeIsBounded
<1>2. /\ bucket' = [bucket EXCEPT ![s] = IF b.tokens >= 1 THEN [b EXCEPT !.tokens = @ - 1] ELSE b]
      /\ admitted' = [admitted EXCEPT ![s] = f]
  BY DEF Charge
<1>3. f \in [Seconds -> Nat]
  BY <1>1
<1>4. /\ bucket'[s].tokens = IF b.tokens >= 1 THEN b.tokens - 1 ELSE b.tokens
      /\ bucket'[s].last = b.last /\ bucket'[s].dies = b.dies
  BY <1>1, <1>2
<1>5. bucket' \in [Stores -> [tokens : Int, last : Seconds, dies : Int]]
  BY <1>1, <1>2
<1>6. admitted' \in [Stores -> [Seconds -> Nat]] /\ admitted'[s] = f
  <2> HIDE DEF f
  <2> QED BY <1>1, <1>2, <1>3
<1>7. \A q \in Stores \ {s} : bucket'[q] = bucket[q] /\ admitted'[q] = admitted[q]
  <2> HIDE DEF f
  <2> QED BY <1>1, <1>2
<1>8. \A t \in Seconds : admitted'[s][t] =
         admitted[s][t] + (IF b.tokens >= 1 /\ t >= b.last THEN 1 ELSE 0)
  BY <1>1, <1>6
<1>9. ASSUME NEW q \in Stores, NEW t \in Seconds, NEW u \in Seconds, t <= u
      PROVE  admitted'[q][t] <= admitted'[q][u]
  <2>1. admitted[q][t] <= admitted[q][u] /\ admitted[q][t] \in Nat /\ admitted[q][u] \in Nat
    BY <1>1, <1>9 DEF BucketTypes
  <2>2. t \in Int /\ u \in Int /\ b.last \in Int
    BY <1>0
  <2>3. CASE q = s
    BY <1>8, <1>9, <2>1, <2>2, <2>3
  <2>4. CASE q # s
    BY <1>7, <2>1, <2>4
  <2> QED BY <2>3, <2>4
<1> QED BY <1>4, <1>5, <1>6, <1>7, <1>8, <1>9

\* Every call reads a second that is counted.
LEMMA StampsAreSeconds ==
    ASSUME IngestTypes, HandlersAreFresh, BudgetTypes, Stamped,
           NEW c \in Callers, call[c].pc \in {"script", "local"}
    PROVE  /\ call[c].stamp \in Seconds
           /\ call[c].stamp <= Now(Home[c])
           /\ Now(Home[c]) <= call[c].stamp + MaxDelay
           /\ call[c].stamp <= clock + MaxOffset
           /\ clock <= call[c].stamp + MaxDelay
<1> DEFINE at == call[c].stamp
           o == Offset[Home[c]]
<1>1. clock \in Nat /\ at \in Nat /\ call[c].since \in Nat /\ budget.time \in Nat
  BY DEF IngestTypes, BudgetTypes
<1>2. clock <= MaxTime
  BY <1>1, TimeIsBounded DEF BudgetTypes
<1>3. o \in Nat /\ o <= MaxOffset /\ MaxOffset \in Nat /\ MaxDelay \in Nat
  BY Constants, OffsetBound
<1>4. call[c].since + o <= at /\ at <= clock + o
  BY DEF Stamped, Now
<1>5. clock <= call[c].since + MaxDelay
  BY DEF HandlersAreFresh, InFlight
<1>6. Seconds = 0..(MaxTime + MaxOffset) /\ MaxTime \in Nat
  BY TimeIsBounded DEF Seconds
<1> HIDE DEF at, o
<1>7. at \in 0..(MaxTime + MaxOffset) /\ at <= clock + MaxOffset
  BY <1>1, <1>2, <1>3, <1>4, <1>6
<1>8. clock + o <= at + MaxDelay /\ clock <= at + MaxDelay
  BY <1>1, <1>3, <1>4, <1>5
<1> QED BY <1>4, <1>6, <1>7, <1>8 DEF at, o, Now
-----------------------------------------------------------------------------
(* What one call adds. *)

\* The calls of a span are a number, and are among those since its beginning.
LEMMA SpansAreCounted ==
    ASSUME BucketTypes, NEW s \in Stores, NEW t \in Seconds, NEW u \in Seconds, t <= u
    PROVE  /\ AdmittedIn(s, t, u) \in Int /\ Since(s, t) \in Int
           /\ AdmittedIn(s, t, u) <= Since(s, t)
<1>1. Seconds = 0..End /\ End \in Nat
  BY TimeIsBounded
<1>2. \A x \in Seconds : admitted[s][x] \in Nat
  BY DEF BucketTypes
<1>3. End \in Seconds /\ u <= End
  BY <1>1
<1>4. admitted[s][u] <= admitted[s][End]
  BY <1>3 DEF BucketTypes
<1>5. t # 0 => t - 1 \in Seconds
  BY <1>1
<1> QED BY <1>2, <1>3, <1>4, <1>5 DEF AdmittedIn, Since

\* A call that is admitted counts in the spans that hold its second.
LEMMA ChargeCounts ==
    ASSUME BucketTypes, NEW s \in Stores,
           NEW b \in [tokens : Int, last : Seconds, dies : Int], Charge(s, b),
           NEW t \in Seconds, NEW u \in Seconds, t <= u
    PROVE  /\ AdmittedIn(s, t, u)' = AdmittedIn(s, t, u) +
                 (IF b.tokens >= 1 /\ t <= b.last /\ b.last <= u THEN 1 ELSE 0)
           /\ Since(s, t)' = Since(s, t) + (IF b.tokens >= 1 /\ t <= b.last THEN 1 ELSE 0)
<1>1. Seconds = 0..End /\ End \in Nat
  BY TimeIsBounded
<1>2. \A x \in Seconds : /\ admitted[s][x] \in Nat
                         /\ admitted'[s][x] = admitted[s][x] +
                               (IF b.tokens >= 1 /\ x >= b.last THEN 1 ELSE 0)
  BY ChargeTypes DEF BucketTypes
<1>3. b.last \in Seconds /\ b.tokens \in Int
  OBVIOUS
<1>4. ASSUME NEW v \in Seconds, t <= v
      PROVE  AdmittedIn(s, t, v)' = AdmittedIn(s, t, v) +
                 (IF b.tokens >= 1 /\ t <= b.last /\ b.last <= v THEN 1 ELSE 0)
  <2>1. CASE t = 0
    BY <1>1, <1>2, <1>3, <1>4, <2>1 DEF AdmittedIn
  <2>2. CASE t # 0
    <3>1. t - 1 \in Seconds
      BY <1>1, <2>2
    <3>2. t \in Int /\ v \in Int /\ b.last \in Int
      BY <1>1, <1>3
    <3>3. /\ AdmittedIn(s, t, v) = admitted[s][v] - admitted[s][t - 1]
          /\ AdmittedIn(s, t, v)' = admitted'[s][v] - admitted'[s][t - 1]
      BY <2>2 DEF AdmittedIn
    <3>4. t - 1 >= b.last <=> ~(t <= b.last)
      BY <3>2
    <3> QED BY <1>2, <1>3, <1>4, <3>1, <3>2, <3>3, <3>4
  <2> QED BY <2>1, <2>2
<1>5. End \in Seconds /\ t <= End /\ b.last <= End /\ End' = End
  BY <1>1, <1>3 DEF End, MaxTime, MaxOffset
<1>6. Since(s, t)' = AdmittedIn(s, t, End)' /\ Since(s, t) = AdmittedIn(s, t, End)
  BY DEF Since
<1> QED BY <1>4, <1>5, <1>6

\* If a store has not given more than it earned before it takes a token from b,
\* it has not afterwards; y is how far the store has gone back by then.
LEMMA ChargePays ==
    ASSUME BucketTypes, NEW s \in Stores,
           NEW b \in [tokens : Int, last : Seconds, dies : Int], Charge(s, b),
           NEW x \in Nat, NEW y \in Nat, x <= y, Bounded(s, x), b.tokens <= Burst,
           \A t \in Seconds : Since(s, t) > 0 =>
               Since(s, t) + b.tokens <= Burst + Gain(b.last + y - t)
    PROVE  /\ \A t, u \in Seconds : t <= u =>
                  AdmittedIn(s, t, u)' <= Burst + Gain(u - t + y)
           /\ \A t \in Seconds : t <= bucket'[s].last \/ Since(s, t)' > 0 =>
                  Since(s, t)' + bucket'[s].tokens <= Burst + Gain(bucket'[s].last + y - t)
<1>1. Seconds \subseteq Int /\ End \in Seconds /\ \A t \in Seconds : t <= End
  BY TimeIsBounded
<1>2. Burst \in Nat /\ \A t, u \in Int : Gain(t) \in Int /\ (t <= u => Gain(t) <= Gain(u))
  BY Limits, GainIsLinear
<1>3. /\ b.last \in Int /\ b.tokens \in Int
      /\ bucket'[s].last = b.last
      /\ bucket'[s].tokens = IF b.tokens >= 1 THEN b.tokens - 1 ELSE b.tokens
  BY <1>1, ChargeTypes
<1>4. ASSUME NEW t \in Seconds
      PROVE  /\ Since(s, t) \in Int
             /\ Since(s, t)' = Since(s, t) + (IF b.tokens >= 1 /\ t <= b.last THEN 1 ELSE 0)
  BY <1>1, ChargeCounts, SpansAreCounted
<1>5. ASSUME NEW t \in Seconds, t <= b.last \/ Since(s, t) > 0
      PROVE  Since(s, t) + b.tokens <= Burst + Gain(b.last + y - t)
  <2>1. CASE Since(s, t) > 0
    BY <2>1
  <2>2. CASE ~(Since(s, t) > 0)
    <3>1. t \in Int /\ t <= b.last
      BY <1>1, <1>5, <2>2
    <3>2. b.last + y - t \in Nat
      BY <1>3, <3>1
    <3>3. Gain(b.last + y - t) \in Nat
      BY <3>2, GainIsLinear
    <3> QED BY <1>2, <1>3, <1>4, <2>2, <3>3
  <2> QED BY <2>1, <2>2
<1>6. ASSUME NEW t \in Seconds, t <= bucket'[s].last \/ Since(s, t)' > 0
      PROVE  Since(s, t)' + bucket'[s].tokens <= Burst + Gain(bucket'[s].last + y - t)
  <2>1. t \in Int /\ Gain(b.last + y - t) \in Int
    BY <1>1, <1>2, <1>3
  <2>2. t <= b.last \/ Since(s, t) > 0
    BY <1>3, <1>4, <1>6, <2>1
  <2>3. Since(s, t) + b.tokens <= Burst + Gain(b.last + y - t)
    BY <1>5, <2>2
  <2>4. bucket'[s].last + y - t = b.last + y - t
    BY <1>3
  <2>5. Since(s, t)' + bucket'[s].tokens <= Since(s, t) + b.tokens
    <3>1. CASE b.tokens >= 1 /\ t <= b.last
      BY <1>3, <1>4, <3>1
    <3>2. CASE b.tokens >= 1 /\ ~(t <= b.last)
      BY <1>3, <1>4, <3>2
    <3>3. CASE ~(b.tokens >= 1)
      BY <1>3, <1>4, <3>3
    <3> QED BY <3>1, <3>2, <3>3
  <2>6. Since(s, t)' + bucket'[s].tokens \in Int /\ Since(s, t) + b.tokens \in Int
    BY <1>3, <1>4
  <2> QED BY <1>2, <2>1, <2>3, <2>4, <2>5, <2>6
<1>7. ASSUME NEW t \in Seconds, NEW u \in Seconds, t <= u
      PROVE  AdmittedIn(s, t, u)' <= Burst + Gain(u - t + y)
  <2>1. /\ AdmittedIn(s, t, u) \in Int /\ Since(s, t) \in Int
        /\ AdmittedIn(s, t, u) <= Since(s, t)
        /\ AdmittedIn(s, t, u)' = AdmittedIn(s, t, u) +
               (IF b.tokens >= 1 /\ t <= b.last /\ b.last <= u THEN 1 ELSE 0)
    BY <1>7, SpansAreCounted, ChargeCounts
  <2>2. t \in Int /\ u \in Int /\ u - t + x \in Int /\ u - t + y \in Int /\ u - t + x <= u - t + y
    BY <1>1
  <2>3. CASE b.tokens >= 1 /\ t <= b.last /\ b.last <= u
    <3>1. Since(s, t) + b.tokens <= Burst + Gain(b.last + y - t)
      BY <1>5, <2>3
    <3>2. b.last + y - t \in Int /\ b.last + y - t <= u - t + y
      BY <1>3, <2>2, <2>3
    <3>3. Gain(b.last + y - t) \in Int /\ Gain(u - t + y) \in Int
          /\ Gain(b.last + y - t) <= Gain(u - t + y)
      BY <1>2, <2>2, <3>2
    <3> QED BY <1>2, <1>3, <2>1, <2>3, <3>1, <3>3
  <2>4. CASE ~(b.tokens >= 1 /\ t <= b.last /\ b.last <= u)
    <3>1. AdmittedIn(s, t, u)' = AdmittedIn(s, t, u)
      BY <2>1, <2>4
    <3>2. AdmittedIn(s, t, u) <= Burst + Gain(u - t + x)
      BY <1>7 DEF Bounded
    <3>3. Gain(u - t + x) \in Int /\ Gain(u - t + y) \in Int
          /\ Gain(u - t + x) <= Gain(u - t + y)
      BY <1>2, <2>2
    <3> QED BY <1>2, <2>1, <3>1, <3>2, <3>3
  <2> QED BY <2>3, <2>4
<1> QED BY <1>6, <1>7
-----------------------------------------------------------------------------
(* The two buckets. *)

\* Where nothing was admitted there is nothing to pay.
LEMMA UnusedOwesNothing ==
    ASSUME NEW s \in Stores, Unused(s), NEW t \in Seconds
    PROVE  Since(s, t) = 0
<1>1. End \in Seconds /\ Seconds = 0..End /\ End \in Nat
  BY TimeIsBounded
<1>2. t # 0 => t - 1 \in Seconds
  BY <1>1
<1> QED BY <1>1, <1>2 DEF Unused, Since, AdmittedIn

\* tokenBucketScript fills the bucket as if it had always been there, and what it
\* sets its time stamp back is what it gives too much.
LEMMA ScriptKeeps ==
    ASSUME BucketTypes, RedisRate, NEW now \in Seconds, clock \in Nat,
           now <= clock + MaxOffset, clock <= now + MaxDelay,
           TokenBucketScript(now), UNCHANGED clock
    PROVE  /\ BucketTypes' /\ RedisRate'
           /\ \A r \in Replicas : bucket'[r] = bucket[r] /\ admitted'[r] = admitted[r]
<1> DEFINE live == bucket["redis"].dies > clock
           tokens == IF live THEN bucket["redis"].tokens ELSE Burst
           last == IF live THEN bucket["redis"].last ELSE now
           elapsed == IF now > last THEN now - last ELSE 0
           back == IF last > now THEN last - now ELSE 0
           earned == tokens + Gain(elapsed)
           filled == IF Burst < earned THEN Burst ELSE earned
<1>1. /\ Seconds \subseteq Int /\ Burst \in Nat \ {0} /\ MaxOffset \in Nat /\ MaxDelay \in Nat
      /\ ScriptTTL \in Int /\ \A x \in Int : Gain(x) \in Int
  BY TimeIsBounded, Limits, GainIsLinear
<1>2. "redis" \in Stores /\ bucket["redis"] \in [tokens : Int, last : Seconds, dies : Int]
      /\ setBack \in Nat
  BY DEF Stores, BucketTypes
<1>3. tokens \in Int /\ last \in Seconds /\ last \in Int /\ now \in Int
  <2>1. bucket["redis"].tokens \in Int /\ bucket["redis"].last \in Seconds /\ Burst \in Int
    BY <1>1, <1>2
  <2>2. tokens \in Int /\ last \in Seconds
    BY <2>1
  <2> HIDE DEF tokens, last
  <2> QED BY <1>1, <2>2
<1>4. elapsed \in Nat /\ back \in Nat /\ now - last = elapsed - back
  BY <1>3
<1>5. earned \in Int /\ filled \in Int /\ filled <= Burst /\ filled <= earned
  BY <1>1, <1>3, <1>4
<1>6. PICK b : b = [tokens |-> filled, last |-> now, dies |-> clock + ScriptTTL]
  OBVIOUS
<1>7. /\ b \in [tokens : Int, last : Seconds, dies : Int]
      /\ b.tokens = filled /\ b.last = now /\ b.dies = clock + ScriptTTL
  BY <1>1, <1>5, <1>6
<1>8. Charge("redis", b) /\ setBack' = setBack + back
  <2>1. Max({0, now - last}) = elapsed /\ Max({0, last - now}) = back
    <3> HIDE DEF last
    <3>1. 0 \in Int /\ now - last \in Int /\ last - now \in Int
      BY <1>3
    <3>2. /\ Max({0, now - last}) = IF 0 > now - last THEN 0 ELSE now - last
          /\ Max({0, last - now}) = IF 0 > last - now THEN 0 ELSE last - now
      BY <3>1, TwoNumbers
    <3> QED BY <1>3, <3>2
  <2>2. Refilled(tokens, elapsed) = filled
    <3>1. Refilled(tokens, elapsed) = Min({Burst, earned})
      BY DEF Refilled, Gain
    <3>2. Burst \in Int /\ earned \in Int
      BY <1>1, <1>5
    <3> HIDE DEF earned
    <3> QED BY <3>1, <3>2, TwoNumbers
  <2> DEFINE old == IF live THEN bucket["redis"]
                    ELSE [tokens |-> Burst, last |-> now, dies |-> 0]
  <2>3. old.tokens = tokens /\ old.last = last
    OBVIOUS
  <2>4. /\ Charge("redis", [tokens |-> Refilled(old.tokens, Max({0, now - old.last})),
                            last |-> now, dies |-> clock + ScriptTTL])
        /\ setBack' = setBack + Max({0, old.last - now})
    BY DEF TokenBucketScript
  <2> HIDE DEF old
  <2>5. b = [tokens |-> Refilled(old.tokens, Max({0, now - old.last})),
             last |-> now, dies |-> clock + ScriptTTL]
    BY <1>6, <2>1, <2>2, <2>3
  <2> QED BY <2>1, <2>3, <2>4, <2>5
<1> HIDE DEF live, tokens, last, elapsed, back, earned, filled
<1>9. BucketTypes'
  <2>1. setBack' \in Nat
    BY <1>2, <1>4, <1>8
  <2> QED BY <1>2, <1>7, <1>8, <2>1, ChargeTypes DEF BucketTypes, Seconds, Stores, MaxTime, MaxOffset
<1>10. \A r \in Replicas : bucket'[r] = bucket[r] /\ admitted'[r] = admitted[r]
  <2>1. \A r \in Replicas : r \in Stores \ {"redis"}
    BY Limits DEF Stores
  <2> QED BY <1>2, <1>7, <1>8, <2>1, ChargeTypes
<1>11. ASSUME KeptInRedis
       PROVE  \A t \in Seconds : Since("redis", t) > 0 =>
                  Since("redis", t) + b.tokens <= Burst + Gain(b.last + setBack' - t)
  <2> SUFFICES ASSUME NEW t \in Seconds, Since("redis", t) > 0
               PROVE  Since("redis", t) + b.tokens <= Burst + Gain(b.last + setBack' - t)
    OBVIOUS
  <2> DEFINE L == bucket["redis"].last
             T == bucket["redis"].tokens
             before == L + setBack - t
  <2>1. /\ 0 <= T /\ L <= bucket["redis"].dies - ScriptTTL + MaxOffset
        /\ Since("redis", t) + T <= Burst + Gain(before)
    BY <1>2, <1>11, UnusedOwesNothing DEF RedisRate, Paid
  <2>2. /\ L \in Int /\ T \in Int /\ t \in Int /\ Since("redis", t) \in Int
        /\ bucket["redis"].dies \in Int /\ before \in Int
    <3>1. L \in Int /\ T \in Int /\ t \in Int /\ bucket["redis"].dies \in Int
      BY <1>1, <1>2
    <3>2. Since("redis", t) \in Int
      <4>1. End \in Seconds /\ t <= End
        BY TimeIsBounded
      <4> QED BY <1>2, <4>1, SpansAreCounted
    <3> QED BY <1>2, <3>1, <3>2
  <2>3. CASE live
    <3>1. tokens = T /\ last = L
      BY <2>3 DEF tokens, last
    <3>2. b.last + setBack' - t = before + elapsed
      BY <1>2, <1>3, <1>4, <1>7, <1>8, <2>2, <3>1
    <3>3. Gain(before + elapsed) = Gain(before) + Gain(elapsed)
      BY <1>4, <2>2, GainIsLinear
    <3>4. b.tokens <= T + Gain(elapsed) /\ b.tokens \in Int /\ Gain(elapsed) \in Int
      BY <1>1, <1>4, <1>5, <1>7, <3>1 DEF earned
    <3> QED BY <1>1, <2>1, <2>2, <3>2, <3>3, <3>4
  <2>4. CASE ~live
    <3>1. tokens = Burst /\ last = now
      BY <2>4 DEF tokens, last
    <3>2. back = 0 /\ b.last + setBack' - t = before + (now - L)
      BY <1>2, <1>3, <1>7, <1>8, <2>2, <3>1 DEF back
    <3>3. now - L \in Int /\ ScriptTTL - MaxOffset - MaxDelay \in Int
          /\ ScriptTTL - MaxOffset - MaxDelay <= now - L
      BY <1>1, <1>3, <2>1, <2>2, <2>4 DEF live
    <3>4. Gain(now - L) >= Burst
      <4>1. Gain(ScriptTTL - MaxOffset - MaxDelay) <= Gain(now - L)
        BY <3>3, GainIsLinear
      <4>2. Gain(ScriptTTL - MaxOffset - MaxDelay) >= Burst
        BY <1>11, Limits
      <4>3. Gain(ScriptTTL - MaxOffset - MaxDelay) \in Int /\ Gain(now - L) \in Int
        BY <1>1, <3>3
      <4> QED BY <1>1, <4>1, <4>2, <4>3
    <3>5. Gain(before + (now - L)) = Gain(before) + Gain(now - L)
      BY <2>2, <3>3, GainIsLinear
    <3>6. b.tokens <= Burst /\ b.tokens \in Int
      BY <1>5, <1>7
    <3> QED BY <1>1, <2>1, <2>2, <3>2, <3>3, <3>4, <3>5, <3>6
  <2> QED BY <2>3, <2>4
<1>12. ASSUME KeptInRedis PROVE 0 <= filled
  <2>1. 0 <= tokens
    <3>1. CASE live
      <4>1. bucket["redis"] # NoBucket
        BY <3>1 DEF live, NoBucket
      <4> QED BY <1>12, <3>1, <4>1 DEF RedisRate, Unused, tokens
    <3>2. CASE ~live
      BY <1>1, <3>2 DEF tokens
    <3> QED BY <3>1, <3>2
  <2>2. Gain(elapsed) \in Nat
    BY <1>4, GainIsLinear
  <2> QED BY <1>1, <1>3, <2>1, <2>2 DEF filled, earned
<1>13. RedisRate'
  <2> SUFFICES ASSUME KeptInRedis PROVE
         /\ Bounded("redis", setBack)'
         /\ 0 <= bucket'["redis"].tokens /\ bucket'["redis"].tokens <= Burst
         /\ bucket'["redis"].last <= bucket'["redis"].dies - ScriptTTL + MaxOffset
         /\ Paid("redis", setBack)'
    BY DEF RedisRate, KeptInRedis, ScriptTTL, MaxOffset
  <2>1. Bounded("redis", setBack)
    BY DEF RedisRate
  <2>2. setBack' \in Nat /\ setBack <= setBack'
    BY <1>2, <1>4, <1>8
  <2>3. /\ \A t, u \in Seconds : t <= u =>
               AdmittedIn("redis", t, u)' <= Burst + Gain(u - t + setBack')
        /\ \A t \in Seconds : t <= bucket'["redis"].last \/ Since("redis", t)' > 0 =>
               Since("redis", t)' + bucket'["redis"].tokens
                   <= Burst + Gain(bucket'["redis"].last + setBack' - t)
    BY <1>2, <1>5, <1>7, <1>8, <1>11, <2>1, <2>2, ChargePays
  <2>4. Bounded("redis", setBack)' /\ Paid("redis", setBack)'
    BY <2>3 DEF Bounded, Paid, Gain, Seconds, MaxTime, MaxOffset
  <2>5. /\ bucket'["redis"].tokens = IF filled >= 1 THEN filled - 1 ELSE filled
        /\ bucket'["redis"].last = now /\ bucket'["redis"].dies = clock + ScriptTTL
    BY <1>2, <1>7, <1>8, ChargeTypes
  <2>6. 0 <= bucket'["redis"].tokens /\ bucket'["redis"].tokens <= Burst
    BY <1>1, <1>5, <1>12, <2>5
  <2>7. bucket'["redis"].last <= bucket'["redis"].dies - ScriptTTL + MaxOffset
    BY <1>1, <1>3, <2>5
  <2> QED BY <2>4, <2>6, <2>7
<1> QED BY <1>9, <1>10, <1>13

\* allowLocal takes the bucket as it is, or one that is full if it has none or has
\* forgotten it: by then it would have been full.
LEMMA LocalKeeps ==
    ASSUME BucketTypes, NEW r \in Replicas, LocalRate(r), NEW now \in Seconds, clock \in Nat,
           now <= Now(r), Now(r) <= now + MaxDelay,
           NEW tokens, NEW last,
           \/ /\ tokens = Burst /\ last = now
              /\ bucket[r] = NoBucket \/ Forgotten(bucket[r], now)
           \/ /\ tokens = bucket[r].tokens /\ last = bucket[r].last
              /\ bucket[r] # NoBucket,
           Charge(r, [tokens |-> Refilled(tokens, now - last), last |-> now, dies |-> 0]),
           UNCHANGED <<clock, setBack>>
    PROVE  /\ BucketTypes' /\ LocalRate(r)'
           /\ \A q \in Stores \ {r} : bucket'[q] = bucket[q] /\ admitted'[q] = admitted[q]
<1> DEFINE L == bucket[r].last
           T == bucket[r].tokens
           N == Now(r)
           earned == tokens + Gain(now - last)
           filled == IF Burst < earned THEN Burst ELSE earned
<1>1. /\ Seconds \subseteq Int /\ Burst \in Nat \ {0} /\ MaxDelay \in Nat /\ IdleLimit \in Nat
      /\ \A x \in Int : Gain(x) \in Int
  BY TimeIsBounded, Limits, GainIsLinear
<1>2. r \in Stores /\ bucket[r] \in [tokens : Int, last : Seconds, dies : Int] /\ setBack \in Nat
  BY DEF Stores, BucketTypes
<1>3. L \in Int /\ T \in Int /\ now \in Int /\ N \in Int /\ now <= N /\ N <= now + MaxDelay
  <2>1. Offset[r] \in Nat
    BY RedisGuardAssumption
  <2>2. N \in Int
    BY <2>1 DEF Now
  <2> QED BY <1>1, <1>2, <2>2
<1>4. tokens \in Int /\ last \in Int
  BY <1>1, <1>2, <1>3
<1>5. earned \in Int /\ filled \in Int /\ filled <= Burst /\ filled <= earned
  BY <1>1, <1>3, <1>4
<1>6. PICK b : b = [tokens |-> filled, last |-> now, dies |-> 0]
  OBVIOUS
<1>7. b \in [tokens : Int, last : Seconds, dies : Int]
      /\ b.tokens = filled /\ b.last = now /\ b.dies = 0
  BY <1>5, <1>6
<1>8. Charge(r, b)
  <2>1. Refilled(tokens, now - last) = Min({Burst, earned})
    BY DEF Refilled, Gain
  <2>2. Min({Burst, earned}) = filled
    <3>1. Burst \in Int /\ earned \in Int
      BY <1>1, <1>5
    <3> HIDE DEF earned
    <3> QED BY <3>1, TwoNumbers
  <2> QED BY <1>6, <2>1, <2>2
<1> HIDE DEF L, T, N, earned, filled
<1>9. BucketTypes'
  BY <1>2, <1>7, <1>8, ChargeTypes DEF BucketTypes, Seconds, Stores, MaxTime, MaxOffset
<1>10. \A q \in Stores \ {r} : bucket'[q] = bucket[q] /\ admitted'[q] = admitted[q]
  BY <1>2, <1>7, <1>8, ChargeTypes
<1>11. ASSUME KeptLocally, ~Unused(r)
       PROVE  /\ T + Gain(MaxDelay) >= 0 /\ T + Gain(N - L) >= 0
              /\ filled <= T + Gain(now - L)
              /\ filled = Burst \/ filled = T + Gain(now - L)
              /\ Paid(r, 0)
  <2>1. /\ bucket[r].dies = 0 /\ T + Gain(MaxDelay) >= 0 /\ T + Gain(N - L) >= 0
        /\ Paid(r, 0)
    BY <1>11 DEF LocalRate, L, T, N
  <2>2. bucket[r] # NoBucket
    BY <2>1 DEF NoBucket
  <2>3. CASE tokens = T /\ last = L
    BY <1>5, <2>1, <2>3 DEF earned, filled
  <2>4. CASE tokens = Burst /\ last = now /\ Forgotten(bucket[r], now)
    <3>1. IdleLimit <= now - L
      BY <1>1, <1>3, <2>4 DEF Forgotten, L
    <3>2. /\ Gain(IdleLimit) <= Gain(now - L) /\ Gain(now - L) \in Int /\ Gain(IdleLimit) \in Int
          /\ Gain(IdleLimit - MaxDelay) \in Int /\ Gain(MaxDelay) \in Int
      <4>1. IdleLimit \in Int /\ now - L \in Int /\ IdleLimit - MaxDelay \in Int /\ MaxDelay \in Int
        BY <1>1, <1>3
      <4>2. Gain(IdleLimit) <= Gain(now - L)
        BY <3>1, <4>1, GainIsLinear
      <4> QED BY <1>1, <4>1, <4>2
    <3>3. Gain(IdleLimit) = Gain(IdleLimit - MaxDelay) + Gain(MaxDelay)
      <4>1. IdleLimit - MaxDelay \in Int /\ MaxDelay \in Int
            /\ IdleLimit = (IdleLimit - MaxDelay) + MaxDelay
        BY <1>1
      <4> QED BY <4>1, GainIsLinear
    <3>4. Gain(IdleLimit - MaxDelay) >= Burst
      BY <1>11, Limits
    <3>5. filled = Burst
      <4>1. now - last = 0
        BY <1>3, <2>4
      <4>2. earned = Burst + Gain(0)
        BY <2>4, <4>1 DEF earned
      <4> QED BY <1>1, <4>2, GainIsLinear DEF filled
    <3> QED BY <1>1, <1>3, <2>1, <3>2, <3>3, <3>4, <3>5
  <2> QED BY <2>1, <2>2, <2>3, <2>4 DEF L, T
<1>12. ASSUME KeptLocally
       PROVE  \A t \in Seconds : Since(r, t) > 0 =>
                  Since(r, t) + b.tokens <= Burst + Gain(b.last + 0 - t)
  <2> SUFFICES ASSUME NEW t \in Seconds, Since(r, t) > 0
               PROVE  Since(r, t) + b.tokens <= Burst + Gain(b.last + 0 - t)
    OBVIOUS
  <2>1. ~Unused(r)
    BY <1>2, UnusedOwesNothing
  <2>2. Since(r, t) + T <= Burst + Gain(L + 0 - t) /\ b.tokens <= T + Gain(now - L)
    BY <1>7, <1>11, <1>12, <2>1 DEF Paid, L, T
  <2>3. Since(r, t) \in Int /\ t \in Int
    <3>1. End \in Seconds /\ t <= End
      BY TimeIsBounded
    <3> QED BY <1>1, <1>2, <3>1, SpansAreCounted
  <2>4. Gain(b.last + 0 - t) = Gain(L + 0 - t) + Gain(now - L)
    <3>1. /\ L + 0 - t \in Int /\ now - L \in Int
          /\ b.last + 0 - t = (L + 0 - t) + (now - L)
      BY <1>3, <1>7, <2>3
    <3> QED BY <3>1, GainIsLinear
  <2>5. Gain(L + 0 - t) \in Int /\ Gain(now - L) \in Int
    BY <1>1, <1>3, <2>3
  <2> QED BY <1>1, <1>3, <1>5, <1>7, <2>2, <2>3, <2>4, <2>5
<1>13. ASSUME KeptLocally
       PROVE  filled + Gain(MaxDelay) >= 0 /\ filled + Gain(N - now) >= 0
  <2>1. Gain(MaxDelay) \in Nat /\ Gain(N - now) \in Nat
    <3>1. N - now \in Nat
      BY <1>3
    <3> QED BY <1>1, <3>1, GainIsLinear
  <2>2. CASE filled = Burst
    BY <1>1, <2>1, <2>2
  <2>3. CASE ~Unused(r) /\ filled = T + Gain(now - L)
    <3>1. T + Gain(N - L) >= 0
      BY <1>11, <1>13, <2>3
    <3>2. Gain(N - L) = Gain(now - L) + Gain(N - now)
      <4>1. now - L \in Int /\ N - now \in Int /\ N - L = (now - L) + (N - now)
        BY <1>3
      <4> QED BY <4>1, GainIsLinear
    <3>3. Gain(N - now) <= Gain(MaxDelay)
      BY <1>1, <1>3, GainIsLinear
    <3>4. Gain(now - L) \in Int /\ Gain(N - L) \in Int
      BY <1>1, <1>3
    <3> QED BY <1>3, <2>1, <2>3, <3>1, <3>2, <3>3, <3>4
  <2>4. CASE Unused(r)
    <3>1. tokens = Burst /\ now - last = 0
      BY <1>3, <2>4 DEF Unused
    <3>2. earned = Burst + Gain(0)
      BY <3>1 DEF earned
    <3>3. filled = Burst
      BY <1>1, <3>2, GainIsLinear DEF filled
    <3> QED BY <2>2, <3>3
  <2> QED BY <1>11, <1>13, <2>2, <2>3, <2>4
<1>14. LocalRate(r)'
  <2> SUFFICES ASSUME KeptLocally PROVE
         /\ Bounded(r, 0)'
         /\ bucket'[r].tokens <= Burst
         /\ bucket'[r].last <= Now(r)' /\ bucket'[r].dies = 0
         /\ bucket'[r].tokens + Gain(MaxDelay) >= 0
         /\ bucket'[r].tokens + Gain(Now(r)' - bucket'[r].last) >= 0
         /\ Paid(r, 0)'
    BY DEF LocalRate, KeptLocally, Gain
  <2>1. Bounded(r, 0)
    BY DEF LocalRate
  <2>2. /\ \A t, u \in Seconds : t <= u =>
               AdmittedIn(r, t, u)' <= Burst + Gain(u - t + 0)
        /\ \A t \in Seconds : t <= bucket'[r].last \/ Since(r, t)' > 0 =>
               Since(r, t)' + bucket'[r].tokens <= Burst + Gain(bucket'[r].last + 0 - t)
    BY <1>2, <1>5, <1>7, <1>8, <1>12, <2>1, ChargePays
  <2>3. Bounded(r, 0)' /\ Paid(r, 0)'
    BY <2>2 DEF Bounded, Paid, Gain, Seconds, MaxTime, MaxOffset
  <2>4. /\ bucket'[r].tokens = IF filled >= 1 THEN filled - 1 ELSE filled
        /\ bucket'[r].last = now /\ bucket'[r].dies = 0
    BY <1>2, <1>7, <1>8, ChargeTypes
  <2>5. Now(r)' = N
    BY DEF Now, N
  <2>6. Gain(MaxDelay) \in Nat /\ Gain(N - now) \in Nat
    <3>1. N - now \in Nat
      BY <1>3
    <3> QED BY <1>1, <3>1, GainIsLinear
  <2>7. /\ bucket'[r].tokens <= Burst
        /\ bucket'[r].tokens + Gain(MaxDelay) >= 0
        /\ bucket'[r].tokens + Gain(N - now) >= 0
    BY <1>1, <1>5, <1>13, <2>4, <2>6
  <2> QED BY <1>3, <2>3, <2>4, <2>5, <2>7
<1> QED BY <1>9, <1>10, <1>14

\* What has used neither the bucket in Redis nor its totals leaves its rate.
LEMMA RedisStays ==
    ASSUME RedisRate, UNCHANGED <<bucket["redis"], admitted["redis"], setBack>>
    PROVE  RedisRate'
<1>1. KeptInRedis' = KeptInRedis /\ MaxOffset' = MaxOffset /\ ScriptTTL' = ScriptTTL
  BY DEF KeptInRedis, ScriptTTL, MaxOffset
<1>2. Seconds' = Seconds /\ End' = End
  BY DEF Seconds, End, MaxTime, MaxOffset
<1>3. \A t, u \in Seconds : AdmittedIn("redis", t, u)' = AdmittedIn("redis", t, u)
  BY DEF AdmittedIn
<1>4. \A t \in Seconds : Since("redis", t)' = Since("redis", t)
  BY <1>2 DEF Since, AdmittedIn
<1>5. /\ Bounded("redis", setBack) => Bounded("redis", setBack)'
      /\ Unused("redis") => Unused("redis")'
      /\ Paid("redis", setBack) => Paid("redis", setBack)'
  BY <1>2, <1>3, <1>4 DEF Bounded, Unused, Paid, Gain
<1> QED BY <1>1, <1>5 DEF RedisRate

\* A bucket in a process stays within its rate while time passes.
LEMMA LocalStays ==
    ASSUME BucketTypes, NEW r \in Replicas, LocalRate(r),
           UNCHANGED <<bucket[r], admitted[r]>>,
           clock \in Nat, clock' \in Nat, clock <= clock'
    PROVE  LocalRate(r)'
<1>1. KeptLocally' = KeptLocally /\ Seconds' = Seconds /\ End' = End
  BY DEF KeptLocally, Seconds, End, MaxTime, MaxOffset
<1>2. \A t, u \in Seconds : AdmittedIn(r, t, u)' = AdmittedIn(r, t, u)
  BY DEF AdmittedIn
<1>3. \A t \in Seconds : Since(r, t)' = Since(r, t)
  BY <1>1 DEF Since, AdmittedIn
<1>4. /\ Bounded(r, 0) => Bounded(r, 0)'
      /\ Unused(r) => Unused(r)'
      /\ Paid(r, 0) => Paid(r, 0)'
  BY <1>1, <1>2, <1>3 DEF Bounded, Unused, Paid, Gain
<1>5. Now(r) \in Int /\ Now(r)' \in Int /\ Now(r) <= Now(r)'
  <2>1. Offset[r] \in Nat
    BY RedisGuardAssumption
  <2> QED BY <2>1 DEF Now
<1>6. bucket[r].tokens \in Int /\ bucket[r].last \in Int
  BY TimeIsBounded DEF BucketTypes, Stores
<1>7. /\ Gain(Now(r) - bucket[r].last) \in Int /\ Gain(Now(r)' - bucket[r].last) \in Int
      /\ Gain(Now(r) - bucket[r].last) <= Gain(Now(r)' - bucket[r].last)
  <2>1. /\ Now(r) - bucket[r].last \in Int /\ Now(r)' - bucket[r].last \in Int
        /\ Now(r) - bucket[r].last <= Now(r)' - bucket[r].last
    BY <1>5, <1>6
  <2> QED BY <2>1, GainIsLinear
<1> SUFFICES ASSUME KeptLocally PROVE
      /\ Bounded(r, 0)'
      /\ \/ Unused(r)'
         \/ /\ bucket[r].tokens <= Burst
            /\ bucket[r].last <= Now(r)' /\ bucket[r].dies = 0
            /\ bucket[r].tokens + Gain(MaxDelay) >= 0
            /\ bucket[r].tokens + Gain(Now(r)' - bucket[r].last) >= 0
            /\ Paid(r, 0)'
  BY DEF LocalRate, KeptLocally, Gain
<1>8. Bounded(r, 0)'
  BY <1>4 DEF LocalRate
<1>9. CASE Unused(r)
  BY <1>4, <1>8, <1>9
<1>10. CASE ~Unused(r)
  <2>1. /\ bucket[r].tokens <= Burst
        /\ bucket[r].last <= Now(r) /\ bucket[r].dies = 0
        /\ bucket[r].tokens + Gain(MaxDelay) >= 0
        /\ bucket[r].tokens + Gain(Now(r) - bucket[r].last) >= 0
        /\ Paid(r, 0)
    BY <1>10 DEF LocalRate
  <2>2. /\ bucket[r].last <= Now(r)'
        /\ bucket[r].tokens + Gain(Now(r)' - bucket[r].last) >= 0
    BY <1>5, <1>6, <1>7, <2>1
  <2> QED BY <1>4, <1>8, <2>1, <2>2
<1> QED BY <1>9, <1>10

\* An action that uses no bucket leaves every rate within its bound.
LEMMA BucketsStay ==
    ASSUME Rates, UNCHANGED bucketVars, clock \in Nat, clock' \in Nat, clock <= clock'
    PROVE  Rates'
<1>1. bucket' = bucket /\ admitted' = admitted /\ setBack' = setBack
  BY DEF bucketVars
<1>2. BucketTypes'
  BY <1>1 DEF Rates, BucketTypes, Seconds, Stores, MaxTime, MaxOffset
<1>3. RedisRate'
  BY <1>1, RedisStays DEF Rates
<1>4. ASSUME NEW r \in Replicas PROVE LocalRate(r)'
  BY <1>1, LocalStays DEF Rates
<1> QED BY <1>2, <1>3, <1>4 DEF Rates

\* A run of the script.
LEMMA ScriptStep ==
    ASSUME Rates, NEW now \in Seconds, clock \in Nat, now <= clock + MaxOffset,
           clock <= now + MaxDelay, TokenBucketScript(now), UNCHANGED clock
    PROVE  Rates'
<1>1. /\ BucketTypes' /\ RedisRate'
      /\ \A r \in Replicas : bucket'[r] = bucket[r] /\ admitted'[r] = admitted[r]
  BY ScriptKeeps DEF Rates
<1>2. ASSUME NEW r \in Replicas PROVE LocalRate(r)'
  <2>1. clock' \in Nat /\ clock <= clock'
    OBVIOUS
  <2> QED BY <1>1, <2>1, LocalStays DEF Rates
<1> QED BY <1>1, <1>2 DEF Rates

\* A call of allowLocal.
LEMMA LocalStep ==
    ASSUME Rates, IngestTypes, HandlersAreFresh, BudgetTypes, Stamped,
           NEW c \in Callers, AllowLocal(c)
    PROVE  Rates'
<1> DEFINE r == Home[c]
           now == call[c].stamp
<1>1. call[c].pc = "local" /\ UNCHANGED <<clock, setBack>>
  BY DEF AllowLocal, Answer
<1>2. now \in Seconds /\ now <= Now(r) /\ Now(r) <= now + MaxDelay
  BY <1>1, StampsAreSeconds
<1>3. r \in Replicas /\ r # "redis" /\ clock \in Nat
  BY Constants, Limits DEF IngestTypes
<1>4. PICK sweep \in BOOLEAN :
         LET b == IF bucket[r] = NoBucket \/ (sweep /\ Forgotten(bucket[r], now))
                  THEN [tokens |-> Burst, last |-> now, dies |-> 0] ELSE bucket[r]
         IN Charge(r, [tokens |-> Refilled(b.tokens, now - b.last), last |-> now,
                       dies |-> 0])
  BY DEF AllowLocal
<1> DEFINE fresh == bucket[r] = NoBucket \/ (sweep /\ Forgotten(bucket[r], now))
           tokens == IF fresh THEN Burst ELSE bucket[r].tokens
           last == IF fresh THEN now ELSE bucket[r].last
           b == IF fresh THEN [tokens |-> Burst, last |-> now, dies |-> 0] ELSE bucket[r]
<1>5. b.tokens = tokens /\ b.last = last
  OBVIOUS
<1>6. Charge(r, [tokens |-> Refilled(b.tokens, now - b.last), last |-> now, dies |-> 0])
  BY <1>4
<1>7. \/ /\ tokens = Burst /\ last = now
         /\ bucket[r] = NoBucket \/ Forgotten(bucket[r], now)
      \/ /\ tokens = bucket[r].tokens /\ last = bucket[r].last
         /\ bucket[r] # NoBucket
  OBVIOUS
<1> HIDE DEF tokens, last, b, fresh, r, now
<1>8. Charge(r, [tokens |-> Refilled(tokens, now - last), last |-> now, dies |-> 0])
  BY <1>5, <1>6
<1>9. /\ BucketTypes' /\ LocalRate(r)'
      /\ \A q \in Stores \ {r} : bucket'[q] = bucket[q] /\ admitted'[q] = admitted[q]
  <2>1. BucketTypes /\ LocalRate(r)
    BY <1>3 DEF Rates
  <2> QED BY <1>1, <1>2, <1>3, <1>7, <1>8, <2>1, LocalKeeps
<1>10. RedisRate'
  <2>1. "redis" \in Stores \ {r}
    BY <1>3 DEF Stores
  <2> QED BY <1>1, <1>9, <2>1, RedisStays DEF Rates
<1>11. ASSUME NEW q \in Replicas PROVE LocalRate(q)'
  <2>1. CASE q = r
    BY <1>9, <2>1
  <2>2. CASE q # r
    <3>1. q \in Stores \ {r} /\ clock' \in Nat /\ clock <= clock'
      BY <1>1, <1>3, <2>2 DEF Stores
    <3> QED BY <1>3, <1>9, <3>1, LocalStays DEF Rates
  <2> QED BY <2>1, <2>2
<1> QED BY <1>9, <1>10, <1>11 DEF Rates
-----------------------------------------------------------------------------
(* The rates in every step. *)

\* Initially no bucket was used.
LEMMA RateInit == Init => BudgetTypes /\ RateInv
<1> SUFFICES ASSUME Init PROVE BudgetTypes /\ RateInv
  OBVIOUS
<1>1. /\ clock = 0 /\ bucket = [s \in Stores |-> NoBucket]
      /\ admitted = [s \in Stores |-> [t \in Seconds |-> 0]] /\ setBack = 0
      /\ call = [c \in Callers |-> Free]
      /\ client \in [secret : Secrets, enabled : {TRUE}]
  BY DEF Init
<1>2. PICK n \in Mixes :
          budget = [allow |-> n.allow, ingest |-> n.ingest, edits |-> n.edits,
                    time |-> n.time, errors |-> MaxErrors]
  BY DEF Init
<1>3. BudgetTypes
  <2>1. n \in [allow : Nat, ingest : Nat, edits : Nat, time : Nat] /\ MaxErrors \in Nat
    BY RedisGuardAssumption
  <2>2. n.time <= MaxTime /\ n.time \in Nat
    BY <2>1, TimeIsBounded
  <2>3. clock + budget.time <= MaxTime
    BY <1>1, <1>2, <2>2
  <2>4. budget \in [allow : Nat, ingest : Nat, edits : Nat, time : Nat, errors : 0..MaxErrors]
    BY <1>2, <2>1
  <2>5. client \in [secret : Secrets, enabled : BOOLEAN]
    BY <1>1
  <2> QED BY <2>3, <2>4, <2>5 DEF BudgetTypes
<1>4. Stamped
  BY <1>1 DEF Stamped, Free
<1>5. 0 \in Seconds /\ Seconds = 0..End /\ End \in Nat
  BY TimeIsBounded
<1>6. BucketTypes
  <2>1. NoBucket \in [tokens : Int, last : Seconds, dies : Int]
    BY <1>5 DEF NoBucket
  <2> QED BY <1>1, <2>1 DEF BucketTypes
<1>7. \A s \in Stores : Unused(s)
  BY <1>1 DEF Unused
<1>8. ASSUME NEW s \in Stores PROVE Bounded(s, 0)
  <2> SUFFICES ASSUME NEW t \in Seconds, NEW u \in Seconds, t <= u
               PROVE  AdmittedIn(s, t, u) <= Burst + Gain(u - t + 0)
    BY DEF Bounded
  <2>1. AdmittedIn(s, t, u) = 0
    <3>1. t # 0 => t - 1 \in Seconds
      BY <1>5
    <3> QED BY <1>1, <3>1 DEF AdmittedIn
  <2>2. Gain(u - t + 0) \in Nat /\ Burst \in Nat
    <3>1. u - t + 0 \in Nat
      BY <1>5
    <3> QED BY <3>1, GainIsLinear, Limits
  <2> QED BY <2>1, <2>2
<1>9. RedisRate /\ \A r \in Replicas : LocalRate(r)
  BY <1>1, <1>7, <1>8 DEF RedisRate, LocalRate, Stores
<1> QED BY <1>3, <1>4, <1>6, <1>9 DEF RateInv, Rates

\* No action grants more time, errors or calls than were left.
LEMMA BudgetStep == IngestTypes /\ BudgetTypes /\ [Next]_vars => BudgetTypes'
<1> SUFFICES ASSUME IngestTypes, BudgetTypes, [Next]_vars PROVE BudgetTypes'
  OBVIOUS
<1> DEFINE Budgets == [allow : Nat, ingest : Nat, edits : Nat, time : Nat,
                       errors : 0..MaxErrors]
           Clients == [secret : Secrets, enabled : BOOLEAN]
<1>0. /\ clock \in Nat /\ MaxErrors \in Nat /\ MaxTime \in Nat /\ MaxTime' = MaxTime
      /\ budget \in Budgets /\ client \in Clients /\ clock + budget.time <= MaxTime
  BY RedisGuardAssumption, TimeIsBounded DEF IngestTypes, BudgetTypes, MaxTime
<1>1. SUFFICES budget' \in Budgets /\ client' \in Clients /\ clock' + budget'.time <= MaxTime
  BY <1>0 DEF BudgetTypes
<1>2. ASSUME UNCHANGED <<clock, client, budget>>
      PROVE  budget' \in Budgets /\ client' \in Clients /\ clock' + budget'.time <= MaxTime
  BY <1>0, <1>2
<1>3. ASSUME NEW kind \in {"allow", "ingest"}, budget[kind] > 0,
             budget' = [budget EXCEPT ![kind] = @ - 1], UNCHANGED <<clock, client>>
      PROVE  budget' \in Budgets /\ client' \in Clients /\ clock' + budget'.time <= MaxTime
  BY <1>0, <1>3
<1>4. ASSUME RedisError, UNCHANGED <<clock, client>>
      PROVE  budget' \in Budgets /\ client' \in Clients /\ clock' + budget'.time <= MaxTime
  BY <1>0, <1>4 DEF RedisError
<1>5. CASE Tick
  BY <1>0, <1>5 DEF Tick, clientVars
<1>6. CASE SaveTrackingClient
  BY <1>0, <1>6 DEF SaveTrackingClient
<1>7. CASE PurgeNonces
  BY <1>2, <1>7 DEF PurgeNonces, clientVars
<1>8. ASSUME NEW c \in Callers, NEW m \in Messages, Allow(c) \/ Ingest(c, m)
      PROVE  budget' \in Budgets /\ client' \in Clients /\ clock' + budget'.time <= MaxTime
  BY <1>3, <1>8 DEF Allow, Ingest, Begin, clientVars
<1>9. ASSUME NEW c \in Callers, Allow(c)
      PROVE  budget' \in Budgets /\ client' \in Clients /\ clock' + budget'.time <= MaxTime
  BY <1>3, <1>9 DEF Allow, Begin, clientVars
<1>10. ASSUME NEW c \in Callers, AllowError(c) \/ UseNonceError(c) \/ NonceStoreUnavailable(c)
       PROVE  budget' \in Budgets /\ client' \in Clients /\ clock' + budget'.time <= MaxTime
  BY <1>4, <1>10 DEF AllowError, UseNonceError, NonceStoreUnavailable, clientVars
<1>11. ASSUME NEW c \in Callers,
              \/ AllowRedis(c) \/ AllowLocal(c) \/ ReadClient(c)
              \/ UseNonce(c) \/ UseNonceFallback(c)
       PROVE  budget' \in Budgets /\ client' \in Clients /\ clock' + budget'.time <= MaxTime
  BY <1>2, <1>11 DEF AllowRedis, AllowLocal, ReadClient, UseNonce, UseNonceFallback, clientVars
<1>12. CASE UNCHANGED vars
  BY <1>2, <1>12 DEF vars, clientVars
<1> QED BY <1>5, <1>6, <1>7, <1>8, <1>9, <1>10, <1>11, <1>12 DEF Next

\* A call of Allow reads its clock when it begins, and again if Redis fails.
LEMMA StampStep == IngestTypes /\ HandlersAreFresh /\ Stamped /\ [Next]_vars => Stamped'
<1> SUFFICES ASSUME IngestTypes, HandlersAreFresh, Stamped, [Next]_vars,
                    NEW d \in Callers, call'[d].pc \in {"script", "local"}
             PROVE  /\ call'[d].since + Offset[Home[d]] <= call'[d].stamp
                    /\ call'[d].stamp <= Now(Home[d])'
  BY DEF Stamped
<1>1. /\ clock \in Nat /\ Offset[Home[d]] \in Nat /\ call[d].stamp \in Nat
      /\ call[d].since \in Nat /\ call \in [Callers -> [pc : Pcs, stamp : Nat, since : Nat,
                                                        msg : Messages \cup {NoMessage},
                                                        read : Nat]]
  BY Constants DEF IngestTypes
<1>2. CASE call'[d] = call[d] /\ (clock' = clock \/ clock' = clock + 1)
  <2>1. /\ call[d].since + Offset[Home[d]] <= call[d].stamp
        /\ call[d].stamp <= clock + Offset[Home[d]]
    BY <1>2 DEF Stamped, Now
  <2> QED BY <1>1, <1>2, <2>1 DEF Now
<1>3. ASSUME NEW c \in Callers, c # d, clock' = clock, \A e \in Callers \ {c} : call'[e] = call[e]
      PROVE  call'[d] = call[d] /\ clock' = clock
  BY <1>3
<1>4. ASSUME NEW c \in Callers, NEW kind, NEW where, NEW m, Begin(c, kind, where, m), clock' = clock
      PROVE  /\ call'[d].since + Offset[Home[d]] <= call'[d].stamp
             /\ call'[d].stamp <= Now(Home[d])'
  <2>1. /\ call'[c] = [pc |-> where, stamp |-> Now(Home[c]), since |-> clock, msg |-> m,
                       read |-> 0]
        /\ \A e \in Callers \ {c} : call'[e] = call[e]
    BY <1>1, <1>4 DEF Begin
  <2>2. CASE c = d
    BY <1>1, <1>4, <2>1, <2>2 DEF Now
  <2> QED BY <1>2, <1>3, <1>4, <2>1, <2>2
<1>5. ASSUME NEW c \in Callers, NEW from, Answer(c, from), clock' = clock
      PROVE  call'[d] = call[d] /\ clock' = clock
  BY <1>1, <1>5 DEF Answer, Free
<1>6. ASSUME NEW c \in Callers, ReadClient(c) \/ UseNonceError(c)
      PROVE  call'[d] = call[d] /\ clock' = clock
  <2>1. CASE UseNonceError(c)
    BY <1>1, <2>1 DEF UseNonceError
  <2>2. CASE ReadClient(c)
    <3>1. CASE Answer(c, "client")
      BY <1>5, <2>2, <3>1 DEF ReadClient
    <3>2. CASE call' = [call EXCEPT ![c].pc = "nonce", ![c].read = budget.edits]
      BY <1>1, <2>2, <3>2 DEF ReadClient
    <3> QED BY <2>2, <3>1, <3>2 DEF ReadClient
  <2> QED BY <1>6, <2>1, <2>2
<1>7. ASSUME NEW c \in Callers, AllowError(c)
      PROVE  /\ call'[d].since + Offset[Home[d]] <= call'[d].stamp
             /\ call'[d].stamp <= Now(Home[d])'
  <2>1. /\ call[c].pc = "script" /\ clock' = clock
        /\ call' = [call EXCEPT ![c].pc = "local", ![c].stamp = Now(Home[c])]
    BY <1>7 DEF AllowError
  <2>2. CASE c = d
    <3>1. call'[d].stamp = Now(Home[d]) /\ call'[d].since = call[d].since
      BY <1>1, <2>1, <2>2
    <3>2. call[d].since <= clock
      BY <2>1, <2>2 DEF HandlersAreFresh, InFlight
    <3> QED BY <1>1, <2>1, <3>1, <3>2 DEF Now
  <2>3. CASE c # d
    BY <1>1, <1>2, <2>1, <2>3
  <2> QED BY <2>2, <2>3
<1>8. CASE Tick \/ PurgeNonces \/ SaveTrackingClient \/ UNCHANGED vars
  BY <1>2, <1>8 DEF Tick, PurgeNonces, SaveTrackingClient, vars
<1>9. ASSUME NEW c \in Callers, Allow(c) \/ (\E m \in Messages : Ingest(c, m))
      PROVE  /\ call'[d].since + Offset[Home[d]] <= call'[d].stamp
             /\ call'[d].stamp <= Now(Home[d])'
  BY <1>4, <1>9 DEF Allow, Ingest
<1>10. ASSUME NEW c \in Callers,
              \/ AllowRedis(c) \/ AllowLocal(c) \/ UseNonce(c)
              \/ UseNonceFallback(c) \/ NonceStoreUnavailable(c)
       PROVE  call'[d] = call[d] /\ clock' = clock
  BY <1>5, <1>10 DEF AllowRedis, AllowLocal, UseNonce, UseNonceFallback, NonceStoreUnavailable
<1> QED BY <1>2, <1>6, <1>7, <1>8, <1>9, <1>10 DEF Next

\* Only the calls of Allow use buckets, at the time each has read.
LEMMA RatesStep ==
    ASSUME IngestTypes, BudgetTypes, HandlersAreFresh, RateInv, [Next]_vars
    PROVE  Rates'
<1>1. Rates /\ BudgetTypes /\ Stamped /\ clock \in Nat
  BY DEF RateInv, IngestTypes
<1>2. CASE UNCHANGED bucketVars /\ (clock' = clock \/ clock' = clock + 1)
  <2>1. clock' \in Nat /\ clock <= clock'
    BY <1>1, <1>2
  <2> QED BY <1>1, <1>2, <2>1, BucketsStay
<1>3. ASSUME NEW c \in Callers, call[c].pc = "script", UNCHANGED clock,
             TokenBucketScript(call[c].stamp)
      PROVE  Rates'
  BY <1>1, <1>3, StampsAreSeconds, ScriptStep
<1>4. ASSUME NEW c \in Callers, AllowRedis(c)
      PROVE  Rates'
  BY <1>3, <1>4 DEF AllowRedis, Answer
<1>5. ASSUME NEW c \in Callers, AllowError(c)
      PROVE  Rates'
  BY <1>2, <1>3, <1>5 DEF AllowError
<1>6. ASSUME NEW c \in Callers, AllowLocal(c)
      PROVE  Rates'
  BY <1>1, <1>6, LocalStep
<1>7. CASE Tick \/ PurgeNonces \/ SaveTrackingClient \/ UNCHANGED vars
  BY <1>2, <1>7 DEF Tick, PurgeNonces, SaveTrackingClient, vars
<1>8. ASSUME NEW c \in Callers,
             \/ Allow(c) \/ (\E m \in Messages : Ingest(c, m)) \/ ReadClient(c)
             \/ UseNonce(c) \/ UseNonceError(c) \/ UseNonceFallback(c)
             \/ NonceStoreUnavailable(c)
      PROVE  Rates'
  BY <1>2, <1>8 DEF Allow, Ingest, ReadClient, UseNonce, UseNonceError, UseNonceFallback,
                    NonceStoreUnavailable
<1> QED BY <1>4, <1>5, <1>6, <1>7, <1>8 DEF Next
-----------------------------------------------------------------------------
(* The theorems. *)

\* The handlers in flight, the nonces and the revocations are in step in every
\* reachable state.
THEOREM Invariance == Spec => []IInv
<1>1. Init => IInv
  BY TypeInit, FreshInit, NoncesInit, RevocationInit, RateInit DEF IInv
<1>2. IInv /\ [Next]_vars => IInv'
  BY TypeStep, BudgetStep, FreshStep, NoncesStep, RevocationStep DEF IInv
<1> QED BY <1>1, <1>2, PTL DEF Spec

\* UseNonce and UseNonceFallback: for every number of handlers and replicas, every
\* skew, TTL and delay and every offset of their clocks, a nonce store takes a
\* signed request as fresh again only when the life of the nonce is over that it
\* was taken with, so that n acceptances need n - 1 lives within the window of the
\* request's time stamp.  Nothing is assumed of the TTL.
THEOREM RequestsAreAcceptedOncePerTTL == Spec => AcceptedOncePerTTL
<1> DEFINE Count == \A m \in Messages, s \in NonceStores :
               accepted[s][m] > 1 =>
                   (accepted[s][m] - 1) * (NonceTTL - MaxDelay) <= 2 * ClockSkew + MaxOffset
           LifeIsOver == \A m \in Messages, s \in NonceStores :
               accepted[s][m] # 0 /\ accepted'[s][m] # accepted[s][m] =>
                   clock >= lastUse[s][m] + NonceTTL
<1>1. IInv => Count
  BY DEF IInv, NoncesLive, Paced, Lives
<1>2. IInv /\ [Next]_vars => LifeIsOver
  <2> SUFFICES ASSUME IInv, [Next]_vars, NEW m \in Messages, NEW s \in NonceStores,
                      accepted[s][m] # 0, accepted'[s][m] # accepted[s][m]
               PROVE  clock >= lastUse[s][m] + NonceTTL
    OBVIOUS
  <2>1. /\ clock \in Nat /\ nonces[m] \in Nat /\ NonceTTL \in Nat /\ lastUse[s][m] \in Int
        /\ Remembered(m)
    BY Constants DEF IInv, IngestTypes, NoncesLive
  <2>2. \/ s = "redis" /\ nonces[m] <= clock
        \/ s = "postgres" /\ stored[m] = 0
    BY OnlyUseAccepts DEF IInv
  <2> QED BY <2>1, <2>2 DEF Remembered
<1> QED BY <1>1, <1>2, Invariance, PTL DEF Spec, AcceptedOncePerTTL

\* adminSaveTrackingClient: after a client is switched off or its secret rotated,
\* a request of the old secret is accepted by none but a handler that had read the
\* client before that edit, however many handlers, clients' edits and replicas
\* there are and however late the handler answers.
THEOREM RevokedSecretsDie == Spec => RevokedSecretDies
<1>1. IInv /\ [Next]_vars =>
          \A m \in Messages, s \in NonceStores :
              accepted'[s][m] # accepted[s][m] /\ revoked[m] # -1 =>
                  \E c \in Callers : Accepts(c, m, s) /\ call[c].read > revoked[m]
  <2> SUFFICES ASSUME IInv, [Next]_vars, NEW m \in Messages, NEW s \in NonceStores,
                      accepted'[s][m] # accepted[s][m], revoked[m] # -1
               PROVE  \E c \in Callers : Accepts(c, m, s) /\ call[c].read > revoked[m]
    OBVIOUS
  <2>1. PICK c \in Callers : Accepts(c, m, s) /\ call[c].pc \in {"nonce", "postgres"}
    BY OnlyUseAccepts DEF IInv
  <2>2. call[c].msg = m
    BY <2>1 DEF Accepts
  <2>3. call[c].read > revoked[m]
    BY <2>1, <2>2 DEF IInv, Revocation, Reader
  <2> QED BY <2>1, <2>3
<1> QED BY <1>1, Invariance, PTL DEF Spec, RevokedSecretDies

\* Allow: for every rate and burst, every number of handlers and replicas and every
\* offset of their clocks, each store admits in every span of time no more than a
\* burst and what the rate earns in it, and Redis beyond that only what calls have
\* set its time stamp back.
THEOREM CallsAreRated == Spec => []RateIsBounded
<1>1. Init => RateInv
  BY RateInit
<1>2. IInv /\ RateInv /\ [Next]_vars => RateInv'
  BY StampStep, RatesStep DEF IInv, RateInv
<1>3. IInv /\ RateInv => RateIsBounded
  <2> SUFFICES ASSUME IInv, RateInv PROVE RateIsBounded
    OBVIOUS
  <2>1. IngestTypes /\ BudgetTypes /\ BucketTypes /\ RedisRate /\ \A r \in Replicas : LocalRate(r)
    BY DEF IInv, RateInv, Rates
  <2>2. TypeOK
    <3>1. clock \in 0..MaxTime
      <4>1. /\ clock \in Nat /\ budget.time \in Nat /\ clock + budget.time <= MaxTime
            /\ MaxTime \in Nat
        BY <2>1, TimeIsBounded DEF IngestTypes, BudgetTypes
      <4> QED BY <4>1
    <3>2. DOMAIN bucket = Stores
          /\ \A s \in Stores : bucket[s].tokens \in Int /\ bucket[s].last \in Seconds
      BY <2>1 DEF BucketTypes
    <3> QED BY <2>1, <3>1, <3>2 DEF TypeOK, IngestTypes, BudgetTypes, Pcs
  <2>3. KeptInRedis => \A t, u \in Seconds :
            t <= u => AdmittedIn("redis", t, u) <= Burst + Rate * (u - t + setBack)
    BY <2>1 DEF RedisRate, Bounded, Gain
  <2>4. KeptLocally => \A r \in Replicas, t, u \in Seconds :
            t <= u => AdmittedIn(r, t, u) <= Burst + Rate * (u - t)
    <3> SUFFICES ASSUME KeptLocally, NEW r \in Replicas, NEW t \in Seconds, NEW u \in Seconds, t <= u
                 PROVE  AdmittedIn(r, t, u) <= Burst + Rate * (u - t)
      OBVIOUS
    <3>1. AdmittedIn(r, t, u) <= Burst + Gain(u - t + 0)
      BY <2>1 DEF LocalRate, Bounded
    <3>2. u - t + 0 = u - t
      BY TimeIsBounded
    <3> QED BY <3>1, <3>2 DEF Gain
  <2> QED BY <2>2, <2>3, <2>4 DEF RateIsBounded
<1> QED BY <1>1, <1>2, <1>3, Invariance, PTL DEF Spec
-----------------------------------------------------------------------------
(* The slots of a route (RouteSlots).                                      *)

\* A token never outlives the time that Redis was asked to hold it.
TokensAreAsked == \A r \in Requests : score[r] <= promised[r]

\* A call asks with a time it has read, and with a timeout the route was given.
AskedBefore ==
    \A r \in Requests :
        place[r] = "asked" => asked[r].now <= routeClock /\ asked[r].ttl \in TTLs

\* The timeout of the route does not change, so every token asks for one ttl.
OneTTL(ttl) == TTLs = {ttl}

\* The key outlives its tokens, because each PEXPIRE sets a later time than the
\* one before; so a running request finds its token as it left it.
KeyOutlives(ttl) ==
    /\ keyDies <= routeClock + ttl
    /\ \A r \in Requests : score[r] <= keyDies
    /\ \A r \in Running("redis") : routeClock < promised[r] => score[r] = promised[r]

Held == {r \in Requests : score[r] > routeClock}

TokensBound == Cardinality(Held) <= Limit

RouteInv(ttl) ==
    /\ RouteTypeOK /\ LocalCountIsExact /\ TokensAreAsked /\ AskedBefore
    /\ KeyOutlives(ttl) /\ TokensBound

-----------------------------------------------------------------------------
(* Counting the requests of a route. *)

USE RouteSlotsAssumption DEF RouteSlotsAssumption

\* No request holds no slot.
LEMMA NobodyCounts == Cardinality({}) = 0
BY FS_EmptySet

\* Every set of requests has a size.
LEMMA Countable ==
    ASSUME NEW S \in SUBSET Requests
    PROVE  IsFiniteSet(S) /\ Cardinality(S) \in Nat
<1>1. IsFiniteSet(S)
    BY FS_Subset
<1> QED
    BY <1>1, FS_CardinalityType

\* Fewer requests hold fewer slots.
LEMMA SmallerSet ==
    ASSUME NEW S \in SUBSET Requests, NEW T \in SUBSET S
    PROVE  Cardinality(T) <= Cardinality(S)
BY Countable, FS_Subset

\* A request that joins adds one to the count, or nothing if it was in it.
LEMMA OneMore ==
    ASSUME NEW S \in SUBSET Requests, NEW r \in Requests
    PROVE  /\ r \notin S => Cardinality(S \cup {r}) = Cardinality(S) + 1
           /\ Cardinality(S \cup {r}) <= Cardinality(S) + 1
<1>1. IsFiniteSet(S) /\ Cardinality(S) \in Nat
    BY Countable
<1>2. CASE r \in S
    <2>1. Cardinality(S \cup {r}) = Cardinality(S)
        BY <1>1, <1>2, FS_AddElement
    <2> QED
        BY <1>1, <1>2, <2>1
<1>3. CASE r \notin S
    <2>1. Cardinality(S \cup {r}) = Cardinality(S) + 1
        BY <1>1, <1>3, FS_AddElement
    <2> QED
        BY <1>1, <2>1
<1> QED
    BY <1>2, <1>3

\* A request that leaves takes one from the count, which was not zero.
LEMMA OneLess ==
    ASSUME NEW S \in SUBSET Requests, NEW r \in S
    PROVE  /\ Cardinality(S \ {r}) = Cardinality(S) - 1
           /\ Cardinality(S) \in Nat \ {0}
<1>1. IsFiniteSet(S) /\ Cardinality(S) \in Nat
    BY Countable
<1>2. Cardinality(S \ {r}) = Cardinality(S) - 1
    BY <1>1, FS_RemoveElement
<1>3. Cardinality(S \ {r}) \in Nat
    <2>1. S \ {r} \in SUBSET Requests
        OBVIOUS
    <2> QED
        BY <2>1, Countable
<1> QED
    BY <1>1, <1>2, <1>3

-----------------------------------------------------------------------------
(* The types of a route and the counters of the processes. *)

OnReplica(p) == {r \in Running("local") : RouteHome[r] = p}

\* No process counts a request and Redis holds no token.
LEMMA BaseInit ==
    RouteInit => RouteTypeOK /\ LocalCountIsExact /\ TokensAreAsked /\ AskedBefore
<1> SUFFICES ASSUME RouteInit
             PROVE  RouteTypeOK /\ LocalCountIsExact /\ TokensAreAsked /\ AskedBefore
    OBVIOUS
<1>1. \A p \in Processes : OnReplica(p) = {}
    BY DEF RouteInit, OnReplica, Running
<1>2. LocalCountIsExact
    BY <1>1, NobodyCounts DEF RouteInit, LocalCountIsExact, OnReplica
<1> QED
    BY <1>2 DEF RouteInit, RouteTypeOK, TokensAreAsked, AskedBefore, NotAsked

\* acquireSemaphoreScript writes a token or purges, and asks for what it writes.
LEMMA TokenScriptKeeps ==
    ASSUME RouteTypeOK, TokensAreAsked, NEW r \in Requests, Script(r)
    PROVE  /\ score' \in [Requests -> Nat] /\ keyDies' \in Nat
           /\ promised' \in [Requests -> Nat]
           /\ TokensAreAsked'
<1>1. asked[r].now \in Nat /\ asked[r].ttl \in Nat /\ routeClock \in Nat
    BY DEF RouteTypeOK
<1>2. PICK S : S = Live(asked[r].now)
    OBVIOUS
<1>3. PICK e \in Nat : e = asked[r].now + asked[r].ttl
    BY <1>1
<1>4. CASE SlotFree(asked[r].now)
    <2>1. /\ score' = [q \in Requests |-> IF q = r THEN e ELSE IF q \in S THEN score[q] ELSE 0]
          /\ keyDies' = routeClock + asked[r].ttl
          /\ promised' = [promised EXCEPT ![r] = e]
        BY <1>2, <1>3, <1>4 DEF Script
    <2> QED
        BY <1>1, <2>1 DEF RouteTypeOK, TokensAreAsked
<1>5. CASE ~SlotFree(asked[r].now)
    <2>1. /\ score' = [q \in Requests |-> IF q \in S THEN score[q] ELSE 0]
          /\ UNCHANGED <<keyDies, promised>>
        BY <1>2, <1>5 DEF Script
    <2> QED
        BY <1>1, <2>1 DEF RouteTypeOK, TokensAreAsked
<1> QED
    BY <1>4, <1>5

\* A request outside the counter of its process leaves the counters exact.
LEMMA CountUnmoved ==
    ASSUME RouteTypeOK, LocalCountIsExact, UNCHANGED local,
           NEW r \in Requests,
           \A q \in Requests \ {r} : place'[q] = place[q] /\ slot'[q] = slot[q],
           ~(place[r] = "running" /\ slot[r] = "local"),
           ~(place'[r] = "running" /\ slot'[r] = "local")
    PROVE  LocalCountIsExact'
<1>1. \A p \in Processes : OnReplica(p)' = OnReplica(p)
    BY DEF OnReplica, Running
<1> QED
    BY <1>1 DEF LocalCountIsExact, OnReplica

\* A request that moves forgets its call and leaves the others where they are.
LEMMA MoveMoves ==
    ASSUME RouteTypeOK, AskedBefore, UNCHANGED routeClock, NEW r \in Requests,
           NEW to \in {"local", "running", "refused", "done"},
           NEW where \in {"none", "redis", "local"}, Move(r, to, where)
    PROVE  /\ place'[r] = to /\ slot'[r] = where
           /\ \A q \in Requests \ {r} : place'[q] = place[q] /\ slot'[q] = slot[q]
           /\ place' \in [Requests -> {"idle", "asked", "local", "running", "refused", "done"}]
           /\ slot' \in [Requests -> {"none", "redis", "local"}]
           /\ asked' \in [Requests -> [now : Nat, ttl : Nat]]
           /\ AskedBefore'
<1>1. /\ place'[r] = to /\ slot'[r] = where
      /\ \A q \in Requests \ {r} : place'[q] = place[q] /\ slot'[q] = slot[q]
      /\ \A q \in Requests \ {r} : asked'[q] = asked[q]
    BY DEF Move, RouteTypeOK
<1>2. AskedBefore'
    BY <1>1 DEF AskedBefore
<1> QED
    BY <1>1, <1>2 DEF Move, RouteTypeOK, NotAsked

\* Acquire and its release keep the types, the counters and the tokens, whatever
\* timeouts the route was given.
LEMMA BaseStep ==
    RouteTypeOK /\ LocalCountIsExact /\ TokensAreAsked /\ AskedBefore /\ [RouteNext]_routeVars
               => (RouteTypeOK /\ LocalCountIsExact /\ TokensAreAsked /\ AskedBefore)'
<1> DEFINE Base == RouteTypeOK /\ LocalCountIsExact /\ TokensAreAsked /\ AskedBefore
<1> SUFFICES ASSUME RouteTypeOK, LocalCountIsExact, TokensAreAsked, AskedBefore,
                    [RouteNext]_routeVars
             PROVE  Base'
    OBVIOUS
<1>1. CASE RouteTick
    BY <1>1 DEF RouteTick, RouteTypeOK, LocalCountIsExact, Running, TokensAreAsked, AskedBefore
<1>2. ASSUME NEW r \in Requests, AcquireRedis(r) PROVE Base'
    <2>1. /\ place[r] = "asked" /\ Script(r) /\ UNCHANGED <<routeClock, local>>
          /\ Move(r, "running", "redis") \/ Move(r, "refused", "none")
        BY <1>2 DEF AcquireRedis
    <2>2. /\ \A q \in Requests \ {r} : place'[q] = place[q] /\ slot'[q] = slot[q]
          /\ ~(place'[r] = "running" /\ slot'[r] = "local")
          /\ place' \in [Requests -> {"idle", "asked", "local", "running", "refused", "done"}]
          /\ slot' \in [Requests -> {"none", "redis", "local"}]
          /\ asked' \in [Requests -> [now : Nat, ttl : Nat]]
          /\ AskedBefore'
        BY <2>1, MoveMoves
    <2>3. LocalCountIsExact'
        BY <2>1, <2>2, CountUnmoved
    <2>4. RouteTypeOK'
        BY <2>1, <2>2, TokenScriptKeeps DEF RouteTypeOK
    <2> QED
        BY <2>1, <2>2, <2>3, <2>4, TokenScriptKeeps
<1>3. ASSUME NEW r \in Requests, AcquireLost(r) PROVE Base'
    <2>1. LocalCountIsExact' /\ AskedBefore'
        BY <1>3 DEF AcquireLost, LocalCountIsExact, Running, AskedBefore
    <2> QED
        BY <1>3, <2>1, TokenScriptKeeps DEF AcquireLost, RouteTypeOK
<1>4. ASSUME NEW r \in Requests, AcquireError(r) PROVE Base'
    <2>1. /\ \A q \in Requests \ {r} : place'[q] = place[q] /\ slot'[q] = slot[q]
          /\ place[r] = "asked" /\ place'[r] = "local"
          /\ place' \in [Requests -> {"idle", "asked", "local", "running", "refused", "done"}]
          /\ slot' \in [Requests -> {"none", "redis", "local"}]
          /\ asked' \in [Requests -> [now : Nat, ttl : Nat]]
          /\ AskedBefore'
        BY <1>4, MoveMoves DEF AcquireError
    <2>2. LocalCountIsExact'
        BY <1>4, <2>1, CountUnmoved DEF AcquireError
    <2> QED
        BY <1>4, <2>1, <2>2 DEF AcquireError, RouteTypeOK, TokensAreAsked
<1>5. ASSUME NEW r \in Requests, Acquire(r) PROVE Base'
    <2>1. PICK ttl \in TTLs : asked' = [asked EXCEPT ![r] = [now |-> routeClock, ttl |-> ttl]]
        BY <1>5 DEF Acquire
    <2>2. ttl \in Nat /\ routeClock \in Nat
        BY DEF RouteTypeOK
    <2>3. asked' \in [Requests -> [now : Nat, ttl : Nat]]
        BY <2>1, <2>2 DEF RouteTypeOK
    <2>4. AskedBefore'
        BY <1>5, <2>1, <2>2 DEF Acquire, AskedBefore, RouteTypeOK
    <2>5. LocalCountIsExact'
        BY <1>5, CountUnmoved DEF Acquire, RouteTypeOK
    <2> QED
        BY <1>5, <2>3, <2>4, <2>5 DEF Acquire, RouteTypeOK, TokensAreAsked
<1>6. ASSUME NEW r \in Requests, AcquireLocal(r) PROVE Base'
    <2>1. CASE local[RouteHome[r]] < Limit
        <3>1. RouteTypeOK' /\ TokensAreAsked' /\ AskedBefore'
            <4>1. local' \in [Processes -> 0 .. Limit]
                <5>1. /\ local' = [local EXCEPT ![RouteHome[r]] = @ + 1]
                      /\ RouteHome[r] \in Processes
                    BY <1>6, <2>1 DEF AcquireLocal
                <5> QED
                    BY <2>1, <5>1 DEF RouteTypeOK
            <4>2. /\ place' \in [Requests -> {"idle", "asked", "local", "running", "refused", "done"}]
                  /\ slot' \in [Requests -> {"none", "redis", "local"}]
                  /\ asked' \in [Requests -> [now : Nat, ttl : Nat]]
                  /\ AskedBefore'
                BY <1>6, <2>1, MoveMoves DEF AcquireLocal
            <4> QED
                BY <1>6, <4>1, <4>2 DEF AcquireLocal, RouteTypeOK, TokensAreAsked
        <3>2. /\ OnReplica(RouteHome[r])' = OnReplica(RouteHome[r]) \cup {r}
              /\ r \notin OnReplica(RouteHome[r])
            BY <1>6, <2>1 DEF AcquireLocal, Move, RouteTypeOK,
                                OnReplica, Running
        <3>3. \A p \in Processes \ {RouteHome[r]} : OnReplica(p)' = OnReplica(p)
            BY <1>6, <2>1 DEF AcquireLocal, Move, RouteTypeOK,
                                OnReplica, Running
        <3>4. OnReplica(RouteHome[r]) \in SUBSET Requests
            BY DEF OnReplica, Running
        <3>5. Cardinality(OnReplica(RouteHome[r])')
                  = Cardinality(OnReplica(RouteHome[r])) + 1
            BY <3>2, <3>4, OneMore
        <3>6. /\ local'[RouteHome[r]] = local[RouteHome[r]] + 1
              /\ \A p \in Processes \ {RouteHome[r]} : local'[p] = local[p]
            BY <1>6, <2>1 DEF AcquireLocal, RouteTypeOK
        <3>7. \A p \in Processes : local[p] = Cardinality(OnReplica(p))
            BY DEF LocalCountIsExact, OnReplica
        <3>8. \A p \in Processes : local'[p] = Cardinality(OnReplica(p)')
            BY <3>3, <3>5, <3>6, <3>7
        <3> QED
            BY <3>1, <3>8 DEF LocalCountIsExact, OnReplica
    <2>2. CASE ~(local[RouteHome[r]] < Limit)
        <3>1. RouteTypeOK' /\ TokensAreAsked' /\ AskedBefore'
            BY <1>6, <2>2, MoveMoves DEF AcquireLocal, RouteTypeOK, TokensAreAsked
        <3>2. LocalCountIsExact'
            BY <1>6, <2>2, MoveMoves, CountUnmoved DEF AcquireLocal
        <3> QED
            BY <3>1, <3>2
    <2> QED
        BY <2>1, <2>2
<1>7. ASSUME NEW r \in Requests, ReleaseRedis(r) PROVE Base'
    <2>1. /\ \A q \in Requests \ {r} : place'[q] = place[q] /\ slot'[q] = slot[q]
          /\ slot[r] = "redis" /\ place'[r] = "done"
          /\ place' \in [Requests -> {"idle", "asked", "local", "running", "refused", "done"}]
          /\ slot' \in [Requests -> {"none", "redis", "local"}]
          /\ asked' \in [Requests -> [now : Nat, ttl : Nat]]
          /\ AskedBefore'
        BY <1>7, MoveMoves DEF ReleaseRedis
    <2>2. LocalCountIsExact'
        BY <1>7, <2>1, CountUnmoved DEF ReleaseRedis
    <2>3. CASE /\ score' = [score EXCEPT ![r] = 0]
               /\ promised' = [promised EXCEPT ![r] = 0]
        BY <1>7, <2>1, <2>2, <2>3 DEF ReleaseRedis, RouteTypeOK, TokensAreAsked
    <2>4. CASE UNCHANGED <<score, promised>>
        BY <1>7, <2>1, <2>2, <2>4 DEF ReleaseRedis, RouteTypeOK, TokensAreAsked
    <2> QED
        BY <1>7, <2>3, <2>4 DEF ReleaseRedis
<1>8. ASSUME NEW r \in Requests, ReleaseLocal(r) PROVE Base'
    <2>1. OnReplica(RouteHome[r])' = OnReplica(RouteHome[r]) \ {r} /\ r \in OnReplica(RouteHome[r])
        BY <1>8 DEF ReleaseLocal, Move, RouteTypeOK, OnReplica, Running
    <2>2. \A p \in Processes \ {RouteHome[r]} : OnReplica(p)' = OnReplica(p)
        BY <1>8 DEF ReleaseLocal, Move, RouteTypeOK, OnReplica, Running
    <2>3. OnReplica(RouteHome[r]) \in SUBSET Requests
        BY DEF OnReplica, Running
    <2>4. /\ Cardinality(OnReplica(RouteHome[r])')
                 = Cardinality(OnReplica(RouteHome[r])) - 1
          /\ Cardinality(OnReplica(RouteHome[r])) \in Nat \ {0}
        BY <2>1, <2>3, OneLess
    <2>5. \A p \in Processes : local[p] = Cardinality(OnReplica(p))
        BY DEF LocalCountIsExact, OnReplica
    <2>6. /\ local'[RouteHome[r]] = IF local[RouteHome[r]] > 1 THEN local[RouteHome[r]] - 1 ELSE 0
          /\ \A p \in Processes \ {RouteHome[r]} : local'[p] = local[p]
        BY <1>8 DEF ReleaseLocal, RouteTypeOK
    <2>7. local'[RouteHome[r]] = local[RouteHome[r]] - 1
        BY <2>4, <2>5, <2>6
    <2>8. \A p \in Processes : local'[p] = Cardinality(OnReplica(p)')
        BY <2>2, <2>4, <2>5, <2>6, <2>7
    <2>9. RouteTypeOK' /\ TokensAreAsked' /\ AskedBefore'
        BY <1>8, MoveMoves DEF ReleaseLocal, RouteTypeOK, TokensAreAsked
    <2> QED
        BY <2>8, <2>9 DEF LocalCountIsExact, OnReplica
<1>9. CASE UNCHANGED routeVars
    BY <1>9 DEF routeVars, RouteTypeOK, LocalCountIsExact, Running, TokensAreAsked, AskedBefore
<1> QED
    BY <1>1, <1>2, <1>3, <1>6, <1>7, <1>8, <1>9, <1>4, <1>5 DEF RouteNext

-----------------------------------------------------------------------------
(* The tokens in Redis. *)

\* There is no key in Redis and no token in it.
LEMMA KeyInit ==
    ASSUME NEW ttl, OneTTL(ttl), RouteInit
    PROVE  KeyOutlives(ttl) /\ TokensBound
<1>1. Held = {}
    BY DEF RouteInit, Held
<1>2. TokensBound
    BY <1>1, NobodyCounts DEF TokensBound
<1>3. ttl \in Nat
    BY DEF OneTTL
<1> QED
    BY <1>2, <1>3 DEF RouteInit, KeyOutlives, Running

\* The tokens that the script counts are among others those whose time is not over:
\* the key has not expired before one of them, and the time it asks with is past.
LEMMA HeldIsLive ==
    ASSUME NEW ttl, RouteTypeOK, KeyOutlives(ttl), NEW now \in Nat, now <= routeClock
    PROVE  Held \subseteq Live(now) /\ Live(now) \in SUBSET Requests
<1>1. CASE keyDies <= routeClock
    <2>1. ASSUME NEW r \in Requests PROVE ~(score[r] > routeClock)
        BY <1>1 DEF KeyOutlives, RouteTypeOK
    <2> QED
        BY <1>1, <2>1 DEF Live, Held
<1>2. CASE ~(keyDies <= routeClock)
    BY <1>2 DEF Live, Held, RouteTypeOK
<1> QED
    BY <1>1, <1>2

\* One run of acquireSemaphoreScript for a request that holds no slot yet.
LEMMA ScriptOutlives ==
    ASSUME NEW ttl, OneTTL(ttl), RouteInv(ttl),
           NEW r \in Requests, Script(r), place[r] = "asked",
           \A q \in Requests \ {r} : place'[q] = place[q] /\ slot'[q] = slot[q],
           place'[r] = "running" /\ slot'[r] = "redis" => SlotFree(asked[r].now),
           UNCHANGED routeClock
    PROVE  KeyOutlives(ttl)' /\ TokensBound'
<1> USE DEF RouteInv
<1>0. PICK now : now = asked[r].now
    OBVIOUS
<1>1. /\ ttl \in Nat /\ routeClock \in Nat /\ now \in Nat /\ now <= routeClock
      /\ asked[r].ttl = ttl
    BY <1>0 DEF OneTTL, RouteTypeOK, AskedBefore
<1>2. Held \subseteq Live(now) /\ Live(now) \in SUBSET Requests
    BY <1>1, HeldIsLive
<1>3. \A q \in Requests : q \notin Live(now) => ~(routeClock < score[q])
    BY <1>2 DEF Held
<1>4. CASE SlotFree(now)
    <2>1. /\ score' = [q \in Requests |-> IF q = r THEN now + ttl
                                          ELSE IF q \in Live(now) THEN score[q] ELSE 0]
          /\ keyDies' = routeClock + ttl
          /\ promised' = [promised EXCEPT ![r] = now + ttl]
        BY <1>0, <1>1, <1>4 DEF Script
    <2>2. \A q \in Requests : score'[q] <= keyDies'
        BY <1>1, <2>1 DEF KeyOutlives, RouteTypeOK
    <2>3. ASSUME NEW q \in Running("redis")', routeClock' < promised'[q]
          PROVE  score'[q] = promised'[q]
        <3>1. q \in Requests
            BY DEF Running
        <3>2. CASE q = r
            BY <2>1, <3>1, <3>2 DEF RouteTypeOK
        <3>3. CASE q # r
            <4>1. q \in Running("redis") /\ promised'[q] = promised[q]
                BY <2>1, <3>1, <3>3 DEF Running, RouteTypeOK
            <4>2. score[q] = promised[q]
                BY <2>3, <4>1 DEF KeyOutlives
            <4>3. q \in Live(now)
                BY <1>3, <2>3, <3>1, <4>1, <4>2
            <4> QED
                BY <2>1, <3>1, <3>3, <4>1, <4>2, <4>3
        <3> QED
            BY <3>2, <3>3
    <2>4. Held' \subseteq Live(now) \cup {r}
        BY <1>1, <2>1 DEF Held
    <2>5. Live(now) \cup {r} \in SUBSET Requests
        BY <1>2
    <2>6. /\ Cardinality(Held') <= Cardinality(Live(now) \cup {r})
          /\ Cardinality(Live(now) \cup {r}) <= Cardinality(Live(now)) + 1
        BY <1>2, <2>4, <2>5, SmallerSet, OneMore
    <2>7. /\ Cardinality(Held') \in Nat /\ Cardinality(Live(now)) \in Nat
          /\ Cardinality(Live(now) \cup {r}) \in Nat
        BY <1>2, <2>4, <2>5, Countable
    <2>8. TokensBound'
        BY <1>4, <2>6, <2>7 DEF TokensBound, SlotFree
    <2> QED
        BY <1>1, <2>1, <2>2, <2>3, <2>8 DEF KeyOutlives
<1>5. CASE ~SlotFree(now)
    <2>1. /\ score' = [q \in Requests |-> IF q \in Live(now) THEN score[q] ELSE 0]
          /\ keyDies' = keyDies /\ promised' = promised
        BY <1>0, <1>5 DEF Script
    <2>2. \A q \in Requests : score'[q] <= keyDies'
        BY <1>1, <2>1 DEF KeyOutlives, RouteTypeOK
    <2>3. ASSUME NEW q \in Running("redis")', routeClock' < promised'[q]
          PROVE  score'[q] = promised'[q]
        <3>1. q \in Requests
            BY DEF Running
        <3>2. q # r
            BY <1>0, <1>5, <3>1 DEF Running
        <3>3. q \in Running("redis")
            BY <3>1, <3>2 DEF Running
        <3>4. score[q] = promised[q]
            BY <2>1, <2>3, <3>3 DEF KeyOutlives
        <3>5. q \in Live(now)
            BY <1>3, <2>1, <2>3, <3>1, <3>4
        <3> QED
            BY <2>1, <3>1, <3>4, <3>5
    <2>4. Held' \subseteq Held
        BY <1>1, <2>1 DEF Held
    <2>5. TokensBound'
        <3>1. Held \in SUBSET Requests
            BY DEF Held
        <3>2. /\ Cardinality(Held') <= Cardinality(Held)
              /\ Cardinality(Held) \in Nat /\ Cardinality(Held') \in Nat
            BY <2>4, <3>1, SmallerSet, Countable
        <3> QED
            BY <3>2 DEF TokensBound
    <2> QED
        BY <1>1, <2>1, <2>2, <2>3, <2>5 DEF KeyOutlives
<1> QED
    BY <1>4, <1>5

\* Fewer tokens, and none newly promised, keep the bound.
LEMMA FewerTokens ==
    ASSUME RouteTypeOK, TokensBound, Held' \subseteq Held
    PROVE  TokensBound'
<1>1. Held \in SUBSET Requests
    BY DEF Held
<1>2. /\ Cardinality(Held') <= Cardinality(Held)
      /\ Cardinality(Held) \in Nat /\ Cardinality(Held') \in Nat
    BY <1>1, SmallerSet, Countable
<1> QED
    BY <1>2 DEF TokensBound

\* Every script that adds or renews a token lets the key live as long as the
\* token does, and admits one only while fewer than the limit are alive.
LEMMA KeyStep ==
    ASSUME NEW ttl, OneTTL(ttl)
    PROVE  RouteInv(ttl) /\ [RouteNext]_routeVars => KeyOutlives(ttl)' /\ TokensBound'
<1> SUFFICES ASSUME RouteInv(ttl), [RouteNext]_routeVars
             PROVE  KeyOutlives(ttl)' /\ TokensBound'
    OBVIOUS
<1> USE DEF RouteInv
<1>0. ttl \in Nat
    BY DEF OneTTL
<1>1. CASE RouteTick
    <2>1. Held' \subseteq Held
        BY <1>1 DEF RouteTick, Held, RouteTypeOK
    <2>2. KeyOutlives(ttl)'
        BY <1>0, <1>1 DEF RouteTick, KeyOutlives, Running, RouteTypeOK
    <2> QED
        BY <2>1, <2>2, FewerTokens
<1>2. ASSUME NEW r \in Requests, AcquireRedis(r)
      PROVE  KeyOutlives(ttl)' /\ TokensBound'
    <2>1. place[r] = "asked" /\ Script(r) /\ UNCHANGED routeClock
        BY <1>2 DEF AcquireRedis
    <2>2. CASE SlotFree(asked[r].now)
        <3>1. Move(r, "running", "redis")
            BY <1>2, <2>2 DEF AcquireRedis
        <3> QED
            BY <2>1, <2>2, <3>1, MoveMoves, ScriptOutlives
    <2>3. CASE ~SlotFree(asked[r].now)
        <3>1. Move(r, "refused", "none")
            BY <1>2, <2>3 DEF AcquireRedis
        <3> QED
            BY <2>1, <3>1, MoveMoves, ScriptOutlives
    <2> QED
        BY <2>2, <2>3
<1>3. ASSUME NEW r \in Requests, AcquireLost(r)
      PROVE  KeyOutlives(ttl)' /\ TokensBound'
    BY <1>3, ScriptOutlives DEF AcquireLost
<1>4. ASSUME NEW r \in Requests,
             Acquire(r) \/ AcquireError(r) \/ AcquireLocal(r) \/ ReleaseLocal(r)
      PROVE  KeyOutlives(ttl)' /\ TokensBound'
    <2>1. Running("redis")' \subseteq Running("redis")
        BY <1>4 DEF Acquire, AcquireError, AcquireLocal, ReleaseLocal, Move, Running, RouteTypeOK
    <2>2. UNCHANGED <<routeClock, score, keyDies, promised>>
        BY <1>4 DEF Acquire, AcquireError, AcquireLocal, ReleaseLocal
    <2> QED
        BY <2>1, <2>2, FewerTokens DEF KeyOutlives, Held
<1>5. ASSUME NEW r \in Requests, ReleaseRedis(r)
      PROVE  KeyOutlives(ttl)' /\ TokensBound'
    <2>1. Running("redis")' \subseteq Running("redis") \ {r}
        BY <1>5 DEF ReleaseRedis, Move, Running, RouteTypeOK
    <2>2. /\ \A q \in Requests : score'[q] <= score[q]
          /\ \A q \in Requests \ {r} : score'[q] = score[q] /\ promised'[q] = promised[q]
        BY <1>5 DEF ReleaseRedis, RouteTypeOK
    <2>3. score' \in [Requests -> Nat] /\ UNCHANGED <<routeClock, keyDies>>
        BY <1>5 DEF ReleaseRedis, RouteTypeOK
    <2>4. Held' \subseteq Held
        BY <2>2, <2>3 DEF Held, RouteTypeOK
    <2>5. \A q \in Requests : score'[q] <= keyDies'
        BY <2>2, <2>3 DEF KeyOutlives, RouteTypeOK
    <2>6. \A q \in Running("redis")' : routeClock' < promised'[q] => score'[q] = promised'[q]
        BY <2>1, <2>2, <2>3 DEF KeyOutlives, Running
    <2> QED
        BY <2>3, <2>4, <2>5, <2>6, FewerTokens DEF KeyOutlives
<1>6. CASE UNCHANGED routeVars
    BY <1>6 DEF routeVars, KeyOutlives, Running, TokensBound, Held
<1> QED
    BY <1>1, <1>2, <1>3, <1>4, <1>5, <1>6 DEF RouteNext

-----------------------------------------------------------------------------
(* The theorems about the slots of a route. *)

\* The requests within their time that hold a token in Redis are some of the
\* tokens there.
LEMMA HoldersHaveTokens ==
    ASSUME NEW ttl, RouteInv(ttl)
    PROVE  SlotBound
<1> DEFINE Holders == {r \in Running("redis") : routeClock < promised[r]}
<1>1. Holders \subseteq Held /\ Held \in SUBSET Requests
    BY DEF RouteInv, KeyOutlives, Held, Running
<1>2. /\ Cardinality(Holders) <= Cardinality(Held)
      /\ Cardinality(Holders) \in Nat /\ Cardinality(Held) \in Nat
    BY <1>1, SmallerSet, Countable
<1>3. Cardinality(Holders) <= Limit
    BY <1>2 DEF RouteInv, TokensBound
<1> QED
    BY <1>3 DEF RouteInv, SlotBound

\* While the timeout of a route is not changed, acquireSemaphoreScript admits no
\* more requests within their time than the limit, and the counters of the
\* processes are exact, for any number of requests, replicas and lost replies.
THEOREM SlotsAreBounded ==
    ASSUME NEW ttl, OneTTL(ttl)
    PROVE  RouteSpec => []SlotBound
<1>1. RouteInit => RouteInv(ttl)
    BY BaseInit, KeyInit DEF RouteInv
<1>2. RouteInv(ttl) /\ [RouteNext]_routeVars => RouteInv(ttl)'
    BY BaseStep, KeyStep DEF RouteInv
<1>3. RouteInv(ttl) => SlotBound
    BY HoldersHaveTokens
<1> QED
    BY <1>1, <1>2, <1>3, PTL DEF RouteSpec

\* Whatever timeouts the route was given, Acquire is refused by Redis only if as many
\* tokens as the limit were within their time at the clock it had read: the tokens
\* that the script counts are never older, whenever it runs and however often.
THEOREM RefusalsAreJustified ==
    RouteSpec => RefusalIsJustified
<1> DEFINE Base == RouteTypeOK /\ LocalCountIsExact /\ TokensAreAsked /\ AskedBefore
           Justified == \A r \in Requests : place[r] = "asked" /\ place'[r] = "refused" =>
                           Cardinality({q \in Requests : promised[q] > asked[r].now}) >= Limit
<1>1. RouteInit => Base
    BY BaseInit
<1>2. Base /\ [RouteNext]_routeVars => Base'
    BY BaseStep
<1>3. Base /\ [RouteNext]_routeVars => [Justified]_routeVars
    <2> SUFFICES ASSUME Base, [RouteNext]_routeVars, NEW r \in Requests,
                        place[r] = "asked", place'[r] = "refused"
                 PROVE  Cardinality({q \in Requests : promised[q] > asked[r].now}) >= Limit
        OBVIOUS
    <2>0. PICK now \in Nat : now = asked[r].now
        BY DEF RouteTypeOK
    <2> DEFINE Asked == {q \in Requests : promised[q] > now}
    <2>1. AcquireRedis(r)
        BY DEF RouteNext, RouteTick, Acquire, AcquireRedis, AcquireLost, AcquireError,
               AcquireLocal, ReleaseRedis,
               ReleaseLocal, Move, routeVars, RouteTypeOK
    <2>2. ~SlotFree(now)
        BY <2>0, <2>1 DEF AcquireRedis, Move, RouteTypeOK
    <2>3. Live(now) \subseteq Asked /\ Asked \in SUBSET Requests
        BY DEF Live, TokensAreAsked, RouteTypeOK
    <2>4. /\ Cardinality(Live(now)) <= Cardinality(Asked)
          /\ Cardinality(Live(now)) \in Nat /\ Cardinality(Asked) \in Nat
        BY <2>3, SmallerSet, Countable
    <2>5. Cardinality(Asked) >= Limit
        BY <2>2, <2>4 DEF SlotFree
    <2> QED
        BY <2>0, <2>5
<1> QED
    BY <1>1, <1>2, <1>3, PTL DEF RouteSpec, RefusalIsJustified
=============================================================================
