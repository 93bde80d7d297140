----------------------------- MODULE RedisGuard -----------------------------
(***************************************************************************)
(* What handlers ask RedisGuard (redis.go) for besides slots: Allow, the   *)
(* token bucket of one limit (a route's rate, an address's logins) in      *)
(* Redis with a bucket in each process for when Redis does not answer; and *)
(* UseNonce, by which ingestTrackingEvents (http.go) refuses a signed      *)
(* request it has had before, with PostgreSQL for when Redis does not      *)
(* answer.  A call reads the clock of its own process and is executed a    *)
(* little later, so that calls arrive out of order and clocks disagree; an *)
(* error of Redis may hide that the command was executed.                  *)
(*                                                                         *)
(* Time is counted in seconds and Rate in whole tokens.  A signed request  *)
(* is its time stamp and the secret it was signed with; its nonce is its   *)
(* own, so delivering it again is a replay.                                *)
(***************************************************************************)
EXTENDS Integers, FiniteSets, FiniteSetsExt

CONSTANTS
    Callers,        \* goroutines that handle requests
    Replicas,
    Home,           \* Callers -> Replicas
    Offset,         \* Replicas -> how far the clock of the host is ahead
    Rate, Burst,    \* of the limit
    IdleLimit,      \* ten minutes, after which allowLocal may forget a bucket
    Secrets,        \* values of a tracking client's secret
    Messages,       \* signed requests: ts and secret
    ClockSkew,      \* cfg.TrackingClockSkew
    NonceTTL,       \* cfg.TrackingNonceTTL
    MaxDelay,       \* bound on the time from a handler's clock to its answer
    Mixes,          \* bounds: calls of Allow, deliveries, edits and seconds
    MaxErrors       \* bound on the errors of Redis

MaxTime == Max({n.time : n \in Mixes})
MaxOffset == Max({Offset[r] : r \in Replicas})

ASSUME RedisGuardAssumption ==
    /\ Home \in [Callers -> Replicas]
    /\ Replicas # {} /\ IsFiniteSet(Replicas) /\ "redis" \notin Replicas
    /\ Offset \in [Replicas -> Nat]
    /\ Rate \in Nat \ {0} /\ Burst \in Nat \ {0} /\ IdleLimit \in Nat
    /\ \A m \in Messages : m.ts \in Nat /\ m.secret \in Secrets
    /\ ClockSkew \in Nat /\ NonceTTL \in Nat /\ MaxDelay \in Nat
    /\ MaxErrors \in Nat
    /\ Mixes # {} /\ IsFiniteSet(Mixes)
    /\ Mixes \subseteq [allow : Nat, ingest : Nat, edits : Nat, time : Nat]

VARIABLES
    clock,
    bucket,     \* store -> the bucket in "redis" or in a replica
    nonces,     \* message -> expiry of its nonce in Redis, 0 for none
    stored,     \* message -> expires_at in tracking_nonces, 0 for none
    client,     \* the row of tracking_clients: secret and enabled
    call,       \* caller -> where its call stands
    budget,     \* calls, edits, seconds and errors that are left
    admitted,   \* store -> second -> calls it admitted that read it or an earlier one
    setBack,    \* by how much calls have set the time stamp in Redis back
    accepted,   \* store -> message -> how often its nonce was taken as fresh
    lastUse,    \* store -> message -> from when the nonce of its last acceptance
                \* lives, -1 for never
    revoked     \* message -> edits left when its signature stopped being valid, or -1

nonceVars == <<nonces, stored, accepted, lastUse>>
clientVars == <<client, revoked>>
bucketVars == <<bucket, admitted, setBack>>
vars == <<clock, nonceVars, clientVars, bucketVars, call, budget>>

Seconds == 0..(MaxTime + MaxOffset)
Stores == {"redis"} \cup Replicas
NonceStores == {"redis", "postgres"}
NoBucket == [tokens |-> 0, last |-> 0, dies |-> -1]
NoMessage == [ts |-> 0, secret |-> -1]
\* read: the edits that were left when the handler read the client, for the
\* properties only.
Free == [pc |-> "idle", stamp |-> 0, since |-> 0, msg |-> NoMessage, read |-> 0]

Init ==
    /\ clock = 0
    /\ bucket = [s \in Stores |-> NoBucket]
    /\ nonces = [m \in Messages |-> 0] /\ stored = [m \in Messages |-> 0]
    /\ client \in [secret : Secrets, enabled : {TRUE}]
    /\ call = [c \in Callers |-> Free]
    /\ budget \in {[allow |-> n.allow, ingest |-> n.ingest, edits |-> n.edits,
                     time |-> n.time, errors |-> MaxErrors] : n \in Mixes}
    /\ admitted = [s \in Stores |-> [t \in Seconds |-> 0]]
    /\ setBack = 0
    /\ accepted = [s \in NonceStores |-> [m \in Messages |-> 0]]
    /\ lastUse = [s \in NonceStores |-> [m \in Messages |-> -1]]
    /\ revoked = [m \in Messages |-> -1]

\* time.Now() in a replica.
Now(r) == clock + Offset[r]

\* No handler is kept waiting for longer than MaxDelay.
Tick ==
    /\ budget.time > 0
    /\ budget' = [budget EXCEPT !.time = @ - 1]
    /\ \A c \in Callers : call[c] # Free => clock - call[c].since < MaxDelay
    /\ clock' = clock + 1
    /\ UNCHANGED <<nonceVars, clientVars, bucketVars, call>>

\* A handler begins: its clock, and what it is about.
Begin(c, kind, where, m) ==
    /\ call[c] = Free
    /\ budget[kind] > 0
    /\ budget' = [budget EXCEPT ![kind] = @ - 1]
    /\ call' = [call EXCEPT ![c] = [pc |-> where, stamp |-> Now(Home[c]),
                                    since |-> clock, msg |-> m, read |-> 0]]

Answer(c, from) ==
    /\ call[c].pc = from
    /\ call' = [call EXCEPT ![c] = Free]

RedisError ==
    /\ budget.errors > 0
    /\ budget' = [budget EXCEPT !.errors = @ - 1]

-----------------------------------------------------------------------------
(* Allow. *)

Allow(c) ==
    /\ Begin(c, "allow", "script", NoMessage)
    /\ UNCHANGED <<clock, nonceVars, clientVars, bucketVars>>

Refilled(tokens, elapsed) == Min({Burst, tokens + Rate * elapsed})

\* A token is taken if there is a whole one.
Charge(s, b) ==
    /\ bucket' = [bucket EXCEPT ![s] =
           IF b.tokens >= 1 THEN [b EXCEPT !.tokens = @ - 1] ELSE b]
    /\ admitted' = [admitted EXCEPT ![s] = [t \in Seconds |->
           IF b.tokens >= 1 /\ t >= b.last THEN @[t] + 1 ELSE @[t]]]

\* PEXPIRE: twice the time that fills the bucket, and a second.
ScriptTTL == (2 * Burst) \div Rate + 1

\* tokenBucketScript, with the time its caller read: math.max(0, now - timestamp).
TokenBucketScript(now) ==
    LET old == IF bucket["redis"].dies > clock THEN bucket["redis"]
               ELSE [tokens |-> Burst, last |-> now, dies |-> 0]
        elapsed == Max({0, now - old.last})
    IN /\ Charge("redis", [tokens |-> Refilled(old.tokens, elapsed), last |-> now,
                           dies |-> clock + ScriptTTL])
       /\ setBack' = setBack + Max({0, old.last - now})

AllowRedis(c) ==
    /\ Answer(c, "script")
    /\ TokenBucketScript(call[c].stamp)
    /\ UNCHANGED <<clock, nonceVars, clientVars, budget>>

\* An error, whether or not the script ran: allowLocal reads the clock again.
AllowError(c) ==
    /\ RedisError
    /\ call[c].pc = "script"
    /\ call' = [call EXCEPT ![c].pc = "local", ![c].stamp = Now(Home[c])]
    /\ \/ TokenBucketScript(call[c].stamp)
       \/ UNCHANGED bucketVars
    /\ UNCHANGED <<clock, nonceVars, clientVars>>

\* Mutant of Forgotten: any bucket goes.
ForgottenAny(b, now) == TRUE

\* bucket.last.Before(now - 10 minutes), when the sweep comes to it.
Forgotten(b, now) == b.last < now - IdleLimit

\* allowLocal, under the mutex.  Every 1024th operation sweeps the buckets;
\* the other limits' operations count too, so it may be this one.
AllowLocal(c) ==
    /\ Answer(c, "local")
    /\ \E sweep \in BOOLEAN :
           LET r == Home[c]
               now == call[c].stamp
               old == bucket[r]
               b == IF old = NoBucket \/ (sweep /\ Forgotten(old, now))
                    THEN [tokens |-> Burst, last |-> now, dies |-> 0] ELSE old
           IN Charge(r, [tokens |-> Refilled(b.tokens, now - b.last), last |-> now,
                         dies |-> 0])
    /\ UNCHANGED <<clock, nonceVars, clientVars, setBack, budget>>

-----------------------------------------------------------------------------
(* ingestTrackingEvents, up to the events. *)

\* Mutant of InWindow: old requests stay valid.
InWindowEver(m, now) == m.ts - now <= ClockSkew

\* time.Since(timestamp).Abs() <= TrackingClockSkew
InWindow(m, now) == m.ts - now <= ClockSkew /\ now - m.ts <= ClockSkew

\* The request arrives, again if the network or somebody else repeats it.
Ingest(c, m) ==
    /\ InWindow(m, Now(Home[c]))
    /\ Begin(c, "ingest", "client", m)
    /\ UNCHANGED <<clock, nonceVars, clientVars, bucketVars>>

\* Mutant of Authorized: a disabled client still signs.
AuthorizedBySecret(m) == client.secret = m.secret

\* client.Enabled && VerifyTrackingSignature
Authorized(m) == client.enabled /\ client.secret = m.secret

\* GetTrackingClient and the check of the signature.
ReadClient(c) ==
    /\ IF Authorized(call[c].msg)
       THEN /\ call[c].pc = "client"
            /\ call' = [call EXCEPT ![c].pc = "nonce", ![c].read = budget.edits]
       ELSE Answer(c, "client")
    /\ UNCHANGED <<clock, nonceVars, clientVars, bucketVars, budget>>

\* The nonce, which lives from now on, is used up before the payload is parsed and
\* its events submitted, which is left to TraceWriter.
Accept(s, m, now) ==
    /\ accepted' = [accepted EXCEPT ![s][m] = @ + 1]
    /\ lastUse' = [lastUse EXCEPT ![s][m] = now]

SetNonce(m) == nonces[m] <= clock /\ nonces' = [nonces EXCEPT ![m] = clock + NonceTTL]

\* SET NX with the TTL: fresh if there is no unexpired key.
UseNonce(c) ==
    LET m == call[c].msg
    IN /\ Answer(c, "nonce")
       /\ \/ SetNonce(m) /\ Accept("redis", m, clock)
          \/ nonces[m] > clock /\ UNCHANGED <<nonces, accepted, lastUse>>
       /\ UNCHANGED <<clock, stored, clientVars, bucketVars, budget>>

\* An error, whether or not the key was set: UseNonceFallback, whose expires_at
\* counts from now on.
UseNonceError(c) ==
    /\ RedisError
    /\ call[c].pc = "nonce"
    /\ call' = [call EXCEPT ![c].pc = "postgres", ![c].stamp = Now(Home[c])]
    /\ SetNonce(call[c].msg) \/ UNCHANGED nonces
    /\ UNCHANGED <<clock, stored, accepted, lastUse, clientVars, bucketVars>>

InsertNonce(c) ==
    /\ stored[call[c].msg] = 0
    /\ stored' = [stored EXCEPT ![call[c].msg] = call[c].stamp + NonceTTL]

\* INSERT ... ON CONFLICT DO NOTHING RETURNING: fresh if a row came back.  An
\* expired row is in the way until it is purged.
UseNonceFallback(c) ==
    LET m == call[c].msg
    IN /\ Answer(c, "postgres")
       /\ \/ InsertNonce(c) /\ Accept("postgres", m, call[c].stamp)
          \/ stored[m] # 0 /\ UNCHANGED <<stored, accepted, lastUse>>
       /\ UNCHANGED <<clock, nonces, clientVars, bucketVars, budget>>

\* PostgreSQL fails too, whether or not the row was inserted: 503, nothing accepted.
NonceStoreUnavailable(c) ==
    /\ RedisError
    /\ Answer(c, "postgres")
    /\ InsertNonce(c) \/ UNCHANGED stored
    /\ UNCHANGED <<clock, nonces, accepted, lastUse, clientVars, bucketVars>>

\* MaintainPartitions: DELETE ... WHERE expires_at < now().
PurgeNonces ==
    /\ \E m \in Messages : stored[m] # 0 /\ stored[m] < clock
    /\ stored' = [m \in Messages |-> IF stored[m] < clock THEN 0 ELSE stored[m]]
    /\ UNCHANGED <<clock, nonces, accepted, lastUse, clientVars, bucketVars, call, budget>>

\* adminSaveTrackingClient: the secret is rotated or the client switched off.
SaveTrackingClient ==
    /\ budget.edits > 0
    /\ budget' = [budget EXCEPT !.edits = @ - 1]
    /\ client' \in [secret : Secrets, enabled : BOOLEAN]
    /\ revoked' = [m \in Messages |->
           IF client'.enabled /\ client'.secret = m.secret THEN -1
           ELSE IF revoked[m] # -1 THEN revoked[m] ELSE budget'.edits]
    /\ UNCHANGED <<clock, nonceVars, bucketVars, call>>

-----------------------------------------------------------------------------
Next ==
    \/ Tick \/ PurgeNonces \/ SaveTrackingClient
    \/ \E c \in Callers :
           \/ Allow(c) \/ AllowRedis(c) \/ AllowError(c) \/ AllowLocal(c)
           \/ \E m \in Messages : Ingest(c, m)
           \/ ReadClient(c) \/ UseNonce(c) \/ UseNonceError(c)
           \/ UseNonceFallback(c) \/ NonceStoreUnavailable(c)

Spec == Init /\ [][Next]_vars

-----------------------------------------------------------------------------
(* Properties. *)

TypeOK ==
    /\ clock \in 0..MaxTime
    /\ DOMAIN bucket = Stores
    /\ \A s \in Stores : bucket[s].tokens \in Int /\ bucket[s].last \in Seconds
    /\ nonces \in [Messages -> Nat] /\ stored \in [Messages -> Nat]
    /\ client \in [secret : Secrets, enabled : BOOLEAN]
    /\ \A c \in Callers :
           call[c].pc \in {"idle", "script", "local", "client", "nonce", "postgres"}
    /\ budget \in [allow : Nat, ingest : Nat, edits : Nat, time : Nat,
                   errors : 0..MaxErrors]

\* The calls a store admitted that read a clock between t and u.
AdmittedIn(s, t, u) == admitted[s][u] - (IF t = 0 THEN 0 ELSE admitted[s][t - 1])

\* A bucket is kept until it would have been full: in Redis by its TTL, in a
\* process for ten minutes.  The code has nothing that ensures the second.
KeptInRedis == Rate * (ScriptTTL - MaxOffset - MaxDelay) >= Burst
KeptLocally == Rate * (IdleLimit - MaxDelay) >= Burst

\* Allow: in every span of time each store admits at most a burst and what the
\* rate earns in it, although calls overtake each other between their clock
\* and the bucket and buckets are forgotten.  The bucket in Redis gives no more
\* beyond that than what calls have set its time stamp back: as long as the
\* clocks agree and calls arrive in order, nothing.
RateIsBounded ==
    /\ TypeOK
    /\ KeptInRedis =>
           \A t, u \in Seconds :
               t <= u => AdmittedIn("redis", t, u) <= Burst + Rate * (u - t + setBack)
    /\ KeptLocally =>
           \A r \in Replicas, t, u \in Seconds :
               t <= u => AdmittedIn(r, t, u) <= Burst + Rate * (u - t)

\* c accepts m in this step.
Accepts(c, m, s) ==
    /\ call[c].pc # "idle" /\ call'[c] = Free /\ call[c].msg = m
    /\ accepted'[s][m] # accepted[s][m]

\* docs/newapi-integration.md: a nonce "只能使用一次" while it is kept.  However often,
\* wherever and whenever a signed request is delivered, whatever Redis and PostgreSQL
\* hide, a nonce store takes it as fresh again only when the life of the nonce that
\* it was taken with is over.  So n acceptances need n - 1 lives, less what a handler
\* waits, within the window in which the request passes the check of its time.  With
\* the shipped values the window is as long as one life, and a second acceptance, at
\* its other end, is possible: nothing in the code requires a longer life.
AcceptedOncePerTTL ==
    /\ [](\A m \in Messages, s \in NonceStores :
             accepted[s][m] > 1 =>
                 (accepted[s][m] - 1) * (NonceTTL - MaxDelay) <= 2 * ClockSkew + MaxOffset)
    /\ [][\A m \in Messages, s \in NonceStores :
             accepted[s][m] # 0 /\ accepted'[s][m] # accepted[s][m] =>
                 clock >= lastUse[s][m] + NonceTTL]_vars

\* adminSaveTrackingClient: once a client is switched off or its secret is
\* rotated, what the old secret has signed is accepted only by a handler that
\* had read the client before that edit, however long it takes to answer.
RevokedSecretDies ==
    [][\A m \in Messages, s \in NonceStores :
           accepted'[s][m] # accepted[s][m] /\ revoked[m] # -1 =>
               \E c \in Callers : Accepts(c, m, s) /\ call[c].read > revoked[m]]_vars
=============================================================================
