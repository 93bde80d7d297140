----------------------------- MODULE RouteSlots -----------------------------
(***************************************************************************)
(* RedisGuard.Acquire and its release (redis.go): the concurrency slots of *)
(* one route, shared by the replicas through a sorted set in Redis whose   *)
(* scores are expiry times, with a counter in each process for when Redis  *)
(* does not answer.  The gateway acquires a slot for timeout + 30s and     *)
(* releases it when the request returns.  It need not be over by then: the *)
(* timer of the request is stopped for a stream, and a caller may take a   *)
(* buffered answer as slowly as it likes.                                  *)
(*                                                                         *)
(* The clocks of the replicas and of Redis agree, but a call reads the     *)
(* clock before Redis runs its script, and the client of Redis repeats a   *)
(* call whose reply it has lost.                                           *)
(***************************************************************************)
EXTENDS Naturals, FiniteSets

CONSTANTS
    Requests,
    Processes,
    RouteHome,  \* Requests -> Processes
    Limit,      \* route.MaxConcurrency
    TTLs,       \* timeout + 30s, for each timeout the route was given
    RouteTime   \* bound on the clock

ASSUME RouteSlotsAssumption ==
    /\ IsFiniteSet(Requests)
    /\ RouteHome \in [Requests -> Processes]
    /\ Limit \in Nat \ {0}
    /\ TTLs \subseteq Nat \ {0}
    /\ RouteTime \in Nat

VARIABLES
    routeClock,
    score,      \* request -> score of its token in the sorted set, 0 for none
    keyDies,    \* when PEXPIRE removes the whole set
    local,      \* process -> g.semaphores[key]
    place,      \* request -> "idle", "asked", "local", "running", "refused" or "done"
    asked,      \* request -> now and ttl of its call of Acquire
    slot,       \* request -> where its slot is: "none", "redis" or "local"
    promised    \* request -> end of the time Redis was asked to hold its token

routeVars == <<routeClock, score, keyDies, local, place, asked, slot, promised>>

NotAsked == [now |-> 0, ttl |-> 0]

RouteInit ==
    /\ routeClock = 0
    /\ score = [r \in Requests |-> 0]
    /\ keyDies = 0
    /\ local = [p \in Processes |-> 0]
    /\ place = [r \in Requests |-> "idle"]
    /\ asked = [r \in Requests |-> NotAsked]
    /\ slot = [r \in Requests |-> "none"]
    /\ promised = [r \in Requests |-> 0]

Move(r, to, where) ==
    /\ place' = [place EXCEPT ![r] = to]
    /\ slot' = [slot EXCEPT ![r] = where]
    /\ asked' = [asked EXCEPT ![r] = NotAsked]

-----------------------------------------------------------------------------
(* acquireSemaphoreScript. *)

\* Mutant of Live: the set is never purged.
LiveForever(now) == {r \in Requests : score[r] > 0}

\* The tokens left once the key has expired or ZREMRANGEBYSCORE has run.
Live(now) == IF keyDies <= routeClock THEN {} ELSE {r \in Requests : score[r] > now}

\* Mutant of SlotFree: off by one.
SlotFreeOneMore(now) == Cardinality(Live(now)) <= Limit

SlotFree(now) == Cardinality(Live(now)) < Limit

\* What the call of r asked for: the token of r, kept until now + ttl, in a key
\* that PEXPIRE keeps for ttl from here.
Script(r) ==
    LET now == asked[r].now
        expires == now + asked[r].ttl
    IN IF SlotFree(now)
       THEN /\ score' = [q \in Requests |-> IF q = r THEN expires
                                            ELSE IF q \in Live(now) THEN score[q] ELSE 0]
            /\ keyDies' = routeClock + asked[r].ttl
            /\ promised' = [promised EXCEPT ![r] = expires]
       ELSE /\ score' = [q \in Requests |-> IF q \in Live(now) THEN score[q] ELSE 0]
            /\ UNCHANGED <<keyDies, promised>>

-----------------------------------------------------------------------------
(* Acquire. *)

\* time.Now(), before the call.
Acquire(r) ==
    /\ place[r] = "idle"
    /\ place' = [place EXCEPT ![r] = "asked"]
    /\ \E ttl \in TTLs : asked' = [asked EXCEPT ![r] = [now |-> routeClock, ttl |-> ttl]]
    /\ UNCHANGED <<routeClock, score, keyDies, local, slot, promised>>

\* The answer of the script arrives.
AcquireRedis(r) ==
    /\ place[r] = "asked"
    /\ Script(r)
    /\ IF SlotFree(asked[r].now) THEN Move(r, "running", "redis")
                                 ELSE Move(r, "refused", "none")
    /\ UNCHANGED <<routeClock, local>>

\* The script ran and its answer is lost: the client repeats the call or gives up.
AcquireLost(r) ==
    /\ place[r] = "asked"
    /\ Script(r)
    /\ UNCHANGED <<routeClock, local, place, asked, slot>>

\* An error: the process-local counter is next.  A token that the script has left
\* behind is nobody's.
AcquireError(r) ==
    /\ place[r] = "asked"
    /\ Move(r, "local", "none")
    /\ UNCHANGED <<routeClock, score, keyDies, local, promised>>

AcquireLocal(r) ==
    /\ place[r] = "local"
    /\ IF local[RouteHome[r]] < Limit
          THEN /\ local' = [local EXCEPT ![RouteHome[r]] = @ + 1]
               /\ Move(r, "running", "local")
          ELSE Move(r, "refused", "none") /\ UNCHANGED local
    /\ UNCHANGED <<routeClock, score, keyDies, promised>>

-----------------------------------------------------------------------------
(* The release function. *)

\* ZREM, whose error is ignored.
ReleaseRedis(r) ==
    /\ place[r] = "running" /\ slot[r] = "redis"
    /\ \/ /\ score' = [score EXCEPT ![r] = 0]
          /\ promised' = [promised EXCEPT ![r] = 0]
       \/ UNCHANGED <<score, promised>>
    /\ Move(r, "done", "none")
    /\ UNCHANGED <<routeClock, keyDies, local>>

ReleaseLocal(r) ==
    /\ place[r] = "running" /\ slot[r] = "local"
    /\ local' = [local EXCEPT ![RouteHome[r]] = IF @ > 1 THEN @ - 1 ELSE 0]
    /\ Move(r, "done", "none")
    /\ UNCHANGED <<routeClock, score, keyDies, promised>>

-----------------------------------------------------------------------------

\* Nothing ends a request before its token expires.
RouteTick ==
    /\ routeClock < RouteTime
    /\ routeClock' = routeClock + 1
    /\ UNCHANGED <<score, keyDies, local, place, asked, slot, promised>>

RouteNext ==
    \/ RouteTick
    \/ \E r \in Requests :
          \/ Acquire(r) \/ AcquireRedis(r) \/ AcquireLost(r) \/ AcquireError(r)
          \/ AcquireLocal(r) \/ ReleaseRedis(r) \/ ReleaseLocal(r)

RouteSpec == RouteInit /\ [][RouteNext]_routeVars

-----------------------------------------------------------------------------
(* Properties. *)

RouteTypeOK ==
    /\ routeClock \in 0 .. RouteTime
    /\ score \in [Requests -> Nat]
    /\ keyDies \in Nat
    /\ local \in [Processes -> 0 .. Limit]
    /\ place \in [Requests -> {"idle", "asked", "local", "running", "refused", "done"}]
    /\ asked \in [Requests -> [now : Nat, ttl : Nat]]
    /\ slot \in [Requests -> {"none", "redis", "local"}]
    /\ promised \in [Requests -> Nat]

Running(where) == {r \in Requests : place[r] = "running" /\ slot[r] = where}

(***************************************************************************)
(* The counter of a replica is the number of its requests that fell back   *)
(* to it: a slot taken in one place is never released in the other.        *)
(***************************************************************************)
LocalCountIsExact ==
    \A p \in Processes :
        local[p] = Cardinality({r \in Running("local") : RouteHome[r] = p})

(***************************************************************************)
(* However late scripts run and however replies and releases are lost, the *)
(* requests that hold a slot in Redis and are still within the time they   *)
(* asked for are at most the limit of the route (acquireSemaphoreScript),  *)
(* as long as the timeout of the route is not changed.  A request that     *)
(* runs on, to a slow caller or as a stream, is not counted any more.      *)
(* What fell back to a process is counted there.                           *)
(***************************************************************************)
SlotBound ==
    /\ RouteTypeOK
    /\ LocalCountIsExact
    /\ Cardinality({r \in Running("redis") : routeClock < promised[r]}) <= Limit

(***************************************************************************)
(* A slot that leaked, because a reply or a ZREM was lost, comes back when *)
(* its time is over: a request is refused by Redis only when as many       *)
(* tokens as the limit were within theirs when it asked or were taken      *)
(* since, its own among them if it was left behind by an earlier attempt   *)
(* of the same call.                                                       *)
(***************************************************************************)
RefusalIsJustified ==
    [][\A r \in Requests : place[r] = "asked" /\ place'[r] = "refused" =>
          Cardinality({q \in Requests : promised[q] > asked[r].now}) >= Limit]_routeVars
=============================================================================
