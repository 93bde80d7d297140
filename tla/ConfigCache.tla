----------------------------- MODULE ConfigCache -----------------------------
(***************************************************************************)
(* The configuration caches of a replica: Gateway.getRoute with            *)
(* InvalidateRoute (gateway.go) and AuditEngine.getAuditProfile with       *)
(* InvalidateProfiles (audit_cache.go), which are one algorithm.  A lookup *)
(* takes the time first, then probes the map, reads PostgreSQL on a miss   *)
(* and stores what it read with the time it took at the start.  An         *)
(* administrator's change is saved in PostgreSQL and then clears the cache *)
(* of the replica that handled it, and of no other.                        *)
(*                                                                         *)
(* One configuration record is followed; its contents are the number of    *)
(* the change that wrote them.  A change may delete the record.            *)
(***************************************************************************)
EXTENDS Naturals

CONSTANTS
    Caches,     \* processes with a cache of their own
    Lookups,      \* goroutines that look the record up
    Home,         \* Lookups -> Caches
    TTL,          \* cfg.RouteCacheTTL, auditProfileCacheTTL
    MaxTime,      \* bound on the clock
    MaxVersion    \* bound on the changes

ASSUME ConfigCacheAssumption ==
    /\ Home \in [Lookups -> Caches]
    /\ TTL \in Nat \ {0}
    /\ MaxTime \in Nat
    /\ MaxVersion \in Nat \ {0}

Versions == 1 .. MaxVersion
Nothing == 0                  \* no entry, no result, no change

VARIABLES
    clock,
    version,    \* the change now in PostgreSQL
    deleted,    \* changes that delete the record
    replaced,   \* version -> when the next change replaced it
    entry,      \* replica -> version in its cache, or Nothing
    expires,    \* replica -> expiresAt of that entry
    admin,      \* replica -> the change it has saved and not yet invalidated for
    cachePc,         \* lookup -> "idle", "probe", "read", "fill" or "done"
    now,        \* lookup -> the time it took at its start
    found       \* lookup -> what it read or returned

storeVars == <<version, deleted, replaced>>
cacheVars == <<entry, expires>>
lookupVars == <<cachePc, now, found>>
configVars == <<clock, storeVars, cacheVars, admin, lookupVars>>

CacheInit ==
    /\ clock = 0
    /\ version = 1 /\ deleted = {} /\ replaced = [v \in Versions |-> 0]
    /\ entry = [r \in Caches |-> Nothing]
    /\ expires = [r \in Caches |-> 0]
    /\ admin = [r \in Caches |-> Nothing]
    /\ cachePc = [l \in Lookups |-> "idle"]
    /\ now = [l \in Lookups |-> 0]
    /\ found = [l \in Lookups |-> Nothing]

Tick ==
    /\ clock < MaxTime
    /\ clock' = clock + 1
    /\ UNCHANGED <<storeVars, cacheVars, admin, lookupVars>>

-----------------------------------------------------------------------------
(* A lookup. *)

\* now := time.Now()
Begin(l) ==
    /\ cachePc[l] \in {"idle", "done"}
    /\ cachePc' = [cachePc EXCEPT ![l] = "probe"]
    /\ now' = [now EXCEPT ![l] = clock]
    /\ found' = [found EXCEPT ![l] = Nothing]
    /\ UNCHANGED <<clock, storeVars, cacheVars, admin>>

\* ok && cached.expiresAt.After(now)
Hit(l) == entry[Home[l]] # Nothing /\ expires[Home[l]] > now[l]

Probe(l) ==
    /\ cachePc[l] = "probe"
    /\ \/ /\ Hit(l)
          /\ cachePc' = [cachePc EXCEPT ![l] = "done"]
          /\ found' = [found EXCEPT ![l] = entry[Home[l]]]
       \/ /\ ~Hit(l)
          /\ cachePc' = [cachePc EXCEPT ![l] = "read"]
          /\ UNCHANGED found
    /\ UNCHANGED <<clock, storeVars, cacheVars, admin, now>>

\* GetRouteBySlug, GetAuditProfile.
Read(l) ==
    /\ cachePc[l] = "read"
    /\ version \notin deleted
    /\ found' = [found EXCEPT ![l] = version]
    /\ cachePc' = [cachePc EXCEPT ![l] = "fill"]
    /\ UNCHANGED <<clock, storeVars, cacheVars, admin, now>>

\* Mutant of ReadFails: stores the empty answer too.
ReadFailsFills(l) ==
    /\ cachePc[l] = "read"
    /\ cachePc' = [cachePc EXCEPT ![l] = "fill"]
    /\ UNCHANGED <<clock, storeVars, cacheVars, admin, now, found>>

\* An error, or no such record: returned and never cached.
ReadFails(l) ==
    /\ cachePc[l] = "read"
    /\ cachePc' = [cachePc EXCEPT ![l] = "done"]
    /\ UNCHANGED <<clock, storeVars, cacheVars, admin, now, found>>

\* Mutant of ExpiresAt: counted from the time of the fill.
ExpiresAfterFill(l) == clock + TTL

\* now.Add(TTL)
ExpiresAt(l) == now[l] + TTL

Fill(l) ==
    /\ cachePc[l] = "fill"
    /\ entry' = [entry EXCEPT ![Home[l]] = found[l]]
    /\ expires' = [expires EXCEPT ![Home[l]] = ExpiresAt(l)]
    /\ cachePc' = [cachePc EXCEPT ![l] = "done"]
    /\ UNCHANGED <<clock, storeVars, admin, now, found>>

-----------------------------------------------------------------------------
(* The administrator's change, handled by replica r. *)

\* SaveRoute, SaveAuditProfile, or the deletion of the record.
Save(r) ==
    /\ admin[r] = Nothing
    /\ version < MaxVersion
    /\ version' = version + 1
    /\ replaced' = [replaced EXCEPT ![version] = clock]
    /\ \/ UNCHANGED deleted
       \/ version \notin deleted /\ deleted' = deleted \cup {version + 1}
    /\ admin' = [admin EXCEPT ![r] = version + 1]
    /\ UNCHANGED <<clock, cacheVars, lookupVars>>

Invalidate(r) ==
    /\ admin[r] # Nothing
    /\ entry' = [entry EXCEPT ![r] = Nothing]
    /\ admin' = [admin EXCEPT ![r] = Nothing]
    /\ UNCHANGED <<clock, storeVars, expires, lookupVars>>

-----------------------------------------------------------------------------

Lookup(l) == Begin(l) \/ Probe(l) \/ Read(l) \/ ReadFails(l) \/ Fill(l)

CacheNext ==
    \/ Tick
    \/ \E l \in Lookups : Lookup(l)
    \/ \E r \in Caches : Save(r) \/ Invalidate(r)

CacheSpec == CacheInit /\ [][CacheNext]_configVars

-----------------------------------------------------------------------------
(* Properties. *)

CacheTypeOK ==
    /\ clock \in 0 .. MaxTime
    /\ version \in Versions
    /\ deleted \in SUBSET Versions
    /\ replaced \in [Versions -> 0 .. MaxTime]
    /\ entry \in [Caches -> Versions \cup {Nothing}]
    /\ expires \in [Caches -> Nat]
    /\ admin \in [Caches -> Versions \cup {Nothing}]
    /\ cachePc \in [Lookups -> {"idle", "probe", "read", "fill", "done"}]
    /\ now \in [Lookups -> Nat]
    /\ found \in [Lookups -> Versions \cup {Nothing}]
    /\ \A l \in Lookups : cachePc[l] = "fill" => found[l] # Nothing

Returned(l) == cachePc[l] = "done" /\ found[l] # Nothing

(***************************************************************************)
(* Every replica converges within the TTL ("多副本环境的其他实例最多在缓存 *)
(* TTL 后收敛", docs/operations.md): a lookup never returns contents that  *)
(* were replaced a TTL or longer before it began, however slowly it or the *)
(* lookup that filled the cache ran, and whatever was invalidated when.    *)
(***************************************************************************)
BoundedStaleness ==
    \A l \in Lookups : Returned(l) =>
        found[l] = version \/ replaced[found[l]] + TTL > now[l]
=============================================================================
