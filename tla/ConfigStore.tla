---------------------------- MODULE ConfigStore ----------------------------
(***************************************************************************)
(* The configuration in PostgreSQL and everything that writes it: the      *)
(* start of a replica (Store.Migrate under its advisory lock, then         *)
(* Store.Bootstrap) and the administrators' saves and deletes of audit     *)
(* profiles, routes and tracking clients (admin.go, store.go).  Replicas   *)
(* crash, fail to start and are restarted at any point.                    *)
(*                                                                         *)
(* One action is one SQL statement or one commit.  What a transaction has  *)
(* written lies in its session until the commit; another statement that    *)
(* meets such a row, or a unique value it has taken, waits (READ COMMITTED *)
(* with row locks).  An UPDATE chooses its rows when it starts and looks   *)
(* again at those it had to wait for.  There is one route and one tracking *)
(* client; a secret is the number of the edit that gave it.  The           *)
(* environment names an audit endpoint (DefaultAuditEndpoint).             *)
(***************************************************************************)
EXTENDS Naturals, Sequences, FiniteSets, SequencesExt

CONSTANTS
    Replicas,
    Nobody,          \* no replica holds the advisory lock
    Migrations,      \* number of files under migrations/
    BootName,        \* "Default small-model audit"
    ProfileInputs,   \* what administrators save: id (0: new), name, default,
                     \* newKey, fallbacks
    MaxFallbacks,    \* maxAuditFallbackProfiles
    MaxId,           \* bound on the ids of audit_profiles
    MaxEdits,        \* bound on the administrators' requests
    MaxFaults        \* bound on crashes and on failed statements

Ids == 1..MaxId
NoRow == [name |-> "", default |-> FALSE, key |-> 0, fallbacks |-> <<>>]
Names == {NoRow.name, BootName} \cup {input.name : input \in ProfileInputs}
ProfileInput == [id : 0..MaxId, name : Names, default : BOOLEAN,
                 newKey : BOOLEAN, fallbacks : Seq(Nat)]

ASSUME ConfigStoreAssumption ==
    /\ Nobody \notin Replicas
    /\ Migrations \in Nat
    /\ BootName # NoRow.name
    /\ ProfileInputs \subseteq ProfileInput
    /\ \A input \in ProfileInputs : input.name # NoRow.name
    /\ MaxFallbacks \in Nat /\ MaxId \in Nat \ {0, 1} /\ MaxEdits \in Nat
    /\ MaxFaults \in Nat

VARIABLES
    applied,    \* schema_migrations
    effects,    \* migration -> how often its statements were committed
    lock,       \* holder of the advisory lock
    pc,         \* replica -> where its start stands, or "down", "serving"
    at,         \* replica -> the migration it looks at
    saw,        \* replica -> defaultExists in Bootstrap
    profiles,   \* audit_profiles
    nextId,     \* its sequence
    secrets,    \* "route", "client" -> status and secret of the row
    routeProfile, \* audit_profile_id of the route, 0 for NULL
    session,    \* replica -> the administrator's request it serves
    revision,   \* row -> how often it was written
    budget      \* edits and faults so far

startVars == <<applied, effects, lock, pc, at, saw>>
tableVars == <<profiles, nextId, secrets, routeProfile, revision>>
vars == <<startVars, tableVars, session, budget>>

Starting == {"lock", "migrate", "apply", "clients", "profiles", "create"}
Tables == {"route", "client"}
Rows == ({"profile"} \X Ids) \cup (Tables \X {0})

\* No request: the rest of the record has its neutral values.
Idle == [op |-> "none", step |-> "none", id |-> 0, newKey |-> FALSE,
         key |-> 0, rev |-> 0, row |-> NoRow, seen |-> {}, unset |-> {}]

-----------------------------------------------------------------------------
(* Rows and the locks of open transactions. *)

Exists(i) == i \in Ids /\ profiles[i] # NoRow
Defaults == {i \in Ids : profiles[i].default}

\* Rows that an open transaction of another replica has changed.
LockedByOther(r, i) ==
    \E q \in Replicas \ {r} :
        \/ i \in session[q].unset
        \/ session[q].op = "profile" /\ session[q].step = "commit" /\ session[q].id = i

\* Rows another replica has written and not yet committed.
PendingElsewhere(r) ==
    {session[q].row : q \in {p \in Replicas \ {r} :
        session[p].op = "profile" /\ session[p].step = "commit"}}

\* A statement of r that writes `row` under id i waits for these.
MustWait(r, i, row) ==
    \/ \E p \in PendingElsewhere(r) : p.name = row.name \/ (p.default /\ row.default)
    \/ \E j \in Ids \ {i} :
           /\ LockedByOther(r, j)
           /\ profiles[j].name = row.name \/ (profiles[j].default /\ row.default)

\* name UNIQUE, and audit_profiles_one_default_idx.
Unique(r, i, row) ==
    /\ \A j \in Ids \ {i} : profiles[j].name # row.name
    /\ row.default => Defaults \ (session[r].unset \cup {i}) = {}

Written(x) == revision' = [revision EXCEPT ![x] = @ + 1]

\* GetAuditProfile: the profile that audits the route, 0 if there is none.
GetAuditProfile ==
    IF routeProfile # 0 THEN routeProfile
    ELSE IF Defaults # {} THEN CHOOSE i \in Defaults : TRUE ELSE 0

-----------------------------------------------------------------------------
\* An empty database, or one that an earlier release has served from: a
\* prefix of the migrations, the bootstrap profile and another one, a route.
Empty ==
    /\ applied = {}
    /\ profiles = [i \in Ids |-> NoRow] /\ nextId = 1
    /\ secrets = [t \in Tables |-> [status |-> "absent", key |-> 0]]

Populated ==
    /\ \E m \in 1..Migrations : applied = 1..m
    /\ \E name \in {input.name : input \in ProfileInputs} \ {BootName} :
           profiles = [i \in Ids |->
               IF i = 1 THEN [NoRow EXCEPT !.name = BootName, !.default = TRUE]
               ELSE IF i = 2 THEN [NoRow EXCEPT !.name = name] ELSE NoRow]
    /\ nextId = 3
    /\ secrets = [t \in Tables |-> [status |-> "live", key |-> 0]]

Init ==
    /\ Empty \/ Populated
    /\ effects = [m \in 1..Migrations |-> IF m \in applied THEN 1 ELSE 0]
    /\ lock = Nobody
    /\ pc = [r \in Replicas |-> "down"]
    /\ at = [r \in Replicas |-> 1]
    /\ saw = [r \in Replicas |-> FALSE]
    /\ routeProfile = 0
    /\ session = [r \in Replicas |-> Idle]
    /\ revision = [x \in Rows |-> 0]
    /\ budget = [edits |-> 0, faults |-> 0]

GoTo(r, where) == pc' = [pc EXCEPT ![r] = where]
Fault == budget.faults < MaxFaults /\ budget' = [budget EXCEPT !.faults = @ + 1]

-----------------------------------------------------------------------------
(* The start of a replica. *)

\* The container is started, again if it has to be.
Start(r) ==
    /\ pc[r] = "down"
    /\ GoTo(r, "lock")
    /\ UNCHANGED <<applied, effects, lock, at, saw, tableVars, session, budget>>

\* SELECT pg_advisory_lock
AcquireLock(r) ==
    /\ pc[r] = "lock" /\ lock = Nobody
    /\ lock' = r
    /\ at' = [at EXCEPT ![r] = 1]
    /\ GoTo(r, "migrate")
    /\ UNCHANGED <<applied, effects, saw, tableVars, session, budget>>

\* SELECT EXISTS ... version: skip the file, or begin its transaction.
NextMigration(r) ==
    /\ pc[r] = "migrate" /\ at[r] <= Migrations
    /\ \/ at[r] \in applied /\ at' = [at EXCEPT ![r] = @ + 1] /\ UNCHANGED pc
       \/ at[r] \notin applied /\ GoTo(r, "apply") /\ UNCHANGED at
    /\ UNCHANGED <<applied, effects, lock, saw, tableVars, session, budget>>

\* The statements of the file and the INSERT of its version, committed.
CommitMigration(r) ==
    /\ pc[r] = "apply"
    /\ effects' = [effects EXCEPT ![at[r]] = @ + 1]
    /\ applied' = applied \cup {at[r]}
    /\ at' = [at EXCEPT ![r] = @ + 1]
    /\ GoTo(r, "migrate")
    /\ UNCHANGED <<lock, saw, tableVars, session, budget>>

\* Mutant of FinishMigrations: no pg_advisory_unlock, and the connection
\* goes back to the pool with the lock.
FinishHoldingLock(r) ==
    /\ pc[r] = "migrate" /\ at[r] > Migrations
    /\ GoTo(r, "clients")
    /\ UNCHANGED <<applied, effects, lock, at, saw, tableVars, session, budget>>

FinishMigrations(r) ==
    /\ pc[r] = "migrate" /\ at[r] > Migrations
    /\ lock' = Nobody
    /\ GoTo(r, "clients")
    /\ UNCHANGED <<applied, effects, at, saw, tableVars, session, budget>>

\* INSERT INTO tracking_clients ... ON CONFLICT(key_id) DO NOTHING, unless the
\* environment has no secret.  The secret of the environment has number 0.
BootstrapClient(r) ==
    /\ pc[r] = "clients"
    /\ \/ /\ secrets["client"].status = "absent"
          /\ secrets' = [secrets EXCEPT !["client"].status = "live"]
          /\ Written(<<"client", 0>>)
       \/ UNCHANGED <<secrets, revision>>
    /\ GoTo(r, "profiles")
    /\ UNCHANGED <<applied, effects, lock, at, saw, profiles, nextId,
                   routeProfile, session, budget>>

\* SELECT EXISTS(... is_default=TRUE)
BootstrapReadDefault(r) ==
    /\ pc[r] = "profiles"
    /\ saw' = [saw EXCEPT ![r] = Defaults # {}]
    /\ GoTo(r, "create")
    /\ UNCHANGED <<applied, effects, lock, at, tableVars, session, budget>>

BootRow(r) == [NoRow EXCEPT !.name = BootName, !.default = ~saw[r]]

\* INSERT INTO audit_profiles ... ON CONFLICT(name) DO NOTHING.  A second
\* default is no conflict of the name: the statement fails, os.Exit(1).  (The
\* id that an INSERT uses up without a row is left out here; MaxId bounds the
\* rows.)
BootstrapProfile(r) ==
    /\ pc[r] = "create"
    /\ ~MustWait(r, 0, BootRow(r))
    /\ \/ /\ \E i \in Ids : profiles[i].name = BootName
          /\ GoTo(r, "serving")
          /\ UNCHANGED <<profiles, nextId>>
       \/ /\ \A i \in Ids : profiles[i].name # BootName
          /\ \/ /\ Unique(r, 0, BootRow(r)) /\ nextId \in Ids
                /\ profiles' = [profiles EXCEPT ![nextId] = BootRow(r)]
                /\ nextId' = nextId + 1
                /\ GoTo(r, "serving")
             \/ /\ ~Unique(r, 0, BootRow(r))
                /\ GoTo(r, "down")
                /\ UNCHANGED <<profiles, nextId>>
    /\ UNCHANGED <<applied, effects, lock, at, saw, secrets, routeProfile,
                   revision, session, budget>>

\* Mutant of Stop: the statements of a migration run outside a transaction,
\* and those already executed stay.
StopWithoutTransaction(r) ==
    /\ pc[r] # "down"
    /\ Fault
    /\ GoTo(r, "down")
    /\ lock' = IF lock = r THEN Nobody ELSE lock
    /\ effects' = IF pc[r] = "apply" THEN [effects EXCEPT ![at[r]] = @ + 1] ELSE effects
    /\ session' = [session EXCEPT ![r] = Idle]
    /\ UNCHANGED <<applied, at, saw, tableVars>>

\* The process ends: os.Exit(1) at a failed or timed out step of its start,
\* or a crash.  Its connections close, which releases the advisory lock and
\* rolls its transactions back.
Stop(r) ==
    /\ pc[r] # "down"
    /\ Fault
    /\ GoTo(r, "down")
    /\ lock' = IF lock = r THEN Nobody ELSE lock
    /\ session' = [session EXCEPT ![r] = Idle]
    /\ UNCHANGED <<applied, effects, at, saw, tableVars>>

-----------------------------------------------------------------------------
(* An administrator's request. *)

Request(r, s) ==
    /\ pc[r] = "serving" /\ session[r] = Idle
    /\ budget.edits < MaxEdits
    /\ budget' = [budget EXCEPT !.edits = @ + 1]
    /\ session' = [session EXCEPT ![r] = s]
    /\ UNCHANGED <<startVars, tableVars>>

At(r, op, step) == session[r].op = op /\ session[r].step = step
Return(r) == session' = [session EXCEPT ![r] = Idle]
GivenKey == budget.edits + 1

\* At most so many, positive, not itself, no duplicate, each one existing.
ValidateAuditFallbackProfiles(id, ids) ==
    /\ Len(ids) <= MaxFallbacks
    /\ IsInjective(ids)
    /\ \A n \in DOMAIN ids : ids[n] \in Ids /\ ids[n] # id /\ Exists(ids[n])

\* adminSaveAuditProfile, up to SaveAuditProfile.
AdminSaveAuditProfile(r) ==
    \E input \in ProfileInputs :
        /\ ValidateAuditFallbackProfiles(input.id, input.fallbacks)
        /\ input.id = 0 => nextId < MaxId    \* leaves an id to Bootstrap
        /\ Request(r, [Idle EXCEPT !.op = "profile", !.step = "read",
               !.id = input.id, !.newKey = input.newKey,
               !.key = IF input.newKey THEN GivenKey ELSE 0,
               !.row = [name |-> input.name, default |-> input.default,
                        key |-> 0, fallbacks |-> input.fallbacks]])

\* Mutant of KeyToStore: an empty field erases what is stored.
KeyAsGiven(r, stored) == session[r].key

\* The secret of the row that was read, unless a new one was given.
KeyToStore(r, stored) == IF session[r].newKey THEN session[r].key ELSE stored

\* GetAuditProfile, then Begin.
ReadProfile(r) ==
    /\ At(r, "profile", "read")
    /\ LET s == session[r]
           key == KeyToStore(r, IF s.id = 0 THEN 0 ELSE profiles[s.id].key)
       IN \/ /\ s.id # 0 /\ ~Exists(s.id)
             /\ Return(r)
          \/ /\ s.id = 0 \/ Exists(s.id)
             /\ session' = [session EXCEPT ![r] =
                    [s EXCEPT !.key = key, !.row.key = key,
                              !.rev = IF s.id = 0 THEN 0 ELSE revision[<<"profile", s.id>>],
                              !.step = IF s.row.default THEN "unset" ELSE "write"]]
    /\ UNCHANGED <<startVars, tableVars, budget>>

\* UPDATE ... SET is_default=FALSE WHERE is_default=TRUE AND id<>$1: its rows.
UnsetStart(r) ==
    /\ At(r, "profile", "unset")
    /\ session' = [session EXCEPT ![r].seen = Defaults \ {session[r].id},
                                  ![r].step = "unsetting"]
    /\ UNCHANGED <<startVars, tableVars, budget>>

\* ... and those that still are defaults once their locks are free.
UnsetDefaults(r) ==
    /\ At(r, "profile", "unsetting")
    /\ \A i \in session[r].seen : ~LockedByOther(r, i)
    /\ session' = [session EXCEPT ![r].unset = session[r].seen \cap Defaults,
                                  ![r].step = "write"]
    /\ UNCHANGED <<startVars, tableVars, budget>>

\* INSERT or UPDATE ... RETURNING.  An id is used up even if the INSERT fails.
WriteProfile(r) ==
    /\ At(r, "profile", "write")
    /\ LET s == session[r]
           i == IF s.id = 0 THEN nextId ELSE s.id
       IN /\ i \in Ids
          /\ nextId' = IF s.id = 0 THEN nextId + 1 ELSE nextId
          /\ ~LockedByOther(r, i) /\ ~MustWait(r, i, s.row)
          /\ \/ /\ s.id # 0 => Exists(i)
                /\ Unique(r, i, s.row)
                /\ session' = [session EXCEPT ![r].id = i, ![r].step = "commit"]
             \/ /\ (s.id # 0 /\ ~Exists(i)) \/ ~Unique(r, i, s.row)
                /\ Return(r)
    /\ UNCHANGED <<startVars, profiles, secrets, routeProfile, revision, budget>>

CommitProfile(r) ==
    /\ At(r, "profile", "commit")
    /\ profiles' = [i \in Ids |->
           IF i = session[r].id THEN session[r].row
           ELSE IF i \in session[r].unset THEN [profiles[i] EXCEPT !.default = FALSE]
           ELSE profiles[i]]
    /\ Written(<<"profile", session[r].id>>)
    /\ Return(r)
    /\ UNCHANGED <<startVars, nextId, secrets, routeProfile, budget>>

AdminDeleteAuditProfile(r) ==
    \E i \in Ids :
        Request(r, [Idle EXCEPT !.op = "delete", !.step = "clear", !.id = i])

\* A chain of fallbacks names nobody twice.
ArrayRemove(ids, id) ==
    IF Contains(ids, id) THEN RemoveAt(ids, CHOOSE n \in DOMAIN ids : ids[n] = id) ELSE ids

\* array_remove(fallback_profile_ids, $1), a statement of its own whose error
\* is ignored.
ClearReferences(r) ==
    LET id == session[r].id
        referring == {i \in Ids : Contains(profiles[i].fallbacks, id)}
    IN /\ At(r, "delete", "clear")
       /\ \/ /\ \A i \in referring : ~LockedByOther(r, i)
             /\ profiles' = [i \in Ids |-> [profiles[i] EXCEPT !.fallbacks = ArrayRemove(@, id)]]
             /\ UNCHANGED budget
          \/ Fault /\ UNCHANGED profiles
       /\ session' = [session EXCEPT ![r].step = "delete"]
       /\ UNCHANGED <<startVars, nextId, secrets, routeProfile, revision>>

\* Mutant of Deletable: any row goes.
DeletableAny(i) == Exists(i)

\* id=$1 AND is_default=FALSE
Deletable(i) == Exists(i) /\ ~profiles[i].default

\* DELETE; the foreign key sets the route's audit_profile_id to NULL.
DeleteProfile(r) ==
    LET i == session[r].id
    IN /\ At(r, "delete", "delete")
       /\ \/ /\ Deletable(i) /\ ~LockedByOther(r, i)
             /\ profiles' = [profiles EXCEPT ![i] = NoRow]
             /\ routeProfile' = IF routeProfile = i THEN 0 ELSE routeProfile
          \/ ~Deletable(i) /\ UNCHANGED <<profiles, routeProfile>>
       /\ Return(r)
       /\ UNCHANGED <<startVars, nextId, secrets, revision, budget>>

\* adminSaveRoute: a new route has to bring its key; id 0 is a new route.
AdminSaveRoute(r) ==
    \E new, given \in BOOLEAN, profile \in 0..1 :
        /\ new => given
        /\ Request(r, [Idle EXCEPT !.op = "route",
               !.step = IF new THEN "insert" ELSE "read", !.newKey = given,
               !.key = IF given THEN GivenKey ELSE 0, !.id = profile])

\* adminSaveTrackingClient: only a save without a secret reads the stored one.
\* Its own number is then that of the secret it would generate.
AdminSaveTrackingClient(r) ==
    \E given \in BOOLEAN :
        Request(r, [Idle EXCEPT !.op = "client",
            !.step = IF given THEN "write" ELSE "read", !.newKey = given,
            !.key = GivenKey])

\* GetRouteByID, GetTrackingClient.  Without a route the save ends, and a
\* client that is not there yet gets the secret of GenerateSecret.
ReadSecret(r) ==
    /\ session[r].op \in Tables /\ session[r].step = "read"
    /\ LET t    == session[r].op
           live == secrets[t].status = "live"
           Go(key) == session' = [session EXCEPT ![r].key = key,
                          ![r].rev = revision[<<t, 0>>], ![r].step = "write"]
       IN \/ live /\ Go(KeyToStore(r, secrets[t].key))
          \/ ~live /\ t = "client" /\ Go(session[r].key)
          \/ ~live /\ t = "route" /\ Return(r)
    /\ UNCHANGED <<startVars, tableVars, budget>>

ProfileIsKnown(id) == id = 0 \/ Exists(id)

\* INSERT INTO routes: the slug of a deleted route is taken for ever.
InsertRoute(r) ==
    /\ At(r, "route", "insert")
    /\ \/ /\ secrets["route"].status = "absent" /\ ProfileIsKnown(session[r].id)
          /\ secrets' = [secrets EXCEPT !["route"] =
                 [status |-> "live", key |-> session[r].key]]
          /\ routeProfile' = session[r].id
          /\ Written(<<"route", 0>>)
       \/ /\ secrets["route"].status # "absent" \/ ~ProfileIsKnown(session[r].id)
          /\ UNCHANGED <<secrets, routeProfile, revision>>
    /\ Return(r)
    /\ UNCHANGED <<startVars, profiles, nextId, budget>>

\* UPDATE routes ... WHERE id=$1 AND deleted_at IS NULL, and the upsert of
\* SaveTrackingClient.
WriteSecret(r) ==
    /\ session[r].op \in Tables /\ session[r].step = "write"
    /\ LET t == session[r].op
           ok == t = "client" \/ (secrets[t].status = "live" /\ ProfileIsKnown(session[r].id))
       IN \/ /\ ok
             /\ secrets' = [secrets EXCEPT ![t] =
                    [status |-> "live", key |-> session[r].key]]
             /\ routeProfile' = IF t = "route" THEN session[r].id ELSE routeProfile
             /\ Written(<<t, 0>>)
          \/ ~ok /\ UNCHANGED <<secrets, routeProfile, revision>>
    /\ Return(r)
    /\ UNCHANGED <<startVars, profiles, nextId, budget>>

\* One statement: deleted_at and enabled=FALSE.
AdminDeleteRoute(r) ==
    /\ pc[r] = "serving" /\ session[r] = Idle
    /\ budget.edits < MaxEdits
    /\ secrets["route"].status = "live"
    /\ budget' = [budget EXCEPT !.edits = @ + 1]
    /\ secrets' = [secrets EXCEPT !["route"].status = "deleted"]
    /\ UNCHANGED <<startVars, profiles, nextId, routeProfile, revision, session>>

\* A statement fails, or the administrator's connection goes: rolled back.
RequestFails(r) ==
    /\ session[r] # Idle
    /\ Fault
    /\ Return(r)
    /\ UNCHANGED <<startVars, tableVars>>

-----------------------------------------------------------------------------
StartStep(r) ==
    \/ Start(r) \/ AcquireLock(r) \/ NextMigration(r) \/ CommitMigration(r)
    \/ FinishMigrations(r) \/ BootstrapClient(r) \/ BootstrapReadDefault(r)
    \/ BootstrapProfile(r)

SessionStep(r) ==
    \/ ReadProfile(r) \/ UnsetStart(r) \/ UnsetDefaults(r) \/ WriteProfile(r)
    \/ CommitProfile(r) \/ ClearReferences(r) \/ DeleteProfile(r)
    \/ ReadSecret(r) \/ InsertRoute(r) \/ WriteSecret(r)

Next ==
    \E r \in Replicas :
        \/ StartStep(r) \/ SessionStep(r) \/ Stop(r) \/ RequestFails(r)
        \/ AdminSaveAuditProfile(r) \/ AdminDeleteAuditProfile(r)
        \/ AdminSaveRoute(r) \/ AdminDeleteRoute(r) \/ AdminSaveTrackingClient(r)

\* Containers are restarted, statements end; nobody has to edit anything.
Spec ==
    /\ Init /\ [][Next]_vars
    /\ \A r \in Replicas : WF_vars(StartStep(r)) /\ WF_vars(SessionStep(r))

-----------------------------------------------------------------------------
(* Properties. *)

TypeOK ==
    /\ applied \subseteq 1..Migrations
    /\ effects \in [1..Migrations -> Nat]
    /\ lock \in Replicas \cup {Nobody}
    /\ pc \in [Replicas -> Starting \cup {"down", "serving"}]
    /\ at \in [Replicas -> 1..Migrations + 1]
    /\ saw \in [Replicas -> BOOLEAN]
    /\ profiles \in [Ids -> [name : Names, default : BOOLEAN, key : Nat,
                              fallbacks : Seq(Ids)]]
    /\ nextId \in 1..MaxId + 1
    /\ secrets \in [Tables -> [status : {"absent", "live", "deleted"}, key : Nat]]
    /\ routeProfile \in 0..MaxId
    /\ revision \in [Rows -> Nat]
    /\ budget \in [edits : 0..MaxEdits, faults : 0..MaxFaults]

\* Store.Migrate: whatever crashes and however replicas start together, no
\* migration takes effect twice or before an earlier one, and a replica that
\* has passed Migrate meets the whole schema.
MigrationsApplyOnce ==
    /\ TypeOK
    /\ \A m \in 1..Migrations :
           /\ effects[m] = IF m \in applied THEN 1 ELSE 0
           /\ m \in applied => \A n \in 1..m : n \in applied
    /\ \A r \in Replicas :
           pc[r] \in {"clients", "profiles", "create", "serving"} =>
               applied = 1..Migrations

\* In this step a save of the default profile with is_default unset commits.
ClearsDefault(r) ==
    /\ At(r, "profile", "commit") /\ session'[r] = Idle
    /\ session[r].id \in Defaults /\ ~session[r].row.default

\* SaveAuditProfile, DeleteAuditProfile, Bootstrap: the default is swapped by
\* several statements and deleted by others, yet there are never two, none
\* disappears but by the commit of a save that clears it in that very profile, and
\* while there is a default a route never comes to be without a profile to audit it.
DefaultIsKept ==
    [][/\ Cardinality(Defaults') <= 1
       /\ Defaults # {} =>
              \/ \E r \in Replicas : ClearsDefault(r)
              \/ /\ Defaults' # {}
                 /\ GetAuditProfile' # 0 /\ profiles'[GetAuditProfile'] # NoRow]_vars

KeyOf(x) == IF x[1] = "profile" THEN profiles[x[2]].key ELSE secrets[x[1]].key
Present(x) ==
    IF x[1] = "profile" THEN Exists(x[2]) ELSE secrets[x[1]].status = "live"

\* r writes row x in this step.
Writes(r, x) ==
    \/ At(r, "profile", "commit") /\ x = <<"profile", session[r].id>>
    \/ session[r].step = "write" /\ x = <<session[r].op, 0>>

\* SaveAuditProfile, SaveRoute, SaveTrackingClient, Bootstrap: a stored secret
\* changes only to one an administrator gives for it, never by a restart, a
\* bootstrap or a save that leaves the field empty.  The exception is the save
\* that read the row before somebody else's save of it: it writes the secret
\* it read over the new one.
SecretsAreKept ==
    [][\A x \in Rows :
        Present(x) /\ Present(x)' /\ KeyOf(x)' # KeyOf(x) =>
            \E r \in Replicas :
                /\ Writes(r, x)
                /\ \/ session[r].newKey /\ KeyOf(x)' = session[r].key
                   \/ revision[x] > session[r].rev]_vars

\* main, Migrate, Bootstrap: once crashes and failures stop, every replica
\* gets through its start, whoever held the lock, whichever transaction it
\* waited for and even if another default appeared under its bootstrap; and no
\* two saves wait for each other's rows.
ReplicasServe ==
    \A r \in Replicas : <>[](pc[r] = "serving" /\ session[r] = Idle)
=============================================================================
