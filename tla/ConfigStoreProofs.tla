------------------------- MODULE ConfigStoreProofs -------------------------
(***************************************************************************)
(* MigrationsApplyOnce, DefaultIsKept and SecretsAreKept of ConfigStore    *)
(* for any number of replicas, migrations, rows, edits and faults; and     *)
(* BoundedStaleness of ConfigCache, the caches that replicas keep of what  *)
(* is stored, for any number of lookups, any TTL and any changes.          *)
(***************************************************************************)
EXTENDS ConfigStore, ConfigCache, FiniteSetTheorems, TLAPS

Row == [name : Names, default : BOOLEAN, key : Nat, fallbacks : Seq(Ids)]
Ops == {"none", "profile", "delete", "route", "client"}
Steps == {"none", "read", "unset", "unsetting", "write", "commit", "clear",
          "delete", "insert"}
Session == [op : Ops, step : Steps, id : 0..MaxId, newKey : BOOLEAN, key : Nat,
            rev : Nat, row : Row, seen : SUBSET Ids, unset : SUBSET Ids]

SessionTypes == session \in [Replicas -> Session]

\* Whoever looks at migrations holds the lock, and those before the one it looks at
\* are applied; whoever has looked at all of them met the whole schema.
MigrationInv ==
    /\ \A m \in 1..Migrations :
           /\ effects[m] = IF m \in applied THEN 1 ELSE 0
           /\ m \in applied => \A n \in 1..m : n \in applied
    /\ \A r \in Replicas :
           /\ pc[r] \in {"migrate", "apply"} =>
                  lock = r /\ \A n \in 1..Migrations : n < at[r] => n \in applied
           /\ pc[r] = "apply" => at[r] \in 1..Migrations /\ at[r] \notin applied
           /\ pc[r] \in {"clients", "profiles", "create", "serving"} =>
                  applied = 1..Migrations

Pending(r) == At(r, "profile", "commit")

\* Only a replica that serves has a request; a save knows the id of its row, which
\* the sequence has given out, and takes the default from others only for itself.
SessionInv ==
    \A r \in Replicas :
        /\ pc[r] # "serving" => session[r] = Idle
        /\ session[r].op = "profile" =>
               /\ session[r].row.name # NoRow.name
               /\ session[r].step # "read" => session[r].id < nextId
               /\ session[r].step \in {"unset", "unsetting"} => session[r].row.default
        /\ session[r].unset # {} => session[r].op = "profile" /\ session[r].row.default
        /\ Pending(r) => session[r].id # 0

\* The sequence is ahead of every row that exists, and no row is without a name.
Fresh == \A i \in Ids : i >= nextId => profiles[i] = NoRow
Named == \A i \in Ids : profiles[i] # NoRow => profiles[i].name # NoRow.name

\* At most one profile is the default; one that is about to become the default has
\* taken it from all others, and it is the only one that is about to.
DefaultInv ==
    /\ Fresh /\ Named
    /\ \A i, j \in Defaults : i = j
    /\ \A r \in Replicas : Pending(r) /\ session[r].row.default =>
           /\ Defaults \subseteq session[r].unset \cup {session[r].id}
           /\ \A q \in Replicas \ {r} : ~(Pending(q) /\ session[q].row.default)
    /\ routeProfile # 0 => Exists(routeProfile)

\* What a save without a new secret read is still stored, or the row was written
\* since.
KeepsProfileKey(r) ==
    session[r].op = "profile" /\ session[r].step # "read" =>
        LET s == session[r]
        IN /\ s.row.key = s.key
           /\ s.id = 0 => s.rev = 0
           /\ s.id # 0 =>
                  /\ s.rev <= revision[<<"profile", s.id>>]
                  /\ ~s.newKey /\ Exists(s.id) =>
                         \/ profiles[s.id].key = s.key
                         \/ revision[<<"profile", s.id>>] > s.rev

KeepsTableKey(r) ==
    session[r].op \in Tables /\ session[r].step = "write" /\ ~session[r].newKey =>
        LET s == session[r]
        IN /\ s.rev <= revision[<<s.op, 0>>]
           /\ secrets[s.op].status = "live" =>
                  secrets[s.op].key = s.key \/ revision[<<s.op, 0>>] > s.rev

SecretInv == \A r \in Replicas : KeepsProfileKey(r) /\ KeepsTableKey(r)

IInv == TypeOK /\ SessionTypes /\ MigrationInv /\ SessionInv /\ DefaultInv /\ SecretInv
-----------------------------------------------------------------------------
(* Operators. *)

\* Removing one occurrence from a chain that names nobody twice removes the id, as
\* array_remove does, and nothing else.
LEMMA ArrayRemoveTypes ==
    ASSUME NEW ids \in Seq(Ids), NEW id
    PROVE  ArrayRemove(ids, id) \in Seq(Ids)
<1>1. CASE ~Contains(ids, id)
  BY <1>1 DEF ArrayRemove
<1>2. CASE Contains(ids, id)
  <2>1. PICK n \in DOMAIN ids : n = CHOOSE m \in DOMAIN ids : ids[m] = id
    BY <1>2 DEF Contains
  <2>2. ArrayRemove(ids, id) = SubSeq(ids, 1, n-1) \o SubSeq(ids, n+1, Len(ids))
    BY <1>2, <2>1 DEF ArrayRemove, RemoveAt
  <2>3. n \in 1..Len(ids) /\ Len(ids) \in Nat
    OBVIOUS
  <2>4. SubSeq(ids, 1, n-1) \in Seq(Ids)
    BY <2>3
  <2>5. SubSeq(ids, n+1, Len(ids)) \in Seq(Ids)
    BY <2>3
  <2> QED BY <2>2, <2>4, <2>5
<1> QED BY <1>1, <1>2

\* What the proofs use of the constants.
LEMMA StoreConstants ==
    /\ Nobody \notin Replicas /\ Migrations \in Nat
    /\ BootName \in Names /\ BootName # NoRow.name
    /\ MaxId \in Nat /\ MaxId >= 2 /\ Ids = 1..MaxId
    /\ MaxEdits \in Nat /\ MaxFaults \in Nat
    /\ NoRow \in Row /\ Idle \in Session
    /\ \A input \in ProfileInputs : input \in ProfileInput /\ input.name # NoRow.name
<1>1. NoRow.name \in Names /\ BootName \in Names
  BY DEF Names
<1>2. /\ Nobody \notin Replicas /\ Migrations \in Nat
      /\ BootName \in Names /\ BootName # NoRow.name
      /\ MaxEdits \in Nat /\ MaxFaults \in Nat
      /\ \A input \in ProfileInputs : input \in ProfileInput /\ input.name # NoRow.name
  BY <1>1, ConfigStoreAssumption
<1>3. MaxId \in Nat /\ MaxId >= 2 /\ Ids = 1..MaxId
  BY ConfigStoreAssumption DEF Ids
<1>4. NoRow \in Row
  <2>1. <<>> \in Seq(Ids)
    OBVIOUS
  <2> QED BY <1>1, <2>1 DEF NoRow, Row
<1>5. Idle \in Session
  BY <1>3, <1>4 DEF Idle, Session, Ops, Steps
<1> QED BY <1>2, <1>3, <1>4, <1>5

\* The request of r becomes s.
Moves(r, s) == session' = [session EXCEPT ![r] = s]

\* What a step of the request of r makes of it.
LEMMA RequestMoves ==
    ASSUME SessionTypes, NEW r \in Replicas
    PROVE  /\ \A s : Request(r, s) => Moves(r, s)
           /\ Return(r) => Moves(r, Idle)
           /\ UnsetStart(r) => Moves(r, [session[r] EXCEPT !.seen = Defaults \ {session[r].id},
                                                           !.step = "unsetting"])
           /\ UnsetDefaults(r) => Moves(r, [session[r] EXCEPT
                  !.unset = session[r].seen \cap Defaults, !.step = "write"])
           /\ ClearReferences(r) => Moves(r, [session[r] EXCEPT !.step = "delete"])
<1>1. session \in [Replicas -> Session]
  BY DEF SessionTypes
<1>2. UnsetStart(r) => Moves(r, [session[r] EXCEPT !.seen = Defaults \ {session[r].id},
                                                   !.step = "unsetting"])
  BY <1>1 DEF UnsetStart, Moves, Session
<1>3. UnsetDefaults(r) => Moves(r, [session[r] EXCEPT
          !.unset = session[r].seen \cap Defaults, !.step = "write"])
  BY <1>1 DEF UnsetDefaults, Moves, Session
<1>4. ClearReferences(r) => Moves(r, [session[r] EXCEPT !.step = "delete"])
  BY <1>1 DEF ClearReferences, Moves, Session
<1> QED BY <1>2, <1>3, <1>4 DEF Request, Return, Moves

\* A save of a profile either fails or is ready to commit, under a new id if it had
\* none.
LEMMA WriteMoves ==
    ASSUME SessionTypes, NEW r \in Replicas, WriteProfile(r)
    PROVE  LET s == session[r]
               i == IF s.id = 0 THEN nextId ELSE s.id
           IN \/ /\ s.id # 0 => Exists(i)
                 /\ Unique(r, i, s.row)
                 /\ Moves(r, [s EXCEPT !.id = i, !.step = "commit"])
              \/ Moves(r, Idle)
  BY DEF WriteProfile, SessionTypes, Session, Moves, Return

\* A save of a route or a client goes on with the secret it will write.
LEMMA SecretMoves ==
    ASSUME SessionTypes, NEW r \in Replicas, ReadSecret(r)
    PROVE  LET s == session[r]
               Go(key) == Moves(r, [s EXCEPT !.key = key, !.rev = revision[<<s.op, 0>>],
                                             !.step = "write"])
           IN \/ secrets[s.op].status = "live" /\ Go(KeyToStore(r, secrets[s.op].key))
              \/ secrets[s.op].status # "live" /\ Go(s.key)
              \/ Moves(r, Idle)
  BY DEF ReadSecret, SessionTypes, Session, Moves, Return
-----------------------------------------------------------------------------
(* Types. *)

Types == TypeOK /\ SessionTypes

\* Initially the types hold.
LEMMA TypeInit == Init => Types
<1> SUFFICES ASSUME Init PROVE Types
  OBVIOUS
<1>1. /\ Migrations \in Nat /\ MaxId \in Nat /\ MaxId >= 2 /\ Ids = 1..MaxId
      /\ NoRow \in Row /\ Idle \in Session /\ BootName \in Names /\ Nobody \notin Replicas
      /\ MaxEdits \in Nat /\ MaxFaults \in Nat
  BY StoreConstants
<1>2. /\ applied \subseteq 1..Migrations
      /\ secrets \in [Tables -> [status : {"absent", "live", "deleted"}, key : Nat]]
      /\ nextId \in 1..MaxId + 1
  BY <1>1 DEF Init, Empty, Populated
<1>3. profiles \in [Ids -> Row]
  <2>1. CASE Empty
    BY <1>1, <2>1 DEF Empty
  <2>2. CASE Populated
    <3>1. PICK name \in {input.name : input \in ProfileInputs} \ {BootName} :
              profiles = [i \in Ids |->
                  IF i = 1 THEN [NoRow EXCEPT !.name = BootName, !.default = TRUE]
                  ELSE IF i = 2 THEN [NoRow EXCEPT !.name = name] ELSE NoRow]
      BY <2>2 DEF Populated
    <3>2. name \in Names
      BY DEF Names
    <3>3. /\ [NoRow EXCEPT !.name = BootName, !.default = TRUE] \in Row
          /\ [NoRow EXCEPT !.name = name] \in Row
      BY <1>1, <3>2 DEF Row
    <3> HIDE DEF Row
    <3> QED BY <1>1, <3>1, <3>3
  <2> QED BY <2>1, <2>2 DEF Init
<1>4. SessionTypes
  BY <1>1 DEF Init, SessionTypes
<1>5. TypeOK
  <2>1. effects \in [1..Migrations -> Nat] /\ revision \in [Rows -> Nat]
    BY DEF Init
  <2>2. /\ lock \in Replicas \cup {Nobody}
        /\ pc \in [Replicas -> Starting \cup {"down", "serving"}]
        /\ at \in [Replicas -> 1..Migrations + 1] /\ saw \in [Replicas -> BOOLEAN]
        /\ routeProfile \in 0..MaxId
        /\ budget \in [edits : 0..MaxEdits, faults : 0..MaxFaults]
    BY <1>1 DEF Init
  <2> QED BY <1>2, <1>3, <2>1, <2>2 DEF TypeOK, Row
<1> QED BY <1>4, <1>5 DEF Types

\* The rows that are written.
LEMMA RowNames ==
    /\ \A i \in Ids : <<"profile", i>> \in Rows
    /\ \A t \in Tables : <<t, 0>> \in Rows
  BY DEF Rows, Tables

\* A written row has one revision more.
LEMMA WrittenTypes ==
    ASSUME Types, NEW x \in Rows, Written(x)
    PROVE  /\ revision' \in [Rows -> Nat] /\ revision'[x] = revision[x] + 1
           /\ \A y \in Rows \ {x} : revision'[y] = revision[y]
  BY DEF Types, TypeOK, Written

\* The start of a replica keeps the types.
LEMMA StartTypes ==
    ASSUME Types, MigrationInv, NEW r \in Replicas, StartStep(r)
    PROVE  Types'
<1>1. /\ Migrations \in Nat /\ MaxId \in Nat /\ Ids = 1..MaxId /\ NoRow \in Row
      /\ BootName \in Names /\ MaxId >= 2
  BY StoreConstants
<1> USE DEF Types, TypeOK
<1>2. session' = session
  BY DEF StartStep, Start, AcquireLock, NextMigration, CommitMigration, FinishMigrations,
         BootstrapClient, BootstrapReadDefault, BootstrapProfile
<1>3. pc' \in [Replicas -> Starting \cup {"down", "serving"}]
  <2>1. \A where \in Starting \cup {"down", "serving"} : GoTo(r, where) =>
            pc' \in [Replicas -> Starting \cup {"down", "serving"}]
    BY DEF GoTo
  <2> QED BY <2>1 DEF StartStep, Start, AcquireLock, NextMigration, CommitMigration,
             FinishMigrations, BootstrapClient, BootstrapReadDefault, BootstrapProfile, Starting
<1>4. CASE Start(r)
  BY <1>2, <1>3, <1>4 DEF Start, tableVars, SessionTypes, Session, Row
<1>5. CASE AcquireLock(r)
  <2>1. at' \in [Replicas -> 1..Migrations + 1]
    BY <1>1, <1>5 DEF AcquireLock
  <2> QED BY <1>2, <1>3, <1>5, <2>1 DEF AcquireLock, tableVars, SessionTypes, Session, Row
<1>6. CASE NextMigration(r)
  <2>1. at' \in [Replicas -> 1..Migrations + 1]
    <3>1. CASE at' = [at EXCEPT ![r] = @ + 1] /\ at[r] <= Migrations
      <4>1. at[r] + 1 \in 1..Migrations + 1
        <5>1. at[r] \in 1..Migrations + 1
          OBVIOUS
        <5> HIDE DEF Types, TypeOK
        <5> QED BY <1>1, <3>1, <5>1
      <4> QED BY <3>1, <4>1
    <3> QED BY <1>6, <3>1 DEF NextMigration
  <2> QED BY <1>2, <1>3, <1>6, <2>1 DEF NextMigration, tableVars, SessionTypes, Session, Row
<1>7. CASE FinishMigrations(r)
  BY <1>2, <1>3, <1>7 DEF FinishMigrations, tableVars, SessionTypes, Session, Row
<1>8. CASE BootstrapClient(r)
  <2>1. secrets' \in [Tables -> [status : {"absent", "live", "deleted"}, key : Nat]]
    <3>1. secrets["client"] \in [status : {"absent", "live", "deleted"}, key : Nat]
      BY DEF Tables
    <3>2. [secrets["client"] EXCEPT !.status = "live"]
              \in [status : {"absent", "live", "deleted"}, key : Nat]
      BY <3>1
    <3>3. CASE secrets' = [secrets EXCEPT !["client"].status = "live"]
      <4>1. secrets' = [secrets EXCEPT !["client"] = [secrets["client"] EXCEPT !.status = "live"]]
        BY <3>3
      <4> QED BY <3>2, <4>1
    <3> QED BY <1>8, <3>3 DEF BootstrapClient
  <2>2. revision' \in [Rows -> Nat]
    <3>1. <<"client", 0>> \in Rows
      BY RowNames DEF Tables
    <3> QED BY <1>8, <3>1, WrittenTypes DEF BootstrapClient
  <2> QED BY <1>2, <1>3, <1>8, <2>1, <2>2 DEF BootstrapClient, SessionTypes, Session, Row
<1>9. CASE BootstrapReadDefault(r)
  BY <1>2, <1>3, <1>9 DEF BootstrapReadDefault, tableVars, SessionTypes, Session, Row
<1>10. CASE BootstrapProfile(r)
  <2>1. BootRow(r) \in Row
    BY <1>1 DEF BootRow, Row
  <2>2. profiles' \in [Ids -> Row] /\ nextId' \in 1..MaxId + 1
    <3>1. profiles \in [Ids -> Row]
      BY DEF Row
    <3> HIDE DEF Row, Types, TypeOK
    <3>2. CASE nextId \in Ids /\ profiles' = [profiles EXCEPT ![nextId] = BootRow(r)]
               /\ nextId' = nextId + 1
      BY <1>1, <2>1, <3>1, <3>2
    <3>3. CASE UNCHANGED <<profiles, nextId>>
      BY <3>1, <3>3 DEF Types, TypeOK
    <3> QED BY <1>10, <3>2, <3>3 DEF BootstrapProfile
  <2> QED BY <1>2, <1>3, <1>10, <2>2 DEF BootstrapProfile, SessionTypes, Session, Row
<1>11. CASE CommitMigration(r)
  <2>1. at[r] \in 1..Migrations
    BY <1>11 DEF CommitMigration, MigrationInv
  <2>2. effects' \in [1..Migrations -> Nat]
    BY <1>11, <2>1 DEF CommitMigration
  <2>3. applied' \subseteq 1..Migrations
    BY <1>11, <2>1 DEF CommitMigration
  <2>4. at' \in [Replicas -> 1..Migrations + 1]
    <3>1. at[r] + 1 \in 1..Migrations + 1
      <4> HIDE DEF Types, TypeOK
      <4>1. at[r] \in Int /\ 1 <= at[r] /\ at[r] <= Migrations /\ Migrations \in Int
        BY <1>1, <2>1
      <4>2. at[r] + 1 \in Int /\ 1 <= at[r] + 1 /\ at[r] + 1 <= Migrations + 1
        BY <4>1
      <4> QED BY <4>2
    <3> QED BY <1>11, <3>1 DEF CommitMigration
  <2> QED BY <1>2, <1>3, <1>11, <2>2, <2>3, <2>4
          DEF CommitMigration, tableVars, SessionTypes, Session, Row
<1> QED BY <1>4, <1>5, <1>6, <1>7, <1>8, <1>9, <1>10, <1>11 DEF StartStep

\* A request that becomes one of the right type keeps the types of all.
LEMMA MovesTypes ==
    ASSUME SessionTypes, NEW r \in Replicas, NEW s \in Session, Moves(r, s)
    PROVE  SessionTypes' /\ session'[r] = s /\ \A q \in Replicas \ {r} : session'[q] = session[q]
<1>1. session' \in [Replicas -> Session] /\ session'[r] = s
      /\ \A q \in Replicas \ {r} : session'[q] = session[q]
  <2> HIDE DEF Session
  <2> QED BY DEF SessionTypes, Moves
<1> QED BY <1>1 DEF SessionTypes, Session, Row

\* A secret that is kept or given is a number.
LEMMA KeyTypes ==
    ASSUME Types, NEW r \in Replicas, NEW stored \in Nat
    PROVE  KeyToStore(r, stored) \in Nat
  BY DEF KeyToStore, Types, SessionTypes, Session

\* What a step of a save makes of its request.
LEMMA ReadMoves ==
    ASSUME Types, NEW r \in Replicas, ReadProfile(r)
    PROVE  LET s == session[r]
               key == KeyToStore(r, IF s.id = 0 THEN 0 ELSE profiles[s.id].key)
               rev == IF s.id = 0 THEN 0 ELSE revision[<<"profile", s.id>>]
               step == IF s.row.default THEN "unset" ELSE "write"
           IN \/ Moves(r, Idle)
              \/ /\ s.id = 0 \/ Exists(s.id)
                 /\ key \in Nat /\ rev \in Nat /\ step \in {"unset", "write"}
                 /\ Moves(r, [s EXCEPT !.key = key, !.row.key = key, !.rev = rev, !.step = step])
<1> DEFINE s == session[r]
           key == KeyToStore(r, IF s.id = 0 THEN 0 ELSE profiles[s.id].key)
           rev == IF s.id = 0 THEN 0 ELSE revision[<<"profile", s.id>>]
           step == IF s.row.default THEN "unset" ELSE "write"
<1>1. CASE s.id = 0 \/ Exists(s.id)
  <2>1. (IF s.id = 0 THEN 0 ELSE profiles[s.id].key) \in Nat
    BY <1>1 DEF Exists, Types, TypeOK
  <2>2. key \in Nat
    BY <2>1, KeyTypes
  <2>3. rev \in Nat
    BY <1>1, RowNames DEF Exists, Types, TypeOK
  <2>4. \/ Moves(r, Idle)
        \/ Moves(r, [s EXCEPT !.key = key, !.row.key = key, !.rev = rev, !.step = step])
    BY DEF ReadProfile, Moves, Return
  <2> QED BY <1>1, <2>2, <2>3, <2>4
<1>2. CASE ~(s.id = 0 \/ Exists(s.id))
  BY <1>2 DEF ReadProfile, Moves, Return
<1> QED BY <1>1, <1>2

\* What becomes of a request that goes on is a request.
LEMMA SessionTypesStep ==
    ASSUME Types, NEW r \in Replicas, SessionStep(r)
    PROVE  SessionTypes'
<1> DEFINE s == session[r]
<1>1. s \in Session /\ Idle \in Session /\ MaxId \in Nat /\ Ids = 1..MaxId /\ SessionTypes
  BY StoreConstants DEF Types, SessionTypes
<1>2. Moves(r, Idle) => SessionTypes'
  BY <1>1, MovesTypes
<1>3. CASE ReadProfile(r)
  <2> DEFINE key == KeyToStore(r, IF s.id = 0 THEN 0 ELSE profiles[s.id].key)
             rev == IF s.id = 0 THEN 0 ELSE revision[<<"profile", s.id>>]
             step == IF s.row.default THEN "unset" ELSE "write"
  <2>1. CASE /\ key \in Nat /\ rev \in Nat /\ step \in {"unset", "write"}
             /\ Moves(r, [s EXCEPT !.key = key, !.row.key = key, !.rev = rev, !.step = step])
    <3> HIDE DEF key, rev, step
    <3>1. [s EXCEPT !.key = key, !.row.key = key, !.rev = rev, !.step = step] \in Session
      BY <1>1, <2>1 DEF Session, Row, Steps
    <3> QED BY <1>1, <2>1, <3>1, MovesTypes
  <2> QED BY <1>2, <1>3, <2>1, ReadMoves
<1>4. CASE UnsetStart(r)
  <2>1. [s EXCEPT !.seen = Defaults \ {s.id}, !.step = "unsetting"] \in Session
    BY <1>1 DEF Session, Steps, Defaults
  <2> QED BY <1>1, <1>4, <2>1, RequestMoves, MovesTypes
<1>5. CASE UnsetDefaults(r)
  <2>1. [s EXCEPT !.unset = s.seen \cap Defaults, !.step = "write"] \in Session
    BY <1>1 DEF Session, Steps, Defaults
  <2> QED BY <1>1, <1>5, <2>1, RequestMoves, MovesTypes
<1>6. CASE WriteProfile(r)
  <2> DEFINE i == IF s.id = 0 THEN nextId ELSE s.id
  <2>1. i \in Ids
    BY <1>6 DEF WriteProfile
  <2> HIDE DEF i
  <2>2. [s EXCEPT !.id = i, !.step = "commit"] \in Session
    <3>1. i \in 0..MaxId
      BY <1>1, <2>1
    <3> QED BY <1>1, <3>1 DEF Session, Steps
  <2>3. Moves(r, [s EXCEPT !.id = i, !.step = "commit"]) \/ Moves(r, Idle)
    BY <1>1, <1>6, WriteMoves DEF i
  <2> QED BY <1>1, <1>2, <2>2, <2>3, MovesTypes
<1>7. CASE ClearReferences(r)
  <2>1. [s EXCEPT !.step = "delete"] \in Session
    BY <1>1 DEF Session, Steps
  <2> QED BY <1>1, <1>7, <2>1, RequestMoves, MovesTypes
<1>8. CASE ReadSecret(r)
  <2> DEFINE rev == revision[<<s.op, 0>>]
             Goes(key) == [s EXCEPT !.key = key, !.rev = rev, !.step = "write"]
  <2>1. s.op \in Tables
    BY <1>8 DEF ReadSecret
  <2>2. rev \in Nat /\ secrets[s.op].key \in Nat
    BY <2>1, RowNames DEF Types, TypeOK
  <2>3. KeyToStore(r, secrets[s.op].key) \in Nat /\ s.key \in Nat
    BY <1>1, <2>2, KeyTypes DEF Session
  <2> HIDE DEF rev
  <2>4. \A key \in Nat : Goes(key) \in Session
    BY <1>1, <2>2 DEF Session, Steps
  <2>5. Moves(r, Idle) \/ \E key \in Nat : Moves(r, Goes(key))
    BY <1>1, <1>8, <2>3, SecretMoves DEF rev
  <2> HIDE DEF Goes
  <2> QED BY <1>1, <1>2, <2>4, <2>5, MovesTypes
<1>9. CASE CommitProfile(r) \/ DeleteProfile(r) \/ InsertRoute(r) \/ WriteSecret(r)
  BY <1>1, <1>2, <1>9, RequestMoves DEF CommitProfile, DeleteProfile, InsertRoute, WriteSecret
<1> QED BY <1>3, <1>4, <1>5, <1>6, <1>7, <1>8, <1>9 DEF SessionStep

\* Faults and edits are counted up to their bounds.
LEMMA FaultTypes ==
    ASSUME Types, Fault
    PROVE  budget' \in [edits : 0..MaxEdits, faults : 0..MaxFaults]
<1>1. MaxFaults \in Nat /\ budget \in [edits : 0..MaxEdits, faults : 0..MaxFaults]
  BY StoreConstants DEF Types, TypeOK
<1>2. budget.faults + 1 \in 0..MaxFaults
  BY <1>1 DEF Fault
<1> QED BY <1>1, <1>2 DEF Fault

\* Every step of an administrator's request keeps the types of the tables.
LEMMA SessionStepTypes ==
    ASSUME Types, SessionInv, NEW r \in Replicas, SessionStep(r)
    PROVE  Types'
<1> DEFINE s == session[r]
<1>1. SessionTypes'
  BY SessionTypesStep
<1>2. s \in Session /\ MaxId \in Nat /\ Ids = 1..MaxId /\ NoRow \in Row
  BY StoreConstants DEF Types, SessionTypes
<1>3. TypeOK
  BY DEF Types
<1>4. profiles \in [Ids -> Row]
  BY <1>3 DEF TypeOK, Row
<1>5. UNCHANGED startVars
  BY DEF SessionStep, ReadProfile, UnsetStart, UnsetDefaults, WriteProfile, CommitProfile,
         ClearReferences, DeleteProfile, ReadSecret, InsertRoute, WriteSecret
<1>6. ASSUME profiles' \in [Ids -> Row], nextId' \in 1..MaxId + 1,
             secrets' \in [Tables -> [status : {"absent", "live", "deleted"}, key : Nat]],
             routeProfile' \in 0..MaxId, revision' \in [Rows -> Nat],
             budget' \in [edits : 0..MaxEdits, faults : 0..MaxFaults]
      PROVE  Types'
  BY <1>1, <1>3, <1>5, <1>6 DEF Types, TypeOK, startVars, Row
<1>7. CASE ReadProfile(r) \/ UnsetStart(r) \/ UnsetDefaults(r) \/ ReadSecret(r)
  BY <1>3, <1>4, <1>6, <1>7
     DEF ReadProfile, UnsetStart, UnsetDefaults, ReadSecret, tableVars, TypeOK
<1>8. CASE WriteProfile(r)
  <2>1. nextId' \in 1..MaxId + 1
    <3>1. nextId' = nextId \/ (nextId \in Ids /\ nextId' = nextId + 1)
      BY <1>8 DEF WriteProfile
    <3> QED BY <1>2, <1>3, <3>1 DEF TypeOK
  <2> QED BY <1>3, <1>4, <1>6, <1>8, <2>1 DEF WriteProfile, TypeOK
<1>9. CASE CommitProfile(r)
  <2>1. s.id \in Ids /\ s.row \in Row
    BY <1>2, <1>9 DEF CommitProfile, At, SessionInv, Pending, Session
  <2>2. revision' \in [Rows -> Nat]
    BY <1>9, <2>1, RowNames, WrittenTypes DEF CommitProfile
  <2>3. profiles' \in [Ids -> Row]
    <3>1. \A i \in Ids : [profiles[i] EXCEPT !.default = FALSE] \in Row
      BY <1>4 DEF Row
    <3>2. profiles' = [i \in Ids |->
             IF i = s.id THEN s.row
             ELSE IF i \in s.unset THEN [profiles[i] EXCEPT !.default = FALSE]
             ELSE profiles[i]]
      BY <1>9 DEF CommitProfile
    <3> HIDE DEF Row
    <3> QED BY <1>4, <2>1, <3>1, <3>2
  <2> QED BY <1>3, <1>6, <1>9, <2>2, <2>3 DEF CommitProfile, TypeOK
<1>10. CASE ClearReferences(r)
  <2>1. budget' \in [edits : 0..MaxEdits, faults : 0..MaxFaults]
    BY <1>3, <1>10, FaultTypes DEF ClearReferences, TypeOK
  <2>2. profiles' \in [Ids -> Row]
    <3>1. ASSUME NEW i \in Ids
          PROVE  [profiles[i] EXCEPT !.fallbacks = ArrayRemove(@, s.id)] \in Row
      <4>1. profiles[i].fallbacks \in Seq(Ids)
        BY <1>4 DEF Row
      <4>2. ArrayRemove(profiles[i].fallbacks, s.id) \in Seq(Ids)
        BY <4>1, ArrayRemoveTypes
      <4> QED BY <1>4, <4>2 DEF Row
    <3>2. \/ profiles' = profiles
          \/ profiles' = [i \in Ids |->
                 [profiles[i] EXCEPT !.fallbacks = ArrayRemove(@, s.id)]]
      BY <1>10 DEF ClearReferences
    <3> HIDE DEF Row
    <3> QED BY <1>4, <3>1, <3>2
  <2> QED BY <1>3, <1>6, <1>10, <2>1, <2>2 DEF ClearReferences, TypeOK
<1>11. CASE DeleteProfile(r)
  <2>1. profiles' \in [Ids -> Row]
    BY <1>2, <1>4, <1>11 DEF DeleteProfile
  <2>2. routeProfile' \in 0..MaxId
    BY <1>2, <1>3, <1>11 DEF DeleteProfile, TypeOK
  <2> QED BY <1>3, <1>6, <1>11, <2>1, <2>2 DEF DeleteProfile, TypeOK
<1>12. ASSUME NEW t \in Tables, secrets' = [secrets EXCEPT ![t] = [status |-> "live", key |-> s.key]]
       PROVE  secrets' \in [Tables -> [status : {"absent", "live", "deleted"}, key : Nat]]
  BY <1>2, <1>3, <1>12 DEF TypeOK, Session
<1>13. CASE InsertRoute(r)
  <2>1. secrets' \in [Tables -> [status : {"absent", "live", "deleted"}, key : Nat]]
    BY <1>3, <1>12, <1>13 DEF InsertRoute, TypeOK, Tables
  <2>2. revision' \in [Rows -> Nat]
    BY <1>3, <1>13, RowNames, WrittenTypes DEF InsertRoute, TypeOK, Tables
  <2>3. routeProfile' \in 0..MaxId
    BY <1>2, <1>3, <1>13 DEF InsertRoute, TypeOK, Session
  <2> QED BY <1>3, <1>4, <1>6, <1>13, <2>1, <2>2, <2>3 DEF InsertRoute, TypeOK
<1>14. CASE WriteSecret(r)
  <2>1. secrets' \in [Tables -> [status : {"absent", "live", "deleted"}, key : Nat]]
    BY <1>3, <1>12, <1>14 DEF WriteSecret, TypeOK
  <2>2. revision' \in [Rows -> Nat]
    BY <1>3, <1>14, RowNames, WrittenTypes DEF WriteSecret, TypeOK
  <2>3. routeProfile' \in 0..MaxId
    BY <1>2, <1>3, <1>14 DEF WriteSecret, TypeOK, Session
  <2> QED BY <1>3, <1>4, <1>6, <1>14, <2>1, <2>2, <2>3 DEF WriteSecret, TypeOK
<1> QED BY <1>7, <1>8, <1>9, <1>10, <1>11, <1>13, <1>14 DEF SessionStep

\* What an administrator's request begins as.
Begun(r, s) ==
    /\ s \in Session /\ Request(r, s)
    /\ s.unset = {} /\ s.step # "commit"
    /\ s.op = "profile" => s.step = "read" /\ s.row.name # NoRow.name
    /\ s.op \in Tables /\ s.step = "write" => s.newKey

AdminBegins(r) ==
    \/ AdminSaveAuditProfile(r) \/ AdminDeleteAuditProfile(r)
    \/ AdminSaveRoute(r) \/ AdminSaveTrackingClient(r)

\* Every request begins with what its form allows.
LEMMA RequestsBegin ==
    ASSUME Types, NEW r \in Replicas, AdminBegins(r)
    PROVE  \E s \in Session : Begun(r, s)
<1>1. /\ Idle \in Session /\ NoRow \in Row /\ MaxId \in Nat /\ MaxId >= 2 /\ Ids = 1..MaxId
      /\ GivenKey \in Nat
  <2>1. budget.edits \in Nat
    BY StoreConstants DEF Types, TypeOK
  <2> QED BY <2>1, StoreConstants DEF GivenKey
<1>2. CASE AdminSaveAuditProfile(r)
  <2>1. PICK input \in ProfileInputs :
          /\ ValidateAuditFallbackProfiles(input.id, input.fallbacks)
          /\ Request(r, [Idle EXCEPT !.op = "profile", !.step = "read",
                 !.id = input.id, !.newKey = input.newKey,
                 !.key = IF input.newKey THEN GivenKey ELSE 0,
                 !.row = [name |-> input.name, default |-> input.default,
                          key |-> 0, fallbacks |-> input.fallbacks]])
    BY <1>2 DEF AdminSaveAuditProfile
  <2>2. /\ input.id \in 0..MaxId /\ input.name \in Names /\ input.default \in BOOLEAN
        /\ input.newKey \in BOOLEAN /\ input.name # NoRow.name /\ input.fallbacks \in Seq(Nat)
    BY StoreConstants DEF ProfileInput
  <2>3. input.fallbacks \in Seq(Ids)
    BY <2>1, <2>2 DEF ValidateAuditFallbackProfiles
  <2> DEFINE key == IF input.newKey THEN GivenKey ELSE 0
             row == [name |-> input.name, default |-> input.default,
                     key |-> 0, fallbacks |-> input.fallbacks]
             s == [Idle EXCEPT !.op = "profile", !.step = "read", !.id = input.id,
                      !.newKey = input.newKey, !.key = key, !.row = row]
  <2>4. key \in Nat
    BY <1>1
  <2>5. row \in Row
    BY <2>2, <2>3 DEF Row
  <2>6. row.name # NoRow.name
    BY <2>2
  <2>7. Request(r, s)
    BY <2>1
  <2> HIDE DEF key, row
  <2>8. s \in Session
    BY <1>1, <2>2, <2>4, <2>5 DEF Session, Ops, Steps
  <2>9. s.unset = {} /\ s.step = "read" /\ s.op = "profile" /\ s.row = row
    BY DEF Idle
  <2> HIDE DEF s
  <2> QED BY <2>6, <2>7, <2>8, <2>9 DEF Begun
<1>3. CASE AdminDeleteAuditProfile(r)
  <2>1. PICK i \in Ids : Request(r, [Idle EXCEPT !.op = "delete", !.step = "clear", !.id = i])
    BY <1>3 DEF AdminDeleteAuditProfile
  <2> DEFINE s == [Idle EXCEPT !.op = "delete", !.step = "clear", !.id = i]
  <2>2. s \in Session
    <3>1. i \in 0..MaxId
      BY <1>1
    <3> QED BY <1>1, <3>1 DEF Session, Ops, Steps
  <2>3. s.unset = {} /\ s.step = "clear" /\ s.op = "delete"
    BY DEF Idle
  <2> HIDE DEF s
  <2> QED BY <2>1, <2>2, <2>3 DEF Begun, Tables, s
<1>4. CASE AdminSaveRoute(r)
  <2>1. PICK new \in BOOLEAN, given \in BOOLEAN, profile \in 0..1 :
            Request(r, [Idle EXCEPT !.op = "route",
                   !.step = IF new THEN "insert" ELSE "read", !.newKey = given,
                   !.key = IF given THEN GivenKey ELSE 0, !.id = profile])
    BY <1>4 DEF AdminSaveRoute
  <2> DEFINE key == IF given THEN GivenKey ELSE 0
             step == IF new THEN "insert" ELSE "read"
             s == [Idle EXCEPT !.op = "route", !.step = step, !.newKey = given,
                               !.key = key, !.id = profile]
  <2>2. key \in Nat /\ step \in {"insert", "read"} /\ profile \in 0..MaxId
    BY <1>1
  <2>3. Request(r, s)
    BY <2>1
  <2> HIDE DEF key, step
  <2>4. s \in Session
    BY <1>1, <2>2 DEF Session, Ops, Steps
  <2>5. s.unset = {} /\ s.step = step /\ s.op = "route"
    BY DEF Idle
  <2> HIDE DEF s
  <2> QED BY <2>2, <2>3, <2>4, <2>5 DEF Begun
<1>5. CASE AdminSaveTrackingClient(r)
  <2>1. PICK given \in BOOLEAN :
            Request(r, [Idle EXCEPT !.op = "client",
                !.step = IF given THEN "write" ELSE "read", !.newKey = given,
                !.key = GivenKey])
    BY <1>5 DEF AdminSaveTrackingClient
  <2> DEFINE step == IF given THEN "write" ELSE "read"
             key == GivenKey
             s == [Idle EXCEPT !.op = "client", !.step = step, !.newKey = given,
                               !.key = key]
  <2>2. step \in {"write", "read"} /\ (step = "write" => given)
    OBVIOUS
  <2>3. Request(r, s)
    BY <2>1
  <2>6. key \in Nat
    BY <1>1
  <2> HIDE DEF step, key
  <2>4. s \in Session
    BY <1>1, <2>2, <2>6 DEF Session, Ops, Steps
  <2>5. s.unset = {} /\ s.step = step /\ s.op = "client" /\ s.newKey = given
    BY <1>1 DEF Idle
  <2> HIDE DEF s
  <2> QED BY <2>2, <2>3, <2>4, <2>5 DEF Begun
<1> QED BY <1>2, <1>3, <1>4, <1>5 DEF AdminBegins

\* Every step keeps the types.
LEMMA TypeStep ==
    ASSUME Types, MigrationInv, SessionInv, [Next]_vars
    PROVE  Types'
<1>1. CASE UNCHANGED vars
  BY <1>1 DEF Types, TypeOK, SessionTypes, Session, Row, vars, startVars, tableVars
<1>2. ASSUME NEW r \in Replicas, StartStep(r) PROVE Types'
  BY <1>2, StartTypes
<1>3. ASSUME NEW r \in Replicas, SessionStep(r) PROVE Types'
  BY <1>3, SessionStepTypes
<1>4. ASSUME NEW r \in Replicas, Stop(r) \/ RequestFails(r) PROVE Types'
  <2>1. Moves(r, Idle) /\ UNCHANGED <<applied, effects, at, saw, tableVars>> /\ Fault
    BY <1>4 DEF Stop, RequestFails, Return, Moves, startVars
  <2>2. SessionTypes'
    BY <2>1, MovesTypes, StoreConstants DEF Types
  <2>3. budget' \in [edits : 0..MaxEdits, faults : 0..MaxFaults]
    BY <2>1, FaultTypes
  <2>4. /\ lock' \in Replicas \cup {Nobody}
        /\ pc' \in [Replicas -> Starting \cup {"down", "serving"}]
    BY <1>4 DEF Stop, RequestFails, GoTo, startVars, Types, TypeOK
  <2>5. TypeOK'
    BY <2>1, <2>3, <2>4 DEF Types, TypeOK, tableVars
  <2> QED BY <2>2, <2>5 DEF Types
<1>5. ASSUME NEW r \in Replicas, budget' = [budget EXCEPT !.edits = @ + 1],
             budget.edits < MaxEdits
      PROVE  budget' \in [edits : 0..MaxEdits, faults : 0..MaxFaults]
  <2>1. MaxEdits \in Nat /\ budget \in [edits : 0..MaxEdits, faults : 0..MaxFaults]
    BY StoreConstants DEF Types, TypeOK
  <2>2. budget.edits + 1 \in 0..MaxEdits
    BY <1>5, <2>1
  <2> QED BY <1>5, <2>1, <2>2
<1>6. ASSUME NEW r \in Replicas, AdminBegins(r) PROVE Types'
  <2>1. PICK s \in Session : Request(r, s)
    BY <1>6, RequestsBegin DEF Begun
  <2>2. Moves(r, s) /\ UNCHANGED <<startVars, tableVars>>
    BY <2>1 DEF Request, Moves
  <2>3. SessionTypes'
    BY <2>2, MovesTypes DEF Types
  <2>4. budget' \in [edits : 0..MaxEdits, faults : 0..MaxFaults]
    BY <1>5, <2>1 DEF Request
  <2>5. TypeOK'
    BY <2>2, <2>4 DEF Types, TypeOK, startVars, tableVars
  <2> QED BY <2>3, <2>5 DEF Types
<1>7. ASSUME NEW r \in Replicas, AdminDeleteRoute(r) PROVE Types'
  <2>1. budget' \in [edits : 0..MaxEdits, faults : 0..MaxFaults]
    BY <1>5, <1>7 DEF AdminDeleteRoute
  <2>2. secrets' \in [Tables -> [status : {"absent", "live", "deleted"}, key : Nat]]
    <3>1. [secrets["route"] EXCEPT !.status = "deleted"]
              \in [status : {"absent", "live", "deleted"}, key : Nat]
      BY DEF Types, TypeOK, Tables
    <3>2. secrets' = [secrets EXCEPT !["route"] = [secrets["route"] EXCEPT !.status = "deleted"]]
      BY <1>7 DEF AdminDeleteRoute
    <3> QED BY <3>1, <3>2 DEF Types, TypeOK
  <2>3. TypeOK'
    BY <1>7, <2>1, <2>2 DEF AdminDeleteRoute, Types, TypeOK, startVars
  <2>4. SessionTypes'
    BY <1>7 DEF AdminDeleteRoute, Types, SessionTypes, Session, Row
  <2> QED BY <2>3, <2>4 DEF Types
<1> QED BY <1>1, <1>2, <1>3, <1>4, <1>6, <1>7 DEF Next, AdminBegins
-----------------------------------------------------------------------------
(* The migrations. *)

\* Initially nobody migrates, and a populated database has a prefix of the files.
LEMMA MigrationInit == Init => MigrationInv
<1> SUFFICES ASSUME Init PROVE MigrationInv
  OBVIOUS
<1>1. Migrations \in Nat
  BY StoreConstants
<1>2. applied = {} \/ \E m \in 1..Migrations : applied = 1..m
  BY DEF Init, Empty, Populated
<1>3. \A m \in 1..Migrations : m \in applied => \A n \in 1..m : n \in applied
  BY <1>1, <1>2
<1>4. \A r \in Replicas : pc[r] = "down"
  BY DEF Init
<1>5. \A m \in 1..Migrations : effects[m] = IF m \in applied THEN 1 ELSE 0
  BY DEF Init
<1> QED BY <1>3, <1>4, <1>5 DEF MigrationInv

\* A step that leaves the migrations alone, and moves a replica only between places
\* that say no more of them.
LEMMA MigrationFrame ==
    ASSUME MigrationInv, UNCHANGED <<applied, effects, lock, at>>,
           \A q \in Replicas : \/ pc'[q] = pc[q]
                               \/ pc'[q] \in {"down", "lock"}
                               \/ pc[q] \in {"clients", "profiles", "create", "serving"}
                                  /\ pc'[q] \notin {"migrate", "apply"}
    PROVE  MigrationInv'
  BY DEF MigrationInv

\* Only the holder of the advisory lock applies a migration, in their order, and its
\* end lets the lock go.
LEMMA MigrationStep ==
    ASSUME Types, MigrationInv, [Next]_vars
    PROVE  MigrationInv'
<1>1. /\ Nobody \notin Replicas /\ Migrations \in Nat
      /\ applied \subseteq 1..Migrations /\ at \in [Replicas -> 1..Migrations + 1]
      /\ pc \in [Replicas -> Starting \cup {"down", "serving"}]
      /\ effects \in [1..Migrations -> Nat]
  BY StoreConstants DEF Types, TypeOK
<1>2. ASSUME UNCHANGED startVars PROVE MigrationInv'
  BY <1>2 DEF MigrationInv, startVars
<1>3. ASSUME NEW r \in Replicas, NEW where, GoTo(r, where)
      PROVE  pc'[r] = where /\ \A q \in Replicas \ {r} : pc'[q] = pc[q]
  BY <1>1, <1>3 DEF GoTo
<1>4. ASSUME NEW r \in Replicas, Start(r) PROVE MigrationInv'
  BY <1>3, <1>4, MigrationFrame DEF Start
<1>5. ASSUME NEW r \in Replicas, AcquireLock(r) PROVE MigrationInv'
  <2>1. /\ lock = Nobody /\ lock' = r /\ at'[r] = 1 /\ UNCHANGED <<applied, effects>>
        /\ pc'[r] = "migrate" /\ \A q \in Replicas \ {r} : pc'[q] = pc[q]
    BY <1>1, <1>3, <1>5 DEF AcquireLock
  <2>2. \A q \in Replicas \ {r} : pc'[q] \notin {"migrate", "apply"}
    BY <1>1, <2>1 DEF MigrationInv
  <2>3. \A n \in 1..Migrations : ~(n < 1)
    BY <1>1
  <2> QED BY <2>1, <2>2, <2>3 DEF MigrationInv
<1>6. ASSUME NEW r \in Replicas, NextMigration(r) PROVE MigrationInv'
  <2>1. /\ lock = r /\ at[r] \in 1..Migrations /\ UNCHANGED <<applied, effects, lock>>
        /\ \A q \in Replicas \ {r} : pc'[q] = pc[q] /\ at'[q] = at[q]
        /\ \A n \in 1..Migrations : n < at[r] => n \in applied
    BY <1>1, <1>6 DEF NextMigration, GoTo, MigrationInv
  <2>2. CASE at[r] \in applied /\ at'[r] = at[r] + 1 /\ pc'[r] = "migrate"
    <3>1. \A n \in 1..Migrations : n < at'[r] => n \in applied
      BY <1>1, <2>1, <2>2
    <3> QED BY <2>1, <2>2, <3>1 DEF MigrationInv
  <2>3. CASE at[r] \notin applied /\ at'[r] = at[r] /\ pc'[r] = "apply"
    BY <2>1, <2>3 DEF MigrationInv
  <2> QED BY <1>1, <1>6, <2>2, <2>3 DEF NextMigration, GoTo
<1>7. ASSUME NEW r \in Replicas, CommitMigration(r) PROVE MigrationInv'
  <2> DEFINE m == at[r]
  <2>1. /\ lock = r /\ m \in 1..Migrations /\ m \notin applied /\ lock' = lock
        /\ applied' = applied \cup {m} /\ effects' = [effects EXCEPT ![m] = @ + 1]
        /\ pc'[r] = "migrate" /\ at'[r] = m + 1
        /\ \A q \in Replicas \ {r} : pc'[q] = pc[q] /\ at'[q] = at[q]
        /\ \A n \in 1..Migrations : n < m => n \in applied
    BY <1>1, <1>7 DEF CommitMigration, GoTo, MigrationInv
  <2>2. \A q \in Replicas \ {r} : pc[q] \notin {"migrate", "apply"}
    BY <2>1 DEF MigrationInv
  <2>3. \A q \in Replicas \ {r} : pc[q] \notin {"clients", "profiles", "create", "serving"}
    BY <2>1 DEF MigrationInv
  <2>4. \A n \in 1..Migrations : effects'[n] = IF n \in applied' THEN 1 ELSE 0
    BY <1>1, <2>1 DEF MigrationInv
  <2>5. \A n \in 1..Migrations : n < at'[r] => n \in applied'
    BY <1>1, <2>1
  <2>6. \A n \in 1..Migrations : n \in applied' => \A k \in 1..n : k \in applied'
    BY <1>1, <2>1 DEF MigrationInv
  <2> HIDE DEF m
  <2> QED BY <2>1, <2>2, <2>3, <2>4, <2>5, <2>6 DEF MigrationInv
<1>8. ASSUME NEW r \in Replicas, FinishMigrations(r) PROVE MigrationInv'
  <2>1. /\ lock = r /\ at[r] > Migrations /\ UNCHANGED <<applied, effects, at>>
        /\ pc'[r] = "clients" /\ \A q \in Replicas \ {r} : pc'[q] = pc[q]
        /\ \A n \in 1..Migrations : n < at[r] => n \in applied
    BY <1>1, <1>3, <1>8 DEF FinishMigrations, MigrationInv
  <2>2. \A q \in Replicas \ {r} : pc[q] \notin {"migrate", "apply"}
    BY <2>1 DEF MigrationInv
  <2>3. applied' = 1..Migrations
    <3>1. at[r] \in Int /\ at[r] > Migrations
      BY <1>1, <2>1
    <3>2. \A n \in 1..Migrations : n < at[r]
      BY <1>1, <3>1
    <3>3. 1..Migrations \subseteq applied
      BY <2>1, <3>2
    <3> QED BY <1>1, <2>1, <3>3
  <2> QED BY <2>1, <2>2, <2>3 DEF MigrationInv
<1>9. ASSUME NEW r \in Replicas, BootstrapClient(r) PROVE MigrationInv'
  BY <1>3, <1>9, MigrationFrame DEF BootstrapClient
<1>10. ASSUME NEW r \in Replicas, BootstrapReadDefault(r) PROVE MigrationInv'
  BY <1>3, <1>10, MigrationFrame DEF BootstrapReadDefault
<1>11. ASSUME NEW r \in Replicas, BootstrapProfile(r) PROVE MigrationInv'
  <2>1. GoTo(r, "serving") \/ GoTo(r, "down")
    BY <1>11 DEF BootstrapProfile
  <2>2. UNCHANGED <<applied, effects, lock, at>> /\ pc[r] = "create"
    BY <1>11 DEF BootstrapProfile
  <2> QED BY <1>3, <2>1, <2>2, MigrationFrame
<1>12. ASSUME NEW r \in Replicas, Stop(r) PROVE MigrationInv'
  <2>1. /\ pc'[r] = "down" /\ \A q \in Replicas \ {r} : pc'[q] = pc[q]
        /\ UNCHANGED <<applied, effects, at>>
        /\ \A q \in Replicas \ {r} : lock = q => lock' = q
    BY <1>1, <1>3, <1>12 DEF Stop
  <2> QED BY <2>1 DEF MigrationInv
<1>13. ASSUME NEW r \in Replicas, SessionStep(r) PROVE UNCHANGED startVars
  BY <1>13 DEF SessionStep, ReadProfile, UnsetStart, UnsetDefaults, WriteProfile, CommitProfile,
         ClearReferences, DeleteProfile, ReadSecret, InsertRoute, WriteSecret
<1>14. ASSUME NEW r \in Replicas,
              AdminBegins(r) \/ AdminDeleteRoute(r) \/ RequestFails(r)
       PROVE  UNCHANGED startVars
  BY <1>14 DEF AdminBegins, AdminSaveAuditProfile, AdminDeleteAuditProfile, AdminSaveRoute,
         AdminSaveTrackingClient, AdminDeleteRoute, RequestFails, Request
<1>15. ASSUME NEW r \in Replicas, StartStep(r) PROVE MigrationInv'
  BY <1>4, <1>5, <1>6, <1>7, <1>8, <1>9, <1>10, <1>11, <1>15 DEF StartStep
<1> QED BY <1>2, <1>12, <1>13, <1>14, <1>15 DEF Next, AdminBegins, vars
-----------------------------------------------------------------------------
(* The requests. *)

\* What SessionInv says of one request, when the next id is `next`.
SessionOK(s, next) ==
    /\ s.op = "profile" =>
           /\ s.row.name # NoRow.name
           /\ s.step # "read" => s.id < next
           /\ s.step \in {"unset", "unsetting"} => s.row.default
    /\ s.unset # {} => s.op = "profile" /\ s.row.default
    /\ s.op = "profile" /\ s.step = "commit" => s.id # 0

\* Initially there is no request.
LEMMA SessionInit == Init => SessionInv
<1> SUFFICES ASSUME Init PROVE SessionInv
  OBVIOUS
<1>1. \A r \in Replicas : session[r] = Idle
  BY DEF Init
<1>2. Idle.op = "none" /\ Idle.unset = {}
  BY DEF Idle
<1> QED BY <1>1, <1>2 DEF SessionInv, Pending, At

\* A request of a serving replica that moves to one as SessionInv wants it.
LEMMA SessionMove ==
    ASSUME Types, SessionInv, nextId' >= nextId, nextId' \in Nat,
           NEW r \in Replicas, NEW s, Moves(r, s),
           SessionOK(s, nextId'), pc'[r] = "serving" \/ s = Idle,
           \A q \in Replicas \ {r} : pc'[q] = pc[q]
    PROVE  SessionInv'
<1>1. session'[r] = s /\ \A q \in Replicas \ {r} : session'[q] = session[q]
  BY DEF Moves, Types, SessionTypes
<1>2. ASSUME NEW q \in Replicas \ {r}
      PROVE  /\ pc'[q] # "serving" => session'[q] = Idle
             /\ SessionOK(session'[q], nextId')
  <2>1. session[q].id \in Int /\ nextId \in Int /\ session'[q] = session[q]
    BY <1>1, StoreConstants DEF Types, SessionTypes, Session, TypeOK
  <2> QED BY <2>1 DEF SessionInv, SessionOK, Pending, At
<1>3. \A q \in Replicas : SessionOK(session'[q], nextId') /\ (pc'[q] # "serving" => session'[q] = Idle)
  BY <1>1, <1>2
<1> QED BY <1>3 DEF SessionInv, SessionOK, Pending, At

\* Nobody has a request that is Idle.
LEMMA IdleOK == \A next : SessionOK(Idle, next)
  BY DEF SessionOK, Idle

\* Every step of a request keeps what is said of the requests.
LEMMA SessionInvMoves ==
    ASSUME Types, SessionInv, Fresh, NEW r \in Replicas, SessionStep(r)
    PROVE  SessionInv'
<1> DEFINE s == session[r]
<1>1. /\ s \in Session /\ nextId \in 1..MaxId + 1 /\ nextId \in Nat /\ SessionTypes
      /\ SessionOK(s, nextId) /\ Ids = 1..MaxId
  BY StoreConstants DEF Types, SessionTypes, TypeOK, SessionInv, SessionOK, Pending, At
<1>2. pc' = pc /\ s.op # "none"
  BY DEF SessionStep, ReadProfile, UnsetStart, UnsetDefaults, WriteProfile, CommitProfile,
         ClearReferences, DeleteProfile, ReadSecret, InsertRoute, WriteSecret, startVars, At,
         Tables
<1>3. pc[r] = "serving"
  BY <1>2 DEF SessionInv, Idle
<1>4. nextId' = nextId \/ (WriteProfile(r) /\ nextId' = nextId + 1)
  BY DEF SessionStep, ReadProfile, UnsetStart, UnsetDefaults, WriteProfile, CommitProfile,
         ClearReferences, DeleteProfile, ReadSecret, InsertRoute, WriteSecret, tableVars
<1>5. nextId' \in Nat /\ nextId' >= nextId
  BY <1>1, <1>4
<1>6. ASSUME NEW t, Moves(r, t), SessionOK(t, nextId') PROVE SessionInv'
  BY <1>2, <1>3, <1>5, <1>6, SessionMove
<1>7. Moves(r, Idle) => SessionInv'
  BY <1>6, IdleOK
<1>8. CASE ReadProfile(r)
  <2> DEFINE key == KeyToStore(r, IF s.id = 0 THEN 0 ELSE profiles[s.id].key)
             rev == IF s.id = 0 THEN 0 ELSE revision[<<"profile", s.id>>]
             step == IF s.row.default THEN "unset" ELSE "write"
             t == [s EXCEPT !.key = key, !.row.key = key, !.rev = rev, !.step = step]
  <2>1. CASE (s.id = 0 \/ Exists(s.id)) /\ step \in {"unset", "write"} /\ Moves(r, t)
    <3>1. nextId' = nextId /\ s.op = "profile" /\ s.step = "read"
      BY <1>8 DEF ReadProfile, tableVars, At
    <3>2. s.id < nextId
      <4>1. s.id \in 0..MaxId
        BY <1>1 DEF Session
      <4> QED BY <1>1, <2>1, <4>1 DEF Exists, Fresh
    <3>4. step \in {"unset", "write"} /\ (step = "unset" => s.row.default)
      OBVIOUS
    <3> HIDE DEF key, rev, step
    <3>3. /\ t.op = "profile" /\ t.row.name = s.row.name /\ t.row.default = s.row.default
          /\ t.id = s.id /\ t.unset = s.unset /\ t.step = step
      BY <1>1, <3>1 DEF Session, Row
    <3> HIDE DEF t
    <3>5. SessionOK(t, nextId')
      BY <1>1, <3>1, <3>2, <3>3, <3>4 DEF SessionOK
    <3> QED BY <1>6, <2>1, <3>5
  <2> QED BY <1>7, <1>8, <2>1, ReadMoves
<1>9. CASE UnsetStart(r)
  <2> DEFINE t == [s EXCEPT !.seen = Defaults \ {s.id}, !.step = "unsetting"]
  <2>1. nextId' = nextId /\ s.op = "profile" /\ s.step = "unset"
    BY <1>9 DEF UnsetStart, tableVars, At
  <2>2. t.op = s.op /\ t.row = s.row /\ t.id = s.id /\ t.unset = s.unset /\ t.step = "unsetting"
    BY <1>1 DEF Session
  <2>3. Moves(r, t)
    BY <1>1, <1>9, RequestMoves
  <2> HIDE DEF t
  <2>4. SessionOK(t, nextId')
    BY <1>1, <2>1, <2>2 DEF SessionOK
  <2> QED BY <1>6, <2>3, <2>4
<1>10. CASE UnsetDefaults(r)
  <2> DEFINE t == [s EXCEPT !.unset = s.seen \cap Defaults, !.step = "write"]
  <2>1. nextId' = nextId /\ s.op = "profile" /\ s.step = "unsetting"
    BY <1>10 DEF UnsetDefaults, tableVars, At
  <2>2. t.op = s.op /\ t.row = s.row /\ t.id = s.id /\ t.step = "write"
    BY <1>1 DEF Session
  <2>3. Moves(r, t)
    BY <1>1, <1>10, RequestMoves
  <2>5. s.row.default
    BY <1>1, <2>1 DEF SessionOK
  <2> HIDE DEF t
  <2>4. SessionOK(t, nextId')
    BY <1>1, <2>1, <2>2, <2>5 DEF SessionOK
  <2> QED BY <1>6, <2>3, <2>4
<1>11. CASE WriteProfile(r)
  <2> DEFINE i == IF s.id = 0 THEN nextId ELSE s.id
             t == [s EXCEPT !.id = i, !.step = "commit"]
  <2>1. s.op = "profile" /\ s.step = "write" /\ i \in Ids
        /\ nextId' = IF s.id = 0 THEN nextId + 1 ELSE nextId
    BY <1>11 DEF WriteProfile, At
  <2>2. t.op = s.op /\ t.row = s.row /\ t.id = i /\ t.step = "commit" /\ t.unset = s.unset
    BY <1>1 DEF Session
  <2>3. Moves(r, t) \/ Moves(r, Idle)
    BY <1>1, <1>11, WriteMoves
  <2>4. i < nextId' /\ i # 0
    BY <1>1, <2>1 DEF SessionOK, Session
  <2> HIDE DEF t, i
  <2>5. SessionOK(t, nextId')
    BY <1>1, <2>1, <2>2, <2>4 DEF SessionOK
  <2> QED BY <1>6, <1>7, <2>3, <2>5
<1>12. CASE ClearReferences(r)
  <2> DEFINE t == [s EXCEPT !.step = "delete"]
  <2>1. nextId' = nextId /\ s.op = "delete"
    BY <1>12 DEF ClearReferences, At
  <2>2. t.op = s.op /\ t.unset = s.unset
    BY <1>1 DEF Session
  <2>3. Moves(r, t)
    BY <1>1, <1>12, RequestMoves
  <2> HIDE DEF t
  <2>4. SessionOK(t, nextId')
    BY <1>1, <2>1, <2>2 DEF SessionOK
  <2> QED BY <1>6, <2>3, <2>4
<1>13. CASE ReadSecret(r)
  <2> DEFINE t(key) == [s EXCEPT !.key = key, !.rev = revision[<<s.op, 0>>], !.step = "write"]
  <2>1. s.op \in Tables
    BY <1>13 DEF ReadSecret
  <2>2. \A key : t(key).op = s.op /\ t(key).unset = s.unset
    BY <1>1 DEF Session
  <2>3. Moves(r, Idle) \/ \E key : Moves(r, t(key))
    BY <1>1, <1>13, SecretMoves
  <2> HIDE DEF t
  <2>4. \A key : SessionOK(t(key), nextId')
    BY <1>1, <2>1, <2>2 DEF SessionOK, Tables
  <2> QED BY <1>6, <1>7, <2>3, <2>4
<1>14. CASE CommitProfile(r) \/ DeleteProfile(r) \/ InsertRoute(r) \/ WriteSecret(r)
  BY <1>1, <1>7, <1>14, RequestMoves DEF CommitProfile, DeleteProfile, InsertRoute, WriteSecret
<1> QED BY <1>8, <1>9, <1>10, <1>11, <1>12, <1>13, <1>14 DEF SessionStep

\* Only a replica that serves ever has a request, as SessionInv wants it.
LEMMA SessionInvStep ==
    ASSUME Types, SessionInv, Fresh, [Next]_vars
    PROVE  SessionInv'
<1>1. SessionTypes /\ nextId \in Nat /\ pc \in [Replicas -> Starting \cup {"down", "serving"}]
  BY StoreConstants DEF Types, TypeOK
<1>2. ASSUME pc' = pc, session' = session, nextId' = nextId PROVE SessionInv'
  BY <1>2 DEF SessionInv, Pending, At
<1>3. ASSUME NEW r \in Replicas, StartStep(r) PROVE SessionInv'
  <2>1. /\ session' = session /\ pc[r] # "serving"
        /\ \A q \in Replicas \ {r} : pc'[q] = pc[q]
        /\ nextId' = nextId \/ nextId' = nextId + 1
    BY <1>1, <1>3 DEF StartStep, Start, AcquireLock, NextMigration, CommitMigration,
       FinishMigrations, BootstrapClient, BootstrapReadDefault, BootstrapProfile, GoTo, tableVars
  <2>2. session[r] = Idle
    BY <2>1 DEF SessionInv
  <2>3. Moves(r, Idle)
    BY <1>1, <2>1, <2>2 DEF Moves, SessionTypes
  <2>4. nextId' \in Nat /\ nextId' >= nextId
    BY <1>1, <2>1
  <2> QED BY <2>1, <2>3, <2>4, IdleOK, SessionMove
<1>4. ASSUME NEW r \in Replicas, Stop(r) \/ RequestFails(r) PROVE SessionInv'
  <2>1. /\ Moves(r, Idle) /\ nextId' = nextId
        /\ \A q \in Replicas \ {r} : pc'[q] = pc[q]
    BY <1>1, <1>4 DEF Stop, RequestFails, Return, Moves, GoTo, startVars, tableVars
  <2>2. nextId' \in Nat /\ nextId' >= nextId
    BY <1>1, <2>1
  <2> QED BY <2>1, <2>2, IdleOK, SessionMove
<1>5. ASSUME NEW r \in Replicas, AdminBegins(r) PROVE SessionInv'
  <2>1. PICK s \in Session : Begun(r, s)
    BY <1>5, RequestsBegin
  <2>2. pc'[r] = "serving" /\ pc' = pc /\ nextId' = nextId /\ Moves(r, s)
    BY <2>1 DEF Begun, Request, Moves, startVars, tableVars
  <2>3. SessionOK(s, nextId')
    BY <2>1 DEF Begun, SessionOK
  <2>4. nextId' \in Nat /\ nextId' >= nextId
    BY <1>1, <2>2
  <2> QED BY <2>2, <2>3, <2>4, SessionMove
<1>6. ASSUME NEW r \in Replicas, AdminDeleteRoute(r) PROVE SessionInv'
  BY <1>2, <1>6 DEF AdminDeleteRoute, startVars
<1>7. UNCHANGED vars => SessionInv'
  BY <1>2 DEF vars, startVars, tableVars
<1> QED BY <1>3, <1>4, <1>5, <1>6, <1>7, SessionInvMoves DEF Next, AdminBegins
-----------------------------------------------------------------------------
(* The default. *)

\* Initially the bootstrap profile is the only default, or there is no row.
LEMMA DefaultInit == Init => DefaultInv
<1> SUFFICES ASSUME Init PROVE DefaultInv
  OBVIOUS
<1>1. /\ MaxId \in Nat /\ MaxId >= 2 /\ Ids = 1..MaxId /\ BootName # NoRow.name
      /\ \A input \in ProfileInputs : input.name # NoRow.name
  BY StoreConstants
<1>2. routeProfile = 0 /\ \A r \in Replicas : ~Pending(r)
  BY DEF Init, Pending, At, Idle
<1>0. NoRow.default = FALSE /\ NoRow.name = ""
  BY DEF NoRow
<1>3. CASE Empty
  <2>1. \A i \in Ids : profiles[i] = NoRow
    BY <1>3 DEF Empty
  <2>2. Defaults = {}
    BY <1>0, <2>1 DEF Defaults
  <2> QED BY <1>2, <2>1, <2>2 DEF DefaultInv, Fresh, Named
<1>4. CASE Populated
  <2>1. PICK name \in {input.name : input \in ProfileInputs} \ {BootName} :
            profiles = [i \in Ids |->
                IF i = 1 THEN [NoRow EXCEPT !.name = BootName, !.default = TRUE]
                ELSE IF i = 2 THEN [NoRow EXCEPT !.name = name] ELSE NoRow]
    BY <1>4 DEF Populated
  <2>2. /\ profiles[1].default /\ profiles[1].name = BootName
        /\ ~profiles[2].default /\ profiles[2].name = name /\ name # NoRow.name
        /\ \A i \in Ids \ {1, 2} : profiles[i] = NoRow
    <3>1. name # NoRow.name /\ 1 \in Ids /\ 2 \in Ids
      BY <1>1
    <3>2. /\ [NoRow EXCEPT !.name = BootName, !.default = TRUE].default = TRUE
          /\ [NoRow EXCEPT !.name = BootName, !.default = TRUE].name = BootName
          /\ [NoRow EXCEPT !.name = name].default = FALSE
          /\ [NoRow EXCEPT !.name = name].name = name
      BY DEF NoRow
    <3>3. /\ profiles[1] = [NoRow EXCEPT !.name = BootName, !.default = TRUE]
          /\ profiles[2] = [NoRow EXCEPT !.name = name]
          /\ \A i \in Ids \ {1, 2} : profiles[i] = NoRow
      BY <2>1, <3>1
    <3> QED BY <3>1, <3>2, <3>3
  <2>3. Defaults = {1}
    <3>1. \A i \in Ids : profiles[i].default <=> i = 1
      BY <1>0, <2>2
    <3> QED BY <1>1, <3>1 DEF Defaults
  <2>4. Fresh
    <3>1. nextId = 3
      BY <1>4 DEF Populated
    <3> QED BY <1>1, <2>2, <3>1 DEF Fresh
  <2>5. Named
    BY <1>1, <2>2 DEF Named
  <2> QED BY <1>2, <2>3, <2>4, <2>5 DEF DefaultInv
<1> QED BY <1>3, <1>4 DEF Init

\* A step that makes nothing the default and brings no row near its commit.
LEMMA DefaultFrame ==
    ASSUME DefaultInv, Fresh', Named', Defaults' \subseteq Defaults,
           routeProfile' # 0 => Exists(routeProfile)',
           \A q \in Replicas : session'[q] = session[q] \/ ~Pending(q)'
    PROVE  DefaultInv'
  BY DEF DefaultInv, Pending, At

\* A row that is named, or the default, is a row.
LEMMA RealRows ==
    /\ NoRow.default = FALSE /\ NoRow.name = "" /\ NoRow.fallbacks = <<>>
    /\ \A i \in Ids : Exists(i) <=> profiles[i] # NoRow
    /\ \A i \in Ids : Exists(i)' <=> profiles'[i] # NoRow
    /\ Defaults \subseteq Ids /\ Defaults' \subseteq Ids
  BY DEF NoRow, Exists, Defaults

\* Writing into a row that is not there what it has leaves it as it is.
LEMMA SameRow ==
    /\ [NoRow EXCEPT !.default = FALSE] = NoRow
    /\ [NoRow EXCEPT !.fallbacks = <<>>] = NoRow
<1>1. \A row \in Row : row.default = FALSE => [row EXCEPT !.default = FALSE] = row
  BY DEF Row
<1>2. \A row \in Row : row.fallbacks = <<>> => [row EXCEPT !.fallbacks = <<>>] = row
  BY DEF Row
<1>3. NoRow \in Row
  BY StoreConstants
<1>4. NoRow.default = FALSE /\ NoRow.fallbacks = <<>>
  BY DEF NoRow
<1>5. [NoRow EXCEPT !.default = FALSE] = NoRow
  BY <1>1, <1>3, <1>4, Zenon
<1>6. [NoRow EXCEPT !.fallbacks = <<>>] = NoRow
  BY <1>2, <1>3, <1>4, Zenon
<1> QED BY <1>5, <1>6

\* Bootstrap inserts a default only when there is none and nobody is about to commit
\* one.
LEMMA BootstrapKeepsDefault ==
    ASSUME Types, SessionInv, DefaultInv, NEW r \in Replicas, BootstrapProfile(r)
    PROVE  DefaultInv' /\ Defaults \subseteq Defaults'
<1>1. /\ profiles \in [Ids -> Row] /\ nextId \in 1..MaxId + 1 /\ MaxId \in Nat
      /\ Ids = 1..MaxId /\ NoRow \in Row /\ BootName # NoRow.name
  BY StoreConstants DEF Types, TypeOK, Row
<1>2. session' = session /\ routeProfile' = routeProfile /\ session[r] = Idle
  BY DEF BootstrapProfile, SessionInv
<1>3. Idle.unset = {} /\ Idle.op = "none"
  BY DEF Idle
<1>4. CASE UNCHANGED <<profiles, nextId>>
  <2>1. Defaults' = Defaults /\ Fresh' /\ Named' /\ (routeProfile' # 0 => Exists(routeProfile)')
    BY <1>2, <1>4 DEF DefaultInv, Fresh, Named, Defaults, Exists
  <2> QED BY <1>2, <2>1, DefaultFrame
<1>5. CASE /\ Unique(r, 0, BootRow(r)) /\ nextId \in Ids
           /\ profiles' = [profiles EXCEPT ![nextId] = BootRow(r)]
           /\ nextId' = nextId + 1
  <2> DEFINE row == BootRow(r)
  <2>1. row.name = BootName /\ row.default = ~saw[r] /\ row # NoRow
    BY <1>1 DEF BootRow, NoRow
  <2>2. profiles[nextId] = NoRow
    BY <1>1, <1>5 DEF DefaultInv, Fresh
  <2> HIDE DEF row
  <2>3. profiles'[nextId] = row /\ \A i \in Ids \ {nextId} : profiles'[i] = profiles[i]
    BY <1>1, <1>5 DEF row
  <2>4. Fresh'
    BY <1>1, <1>5, <2>3 DEF DefaultInv, Fresh
  <2>5. Named'
    BY <1>1, <2>1, <2>3 DEF DefaultInv, Named
  <2>6. routeProfile' # 0 => Exists(routeProfile)'
    BY <1>2, <2>1, <2>3 DEF DefaultInv, Exists
  <2>7. CASE saw[r]
    <3>1. Defaults' = Defaults
      BY <1>5, <2>1, <2>2, <2>3, <2>7, RealRows DEF Defaults
    <3> QED BY <1>2, <2>4, <2>5, <2>6, <3>1, DefaultFrame
  <2>8. CASE ~saw[r]
    <3>1. row.default = TRUE
      BY <2>1, <2>8
    <3>2. Defaults = {}
      BY <1>1, <1>2, <1>3, <1>5, <3>1 DEF Unique, row, Defaults
    <3>3. Defaults' = {nextId}
      <4>1. \A i \in Ids : profiles'[i].default <=> i = nextId
        BY <2>3, <3>1, <3>2 DEF Defaults
      <4> QED BY <1>5, <4>1 DEF Defaults
    <3>4. \A q \in Replicas : ~(Pending(q) /\ session[q].row.default)
      <4>1. ~Pending(r)
        BY <1>2, <1>3 DEF Pending, At
      <4>2. ASSUME NEW q \in Replicas \ {r}, Pending(q), session[q].row.default PROVE FALSE
        <5>1. session[q].row \in PendingElsewhere(r)
          BY <4>2 DEF PendingElsewhere, Pending, At
        <5> QED BY <3>1, <4>2, <5>1 DEF BootstrapProfile, MustWait, row
      <4> QED BY <4>1, <4>2
    <3>5. \A q \in Replicas : ~(Pending(q)' /\ session'[q].row.default)
      BY <1>2, <3>4 DEF Pending, At
    <3> QED BY <2>4, <2>5, <2>6, <3>2, <3>3, <3>5 DEF DefaultInv
  <2> QED BY <2>7, <2>8, <1>1 DEF Types, TypeOK
<1> QED BY <1>4, <1>5 DEF BootstrapProfile

\* A save takes the default only with its commit, and from whoever has it; only a save
\* of the default itself can leave none.
LEMMA CommitKeepsDefault ==
    ASSUME Types, SessionInv, DefaultInv, NEW r \in Replicas, CommitProfile(r)
    PROVE  DefaultInv' /\ (Defaults = {} \/ Defaults' # {} \/ ClearsDefault(r))
<1> DEFINE s == session[r]
           id == session[r].id
<1>1. /\ profiles \in [Ids -> Row] /\ nextId \in 1..MaxId + 1 /\ MaxId \in Nat
      /\ Ids = 1..MaxId /\ s \in Session /\ Idle.op = "none"
  BY StoreConstants DEF Types, TypeOK, Row, SessionTypes, Idle
<1>2. /\ Pending(r) /\ id \in Ids /\ id < nextId /\ s.row.name # NoRow.name
      /\ s.unset # {} => s.row.default
  BY <1>1 DEF CommitProfile, SessionInv, Pending, At, Session
<1>3. /\ profiles'[id] = s.row
      /\ \A i \in s.unset \ {id} : i \in Ids => profiles'[i] = [profiles[i] EXCEPT !.default = FALSE]
      /\ \A i \in Ids \ (s.unset \cup {id}) : profiles'[i] = profiles[i]
  BY <1>2 DEF CommitProfile
<1>4. /\ routeProfile' = routeProfile /\ nextId' = nextId /\ session'[r] = Idle
      /\ \A q \in Replicas \ {r} : session'[q] = session[q]
  BY DEF CommitProfile, Return, Types, SessionTypes
<1>5. ~Pending(r)' /\ \A q \in Replicas \ {r} : Pending(q)' <=> Pending(q)
  BY <1>1, <1>4 DEF Pending, At
<1>6. ASSUME NEW i \in Ids
      PROVE  profiles'[i].default <=>
                 IF i = id THEN s.row.default ELSE i \notin s.unset /\ profiles[i].default
  <2>1. CASE i = id
    BY <1>3, <2>1
  <2>2. CASE i # id /\ i \in s.unset
    <3>1. profiles'[i] = [profiles[i] EXCEPT !.default = FALSE] /\ profiles[i] \in Row
      BY <1>1, <1>3, <2>2
    <3>2. profiles'[i].default = FALSE
      BY <3>1 DEF Row
    <3> QED BY <2>2, <3>2
  <2>3. CASE i # id /\ i \notin s.unset
    BY <1>3, <2>3
  <2> QED BY <2>1, <2>2, <2>3
<1>7. ASSUME NEW i \in Ids \ {id}
      PROVE  /\ profiles'[i].name = profiles[i].name
             /\ profiles[i] = NoRow => profiles'[i] = NoRow
  <2>1. CASE i \in s.unset
    <3>1. profiles'[i] = [profiles[i] EXCEPT !.default = FALSE] /\ profiles[i] \in Row
      BY <1>1, <1>3, <2>1
    <3>2. profiles'[i].name = profiles[i].name
      BY <3>1 DEF Row
    <3>3. [NoRow EXCEPT !.default = FALSE] = NoRow
      BY SameRow
    <3> QED BY <3>1, <3>2, <3>3
  <2>2. CASE i \notin s.unset
    BY <1>3, <2>2
  <2> QED BY <2>1, <2>2
<1>8. Named' /\ s.row # NoRow
  <2>1. s.row # NoRow
    BY <1>2
  <2> QED BY <1>2, <1>3, <1>7, <2>1 DEF Named, DefaultInv
<1>9. Fresh'
  BY <1>1, <1>2, <1>4, <1>7 DEF DefaultInv, Fresh
<1>10. routeProfile' # 0 => Exists(routeProfile)'
  <2>1. \A i \in Ids : profiles[i] # NoRow => profiles'[i] # NoRow
    BY <1>2, <1>3, <1>7, <1>8 DEF DefaultInv, Named
  <2> QED BY <1>4, <2>1 DEF DefaultInv, Exists
<1>11. CASE s.row.default
  <2>1. Defaults' = {id}
    <3>1. \A i \in Ids : profiles'[i].default <=> i = id
      BY <1>2, <1>6, <1>11 DEF DefaultInv, Defaults
    <3> QED BY <1>2, <3>1 DEF Defaults
  <2>2. \A q \in Replicas : ~(Pending(q)' /\ session'[q].row.default)
    BY <1>2, <1>4, <1>5, <1>11 DEF DefaultInv
  <2> QED BY <1>8, <1>9, <1>10, <2>1, <2>2 DEF DefaultInv
<1>12. CASE ~s.row.default
  <2>1. \A i \in Ids : profiles'[i].default <=> (i # id /\ profiles[i].default)
    BY <1>2, <1>6, <1>12
  <2>2. Defaults' = Defaults \ {id}
    BY <2>1 DEF Defaults
  <2>3. DefaultInv'
    BY <1>4, <1>5, <1>8, <1>9, <1>10, <2>2, DefaultFrame
  <2> QED BY <1>2, <1>4, <1>12, <2>2, <2>3 DEF ClearsDefault, Pending
<1> QED BY <1>11, <1>12

\* The statements of a delete take the default from nobody: the default itself is not
\* deleted, and the route of the deleted profile has none.
LEMMA DeleteKeepsDefault ==
    ASSUME Types, SessionInv, DefaultInv, NEW r \in Replicas,
           ClearReferences(r) \/ DeleteProfile(r)
    PROVE  DefaultInv' /\ Defaults' = Defaults
<1> DEFINE s == session[r]
           id == session[r].id
<1>1. /\ profiles \in [Ids -> Row] /\ nextId' = nextId
      /\ s.op = "delete" /\ SessionTypes /\ Idle.op = "none" /\ s \in Session
  BY DEF ClearReferences, DeleteProfile, At, Types, TypeOK, Row, SessionTypes, Idle
<1>2. \A q \in Replicas : session'[q] = session[q] \/ ~Pending(q)'
  <2>1. \/ Moves(r, [s EXCEPT !.step = "delete"]) 
        \/ Moves(r, Idle)
    BY <1>1, RequestMoves DEF DeleteProfile
  <2>2. [s EXCEPT !.step = "delete"].op # "profile"
    BY <1>1 DEF Session
  <2>3. \E t : Moves(r, t) /\ t.op # "profile"
    BY <1>1, <2>1, <2>2
  <2> QED BY <1>1, <2>3 DEF Moves, Pending, At, SessionTypes
<1>3. CASE ClearReferences(r)
  <2>1. ASSUME NEW i \in Ids
        PROVE  /\ profiles'[i].name = profiles[i].name
               /\ profiles'[i].default = profiles[i].default
               /\ profiles[i] = NoRow => profiles'[i] = NoRow
    <3>1. CASE UNCHANGED profiles
      BY <3>1
    <3>2. CASE profiles' = [j \in Ids |-> [profiles[j] EXCEPT !.fallbacks = ArrayRemove(@, id)]]
      <4>1. profiles'[i] = [profiles[i] EXCEPT !.fallbacks = ArrayRemove(profiles[i].fallbacks, id)]
        BY <3>2
      <4>2. [NoRow EXCEPT !.fallbacks = ArrayRemove(NoRow.fallbacks, id)] = NoRow
        <5>1. ~Contains(<<>>, id)
          BY DEF Contains
        <5>2. ArrayRemove(NoRow.fallbacks, id) = <<>>
          BY <5>1, RealRows DEF ArrayRemove
        <5> QED BY <5>2, SameRow
      <4>3. profiles[i] \in Row
        BY <1>1
      <4> QED BY <4>1, <4>2, <4>3 DEF Row
    <3> QED BY <1>3, <3>1, <3>2 DEF ClearReferences
  <2>2. Defaults' = Defaults
    BY <2>1 DEF Defaults
  <2>3. Fresh' /\ Named'
    BY <1>1, <2>1 DEF DefaultInv, Fresh, Named
  <2>4. routeProfile' # 0 => Exists(routeProfile)'
    <3>1. routeProfile' = routeProfile
      BY <1>3 DEF ClearReferences
    <3> QED BY <2>1, <3>1, RealRows DEF DefaultInv, Named, Exists
  <2> QED BY <1>2, <2>2, <2>3, <2>4, DefaultFrame
<1>4. CASE DeleteProfile(r)
  <2>1. CASE UNCHANGED <<profiles, routeProfile>>
    <3>1. Defaults' = Defaults /\ Fresh' /\ Named' /\ (routeProfile' # 0 => Exists(routeProfile)')
      BY <1>1, <2>1 DEF DefaultInv, Fresh, Named, Defaults, Exists
    <3> QED BY <1>2, <3>1, DefaultFrame
  <2>2. CASE /\ Deletable(id)
             /\ profiles' = [profiles EXCEPT ![id] = NoRow]
             /\ routeProfile' = IF routeProfile = id THEN 0 ELSE routeProfile
    <3>1. id \in Ids /\ ~profiles[id].default
      BY <2>2 DEF Deletable, Exists
    <3>2. profiles'[id] = NoRow /\ \A i \in Ids \ {id} : profiles'[i] = profiles[i]
      BY <1>1, <2>2, <3>1
    <3>3. Defaults' = Defaults
      <4>1. \A i \in Ids : profiles'[i].default <=> profiles[i].default
        BY <3>1, <3>2, RealRows
      <4> QED BY <4>1 DEF Defaults
    <3>4. Fresh' /\ Named'
      BY <1>1, <3>2 DEF DefaultInv, Fresh, Named
    <3>5. routeProfile' # 0 => Exists(routeProfile)'
      BY <2>2, <3>2 DEF DefaultInv, Exists
    <3> QED BY <1>2, <3>3, <3>4, <3>5, DefaultFrame
  <2> QED BY <1>4, <2>1, <2>2 DEF DeleteProfile
<1> QED BY <1>3, <1>4

\* A save that would take the default waits for whoever else is about to commit one,
\* and fails if there is one that it has not taken the default from.
LEMMA WriteKeepsDefault ==
    ASSUME Types, SessionInv, DefaultInv, NEW r \in Replicas, WriteProfile(r)
    PROVE  DefaultInv'
<1> DEFINE s == session[r]
           i == IF s.id = 0 THEN nextId ELSE s.id
           t == [s EXCEPT !.id = i, !.step = "commit"]
<1>1. /\ SessionTypes /\ s \in Session /\ Idle.op = "none" /\ Ids = 1..MaxId
      /\ nextId \in 1..MaxId + 1 /\ MaxId \in Nat
  BY StoreConstants DEF Types, TypeOK, SessionTypes, Idle
<1>2. UNCHANGED <<profiles, routeProfile>> /\ (nextId' = nextId \/ nextId' = nextId + 1)
  BY DEF WriteProfile
<1>3. Defaults' = Defaults /\ Fresh' /\ Named' /\ (routeProfile' # 0 => Exists(routeProfile)')
  BY <1>1, <1>2 DEF DefaultInv, Fresh, Named, Defaults, Exists
<1>4. CASE Moves(r, Idle)
  <2>1. \A q \in Replicas : session'[q] = session[q] \/ ~Pending(q)'
    BY <1>1, <1>4 DEF Moves, Pending, At, SessionTypes
  <2> QED BY <1>3, <2>1, DefaultFrame
<1>5. CASE Unique(r, i, s.row) /\ Moves(r, t)
  <2>1. t.row = s.row /\ t.unset = s.unset /\ t.id = i
    BY <1>1 DEF Session
  <2>2. session'[r] = t /\ \A q \in Replicas \ {r} : session'[q] = session[q]
    BY <1>1, <1>5 DEF Moves, SessionTypes
  <2>3. ~MustWait(r, i, s.row)
    BY DEF WriteProfile
  <2> HIDE DEF t, i
  <2>4. CASE ~s.row.default
    <3>1. ASSUME NEW q \in Replicas, Pending(q)', session'[q].row.default
          PROVE  q # r /\ Pending(q) /\ session'[q] = session[q]
      BY <2>1, <2>2, <2>4, <3>1 DEF Pending, At
    <3> QED BY <1>3, <3>1 DEF DefaultInv
  <2>5. CASE s.row.default
    <3>1. Defaults \subseteq s.unset \cup {i}
      BY <1>5, <2>5 DEF Unique
    <3>2. ASSUME NEW q \in Replicas \ {r}, Pending(q), session[q].row.default PROVE FALSE
      <4>1. session[q].row \in PendingElsewhere(r)
        BY <3>2 DEF PendingElsewhere, Pending, At
      <4> QED BY <2>3, <2>5, <3>2, <4>1 DEF MustWait
    <3>3. \A q \in Replicas \ {r} : ~(Pending(q)' /\ session'[q].row.default)
      BY <2>2, <3>2 DEF Pending, At
    <3> QED BY <1>3, <2>1, <2>2, <3>1, <3>3 DEF DefaultInv
  <2> QED BY <2>4, <2>5
<1> QED BY <1>1, <1>4, <1>5, WriteMoves

\* A step that leaves the profiles alone: it brings no other row near its commit, and
\* a route that it writes has a profile that exists.
LEMMA OthersKeepDefault ==
    ASSUME Types, SessionInv, DefaultInv, UNCHANGED <<profiles, nextId>>, NEW r \in Replicas,
           NEW s, Moves(r, s), s.step # "commit",
           routeProfile' \in {0, routeProfile} \/ Exists(routeProfile)'
    PROVE  DefaultInv' /\ Defaults' = Defaults
<1>1. Defaults' = Defaults /\ Fresh' /\ Named'
  BY DEF DefaultInv, Fresh, Named, Defaults
<1>2. routeProfile' # 0 => Exists(routeProfile)'
  BY DEF DefaultInv, Exists
<1>3. \A q \in Replicas : session'[q] = session[q] \/ ~Pending(q)'
  BY DEF Moves, Pending, At, Types, SessionTypes
<1> QED BY <1>1, <1>2, <1>3, DefaultFrame

\* Which saves and deletes leave the profiles as they are.
QuietStep(r) ==
    \/ ReadProfile(r) \/ UnsetStart(r) \/ UnsetDefaults(r) \/ ReadSecret(r)
    \/ InsertRoute(r) \/ WriteSecret(r) \/ Stop(r) \/ RequestFails(r) \/ AdminBegins(r)

\* None of them disturbs the default.
LEMMA QuietKeepsDefault ==
    ASSUME Types, SessionInv, DefaultInv, NEW r \in Replicas, QuietStep(r)
    PROVE  DefaultInv' /\ Defaults' = Defaults
<1> DEFINE s == session[r]
<1>1. SessionTypes /\ s \in Session /\ Idle.step = "none"
  BY DEF Types, SessionTypes, Idle
<1>2. UNCHANGED <<profiles, nextId>>
  BY DEF QuietStep, ReadProfile, UnsetStart, UnsetDefaults, ReadSecret, InsertRoute,
         WriteSecret, Stop, RequestFails, AdminBegins, AdminSaveAuditProfile,
         AdminDeleteAuditProfile, AdminSaveRoute, AdminSaveTrackingClient, Request, tableVars
<1>3. routeProfile' \in {0, routeProfile} \/ Exists(routeProfile)'
  <2>1. \/ routeProfile' = routeProfile
        \/ routeProfile' = s.id /\ ProfileIsKnown(s.id)
    BY DEF QuietStep, ReadProfile, UnsetStart, UnsetDefaults, ReadSecret, InsertRoute,
         WriteSecret, Stop, RequestFails, AdminBegins, AdminSaveAuditProfile,
         AdminDeleteAuditProfile, AdminSaveRoute, AdminSaveTrackingClient, Request, tableVars
  <2> QED BY <1>2, <2>1 DEF ProfileIsKnown, Exists
<1>4. \E t : Moves(r, t) /\ t.step # "commit"
  <2>1. CASE ReadProfile(r)
    <3> DEFINE key == KeyToStore(r, IF s.id = 0 THEN 0 ELSE profiles[s.id].key)
               rev == IF s.id = 0 THEN 0 ELSE revision[<<"profile", s.id>>]
               step == IF s.row.default THEN "unset" ELSE "write"
               t == [s EXCEPT !.key = key, !.row.key = key, !.rev = rev, !.step = step]
    <3>1. Moves(r, Idle) \/ Moves(r, t)
      BY <2>1, ReadMoves
    <3>2. step # "commit"
      OBVIOUS
    <3> HIDE DEF key, rev, step
    <3>3. t.step = step
      BY <1>1 DEF Session, Row
    <3> HIDE DEF t
    <3> QED BY <1>1, <3>1, <3>2, <3>3
  <2>2. CASE UnsetStart(r)
    <3> DEFINE t == [s EXCEPT !.seen = Defaults \ {s.id}, !.step = "unsetting"]
    <3>1. Moves(r, t)
      BY <1>1, <2>2, RequestMoves
    <3>2. t.step = "unsetting"
      BY <1>1 DEF Session
    <3> QED BY <3>1, <3>2
  <2>3. CASE UnsetDefaults(r)
    <3> DEFINE t == [s EXCEPT !.unset = s.seen \cap Defaults, !.step = "write"]
    <3>1. Moves(r, t)
      BY <1>1, <2>3, RequestMoves
    <3>2. t.step = "write"
      BY <1>1 DEF Session
    <3> QED BY <3>1, <3>2
  <2>4. CASE ReadSecret(r)
    <3> DEFINE t(key) == [s EXCEPT !.key = key, !.rev = revision[<<s.op, 0>>], !.step = "write"]
    <3>1. Moves(r, Idle) \/ \E key : Moves(r, t(key))
      BY <1>1, <2>4, SecretMoves
    <3>2. \A key : t(key).step = "write"
      BY <1>1 DEF Session
    <3> HIDE DEF t
    <3> QED BY <1>1, <3>1, <3>2
  <2>5. CASE InsertRoute(r) \/ WriteSecret(r) \/ Stop(r) \/ RequestFails(r)
    BY <1>1, <2>5 DEF InsertRoute, WriteSecret, Stop, RequestFails, Return, Moves
  <2>6. CASE AdminBegins(r)
    BY <2>6, RequestsBegin DEF Begun, Request, Moves
  <2> QED BY <2>1, <2>2, <2>3, <2>4, <2>5, <2>6 DEF QuietStep
<1> QED BY <1>2, <1>3, <1>4, OthersKeepDefault

\* Every step keeps the default single, and it only goes with a save that clears it.
LEMMA DefaultStep ==
    ASSUME Types, SessionInv, DefaultInv, [Next]_vars
    PROVE  /\ DefaultInv'
           /\ Defaults = {} \/ Defaults' # {} \/ \E r \in Replicas : ClearsDefault(r)
<1>1. ASSUME UNCHANGED <<profiles, nextId, routeProfile, session>>
      PROVE  DefaultInv' /\ Defaults' = Defaults
  <2>1. Defaults' = Defaults /\ Fresh' /\ Named' /\ (routeProfile' # 0 => Exists(routeProfile)')
    BY <1>1 DEF DefaultInv, Fresh, Named, Defaults, Exists
  <2> QED BY <1>1, <2>1, DefaultFrame
<1>2. CASE UNCHANGED vars
  BY <1>1, <1>2 DEF vars, startVars, tableVars
<1>3. ASSUME NEW r \in Replicas, StartStep(r), ~BootstrapProfile(r)
      PROVE  UNCHANGED <<profiles, nextId, routeProfile, session>>
  BY <1>3 DEF StartStep, Start, AcquireLock, NextMigration, CommitMigration, FinishMigrations,
              BootstrapClient, BootstrapReadDefault, tableVars
<1>4. ASSUME NEW r \in Replicas, AdminDeleteRoute(r)
      PROVE  UNCHANGED <<profiles, nextId, routeProfile, session>>
  BY <1>4 DEF AdminDeleteRoute
<1>5. ASSUME NEW r \in Replicas, WriteProfile(r) PROVE DefaultInv' /\ Defaults' = Defaults
  BY <1>5, WriteKeepsDefault DEF WriteProfile, Defaults
<1>6. ASSUME NEW r \in Replicas, SessionStep(r), ~QuietStep(r)
      PROVE  WriteProfile(r) \/ CommitProfile(r) \/ ClearReferences(r) \/ DeleteProfile(r)
  BY <1>6 DEF SessionStep, QuietStep
<1>7. ASSUME NEW r \in Replicas, AdminBegins(r) \/ Stop(r) \/ RequestFails(r)
      PROVE  QuietStep(r)
  BY <1>7 DEF QuietStep
<1> QED BY <1>1, <1>2, <1>3, <1>4, <1>5, <1>6, <1>7, BootstrapKeepsDefault,
           CommitKeepsDefault, DeleteKeepsDefault, QuietKeepsDefault DEF Next, AdminBegins
-----------------------------------------------------------------------------
(* The secrets. *)

ProfileRow(i) == <<"profile", i>>
TableRow(t) == <<t, 0>>

\* What is stored in a row stays, or the row counts as written, or it goes.
Marked(x) ==
    /\ revision'[x] >= revision[x]
    /\ revision'[x] = revision[x] /\ Present(x)' => Present(x) /\ KeyOf(x)' = KeyOf(x)

\* What a row holds.
LEMMA RowMeans ==
    /\ \A i \in Ids : /\ KeyOf(ProfileRow(i)) = profiles[i].key
                      /\ KeyOf(ProfileRow(i))' = profiles'[i].key
                      /\ Present(ProfileRow(i)) <=> Exists(i)
                      /\ Present(ProfileRow(i))' <=> Exists(i)'
                      /\ ProfileRow(i) \in Rows
    /\ \A t \in Tables : /\ KeyOf(TableRow(t)) = secrets[t].key
                         /\ KeyOf(TableRow(t))' = secrets'[t].key
                         /\ Present(TableRow(t)) <=> secrets[t].status = "live"
                         /\ Present(TableRow(t))' <=> secrets'[t].status = "live"
                         /\ TableRow(t) \in Rows
    /\ \A x \in Rows : (\E i \in Ids : x = ProfileRow(i)) \/ (\E t \in Tables : x = TableRow(t))
    /\ \A i \in Ids, t \in Tables : ProfileRow(i) # TableRow(t)
    /\ \A i, j \in Ids : ProfileRow(i) = ProfileRow(j) => i = j
    /\ \A t, u \in Tables : TableRow(t) = TableRow(u) => t = u
  BY DEF KeyOf, Present, Exists, ProfileRow, TableRow, Rows, Tables

\* Initially nobody has read anything.
LEMMA SecretInit == Init => SecretInv
<1> SUFFICES ASSUME Init PROVE SecretInv
  OBVIOUS
<1>1. \A r \in Replicas : session[r].op = "none"
  BY DEF Init, Idle
<1> QED BY <1>1 DEF SecretInv, KeepsProfileKey, KeepsTableKey, Tables

\* As long as every change of a row is counted, what was read is what is stored or is
\* known to be old.
LEMMA SecretFrame ==
    ASSUME Types, SessionInv, SecretInv,
           revision' \in [Rows -> Nat],
           \A i \in Ids : i < nextId => Marked(ProfileRow(i)),
           \A t \in Tables : Marked(TableRow(t)),
           NEW q \in Replicas, session'[q] = session[q]
    PROVE  KeepsProfileKey(q)' /\ KeepsTableKey(q)'
<1> DEFINE s == session[q]
<1>1. s \in Session /\ revision \in [Rows -> Nat] /\ nextId \in Int /\ Ids = 1..MaxId /\ MaxId \in Nat
  BY StoreConstants DEF Types, SessionTypes, TypeOK
<1>2. KeepsProfileKey(q) /\ KeepsTableKey(q)
  BY DEF SecretInv
<1>3. ASSUME s.op = "profile", s.step # "read", s.id # 0
      PROVE  /\ s.rev <= revision'[ProfileRow(s.id)]
             /\ ~s.newKey /\ Exists(s.id)' =>
                    \/ profiles'[s.id].key = s.key
                    \/ revision'[ProfileRow(s.id)] > s.rev
  <2>1. s.id \in Ids /\ s.id < nextId /\ s.rev \in Nat
    BY <1>1, <1>3 DEF Session, SessionInv
  <2>2. Marked(ProfileRow(s.id)) /\ ProfileRow(s.id) \in Rows
    BY <2>1, RowMeans
  <2>3. revision[ProfileRow(s.id)] \in Nat /\ revision'[ProfileRow(s.id)] \in Nat
    BY <1>1, <2>2
  <2>4. /\ s.rev <= revision[ProfileRow(s.id)]
        /\ ~s.newKey /\ Exists(s.id) =>
               profiles[s.id].key = s.key \/ revision[ProfileRow(s.id)] > s.rev
    BY <1>2, <1>3 DEF KeepsProfileKey, ProfileRow
  <2>5. revision'[ProfileRow(s.id)] >= revision[ProfileRow(s.id)]
    BY <2>2 DEF Marked
  <2>6. CASE revision'[ProfileRow(s.id)] = revision[ProfileRow(s.id)]
    <3>1. Exists(s.id)' => Exists(s.id) /\ profiles'[s.id].key = profiles[s.id].key
      BY <2>1, <2>2, <2>6, RowMeans DEF Marked
    <3> QED BY <2>4, <2>6, <3>1
  <2>7. CASE revision'[ProfileRow(s.id)] # revision[ProfileRow(s.id)]
    BY <2>1, <2>3, <2>4, <2>5, <2>7
  <2> QED BY <2>6, <2>7
<1>4. ASSUME s.op \in Tables, s.step = "write", ~s.newKey
      PROVE  /\ s.rev <= revision'[TableRow(s.op)]
             /\ secrets'[s.op].status = "live" =>
                    secrets'[s.op].key = s.key \/ revision'[TableRow(s.op)] > s.rev
  <2>1. s.rev \in Nat
    BY <1>1 DEF Session
  <2>2. Marked(TableRow(s.op)) /\ TableRow(s.op) \in Rows
    BY <1>4, RowMeans
  <2>3. revision[TableRow(s.op)] \in Nat /\ revision'[TableRow(s.op)] \in Nat
    BY <1>1, <2>2
  <2>4. /\ s.rev <= revision[TableRow(s.op)]
        /\ secrets[s.op].status = "live" =>
               secrets[s.op].key = s.key \/ revision[TableRow(s.op)] > s.rev
    BY <1>2, <1>4 DEF KeepsTableKey, TableRow
  <2>5. revision'[TableRow(s.op)] >= revision[TableRow(s.op)]
    BY <2>2 DEF Marked
  <2>6. CASE revision'[TableRow(s.op)] = revision[TableRow(s.op)]
    <3>1. secrets'[s.op].status = "live" =>
              secrets[s.op].status = "live" /\ secrets'[s.op].key = secrets[s.op].key
      BY <1>4, <2>2, <2>6, RowMeans DEF Marked
    <3> QED BY <2>4, <2>6, <3>1
  <2>7. CASE revision'[TableRow(s.op)] # revision[TableRow(s.op)]
    BY <2>1, <2>3, <2>4, <2>5, <2>7
  <2> QED BY <2>6, <2>7
<1>5. KeepsProfileKey(q)'
  BY <1>2, <1>3 DEF KeepsProfileKey, ProfileRow
<1>6. KeepsTableKey(q)'
  BY <1>4 DEF KeepsTableKey, TableRow
<1> QED BY <1>5, <1>6

\* A row that a step does not touch is marked.
LEMMA Untouched ==
    ASSUME Types, NEW x \in Rows, revision'[x] = revision[x],
           Present(x)' => Present(x) /\ KeyOf(x)' = KeyOf(x)
    PROVE  Marked(x)
<1>1. revision[x] \in Nat
  BY DEF Types, TypeOK
<1> QED BY <1>1 DEF Marked

\* A row that is written is marked.
LEMMA WrittenMarked ==
    ASSUME Types, NEW x \in Rows, Written(x)
    PROVE  /\ Marked(x)
           /\ \A y \in Rows \ {x} : revision'[y] = revision[y]
<1>1. revision[x] \in Nat /\ revision'[x] = revision[x] + 1
      /\ \A y \in Rows \ {x} : revision'[y] = revision[y]
  BY WrittenTypes DEF Types, TypeOK
<1>2. revision'[x] > revision[x]
  BY <1>1
<1> QED BY <1>1, <1>2 DEF Marked

AllMarked ==
    /\ \A i \in Ids : i < nextId => Marked(ProfileRow(i))
    /\ \A t \in Tables : Marked(TableRow(t))

\* A step on audit_profiles that changes no secret of a row without writing it, nor
\* makes one below the sequence.
LEMMA ProfilesMarked ==
    ASSUME Types, UNCHANGED <<secrets, revision>>,
           \A i \in Ids : i < nextId /\ Exists(i)' =>
               Exists(i) /\ profiles'[i].key = profiles[i].key
    PROVE  AllMarked
<1>1. ASSUME NEW i \in Ids, i < nextId PROVE Marked(ProfileRow(i))
  <2>1. Present(ProfileRow(i))' =>
            Present(ProfileRow(i)) /\ KeyOf(ProfileRow(i))' = KeyOf(ProfileRow(i))
    BY <1>1, RowMeans
  <2> QED BY <2>1, RowMeans, Untouched
<1>2. ASSUME NEW t \in Tables PROVE Marked(TableRow(t))
  BY RowMeans, Untouched
<1> QED BY <1>1, <1>2 DEF AllMarked

\* A step on routes or tracking_clients: it writes the row, or what is there stays as
\* it is or goes.
LEMMA TablesMarked ==
    ASSUME Types, UNCHANGED profiles, NEW t \in Tables,
           \A u \in Tables \ {t} : secrets'[u] = secrets[u],
           \/ Written(TableRow(t))
           \/ /\ revision' = revision
              /\ secrets'[t] = secrets[t] \/ secrets'[t].status # "live"
    PROVE  AllMarked
<1>1. \A y \in Rows \ {TableRow(t)} : revision'[y] = revision[y]
  BY RowMeans, WrittenMarked
<1>2. ASSUME NEW i \in Ids PROVE Marked(ProfileRow(i))
  <2>1. ProfileRow(i) \in Rows /\ revision'[ProfileRow(i)] = revision[ProfileRow(i)]
    BY <1>1, RowMeans
  <2>2. Present(ProfileRow(i))' =>
            Present(ProfileRow(i)) /\ KeyOf(ProfileRow(i))' = KeyOf(ProfileRow(i))
    BY RowMeans DEF Exists
  <2> QED BY <2>1, <2>2, Untouched
<1>3. ASSUME NEW u \in Tables \ {t} PROVE Marked(TableRow(u))
  <2>1. TableRow(u) \in Rows /\ revision'[TableRow(u)] = revision[TableRow(u)]
    BY <1>1, RowMeans
  <2>2. Present(TableRow(u))' =>
            Present(TableRow(u)) /\ KeyOf(TableRow(u))' = KeyOf(TableRow(u))
    BY RowMeans
  <2> QED BY <2>1, <2>2, Untouched
<1>4. Marked(TableRow(t))
  <2>1. CASE Written(TableRow(t))
    BY <2>1, RowMeans, WrittenMarked
  <2>2. CASE revision' = revision /\ (secrets'[t] = secrets[t] \/ secrets'[t].status # "live")
    BY <2>2, RowMeans, Untouched
  <2> QED BY <2>1, <2>2
<1> QED BY <1>2, <1>3, <1>4 DEF AllMarked

\* Every step marks the secrets that it changes.
LEMMA StepsMark ==
    ASSUME Types, SessionInv, DefaultInv, [Next]_vars
    PROVE  AllMarked
<1>1. /\ profiles \in [Ids -> Row] /\ nextId \in 1..MaxId + 1 /\ Ids = 1..MaxId /\ MaxId \in Nat
      /\ secrets \in [Tables -> [status : {"absent", "live", "deleted"}, key : Nat]]
  BY StoreConstants DEF Types, TypeOK, Row
<1>2. ASSUME UNCHANGED <<profiles, secrets, revision>> PROVE AllMarked
  BY <1>2, ProfilesMarked DEF Exists
<1>3. CASE UNCHANGED vars
  BY <1>2, <1>3 DEF vars, tableVars
<1>4. ASSUME NEW r \in Replicas, StartStep(r), ~BootstrapProfile(r), ~BootstrapClient(r)
      PROVE  AllMarked
  BY <1>2, <1>4 DEF StartStep, Start, AcquireLock, NextMigration, CommitMigration,
                    FinishMigrations, BootstrapReadDefault, tableVars
<1>5. ASSUME NEW r \in Replicas, BootstrapClient(r) PROVE AllMarked
  <2>1. "client" \in Tables /\ \A u \in Tables \ {"client"} : secrets'[u] = secrets[u]
    BY <1>1, <1>5 DEF BootstrapClient, Tables
  <2>2. UNCHANGED profiles
    BY <1>5 DEF BootstrapClient
  <2>3. Written(TableRow("client")) \/ (revision' = revision /\ secrets' = secrets)
    BY <1>5 DEF BootstrapClient, TableRow
  <2> QED BY <2>1, <2>2, <2>3, TablesMarked
<1>6. ASSUME NEW r \in Replicas, BootstrapProfile(r) PROVE AllMarked
  <2>1. \A i \in Ids : i < nextId => profiles'[i] = profiles[i]
    BY <1>1, <1>6 DEF BootstrapProfile
  <2>2. UNCHANGED <<secrets, revision>>
    BY <1>6 DEF BootstrapProfile
  <2> QED BY <2>1, <2>2, ProfilesMarked DEF Exists
<1>7. ASSUME NEW r \in Replicas, CommitProfile(r) PROVE AllMarked
  <2> DEFINE s == session[r]
             id == session[r].id
  <2>1. id \in Ids /\ s \in Session /\ s.unset \subseteq Ids
    BY <1>1, <1>7 DEF CommitProfile, SessionInv, Pending, At, Session, Types, SessionTypes
  <2>2. Written(ProfileRow(id)) /\ secrets' = secrets
    BY <1>7 DEF CommitProfile, ProfileRow
  <2>3. ProfileRow(id) \in Rows /\ Marked(ProfileRow(id))
        /\ \A y \in Rows \ {ProfileRow(id)} : revision'[y] = revision[y]
    BY <2>1, <2>2, RowMeans, WrittenMarked
  <2>4. ASSUME NEW i \in Ids \ {id}
        PROVE  Exists(i)' => Exists(i) /\ profiles'[i].key = profiles[i].key
    <3>1. CASE i \in s.unset
      <4>1. profiles'[i] = [profiles[i] EXCEPT !.default = FALSE] /\ profiles[i] \in Row
        BY <1>1, <1>7, <3>1 DEF CommitProfile
      <4>2. profiles'[i].key = profiles[i].key
        BY <4>1 DEF Row
      <4>3. profiles[i] = NoRow => profiles'[i] = NoRow
        BY <4>1, SameRow
      <4> QED BY <4>2, <4>3 DEF Exists
    <3>2. CASE i \notin s.unset
      BY <1>7, <3>2 DEF CommitProfile, Exists
    <3> QED BY <3>1, <3>2
  <2>5. ASSUME NEW i \in Ids PROVE Marked(ProfileRow(i))
    <3>1. CASE i # id
      <4>1. ProfileRow(i) \in Rows /\ revision'[ProfileRow(i)] = revision[ProfileRow(i)]
        BY <2>1, <2>3, <3>1, RowMeans
      <4>2. Present(ProfileRow(i))' =>
                Present(ProfileRow(i)) /\ KeyOf(ProfileRow(i))' = KeyOf(ProfileRow(i))
        BY <2>4, <3>1, RowMeans
      <4> QED BY <4>1, <4>2, Untouched
    <3> QED BY <2>3, <3>1
  <2>6. ASSUME NEW t \in Tables PROVE Marked(TableRow(t))
    <3>1. TableRow(t) \in Rows /\ revision'[TableRow(t)] = revision[TableRow(t)]
      BY <2>1, <2>3, RowMeans
    <3>2. Present(TableRow(t))' =>
              Present(TableRow(t)) /\ KeyOf(TableRow(t))' = KeyOf(TableRow(t))
      BY <2>2, RowMeans
    <3> QED BY <3>1, <3>2, Untouched
  <2> QED BY <2>5, <2>6 DEF AllMarked
<1>8. ASSUME NEW r \in Replicas, ClearReferences(r) PROVE AllMarked
  <2>1. UNCHANGED <<secrets, revision>>
    BY <1>8 DEF ClearReferences
  <2>2. ASSUME NEW i \in Ids, Exists(i)'
        PROVE  Exists(i) /\ profiles'[i].key = profiles[i].key
    <3>1. CASE UNCHANGED profiles
      BY <2>2, <3>1 DEF Exists
    <3>2. CASE profiles' = [j \in Ids |->
                   [profiles[j] EXCEPT !.fallbacks = ArrayRemove(@, session[r].id)]]
      <4>1. profiles'[i] = [profiles[i] EXCEPT
                !.fallbacks = ArrayRemove(profiles[i].fallbacks, session[r].id)]
        BY <3>2
      <4>2. profiles'[i].key = profiles[i].key
        BY <1>1, <4>1 DEF Row
      <4>3. ArrayRemove(NoRow.fallbacks, session[r].id) = <<>>
        <5>1. ~Contains(<<>>, session[r].id)
          BY DEF Contains
        <5> QED BY <5>1, RealRows DEF ArrayRemove
      <4>4. profiles[i] = NoRow => profiles'[i] = NoRow
        BY <4>1, <4>3, SameRow
      <4> QED BY <2>2, <4>2, <4>4 DEF Exists
    <3> QED BY <1>8, <3>1, <3>2 DEF ClearReferences
  <2> QED BY <2>1, <2>2, ProfilesMarked
<1>9. ASSUME NEW r \in Replicas, DeleteProfile(r) PROVE AllMarked
  <2>1. UNCHANGED <<secrets, revision>>
    BY <1>9 DEF DeleteProfile
  <2>2. ASSUME NEW i \in Ids, Exists(i)'
        PROVE  Exists(i) /\ profiles'[i].key = profiles[i].key
    <3>1. profiles'[i] = NoRow \/ profiles'[i] = profiles[i]
      BY <1>1, <1>9 DEF DeleteProfile
    <3> QED BY <2>2, <3>1 DEF Exists
  <2> QED BY <2>1, <2>2, ProfilesMarked
<1>10. ASSUME NEW r \in Replicas, InsertRoute(r) \/ WriteSecret(r) PROVE AllMarked
  <2>1. UNCHANGED profiles
    BY <1>10 DEF InsertRoute, WriteSecret
  <2>2. PICK t \in Tables : /\ \A u \in Tables \ {t} : secrets'[u] = secrets[u]
                            /\ Written(TableRow(t)) \/ UNCHANGED <<secrets, revision>>
    BY <1>1, <1>10 DEF InsertRoute, WriteSecret, Tables, TableRow
  <2> QED BY <2>1, <2>2, TablesMarked
<1>11. ASSUME NEW r \in Replicas, AdminDeleteRoute(r) PROVE AllMarked
  <2>1. /\ "route" \in Tables /\ \A u \in Tables \ {"route"} : secrets'[u] = secrets[u]
        /\ secrets'["route"].status # "live" /\ UNCHANGED <<profiles, revision>>
    BY <1>1, <1>11 DEF AdminDeleteRoute, Tables
  <2> QED BY <2>1, TablesMarked
<1>12. ASSUME NEW r \in Replicas,
              \/ ReadProfile(r) \/ UnsetStart(r) \/ UnsetDefaults(r) \/ WriteProfile(r)
              \/ ReadSecret(r) \/ Stop(r) \/ RequestFails(r) \/ AdminBegins(r)
       PROVE  UNCHANGED <<profiles, secrets, revision>>
  BY <1>12 DEF ReadProfile, UnsetStart, UnsetDefaults, WriteProfile, ReadSecret, Stop,
         RequestFails, AdminBegins, AdminSaveAuditProfile, AdminDeleteAuditProfile,
         AdminSaveRoute, AdminSaveTrackingClient, Request, tableVars
<1>13. ASSUME NEW r \in Replicas, SessionStep(r) PROVE AllMarked
  BY <1>2, <1>7, <1>8, <1>9, <1>10, <1>12, <1>13 DEF SessionStep
<1> QED BY <1>2, <1>3, <1>4, <1>5, <1>6, <1>11, <1>12, <1>13 DEF Next, AdminBegins

\* A request that moves on by itself still knows what it read.
LEMMA OwnSecret ==
    ASSUME Types, SessionInv, DefaultInv, SecretInv, NEW r \in Replicas, SessionStep(r)
    PROVE  KeepsProfileKey(r)' /\ KeepsTableKey(r)'
<1> DEFINE s == session[r]
<1>1. /\ s \in Session /\ SessionTypes /\ nextId \in 1..MaxId + 1 /\ Ids = 1..MaxId
      /\ MaxId \in Nat /\ revision \in [Rows -> Nat] /\ Idle.op = "none"
  BY StoreConstants DEF Types, SessionTypes, TypeOK, Idle
<1>2. KeepsProfileKey(r)
  BY DEF SecretInv
<1>3. ASSUME NEW t, Moves(r, t) PROVE session'[r] = t
  BY <1>1, <1>3 DEF Moves, SessionTypes
<1>4. ASSUME NEW t, Moves(r, t), t.op \notin {"profile"} \cup Tables
      PROVE  KeepsProfileKey(r)' /\ KeepsTableKey(r)'
  BY <1>3, <1>4 DEF KeepsProfileKey, KeepsTableKey
<1>5. Moves(r, Idle) => KeepsProfileKey(r)' /\ KeepsTableKey(r)'
  BY <1>1, <1>4 DEF Tables
<1>6. CASE ReadProfile(r)
  <2> DEFINE key == KeyToStore(r, IF s.id = 0 THEN 0 ELSE profiles[s.id].key)
             rev == IF s.id = 0 THEN 0 ELSE revision[<<"profile", s.id>>]
             step == IF s.row.default THEN "unset" ELSE "write"
             t == [s EXCEPT !.key = key, !.row.key = key, !.rev = rev, !.step = step]
  <2>1. UNCHANGED <<profiles, revision>> /\ s.op = "profile"
    BY <1>6 DEF ReadProfile, tableVars, At
  <2>2. CASE Moves(r, t) /\ (s.id = 0 \/ Exists(s.id))
    <3>1. s.id # 0 => key = IF s.newKey THEN s.key ELSE profiles[s.id].key
      BY DEF KeyToStore
    <3>2. s.id # 0 => rev = revision[<<"profile", s.id>>] /\ <<"profile", s.id>> \in Rows
      BY <2>2, RowNames DEF Exists
    <3>3. s.id = 0 => rev = 0
      OBVIOUS
    <3> HIDE DEF key, rev, step
    <3>4. t.op = "profile" /\ t.id = s.id /\ t.newKey = s.newKey /\ t.key = key
          /\ t.row.key = key /\ t.rev = rev
      BY <1>1, <2>1 DEF Session, Row
    <3> HIDE DEF t
    <3>5. session'[r] = t
      BY <1>3, <2>2
    <3>6. s.id # 0 => rev <= revision[<<"profile", s.id>>]
      BY <1>1, <3>2
    <3>7. ~s.newKey /\ s.id # 0 => profiles[s.id].key = key
      BY <3>1
    <3>8. KeepsProfileKey(r)'
      BY <2>1, <3>3, <3>4, <3>5, <3>6, <3>7 DEF KeepsProfileKey
    <3>9. KeepsTableKey(r)'
      BY <3>4, <3>5 DEF KeepsTableKey, Tables
    <3> QED BY <3>8, <3>9
  <2> QED BY <1>5, <1>6, <2>2, ReadMoves
<1>7. ASSUME NEW t, Moves(r, t), s.op = "profile", s.step # "read", t.op = "profile",
             t.id = s.id, t.newKey = s.newKey, t.key = s.key, t.row.key = s.row.key,
             t.rev = s.rev, UNCHANGED <<profiles, revision>>
      PROVE  KeepsProfileKey(r)' /\ KeepsTableKey(r)'
  <2>1. KeepsProfileKey(r)'
    BY <1>2, <1>3, <1>7 DEF KeepsProfileKey, Exists
  <2> QED BY <1>3, <1>7, <2>1 DEF KeepsTableKey, Tables
<1>8. CASE UnsetStart(r)
  <2> DEFINE t == [s EXCEPT !.seen = Defaults \ {s.id}, !.step = "unsetting"]
  <2>1. Moves(r, t) /\ s.op = "profile" /\ s.step = "unset" /\ UNCHANGED <<profiles, revision>>
    BY <1>1, <1>8, RequestMoves DEF UnsetStart, At, tableVars
  <2>2. t.op = s.op /\ t.id = s.id /\ t.newKey = s.newKey /\ t.key = s.key /\ t.row = s.row
        /\ t.rev = s.rev
    BY <1>1 DEF Session
  <2> HIDE DEF t
  <2> QED BY <1>7, <2>1, <2>2
<1>9. CASE UnsetDefaults(r)
  <2> DEFINE t == [s EXCEPT !.unset = s.seen \cap Defaults, !.step = "write"]
  <2>1. Moves(r, t) /\ s.op = "profile" /\ s.step = "unsetting" /\ UNCHANGED <<profiles, revision>>
    BY <1>1, <1>9, RequestMoves DEF UnsetDefaults, At, tableVars
  <2>2. t.op = s.op /\ t.id = s.id /\ t.newKey = s.newKey /\ t.key = s.key /\ t.row = s.row
        /\ t.rev = s.rev
    BY <1>1 DEF Session
  <2> HIDE DEF t
  <2> QED BY <1>7, <2>1, <2>2
<1>10. CASE WriteProfile(r)
  <2> DEFINE i == IF s.id = 0 THEN nextId ELSE s.id
             t == [s EXCEPT !.id = i, !.step = "commit"]
  <2>1. s.op = "profile" /\ s.step = "write" /\ UNCHANGED <<profiles, revision>> /\ i \in Ids
    BY <1>10 DEF WriteProfile, At
  <2>2. t.op = s.op /\ t.id = i /\ t.newKey = s.newKey /\ t.key = s.key /\ t.row = s.row
        /\ t.rev = s.rev
    BY <1>1 DEF Session
  <2>3. Moves(r, t) \/ Moves(r, Idle)
    BY <1>1, <1>10, WriteMoves
  <2>4. CASE s.id # 0 /\ Moves(r, t)
    <3>1. i = s.id
      BY <2>4
    <3> HIDE DEF t, i
    <3> QED BY <1>7, <2>1, <2>2, <2>4, <3>1
  <2>5. CASE s.id = 0 /\ Moves(r, t)
    <3>1. PICK j \in Ids : j = i
      BY <2>1
    <3>2. s.row.key = s.key /\ s.rev = 0
      BY <1>2, <2>1, <2>5 DEF KeepsProfileKey
    <3>3. revision[<<"profile", j>>] \in Nat
      BY <1>1, RowNames
    <3>4. session'[r] = t
      BY <1>3, <2>5
    <3>5. ~Exists(j)' /\ 0 <= revision'[<<"profile", j>>]
      BY <1>1, <2>1, <2>5, <3>1, <3>3 DEF DefaultInv, Fresh, Exists
    <3> HIDE DEF t, i
    <3>6. KeepsProfileKey(r)'
      <4>1. /\ session'[r].id = j /\ j # 0 /\ session'[r].rev = 0
            /\ session'[r].row.key = session'[r].key
        BY <1>1, <2>2, <3>1, <3>2, <3>4
      <4> QED BY <3>5, <4>1 DEF KeepsProfileKey
    <3>7. KeepsTableKey(r)'
      BY <2>1, <2>2, <3>4 DEF KeepsTableKey, Tables
    <3> QED BY <3>6, <3>7
  <2> QED BY <1>5, <2>3, <2>4, <2>5
<1>11. CASE ClearReferences(r)
  <2> DEFINE t == [s EXCEPT !.step = "delete"]
  <2>1. Moves(r, t) /\ s.op = "delete"
    BY <1>1, <1>11, RequestMoves DEF ClearReferences, At
  <2>2. t.op = s.op
    BY <1>1 DEF Session
  <2> HIDE DEF t
  <2> QED BY <1>4, <2>1, <2>2 DEF Tables
<1>12. CASE ReadSecret(r)
  <2> DEFINE t(key) == [s EXCEPT !.key = key, !.rev = revision[<<s.op, 0>>], !.step = "write"]
  <2>1. s.op \in Tables /\ UNCHANGED <<secrets, revision>>
    BY <1>12 DEF ReadSecret, tableVars
  <2>2. \A key : t(key).op = s.op /\ t(key).newKey = s.newKey /\ t(key).key = key
                 /\ t(key).rev = revision[<<s.op, 0>>]
    BY <1>1 DEF Session
  <2>3. \/ \E key : /\ Moves(r, t(key))
                    /\ ~s.newKey /\ secrets[s.op].status = "live" => key = secrets[s.op].key
        \/ Moves(r, Idle)
    BY <1>1, <1>12, SecretMoves DEF KeyToStore
  <2> HIDE DEF t
  <2>4. ASSUME NEW key, Moves(r, t(key)),
               ~s.newKey /\ secrets[s.op].status = "live" => key = secrets[s.op].key
        PROVE  KeepsProfileKey(r)' /\ KeepsTableKey(r)'
    <3>1. session'[r] = t(key)
      BY <1>3, <2>4
    <3>2. revision[<<s.op, 0>>] \in Nat
      BY <1>1, <2>1, RowNames
    <3>3. revision[<<s.op, 0>>] <= revision[<<s.op, 0>>]
      BY <3>2
    <3>4. KeepsTableKey(r)'
      BY <2>1, <2>2, <2>4, <3>1, <3>3 DEF KeepsTableKey
    <3>5. KeepsProfileKey(r)'
      BY <2>1, <2>2, <3>1 DEF KeepsProfileKey, Tables
    <3> QED BY <3>4, <3>5
  <2> QED BY <1>5, <2>3, <2>4
<1>13. CASE CommitProfile(r) \/ DeleteProfile(r) \/ InsertRoute(r) \/ WriteSecret(r)
  BY <1>1, <1>5, <1>13, RequestMoves DEF CommitProfile, DeleteProfile, InsertRoute, WriteSecret
<1> QED BY <1>6, <1>8, <1>9, <1>10, <1>11, <1>12, <1>13 DEF SessionStep

\* Every step keeps what the requests know of the secrets.
LEMMA SecretStep ==
    ASSUME Types, Types', SessionInv, DefaultInv, SecretInv, [Next]_vars
    PROVE  SecretInv'
<1>1. revision' \in [Rows -> Nat] /\ SessionTypes
  BY DEF Types, TypeOK
<1>2. /\ \A i \in Ids : i < nextId => Marked(ProfileRow(i))
      /\ \A t \in Tables : Marked(TableRow(t))
  BY StepsMark DEF AllMarked
<1>3. ASSUME NEW q \in Replicas, session'[q] = session[q]
      PROVE  KeepsProfileKey(q)' /\ KeepsTableKey(q)'
  BY <1>1, <1>2, <1>3, SecretFrame
<1>4. CASE UNCHANGED session
  BY <1>3, <1>4 DEF SecretInv
<1>5. ASSUME NEW r \in Replicas, NEW t, Moves(r, t),
             KeepsProfileKey(r)' /\ KeepsTableKey(r)'
      PROVE  SecretInv'
  <2>1. \A q \in Replicas \ {r} : session'[q] = session[q]
    BY <1>1, <1>5 DEF Moves, SessionTypes
  <2> QED BY <1>3, <1>5, <2>1 DEF SecretInv
<1>6. ASSUME NEW r \in Replicas, SessionStep(r) PROVE SecretInv'
  <2>1. \E t : Moves(r, t)
    BY <1>1, <1>6 DEF SessionStep, ReadProfile, UnsetStart, UnsetDefaults, WriteProfile,
       CommitProfile, ClearReferences, DeleteProfile, ReadSecret, InsertRoute, WriteSecret,
       Return, Moves
  <2> QED BY <1>5, <1>6, <2>1, OwnSecret
<1>7. ASSUME NEW r \in Replicas, Stop(r) \/ RequestFails(r) PROVE SecretInv'
  <2>1. Moves(r, Idle) /\ Idle.op = "none"
    BY <1>7 DEF Stop, RequestFails, Return, Moves, Idle
  <2>2. session'[r] = Idle
    BY <1>1, <2>1 DEF Moves, SessionTypes
  <2>3. KeepsProfileKey(r)' /\ KeepsTableKey(r)'
    BY <2>1, <2>2 DEF KeepsProfileKey, KeepsTableKey, Tables
  <2> QED BY <1>5, <2>1, <2>3
<1>8. ASSUME NEW r \in Replicas, AdminBegins(r) PROVE SecretInv'
  <2>1. PICK s \in Session : Begun(r, s)
    BY <1>8, RequestsBegin
  <2>2. Moves(r, s)
    BY <2>1 DEF Begun, Request, Moves
  <2>3. session'[r] = s
    BY <1>1, <2>2 DEF Moves, SessionTypes
  <2>4. KeepsProfileKey(r)' /\ KeepsTableKey(r)'
    BY <2>1, <2>3 DEF Begun, KeepsProfileKey, KeepsTableKey
  <2> QED BY <1>5, <2>2, <2>4
<1>9. ASSUME NEW r \in Replicas, StartStep(r) \/ AdminDeleteRoute(r) PROVE UNCHANGED session
  BY <1>9 DEF StartStep, Start, AcquireLock, NextMigration, CommitMigration, FinishMigrations,
         BootstrapClient, BootstrapReadDefault, BootstrapProfile, AdminDeleteRoute
<1> QED BY <1>4, <1>6, <1>7, <1>8, <1>9 DEF Next, AdminBegins, vars
-----------------------------------------------------------------------------
(* The theorems. *)

\* Initially the invariant holds.
LEMMA IInvInit == Init => IInv
  BY TypeInit, MigrationInit, SessionInit, DefaultInit, SecretInit DEF IInv, Types

\* Every step keeps it.
LEMMA IInvStep == IInv /\ [Next]_vars => IInv'
<1> SUFFICES ASSUME IInv, [Next]_vars PROVE IInv'
  OBVIOUS
<1>1. Types /\ MigrationInv /\ SessionInv /\ DefaultInv /\ SecretInv /\ Fresh
  BY DEF IInv, Types, DefaultInv
<1>2. Types'
  BY <1>1, TypeStep
<1>3. MigrationInv' /\ SessionInv' /\ DefaultInv'
  BY <1>1, MigrationStep, SessionInvStep, DefaultStep
<1>4. SecretInv'
  BY <1>1, <1>2, SecretStep
<1> QED BY <1>2, <1>3, <1>4 DEF IInv, Types

\* It holds of every reachable state.
LEMMA Invariant == Spec => []IInv
  BY IInvInit, IInvStep, PTL DEF Spec

\* Store.Migrate: any number of replicas that start, crash and start again together
\* apply each migration once and in order, and none serves before the last.
THEOREM MigrationsAreAppliedOnce == Spec => []MigrationsApplyOnce
<1>1. IInv => MigrationsApplyOnce
  BY DEF IInv, MigrationInv, MigrationsApplyOnce
<1> QED BY <1>1, Invariant, PTL

\* The part of DefaultIsKept about one step.
KeepsDefault ==
    /\ Cardinality(Defaults') <= 1
    /\ Defaults # {} =>
           \/ \E r \in Replicas : ClearsDefault(r)
           \/ /\ Defaults' # {}
              /\ GetAuditProfile' # 0 /\ profiles'[GetAuditProfile'] # NoRow

\* SaveAuditProfile, DeleteAuditProfile, Bootstrap: however many administrators save
\* and delete profiles while replicas bootstrap, there are never two defaults, and
\* none goes unless a save of it clears it.
THEOREM TheDefaultIsKept == Spec => DefaultIsKept
<1>1. IInv /\ [Next]_vars => KeepsDefault
  <2> SUFFICES ASSUME IInv, [Next]_vars PROVE KeepsDefault
    OBVIOUS
  <2>1. /\ DefaultInv'
        /\ Defaults = {} \/ Defaults' # {} \/ \E r \in Replicas : ClearsDefault(r)
    BY DefaultStep DEF IInv, Types
  <2>2. Cardinality(Defaults') <= 1
    <3>1. CASE Defaults' = {}
      BY <3>1, FS_EmptySet
    <3>2. CASE Defaults' # {}
      <4>1. PICK i \in Defaults' : Defaults' = {i}
        BY <2>1, <3>2 DEF DefaultInv
      <4> QED BY <4>1, FS_Singleton
    <3> QED BY <3>1, <3>2
  <2>3. ASSUME Defaults' # {}
        PROVE  GetAuditProfile' # 0 /\ profiles'[GetAuditProfile'] # NoRow
    <3>1. CASE routeProfile' # 0
      BY <2>1, <3>1 DEF GetAuditProfile, DefaultInv, Exists
    <3>2. CASE routeProfile' = 0
      <4>1. GetAuditProfile' \in Defaults'
        BY <2>3, <3>2 DEF GetAuditProfile
      <4>2. GetAuditProfile' \in Ids /\ profiles'[GetAuditProfile'].default
        BY <4>1 DEF Defaults
      <4>3. 0 \notin Ids
        BY StoreConstants
      <4> QED BY <4>2, <4>3, RealRows
    <3> QED BY <3>1, <3>2
  <2> QED BY <2>1, <2>2, <2>3 DEF KeepsDefault
<1> QED BY <1>1, Invariant, PTL DEF Spec, DefaultIsKept, KeepsDefault

\* The part of SecretsAreKept about one step.
KeepsSecrets ==
    \A x \in Rows :
        Present(x) /\ Present(x)' /\ KeyOf(x)' # KeyOf(x) =>
            \E r \in Replicas :
                /\ Writes(r, x)
                /\ \/ session[r].newKey /\ KeyOf(x)' = session[r].key
                   \/ revision[x] > session[r].rev

\* A profile's secret changes only with the commit of a save of that profile.
LEMMA ProfileSecretsAreKept ==
    ASSUME IInv, [Next]_vars, NEW i \in Ids, Exists(i), Exists(i)',
           profiles'[i].key # profiles[i].key
    PROVE  \E r \in Replicas :
               /\ Pending(r) /\ session[r].id = i
               /\ \/ session[r].newKey /\ profiles'[i].key = session[r].key
                  \/ revision[ProfileRow(i)] > session[r].rev
<1>1. /\ Types /\ SessionInv /\ DefaultInv /\ SecretInv /\ profiles \in [Ids -> Row]
      /\ Ids = 1..MaxId /\ MaxId \in Nat /\ nextId \in 1..MaxId + 1
  BY StoreConstants DEF IInv, Types, TypeOK, Row
<1>2. profiles' # profiles
  OBVIOUS
<1>3. PICK r \in Replicas : BootstrapProfile(r) \/ CommitProfile(r) \/ ClearReferences(r)
                            \/ DeleteProfile(r)
  <2>1. ~UNCHANGED vars
    BY <1>2 DEF vars, tableVars
  <2>2. ASSUME NEW r \in Replicas, StartStep(r) PROVE BootstrapProfile(r)
    BY <1>2, <2>2 DEF StartStep, Start, AcquireLock, NextMigration, CommitMigration,
       FinishMigrations, BootstrapClient, BootstrapReadDefault, tableVars
  <2>3. ASSUME NEW r \in Replicas, SessionStep(r)
        PROVE  CommitProfile(r) \/ ClearReferences(r) \/ DeleteProfile(r)
    BY <1>2, <2>3 DEF SessionStep, ReadProfile, UnsetStart, UnsetDefaults, WriteProfile,
       ReadSecret, InsertRoute, WriteSecret, tableVars
  <2>4. ASSUME NEW r \in Replicas,
               Stop(r) \/ RequestFails(r) \/ AdminBegins(r) \/ AdminDeleteRoute(r)
        PROVE  FALSE
    BY <1>2, <2>4 DEF Stop, RequestFails, AdminBegins, AdminSaveAuditProfile,
       AdminDeleteAuditProfile, AdminSaveRoute, AdminSaveTrackingClient, AdminDeleteRoute,
       Request, tableVars
  <2> QED BY <2>1, <2>2, <2>3, <2>4 DEF Next, AdminBegins
<1>4. CASE BootstrapProfile(r)
  <2>1. i < nextId
    BY <1>1 DEF DefaultInv, Fresh, Exists
  <2>2. profiles'[i] = profiles[i]
    BY <1>1, <1>4, <2>1 DEF BootstrapProfile
  <2> QED BY <2>2
<1>5. CASE ClearReferences(r)
  <2>1. profiles'[i].key = profiles[i].key
    <3>1. \/ profiles' = profiles
          \/ profiles' = [j \in Ids |->
                 [profiles[j] EXCEPT !.fallbacks = ArrayRemove(@, session[r].id)]]
      BY <1>5 DEF ClearReferences
    <3> QED BY <1>1, <3>1 DEF Row
  <2> QED BY <2>1
<1>6. CASE DeleteProfile(r)
  <2>1. profiles'[i] = profiles[i] \/ profiles'[i] = NoRow
    BY <1>1, <1>6 DEF DeleteProfile
  <2> QED BY <2>1 DEF Exists
<1>7. CASE CommitProfile(r)
  <2> DEFINE s == session[r]
  <2>1. i = s.id
    <3>1. CASE i # s.id /\ i \in s.unset
      <4>1. profiles'[i] = [profiles[i] EXCEPT !.default = FALSE]
        BY <1>7, <3>1 DEF CommitProfile
      <4>2. profiles'[i].key = profiles[i].key
        BY <1>1, <4>1 DEF Row
      <4> QED BY <4>2
    <3>2. CASE i # s.id /\ i \notin s.unset
      BY <1>7, <3>2 DEF CommitProfile
    <3> QED BY <3>1, <3>2
  <2>2. Pending(r) /\ s.op = "profile" /\ s.step = "commit" /\ profiles'[i] = s.row
    BY <1>7, <2>1 DEF CommitProfile, Pending, At
  <2>3. KeepsProfileKey(r) /\ i # 0
    BY <1>1 DEF SecretInv
  <2>4. /\ s.row.key = s.key
        /\ ~s.newKey => profiles[i].key = s.key \/ revision[ProfileRow(i)] > s.rev
    BY <2>1, <2>2, <2>3 DEF KeepsProfileKey, ProfileRow
  <2>5. s.newKey \in BOOLEAN
    BY <1>1 DEF Types, SessionTypes, Session
  <2> QED BY <2>1, <2>2, <2>4, <2>5
<1> QED BY <1>3, <1>4, <1>5, <1>6, <1>7

\* The secret of the route or of the client changes only with a save of it.
LEMMA TableSecretsAreKept ==
    ASSUME IInv, [Next]_vars, NEW t \in Tables, secrets[t].status = "live",
           secrets'[t].status = "live", secrets'[t].key # secrets[t].key
    PROVE  \E r \in Replicas :
               /\ session[r].step = "write" /\ session[r].op = t
               /\ \/ session[r].newKey /\ secrets'[t].key = session[r].key
                  \/ revision[TableRow(t)] > session[r].rev
<1>1. /\ Types /\ SecretInv
      /\ secrets \in [Tables -> [status : {"absent", "live", "deleted"}, key : Nat]]
  BY DEF IInv, Types, TypeOK
<1>2. secrets' # secrets
  OBVIOUS
<1>3. PICK r \in Replicas : BootstrapClient(r) \/ InsertRoute(r) \/ WriteSecret(r)
                            \/ AdminDeleteRoute(r)
  <2>1. ~UNCHANGED vars
    BY <1>2 DEF vars, tableVars
  <2>2. ASSUME NEW r \in Replicas, StartStep(r) PROVE BootstrapClient(r)
    BY <1>2, <2>2 DEF StartStep, Start, AcquireLock, NextMigration, CommitMigration,
       FinishMigrations, BootstrapProfile, BootstrapReadDefault, tableVars
  <2>3. ASSUME NEW r \in Replicas, SessionStep(r) PROVE InsertRoute(r) \/ WriteSecret(r)
    BY <1>2, <2>3 DEF SessionStep, ReadProfile, UnsetStart, UnsetDefaults, WriteProfile,
       CommitProfile, ClearReferences, DeleteProfile, ReadSecret, tableVars
  <2>4. ASSUME NEW r \in Replicas, Stop(r) \/ RequestFails(r) \/ AdminBegins(r)
        PROVE  FALSE
    BY <1>2, <2>4 DEF Stop, RequestFails, AdminBegins, AdminSaveAuditProfile,
       AdminDeleteAuditProfile, AdminSaveRoute, AdminSaveTrackingClient, Request, tableVars
  <2> QED BY <2>1, <2>2, <2>3, <2>4 DEF Next, AdminBegins
<1>4. CASE BootstrapClient(r)
  <2>1. secrets' = [secrets EXCEPT !["client"].status = "live"]
    BY <1>2, <1>4 DEF BootstrapClient
  <2>2. secrets'[t].key = secrets[t].key
    BY <1>1, <2>1
  <2> QED BY <2>2
<1>5. CASE InsertRoute(r)
  BY <1>1, <1>5 DEF InsertRoute
<1>6. CASE AdminDeleteRoute(r)
  BY <1>1, <1>6 DEF AdminDeleteRoute
<1>7. CASE WriteSecret(r)
  <2> DEFINE s == session[r]
  <2>1. s.op = t /\ s.step = "write" /\ secrets'[t].key = s.key
    BY <1>1, <1>2, <1>7 DEF WriteSecret
  <2>2. ~s.newKey => secrets[t].key = s.key \/ revision[TableRow(t)] > s.rev
    BY <1>1, <2>1 DEF SecretInv, KeepsTableKey, TableRow
  <2>3. s.newKey \in BOOLEAN
    BY <1>1 DEF Types, SessionTypes, Session
  <2> QED BY <2>1, <2>2, <2>3
<1> QED BY <1>3, <1>4, <1>5, <1>6, <1>7

\* SaveAuditProfile, SaveRoute, SaveTrackingClient, Bootstrap: a stored secret changes
\* only to one that is given for it, but for the save that was overtaken.
THEOREM StoredSecretsAreKept == Spec => SecretsAreKept
<1>1. IInv /\ [Next]_vars => KeepsSecrets
  <2> SUFFICES ASSUME IInv, [Next]_vars,
                      NEW x \in Rows, Present(x), Present(x)', KeyOf(x)' # KeyOf(x)
               PROVE  \E r \in Replicas :
                          /\ Writes(r, x)
                          /\ \/ session[r].newKey /\ KeyOf(x)' = session[r].key
                             \/ revision[x] > session[r].rev
    BY DEF KeepsSecrets
  <2>1. ASSUME NEW i \in Ids, x = ProfileRow(i)
        PROVE  \E r \in Replicas :
                   /\ Writes(r, x)
                   /\ \/ session[r].newKey /\ KeyOf(x)' = session[r].key
                      \/ revision[x] > session[r].rev
    <3>1. Exists(i) /\ Exists(i)' /\ KeyOf(x)' = profiles'[i].key /\ KeyOf(x) = profiles[i].key
      BY <2>1, RowMeans
    <3>2. PICK r \in Replicas :
              /\ Pending(r) /\ session[r].id = i
              /\ \/ session[r].newKey /\ profiles'[i].key = session[r].key
                 \/ revision[ProfileRow(i)] > session[r].rev
      BY <3>1, ProfileSecretsAreKept
    <3>3. Writes(r, x)
      BY <2>1, <3>2 DEF Writes, Pending, ProfileRow
    <3> QED BY <2>1, <3>1, <3>2, <3>3
  <2>2. ASSUME NEW t \in Tables, x = TableRow(t)
        PROVE  \E r \in Replicas :
                   /\ Writes(r, x)
                   /\ \/ session[r].newKey /\ KeyOf(x)' = session[r].key
                      \/ revision[x] > session[r].rev
    <3>1. /\ secrets[t].status = "live" /\ secrets'[t].status = "live"
          /\ KeyOf(x)' = secrets'[t].key /\ KeyOf(x) = secrets[t].key
      BY <2>2, RowMeans
    <3>2. PICK r \in Replicas :
              /\ session[r].step = "write" /\ session[r].op = t
              /\ \/ session[r].newKey /\ secrets'[t].key = session[r].key
                 \/ revision[TableRow(t)] > session[r].rev
      BY <3>1, TableSecretsAreKept
    <3>3. Writes(r, x)
      BY <2>2, <3>2 DEF Writes, TableRow
    <3> QED BY <2>2, <3>1, <3>2, <3>3
  <2> QED BY <2>1, <2>2, RowMeans
<1> QED BY <1>1, Invariant, PTL DEF Spec, SecretsAreKept, KeepsSecrets
-----------------------------------------------------------------------------
(* The caches that the replicas keep of it. *)

USE ConfigCacheAssumption

\* The time the entry was filled from is a TTL before it expires, it is not in the
\* future, and the entry was not replaced before it.
EntryDated(r) ==
    entry[r] # Nothing =>
        /\ expires[r] <= clock + TTL
        /\ entry[r] = version \/ replaced[entry[r]] + TTL >= expires[r]

\* What the lookup is about to store was not replaced before the lookup began;
\* until it has read it has found nothing.
ReadDated(l) ==
    /\ now[l] <= clock
    /\ cachePc[l] \in {"probe", "read"} => found[l] = Nothing
    /\ cachePc[l] = "fill" => found[l] = version \/ replaced[found[l]] >= now[l]

\* BoundedStaleness, for one lookup.
NotStale(l) ==
    Returned(l) => found[l] = version \/ replaced[found[l]] + TTL > now[l]

Dated == /\ \A r \in Caches : EntryDated(r)
         /\ \A l \in Lookups : ReadDated(l) /\ NotStale(l)

CacheInv == CacheTypeOK /\ Dated

\* The caches start empty and no lookup has begun.
LEMMA CacheInvInit ==
    ASSUME CacheInit
    PROVE  CacheInv
BY DEF ConfigCacheAssumption, CacheInit, CacheInv, CacheTypeOK, Dated, EntryDated, ReadDated, NotStale, Returned,
       Versions, Nothing

\* Every step of a lookup, of an administrator or of the clock keeps the types.
LEMMA CacheTypeStep ==
    ASSUME CacheTypeOK, [CacheNext]_configVars
    PROVE  CacheTypeOK'
<1> USE DEF ConfigCacheAssumption, CacheTypeOK, Versions, Nothing
<1>1. CASE Tick
    BY <1>1 DEF Tick, storeVars, cacheVars, lookupVars
<1>2. ASSUME NEW l \in Lookups, Lookup(l) PROVE CacheTypeOK'
    <2>1. CASE Begin(l)
        BY <2>1 DEF Begin, storeVars, cacheVars
    <2>2. CASE Probe(l)
        BY <2>2 DEF Probe, Hit, storeVars, cacheVars
    <2>3. CASE Read(l)
        <3>1. UNCHANGED <<clock, version, deleted, replaced, entry, expires,
                          admin, now>>
            BY <2>3 DEF Read, storeVars, cacheVars
        <3>2. found' \in [Lookups -> Versions \cup {Nothing}]
            BY <2>3 DEF Read
        <3>3. cachePc' \in [Lookups -> {"idle", "probe", "read", "fill", "done"}]
            BY <2>3 DEF Read
        <3>4. (\A m \in Lookups : cachePc[m] = "fill" => found[m] # Nothing)'
            BY <2>3 DEF Read
        <3> QED
            BY <3>1, <3>2, <3>3, <3>4
    <2>4. CASE ReadFails(l)
        BY <2>4 DEF ReadFails, storeVars, cacheVars
    <2>5. CASE Fill(l)
        <3>1. UNCHANGED <<clock, version, deleted, replaced, admin, now, found>>
            BY <2>5 DEF Fill, storeVars
        <3>2. entry' \in [Caches -> Versions \cup {Nothing}]
            BY <2>5 DEF Fill
        <3>3. expires' \in [Caches -> Nat]
            BY <2>5 DEF Fill, ExpiresAt
        <3>4. /\ cachePc' \in [Lookups -> {"idle", "probe", "read", "fill", "done"}]
              /\ (\A m \in Lookups : cachePc[m] = "fill" => found[m] # Nothing)'
            BY <2>5, <3>1 DEF Fill
        <3> QED
            BY <3>1, <3>2, <3>3, <3>4
    <2> QED
        BY <1>2, <2>1, <2>2, <2>3, <2>4, <2>5 DEF Lookup
<1>3. ASSUME NEW r \in Caches, Save(r) PROVE CacheTypeOK'
    <2>1. UNCHANGED <<clock, entry, expires, cachePc, now, found>>
        BY <1>3 DEF Save, cacheVars, lookupVars
    <2>2. version' \in Versions
        BY <1>3 DEF Save
    <2>5. deleted' = deleted \/ deleted' = deleted \cup {version'}
        BY <1>3 DEF Save
    <2>6. deleted' \in SUBSET Versions
        BY <2>2, <2>5
    <2>3. replaced' \in [Versions -> 0 .. MaxTime]
        BY <1>3 DEF Save
    <2>4. admin' \in [Caches -> Versions \cup {Nothing}]
        BY <1>3 DEF Save
    <2> QED
        BY <2>1, <2>2, <2>3, <2>4, <2>6
<1>4. ASSUME NEW r \in Caches, Invalidate(r) PROVE CacheTypeOK'
    BY <1>4 DEF Invalidate, storeVars, lookupVars
<1>5. CASE UNCHANGED configVars
    BY <1>5 DEF configVars, storeVars, cacheVars, lookupVars
<1> QED
    BY <1>1, <1>2, <1>3, <1>4, <1>5 DEF CacheNext

\* What the arithmetic below needs of the types.
LEMMA Ranges ==
    ASSUME CacheTypeOK
    PROVE  /\ clock \in Nat /\ TTL \in Nat \ {0}
           /\ version \in Versions /\ 0 \notin Versions
           /\ \A v \in Versions : replaced[v] \in Nat
           /\ \A r \in Caches : /\ entry[r] \in Versions \cup {0}
                                  /\ expires[r] \in Nat
           /\ \A l \in Lookups : /\ now[l] \in Nat
                                 /\ found[l] \in Versions \cup {0}
                                 /\ Home[l] \in Caches
                                 /\ cachePc[l] = "fill" => found[l] # 0
BY DEF ConfigCacheAssumption, CacheTypeOK, Versions,
       Nothing

\* The dates of the entries and of the reads are kept, and with them the bound on
\* what a lookup returns.
LEMMA CacheDatesStep ==
    ASSUME CacheInv, [CacheNext]_configVars
    PROVE  Dated'
<1> DEFINE Kept == UNCHANGED <<version, replaced>>
<1>r. /\ clock \in Nat /\ TTL \in Nat \ {0}
      /\ version \in Versions /\ 0 \notin Versions
      /\ \A v \in Versions : replaced[v] \in Nat
      /\ \A r \in Caches : /\ entry[r] \in Versions \cup {0}
                             /\ expires[r] \in Nat
      /\ \A l \in Lookups : /\ now[l] \in Nat
                            /\ found[l] \in Versions \cup {0}
                            /\ Home[l] \in Caches
                            /\ cachePc[l] = "fill" => found[l] # 0
    BY Ranges DEF CacheInv
<1>d. /\ \A r \in Caches : EntryDated(r)
      /\ \A l \in Lookups : ReadDated(l) /\ NotStale(l)
    BY DEF CacheInv, Dated
\* An entry that a step leaves alone stays dated, and so does a lookup.
<1>e. ASSUME NEW r \in Caches, Kept, clock' \in Nat, clock' >= clock,
             entry'[r] = entry[r], expires'[r] = expires[r]
      PROVE  EntryDated(r)'
    BY <1>r, <1>d, <1>e DEF EntryDated, Nothing
<1>l. ASSUME NEW l \in Lookups, Kept, clock' \in Nat, clock' >= clock,
             cachePc'[l] = cachePc[l], now'[l] = now[l], found'[l] = found[l]
      PROVE  (ReadDated(l) /\ NotStale(l))'
    BY <1>r, <1>d, <1>l DEF ReadDated, NotStale, Returned, Nothing
<1>1. CASE Tick
    <2>1. /\ Kept /\ clock' \in Nat /\ clock' >= clock
          /\ UNCHANGED <<entry, expires, cachePc, now, found>>
        BY <1>1, <1>r DEF Tick, storeVars, cacheVars, lookupVars
    <2> QED
        BY <2>1, <1>e, <1>l DEF Dated
<1>2. ASSUME NEW l \in Lookups, Lookup(l) PROVE Dated'
    <2>k. /\ Kept /\ UNCHANGED clock
          /\ \A m \in Lookups \ {l} :
                cachePc'[m] = cachePc[m] /\ now'[m] = now[m] /\ found'[m] = found[m]
        BY <1>2 DEF CacheInv, CacheTypeOK, Lookup, Begin, Probe, Read, ReadFails, Fill,
                    storeVars
    <2>m. \A m \in Lookups \ {l} : (ReadDated(m) /\ NotStale(m))'
        BY <2>k, <1>l, <1>r
    <2>1. CASE Begin(l)
        <3>1. /\ UNCHANGED <<entry, expires>>
              /\ cachePc'[l] = "probe" /\ now'[l] = clock /\ found'[l] = Nothing
            BY <2>1 DEF Begin, cacheVars, CacheInv, CacheTypeOK
        <3>2. (ReadDated(l) /\ NotStale(l))'
            BY <3>1, <2>k, <1>r DEF ReadDated, NotStale, Returned
        <3> QED
            BY <3>1, <3>2, <2>k, <2>m, <1>e, <1>r DEF Dated
    <2>2. CASE Probe(l)
        <3>1. UNCHANGED <<entry, expires, now>>
            BY <2>2 DEF Probe, cacheVars
        <3>2. \/ /\ Hit(l)
                 /\ cachePc'[l] = "done" /\ found'[l] = entry[Home[l]]
              \/ /\ cachePc[l] = "probe" /\ cachePc'[l] = "read"
                 /\ found'[l] = found[l]
            BY <2>2 DEF Probe, CacheInv, CacheTypeOK
        <3>3. (ReadDated(l) /\ NotStale(l))'
            BY <3>1, <3>2, <2>k, <1>r, <1>d
            DEF ReadDated, NotStale, Returned, Hit, EntryDated, Nothing
        <3> QED
            BY <3>1, <3>3, <2>k, <2>m, <1>e, <1>r DEF Dated
    <2>3. CASE Read(l)
        <3>1. /\ UNCHANGED <<entry, expires, now>>
              /\ cachePc'[l] = "fill" /\ found'[l] = version
            BY <2>3 DEF Read, cacheVars, CacheInv, CacheTypeOK
        <3>2. (ReadDated(l) /\ NotStale(l))'
            BY <3>1, <2>k, <1>r, <1>d DEF ReadDated, NotStale, Returned
        <3> QED
            BY <3>1, <3>2, <2>k, <2>m, <1>e, <1>r DEF Dated
    <2>4. CASE ReadFails(l)
        <3>1. /\ UNCHANGED <<entry, expires, now, found>>
              /\ cachePc[l] = "read" /\ cachePc'[l] = "done"
            BY <2>4 DEF ReadFails, cacheVars, CacheInv, CacheTypeOK
        <3>2. found[l] = 0
            BY <3>1, <1>d DEF ReadDated, Nothing
        <3>3. (ReadDated(l) /\ NotStale(l))'
            BY <3>1, <3>2, <2>k, <1>r, <1>d
            DEF ReadDated, NotStale, Returned, Nothing
        <3> QED
            BY <3>1, <3>3, <2>k, <2>m, <1>e, <1>r DEF Dated
    <2>5. CASE Fill(l)
        <3>1. /\ UNCHANGED <<now, found>>
              /\ cachePc[l] = "fill" /\ cachePc'[l] = "done"
              /\ \A r \in Caches \ {Home[l]} :
                    entry'[r] = entry[r] /\ expires'[r] = expires[r]
            BY <2>5 DEF Fill, CacheInv, CacheTypeOK
        <3>2. entry'[Home[l]] = found[l] /\ expires'[Home[l]] = now[l] + TTL
            BY <2>5, <1>r DEF Fill, ExpiresAt, CacheInv, CacheTypeOK
        <3>3. EntryDated(Home[l])'
            BY <3>1, <3>2, <2>k, <1>r, <1>d DEF EntryDated, ReadDated, Nothing
        <3>4. (ReadDated(l) /\ NotStale(l))'
            BY <3>1, <2>k, <1>r, <1>d DEF ReadDated, NotStale, Returned
        <3> QED
            BY <3>1, <3>3, <3>4, <2>k, <2>m, <1>e, <1>r DEF Dated
    <2> QED
        BY <1>2, <2>1, <2>2, <2>3, <2>4, <2>5 DEF Lookup
\* A change dates what it replaces with the present, which no entry and no lookup
\* is ahead of.
<1>3. ASSUME NEW q \in Caches, Save(q) PROVE Dated'
    <2>1. UNCHANGED <<clock, entry, expires, cachePc, now, found>>
        BY <1>3 DEF Save, cacheVars, lookupVars
    <2>2. /\ version' = version + 1 /\ replaced'[version] = clock
          /\ \A v \in Versions \ {version} : replaced'[v] = replaced[v]
        BY <1>3 DEF Save, CacheInv, CacheTypeOK
    <2>3. ASSUME NEW r \in Caches PROVE EntryDated(r)'
        BY <2>1, <2>2, <1>r, <1>d DEF EntryDated, Nothing
    <2>4. ASSUME NEW l \in Lookups PROVE (ReadDated(l) /\ NotStale(l))'
        BY <2>1, <2>2, <1>r, <1>d DEF ReadDated, NotStale, Returned, Nothing
    <2> QED
        BY <2>3, <2>4 DEF Dated
<1>4. ASSUME NEW q \in Caches, Invalidate(q) PROVE Dated'
    <2>1. /\ Kept /\ UNCHANGED <<clock, expires, cachePc, now, found>>
          /\ entry'[q] = Nothing
          /\ \A r \in Caches \ {q} : entry'[r] = entry[r]
        BY <1>4 DEF Invalidate, storeVars, lookupVars, CacheInv, CacheTypeOK
    <2>2. EntryDated(q)'
        BY <2>1 DEF EntryDated
    <2> QED
        BY <2>1, <2>2, <1>e, <1>l, <1>r DEF Dated
<1>5. CASE UNCHANGED configVars
    <2>1. Kept /\ UNCHANGED <<clock, entry, expires, cachePc, now, found>>
        BY <1>5 DEF configVars, storeVars, cacheVars, lookupVars
    <2> QED
        BY <2>1, <1>e, <1>l, <1>r DEF Dated
<1> QED
    BY <1>1, <1>2, <1>3, <1>4, <1>5 DEF CacheNext

\* The caches keep their types and their dates in every reachable state.
LEMMA CacheInvariant == CacheSpec => []CacheInv
<1>1. CacheInit => CacheInv
    BY CacheInvInit
<1>2. CacheInv /\ [CacheNext]_configVars => CacheInv'
    BY CacheTypeStep, CacheDatesStep DEF CacheInv
<1> QED
    BY <1>1, <1>2, PTL DEF CacheSpec

\* getRoute, getAuditProfile: what a lookup stores in the cache it has read, and the
\* empty answer is never stored.
THEOREM CachesHoldOnlyAnswers == CacheSpec => []CacheTypeOK
<1>1. CacheInv => CacheTypeOK
    BY DEF CacheInv
<1> QED
    BY <1>1, CacheInvariant, PTL

\* getRoute, getAuditProfile, InvalidateRoute, InvalidateProfiles: no lookup returns
\* contents that were replaced a TTL or longer before it began.
THEOREM StalenessIsBounded == CacheSpec => []BoundedStaleness
<1>1. CacheInv => BoundedStaleness
    BY DEF CacheInv, Dated, NotStale, BoundedStaleness
<1> QED
    BY <1>1, CacheInvariant, PTL
=============================================================================
