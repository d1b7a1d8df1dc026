------------------------------- MODULE Startup -------------------------------
(***************************************************************************)
(* What a replica does before it serves, cmd/server/main.go: connect,      *)
(* migrate the schema, seed roles, permissions and grants statement by     *)
(* statement, create the bucket. Replicas start and stop beside each       *)
(* other; every error is log.Fatal and the deployment starts the process   *)
(* again.  Administrators edit the grants meanwhile.                       *)
(*                                                                         *)
(* The first replicas find an empty database. PostgreSQL refuses the file  *)
(* 000001: two of its UNIQUE constraints hold an expression, which only a  *)
(* unique index takes.  Its tables come from an operator, by hand.         *)
(***************************************************************************)
EXTENDS Integers, Sequences, FiniteSets, RbacModel

CONSTANTS
  Replicas,           \* pods of the deployment
  DefaultRoles,       \* the rows of AllRoles that are looked at
  DefaultPermissions, \* the rows of AllPermissions that are looked at
  Grantees,           \* the rows of GrantOrder that are looked at
  Edits,              \* <<role, permission>> pairs administrators touch
  MaxFaults           \* bound: processes killed, and statements that fail

ASSUME TablesAssumption ==
  /\ DefaultRoles \in Seq(STRING)
  /\ DefaultPermissions \in Seq(STRING \X STRING)
  /\ Grantees \in Seq(STRING) /\ Len(Grantees) > 0
  /\ Edits \subseteq STRING \X (STRING \X STRING)
ASSUME FaultsAssumption == MaxFaults \in Nat

VARIABLES
  schema,         \* "empty", "old" (files are missing), "dirty", "current"
  roles,          \* codes in the table roles
  permissions,    \* rows of permissions
  grants,         \* rows of role_permissions
  bucket,         \* whether the bucket exists
  replica,        \* replica[r]: how far replica r is
  faults,         \* faults so far
  added,          \* history: the grants administrators added
  removed         \* history: the grants administrators removed

tables == <<roles, permissions, grants>>
edits == <<added, removed>>
startVars == <<schema, tables, bucket, replica, faults, edits>>

RoleCount == Len(DefaultRoles)
PermissionCount == Len(DefaultPermissions)
Statements == RoleCount + PermissionCount + Len(Grantees)

Schemas == {"empty", "old", "dirty", "current"}
Stages == {"down", "connect", "migrate", "migrating", "seed", "bucket", "make", "serving"}

StartInit ==
  /\ schema = "empty" /\ bucket = FALSE
  /\ roles = {} /\ permissions = {} /\ grants = {}
  /\ replica = [r \in Replicas |-> [at |-> "down", next |-> 1]]
  /\ faults = 0 /\ added = {} /\ removed = {}

Serving == {r \in Replicas : replica[r].at = "serving"}
Migrating == {r \in Replicas : replica[r].at = "migrating"}

GoTo(r, stage) == replica' = [replica EXCEPT ![r] = [at |-> stage, next |-> 1]]

-----------------------------------------------------------------------------
(* main, up to ListenAndServe.                                             *)

Start(r) ==
  /\ replica[r].at = "down"
  /\ GoTo(r, "connect")
  /\ UNCHANGED <<schema, tables, bucket, faults, edits>>

Connect(r) ==
  /\ replica[r].at = "connect"
  /\ GoTo(r, "migrate")
  /\ UNCHANGED <<schema, tables, bucket, faults, edits>>

\* m.Up() under the advisory lock, on an empty database: version 1 is marked
\* dirty, the file is refused, and log.Fatal ends the process.
MigrationRefused(r) ==
  /\ replica[r].at = "migrate"
  /\ schema = "empty"
  /\ schema' = "dirty"
  /\ GoTo(r, "down")
  /\ UNCHANGED <<tables, bucket, faults, edits>>

\* m.Up() with the files after 000001, each marked dirty first.
MigrateBegins(r) ==
  /\ replica[r].at = "migrate"
  /\ schema = "old" /\ Migrating = {}
  /\ schema' = "dirty"
  /\ GoTo(r, "migrating")
  /\ UNCHANGED <<tables, bucket, faults, edits>>

\* The files after 000001 have been applied.
MigrateEnds(r) ==
  /\ replica[r].at = "migrating"
  /\ schema' = "current"
  /\ GoTo(r, "seed")
  /\ UNCHANGED <<tables, bucket, faults, edits>>

\* migrate.ErrNoChange is no error.
NoChange(r) ==
  /\ replica[r].at = "migrate"
  /\ schema = "current"
  /\ GoTo(r, "seed")
  /\ UNCHANGED <<schema, tables, bucket, faults, edits>>

\* The version is dirty, or another replica holds the lock for too long.
MigrateFails(r) ==
  /\ replica[r].at = "migrate"
  /\ schema = "dirty"
  /\ GoTo(r, "down")
  /\ UNCHANGED <<schema, tables, bucket, faults, edits>>

\* Mutant: one statement too many.
MutantOneMore(r) ==
  IF replica[r].next > Statements
    THEN GoTo(r, "bucket")
    ELSE replica' = [replica EXCEPT ![r] = [at |-> "seed", next |-> replica[r].next + 1]]

\* SeedDefaultRolesAndPermissions goes on to its next statement.
NextStatement(r) ==
  IF replica[r].next = Statements
    THEN GoTo(r, "bucket")
    ELSE replica' = [replica EXCEPT ![r] = [at |-> "seed", next |-> replica[r].next + 1]]

\* Mutant: a plain INSERT fails when the role is there.
MutantInsertRole(r) ==
  /\ replica[r].at = "seed"
  /\ replica[r].next \in 1..RoleCount
  /\ IF DefaultRoles[replica[r].next] \in roles
       THEN GoTo(r, "down") /\ UNCHANGED roles
       ELSE NextStatement(r) /\ roles' = roles \cup {DefaultRoles[replica[r].next]}
  /\ UNCHANGED <<schema, permissions, grants, bucket, faults, edits>>

\* INSERT INTO roles ... ON CONFLICT (code) DO UPDATE.
SeedRole(r) ==
  /\ replica[r].at = "seed"
  /\ replica[r].next \in 1..RoleCount
  /\ roles' = roles \cup {DefaultRoles[replica[r].next]}
  /\ NextStatement(r)
  /\ UNCHANGED <<schema, permissions, grants, bucket, faults, edits>>

\* INSERT INTO permissions ... ON CONFLICT DO NOTHING.
SeedPermission(r) ==
  /\ replica[r].at = "seed"
  /\ replica[r].next \in (RoleCount + 1)..(RoleCount + PermissionCount)
  /\ permissions' = permissions \cup {DefaultPermissions[replica[r].next - RoleCount]}
  /\ NextStatement(r)
  /\ UNCHANGED <<schema, roles, grants, bucket, faults, edits>>

\* Mutant: the parentheses around the ORs are missing in a WHERE, and the
\* condition on the role binds only the first of them.
MutantSelected(role) ==
  {<<r, p>> : r \in roles, p \in {q \in permissions : Selects(role, q)}}

\* The rows of roles x permissions an INSERT for role selects.
Selected(role) ==
  {<<r, p>> : r \in roles \cap {role}, p \in {q \in permissions : Selects(role, q)}}

\* INSERT INTO role_permissions SELECT ... ON CONFLICT DO NOTHING.
SeedGrants(r) ==
  /\ replica[r].at = "seed"
  /\ replica[r].next \in (RoleCount + PermissionCount + 1)..Statements
  /\ grants' = grants \cup
       Selected(Grantees[replica[r].next - RoleCount - PermissionCount])
  /\ NextStatement(r)
  /\ UNCHANGED <<schema, roles, permissions, bucket, faults, edits>>

\* EnsureBucket asks first and creates then.
BucketExists(r) ==
  /\ replica[r].at = "bucket"
  /\ GoTo(r, IF bucket THEN "serving" ELSE "make")
  /\ UNCHANGED <<schema, tables, bucket, faults, edits>>

\* MakeBucket fails when another replica was faster.
MakeBucket(r) ==
  /\ replica[r].at = "make"
  /\ GoTo(r, IF bucket THEN "down" ELSE "serving")
  /\ bucket' = TRUE
  /\ UNCHANGED <<schema, tables, faults, edits>>

\* A step fails, with or without its effect, or the pod is killed or stopped.
\* In a migration the version stays dirty; between two of them it does not.
Fail(r) ==
  /\ replica[r].at # "down"
  /\ faults < MaxFaults
  /\ faults' = faults + 1
  /\ GoTo(r, "down")
  /\ schema' \in IF replica[r].at = "migrating" THEN {"dirty", "old"} ELSE {schema}
  /\ UNCHANGED <<tables, bucket, edits>>

-----------------------------------------------------------------------------
(* An operator (external) applies what was refused or broken off, in a     *)
(* form PostgreSQL takes (UNIQUE NULLS NOT DISTINCT under the same names,  *)
(* as AssignRole cites one), and forces the version; no document says how. *)

Repair ==
  /\ schema = "dirty" /\ Migrating = {}
  /\ schema' \in {"old", "current"}
  /\ UNCHANGED <<tables, bucket, replica, faults, edits>>

(* Administrators edit role_permissions (external), each pair once.        *)

AddGrant(g) ==
  /\ g \in Edits \ (grants \cup added) /\ g[1] \in roles /\ g[2] \in permissions
  /\ grants' = grants \cup {g}
  /\ added' = added \cup {g}
  /\ UNCHANGED <<schema, roles, permissions, bucket, replica, faults, removed>>

RemoveGrant(g) ==
  /\ g \in (Edits \cap grants) \ removed
  /\ grants' = grants \ {g}
  /\ removed' = removed \cup {g}
  /\ UNCHANGED <<schema, roles, permissions, bucket, replica, faults, added>>

Step(r) ==
  \/ Start(r) \/ Connect(r)
  \/ MigrationRefused(r) \/ MigrateBegins(r) \/ MigrateEnds(r)
  \/ NoChange(r) \/ MigrateFails(r)
  \/ SeedRole(r) \/ SeedPermission(r) \/ SeedGrants(r)
  \/ BucketExists(r) \/ MakeBucket(r)

StartNext ==
  \/ \E r \in Replicas : Step(r) \/ Fail(r)
  \/ Repair
  \/ \E g \in Edits : AddGrant(g) \/ RemoveGrant(g)

\* A process goes on, and the deployment starts one that has ended.
StartFairness == \A r \in Replicas : WF_startVars(Step(r))

-----------------------------------------------------------------------------

StartTypeOK ==
  /\ schema \in Schemas /\ bucket \in BOOLEAN
  /\ roles \subseteq STRING
  /\ permissions \subseteq STRING \X STRING
  /\ grants \subseteq STRING \X (STRING \X STRING)
  /\ replica \in [Replicas -> [at : Stages, next : 1..Statements]]
  /\ faults \in 0..MaxFaults
  /\ added \subseteq Edits /\ removed \subseteq Edits

\* What the tables promise: each default role with the permissions of its row.
DefaultGrants ==
  {<<role, p>> : role \in {Grantees[i] : i \in 1..Len(Grantees)},
                 p \in {DefaultPermissions[i] : i \in 1..PermissionCount}}
    \cap {<<DefaultRoles[i], p>> : i \in 1..RoleCount,
                                   p \in {DefaultPermissions[j] : j \in 1..PermissionCount}}

PromisedGrants == {g \in DefaultGrants : Selects(g[1], g[2])}

\* Seeding is exact, whoever seeds beside it and wherever it is broken off: no
\* role ever holds more than its row and what administrators gave it, and once
\* a replica serves every role holds its row, but for what they took away.
SeedIsExact ==
  /\ grants \subseteq PromisedGrants \cup added
  /\ Serving # {} => PromisedGrants \ removed \subseteq grants

\* Once the tables of 000001 are there, all replicas come to serve and stay so:
\* races for the migration and for the bucket, statements and processes that
\* fail, cost restarts and no more (main.go:44-77). The exception is a process
\* killed in a migration, which leaves a dirty version without a migrator.
ReplicasServe ==
  schema \in {"old", "current"}
    ~> \/ [](Serving = Replicas)
       \/ schema = "dirty" /\ Migrating = {} /\ faults > 0

\* foundation.md:29 of schema.go: "EnsureSchema() - applies migrations on
\* startup".  A deployment in which nothing fails gets its schema.
StartupMigrates == <>(schema = "current" \/ faults > 0)
=============================================================================
