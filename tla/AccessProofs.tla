------------------------------ MODULE AccessProofs ------------------------------
(***************************************************************************)
(* Theorems about Access and Startup, for any number of replicas, faults   *)
(* and edits, any tables of roles, permissions and grants.                 *)
(***************************************************************************)
EXTENDS Access, TLAPS

-----------------------------------------------------------------------------
(* The inductive invariant of the start.                                   *)

RoleSet == {DefaultRoles[i] : i \in 1..RoleCount}
PermissionSet == {DefaultPermissions[i] : i \in 1..PermissionCount}

\* The tables hold nothing but what is in the lists and what was added.
TablesAreDefault ==
  /\ roles \subseteq RoleSet /\ permissions \subseteq PermissionSet
  /\ grants \subseteq PromisedGrants \cup added

\* What statement i of the seeder leaves behind, and nothing undoes.
Effect(i) ==
  /\ i \in 1..RoleCount => DefaultRoles[i] \in roles
  /\ i \in (RoleCount + 1)..(RoleCount + PermissionCount) =>
       DefaultPermissions[i - RoleCount] \in permissions
  /\ i \in (RoleCount + PermissionCount + 1)..Statements =>
       \A p \in PermissionSet :
         LET role == Grantees[i - RoleCount - PermissionCount]
         IN  role \in RoleSet /\ Selects(role, p) => <<role, p>> \in grants \cup removed

\* A replica finds the effects of the statements it has passed, all of them
\* once it has seeded.
Progress(r) ==
  /\ replica[r].at = "seed" => \A i \in 1..(replica[r].next - 1) : Effect(i)
  /\ replica[r].at \in {"bucket", "make", "serving"} => \A i \in 1..Statements : Effect(i)

StartInv ==
  /\ StartTypeOK
  /\ TablesAreDefault
  /\ \A r \in Replicas : Progress(r)

LEMMA Counts ==
  /\ RoleCount \in Nat /\ PermissionCount \in Nat /\ Len(Grantees) \in Nat
  /\ Statements \in Nat /\ Statements >= 1
  /\ Statements = RoleCount + PermissionCount + Len(Grantees)
<1>1. RoleCount \in Nat /\ PermissionCount \in Nat
  BY TablesAssumption DEF RoleCount, PermissionCount
<1>2. Len(Grantees) \in Nat /\ Len(Grantees) > 0
  BY TablesAssumption
<1> QED BY <1>1, <1>2 DEF Statements

LEMMA Tables ==
  /\ \A i \in 1..RoleCount : DefaultRoles[i] \in STRING
  /\ \A i \in 1..PermissionCount : DefaultPermissions[i] \in STRING \X STRING
  /\ \A i \in 1..Len(Grantees) : Grantees[i] \in STRING
BY TablesAssumption DEF RoleCount, PermissionCount

\* Who is promised what.
LEMMA Promised ==
  ASSUME NEW role, NEW p
  PROVE  <<role, p>> \in PromisedGrants <=>
           /\ role \in RoleSet /\ p \in PermissionSet /\ Selects(role, p)
           /\ role \in {Grantees[i] : i \in 1..Len(Grantees)}
BY DEF PromisedGrants, DefaultGrants, RoleSet, PermissionSet

LEMMA SelectedIs ==
  ASSUME NEW role, NEW g
  PROVE  g \in Selected(role) <=>
           \E p \in permissions : role \in roles /\ Selects(role, p) /\ g = <<role, p>>
<1>1. g \in Selected(role) <=>
        \E r \in roles \cap {role}, p \in {q \in permissions : Selects(role, q)} : g = <<r, p>>
  BY DEF Selected
<1>2. \A p : p \in {q \in permissions : Selects(role, q)} <=>
               p \in permissions /\ Selects(role, p)
  OBVIOUS
<1>3. \A r : r \in roles \cap {role} <=> r \in roles /\ r = role
  OBVIOUS
<1> QED BY <1>1, <1>2, <1>3, Zenon

\* Effects stay: tables grow, and a grant that goes was taken away.
LEMMA EffectsStay ==
  ASSUME roles \subseteq roles', permissions \subseteq permissions',
         grants \cup removed \subseteq (grants \cup removed)', NEW i \in Int, Effect(i)
  PROVE  Effect(i)'
BY DEF Effect

\* A replica goes to the beginning of a stage.
LEMMA GoingTo ==
  ASSUME StartInv, NEW r \in Replicas, NEW stage \in Stages, GoTo(r, stage),
         stage \in {"bucket", "make", "serving"} => \A i \in 1..Statements : Effect(i)',
         roles \subseteq roles', permissions \subseteq permissions',
         grants \cup removed \subseteq (grants \cup removed)'
  PROVE  /\ replica' \in [Replicas -> [at : Stages, next : 1..Statements]]
         /\ (\A s \in Replicas : Progress(s))'
<1>1. 1 \in 1..Statements /\ 1..(1 - 1) = {}
  BY Counts
<1>2. replica' \in [Replicas -> [at : Stages, next : 1..Statements]]
  BY <1>1 DEF StartInv, StartTypeOK, GoTo
<1>3. \A s \in Replicas :
        replica'[s] = IF s = r THEN [at |-> stage, next |-> 1] ELSE replica[s]
  BY DEF StartInv, StartTypeOK, GoTo
<1>4. ASSUME NEW s \in Replicas PROVE Progress(s)'
  <2>1. CASE s = r
    BY <2>1, <1>1, <1>3 DEF Progress
  <2>2. CASE s # r
    <3>1. replica'[s] = replica[s] /\ Progress(s)
      BY <2>2, <1>3 DEF StartInv
    <3>2. replica[s].next \in Int
      BY Counts DEF StartInv, StartTypeOK
    <3>3. ASSUME replica[s].at = "seed", NEW i \in 1..(replica[s].next - 1)
          PROVE  Effect(i)'
      BY <3>1, <3>2, <3>3, EffectsStay DEF Progress
    <3>4. ASSUME replica[s].at \in {"bucket", "make", "serving"}, NEW i \in 1..Statements
          PROVE  Effect(i)'
      BY <3>1, <3>4, EffectsStay, Counts DEF Progress
    <3> QED BY <3>1, <3>3, <3>4 DEF Progress
  <2> QED BY <2>1, <2>2
<1> QED BY <1>2, <1>4

\* The seeder goes on after a statement that left its effect.
LEMMA GoingOn ==
  ASSUME StartInv, NEW r \in Replicas, replica[r].at = "seed", NextStatement(r),
         NEW n \in 1..Statements, n = replica[r].next, Effect(n)',
         roles \subseteq roles', permissions \subseteq permissions',
         grants \cup removed \subseteq (grants \cup removed)'
  PROVE  /\ replica' \in [Replicas -> [at : Stages, next : 1..Statements]]
         /\ (\A s \in Replicas : Progress(s))'
<1>1. n = replica[r].next
  OBVIOUS
<1>2. n \in Int /\ Effect(n)'
  BY Counts
<1>3. \A i \in 1..(n - 1) : Effect(i)
  BY <1>1 DEF StartInv, Progress
<1>4. \A i \in 1..n : Effect(i)'
  <2> SUFFICES ASSUME NEW i \in 1..n PROVE Effect(i)'
    OBVIOUS
  <2>1. CASE i = n
    BY <2>1, <1>2
  <2>2. CASE i # n
    <3>1. i \in 1..(n - 1) /\ i \in Int
      BY <2>2, <1>2
    <3> QED BY <3>1, <1>3, EffectsStay
  <2> QED BY <2>1, <2>2
<1>5. CASE n = Statements
  <2>1. GoTo(r, "bucket")
    BY <1>1, <1>5 DEF NextStatement
  <2>2. "bucket" \in Stages
    BY DEF Stages
  <2> QED BY <1>4, <1>5, <2>1, <2>2, GoingTo
<1>6. CASE n # Statements
  <2>1. n + 1 \in 1..Statements /\ "seed" \in Stages
    BY <1>6, Counts DEF Stages
  <2>2. replica' = [replica EXCEPT ![r] = [at |-> "seed", next |-> n + 1]]
    BY <1>1, <1>6 DEF NextStatement
  <2>3. replica' \in [Replicas -> [at : Stages, next : 1..Statements]]
    BY <2>1, <2>2 DEF StartInv, StartTypeOK
  <2>4. \A s \in Replicas :
          replica'[s] = IF s = r THEN [at |-> "seed", next |-> n + 1] ELSE replica[s]
    BY <2>2 DEF StartInv, StartTypeOK
  <2>5. ASSUME NEW s \in Replicas PROVE Progress(s)'
    <3>1. CASE s = r
      <4>1. replica'[s].at = "seed" /\ replica'[s].next - 1 = n
        BY <3>1, <2>4, <1>2
      <4> QED BY <4>1, <1>4 DEF Progress
    <3>2. CASE s # r
      <4>1. replica'[s] = replica[s] /\ Progress(s)
        BY <3>2, <2>4 DEF StartInv
      <4>2. replica[s].next \in Int
        BY Counts DEF StartInv, StartTypeOK
      <4>3. ASSUME replica[s].at = "seed", NEW i \in 1..(replica[s].next - 1)
            PROVE  Effect(i)'
        BY <4>1, <4>2, <4>3, EffectsStay DEF Progress
      <4>4. ASSUME replica[s].at \in {"bucket", "make", "serving"}, NEW i \in 1..Statements
            PROVE  Effect(i)'
        BY <4>1, <4>4, EffectsStay, Counts DEF Progress
      <4> QED BY <4>1, <4>3, <4>4 DEF Progress
    <3> QED BY <3>1, <3>2
  <2> QED BY <2>3, <2>5
<1> QED BY <1>5, <1>6

\* A step that leaves the tables and the edits alone.
LEMMA StageChanges ==
  ASSUME StartInv, NEW r \in Replicas, NEW stage \in Stages, GoTo(r, stage),
         UNCHANGED <<tables, edits>>,
         stage \in {"bucket", "make", "serving"} => \A i \in 1..Statements : Effect(i),
         schema' \in Schemas, bucket' \in BOOLEAN,
         faults' \in 0..MaxFaults
  PROVE  StartInv'
<1>1. stage \in {"bucket", "make", "serving"} => \A i \in 1..Statements : Effect(i)'
  BY Counts, EffectsStay DEF tables, edits
<1>2. /\ replica' \in [Replicas -> [at : Stages, next : 1..Statements]]
      /\ (\A s \in Replicas : Progress(s))'
  BY <1>1, GoingTo DEF tables, edits
<1>3. TablesAreDefault'
  BY DEF StartInv, TablesAreDefault, tables, edits
<1>4. StartTypeOK'
  BY <1>2 DEF StartInv, StartTypeOK, tables, edits
<1> QED BY <1>2, <1>3, <1>4 DEF StartInv

LEMMA StagesKeep ==
  ASSUME StartInv, NEW r \in Replicas,
         \/ Start(r) \/ Connect(r) \/ MigrationRefused(r) \/ MigrateBegins(r)
         \/ MigrateEnds(r) \/ NoChange(r) \/ MigrateFails(r) \/ BucketExists(r) \/ MakeBucket(r) \/ Fail(r)
  PROVE  StartInv'
<1>0. schema \in Schemas /\ bucket \in BOOLEAN /\ faults \in 0..MaxFaults
  BY DEF StartInv, StartTypeOK
<1>a. {"old", "dirty", "current"} \subseteq Schemas
  BY DEF Schemas
<1>1. /\ "down" \in Stages /\ "connect" \in Stages /\ "migrate" \in Stages
      /\ "migrating" \in Stages /\ "seed" \in Stages /\ "make" \in Stages
      /\ "serving" \in Stages
  BY DEF Stages
<1>2. CASE Start(r)
  BY <1>0, <1>1, <1>2, StageChanges DEF Start
<1>3. CASE Connect(r)
  BY <1>0, <1>1, <1>3, StageChanges DEF Connect
<1>4. CASE MigrateBegins(r)
  BY <1>0, <1>1, <1>4, <1>a, StageChanges DEF MigrateBegins
<1>5. CASE MigrateEnds(r)
  BY <1>0, <1>1, <1>5, <1>a, StageChanges DEF MigrateEnds
<1>6. CASE NoChange(r)
  BY <1>0, <1>1, <1>6, StageChanges DEF NoChange
<1>7. CASE MigrateFails(r)
  BY <1>0, <1>1, <1>7, StageChanges DEF MigrateFails
<1>8. CASE BucketExists(r)
  <2>1. \A i \in 1..Statements : Effect(i)
    BY <1>8 DEF BucketExists, StartInv, Progress
  <2>2. PICK stage \in {"serving", "make"} : GoTo(r, stage)
    BY <1>8 DEF BucketExists
  <2>3. stage \in Stages
    BY <1>1
  <2> QED BY <1>0, <1>8, <2>1, <2>2, <2>3, StageChanges DEF BucketExists
<1>9. CASE MakeBucket(r)
  <2>1. \A i \in 1..Statements : Effect(i)
    BY <1>9 DEF MakeBucket, StartInv, Progress
  <2>2. PICK stage \in {"down", "serving"} : GoTo(r, stage)
    BY <1>9 DEF MakeBucket
  <2>3. stage \in Stages
    BY <1>1
  <2> QED BY <1>0, <1>9, <2>1, <2>2, <2>3, StageChanges DEF MakeBucket
<1>10. CASE Fail(r)
  <2>1. faults' \in 0..MaxFaults
    BY <1>0, <1>10, FaultsAssumption DEF Fail
  <2>2. schema' \in Schemas
    BY <1>0, <1>10, <1>a DEF Fail
  <2> QED BY <1>0, <1>1, <1>10, <2>1, <2>2, StageChanges DEF Fail
<1>11. CASE MigrationRefused(r)
  BY <1>0, <1>1, <1>11, <1>a, StageChanges DEF MigrationRefused
<1> QED BY <1>2, <1>3, <1>4, <1>5, <1>6, <1>7, <1>8, <1>9, <1>10, <1>11

LEMMA SeedRoleKeeps ==
  ASSUME StartInv, NEW r \in Replicas, SeedRole(r)
  PROVE  StartInv'
<1>1. PICK n \in 1..Statements : n = replica[r].next
  BY DEF StartInv, StartTypeOK
<1>2. /\ n \in 1..RoleCount /\ replica[r].at = "seed" /\ NextStatement(r)
      /\ roles' = roles \cup {DefaultRoles[n]}
      /\ UNCHANGED <<schema, permissions, grants, bucket, faults, edits>>
  BY <1>1 DEF SeedRole
<1>3. Effect(n)'
  BY <1>2, Counts DEF Effect
<1>4. /\ roles \subseteq roles' /\ permissions \subseteq permissions'
      /\ grants \cup removed \subseteq (grants \cup removed)'
  BY <1>2 DEF edits
<1>5. /\ replica' \in [Replicas -> [at : Stages, next : 1..Statements]]
      /\ (\A s \in Replicas : Progress(s))'
  BY <1>1, <1>2, <1>3, <1>4, GoingOn
<1>6. TablesAreDefault'
  BY <1>2 DEF StartInv, TablesAreDefault, RoleSet, edits
<1>7. StartTypeOK'
  BY <1>2, <1>5, Tables DEF StartInv, StartTypeOK, edits
<1> QED BY <1>5, <1>6, <1>7 DEF StartInv

LEMMA SeedPermissionKeeps ==
  ASSUME StartInv, NEW r \in Replicas, SeedPermission(r)
  PROVE  StartInv'
<1>1. PICK n \in 1..Statements : n = replica[r].next
  BY DEF StartInv, StartTypeOK
<1>2. /\ n \in (RoleCount + 1)..(RoleCount + PermissionCount)
      /\ replica[r].at = "seed" /\ NextStatement(r)
      /\ permissions' = permissions \cup {DefaultPermissions[n - RoleCount]}
      /\ UNCHANGED <<schema, roles, grants, bucket, faults, edits>>
  BY <1>1 DEF SeedPermission
<1>3. n - RoleCount \in 1..PermissionCount
  BY <1>2, Counts
<1>4. Effect(n)'
  BY <1>2, Counts DEF Effect
<1>5. /\ roles \subseteq roles' /\ permissions \subseteq permissions'
      /\ grants \cup removed \subseteq (grants \cup removed)'
  BY <1>2 DEF edits
<1>6. /\ replica' \in [Replicas -> [at : Stages, next : 1..Statements]]
      /\ (\A s \in Replicas : Progress(s))'
  BY <1>1, <1>2, <1>4, <1>5, GoingOn
<1>7. TablesAreDefault'
  BY <1>2, <1>3 DEF StartInv, TablesAreDefault, PermissionSet, edits
<1>8. StartTypeOK'
  BY <1>2, <1>3, <1>6, Tables DEF StartInv, StartTypeOK, edits
<1> QED BY <1>6, <1>7, <1>8 DEF StartInv

\* The INSERT of a role grants what its row promises, as the roles and the
\* permissions are there.
LEMMA SeedGrantsKeeps ==
  ASSUME StartInv, NEW r \in Replicas, SeedGrants(r)
  PROVE  StartInv'
<1>1. PICK n \in 1..Statements : n = replica[r].next
  BY DEF StartInv, StartTypeOK
<1>2. PICK j \in 1..Len(Grantees) : j = n - RoleCount - PermissionCount
  BY <1>1, Counts DEF SeedGrants
<1>3. PICK role \in STRING : role = Grantees[j]
  BY Tables
<1>4. /\ n \in (RoleCount + PermissionCount + 1)..Statements
      /\ replica[r].at = "seed" /\ NextStatement(r)
      /\ grants' = grants \cup Selected(role)
      /\ UNCHANGED <<schema, roles, permissions, bucket, faults, edits>>
  BY <1>1, <1>2, <1>3 DEF SeedGrants
<1>5. \A i \in 1..(n - 1) : Effect(i)
  BY <1>1, <1>4 DEF StartInv, Progress
<1>6. RoleSet \subseteq roles
  <2> SUFFICES ASSUME NEW i \in 1..RoleCount PROVE DefaultRoles[i] \in roles
    BY DEF RoleSet
  <2>1. i \in 1..(n - 1)
    BY <1>4, Counts
  <2> QED BY <2>1, <1>5 DEF Effect
<1>7. PermissionSet \subseteq permissions
  <2> SUFFICES ASSUME NEW i \in 1..PermissionCount
               PROVE  DefaultPermissions[i] \in permissions
    BY DEF PermissionSet
  <2>1. PICK k \in 1..(n - 1) : k = i + RoleCount
    BY <1>4, Counts
  <2>2. k - RoleCount = i /\ k \in (RoleCount + 1)..(RoleCount + PermissionCount)
    BY <2>1, Counts
  <2> QED BY <2>2, <1>5 DEF Effect
<1>8. \A p \in PermissionSet : role \in RoleSet /\ Selects(role, p) => <<role, p>> \in grants'
  <2> SUFFICES ASSUME NEW p \in PermissionSet, role \in RoleSet, Selects(role, p)
               PROVE  <<role, p>> \in grants'
    OBVIOUS
  <2>1. role \in roles \cap {role} /\ p \in {q \in permissions : Selects(role, q)}
    BY <1>6, <1>7
  <2>2. <<role, p>> \in Selected(role)
    BY <2>1, SelectedIs
  <2> QED BY <2>2, <1>4
<1>9. Effect(n)'
  BY <1>2, <1>3, <1>4, <1>8, Counts DEF Effect
<1>10. /\ roles \subseteq roles' /\ permissions \subseteq permissions'
       /\ grants \cup removed \subseteq (grants \cup removed)'
  BY <1>4 DEF edits
<1>11. /\ replica' \in [Replicas -> [at : Stages, next : 1..Statements]]
       /\ (\A s \in Replicas : Progress(s))'
  BY <1>1, <1>4, <1>9, <1>10, GoingOn
<1>12. Selected(role) \subseteq PromisedGrants
  <2>1. ASSUME NEW p \in permissions, role \in roles, Selects(role, p)
        PROVE  <<role, p>> \in PromisedGrants
    BY <2>1, <1>3, Promised DEF StartInv, TablesAreDefault
  <2>2. \A g \in Selected(role) :
          \E p \in permissions : role \in roles /\ Selects(role, p) /\ g = <<role, p>>
    BY SelectedIs
  <2> QED BY <2>1, <2>2
<1>13. TablesAreDefault'
  BY <1>4, <1>12 DEF StartInv, TablesAreDefault, edits
<1>14. Selected(role) \subseteq STRING \X (STRING \X STRING)
  BY <1>3 DEF Selected, StartInv, StartTypeOK
<1>15. StartTypeOK'
  BY <1>4, <1>11, <1>14 DEF StartInv, StartTypeOK, edits
<1> QED BY <1>11, <1>13, <1>15 DEF StartInv

\* Administrators add and take away.
LEMMA EditsKeep ==
  ASSUME StartInv, NEW g \in Edits, AddGrant(g) \/ RemoveGrant(g)
  PROVE  StartInv'
<1>1. /\ UNCHANGED <<schema, roles, permissions, bucket, replica, faults>>
      /\ grants \cup removed \subseteq (grants \cup removed)'
      /\ grants' \ added' \subseteq grants \ added
      /\ grants' \subseteq grants \cup Edits
      /\ added' \subseteq Edits /\ removed' \subseteq Edits
  BY DEF AddGrant, RemoveGrant, StartInv, StartTypeOK
<1>2. ASSUME NEW s \in Replicas PROVE Progress(s)'
  <2>1. replica[s].next \in Int /\ Progress(s)
    BY Counts DEF StartInv, StartTypeOK
  <2>2. ASSUME replica[s].at = "seed", NEW i \in 1..(replica[s].next - 1)
        PROVE  Effect(i)'
    BY <1>1, <2>1, <2>2, EffectsStay DEF Progress
  <2>3. ASSUME replica[s].at \in {"bucket", "make", "serving"}, NEW i \in 1..Statements
        PROVE  Effect(i)'
    BY <1>1, <2>1, <2>3, EffectsStay, Counts DEF Progress
  <2> QED BY <1>1, <2>2, <2>3 DEF Progress
<1>3. TablesAreDefault'
  BY <1>1 DEF StartInv, TablesAreDefault
<1>4. StartTypeOK'
  BY <1>1, TablesAssumption DEF StartInv, StartTypeOK
<1> QED BY <1>2, <1>3, <1>4 DEF StartInv

\* The operator's repair touches the version alone.
LEMMA RepairKeeps ==
  ASSUME StartInv, Repair
  PROVE  StartInv'
<1>1. ASSUME NEW s \in Replicas PROVE Progress(s)'
  BY DEF Repair, Progress, Effect, StartInv, tables, edits
<1>2. StartTypeOK'
  BY DEF Repair, StartInv, StartTypeOK, Schemas, tables, edits
<1>3. TablesAreDefault'
  BY DEF Repair, StartInv, TablesAreDefault, tables, edits
<1> QED BY <1>1, <1>2, <1>3 DEF StartInv

LEMMA StartStep ==
  ASSUME StartInv, StartNext
  PROVE  StartInv'
BY StagesKeep, SeedRoleKeeps, SeedPermissionKeeps, SeedGrantsKeeps, EditsKeep, RepairKeeps
   DEF StartNext, Step

-----------------------------------------------------------------------------
(* Assignments and revocations.                                            *)

AccessTypeOK ==
  /\ clock \in 0..MaxClock
  /\ userRole \in [Keys -> UserRoleRows]
  /\ revoking \subseteq Pairs /\ seen \subseteq Keys
  /\ assigned \subseteq Keys /\ during \subseteq Keys
  /\ until \in [Keys -> Expiries]

\* The rows beside what administrators asked for.  A row that a revocation under
\* way has not found is younger than its beginning: this is what lets the
\* revocation forget the older assignments when it commits.
RowIsAssigned(k) ==
  /\ userRole[k].state = "active" => k \in assigned
  /\ userRole[k].state # "none" => userRole[k].expires = until[k]
  /\ PairOf(k) \in revoking /\ userRole[k].state # "none" /\ k \notin seen => k \in during
  /\ k \in seen => userRole[k].state # "none"

AccessInv ==
  /\ AccessTypeOK
  /\ \A k \in Keys : RowIsAssigned(k)

IInv == StartInv /\ AccessInv

LEMMA AssignKeeps ==
  ASSUME AccessInv, NEW k \in Keys, NEW expires \in Expiries, AssignRole(k, expires)
  PROVE  AccessInv'
<1>1. AccessTypeOK'
  BY DEF AssignRole, AccessInv, AccessTypeOK, UserRoleRows
<1>2. ASSUME NEW j \in Keys PROVE RowIsAssigned(j)'
  <2>1. CASE j = k
    <3>1. /\ userRole'[k] = [state |-> "active", expires |-> expires] /\ until'[k] = expires
          /\ k \in assigned' /\ revoking' = revoking
          /\ PairOf(k) \in revoking => k \in during'
      BY DEF AssignRole, AccessInv, AccessTypeOK
    <3> QED BY <2>1, <3>1 DEF RowIsAssigned
  <2>2. CASE j # k
    <3>1. /\ userRole'[j] = userRole[j] /\ until'[j] = until[j]
          /\ assigned \subseteq assigned' /\ during \subseteq during'
          /\ revoking' = revoking /\ seen' = seen
      BY <2>2 DEF AssignRole, AccessInv, AccessTypeOK
    <3> QED BY <3>1 DEF RowIsAssigned, AccessInv
  <2> QED BY <2>1, <2>2
<1> QED BY <1>1, <1>2 DEF AccessInv

LEMMA ScopesAre ==
  ASSUME NEW pair, NEW k \in Keys
  PROVE  k \in ScopesOf(pair) <=> PairOf(k) = pair
BY DEF ScopesOf

LEMMA RevokeBeginsKeeps ==
  ASSUME AccessInv, NEW pair \in Pairs, RevokeBegins(pair)
  PROVE  AccessInv'
<1>1. AccessTypeOK'
  BY DEF RevokeBegins, AccessInv, AccessTypeOK, ScopesOf, history
<1>2. ASSUME NEW k \in Keys PROVE RowIsAssigned(k)'
  <2>1. /\ userRole' = userRole /\ assigned' = assigned /\ during' = during
        /\ until' = until /\ revoking' = revoking \cup {pair} /\ seen \subseteq seen'
    BY DEF RevokeBegins, history
  <2>2. /\ PairOf(k) = pair /\ userRole[k].state # "none" => k \in seen'
        /\ k \in seen' => k \in seen \/ userRole[k].state # "none"
    BY ScopesAre DEF RevokeBegins
  <2> QED BY <2>1, <2>2 DEF RowIsAssigned, AccessInv
<1> QED BY <1>1, <1>2 DEF AccessInv

\* A revocation that commits revokes what it found, and what it did not find
\* was assigned since it began.
LEMMA RevokeRoleKeeps ==
  ASSUME AccessInv, NEW pair \in Pairs, RevokeRole(pair)
  PROVE  AccessInv'
<1>1. AccessTypeOK'
  <2>1. \A k \in Keys : [state |-> "revoked", expires |-> userRole[k].expires] \in UserRoleRows
    BY DEF AccessInv, AccessTypeOK, UserRoleRows
  <2>2. userRole' \in [Keys -> UserRoleRows]
    BY <2>1 DEF RevokeRole, AccessInv, AccessTypeOK
  <2> QED BY <2>2 DEF RevokeRole, RevokeReturns, AccessInv, AccessTypeOK
<1>2. ASSUME NEW k \in Keys PROVE RowIsAssigned(k)'
  <2>0. RowIsAssigned(k) /\ until' = until /\ pair \in revoking
    BY DEF AccessInv, RevokeRole, RevokeReturns
  <2>1. CASE PairOf(k) # pair
    <3>1. /\ userRole'[k] = userRole[k] /\ (k \in assigned => k \in assigned')
          /\ (k \in during => k \in during') /\ (k \in seen => k \in seen')
          /\ (PairOf(k) \in revoking' => PairOf(k) \in revoking)
          /\ (k \in seen' => k \in seen)
      BY <2>1, ScopesAre DEF RevokeRole, RevokeReturns
    <3> QED BY <2>0, <3>1 DEF RowIsAssigned
  <2>2. CASE PairOf(k) = pair /\ k \in seen
    <3>1. userRole'[k] = [state |-> "revoked", expires |-> userRole[k].expires]
      BY <2>2, ScopesAre DEF RevokeRole
    <3>2. userRole[k].state # "none"
      BY <2>0, <2>2 DEF RowIsAssigned
    <3> QED BY <2>0, <2>2, <3>1, <3>2 DEF RowIsAssigned, RevokeRole, RevokeReturns
  <2>3. CASE PairOf(k) = pair /\ k \notin seen
    <3>1. userRole'[k] = userRole[k] /\ PairOf(k) \notin revoking' /\ k \notin seen'
      BY <2>3, ScopesAre DEF RevokeRole, RevokeReturns
    <3>2. userRole[k].state # "none" => k \in assigned'
      BY <2>0, <2>3, ScopesAre DEF RowIsAssigned, RevokeRole
    <3> QED BY <2>0, <3>1, <3>2 DEF RowIsAssigned
  <2> QED BY <2>1, <2>2, <2>3
<1> QED BY <1>1, <1>2 DEF AccessInv

LEMMA RevokeFailsKeeps ==
  ASSUME AccessInv, NEW pair \in Pairs, RevokeFails(pair)
  PROVE  AccessInv'
<1>1. AccessTypeOK'
  BY DEF RevokeFails, RevokeReturns, AccessInv, AccessTypeOK
<1>2. ASSUME NEW k \in Keys PROVE RowIsAssigned(k)'
  <2>1. RowIsAssigned(k) /\ UNCHANGED <<userRole, assigned, until>>
    BY DEF AccessInv, RevokeFails
  <2>2. /\ k \in seen' => k \in seen
        /\ \/ PairOf(k) \notin revoking'
           \/ /\ PairOf(k) \in revoking
              /\ (k \in during => k \in during') /\ (k \in seen => k \in seen')
    BY ScopesAre DEF RevokeFails, RevokeReturns
  <2> QED BY <2>1, <2>2 DEF RowIsAssigned
<1> QED BY <1>1, <1>2 DEF AccessInv

LEMMA AccessStep ==
  ASSUME AccessInv, [Next]_vars
  PROVE  AccessInv'
<1>1. CASE UNCHANGED accessVars
  BY <1>1 DEF accessVars, history, AccessInv, AccessTypeOK, RowIsAssigned
<1>2. CASE Tick
  <2>1. clock' \in 0..MaxClock
    BY <1>2, ClockAssumption DEF Tick, AccessInv, AccessTypeOK
  <2> QED BY <1>2, <2>1 DEF Tick, history, AccessInv, AccessTypeOK, RowIsAssigned
<1>3. CASE UNCHANGED vars
  BY <1>1, <1>3 DEF vars
<1> QED BY <1>1, <1>2, <1>3, AssignKeeps, RevokeBeginsKeeps, RevokeRoleKeeps, RevokeFailsKeeps
        DEF Next

LEMMA InitImpliesInvariant == Init => IInv
<1> SUFFICES ASSUME Init PROVE IInv
  OBVIOUS
<1>1. StartTypeOK
  <2>1. 1 \in 1..Statements /\ 0 \in 0..MaxFaults /\ "down" \in Stages /\ "empty" \in Schemas
    BY Counts, FaultsAssumption DEF Stages, Schemas
  <2> QED BY <2>1 DEF Init, StartInit, StartTypeOK
<1>2. TablesAreDefault
  BY DEF Init, StartInit, TablesAreDefault
<1>3. \A r \in Replicas : Progress(r)
  BY DEF Init, StartInit, Progress
<1>4. AccessTypeOK
  <2>1. 0 \in 0..MaxClock
    BY ClockAssumption
  <2>2. [state |-> "none", expires |-> Null] \in UserRoleRows /\ Null \in Expiries
    BY DEF UserRoleRows, Expiries
  <2> QED BY <2>1, <2>2 DEF Init, AccessTypeOK
<1>5. \A k \in Keys : RowIsAssigned(k)
  BY DEF Init, RowIsAssigned
<1> QED BY <1>1, <1>2, <1>3, <1>4, <1>5 DEF IInv, StartInv, AccessInv

LEMMA NextKeepsInvariant == IInv /\ [Next]_vars => IInv'
<1> SUFFICES ASSUME IInv, [Next]_vars PROVE IInv'
  OBVIOUS
<1>1. AccessInv'
  BY AccessStep DEF IInv
<1>2. ASSUME UNCHANGED startVars PROVE StartInv'
  BY <1>2 DEF IInv, StartInv, StartTypeOK, TablesAreDefault, Progress, Effect, startVars,
              tables, edits
<1>3. CASE StartNext
  BY <1>1, <1>3, StartStep DEF IInv
<1>4. CASE ~StartNext
  <2>1. UNCHANGED startVars
    BY <1>4 DEF Next, vars, AssignRole, RevokeBegins, RevokeRole, RevokeFails, Tick
  <2> QED BY <1>1, <1>2, <2>1 DEF IInv
<1> QED BY <1>1, <1>3, <1>4 DEF IInv

LEMMA InvariantImplies == IInv => TypeOK /\ SeedIsExact /\ RevokedIsRefused
<1> SUFFICES ASSUME IInv PROVE TypeOK /\ SeedIsExact /\ RevokedIsRefused
  OBVIOUS
<1>1. TypeOK
  BY DEF IInv, StartInv, AccessInv, AccessTypeOK, TypeOK
<1>2. grants \subseteq PromisedGrants \cup added
  BY DEF IInv, StartInv, TablesAreDefault
<1>3. ASSUME NEW r \in Serving, NEW g \in PromisedGrants PROVE g \in grants \cup removed
  <2>1. \A i \in 1..Statements : Effect(i)
    BY <1>3 DEF IInv, StartInv, Progress, Serving
  <2>2. PICK role \in RoleSet, p \in PermissionSet : g = <<role, p>>
    BY DEF PromisedGrants, DefaultGrants, RoleSet, PermissionSet
  <2>3. PICK j \in 1..Len(Grantees) : role = Grantees[j] /\ Selects(role, p)
    BY <1>3, <2>2, Promised
  <2>4. PICK n \in 1..Statements : n = RoleCount + PermissionCount + j
    BY Counts
  <2>5. /\ n \in (RoleCount + PermissionCount + 1)..Statements
        /\ n - RoleCount - PermissionCount = j
    BY <2>4, Counts
  <2> QED BY <2>1, <2>2, <2>3, <2>5 DEF Effect
<1>4. SeedIsExact
  BY <1>2, <1>3 DEF SeedIsExact
<1>5. ASSUME NEW q \in Requests, HasPermission(q) PROVE Entitled(q)
  <2>1. PICK k \in Keys :
          /\ k.user = q.user
          /\ userRole[k].state = "active"
          /\ userRole[k].expires # Null => userRole[k].expires > clock
          /\ k.institution \in {Null, q.institution}
          /\ <<k.role, q.permission>> \in grants
    BY <1>5 DEF HasPermission
  <2>2. k \in assigned /\ userRole[k].expires = until[k]
    BY <2>1 DEF IInv, AccessInv, RowIsAssigned
  <2> QED BY <1>2, <2>1, <2>2 DEF Entitled
<1> QED BY <1>1, <1>4, <1>5 DEF RevokedIsRefused

\* The invariant holds in every state: the tables hold what the lists and the
\* administrators put there, what a replica has seeded stays, and each active
\* assignment is one no revocation has reached.
THEOREM InvariantCorrect == Spec => []IInv
BY InitImpliesInvariant, NextKeepsInvariant, PTL DEF Spec

\* Tables, replicas and assignments keep their types.
THEOREM TypeCorrect == Spec => []TypeOK
BY InvariantCorrect, InvariantImplies, PTL

\* The seeder gives each role its row, no more and no less, whatever replicas
\* do beside it, wherever it is broken off, and whatever administrators edit.
THEOREM SeedCorrect == Spec => []SeedIsExact
BY InvariantCorrect, InvariantImplies, PTL

\* No request passes by a role that was revoked or has expired, however many
\* assignments overlap with the revocation and whatever is seeded beside them.
THEOREM RevokedCorrect == Spec => []RevokedIsRefused
BY InvariantCorrect, InvariantImplies, PTL
=============================================================================
