-------------------------------- MODULE Access --------------------------------
(***************************************************************************)
(* Role-based access, internal/rbac: administrators assign roles to users  *)
(* with a scope and an expiry, and revoke them, on the tables the replicas *)
(* of Startup seed. The middleware Require only reads: it lets a request   *)
(* pass to its handler in a state where HasPermission is true of it.       *)
(***************************************************************************)
EXTENDS Startup

CONSTANTS
  Keys,           \* assignments: [user, role, institution, compartiment]
  Requests,       \* guarded requests: [user, institution, permission]
  MaxClock,       \* bound: time stops here
  Null            \* NULL, an absent header

Expiries == (1..MaxClock) \cup {Null}

ASSUME ClockAssumption == MaxClock \in Nat /\ Null \notin Int

VARIABLES
  clock,          \* NOW()
  userRole,       \* userRole[k]: the row of user_roles with the key k
  revoking,       \* the <<user, role>> pairs of RevokeRole calls under way
  seen,           \* the rows their UPDATEs have found
  assigned,       \* history: scopes assigned since the last revocation began
  during,         \* history: of these, since the one under way began
  until           \* history: the expiry the last AssignRole gave

history == <<assigned, during, until>>
accessVars == <<clock, userRole, revoking, seen, history>>
vars == <<startVars, accessVars>>

\* "none" is no row.
UserRoleRows == [state : {"none", "active", "revoked"}, expires : Expiries]

PairOf(k) == <<k.user, k.role>>
Pairs == {PairOf(k) : k \in Keys}
ScopesOf(pair) == {k \in Keys : PairOf(k) = pair}

Init ==
  /\ StartInit
  /\ clock = 0
  /\ userRole = [k \in Keys |-> [state |-> "none", expires |-> Null]]
  /\ revoking = {} /\ seen = {}
  /\ assigned = {} /\ during = {} /\ until = [k \in Keys |-> Null]

-----------------------------------------------------------------------------
(* Assignments: single statements, under READ COMMITTED.                   *)

\* INSERT ... ON CONFLICT (user, role and scope) DO UPDATE. On a row that a
\* RevokeRole has locked it waits, and comes after that.
AssignRole(k, expires) ==
  /\ Serving # {}
  /\ k.role \in roles
  /\ userRole' = [userRole EXCEPT ![k] = [state |-> "active", expires |-> expires]]
  /\ assigned' = assigned \cup {k}
  /\ during' = IF PairOf(k) \in revoking THEN during \cup {k} ELSE during
  /\ until' = [until EXCEPT ![k] = expires]
  /\ UNCHANGED <<startVars, clock, revoking, seen>>

\* The UPDATE of RevokeRole starts and finds the rows, active or not, that are
\* committed by now. One at a time for a user and a role (a bound).
RevokeBegins(pair) ==
  /\ Serving # {}
  /\ pair \notin revoking
  /\ revoking' = revoking \cup {pair}
  /\ seen' = seen \cup {k \in ScopesOf(pair) : userRole[k].state # "none"}
  /\ UNCHANGED <<startVars, clock, userRole, history>>

RevokeReturns(pair) ==
  /\ pair \in revoking
  /\ revoking' = revoking \ {pair}
  /\ seen' = seen \ ScopesOf(pair)
  /\ during' = during \ ScopesOf(pair)

\* Mutant: only the assignments without an institution.
MutantRevokeGlobal(pair) ==
  /\ RevokeReturns(pair)
  /\ userRole' = [k \in Keys |->
       IF k \in seen \cap ScopesOf(pair) /\ k.institution = Null
         THEN [state |-> "revoked", expires |-> userRole[k].expires]
         ELSE userRole[k]]
  /\ assigned' = (assigned \ ScopesOf(pair)) \cup (during \cap ScopesOf(pair))
  /\ UNCHANGED <<startVars, clock, until>>

\* The UPDATE commits: the rows it found are not active, in every scope, those
\* included that were assigned anew since it found them.
RevokeRole(pair) ==
  /\ RevokeReturns(pair)
  /\ userRole' = [k \in Keys |->
       IF k \in seen \cap ScopesOf(pair)
         THEN [state |-> "revoked", expires |-> userRole[k].expires]
         ELSE userRole[k]]
  /\ assigned' = (assigned \ ScopesOf(pair)) \cup (during \cap ScopesOf(pair))
  /\ UNCHANGED <<startVars, clock, until>>

\* It fails, or its replica dies, and is rolled back.
RevokeFails(pair) ==
  /\ RevokeReturns(pair)
  /\ UNCHANGED <<startVars, clock, userRole, assigned, until>>

-----------------------------------------------------------------------------
(* Requests.                                                               *)

\* The query of HasPermission, as Require asks it. Without the header only
\* assignments for every institution count. The compartiment of an assignment
\* and the condition of a permission are not looked at.
HasPermission(q) ==
  \E k \in Keys :
    /\ k.user = q.user
    /\ userRole[k].state = "active"
    /\ userRole[k].expires # Null => userRole[k].expires > clock
    /\ k.institution \in {Null, q.institution}
    /\ <<k.role, q.permission>> \in grants

Tick ==
  /\ clock < MaxClock
  /\ clock' = clock + 1
  /\ UNCHANGED <<startVars, userRole, revoking, seen, history>>

Next ==
  \/ StartNext /\ UNCHANGED accessVars
  \/ \E k \in Keys, expires \in Expiries : AssignRole(k, expires)
  \/ \E pair \in Pairs : RevokeBegins(pair) \/ RevokeRole(pair) \/ RevokeFails(pair)
  \/ Tick

Spec == Init /\ [][Next]_vars /\ StartFairness

-----------------------------------------------------------------------------
(* Properties.                                                             *)

TypeOK ==
  /\ StartTypeOK
  /\ clock \in 0..MaxClock
  /\ userRole \in [Keys -> UserRoleRows]
  /\ revoking \subseteq Pairs /\ seen \subseteq Keys
  /\ assigned \subseteq Keys /\ during \subseteq Keys
  /\ until \in [Keys -> Expiries]

\* What can let a request pass: an assignment to its user, in every institution
\* or in the one it names, that was made since the last revocation of this role
\* from him began, and whose expiry, as last given, is yet to come; and the
\* role has the permission from its row or from an administrator.
Entitled(q) ==
  \E k \in assigned :
    /\ k.user = q.user
    /\ until[k] # Null => until[k] > clock
    /\ k.institution \in {Null, q.institution}
    /\ <<k.role, q.permission>> \in PromisedGrants \cup added

\* A revoked or expired role lets nobody pass, whatever assignments, other
\* scopes, restarts of the seeder and revocations that overlap with them or
\* fail come between (service.go:82-106, middleware.go:39).
RevokedIsRefused == \A q \in Requests : HasPermission(q) => Entitled(q)
=============================================================================
