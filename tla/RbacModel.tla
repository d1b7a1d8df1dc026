------------------------------ MODULE RbacModel ------------------------------
(***************************************************************************)
(* The roles, permissions and grants the server seeds: the tables of       *)
(* internal/rbac/model.go and internal/rbac/seeder.go.                     *)
(***************************************************************************)
EXTENDS Sequences

AllRoles ==
  <<"superadmin", "institution_admin", "registrar", "department_head",
    "department_staff", "approver", "archiver", "citizen", "external_entity">>

\* A permission is <<action, subject>>.
AllPermissions ==
  <<<<"create", "document">>, <<"read", "document">>, <<"update", "document">>,
    <<"delete", "document">>, <<"archive", "document">>, <<"deliver", "document">>,
    <<"assign", "workflow">>, <<"approve", "workflow">>, <<"reject", "workflow">>,
    <<"read", "workflow">>,
    <<"create", "registry">>, <<"read", "registry">>, <<"update", "registry">>,
    <<"create", "user">>, <<"read", "user">>, <<"update", "user">>,
    <<"assign", "role">>, <<"revoke", "role">>,
    <<"create", "institution">>, <<"read", "institution">>, <<"update", "institution">>,
    <<"read", "report">>, <<"export", "report">>,
    <<"read", "archive">>, <<"manage", "archive">>>>

\* The roles that are granted permissions, one INSERT each, in this order.
GrantOrder ==
  <<"superadmin", "registrar", "department_head", "department_staff", "archiver">>

\* The WHERE of each INSERT; superadmin gets every permission there is.
Selects(role, p) ==
  \/ role = "superadmin"
  \/ role = "registrar"
       /\ p \in ({"create", "read", "update"} \X {"document"})
                  \cup ({"read"} \X {"registry"}) \cup ({"read", "assign"} \X {"workflow"})
  \/ role = "department_head"
       /\ p \in ({"read", "update"} \X {"document"}) \cup ({"read"} \X {"report"})
                  \cup ({"assign", "approve", "reject", "read"} \X {"workflow"})
  \/ role = "department_staff"
       /\ p \in ({"read", "update"} \X {"document"}) \cup ({"read"} \X {"workflow"})
  \/ role = "archiver"
       /\ p \in ({"read", "archive"} \X {"document"}) \cup ({"read"} \X {"report"})
                  \cup ({"read", "manage"} \X {"archive"})
=============================================================================
