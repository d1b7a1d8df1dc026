------------------------------- MODULE MCAccess -------------------------------
(***************************************************************************)
(* Instance of Access for TLC: the rows of the tables about reports.      *)
(***************************************************************************)
EXTENDS Access

CONSTANTS u1, i1, d1

MCDefaultRoles == SelectSeq(AllRoles, LAMBDA r : r \in {"superadmin", "archiver"})
MCGrantees == SelectSeq(GrantOrder, LAMBDA r : r \in {"superadmin", "archiver"})
MCDefaultPermissions == SelectSeq(AllPermissions, LAMBDA p : p[2] = "report")
MCEdits == {<<"archiver", <<"read", "report">>>>}

\* The same role everywhere, and in one compartiment of one institution.
MCKeys ==
  {[user |-> u1, role |-> "archiver", institution |-> Null, compartiment |-> Null],
   [user |-> u1, role |-> "archiver", institution |-> i1, compartiment |-> d1]}
MCRequests == {[user |-> u1, institution |-> i1, permission |-> <<"read", "report">>]}
=============================================================================
