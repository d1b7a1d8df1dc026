---------------------------- MODULE WorkflowModel ----------------------------
(***************************************************************************)
(* The document life cycle of internal/workflow/model.go: the statuses a   *)
(* document can have, the actions a user can request and the transition    *)
(* table.  Shared by the abstract life cycle (DocumentWorkflow), by the    *)
(* engine (WorkflowEngine) and by the archive (ArchiveWorker).             *)
(***************************************************************************)

Statuses == {"INREGISTRAT", "ALOCAT_COMPARTIMENT", "IN_LUCRU",
             "FLUX_APROBARE", "FINALIZAT", "ARHIVAT", "ANULAT"}

\* CREATE and ADD_COMMENT are declared but no status accepts them.
Actions == {"CREATE", "ASSIGN_COMPARTIMENT", "ASSIGN_USER",
            "SEND_FOR_APPROVAL", "APPROVE", "REJECT", "FINALIZE",
            "CANCEL", "ADD_COMMENT"}

\* <<current status, action, new status>>
ValidTransitions ==
  { <<"INREGISTRAT",         "ASSIGN_COMPARTIMENT", "ALOCAT_COMPARTIMENT">>,
    <<"INREGISTRAT",         "CANCEL",              "ANULAT">>,
    <<"ALOCAT_COMPARTIMENT", "ASSIGN_USER",         "IN_LUCRU">>,
    <<"ALOCAT_COMPARTIMENT", "CANCEL",              "ANULAT">>,
    <<"IN_LUCRU",            "SEND_FOR_APPROVAL",   "FLUX_APROBARE">>,
    <<"IN_LUCRU",            "FINALIZE",            "FINALIZAT">>,
    <<"IN_LUCRU",            "CANCEL",              "ANULAT">>,
    <<"FLUX_APROBARE",       "APPROVE",             "FINALIZAT">>,
    <<"FLUX_APROBARE",       "REJECT",              "IN_LUCRU">>,
    <<"FLUX_APROBARE",       "CANCEL",              "ANULAT">> }

\* Mutant: an assigned document can be handed to another user in place.
MutantReassignInPlace(old, action, new) ==
  \/ <<old, action, new>> \in ValidTransitions
  \/ old = "IN_LUCRU" /\ action = "ASSIGN_USER" /\ new = "IN_LUCRU"

\* Mutant: a finalised document can still be cancelled.
MutantCancelFinal(old, action, new) ==
  \/ <<old, action, new>> \in ValidTransitions
  \/ old = "FINALIZAT" /\ action = "CANCEL" /\ new = "ANULAT"

\* The double map lookup of Advance: the action is allowed in status old and
\* leads to status new.
Allows(old, action, new) == <<old, action, new>> \in ValidTransitions
=============================================================================
