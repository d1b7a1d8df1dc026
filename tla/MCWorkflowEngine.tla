--------------------------- MODULE MCWorkflowEngine ---------------------------
(***************************************************************************)
(* Instance of WorkflowEngine for TLC: the requests callers send.          *)
(***************************************************************************)
EXTENDS WorkflowEngine

CONSTANTS k1, u1, u2, m1

Plain(action) ==
  [action |-> action, compartiment |-> Null, assignee |-> Null, motiv |-> Null]

\* Every action of the table with the fields it needs, and an approval request
\* that must be refused because it names no approver.
MCRequests ==
  { [Plain("ASSIGN_COMPARTIMENT") EXCEPT !.compartiment = k1],
    [Plain("ASSIGN_USER") EXCEPT !.assignee = u1],
    [Plain("SEND_FOR_APPROVAL") EXCEPT !.assignee = u2],
    Plain("SEND_FOR_APPROVAL"),
    Plain("APPROVE"), Plain("REJECT"), Plain("FINALIZE"),
    [Plain("CANCEL") EXCEPT !.motiv = m1] }

\* The walk that reaches a rejection and an approval: enough for the orders of
\* the audit trail and for the statement about rejected documents.
MCFewRequests ==
  { [Plain("ASSIGN_COMPARTIMENT") EXCEPT !.compartiment = k1],
    [Plain("ASSIGN_USER") EXCEPT !.assignee = u1],
    [Plain("SEND_FOR_APPROVAL") EXCEPT !.assignee = u2],
    Plain("REJECT") }
=============================================================================
