--------------------------- MODULE DocumentWorkflow ---------------------------
(***************************************************************************)
(* What the workflow engine promises about a document, with no             *)
(* transactions in it: "it validates the transition, updates the document, *)
(* and logs the event atomically" (internal/workflow/engine.go:25-26).     *)
(* A document has a status and a history; an accepted action changes both  *)
(* in one step, along the transition table, and nothing else does.         *)
(***************************************************************************)
EXTENDS WorkflowModel, Sequences

CONSTANT Docs

VARIABLES
  status,    \* status[d]: "ABSENT" before registration, then a member of Statuses
  history    \* history[d]: the accepted actions of d, in order of acceptance

vars == <<status, history>>

Init ==
  /\ status  = [d \in Docs |-> "ABSENT"]
  /\ history = [d \in Docs |-> <<>>]

\* Registration gives the document its first status and no event.
Register(d) ==
  /\ status[d] = "ABSENT"
  /\ status' = [status EXCEPT ![d] = "INREGISTRAT"]
  /\ UNCHANGED history

\* An accepted action: the status and the history move together.
Transition(d, action, new) ==
  /\ Allows(status[d], action, new)
  /\ status'  = [status EXCEPT ![d] = new]
  /\ history' = [history EXCEPT ![d] =
                   Append(@, [action |-> action, old |-> status[d], new |-> new])]

Next ==
  \E d \in Docs :
    \/ Register(d)
    \/ \E action \in Actions, new \in Statuses : Transition(d, action, new)

Spec == Init /\ [][Next]_vars
=============================================================================
