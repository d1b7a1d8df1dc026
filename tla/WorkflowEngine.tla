---------------------------- MODULE WorkflowEngine ----------------------------
(***************************************************************************)
(* Engine.Advance (internal/workflow/engine.go) run by concurrent callers  *)
(* against PostgreSQL, one statement per step.                             *)
(*                                                                         *)
(* A call is one RepeatableRead transaction:                               *)
(*   BEGIN                    the server fixes NOW() for the transaction   *)
(*   SELECT ... FOR UPDATE    takes the snapshot, then waits for the row   *)
(*                            lock; if the row was rewritten after the     *)
(*                            snapshot the statement fails (SQLSTATE 40001)*)
(*   checks in Go             a refusal returns, and the deferred Rollback *)
(*                            ends the transaction                         *)
(*   UPDATE documente, INSERT INTO workflow_events, COMMIT                 *)
(* The call can end in an error at every step (connection lost, statement  *)
(* error, context cancelled, pod killed): Abort.  A COMMIT whose answer is *)
(* lost leaves the same database as one that is acknowledged; the caller   *)
(* then may send the same request again, as any idle caller may.           *)
(*                                                                         *)
(* The row also has writers outside the engine: registration creates it,   *)
(* an external system sets workflow_locked_until, and the archive pipeline *)
(* and the delivery dispatcher rewrite their own columns of it.            *)
(***************************************************************************)
EXTENDS WorkflowModel, Naturals, Sequences, FiniteSets

CONSTANTS
  Docs,            \* documents
  Callers,         \* concurrent calls of Advance (goroutines of any replica)
  Requests,        \* the ActionRequests callers send
  Compartments,    \* compartimente ids
  Subjects,        \* user subjects
  Reasons,         \* non-empty motiv texts
  Null,            \* SQL NULL, a nil pointer, the empty string, no row
  MaxClock,        \* bound: the clock stops here
  MaxEvents        \* bound: no call starts on a document with this many events

Optional(S) == S \cup {Null}

RequestType ==
  [action : Actions, compartiment : Optional(Compartments),
   assignee : Optional(Subjects), motiv : Optional(Reasons)]

\* A row of documente, restricted to the columns the workflow uses.
\* lockedUntil is an instant; 0, the first one, stands for NULL.
Rows ==
  [status : Statuses, compartiment : Optional(Compartments),
   user : Optional(Subjects), approver : Optional(Subjects),
   lockedUntil : Nat, rejections : Nat,
   finalizedAt : Optional(Nat), motiv : Optional(Reasons)]

ASSUME RequestsAssumption == Requests \subseteq RequestType
ASSUME NullAssumption ==
  /\ Null \notin Docs /\ Null \notin Callers
  /\ Null \notin Rows /\ Null \notin Requests /\ Null \notin Nat
ASSUME BoundsAssumption == MaxClock \in Nat /\ MaxEvents \in Nat

VARIABLES
  clock,     \* time, the same for the database and the application hosts
  doc,       \* doc[d]: the committed row of d, Null before it is created
  log,       \* log[d]: the committed rows of workflow_events, in commit order
  lockedBy,  \* lockedBy[d]: the caller holding the row lock of d, or Null
  tx         \* tx[c]: the transaction of caller c

vars == <<clock, doc, log, lockedBy, tx>>

Phases == {"idle", "begun", "waiting", "locked", "updated", "logged"}

Events ==
  [action : Actions, old : Statuses, new : Statuses, createdAt : Nat,
   toCompartment : Optional(Compartments), assignee : Optional(Subjects),
   motiv : Optional(Reasons)]

TxType ==
  [phase : Phases,
   doc   : Optional(Docs),
   req   : Optional(Requests),
   began : Nat,               \* NOW() of the transaction
   stale : BOOLEAN,           \* the row was rewritten after the snapshot
   read  : Optional(Rows),    \* the row the SELECT returned
   write : Optional(Rows),    \* the row the UPDATE wrote, not yet committed
   event : Optional(Events)]  \* the row the INSERT wrote, not yet committed

IdleTx ==
  [phase |-> "idle", doc |-> Null, req |-> Null, began |-> 0, stale |-> FALSE,
   read |-> Null, write |-> Null, event |-> Null]

\* The row defaults of migrations/000006_documents.up.sql.
NewDocument ==
  [status |-> "INREGISTRAT", compartiment |-> Null, user |-> Null,
   approver |-> Null, lockedUntil |-> 0, rejections |-> 0,
   finalizedAt |-> Null, motiv |-> Null]

Init ==
  /\ clock = 0
  /\ doc = [d \in Docs |-> Null]
  /\ log = [d \in Docs |-> <<>>]
  /\ lockedBy = [d \in Docs |-> Null]
  /\ tx = [c \in Callers |-> IdleTx]

\* GetAuditTrail lists event f before event e: ORDER BY created_at ASC.
ListedBefore(f, e) == f.createdAt < e.createdAt

-----------------------------------------------------------------------------
(* The pure parts of Advance.                                              *)

\* Mutant: SEND_FOR_APPROVAL no longer asks for the approver.
MutantApproverOptional(req) ==
  /\ req.action = "ASSIGN_COMPARTIMENT" => req.compartiment # Null
  /\ req.action = "ASSIGN_USER" => req.assignee # Null
  /\ req.action = "CANCEL" => req.motiv # Null

\* Action-specific requirements (engine.go:66-83).
HasRequiredFields(req) ==
  /\ req.action = "ASSIGN_COMPARTIMENT" => req.compartiment # Null
  /\ req.action \in {"ASSIGN_USER", "SEND_FOR_APPROVAL"} => req.assignee # Null
  /\ req.action = "CANCEL" => req.motiv # Null

\* Mutant: a cleared column is set to the empty string instead of NULL.
MutantGivenEmpty(condition, value) == IF condition THEN value ELSE ""

\* A column an action sets or else clears: nil means NULL (engine.go:85-94).
Given(condition, value) == IF condition THEN value ELSE Null

\* The row after the UPDATE (engine.go:87-147).  Columns not named by an action
\* are cleared, except compartiment_curent_id and rejection_count.
UpdatedRow(row, req, new, now) ==
  [status       |-> new,
   compartiment |-> IF req.action = "ASSIGN_COMPARTIMENT"
                      THEN req.compartiment ELSE row.compartiment,
   user         |-> Given(req.action = "ASSIGN_USER", req.assignee),
   approver     |-> Given(req.action = "SEND_FOR_APPROVAL", req.assignee),
   lockedUntil  |-> 0,
   rejections   |-> IF req.action = "REJECT"
                      THEN row.rejections + 1 ELSE row.rejections,
   finalizedAt  |-> Given(req.action \in {"APPROVE", "FINALIZE"}, now),
   motiv        |-> Given(req.action = "CANCEL", req.motiv)]

\* The event of a call (engine.go:152-168).  created_at defaults to NOW(),
\* which PostgreSQL fixes when the transaction starts.
EventOf(t) ==
  [action |-> t.req.action, old |-> t.read.status, new |-> t.write.status,
   createdAt |-> t.began, toCompartment |-> t.req.compartiment,
   assignee |-> t.req.assignee, motiv |-> t.req.motiv]

\* Mutant: workflow_locked_until is not looked at.
MutantIgnoreLock(row, req, new) ==
  /\ Allows(row.status, req.action, new)
  /\ HasRequiredFields(req)

\* The refusals of engine.go:50-83 do not apply: the lock has expired, the
\* transition is in the table and the request has what the action needs.
Accepts(row, req, new) ==
  /\ clock >= row.lockedUntil
  /\ Allows(row.status, req.action, new)
  /\ HasRequiredFields(req)

-----------------------------------------------------------------------------
(* Row locks and snapshots of PostgreSQL.                                  *)

\* A committed write of row d makes the snapshot of every transaction that
\* still waits for the row stale.
Invalidated(d) ==
  [c \in Callers |->
     IF tx[c].phase = "waiting" /\ tx[c].doc = d
       THEN [tx[c] EXCEPT !.stale = TRUE] ELSE tx[c]]

\* The locks left when c ends its transaction.
Released(c) == [d \in Docs |-> IF lockedBy[d] = c THEN Null ELSE lockedBy[d]]

\* The transaction of c ends without a trace in the database.
RollBack(c) ==
  /\ tx' = [tx EXCEPT ![c] = IdleTx]
  /\ lockedBy' = Released(c)
  /\ UNCHANGED <<clock, doc, log>>

-----------------------------------------------------------------------------
(* Advance, one step per statement.                                        *)

Begin(c, d, req) ==
  /\ tx[c].phase = "idle"
  /\ Len(log[d]) < MaxEvents
  /\ tx' = [tx EXCEPT ![c] =
              [IdleTx EXCEPT !.phase = "begun", !.doc = d, !.req = req,
                             !.began = clock]]
  /\ UNCHANGED <<clock, doc, log, lockedBy>>

\* The snapshot holds no such row: "document not found".
NotFound(c) ==
  /\ tx[c].phase = "begun"
  /\ doc[tx[c].doc] = Null
  /\ RollBack(c)

\* The SELECT starts: the snapshot is taken and the lock requested.
TakeSnapshot(c) ==
  /\ tx[c].phase = "begun"
  /\ doc[tx[c].doc] # Null
  /\ tx' = [tx EXCEPT ![c] = [@ EXCEPT !.phase = "waiting"]]
  /\ UNCHANGED <<clock, doc, log, lockedBy>>

\* Mutant: SELECT without FOR UPDATE, at an isolation level that lets the
\* later UPDATE overwrite what others committed.
MutantSelectWithoutLock(c) ==
  /\ tx[c].phase = "waiting"
  /\ tx' = [tx EXCEPT ![c] =
              [@ EXCEPT !.phase = "locked", !.read = doc[tx[c].doc]]]
  /\ UNCHANGED <<clock, doc, log, lockedBy>>

\* The lock is free and the row is the one of the snapshot.
SelectForUpdate(c) ==
  /\ tx[c].phase = "waiting"
  /\ lockedBy[tx[c].doc] = Null
  /\ ~tx[c].stale
  /\ lockedBy' = [lockedBy EXCEPT ![tx[c].doc] = c]
  /\ tx' = [tx EXCEPT ![c] =
              [@ EXCEPT !.phase = "locked", !.read = doc[tx[c].doc]]]
  /\ UNCHANGED <<clock, doc, log>>

\* The lock is free and the row is newer than the snapshot: error 40001,
\* which Advance returns to its caller.
SerializationFailure(c) ==
  /\ tx[c].phase = "waiting"
  /\ lockedBy[tx[c].doc] = Null
  /\ tx[c].stale
  /\ RollBack(c)

\* Mutant: a refusal returns without ending the transaction.
MutantRefuseKeepsLock(c) ==
  /\ tx[c].phase = "locked"
  /\ \A new \in Statuses : ~Accepts(tx[c].read, tx[c].req, new)
  /\ tx' = [tx EXCEPT ![c] = IdleTx]
  /\ UNCHANGED <<clock, doc, log, lockedBy>>

\* One of the checks fails: Advance returns and the deferred Rollback runs.
Refuse(c) ==
  /\ tx[c].phase = "locked"
  /\ \A new \in Statuses : ~Accepts(tx[c].read, tx[c].req, new)
  /\ RollBack(c)

UpdateDocument(c) ==
  /\ tx[c].phase = "locked"
  /\ \E new \in Statuses :
       /\ Accepts(tx[c].read, tx[c].req, new)
       /\ tx' = [tx EXCEPT ![c] =
                   [@ EXCEPT !.phase = "updated",
                             !.write = UpdatedRow(tx[c].read, tx[c].req, new, clock)]]
  /\ UNCHANGED <<clock, doc, log, lockedBy>>

\* Mutant: the event is written through the pool instead of the transaction,
\* so it stays when the transaction does not.
MutantLogOutsideTx(c) ==
  /\ tx[c].phase = "updated"
  /\ tx' = [tx EXCEPT ![c] =
              [@ EXCEPT !.phase = "logged", !.event = EventOf(tx[c])]]
  /\ log' = [log EXCEPT ![tx[c].doc] = Append(@, EventOf(tx[c]))]
  /\ UNCHANGED <<clock, doc, lockedBy>>

LogEventTx(c) ==
  /\ tx[c].phase = "updated"
  /\ tx' = [tx EXCEPT ![c] =
              [@ EXCEPT !.phase = "logged", !.event = EventOf(tx[c])]]
  /\ UNCHANGED <<clock, doc, log, lockedBy>>

Commit(c) ==
  LET d == tx[c].doc
  IN  /\ tx[c].phase = "logged"
      /\ doc' = [doc EXCEPT ![d] = tx[c].write]
      /\ log' = [log EXCEPT ![d] = Append(@, tx[c].event)]
      /\ lockedBy' = Released(c)
      /\ tx' = [Invalidated(d) EXCEPT ![c] = IdleTx]
      /\ UNCHANGED clock

\* The call ends early: connection lost, context cancelled, statement error,
\* process killed.  PostgreSQL rolls the transaction back.
Abort(c) ==
  /\ tx[c].phase # "idle"
  /\ RollBack(c)

-----------------------------------------------------------------------------
(* The other writers of the row, and time.                                 *)

\* Registration (not in this repository's Go code) inserts the row.
Register(d) ==
  /\ doc[d] = Null
  /\ doc' = [doc EXCEPT ![d] = NewDocument]
  /\ UNCHANGED <<clock, log, lockedBy, tx>>

\* An external system freezes the workflow of d until a later instant.
SetWorkflowLock(d, until) ==
  /\ doc[d] # Null
  /\ lockedBy[d] = Null
  /\ until > clock
  /\ doc' = [doc EXCEPT ![d].lockedUntil = until]
  /\ tx' = Invalidated(d)
  /\ UNCHANGED <<clock, log, lockedBy>>

\* A single-statement UPDATE of archive_* or delivery_* columns.
OtherColumnsUpdate(d) ==
  /\ doc[d] # Null
  /\ lockedBy[d] = Null
  /\ tx' = Invalidated(d)
  /\ UNCHANGED <<clock, doc, log, lockedBy>>

Tick ==
  /\ clock < MaxClock
  /\ clock' = clock + 1
  /\ UNCHANGED <<doc, log, lockedBy, tx>>

-----------------------------------------------------------------------------
Next ==
  \/ \E c \in Callers :
       \/ \E d \in Docs, req \in Requests : Begin(c, d, req)
       \/ NotFound(c)
       \/ TakeSnapshot(c)
       \/ SelectForUpdate(c)
       \/ SerializationFailure(c)
       \/ Refuse(c)
       \/ UpdateDocument(c)
       \/ LogEventTx(c)
       \/ Commit(c)
       \/ Abort(c)
  \/ \E d \in Docs :
       \/ Register(d)
       \/ \E until \in 1..MaxClock : SetWorkflowLock(d, until)
       \/ OtherColumnsUpdate(d)
  \/ Tick

\* The goroutine of a call runs its next statement and the server answers it.
Proceed(c) ==
  \/ NotFound(c) \/ TakeSnapshot(c)
  \/ Refuse(c) \/ UpdateDocument(c) \/ LogEventTx(c) \/ Commit(c)

\* PostgreSQL queues the waiters of a row, so a waiter whose turn comes again
\* and again is served: strong fairness.
Served(c) == SelectForUpdate(c) \/ SerializationFailure(c)

Fairness ==
  \A c \in Callers : WF_vars(Proceed(c)) /\ SF_vars(Served(c))

Spec == Init /\ [][Next]_vars /\ Fairness

-----------------------------------------------------------------------------
(* Properties.                                                             *)

\* Every variable has its type.
TypeOK ==
  /\ clock \in Nat
  /\ doc \in [Docs -> Optional(Rows)]
  /\ log \in [Docs -> Seq(Events)]
  /\ lockedBy \in [Docs -> Optional(Callers)]
  /\ tx \in [Callers -> TxType]

Current(d) == IF doc[d] = Null THEN "ABSENT" ELSE doc[d].status

\* The events of a document, in commit order, are one walk through the
\* transition table from INREGISTRAT to the status its row has now: no event
\* is lost, doubled or logged for an update that did not happen, whatever the
\* interleaving of callers and other writers (Advance as a whole).
HistoryIsOneWalk ==
  \A d \in Docs :
    /\ \A i \in 1..Len(log[d]) :
         /\ Allows(log[d][i].old, log[d][i].action, log[d][i].new)
         /\ log[d][i].old = IF i = 1 THEN "INREGISTRAT" ELSE log[d][i-1].new
    /\ log[d] # <<>> => Current(d) = log[d][Len(log[d])].new

\* What a column combination of a row promises to its readers: the archive
\* query takes FINALIZAT rows with a data_finalizare, the forms show the user,
\* the approver or the reason that belongs to the status.  Holds over every
\* sequence of accepted actions, rejections included (the UPDATE of Advance).
FieldsFit(row) ==
  /\ row.status = "FINALIZAT" <=> row.finalizedAt # Null
  /\ row.status = "ANULAT" <=> row.motiv # Null
  /\ row.status = "FLUX_APROBARE" <=> row.approver # Null
  /\ row.status # "IN_LUCRU" => row.user = Null
  /\ row.status = "IN_LUCRU" => row.user # Null \/ row.rejections > 0
  /\ row.status \in {"ALOCAT_COMPARTIMENT", "IN_LUCRU", "FLUX_APROBARE",
                     "FINALIZAT"} => row.compartiment # Null

FieldsFitStatus == \A d \in Docs : doc[d] # Null => FieldsFit(doc[d])

Occurrences(d, action) ==
  {i \in 1..Len(log[d]) : log[d][i].action = action}

\* The row can be rebuilt from its events: the rejection count is the number of
\* REJECT events, the compartment is the one of the last ASSIGN_COMPARTIMENT
\* event, and user, approver and reason are those of the last event, when it
\* is the action that sets them (UPDATE and LogEventTx of one transaction).
RowMatchesHistory ==
  \A d \in Docs :
    LET n == Len(log[d])
        Latest(action, value) ==
          IF n > 0 /\ log[d][n].action = action THEN value ELSE Null
    IN  doc[d] # Null =>
          /\ doc[d].rejections = Cardinality(Occurrences(d, "REJECT"))
          /\ doc[d].user     = Latest("ASSIGN_USER", log[d][n].assignee)
          /\ doc[d].approver = Latest("SEND_FOR_APPROVAL", log[d][n].assignee)
          /\ doc[d].motiv    = Latest("CANCEL", log[d][n].motiv)
          /\ \A i \in Occurrences(d, "ASSIGN_COMPARTIMENT") :
               (\A j \in Occurrences(d, "ASSIGN_COMPARTIMENT") : j <= i)
                 => doc[d].compartiment = log[d][i].toCompartment

\* A request that is sent again because its answer was lost is not applied a
\* second time, unless somebody else has moved the document on meanwhile: two
\* successive events of a document never have the same action.
RetryNotAppliedTwice ==
  \A d \in Docs : \A i \in 2..Len(log[d]) :
    log[d][i].action # log[d][i-1].action

\* No transition is committed while workflow_locked_until lies in the future,
\* although the check reads the column several statements before the COMMIT
\* and another system may set it in between (engine.go:50-53).
LockIsRespected ==
  [][\A d \in Docs : log'[d] # log[d] => clock >= doc[d].lockedUntil]_vars

\* Every call of Advance returns: nobody waits for a row lock forever
\* (the deferred Rollback of engine.go:32 on every path).
EveryCallReturns ==
  \A c \in Callers : tx[c].phase # "idle" ~> tx[c].phase = "idle"

\* The abstract life cycle, with a document's status read from its committed
\* row and its history from its committed events.
Accepted(d) ==
  [i \in 1..Len(log[d]) |->
     [action |-> log[d][i].action, old |-> log[d][i].old, new |-> log[d][i].new]]

Abstract ==
  INSTANCE DocumentWorkflow WITH
    status  <- [d \in Docs |-> Current(d)],
    history <- [d \in Docs |-> Accepted(d)]

\* The engine implements the abstract life cycle: every step of every call,
\* and every step of the other writers, is one atomic transition or changes
\* nothing the life cycle speaks of (engine.go:25-26).
ImplementsDocumentWorkflow == Abstract!Spec

\* audit.go:45 "GetAuditTrail returns the workflow history for a document":
\* the order it lists events in never contradicts the order they happened in.
AuditTrailFollowsHistory ==
  \A d \in Docs : \A i, j \in 1..Len(log[d]) :
    i < j => ~ListedBefore(log[d][j], log[d][i])

\* engine.go:118 "user and approver both cleared, registrar will reassign":
\* a document in work without a user can be given one.
RejectedCanBeReassigned ==
  \A d \in Docs :
    doc[d] # Null =>
      (doc[d].status = "IN_LUCRU" /\ doc[d].user = Null =>
         \E new \in Statuses : Allows("IN_LUCRU", "ASSIGN_USER", new))
=============================================================================
