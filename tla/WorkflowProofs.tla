---------------------------- MODULE WorkflowProofs ----------------------------
(***************************************************************************)
(* Theorems about WorkflowEngine for every value of its constants: any     *)
(* number of documents and callers, any requests, no bound on the clock    *)
(* that matters.  The bounds MaxClock and MaxEvents only appear in guards, *)
(* so the theorems hold for all of them.                                   *)
(***************************************************************************)
EXTENDS WorkflowEngine, SequenceTheorems, FiniteSetTheorems, TLAPS

\* Initially every variable has its type.
LEMMA InitTypeOK == Init => TypeOK
BY NullAssumption
   DEF Init, TypeOK, Optional, IdleTx, TxType, Phases

\* An idle transaction is a transaction.
LEMMA IdleTxType == IdleTx \in TxType
BY DEF IdleTx, TxType, Phases, Optional

\* Marking snapshots stale and releasing locks keep the types.
LEMMA LockTypes ==
  ASSUME TypeOK
  PROVE  /\ \A d \in Docs : Invalidated(d) \in [Callers -> TxType]
         /\ \A c \in Callers : Released(c) \in [Docs -> Optional(Callers)]
<1>1. ASSUME NEW d \in Docs PROVE Invalidated(d) \in [Callers -> TxType]
  <2>1. ASSUME NEW c \in Callers PROVE [tx[c] EXCEPT !.stale = TRUE] \in TxType
    BY DEF TypeOK, TxType
  <2> QED BY <2>1 DEF Invalidated, TypeOK
<1>2. ASSUME NEW c \in Callers PROVE Released(c) \in [Docs -> Optional(Callers)]
  BY DEF Released, TypeOK, Optional
<1> QED BY <1>1, <1>2

\* The row an accepted request writes is a row.
LEMMA UpdatedRowType ==
  ASSUME NEW row \in Rows, NEW req \in Requests, NEW new \in Statuses,
         NEW now \in Nat
  PROVE  UpdatedRow(row, req, new, now) \in Rows
BY RequestsAssumption DEF UpdatedRow, Rows, Given, Optional, RequestType

\* A fresh document is a row.
LEMMA NewDocumentType == NewDocument \in Rows
BY DEF NewDocument, Rows, Statuses, Optional

\* What a call knows of its arguments; the inductive part of type correctness
\* (tx[c].doc and tx[c].req are Null only in an idle transaction, and the row
\* the SELECT looked for exists from the snapshot on).
Call(c) ==
  /\ tx[c].phase # "idle" => tx[c].doc \in Docs /\ tx[c].req \in Requests
  /\ tx[c].phase = "waiting" => doc[tx[c].doc] # Null
  /\ tx[c].phase \in {"locked", "updated", "logged"} => tx[c].read \in Rows
  /\ tx[c].phase \in {"updated", "logged"} =>
       /\ tx[c].write \in Rows
       /\ Allows(tx[c].read.status, tx[c].req.action, tx[c].write.status)
  /\ tx[c].phase = "logged" => tx[c].event = EventOf(tx[c])

CallInv == \A c \in Callers : Call(c)

\* The event a call writes is an event.
LEMMA EventType ==
  ASSUME NEW t \in TxType, t.req \in Requests, t.read \in Rows, t.write \in Rows
  PROVE  EventOf(t) \in Events
BY RequestsAssumption DEF EventOf, Events, TxType, RequestType, Rows

\* Ending a transaction keeps types and arguments.
LEMMA RollBackTypes ==
  ASSUME TypeOK, CallInv, NEW c \in Callers, RollBack(c)
  PROVE  TypeOK' /\ CallInv'
<1>1. TypeOK'
  BY IdleTxType, LockTypes DEF RollBack, TypeOK
<1>2. CallInv'
  BY DEF RollBack, CallInv, Call, IdleTx, TypeOK, EventOf
<1> QED BY <1>1, <1>2

\* Marking snapshots stale changes no argument.
LEMMA InvalidatedFields ==
  ASSUME TypeOK, NEW d \in Docs, NEW c \in Callers
  PROVE  LET t == Invalidated(d)[c]
         IN  /\ t.phase = tx[c].phase /\ t.doc = tx[c].doc /\ t.req = tx[c].req
             /\ t.read = tx[c].read /\ t.write = tx[c].write
             /\ t.event = tx[c].event /\ t.began = tx[c].began
BY DEF Invalidated, TypeOK, TxType

\* Each step of the engine keeps types and arguments.
LEMMA NextTypes ==
  ASSUME TypeOK, CallInv, [Next]_vars
  PROVE  TypeOK' /\ CallInv'
<1> USE DEF EventOf, Call
<1>1. ASSUME NEW c \in Callers, NEW d \in Docs, NEW req \in Requests, Begin(c, d, req)
      PROVE  TypeOK' /\ CallInv'
  <2>1. [IdleTx EXCEPT !.phase = "begun", !.doc = d, !.req = req, !.began = clock]
          \in TxType
    BY DEF IdleTx, TxType, Phases, Optional, TypeOK
  <2>2. TypeOK'
    BY <1>1, <2>1 DEF Begin, TypeOK
  <2>3. CallInv'
    BY <1>1 DEF Begin, CallInv, TypeOK, IdleTx
  <2> QED BY <2>2, <2>3
<1>2. ASSUME NEW c \in Callers, NotFound(c) PROVE TypeOK' /\ CallInv'
  BY <1>2, RollBackTypes DEF NotFound
<1>3. ASSUME NEW c \in Callers, TakeSnapshot(c) PROVE TypeOK' /\ CallInv'
  <2>1. TypeOK'
    <3>1. [tx[c] EXCEPT !.phase = "waiting"] \in TxType
      BY DEF TypeOK, TxType, Phases
    <3> QED BY <1>3, <3>1 DEF TakeSnapshot, TypeOK
  <2>2. CallInv'
    BY <1>3 DEF TakeSnapshot, CallInv, TypeOK, TxType
  <2> QED BY <2>1, <2>2
<1>4. ASSUME NEW c \in Callers, SelectForUpdate(c) PROVE TypeOK' /\ CallInv'
  <2>1. doc[tx[c].doc] \in Rows /\ tx[c].doc \in Docs
    BY <1>4 DEF SelectForUpdate, TypeOK, CallInv, Optional
  <2>2. TypeOK'
    <3>1. [tx[c] EXCEPT !.phase = "locked", !.read = doc[tx[c].doc]] \in TxType
      BY <2>1, ZenonT(30) DEF TypeOK, TxType, Phases, Optional
    <3> QED BY <1>4, <3>1 DEF SelectForUpdate, TypeOK, Optional
  <2>3. CallInv'
    BY <1>4, <2>1 DEF SelectForUpdate, CallInv, TypeOK, TxType
  <2> QED BY <2>2, <2>3
<1>5. ASSUME NEW c \in Callers, SerializationFailure(c) PROVE TypeOK' /\ CallInv'
  BY <1>5, RollBackTypes DEF SerializationFailure
<1>6. ASSUME NEW c \in Callers, Refuse(c) PROVE TypeOK' /\ CallInv'
  BY <1>6, RollBackTypes DEF Refuse
<1>7. ASSUME NEW c \in Callers, UpdateDocument(c) PROVE TypeOK' /\ CallInv'
  <2>1. PICK new \in Statuses :
          /\ Accepts(tx[c].read, tx[c].req, new)
          /\ tx' = [tx EXCEPT ![c] =
                 [@ EXCEPT !.phase = "updated",
                           !.write = UpdatedRow(tx[c].read, tx[c].req, new, clock)]]
    BY <1>7 DEF UpdateDocument
  <2>2. /\ tx[c].read \in Rows /\ tx[c].req \in Requests
        /\ tx[c].phase = "locked"
        /\ UNCHANGED <<clock, doc, log, lockedBy>>
    BY <1>7 DEF UpdateDocument, CallInv
  <2>3. UpdatedRow(tx[c].read, tx[c].req, new, clock) \in Rows
    BY <2>2, UpdatedRowType DEF TypeOK
  <2>4. UpdatedRow(tx[c].read, tx[c].req, new, clock).status = new
    BY DEF UpdatedRow
  <2>5. TypeOK'
    <3>1. [tx[c] EXCEPT !.phase = "updated",
                        !.write = UpdatedRow(tx[c].read, tx[c].req, new, clock)]
            \in TxType
      BY <2>3, ZenonT(30) DEF TypeOK, TxType, Phases, Optional
    <3> QED BY <2>1, <2>2, <3>1 DEF TypeOK
  <2>6. CallInv'
    BY <2>1, <2>2, <2>3, <2>4 DEF CallInv, TypeOK, TxType, Accepts
  <2> QED BY <2>5, <2>6
<1>8. ASSUME NEW c \in Callers, LogEventTx(c) PROVE TypeOK' /\ CallInv'
  <2>1. EventOf(tx[c]) \in Events
    BY <1>8, EventType DEF LogEventTx, CallInv, TypeOK
  <2>2. TypeOK'
    <3>1. [tx[c] EXCEPT !.phase = "logged", !.event = EventOf(tx[c])] \in TxType
      BY <2>1, ZenonT(30) DEF TypeOK, TxType, Phases, Optional
    <3> QED BY <1>8, <3>1 DEF LogEventTx, TypeOK
  <2>3. CallInv'
    BY <1>8 DEF LogEventTx, CallInv, TypeOK, TxType
  <2> QED BY <2>2, <2>3
<1>9. ASSUME NEW c \in Callers, Commit(c) PROVE TypeOK' /\ CallInv'
  <2> DEFINE d == tx[c].doc
  <2>1. /\ d \in Docs /\ tx[c].write \in Rows /\ tx[c].event \in Events
    BY <1>9, EventType DEF Commit, CallInv, TypeOK
  <2>2. /\ doc' = [doc EXCEPT ![d] = tx[c].write]
        /\ log' = [log EXCEPT ![d] = Append(@, tx[c].event)]
        /\ lockedBy' = Released(c)
        /\ tx' = [Invalidated(d) EXCEPT ![c] = IdleTx]
        /\ clock' = clock
    BY <1>9 DEF Commit
  <2>3. TypeOK'
    <3>1. Append(log[d], tx[c].event) \in Seq(Events)
      BY <2>1 DEF TypeOK
    <3>2. tx' \in [Callers -> TxType] /\ lockedBy' \in [Docs -> Optional(Callers)]
      BY <2>1, <2>2, LockTypes, IdleTxType
    <3>3. doc' \in [Docs -> Optional(Rows)] /\ log' \in [Docs -> Seq(Events)]
      BY <2>1, <2>2, <3>1 DEF TypeOK, Optional
    <3> QED BY <2>2, <3>2, <3>3 DEF TypeOK
  <2>4. ASSUME NEW e \in Callers PROVE Call(e)'
    <3>1. CASE e = c
      BY <2>1, <2>2, <3>1, LockTypes DEF IdleTx
    <3>2. CASE e # c
      <4>1. tx'[e] = Invalidated(d)[e]
        BY <2>1, <2>2, <3>2, LockTypes
      <4>2. tx[e].phase = "waiting" => doc'[tx[e].doc] # Null
        BY <2>1, <2>2, NullAssumption DEF TypeOK, CallInv
      <4> QED BY <2>1, <4>1, <4>2, InvalidatedFields DEF CallInv
    <3> QED BY <3>1, <3>2
  <2> QED BY <2>3, <2>4 DEF CallInv
<1>10. ASSUME NEW c \in Callers, Abort(c) PROVE TypeOK' /\ CallInv'
  BY <1>10, RollBackTypes DEF Abort
<1>11. ASSUME NEW d \in Docs, Register(d) PROVE TypeOK' /\ CallInv'
  <2>1. TypeOK'
    BY <1>11, NewDocumentType DEF Register, TypeOK, Optional
  <2>2. CallInv'
    BY <1>11, NewDocumentType, NullAssumption DEF Register, CallInv, TypeOK
  <2> QED BY <2>1, <2>2
<1>12. ASSUME NEW d \in Docs, NEW until \in 1..MaxClock, SetWorkflowLock(d, until)
       PROVE  TypeOK' /\ CallInv'
  <2>1. /\ doc[d] \in Rows
        /\ doc' = [doc EXCEPT ![d] = [doc[d] EXCEPT !.lockedUntil = until]]
        /\ tx' = Invalidated(d)
        /\ UNCHANGED <<clock, log, lockedBy>>
    BY <1>12 DEF SetWorkflowLock, TypeOK, Optional
  <2>2. [doc[d] EXCEPT !.lockedUntil = until] \in Rows
    BY <2>1, BoundsAssumption DEF Rows
  <2>3. TypeOK'
    BY <2>1, <2>2, LockTypes DEF TypeOK, Optional
  <2>4. ASSUME NEW e \in Callers PROVE Call(e)'
    <3>1. tx[e].phase = "waiting" => doc'[tx[e].doc] # Null
      BY <2>1, <2>2, NullAssumption DEF TypeOK, CallInv
    <3> QED BY <2>1, <3>1, InvalidatedFields DEF CallInv
  <2> QED BY <2>3, <2>4 DEF CallInv
<1>13. ASSUME NEW d \in Docs, OtherColumnsUpdate(d) PROVE TypeOK' /\ CallInv'
  <2>1. TypeOK'
    BY <1>13, LockTypes DEF OtherColumnsUpdate, TypeOK
  <2>2. CallInv'
    BY <1>13, InvalidatedFields DEF OtherColumnsUpdate, CallInv
  <2> QED BY <2>1, <2>2
<1>14. CASE Tick
  BY <1>14, BoundsAssumption DEF Tick, TypeOK, CallInv
<1>15. CASE UNCHANGED vars
  BY <1>15 DEF vars, TypeOK, CallInv
<1> QED
  BY <1>1, <1>2, <1>3, <1>4, <1>5, <1>6, <1>7, <1>8, <1>9, <1>10, <1>11,
     <1>12, <1>13, <1>14, <1>15 DEF Next

\* Every variable has its type in every reachable state.
THEOREM TypeCorrect == Spec => []TypeOK
<1>1. Init => TypeOK /\ CallInv
  BY InitTypeOK DEF Init, CallInv, Call, IdleTx
<1>2. TypeOK /\ CallInv /\ [Next]_vars => TypeOK' /\ CallInv'
  BY NextTypes
<1> QED BY <1>1, <1>2, PTL DEF Spec

-----------------------------------------------------------------------------
(* The safety invariant.  A caller past its SELECT holds the row lock, so  *)
(* the row it read is still the committed one when it commits; with the    *)
(* history being one walk up to that row, appending the event extends it.  *)

Holds(c) ==
  /\ tx[c].phase \in {"locked", "updated", "logged"} =>
       /\ lockedBy[tx[c].doc] = c
       /\ tx[c].read = doc[tx[c].doc]
  /\ tx[c].phase \in {"updated", "logged"} =>
       /\ clock >= doc[tx[c].doc].lockedUntil
       /\ FieldsFit(tx[c].write)

HoldersInv == \A c \in Callers : Holds(c)

\* A document without events is not registered or has its first status.
HistoryStarts ==
  \A d \in Docs :
    /\ doc[d] = Null => log[d] = <<>>
    /\ doc[d] # Null /\ log[d] = <<>> => doc[d].status = "INREGISTRAT"

RowsInv == HistoryStarts /\ HistoryIsOneWalk /\ FieldsFitStatus

SafetyInv == HoldersInv /\ RowsInv

\* The statements about rows and events only depend on doc and log.
LEMMA RowsUnchanged ==
  ASSUME RowsInv, UNCHANGED <<doc, log>>
  PROVE  RowsInv'
BY DEF RowsInv, HistoryStarts, HistoryIsOneWalk, FieldsFitStatus, Current

\* An accepted request turns a fitting row into a fitting row.
LEMMA UpdatedRowFits ==
  ASSUME NEW row \in Rows, NEW req \in Requests, NEW new \in Statuses,
         NEW now \in Nat, FieldsFit(row),
         Allows(row.status, req.action, new), HasRequiredFields(req)
  PROVE  FieldsFit(UpdatedRow(row, req, new, now))
<1>1. now # Null /\ row.rejections \in Nat
  BY NullAssumption DEF Rows
<1> QED
  BY <1>1 DEF FieldsFit, UpdatedRow, Given, HasRequiredFields, Allows,
              ValidTransitions

\* Rolling back takes no lock from another caller and changes no row.
LEMMA RollBackSafe ==
  ASSUME TypeOK, CallInv, SafetyInv, NEW c \in Callers, RollBack(c)
  PROVE  SafetyInv'
<1>1. ASSUME NEW e \in Callers PROVE Holds(e)'
  <2>1. CASE e = c
    BY <2>1 DEF RollBack, TypeOK, IdleTx, Holds
  <2>2. CASE e # c
    BY <2>2 DEF RollBack, TypeOK, Released, Holds, SafetyInv, HoldersInv,
                CallInv, Call
  <2> QED BY <2>1, <2>2
<1>2. RowsInv'
  BY RowsUnchanged DEF RollBack, SafetyInv
<1> QED BY <1>1, <1>2 DEF SafetyInv, HoldersInv

\* A step that only moves transaction c, without taking or giving up a lock,
\* keeps what every other caller holds.
LEMMA OthersHold ==
  ASSUME TypeOK, SafetyInv, NEW c \in Callers, NEW t,
         tx' = [tx EXCEPT ![c] = t], UNCHANGED <<clock, doc, log, lockedBy>>,
         Holds(c)'
  PROVE  SafetyInv'
<1>1. ASSUME NEW e \in Callers PROVE Holds(e)'
  BY DEF TypeOK, Holds, SafetyInv, HoldersInv
<1>2. RowsInv'
  BY RowsUnchanged DEF SafetyInv
<1> QED BY <1>1, <1>2 DEF SafetyInv, HoldersInv

\* COMMIT: the event extends the walk and the row follows it.
LEMMA CommitSafe ==
  ASSUME TypeOK, CallInv, SafetyInv, NEW c \in Callers, Commit(c)
  PROVE  SafetyInv'
<1> DEFINE d0 == tx[c].doc
           ev == tx[c].event
<1>1. /\ d0 \in Docs /\ tx[c].write \in Rows /\ tx[c].read \in Rows
      /\ ev = EventOf(tx[c]) /\ ev \in Events
      /\ Allows(tx[c].read.status, tx[c].req.action, tx[c].write.status)
      /\ lockedBy[d0] = c /\ tx[c].read = doc[d0] /\ FieldsFit(tx[c].write)
  BY EventType DEF Commit, CallInv, Call, TypeOK, SafetyInv, HoldersInv, Holds
<1>2. /\ doc' = [doc EXCEPT ![d0] = tx[c].write]
      /\ log' = [log EXCEPT ![d0] = Append(@, ev)]
      /\ lockedBy' = Released(c)
      /\ tx' = [Invalidated(d0) EXCEPT ![c] = IdleTx]
      /\ clock' = clock
  BY DEF Commit
<1>3. ASSUME NEW e \in Callers PROVE Holds(e)'
  <2>1. CASE e = c
    BY <1>1, <1>2, <2>1, LockTypes DEF IdleTx, Holds
  <2>2. CASE e # c
    <3>1. tx'[e] = Invalidated(d0)[e]
      BY <1>1, <1>2, <2>2, LockTypes
    <3>2. CASE tx[e].phase \in {"locked", "updated", "logged"}
      <4>1. tx[e].doc \in Docs /\ lockedBy[tx[e].doc] = e
        BY <3>2 DEF CallInv, Call, SafetyInv, HoldersInv, Holds
      <4>2. tx[e].doc # d0
        BY <1>1, <2>2, <4>1
      <4>3. doc'[tx[e].doc] = doc[tx[e].doc] /\ lockedBy'[tx[e].doc] = e
        BY <1>1, <1>2, <2>2, <4>1, <4>2 DEF TypeOK, Released
      <4> QED
        BY <1>1, <1>2, <3>1, <4>1, <4>3, InvalidatedFields, SMTT(20)
           DEF Holds, SafetyInv, HoldersInv
    <3>3. CASE tx[e].phase \notin {"locked", "updated", "logged"}
      BY <1>1, <3>1, <3>3, InvalidatedFields DEF Holds
    <3> QED BY <3>2, <3>3
  <2> QED BY <2>1, <2>2
<1>4. /\ tx[c].write # Null /\ doc[d0] # Null
      /\ ev.old = doc[d0].status /\ ev.new = tx[c].write.status
      /\ Allows(ev.old, ev.action, ev.new)
  BY <1>1, NullAssumption DEF EventOf
<1>5. ASSUME NEW d \in Docs, d # d0
      PROVE  doc'[d] = doc[d] /\ log'[d] = log[d]
  BY <1>1, <1>2, <1>5 DEF TypeOK
<1>6. /\ doc'[d0] = tx[c].write
      /\ log'[d0] = Append(log[d0], ev)
      /\ log[d0] \in Seq(Events)
  BY <1>1, <1>2 DEF TypeOK
<1>7. /\ Len(log'[d0]) = Len(log[d0]) + 1 /\ Len(log[d0]) \in Nat
      /\ log'[d0][Len(log[d0]) + 1] = ev
      /\ \A i \in 1..Len(log[d0]) : log'[d0][i] = log[d0][i]
      /\ log'[d0] # <<>>
  BY <1>1, <1>6, SMTT(20)
<1>8. HistoryStarts'
  <2>1. ASSUME NEW d \in Docs
        PROVE  /\ doc'[d] = Null => log'[d] = <<>>
               /\ doc'[d] # Null /\ log'[d] = <<>> => doc'[d].status = "INREGISTRAT"
    BY <1>4, <1>5, <1>6, <1>7 DEF SafetyInv, RowsInv, HistoryStarts
  <2> QED BY <2>1 DEF HistoryStarts
<1>9. HistoryIsOneWalk'
  <2>1. log[d0] # <<>> => log[d0][Len(log[d0])].new = doc[d0].status
    BY <1>1, <1>4 DEF SafetyInv, RowsInv, HistoryIsOneWalk, Current
  <2>2. log[d0] = <<>> => doc[d0].status = "INREGISTRAT"
    BY <1>1, <1>4 DEF SafetyInv, RowsInv, HistoryStarts
  <2>3. ASSUME NEW d \in Docs, NEW i \in 1..Len(log'[d])
        PROVE  /\ Allows(log'[d][i].old, log'[d][i].action, log'[d][i].new)
               /\ log'[d][i].old = IF i = 1 THEN "INREGISTRAT" ELSE log'[d][i-1].new
    <3>1. CASE d # d0
      BY <1>5, <2>3, <3>1 DEF SafetyInv, RowsInv, HistoryIsOneWalk
    <3>2. CASE d = d0 /\ i <= Len(log[d0])
      <4>1. i \in 1..Len(log[d0]) /\ (i # 1 => i - 1 \in 1..Len(log[d0]))
        BY <1>7, <2>3, <3>2
      <4>2. log'[d][i] = log[d0][i] /\ (i # 1 => log'[d][i-1] = log[d0][i-1])
        BY <1>7, <3>2, <4>1
      <4>3. /\ Allows(log[d0][i].old, log[d0][i].action, log[d0][i].new)
            /\ log[d0][i].old = IF i = 1 THEN "INREGISTRAT" ELSE log[d0][i-1].new
        BY <1>1, <4>1 DEF SafetyInv, RowsInv, HistoryIsOneWalk
      <4> QED BY <4>2, <4>3
    <3>3. CASE d = d0 /\ i = Len(log[d0]) + 1
      <4>1. i # 1 => log[d0] # <<>> /\ i - 1 \in 1..Len(log[d0])
        BY <1>6, <1>7, <3>3, SMTT(20)
      <4>2. i = 1 => log[d0] = <<>>
        BY <1>6, <1>7, <3>3, SMTT(20)
      <4>3. log'[d][i] = ev
        BY <1>7, <3>3
      <4>4. i # 1 => log'[d][i-1] = log[d0][Len(log[d0])]
        BY <1>7, <3>3, <4>1
      <4>5. ev.old = IF i = 1 THEN "INREGISTRAT" ELSE log'[d][i-1].new
        BY <1>4, <2>1, <2>2, <4>1, <4>2, <4>4
      <4> QED BY <1>4, <4>3, <4>5
    <3> QED BY <1>7, <2>3, <3>1, <3>2, <3>3
  <2>4. ASSUME NEW d \in Docs, log'[d] # <<>>
        PROVE  Current(d)' = log'[d][Len(log'[d])].new
    <3>1. CASE d # d0
      BY <1>5, <2>4, <3>1 DEF SafetyInv, RowsInv, HistoryIsOneWalk, Current
    <3>2. CASE d = d0
      BY <1>4, <1>6, <1>7, <3>2 DEF Current
    <3> QED BY <3>1, <3>2
  <2> QED BY <2>3, <2>4 DEF HistoryIsOneWalk
<1>10. FieldsFitStatus'
  <2>1. ASSUME NEW d \in Docs, doc'[d] # Null PROVE FieldsFit(doc'[d])
    BY <1>1, <1>5, <1>6, <2>1 DEF SafetyInv, RowsInv, FieldsFitStatus
  <2> QED BY <2>1 DEF FieldsFitStatus, FieldsFit
<1> QED BY <1>3, <1>8, <1>9, <1>10 DEF SafetyInv, HoldersInv, RowsInv

\* Marking snapshots stale keeps what callers hold, when no holder's row
\* changes.
LEMMA InvalidatedHold ==
  ASSUME TypeOK, CallInv, SafetyInv, NEW d \in Docs, lockedBy[d] = Null,
         tx' = Invalidated(d), UNCHANGED <<clock, lockedBy>>,
         \A e \in Docs : e # d => doc'[e] = doc[e]
  PROVE  HoldersInv'
<1>1. ASSUME NEW c \in Callers PROVE Holds(c)'
  <2>1. tx'[c] = Invalidated(d)[c]
    OBVIOUS
  <2>2. CASE tx[c].phase \in {"locked", "updated", "logged"}
    <3>1. tx[c].doc \in Docs /\ lockedBy[tx[c].doc] = c
      BY <2>2 DEF CallInv, Call, SafetyInv, HoldersInv, Holds
    <3>2. tx[c].doc # d
      BY <3>1, NullAssumption
    <3> QED
      BY <2>1, <3>1, <3>2, InvalidatedFields DEF Holds, SafetyInv, HoldersInv
  <2>3. CASE tx[c].phase \notin {"locked", "updated", "logged"}
    BY <2>1, <2>3, InvalidatedFields DEF Holds
  <2> QED BY <2>2, <2>3
<1> QED BY <1>1 DEF HoldersInv

\* Each step of the engine keeps the safety invariant.
LEMMA NextSafe ==
  ASSUME TypeOK, CallInv, SafetyInv, [Next]_vars
  PROVE  SafetyInv'
<1>1. ASSUME NEW c \in Callers, NEW d \in Docs, NEW req \in Requests, Begin(c, d, req)
      PROVE  SafetyInv'
  <2>1. Holds(c)'
    BY <1>1 DEF Begin, TypeOK, IdleTx, Holds
  <2> QED BY <1>1, <2>1, OthersHold DEF Begin
<1>2. ASSUME NEW c \in Callers, NotFound(c) PROVE SafetyInv'
  BY <1>2, RollBackSafe DEF NotFound
<1>3. ASSUME NEW c \in Callers, TakeSnapshot(c) PROVE SafetyInv'
  <2>1. Holds(c)'
    BY <1>3 DEF TakeSnapshot, TypeOK, TxType, Holds
  <2> QED BY <1>3, <2>1, OthersHold DEF TakeSnapshot
<1>4. ASSUME NEW c \in Callers, SelectForUpdate(c) PROVE SafetyInv'
  <2>1. tx[c].doc \in Docs /\ lockedBy[tx[c].doc] = Null
    BY <1>4 DEF SelectForUpdate, CallInv, Call
  <2>2. ASSUME NEW e \in Callers PROVE Holds(e)'
    <3>1. CASE e = c
      BY <1>4, <2>1, <3>1 DEF SelectForUpdate, TypeOK, TxType, Holds
    <3>2. CASE e # c
      <4>1. tx'[e] = tx[e] /\ UNCHANGED <<clock, doc, log>>
        BY <1>4, <3>2 DEF SelectForUpdate, TypeOK
      <4>2. tx[e].phase \in {"locked", "updated", "logged"}
              => tx[e].doc \in Docs /\ tx[e].doc # tx[c].doc
        BY <2>1, NullAssumption DEF CallInv, Call, SafetyInv, HoldersInv, Holds
      <4>3. tx[e].phase \in {"locked", "updated", "logged"}
              => lockedBy'[tx[e].doc] = lockedBy[tx[e].doc]
        BY <1>4, <4>2 DEF SelectForUpdate, TypeOK
      <4> QED BY <4>1, <4>3 DEF Holds, SafetyInv, HoldersInv
    <3> QED BY <3>1, <3>2
  <2>3. RowsInv'
    BY <1>4, RowsUnchanged DEF SelectForUpdate, SafetyInv
  <2> QED BY <2>2, <2>3 DEF SafetyInv, HoldersInv
<1>5. ASSUME NEW c \in Callers, SerializationFailure(c) PROVE SafetyInv'
  BY <1>5, RollBackSafe DEF SerializationFailure
<1>6. ASSUME NEW c \in Callers, Refuse(c) PROVE SafetyInv'
  BY <1>6, RollBackSafe DEF Refuse
<1>7. ASSUME NEW c \in Callers, UpdateDocument(c) PROVE SafetyInv'
  <2>1. PICK new \in Statuses :
          /\ Accepts(tx[c].read, tx[c].req, new)
          /\ tx' = [tx EXCEPT ![c] =
                 [@ EXCEPT !.phase = "updated",
                           !.write = UpdatedRow(tx[c].read, tx[c].req, new, clock)]]
    BY <1>7 DEF UpdateDocument
  <2>2. /\ tx[c].read \in Rows /\ tx[c].req \in Requests /\ tx[c].doc \in Docs
        /\ tx[c].read = doc[tx[c].doc] /\ lockedBy[tx[c].doc] = c
        /\ UNCHANGED <<clock, doc, log, lockedBy>>
    BY <1>7 DEF UpdateDocument, CallInv, Call, SafetyInv, HoldersInv, Holds
  <2>3. FieldsFit(tx[c].read)
    BY <2>2, NullAssumption DEF SafetyInv, RowsInv, FieldsFitStatus
  <2>4. FieldsFit(UpdatedRow(tx[c].read, tx[c].req, new, clock))
    BY <2>1, <2>2, <2>3, UpdatedRowFits DEF Accepts, TypeOK
  <2>5. clock >= doc[tx[c].doc].lockedUntil
    BY <2>1, <2>2 DEF Accepts
  <2>6. /\ tx'[c].doc = tx[c].doc /\ tx'[c].read = tx[c].read
        /\ tx'[c].write = UpdatedRow(tx[c].read, tx[c].req, new, clock)
    BY <2>1 DEF TypeOK, TxType
  <2>7. FieldsFit(tx'[c].write)
    BY <2>4, <2>6
  <2>8. Holds(c)'
    BY <2>2, <2>5, <2>6, <2>7 DEF Holds, FieldsFit
  <2> QED BY <2>1, <2>2, <2>8, OthersHold
<1>8. ASSUME NEW c \in Callers, LogEventTx(c) PROVE SafetyInv'
  <2>1. Holds(c)'
    BY <1>8 DEF LogEventTx, TypeOK, TxType, Holds, SafetyInv, HoldersInv, FieldsFit
  <2> QED BY <1>8, <2>1, OthersHold DEF LogEventTx
<1>9. ASSUME NEW c \in Callers, Commit(c) PROVE SafetyInv'
  BY <1>9, CommitSafe
<1>10. ASSUME NEW c \in Callers, Abort(c) PROVE SafetyInv'
  BY <1>10, RollBackSafe DEF Abort
<1>11. ASSUME NEW d \in Docs, Register(d) PROVE SafetyInv'
  <2>1. /\ \A e \in Docs : doc'[e] = IF e = d THEN NewDocument ELSE doc[e]
        /\ doc[d] = Null /\ log[d] = <<>>
        /\ UNCHANGED <<clock, log, lockedBy, tx>>
    BY <1>11 DEF Register, TypeOK, SafetyInv, RowsInv, HistoryStarts
  <2>2. HoldersInv'
    <3>1. ASSUME NEW c \in Callers PROVE Holds(c)'
      <4>1. tx[c].phase \in {"locked", "updated", "logged"} => tx[c].doc \in Docs
        BY DEF CallInv, Call
      <4>2. tx[c].phase \in {"locked", "updated", "logged"} => tx[c].doc # d
        BY <2>1, NullAssumption DEF CallInv, Call, SafetyInv, HoldersInv, Holds
      <4> QED BY <2>1, <4>1, <4>2 DEF Holds, SafetyInv, HoldersInv
    <3> QED BY <3>1 DEF HoldersInv
  <2>3. NewDocument # Null /\ NewDocument.status = "INREGISTRAT" /\ FieldsFit(NewDocument)
    BY NewDocumentType, NullAssumption DEF NewDocument, FieldsFit
  <2>4. HistoryStarts'
    BY <2>1, <2>3 DEF HistoryStarts, SafetyInv, RowsInv
  <2>5. HistoryIsOneWalk'
    BY <2>1 DEF HistoryIsOneWalk, Current, SafetyInv, RowsInv
  <2>6. FieldsFitStatus'
    <3>1. ASSUME NEW e \in Docs, doc'[e] # Null PROVE FieldsFit(doc'[e])
      BY <2>1, <2>3, <3>1 DEF SafetyInv, RowsInv, FieldsFitStatus
    <3> QED BY <3>1 DEF FieldsFitStatus, FieldsFit
  <2> QED BY <2>2, <2>4, <2>5, <2>6 DEF SafetyInv, RowsInv
<1>12. ASSUME NEW d \in Docs, NEW until \in 1..MaxClock, SetWorkflowLock(d, until)
       PROVE  SafetyInv'
  <2>1. /\ doc[d] \in Rows /\ lockedBy[d] = Null
        /\ doc' = [doc EXCEPT ![d] = [doc[d] EXCEPT !.lockedUntil = until]]
        /\ tx' = Invalidated(d)
        /\ UNCHANGED <<clock, log, lockedBy>>
    BY <1>12 DEF SetWorkflowLock, TypeOK, Optional
  <2>2. \A e \in Docs : e # d => doc'[e] = doc[e]
    BY <2>1 DEF TypeOK
  <2>3. HoldersInv'
    BY <2>1, <2>2, InvalidatedHold
  <2>4. /\ doc'[d] # Null /\ doc[d] # Null
        /\ doc'[d].status = doc[d].status /\ doc'[d].finalizedAt = doc[d].finalizedAt
        /\ doc'[d].motiv = doc[d].motiv /\ doc'[d].approver = doc[d].approver
        /\ doc'[d].user = doc[d].user /\ doc'[d].rejections = doc[d].rejections
        /\ doc'[d].compartiment = doc[d].compartiment
    <3>1. [doc[d] EXCEPT !.lockedUntil = until] \in Rows
      BY <2>1, BoundsAssumption DEF Rows
    <3>2. doc'[d] = [doc[d] EXCEPT !.lockedUntil = until]
      BY <2>1 DEF TypeOK
    <3> QED BY <2>1, <3>1, <3>2, NullAssumption DEF Rows
  <2>5. HistoryStarts' /\ HistoryIsOneWalk'
    BY <2>1, <2>2, <2>4
       DEF HistoryStarts, HistoryIsOneWalk, Current, SafetyInv, RowsInv
  <2>6. FieldsFitStatus'
    <3>1. ASSUME NEW e \in Docs, doc'[e] # Null PROVE FieldsFit(doc'[e])
      BY <2>2, <2>4, <3>1 DEF SafetyInv, RowsInv, FieldsFitStatus, FieldsFit
    <3> QED BY <3>1 DEF FieldsFitStatus, FieldsFit
  <2> QED BY <2>3, <2>5, <2>6 DEF SafetyInv, RowsInv
<1>13. ASSUME NEW d \in Docs, OtherColumnsUpdate(d) PROVE SafetyInv'
  <2>1. HoldersInv'
    BY <1>13, InvalidatedHold DEF OtherColumnsUpdate
  <2>2. RowsInv'
    BY <1>13, RowsUnchanged DEF OtherColumnsUpdate, SafetyInv
  <2> QED BY <2>1, <2>2 DEF SafetyInv
<1>14. CASE Tick
  <2>1. ASSUME NEW c \in Callers PROVE Holds(c)'
    <3>1. tx[c].phase \in {"updated", "logged"} => doc[tx[c].doc].lockedUntil \in Nat
      BY DEF CallInv, Call, SafetyInv, HoldersInv, Holds, Rows
    <3> QED BY <1>14, <3>1 DEF Tick, TypeOK, Holds, SafetyInv, HoldersInv
  <2>2. RowsInv'
    BY <1>14, RowsUnchanged DEF Tick, SafetyInv
  <2> QED BY <2>1, <2>2 DEF SafetyInv, HoldersInv
<1>15. CASE UNCHANGED vars
  <2>1. ASSUME NEW c \in Callers PROVE Holds(c)'
    BY <1>15 DEF vars, Holds, SafetyInv, HoldersInv
  <2>2. RowsInv'
    BY <1>15, RowsUnchanged DEF vars, SafetyInv
  <2> QED BY <2>1, <2>2 DEF SafetyInv, HoldersInv
<1> QED
  BY <1>1, <1>2, <1>3, <1>4, <1>5, <1>6, <1>7, <1>8, <1>9, <1>10, <1>11,
     <1>12, <1>13, <1>14, <1>15 DEF Next

\* The whole invariant holds initially and always.
THEOREM Invariance == Spec => [](TypeOK /\ CallInv /\ SafetyInv)
<1>1. Init => TypeOK /\ CallInv
  BY InitTypeOK DEF Init, CallInv, Call, IdleTx
<1>2. Init => SafetyInv
  BY DEF Init, SafetyInv, HoldersInv, Holds, IdleTx, RowsInv, HistoryStarts,
         HistoryIsOneWalk, FieldsFitStatus, Current
<1>3. TypeOK /\ CallInv /\ SafetyInv /\ [Next]_vars => TypeOK' /\ CallInv' /\ SafetyInv'
  BY NextTypes, NextSafe
<1> QED BY <1>1, <1>2, <1>3, PTL DEF Spec

\* The committed events of every document are one walk through the transition
\* table that ends at the status of its row (engine.go:27-179).
THEOREM HistoryCorrect == Spec => []HistoryIsOneWalk
<1>1. SafetyInv => HistoryIsOneWalk
  BY DEF SafetyInv, RowsInv
<1> QED BY <1>1, Invariance, PTL

\* Every committed row has the columns its status needs and no others.
THEOREM FieldsCorrect == Spec => []FieldsFitStatus
<1>1. SafetyInv => FieldsFitStatus
  BY DEF SafetyInv, RowsInv
<1> QED BY <1>1, Invariance, PTL

\* A request that is sent again after it was applied is never applied twice in
\* a row: the transition table refuses every action in the status it leads to.
THEOREM RetryCorrect == Spec => []RetryNotAppliedTwice
<1>1. TypeOK /\ HistoryIsOneWalk => RetryNotAppliedTwice
  <2> SUFFICES ASSUME TypeOK, HistoryIsOneWalk, NEW d \in Docs, NEW i \in 2..Len(log[d])
               PROVE  log[d][i].action # log[d][i-1].action
    BY DEF RetryNotAppliedTwice
  <2>1. i \in 1..Len(log[d]) /\ i - 1 \in 1..Len(log[d]) /\ i # 1
    OBVIOUS
  <2>2. /\ Allows(log[d][i].old, log[d][i].action, log[d][i].new)
        /\ Allows(log[d][i-1].old, log[d][i-1].action, log[d][i-1].new)
        /\ log[d][i].old = log[d][i-1].new
    BY <2>1 DEF HistoryIsOneWalk
  <2> QED BY <2>2 DEF Allows, ValidTransitions
<1> QED BY <1>1, Invariance, HistoryCorrect, PTL

\* Only COMMIT writes events, one for the caller's document.
LEMMA OnlyCommitLogs ==
  ASSUME TypeOK, CallInv, [Next]_vars, NEW d \in Docs, log'[d] # log[d]
  PROVE  \E c \in Callers : Commit(c) /\ tx[c].doc = d
<1>1. ASSUME NEW c \in Callers, Commit(c) PROVE tx[c].doc = d
  BY <1>1 DEF Commit, TypeOK, CallInv, Call
<1>2. \E c \in Callers : Commit(c)
  BY DEF Next, Begin, NotFound, TakeSnapshot, SelectForUpdate, SerializationFailure,
         Refuse, UpdateDocument, LogEventTx, Abort, RollBack, Register,
         SetWorkflowLock, OtherColumnsUpdate, Tick, vars
<1> QED BY <1>1, <1>2

\* No transition is committed while the document's workflow is locked: nobody
\* can set the lock between the check and the COMMIT (engine.go:50-53).
THEOREM LockRespected == Spec => LockIsRespected
<1>1. TypeOK /\ CallInv /\ SafetyInv /\ [Next]_vars
        => [\A d \in Docs : log'[d] # log[d] => clock >= doc[d].lockedUntil]_vars
  <2> SUFFICES ASSUME TypeOK, CallInv, SafetyInv, [Next]_vars,
                      NEW d \in Docs, log'[d] # log[d]
               PROVE  clock >= doc[d].lockedUntil
    OBVIOUS
  <2>1. PICK c \in Callers : Commit(c) /\ tx[c].doc = d
    BY OnlyCommitLogs
  <2> QED BY <2>1 DEF Commit, SafetyInv, HoldersInv, Holds
<1> QED BY <1>1, Invariance, PTL DEF Spec, LockIsRespected

-----------------------------------------------------------------------------
(* The row can be rebuilt from its events.                                 *)

\* The indices of the events of an action in a history.
IndicesOf(hist, action) == {i \in 1..Len(hist) : hist[i].action = action}

\* RowMatchesHistory of one row and its history.
Rebuilds(row, hist) ==
  /\ row.rejections = Cardinality(IndicesOf(hist, "REJECT"))
  /\ row.user     = IF Len(hist) > 0 /\ hist[Len(hist)].action = "ASSIGN_USER"
                      THEN hist[Len(hist)].assignee ELSE Null
  /\ row.approver = IF Len(hist) > 0 /\ hist[Len(hist)].action = "SEND_FOR_APPROVAL"
                      THEN hist[Len(hist)].assignee ELSE Null
  /\ row.motiv    = IF Len(hist) > 0 /\ hist[Len(hist)].action = "CANCEL"
                      THEN hist[Len(hist)].motiv ELSE Null
  /\ \A i \in IndicesOf(hist, "ASSIGN_COMPARTIMENT") :
       (\A j \in IndicesOf(hist, "ASSIGN_COMPARTIMENT") : j <= i)
         => row.compartiment = hist[i].toCompartment

RebuiltInv == \A d \in Docs : doc[d] # Null => Rebuilds(doc[d], log[d])

\* The statement about rows is the property the run checks.
LEMMA RebuiltIsMatch == RebuiltInv => RowMatchesHistory
BY DEF RebuiltInv, Rebuilds, RowMatchesHistory, IndicesOf, Occurrences

\* The indices of an action are finitely many.
LEMMA IndicesFinite ==
  ASSUME NEW hist \in Seq(Events), NEW action
  PROVE  IsFiniteSet(IndicesOf(hist, action))
<1>1. Len(hist) \in Nat
  OBVIOUS
<1>2. IsFiniteSet(1..Len(hist))
  BY <1>1, FS_Interval
<1> QED BY <1>2, FS_Subset DEF IndicesOf

\* One more event is one more index for its action and none for the others.
LEMMA IndicesAppend ==
  ASSUME NEW hist \in Seq(Events), NEW ev \in Events, NEW action
  PROVE  IndicesOf(Append(hist, ev), action)
           = IF ev.action = action THEN IndicesOf(hist, action) \cup {Len(hist) + 1}
                                   ELSE IndicesOf(hist, action)
<1>1. /\ Len(hist) \in Nat /\ Len(Append(hist, ev)) = Len(hist) + 1
      /\ Append(hist, ev)[Len(hist) + 1] = ev
      /\ \A i \in 1..Len(hist) : Append(hist, ev)[i] = hist[i]
  OBVIOUS
<1> QED BY <1>1 DEF IndicesOf

\* The rejections of a history count its REJECT events.
LEMMA RejectionsAppend ==
  ASSUME NEW hist \in Seq(Events), NEW ev \in Events
  PROVE  Cardinality(IndicesOf(Append(hist, ev), "REJECT"))
           = Cardinality(IndicesOf(hist, "REJECT"))
               + (IF ev.action = "REJECT" THEN 1 ELSE 0)
<1> DEFINE S == IndicesOf(hist, "REJECT")
<1>1. IsFiniteSet(S) /\ Cardinality(S) \in Nat
  BY IndicesFinite, FS_CardinalityType
<1>2. Len(hist) + 1 \notin S
  BY DEF IndicesOf
<1>3. Cardinality(S \cup {Len(hist) + 1}) = Cardinality(S) + 1
  BY <1>1, <1>2, FS_AddElement
<1>4. IndicesOf(Append(hist, ev), "REJECT")
        = IF ev.action = "REJECT" THEN S \cup {Len(hist) + 1} ELSE S
  BY IndicesAppend
<1> HIDE DEF S
<1>5. CASE ev.action = "REJECT"
  BY <1>3, <1>4, <1>5 DEF S
<1>6. CASE ev.action # "REJECT"
  <2>1. IndicesOf(Append(hist, ev), "REJECT") = S
    BY <1>4, <1>6
  <2>2. Cardinality(S) = Cardinality(S) + 0
    BY <1>1
  <2> QED BY <1>6, <2>1, <2>2 DEF S
<1> QED BY <1>5, <1>6

\* A row updated for a request and the history with the event of this request
\* still belong together.
LEMMA RebuildsNext ==
  ASSUME NEW hist \in Seq(Events), NEW row \in Rows, NEW ev \in Events,
         NEW req \in Requests, NEW new, NEW now, Rebuilds(row, hist),
         ev.action = req.action, ev.toCompartment = req.compartiment,
         ev.assignee = req.assignee, ev.motiv = req.motiv
  PROVE  Rebuilds(UpdatedRow(row, req, new, now), Append(hist, ev))
<1> DEFINE up   == UpdatedRow(row, req, new, now)
           more == Append(hist, ev)
           n    == Len(hist)
<1>1. /\ n \in Nat /\ Len(more) = n + 1 /\ more[n + 1] = ev
      /\ \A i \in 1..n : more[i] = hist[i]
  OBVIOUS
<1>2. up.rejections = Cardinality(IndicesOf(more, "REJECT"))
  <2>1. up.rejections = row.rejections + (IF ev.action = "REJECT" THEN 1 ELSE 0)
    BY DEF UpdatedRow, Rows
  <2>2. row.rejections = Cardinality(IndicesOf(hist, "REJECT"))
    BY DEF Rebuilds
  <2> QED BY <2>1, <2>2, RejectionsAppend
<1>3. /\ up.user     = IF ev.action = "ASSIGN_USER" THEN ev.assignee ELSE Null
      /\ up.approver = IF ev.action = "SEND_FOR_APPROVAL" THEN ev.assignee ELSE Null
      /\ up.motiv    = IF ev.action = "CANCEL" THEN ev.motiv ELSE Null
      /\ up.compartiment = IF ev.action = "ASSIGN_COMPARTIMENT"
                             THEN ev.toCompartment ELSE row.compartiment
  BY DEF UpdatedRow, Given
<1> DEFINE last(h) == IndicesOf(h, "ASSIGN_COMPARTIMENT")
<1>4. ASSUME NEW i \in last(more), \A j \in last(more) : j <= i
      PROVE  up.compartiment = more[i].toCompartment
  <2>1. last(more) = IF ev.action = "ASSIGN_COMPARTIMENT"
                       THEN last(hist) \cup {n + 1} ELSE last(hist)
    BY IndicesAppend
  <2>2. \A k \in last(hist) : k \in 1..n
    BY DEF IndicesOf
  <2>3. CASE ev.action = "ASSIGN_COMPARTIMENT"
    <3>1. n + 1 <= i
      BY <1>4, <2>1, <2>3
    <3>2. i = n + 1
      BY <1>1, <1>4, <2>1, <2>2, <2>3, <3>1
    <3> QED BY <1>1, <1>3, <2>3, <3>2
  <2>4. CASE ev.action # "ASSIGN_COMPARTIMENT"
    <3>1. i \in last(hist) /\ \A j \in last(hist) : j <= i
      BY <1>4, <2>1, <2>4
    <3>2. row.compartiment = hist[i].toCompartment
      BY <3>1 DEF Rebuilds
    <3> QED BY <1>1, <1>3, <2>2, <2>4, <3>1, <3>2
  <2> QED BY <2>3, <2>4
<1>5. Len(more) > 0 /\ more[Len(more)] = ev
  BY <1>1
<1> HIDE DEF up, more, n
<1> QED BY <1>2, <1>3, <1>4, <1>5 DEF Rebuilds, up, more

\* What an open transaction is about to commit is the row its request makes of
\* the row it read.
Written(c) ==
  tx[c].phase \in {"updated", "logged"} =>
    \E now \in Nat :
      tx[c].write = UpdatedRow(tx[c].read, tx[c].req, tx[c].write.status, now)

WrittenInv == \A c \in Callers : Written(c)

\* A step of the engine writes nothing of a transaction but at its UPDATE.
LEMMA WritesOnlyAtUpdate ==
  ASSUME TypeOK, CallInv, [Next]_vars, NEW e \in Callers
  PROVE  \/ UpdateDocument(e)
         \/ tx'[e].phase \notin {"updated", "logged"}
         \/ /\ tx[e].phase \in {"updated", "logged"}
            /\ tx'[e].read = tx[e].read /\ tx'[e].req = tx[e].req
            /\ tx'[e].write = tx[e].write
<1> DEFINE Goal == \/ UpdateDocument(e)
                   \/ tx'[e].phase \notin {"updated", "logged"}
                   \/ /\ tx[e].phase \in {"updated", "logged"}
                      /\ tx'[e].read = tx[e].read /\ tx'[e].req = tx[e].req
                      /\ tx'[e].write = tx[e].write
<1>1. ASSUME NEW c \in Callers,
             \/ \E d \in Docs, req \in Requests : Begin(c, d, req)
             \/ NotFound(c) \/ TakeSnapshot(c) \/ SelectForUpdate(c)
             \/ SerializationFailure(c) \/ Refuse(c) \/ Abort(c)
      PROVE  Goal
  <2>1. /\ \A k \in Callers : k # c => tx'[k] = tx[k]
        /\ tx'[c].phase \notin {"updated", "logged"}
    <3>1. CASE RollBack(c)
      BY <3>1 DEF RollBack, TypeOK, IdleTx
    <3>2. CASE \E d \in Docs, req \in Requests : Begin(c, d, req)
      BY <3>2 DEF Begin, TypeOK, IdleTx
    <3>3. CASE TakeSnapshot(c)
      BY <3>3 DEF TakeSnapshot, TypeOK, TxType
    <3>4. CASE SelectForUpdate(c)
      BY <3>4 DEF SelectForUpdate, TypeOK, TxType
    <3> QED
      BY <1>1, <3>1, <3>2, <3>3, <3>4
         DEF NotFound, SerializationFailure, Refuse, Abort
  <2> QED BY <2>1
<1>2. ASSUME NEW c \in Callers, UpdateDocument(c) PROVE Goal
  <2>1. \A k \in Callers : k # c => tx'[k] = tx[k]
    BY <1>2 DEF UpdateDocument, TypeOK
  <2> QED BY <1>2, <2>1
<1>3. ASSUME NEW c \in Callers, LogEventTx(c) PROVE Goal
  <2>1. /\ tx[c].phase = "updated" /\ tx'[c].read = tx[c].read
        /\ tx'[c].req = tx[c].req /\ tx'[c].write = tx[c].write
        /\ \A k \in Callers : k # c => tx'[k] = tx[k]
    BY <1>3 DEF LogEventTx, TypeOK, TxType
  <2> QED BY <2>1
<1>4. ASSUME NEW c \in Callers, Commit(c) PROVE Goal
  <2>1. tx[c].doc \in Docs
    BY <1>4 DEF Commit, CallInv, Call
  <2>2. PICK d \in Docs : d = tx[c].doc
    BY <2>1
  <2>3. tx' = [Invalidated(d) EXCEPT ![c] = IdleTx]
    BY <1>4, <2>2 DEF Commit
  <2>4. CASE e = c
    BY <2>3, <2>4, LockTypes DEF IdleTx
  <2>5. CASE e # c
    <3>1. tx'[e] = Invalidated(d)[e]
      BY <2>3, <2>5, LockTypes
    <3> QED BY <3>1, InvalidatedFields
  <2> QED BY <2>4, <2>5
<1>5. ASSUME NEW d \in Docs,
             \/ \E until \in 1..MaxClock : SetWorkflowLock(d, until)
             \/ OtherColumnsUpdate(d)
      PROVE  Goal
  <2>1. tx' = Invalidated(d)
    BY <1>5 DEF SetWorkflowLock, OtherColumnsUpdate
  <2> QED BY <2>1, InvalidatedFields
<1>6. ASSUME UNCHANGED tx PROVE Goal
  BY <1>6
<1> QED
  BY <1>1, <1>2, <1>3, <1>4, <1>5, <1>6 DEF Next, Register, Tick, vars

\* Open transactions stay so.
LEMMA NextWritten ==
  ASSUME TypeOK, CallInv, WrittenInv, [Next]_vars
  PROVE  WrittenInv'
<1>1. ASSUME NEW e \in Callers PROVE Written(e)'
  <2>1. CASE UpdateDocument(e)
    <3>1. PICK new \in Statuses :
            tx' = [tx EXCEPT ![e] =
                   [@ EXCEPT !.phase = "updated",
                             !.write = UpdatedRow(tx[e].read, tx[e].req, new, clock)]]
      BY <2>1 DEF UpdateDocument
    <3>2. /\ tx'[e].read = tx[e].read /\ tx'[e].req = tx[e].req
          /\ tx'[e].write = UpdatedRow(tx[e].read, tx[e].req, new, clock)
      BY <3>1 DEF TypeOK, TxType
    <3>3. UpdatedRow(tx[e].read, tx[e].req, new, clock).status = new /\ clock \in Nat
      BY DEF UpdatedRow, TypeOK
    <3>4. tx'[e].write.status = new
      BY <3>2, <3>3
    <3>5. \E now \in Nat : tx'[e].write
            = UpdatedRow(tx'[e].read, tx'[e].req, tx'[e].write.status, now)
      BY <3>2, <3>3, <3>4
    <3> QED BY <3>5 DEF Written, UpdatedRow, Given
  <2>2. CASE tx'[e].phase \notin {"updated", "logged"}
    BY <2>2 DEF Written
  <2>3. CASE /\ tx[e].phase \in {"updated", "logged"}
             /\ tx'[e].read = tx[e].read /\ tx'[e].req = tx[e].req
             /\ tx'[e].write = tx[e].write
    BY <2>3 DEF WrittenInv, Written, UpdatedRow, Given
  <2> QED BY <2>1, <2>2, <2>3, WritesOnlyAtUpdate
<1> QED BY <1>1 DEF WrittenInv

\* A COMMIT publishes a row and the event it belongs to.
LEMMA CommitRebuilds ==
  ASSUME TypeOK, CallInv, SafetyInv, WrittenInv, RebuiltInv,
         NEW c \in Callers, Commit(c)
  PROVE  RebuiltInv'
<1>1. /\ tx[c].doc \in Docs /\ tx[c].read \in Rows /\ tx[c].req \in Requests
      /\ tx[c].event = EventOf(tx[c]) /\ tx[c].event \in Events
      /\ tx[c].read = doc[tx[c].doc]
  BY EventType DEF Commit, CallInv, Call, TypeOK, SafetyInv, HoldersInv, Holds
<1>2. PICK d0 \in Docs : d0 = tx[c].doc
  BY <1>1
<1>3. PICK row \in Rows : row = tx[c].read
  BY <1>1
<1>4. PICK req \in Requests : req = tx[c].req
  BY <1>1
<1>5. PICK ev \in Events : ev = tx[c].event
  BY <1>1
<1>6. PICK now \in Nat :
        tx[c].write = UpdatedRow(row, req, tx[c].write.status, now)
  BY <1>3, <1>4 DEF Commit, WrittenInv, Written
<1> PICK new : new = tx[c].write.status
  OBVIOUS
<1>7. PICK hist \in Seq(Events) : hist = log[d0]
  BY DEF TypeOK
<1>8. Rebuilds(row, hist)
  BY <1>1, <1>2, <1>3, <1>7, NullAssumption DEF RebuiltInv
<1>9. /\ ev.action = req.action /\ ev.toCompartment = req.compartiment
      /\ ev.assignee = req.assignee /\ ev.motiv = req.motiv
  BY <1>1, <1>4, <1>5 DEF EventOf
<1>10. Rebuilds(UpdatedRow(row, req, new, now), Append(hist, ev))
  BY <1>8, <1>9, RebuildsNext
<1>11. /\ doc' = [doc EXCEPT ![d0] = UpdatedRow(row, req, new, now)]
       /\ log' = [log EXCEPT ![d0] = Append(hist, ev)]
  BY <1>2, <1>5, <1>6, <1>7 DEF Commit
<1>12. ASSUME NEW d \in Docs, doc'[d] # Null PROVE Rebuilds(doc'[d], log'[d])
  <2>1. CASE d = d0
    BY <1>10, <1>11, <2>1 DEF TypeOK
  <2>2. CASE d # d0
    BY <1>11, <1>12, <2>2 DEF TypeOK, RebuiltInv
  <2> QED BY <2>1, <2>2
<1> QED BY <1>12 DEF RebuiltInv, Rebuilds, IndicesOf

\* Each step keeps row and history together.
LEMMA NextRebuilds ==
  ASSUME TypeOK, CallInv, SafetyInv, WrittenInv, RebuiltInv, [Next]_vars
  PROVE  RebuiltInv'
<1>1. CASE \E c \in Callers : Commit(c)
  BY <1>1, CommitRebuilds
<1>2. ASSUME NEW d0 \in Docs, Register(d0) PROVE RebuiltInv'
  <2>1. /\ doc' = [doc EXCEPT ![d0] = NewDocument] /\ log' = log
        /\ log[d0] = <<>>
    BY <1>2 DEF Register, SafetyInv, RowsInv, HistoryStarts
  <2>2. Rebuilds(NewDocument, <<>>)
    <3>1. \A action : IndicesOf(<<>>, action) = {}
      BY DEF IndicesOf
    <3>2. Cardinality(IndicesOf(<<>>, "REJECT")) = 0
      BY <3>1, FS_EmptySet
    <3>3. Len(<<>>) = 0
      OBVIOUS
    <3>4. /\ NewDocument.rejections = 0 /\ NewDocument.user = Null
          /\ NewDocument.approver = Null /\ NewDocument.motiv = Null
      BY DEF NewDocument
    <3>5. IndicesOf(<<>>, "ASSIGN_COMPARTIMENT") = {}
      BY <3>1
    <3> QED BY <3>2, <3>3, <3>4, <3>5 DEF Rebuilds
  <2>3. ASSUME NEW d \in Docs, doc'[d] # Null PROVE Rebuilds(doc'[d], log'[d])
    <3>1. CASE d = d0
      BY <2>1, <2>2, <3>1 DEF TypeOK
    <3>2. CASE d # d0
      BY <2>1, <2>3, <3>2 DEF TypeOK, RebuiltInv
    <3> QED BY <3>1, <3>2
  <2> QED BY <2>3 DEF RebuiltInv, Rebuilds, IndicesOf
<1>3. ASSUME NEW d0 \in Docs, NEW until \in 1..MaxClock, SetWorkflowLock(d0, until)
      PROVE  RebuiltInv'
  <2>1. /\ doc[d0] # Null /\ doc[d0] \in Rows /\ log' = log
        /\ doc' = [doc EXCEPT ![d0] = [doc[d0] EXCEPT !.lockedUntil = until]]
    BY <1>3 DEF SetWorkflowLock, TypeOK, Optional
  <2>2. PICK old \in Rows : old = doc[d0]
    BY <2>1
  <2>3. PICK row : row = [old EXCEPT !.lockedUntil = until]
    OBVIOUS
  <2>4. /\ row.rejections = old.rejections /\ row.user = old.user
        /\ row.approver = old.approver /\ row.motiv = old.motiv
        /\ row.compartiment = old.compartiment
    BY <2>3 DEF Rows
  <2>5. PICK hist : hist = log[d0]
    OBVIOUS
  <2>6. Rebuilds(row, hist)
    <3>1. Rebuilds(old, hist)
      BY <2>1, <2>2, <2>5 DEF RebuiltInv
    <3> QED BY <2>4, <3>1 DEF Rebuilds
  <2>7. doc'[d0] = row /\ \A d \in Docs : d # d0 => doc'[d] = doc[d]
    BY <2>1, <2>2, <2>3 DEF TypeOK
  <2>8. ASSUME NEW d \in Docs, doc'[d] # Null PROVE Rebuilds(doc'[d], log'[d])
    <3>1. CASE d = d0
      BY <2>1, <2>5, <2>6, <2>7, <3>1
    <3>2. CASE d # d0
      BY <2>1, <2>7, <2>8, <3>2 DEF RebuiltInv
    <3> QED BY <3>1, <3>2
  <2> QED BY <2>8 DEF RebuiltInv, Rebuilds, IndicesOf
<1>4. CASE UNCHANGED <<doc, log>>
  BY <1>4 DEF RebuiltInv, Rebuilds, IndicesOf
<1>5. \/ \E c \in Callers : Commit(c)
      \/ \E d \in Docs : Register(d)
      \/ \E d \in Docs, until \in 1..MaxClock : SetWorkflowLock(d, until)
      \/ UNCHANGED <<doc, log>>
  BY DEF Next, Begin, NotFound, TakeSnapshot, SelectForUpdate, SerializationFailure,
         Refuse, UpdateDocument, LogEventTx, Abort, RollBack, OtherColumnsUpdate,
         Tick, vars
<1> QED BY <1>1, <1>2, <1>3, <1>4, <1>5

\* Every committed row can be rebuilt from its events: rejections, compartment,
\* user, approver and reason (the UPDATE and the INSERT of engine.go:87-168).
THEOREM RebuiltCorrect == Spec => []RowMatchesHistory
<1>1. Init => WrittenInv /\ RebuiltInv
  BY DEF Init, WrittenInv, Written, IdleTx, RebuiltInv
<1>2. TypeOK /\ CallInv /\ SafetyInv /\ WrittenInv /\ RebuiltInv /\ [Next]_vars
        => WrittenInv' /\ RebuiltInv'
  BY NextWritten, NextRebuilds
<1> QED BY <1>1, <1>2, RebuiltIsMatch, Invariance, PTL DEF Spec

-----------------------------------------------------------------------------
(* The engine implements the abstract life cycle.                          *)

\* A function on 1..n is a sequence of length n.
LEMMA FunctionIsSeq ==
  ASSUME NEW T, NEW n \in Nat, NEW f \in [1..n -> T]
  PROVE  f \in Seq(T) /\ Len(f) = n
<1>1. f \in Seq(T)
  BY SeqDef
<1>2. Len(f) \in Nat /\ DOMAIN f = 1..Len(f)
  BY <1>1, LenProperties
<1>3. DOMAIN f = 1..n
  OBVIOUS
<1>4. 1..Len(f) = 1..n
  BY <1>2, <1>3
<1>5. Len(f) <= n /\ n <= Len(f)
  <2>1. Len(f) \in 1..Len(f) \/ Len(f) = 0
    BY <1>2
  <2>2. n \in 1..n \/ n = 0
    OBVIOUS
  <2> QED BY <1>2, <1>4, <2>1, <2>2
<1> QED BY <1>1, <1>2, <1>5

\* A function on 1..(n + 1) that agrees with f on 1..n is f with one element
\* appended.
LEMMA AppendIsExtension ==
  ASSUME NEW T, NEW n \in Nat, NEW f \in [1..n -> T], NEW e \in T,
         NEW g \in [1..(n + 1) -> T],
         g[n + 1] = e, \A i \in 1..n : g[i] = f[i]
  PROVE  g = Append(f, e)
<1>1. f \in Seq(T) /\ Len(f) = n
  BY FunctionIsSeq
<1>2. g \in Seq(T) /\ Len(g) = n + 1
  <2>1. n + 1 \in Nat
    OBVIOUS
  <2> QED BY <2>1, FunctionIsSeq
<1>3. /\ Append(f, e) \in Seq(T) /\ Len(Append(f, e)) = n + 1
      /\ \A i \in 1..n : Append(f, e)[i] = f[i]
      /\ Append(f, e)[n + 1] = e
  BY <1>1, AppendProperties
<1>4. \A i \in 1..Len(g) : g[i] = Append(f, e)[i]
  BY <1>2, <1>3
<1> QED BY <1>2, <1>3, <1>4, SeqEqual

\* Appending an event appends what the life cycle sees of it.
LEMMA AcceptedAppend ==
  ASSUME TypeOK, NEW d \in Docs, NEW ev \in Events,
         log'[d] = Append(log[d], ev)
  PROVE  Accepted(d)' = Append(Accepted(d),
                          [action |-> ev.action, old |-> ev.old, new |-> ev.new])
<1> DEFINE n == Len(log[d])
           e3 == [action |-> ev.action, old |-> ev.old, new |-> ev.new]
           T  == [action : Actions, old : Statuses, new : Statuses]
<1>1. log[d] \in Seq(Events) /\ n \in Nat
  BY DEF TypeOK
<1>2. /\ Len(log'[d]) = n + 1 /\ log'[d][n + 1] = ev
      /\ \A i \in 1..n : log'[d][i] = log[d][i]
  BY <1>1
<1>3. /\ \A i \in 1..n : log[d][i] \in Events
      /\ \A i \in 1..(n + 1) : log'[d][i] \in Events
  BY <1>1, <1>2
<1>4. Accepted(d) \in [1..n -> T]
  BY <1>3 DEF Accepted, Events
<1>5. Accepted(d)' \in [1..(n + 1) -> T]
  BY <1>2, <1>3 DEF Accepted, Events
<1>6. e3 \in T
  BY DEF Events
<1>7. Accepted(d)'[n + 1] = e3 /\ \A i \in 1..n : Accepted(d)'[i] = Accepted(d)[i]
  BY <1>1, <1>2 DEF Accepted
<1> HIDE DEF T, e3, n
<1> QED BY <1>1, <1>4, <1>5, <1>6, <1>7, AppendIsExtension DEF e3

\* A step that keeps the events and the status of every document is a stutter
\* of the life cycle.
LEMMA SameLifeCycle ==
  ASSUME UNCHANGED log, \A d \in Docs : Current(d)' = Current(d)
  PROVE  UNCHANGED Abstract!vars
BY DEF Abstract!vars, Accepted

\* A COMMIT is a transition of its document.
LEMMA CommitIsTransition ==
  ASSUME TypeOK, CallInv, SafetyInv, NEW c \in Callers, Commit(c),
         NEW d0 \in Docs, d0 = tx[c].doc
  PROVE  Abstract!Next
<1> DEFINE ev == tx[c].event
<1>1. /\ d0 \in Docs /\ tx[c].write \in Rows /\ tx[c].read \in Rows
      /\ ev = EventOf(tx[c]) /\ ev \in Events
      /\ Allows(tx[c].read.status, tx[c].req.action, tx[c].write.status)
      /\ tx[c].read = doc[d0]
  BY EventType DEF Commit, CallInv, Call, TypeOK, SafetyInv, HoldersInv, Holds
<1>2. /\ doc' = [doc EXCEPT ![d0] = tx[c].write]
      /\ log' = [log EXCEPT ![d0] = Append(@, ev)]
  BY DEF Commit
<1>3. /\ ev.action \in Actions /\ ev.new \in Statuses
      /\ ev.old = Current(d0) /\ ev.new = tx[c].write.status
      /\ Allows(Current(d0), ev.action, ev.new)
  BY <1>1, NullAssumption DEF EventOf, Events, Current
<1>4. \A d \in Docs : Current(d)' = IF d = d0 THEN ev.new ELSE Current(d)
  BY <1>1, <1>2, <1>3, NullAssumption DEF Current, TypeOK
<1>5. \A d \in Docs : d # d0 => log'[d] = log[d]
  BY <1>1, <1>2 DEF TypeOK
<1>6. \A d \in Docs : d # d0 => Accepted(d)' = Accepted(d)
  BY <1>5 DEF Accepted
<1>7. log'[d0] = Append(log[d0], ev)
  BY <1>1, <1>2 DEF TypeOK
<1>8. Accepted(d0)' = Append(Accepted(d0),
                        [action |-> ev.action, old |-> Current(d0), new |-> ev.new])
  BY <1>1, <1>3, <1>7, AcceptedAppend
<1>9. Abstract!Transition(d0, ev.action, ev.new)
  BY <1>1, <1>3, <1>4, <1>6, <1>8 DEF Abstract!Transition, Abstract!Allows, Allows, Abstract!ValidTransitions, ValidTransitions
<1> QED BY <1>1, <1>3, <1>9 DEF Abstract!Next, Abstract!Actions, Abstract!Statuses, Actions, Statuses

\* Every step of the engine is a step of the life cycle or a stutter.
LEMMA StepRefines ==
  ASSUME TypeOK, CallInv, SafetyInv, [Next]_vars
  PROVE  [Abstract!Next]_(Abstract!vars)
<1>1. ASSUME NEW c \in Callers, Commit(c) PROVE Abstract!Next
  BY <1>1, CommitIsTransition DEF Commit, CallInv, Call
<1>2. ASSUME NEW d \in Docs, Register(d) PROVE Abstract!Next
  <2>1. /\ Current(d) = "ABSENT"
        /\ \A e \in Docs : Current(e)' = IF e = d THEN "INREGISTRAT" ELSE Current(e)
        /\ \A e \in Docs : Accepted(e)' = Accepted(e)
    BY <1>2, NewDocumentType, NullAssumption
       DEF Register, TypeOK, Current, Accepted, NewDocument
  <2>2. Abstract!Register(d)
    BY <2>1 DEF Abstract!Register
  <2> QED BY <2>2 DEF Abstract!Next
<1>3. ASSUME NEW d \in Docs, NEW until \in 1..MaxClock, SetWorkflowLock(d, until)
      PROVE  UNCHANGED Abstract!vars
  <2>1. /\ doc[d] \in Rows
        /\ doc' = [doc EXCEPT ![d] = [doc[d] EXCEPT !.lockedUntil = until]]
        /\ UNCHANGED log
    BY <1>3 DEF SetWorkflowLock, TypeOK, Optional
  <2>2. [doc[d] EXCEPT !.lockedUntil = until] \in Rows
    BY <2>1, BoundsAssumption DEF Rows
  <2>3. \A e \in Docs : Current(e)' = Current(e)
    BY <2>1, <2>2, NullAssumption DEF Current, TypeOK, Rows
  <2> QED BY <2>1, <2>3, SameLifeCycle
<1>4. ASSUME UNCHANGED <<doc, log>> PROVE UNCHANGED Abstract!vars
  BY <1>4, SameLifeCycle DEF Current
<1> QED
  BY <1>1, <1>2, <1>3, <1>4
     DEF Next, Begin, NotFound, TakeSnapshot, SelectForUpdate, SerializationFailure,
         Refuse, UpdateDocument, LogEventTx, Abort, RollBack, OtherColumnsUpdate,
         Tick, vars

\* Engine.Advance, with its transactions, locks, failures and the other writers
\* of the row, implements the atomic life cycle (engine.go:25-26).
THEOREM Refinement == Spec => ImplementsDocumentWorkflow
<1>1. Init => Abstract!Init
  BY DEF Init, Abstract!Init, Current, Accepted
<1>2. TypeOK /\ CallInv /\ SafetyInv /\ [Next]_vars => [Abstract!Next]_(Abstract!vars)
  BY StepRefines
<1> QED
  BY <1>1, <1>2, Invariance, PTL DEF Spec, Abstract!Spec, ImplementsDocumentWorkflow
=============================================================================
