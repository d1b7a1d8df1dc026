----------------------------- MODULE ArchiveProofs -----------------------------
(***************************************************************************)
(* Theorems about ArchiveWorker for any number of documents and replicas,  *)
(* any number of cycles, faults, cancellations and restarts.               *)
(***************************************************************************)
EXTENDS ArchiveWorker, FiniteSetTheorems, FunctionTheorems, SequenceTheorems,
        TLAPS

-----------------------------------------------------------------------------
(* The inductive invariant.                                                *)

\* Replica w has not sent document d to the archive.
Unsent(w, d) ==
  /\ \A i \in 1..Len(archive[d]) : archive[d][i].by # w
  /\ \A r \in requests : r.doc = d => r.by # w

\* What waits in a queue is final, in no other place of the queue, not in the
\* replica's pipeline, and was never sent by this replica.
QueueOf(w) ==
  LET q == worker[w].queue
  IN  \A i \in 1..Len(q) :
        /\ doc[q[i]].status = "FINALIZAT"
        /\ worker[w].doc # q[i]
        /\ Unsent(w, q[i])
        /\ \A j \in 1..Len(q) : q[i] = q[j] => i = j

\* What a pipeline knows of the document it has in hand.
PipelineOf(w) ==
  LET d == worker[w].doc
      p == worker[w].phase
  IN  /\ p \notin Working => d = Null
      /\ p \in Working =>
           /\ d \in Docs
           /\ doc[d].status = "FINALIZAT"
           /\ doc[d].archiveStatus # "NOT_ARCHIVED"
      /\ p \in {"fetch", "convert"} => Unsent(w, d)
      /\ p \in {"convert", "sent", "ingested"} =>
           worker[w].events = doc[d].events
      /\ p = "ingested" => worker[w].id \in 1..Len(archive[d])

\* A document never marked was never sent.
UnmarkedIsUnsent ==
  \A d \in Docs, w \in Workers :
    doc[d].archiveStatus = "NOT_ARCHIVED" => Unsent(w, d)

Replicas == \A w \in Workers : QueueOf(w) /\ PipelineOf(w)

\* Packages are final only because whatever a replica has queued or in hand is,
\* and sent once only because what is unmarked or queued is unsent.
IInv ==
  /\ TypeOK
  /\ Replicas
  /\ UnmarkedIsUnsent
  /\ PackagesAreFinal
  /\ ArchivedMeansStored
  /\ SentOncePerReplica

-----------------------------------------------------------------------------
(* Operators.                                                              *)

\* No action leads out of FINALIZAT, and none to a word that is no status.
LEMMA FinalIsFinal ==
  ASSUME NEW old, NEW action, NEW new, Allows(old, action, new)
  PROVE  old # "FINALIZAT" /\ new \in Statuses
BY DEF Allows, ValidTransitions, Statuses

\* A process that starts has its type.
LEMMA DownType ==
  /\ Down \in WorkerType
  /\ [Down EXCEPT !.phase = "scan"] \in WorkerType
  /\ Down.phase = "down" /\ Down.doc = Null /\ Down.queue = <<>>
<1>1. <<>> \in Seq(Docs)
  OBVIOUS
<1>2. Down \in WorkerType
  BY <1>1 DEF Down, WorkerType, Phases
<1>3. [Down EXCEPT !.phase = "scan"] \in WorkerType
  BY <1>2 DEF WorkerType, Phases
<1> QED BY <1>2, <1>3 DEF Down

\* Every list the query may return is a sequence of different due documents.
LEMMA ListingsAreDue ==
  ASSUME TypeOK, NEW q \in Listings
  PROVE  /\ q \in Seq(Docs)
         /\ \A i \in 1..Len(q) : Due(q[i]) /\ (\A j \in 1..Len(q) : q[i] = q[j] => i = j)
<1> DEFINE due == {d \in Docs : Due(d)}
           n   == IF Cardinality(due) < Limit THEN Cardinality(due) ELSE Limit
<1>1. Cardinality(due) \in Nat
  BY DocsAssumption, FS_Subset, FS_CardinalityType
<1>2. n \in Nat
  BY <1>1, BoundsAssumption
<1>3. q \in [1..n -> due] /\ (\A i, j \in 1..n : i < j => q[i] # q[j])
  BY DEF Listings
<1> HIDE DEF n
<1>4. q \in Seq(due) /\ Len(q) = n
  BY <1>2, <1>3
<1>5. q \in Seq(Docs)
  BY <1>2, <1>3
<1>6. ASSUME NEW i \in 1..n, NEW j \in 1..n, q[i] = q[j] PROVE i = j
  <2>1. ~(i < j) /\ ~(j < i)
    BY <1>3, <1>6
  <2> QED BY <2>1, <1>2
<1>7. ASSUME NEW i \in 1..n PROVE Due(q[i])
  BY <1>3, <1>7
<1> QED BY <1>4, <1>5, <1>6, <1>7

-----------------------------------------------------------------------------
(* Steps of a replica.                                                     *)

\* The queue of a replica after a step, from what the replica is then.
LEMMA QueueAfter ==
  ASSUME NEW w, NEW t, worker'[w] = t, UNCHANGED <<requests, archive>>,
         \A i \in 1..Len(t.queue) :
           /\ doc'[t.queue[i]].status = "FINALIZAT"
           /\ t.doc # t.queue[i]
           /\ Unsent(w, t.queue[i])
           /\ \A j \in 1..Len(t.queue) : t.queue[i] = t.queue[j] => i = j
  PROVE  QueueOf(w)'
BY DEF QueueOf, Unsent

\* A step of replica w that leaves the life cycle and the archive alone, takes
\* no mark away, and keeps what w itself has to know.
LEMMA ReplicaStepKeeps ==
  ASSUME IInv, NEW w \in Workers, NEW t \in WorkerType,
         worker' = [worker EXCEPT ![w] = t],
         doc' \in [Docs -> Rows],
         \A d \in Docs : /\ doc'[d].status = doc[d].status
                         /\ doc'[d].events = doc[d].events
                         /\ doc'[d].archiveStatus = "NOT_ARCHIVED" =>
                              doc[d].archiveStatus = "NOT_ARCHIVED",
         UNCHANGED <<requests, archive>>, clock' \in Nat, faults' \in 0..MaxFaults,
         ArchivedMeansStored', QueueOf(w)', PipelineOf(w)'
  PROVE  IInv'
<1>1. TypeOK'
  BY DEF IInv, TypeOK
<1>2. ASSUME NEW v \in Workers PROVE QueueOf(v)' /\ PipelineOf(v)'
  <2>1. CASE v = w
    BY <2>1
  <2>2. CASE v # w
    <3>1. worker'[v] = worker[v] /\ worker[v] \in WorkerType
      BY <2>2 DEF IInv, TypeOK
    <3>2. QueueOf(v) /\ PipelineOf(v)
      BY DEF IInv, Replicas
    <3>3. \A i \in 1..Len(worker[v].queue) : worker[v].queue[i] \in Docs
      BY <3>1 DEF WorkerType
    <3>4. \A i \in 1..Len(worker[v].queue) :
            /\ doc'[worker[v].queue[i]].status = "FINALIZAT"
            /\ worker[v].doc # worker[v].queue[i]
            /\ Unsent(v, worker[v].queue[i])
            /\ \A j \in 1..Len(worker[v].queue) :
                 worker[v].queue[i] = worker[v].queue[j] => i = j
      BY <3>2, <3>3 DEF QueueOf
    <3>5. QueueOf(v)'
      BY <3>1, <3>4, QueueAfter
    <3>6. PipelineOf(v)'
      BY <3>1, <3>2 DEF PipelineOf, Unsent, Working
    <3> QED BY <3>5, <3>6
  <2> QED BY <2>1, <2>2
<1>3. UnmarkedIsUnsent'
  BY DEF IInv, UnmarkedIsUnsent, Unsent
<1>4. PackagesAreFinal'
  BY DEF IInv, PackagesAreFinal
<1>5. SentOncePerReplica'
  BY DEF IInv, SentOncePerReplica
<1> QED BY <1>1, <1>2, <1>3, <1>4, <1>5 DEF IInv, Replicas

\* A step of replica w that only moves w on.
LEMMA LocalStepKeeps ==
  ASSUME IInv, NEW w \in Workers, NEW t \in WorkerType,
         worker' = [worker EXCEPT ![w] = t],
         UNCHANGED <<clock, doc, requests, archive>>, faults' \in 0..MaxFaults,
         QueueOf(w)', PipelineOf(w)'
  PROVE  IInv'
<1>1. doc' \in [Docs -> Rows] /\ clock' \in Nat
  BY DEF IInv, TypeOK
<1>2. ArchivedMeansStored'
  BY DEF IInv, ArchivedMeansStored
<1> QED BY <1>1, <1>2, ReplicaStepKeeps

\* A step of replica w that also writes the archive columns of one document.
LEMMA MarkStepKeeps ==
  ASSUME IInv, NEW w \in Workers, NEW t \in WorkerType,
         worker' = [worker EXCEPT ![w] = t],
         NEW d \in Docs, NEW s \in ArchiveStatuses \ {"NOT_ARCHIVED"}, NEW id,
         doc' = [doc EXCEPT ![d] = [@ EXCEPT !.archiveStatus = s, !.archiveId = id]],
         id = doc[d].archiveId \/ id \in 1..Len(archive[d]),
         s = "ARCHIVED" => id # Null,
         UNCHANGED <<clock, requests, archive>>, faults' \in 0..MaxFaults,
         QueueOf(w)', PipelineOf(w)'
  PROVE  IInv'
<1> DEFINE row == [doc[d] EXCEPT !.archiveStatus = s, !.archiveId = id]
<1>1. doc[d] \in Rows /\ archive[d] \in Seq(Packages)
  BY DEF IInv, TypeOK
<1>2. id \in Nat \cup {Null}
  BY <1>1 DEF Rows
<1>3. /\ row \in Rows /\ row.status = doc[d].status /\ row.events = doc[d].events
      /\ row.archiveStatus = s /\ row.archiveId = id
  BY <1>1, <1>2 DEF Rows
<1> HIDE DEF row
<1>4. doc' = [doc EXCEPT ![d] = row]
  BY DEF row
<1>5. doc' \in [Docs -> Rows] /\ clock' \in Nat
  BY <1>3, <1>4 DEF IInv, TypeOK
<1>6. ASSUME NEW e \in Docs
      PROVE  /\ doc'[e].status = doc[e].status
             /\ doc'[e].events = doc[e].events
             /\ doc'[e].archiveStatus = "NOT_ARCHIVED" =>
                  doc[e].archiveStatus = "NOT_ARCHIVED"
  BY <1>3, <1>4 DEF IInv, TypeOK
<1>7. ArchivedMeansStored'
  BY <1>3, <1>4 DEF IInv, TypeOK, ArchivedMeansStored
<1> QED BY <1>5, <1>6, <1>7, ReplicaStepKeeps

\* What SetArchiveStatus does to the rows.
LEMMA MarkedRow ==
  ASSUME IInv, NEW d \in Docs, NEW s \in ArchiveStatuses, SetArchiveStatus(d, s)
  PROVE  /\ doc' = [doc EXCEPT ![d] = [@ EXCEPT !.archiveStatus = s,
                                                !.archiveId = doc[d].archiveId]]
         /\ \A e \in Docs : doc'[e].status = doc[e].status
         /\ doc'[d].archiveStatus = s
<1>1. doc[d] \in Rows
  BY DEF IInv, TypeOK
<1>2. [doc[d] EXCEPT !.archiveStatus = s]
        = [doc[d] EXCEPT !.archiveStatus = s, !.archiveId = doc[d].archiveId]
  BY <1>1 DEF Rows
<1> QED BY <1>1, <1>2 DEF SetArchiveStatus, IInv, TypeOK, Rows

\* A step of replica w that also sets the archive status of one document.
LEMMA StatusStepKeeps ==
  ASSUME IInv, NEW w \in Workers, NEW t \in WorkerType,
         worker' = [worker EXCEPT ![w] = t],
         NEW d \in Docs, NEW s \in ArchiveStatuses \ {"NOT_ARCHIVED", "ARCHIVED"},
         SetArchiveStatus(d, s),
         UNCHANGED <<clock, requests, archive>>, faults' \in 0..MaxFaults,
         QueueOf(w)', PipelineOf(w)'
  PROVE  IInv'
<1>1. PICK id : id = doc[d].archiveId
  OBVIOUS
<1>2. doc' = [doc EXCEPT ![d] = [@ EXCEPT !.archiveStatus = s, !.archiveId = id]]
  BY <1>1, MarkedRow
<1> QED BY <1>1, <1>2, MarkStepKeeps

\* A step that only changes the phase of w, to one that knows no more.
LEMMA GotoKeeps ==
  ASSUME IInv, NEW w \in Workers, NEW p \in Phases, Goto(w, p),
         UNCHANGED <<clock, doc, requests, archive>>, faults' \in 0..MaxFaults,
         \/ p \notin Working /\ worker[w].phase \notin Working
         \/ p = "failing" /\ worker[w].phase \in Working
  PROVE  IInv'
<1> DEFINE t == [worker[w] EXCEPT !.phase = p]
<1>1. worker[w] \in WorkerType /\ QueueOf(w) /\ PipelineOf(w)
  BY DEF IInv, TypeOK, Replicas
<1>2. /\ t \in WorkerType /\ t.phase = p /\ t.queue = worker[w].queue
      /\ t.doc = worker[w].doc /\ t.events = worker[w].events /\ t.id = worker[w].id
  BY <1>1 DEF WorkerType
<1> HIDE DEF t
<1>3. worker' = [worker EXCEPT ![w] = t]
  BY DEF Goto, t
<1>4. worker'[w] = t
  BY <1>3 DEF IInv, TypeOK
<1>5. \A d \in Docs : Unsent(w, d) => Unsent(w, d)'
  BY DEF Unsent
<1>6. \A i \in 1..Len(worker[w].queue) : worker[w].queue[i] \in Docs
  BY <1>1 DEF WorkerType
<1>7. QueueOf(w)'
  BY <1>1, <1>2, <1>4, <1>5, <1>6 DEF QueueOf
<1>8. PipelineOf(w)'
  BY <1>1, <1>2, <1>4, <1>5 DEF PipelineOf, Working
<1> QED BY <1>2, <1>3, <1>7, <1>8, LocalStepKeeps

\* Faults are counted up to their bound.
LEMMA FaultType ==
  ASSUME IInv, NEW w \in Workers, Fault \/ StatementFails(w) \/ UNCHANGED faults
  PROVE  faults' \in 0..MaxFaults
BY BoundsAssumption DEF IInv, TypeOK, Fault, StatementFails

\* Back in the loop of runCycle nothing is in hand, whatever the error was.
LEMMA ReturnedState ==
  ASSUME IInv, NEW w \in Workers,
         \A d \in Docs : doc'[d].status = doc[d].status,
         UNCHANGED <<requests, archive>>, ReturnToCycle(w)
  PROVE  \E t \in WorkerType :
           worker' = [worker EXCEPT ![w] = t] /\ QueueOf(w)' /\ PipelineOf(w)'
<1> DEFINE t == [worker[w] EXCEPT !.phase = "cycle", !.doc = Null, !.events = 0, !.id = Null]
<1>1. worker[w] \in WorkerType /\ QueueOf(w)
  BY DEF IInv, TypeOK, Replicas
<1>2. t \in WorkerType /\ t.phase = "cycle" /\ t.queue = worker[w].queue /\ t.doc = Null
  BY <1>1 DEF WorkerType, Phases
<1> HIDE DEF t
<1>3. worker' = [worker EXCEPT ![w] = t] /\ worker'[w] = t
  BY DEF ReturnToCycle, IInv, TypeOK, t
<1>4. \A i \in 1..Len(worker[w].queue) : worker[w].queue[i] \in Docs
  BY <1>1 DEF WorkerType
<1>5. QueueOf(w)'
  BY <1>1, <1>2, <1>3, <1>4, NullAssumption DEF QueueOf, Unsent
<1>6. PipelineOf(w)'
  BY <1>2, <1>3 DEF PipelineOf, Working
<1> QED BY <1>2, <1>3, <1>5, <1>6

\* ArchiveDocument returns having written nothing.
LEMMA ReturnKeeps ==
  ASSUME IInv, NEW w \in Workers, ReturnToCycle(w),
         UNCHANGED <<clock, doc, requests, archive>>, faults' \in 0..MaxFaults
  PROVE  IInv'
BY ReturnedState, LocalStepKeeps

\* Cycles: starting, listing, stopping, crashing.
LEMMA CycleKeeps ==
  ASSUME IInv, NEW w \in Workers,
         \/ Start(w) \/ TickerFires(w) \/ Stop(w) \/ FindCandidates(w)
         \/ FindCandidatesFails(w) \/ CycleEnds(w) \/ Cancel(w) \/ Crash(w)
  PROVE  IInv'
<1>1. /\ worker[w] \in WorkerType /\ QueueOf(w) /\ PipelineOf(w)
      /\ faults' \in 0..MaxFaults
  BY FaultType DEF IInv, TypeOK, Replicas, Start, TickerFires, Stop, FindCandidates,
     FindCandidatesFails, CycleEnds, Cancel, Crash
<1>2. CASE Start(w) \/ Crash(w)
  <2>1. PICK t \in WorkerType : worker' = [worker EXCEPT ![w] = t]
                                /\ t.phase \notin Working /\ t.queue = <<>> /\ t.doc = Null
    BY <1>2, DownType DEF Start, Crash, Down, Working
  <2>2. worker'[w] = t
    BY <2>1 DEF IInv, TypeOK
  <2>3. QueueOf(w)' /\ PipelineOf(w)'
    BY <2>1, <2>2 DEF QueueOf, PipelineOf, Working
  <2> QED BY <1>1, <1>2, <2>1, <2>3, LocalStepKeeps DEF Start, Crash
<1>3. CASE TickerFires(w) \/ Stop(w) \/ FindCandidatesFails(w)
  BY <1>1, <1>3, GotoKeeps DEF TickerFires, Stop, FindCandidatesFails, Phases, Working
<1>4. CASE FindCandidates(w)
  <2>1. PICK q \in Listings :
          worker' = [worker EXCEPT ![w] = [@ EXCEPT !.phase = "cycle", !.queue = q]]
    BY <1>4 DEF FindCandidates
  <2> DEFINE t == [worker[w] EXCEPT !.phase = "cycle", !.queue = q]
  <2>2. /\ q \in Seq(Docs)
        /\ \A i \in 1..Len(q) : Due(q[i]) /\ (\A j \in 1..Len(q) : q[i] = q[j] => i = j)
    BY ListingsAreDue DEF IInv
  <2>3. t \in WorkerType /\ t.phase = "cycle" /\ t.queue = q /\ t.doc = worker[w].doc
    BY <1>1, <2>2 DEF WorkerType, Phases
  <2> HIDE DEF t
  <2>4. worker' = [worker EXCEPT ![w] = t] /\ worker'[w] = t
    BY <2>1 DEF t, IInv, TypeOK
  <2>5. t.doc = Null
    BY <1>1, <1>4, <2>3 DEF PipelineOf, FindCandidates, Working
  <2>6. \A i \in 1..Len(q) : q[i] \in Docs /\ doc[q[i]].status = "FINALIZAT" /\ Unsent(w, q[i])
    BY <2>2 DEF IInv, UnmarkedIsUnsent, Due
  <2>7. UNCHANGED <<clock, doc, requests, archive>>
    BY <1>4 DEF FindCandidates
  <2>8. QueueOf(w)' /\ PipelineOf(w)'
    BY <2>2, <2>3, <2>4, <2>5, <2>6, <2>7, NullAssumption
    DEF QueueOf, PipelineOf, Unsent, Working
  <2> QED BY <1>1, <2>3, <2>4, <2>7, <2>8, LocalStepKeeps
<1>5. CASE CycleEnds(w)
  <2> DEFINE t == [worker[w] EXCEPT !.phase = "idle", !.queue = <<>>]
  <2>1. <<>> \in Seq(Docs)
    OBVIOUS
  <2>2. t \in WorkerType /\ t.phase = "idle" /\ t.queue = <<>> /\ t.doc = worker[w].doc
    BY <1>1, <2>1 DEF WorkerType, Phases
  <2> HIDE DEF t
  <2>3. worker' = [worker EXCEPT ![w] = t] /\ worker'[w] = t
    BY <1>5 DEF t, IInv, TypeOK, CycleEnds
  <2>4. QueueOf(w)' /\ PipelineOf(w)'
    BY <1>1, <1>5, <2>2, <2>3 DEF QueueOf, PipelineOf, CycleEnds, Working
  <2> QED BY <1>1, <1>5, <2>2, <2>3, <2>4, LocalStepKeeps DEF CycleEnds
<1>6. CASE Cancel(w)
  <2> DEFINE t == [worker[w] EXCEPT !.cancelled = TRUE]
  <2>1. /\ t \in WorkerType /\ t.phase = worker[w].phase /\ t.queue = worker[w].queue
        /\ t.doc = worker[w].doc /\ t.events = worker[w].events /\ t.id = worker[w].id
    BY <1>1 DEF WorkerType
  <2> HIDE DEF t
  <2>2. worker' = [worker EXCEPT ![w] = t] /\ worker'[w] = t
    BY <1>6 DEF t, IInv, TypeOK, Cancel
  <2>3. UNCHANGED <<clock, doc, requests, archive>>
    BY <1>6 DEF Cancel
  <2>4. QueueOf(w)'
    <3>1. \A i \in 1..Len(t.queue) :
            /\ doc'[t.queue[i]].status = "FINALIZAT"
            /\ t.doc # t.queue[i]
            /\ Unsent(w, t.queue[i])
            /\ \A j \in 1..Len(t.queue) : t.queue[i] = t.queue[j] => i = j
      BY <1>1, <2>1, <2>3 DEF QueueOf
    <3> QED BY <2>2, <2>3, <3>1, QueueAfter
  <2>5. PipelineOf(w)'
    BY <1>1, <2>1, <2>2, <2>3 DEF PipelineOf, Unsent, Working
  <2> QED BY <1>1, <2>1, <2>2, <2>3, <2>4, <2>5, LocalStepKeeps
<1> QED BY <1>2, <1>3, <1>4, <1>5, <1>6

\* The mark PENDING: the head of the queue comes into the pipeline, unsent.
LEMMA MarkPendingKeeps ==
  ASSUME IInv, NEW w \in Workers, MarkPending(w) \/ MarkPendingFails(w)
  PROVE  IInv'
<1>0. PICK q, d : q = worker[w].queue /\ d = Head(q)
  OBVIOUS
<1>1. /\ worker[w] \in WorkerType /\ QueueOf(w) /\ PipelineOf(w)
      /\ q \in Seq(Docs) /\ q # <<>> /\ worker[w].phase = "cycle"
      /\ faults' \in 0..MaxFaults /\ UNCHANGED <<clock, requests, archive>>
  BY <1>0, FaultType DEF IInv, TypeOK, Replicas, WorkerType, MarkPending, MarkPendingFails
<1>2. /\ d \in Docs /\ d = q[1] /\ Tail(q) \in Seq(Docs) /\ Len(Tail(q)) = Len(q) - 1
      /\ Len(q) \in Nat \ {0}
      /\ \A i \in 1..Len(Tail(q)) : Tail(q)[i] = q[i + 1]
  BY <1>0, <1>1, HeadTailProperties
<1>3. /\ doc[d].status = "FINALIZAT" /\ Unsent(w, d)
      /\ \A i \in 1..Len(Tail(q)) :
           /\ Tail(q)[i] \in Docs /\ Tail(q)[i] # d
           /\ doc[Tail(q)[i]].status = "FINALIZAT"
           /\ worker[w].doc # Tail(q)[i]
           /\ Unsent(w, Tail(q)[i])
           /\ \A j \in 1..Len(Tail(q)) : Tail(q)[i] = Tail(q)[j] => i = j
  <2>1. 1 \in 1..Len(q) /\ \A i \in 1..Len(Tail(q)) : i + 1 \in 1..Len(q) /\ i + 1 # 1
    BY <1>2
  <2>2. doc[d].status = "FINALIZAT" /\ Unsent(w, d)
    BY <1>0, <1>1, <1>2, <2>1 DEF QueueOf
  <2>3. ASSUME NEW i \in 1..Len(Tail(q))
        PROVE  /\ Tail(q)[i] \in Docs /\ Tail(q)[i] # d
               /\ doc[Tail(q)[i]].status = "FINALIZAT"
               /\ worker[w].doc # Tail(q)[i]
               /\ Unsent(w, Tail(q)[i])
    BY <1>0, <1>1, <1>2, <2>1 DEF QueueOf
  <2>4. ASSUME NEW i \in 1..Len(Tail(q)), NEW j \in 1..Len(Tail(q)), Tail(q)[i] = Tail(q)[j]
        PROVE  i = j
    <3>1. i + 1 = j + 1
      BY <1>0, <1>1, <1>2, <2>1, <2>4, SMTT(20) DEF QueueOf
    <3> QED BY <3>1
  <2> QED BY <2>2, <2>3, <2>4
<1>4. CASE MarkPending(w)
  <2> DEFINE t == [worker[w] EXCEPT !.phase = "fetch", !.doc = d, !.queue = Tail(q)]
  <2>1. t \in WorkerType /\ t.phase = "fetch" /\ t.doc = d /\ t.queue = Tail(q)
    BY <1>0, <1>1, <1>2 DEF WorkerType, Phases, Working
  <2>2. worker' = [worker EXCEPT ![w] = t]
    BY <1>0, <1>4 DEF MarkPending
  <2>3. SetArchiveStatus(d, "PENDING")
    BY <1>0, <1>4 DEF MarkPending
  <2> HIDE DEF t
  <2>4. worker'[w] = t
    BY <2>2 DEF IInv, TypeOK
  <2>5. /\ \A e \in Docs : doc'[e].status = doc[e].status
        /\ doc'[d].archiveStatus = "PENDING"
    BY <1>2, <2>3, MarkedRow DEF ArchiveStatuses
  <2>6. QueueOf(w)'
    <3>1. \A i \in 1..Len(t.queue) :
            /\ doc'[t.queue[i]].status = "FINALIZAT"
            /\ t.doc # t.queue[i]
            /\ Unsent(w, t.queue[i])
            /\ \A j \in 1..Len(t.queue) : t.queue[i] = t.queue[j] => i = j
      BY <1>3, <2>1, <2>5
    <3> QED BY <1>1, <2>4, <3>1, QueueAfter
  <2>7. PipelineOf(w)'
    BY <1>1, <1>2, <1>3, <2>1, <2>4, <2>5 DEF PipelineOf, Unsent, Working
  <2> QED BY <1>1, <1>2, <2>1, <2>2, <2>3, <2>6, <2>7, StatusStepKeeps DEF ArchiveStatuses
<1>5. CASE MarkPendingFails(w)
  <2> DEFINE t == [worker[w] EXCEPT !.queue = Tail(q)]
  <2>1. t \in WorkerType /\ t.phase = "cycle" /\ t.doc = Null /\ t.queue = Tail(q)
    BY <1>0, <1>1, <1>2 DEF WorkerType, PipelineOf, Working
  <2>2. worker' = [worker EXCEPT ![w] = t]
    BY <1>0, <1>5 DEF MarkPendingFails
  <2>3. SetArchiveStatus(d, "PENDING") \/ UNCHANGED doc
    BY <1>0, <1>5 DEF MarkPendingFails
  <2> HIDE DEF t
  <2>4. worker'[w] = t
    BY <2>2 DEF IInv, TypeOK
  <2>5. \A e \in Docs : doc'[e].status = doc[e].status
    BY <1>2, <2>3, MarkedRow DEF ArchiveStatuses
  <2>6. QueueOf(w)'
    <3>1. \A i \in 1..Len(t.queue) :
            /\ doc'[t.queue[i]].status = "FINALIZAT"
            /\ t.doc # t.queue[i]
            /\ Unsent(w, t.queue[i])
            /\ \A j \in 1..Len(t.queue) : t.queue[i] = t.queue[j] => i = j
      BY <1>3, <2>1, <2>5, NullAssumption
    <3> QED BY <1>1, <2>4, <3>1, QueueAfter
  <2>7. PipelineOf(w)'
    BY <2>1, <2>4 DEF PipelineOf, Working
  <2>8. CASE SetArchiveStatus(d, "PENDING")
    BY <1>1, <1>2, <2>1, <2>2, <2>6, <2>7, <2>8, StatusStepKeeps DEF ArchiveStatuses
  <2>9. CASE UNCHANGED doc
    BY <1>1, <2>1, <2>2, <2>6, <2>7, <2>9, LocalStepKeeps
  <2> QED BY <2>3, <2>8, <2>9
<1> QED BY <1>4, <1>5

\* Steps of ArchiveDocument between the marks that send nothing.
LEMMA PipelineKeeps ==
  ASSUME IInv, NEW w \in Workers,
         \/ Fetch(w) \/ FetchFails(w) \/ ConvertFails(w)
         \/ IngestAnswered(w) \/ IngestFails(w)
  PROVE  IInv'
<1>1. /\ worker[w] \in WorkerType /\ QueueOf(w) /\ PipelineOf(w)
      /\ faults' \in 0..MaxFaults /\ UNCHANGED <<clock, doc, requests, archive>>
  BY FaultType DEF IInv, TypeOK, Replicas, Fetch, FetchFails, ConvertFails,
     IngestAnswered, IngestFails
<1>2. CASE FetchFails(w) \/ ConvertFails(w) \/ IngestFails(w)
  BY <1>1, <1>2, GotoKeeps
  DEF FetchFails, ConvertFails, IngestFails, Phases, Working
<1>3. ASSUME NEW t \in WorkerType, worker' = [worker EXCEPT ![w] = t],
             t.queue = worker[w].queue, t.doc = worker[w].doc,
             \/ t.phase = "convert" /\ worker[w].phase = "fetch"
                /\ t.events = doc[worker[w].doc].events
             \/ t.phase = "ingested" /\ worker[w].phase = "sent"
                /\ t.events = worker[w].events /\ t.id \in 1..Len(archive[worker[w].doc])
      PROVE  IInv'
  <2>1. worker'[w] = t
    BY <1>3 DEF IInv, TypeOK
  <2>2. QueueOf(w)'
    BY <1>1, <1>3, <2>1, SMTT(20) DEF QueueOf, Unsent
  <2>3. PipelineOf(w)'
    BY <1>1, <1>3, <2>1 DEF PipelineOf, Unsent, Working
  <2> QED BY <1>1, <1>3, <2>2, <2>3, LocalStepKeeps
<1>4. CASE Fetch(w)
  <2>1. PICK n : n = doc[worker[w].doc].events
    OBVIOUS
  <2> DEFINE t == [worker[w] EXCEPT !.phase = "convert", !.events = n]
  <2>2. n \in Nat /\ worker[w].phase = "fetch"
    BY <1>1, <1>4, <2>1 DEF Fetch, PipelineOf, Working, IInv, TypeOK, Rows
  <2>3. /\ t \in WorkerType /\ t.phase = "convert" /\ t.events = n
        /\ t.queue = worker[w].queue /\ t.doc = worker[w].doc
    BY <1>1, <2>2 DEF WorkerType, Phases, Working
  <2>4. worker' = [worker EXCEPT ![w] = t]
    BY <1>4, <2>1 DEF Fetch
  <2> QED BY <1>3, <2>1, <2>2, <2>3, <2>4
<1>5. CASE IngestAnswered(w)
  <2>1. PICK id \in 1..Len(archive[worker[w].doc]) :
          worker' = [worker EXCEPT ![w] = [@ EXCEPT !.phase = "ingested", !.id = id]]
    BY <1>5 DEF IngestAnswered
  <2> DEFINE t == [worker[w] EXCEPT !.phase = "ingested", !.id = id]
  <2>2. id \in Nat /\ worker[w].phase = "sent"
    <3>1. worker[w].phase = "sent" /\ worker[w].doc \in Docs
      BY <1>1, <1>5 DEF IngestAnswered, PipelineOf, Working
    <3>2. archive[worker[w].doc] \in Seq(Packages)
      BY <3>1 DEF IInv, TypeOK
    <3>3. Len(archive[worker[w].doc]) \in Nat
      BY <3>2
    <3> QED BY <3>1, <3>3
  <2>3. /\ t \in WorkerType /\ t.phase = "ingested" /\ t.events = worker[w].events
        /\ t.id = id /\ t.queue = worker[w].queue /\ t.doc = worker[w].doc
    BY <1>1, <2>2 DEF WorkerType, Phases, Working
  <2> QED BY <1>3, <2>1, <2>2, <2>3
<1> QED BY <1>2, <1>4, <1>5

\* The request leaves: it is the first of w for the document in hand, and holds
\* all the events of it.
LEMMA IngestKeeps ==
  ASSUME IInv, NEW w \in Workers, Ingest(w)
  PROVE  IInv'
<1>1. PICK d, n : d = worker[w].doc /\ n = worker[w].events
  OBVIOUS
<1> DEFINE r == [by |-> w, doc |-> d, events |-> n]
           t == [worker[w] EXCEPT !.phase = "sent"]
<1>2. /\ worker[w] \in WorkerType /\ QueueOf(w) /\ PipelineOf(w)
      /\ worker[w].phase = "convert"
  BY DEF IInv, TypeOK, Replicas, Ingest
<1>3. /\ d \in Docs /\ n \in Nat /\ n = doc[d].events /\ Unsent(w, d)
      /\ doc[d].status = "FINALIZAT" /\ doc[d].archiveStatus # "NOT_ARCHIVED"
  BY <1>1, <1>2 DEF PipelineOf, Working, WorkerType
<1>4. /\ requests' = requests \cup {r} /\ r \in Requests
      /\ r.by = w /\ r.doc = d /\ r.events = n
  BY <1>1, <1>3 DEF Ingest, Requests
<1>5. /\ t \in WorkerType /\ t.phase = "sent" /\ t.queue = worker[w].queue
      /\ t.doc = d /\ t.events = n
  BY <1>1, <1>2 DEF WorkerType, Phases, Working
<1> HIDE DEF r, t
<1>6. worker' = [worker EXCEPT ![w] = t] /\ UNCHANGED <<clock, doc, archive, faults>>
  BY DEF Ingest, Goto, t
<1>7. TypeOK'
  BY <1>4, <1>5, <1>6 DEF IInv, TypeOK
<1>8. ASSUME NEW v \in Workers, NEW e \in Docs, Unsent(v, e), v # w \/ e # d
      PROVE  Unsent(v, e)'
  BY <1>4, <1>6, <1>8 DEF Unsent
<1>9. ASSUME NEW v \in Workers PROVE QueueOf(v)' /\ PipelineOf(v)'
  <2>1. \A i \in 1..Len(worker[v].queue) : worker[v].queue[i] \in Docs
    BY DEF IInv, TypeOK, WorkerType
  <2>2. QueueOf(v) /\ PipelineOf(v)
    BY DEF IInv, Replicas
  <2>3. CASE v = w
    <3>1. worker'[v] = t
      BY <1>6, <2>3 DEF IInv, TypeOK
    <3>2. QueueOf(v)'
      BY <1>1, <1>5, <1>6, <1>8, <2>1, <2>2, <2>3, <3>1 DEF QueueOf
    <3>3. PipelineOf(v)'
      BY <1>3, <1>5, <1>6, <3>1 DEF PipelineOf, Working
    <3> QED BY <3>2, <3>3
  <2>4. CASE v # w
    <3>1. worker'[v] = worker[v]
      BY <1>6, <2>4 DEF IInv, TypeOK
    <3>2. QueueOf(v)'
      BY <1>6, <1>8, <2>1, <2>2, <2>4, <3>1 DEF QueueOf
    <3>3. PipelineOf(v)'
      BY <1>6, <1>8, <2>2, <2>4, <3>1 DEF PipelineOf, Working
    <3> QED BY <3>2, <3>3
  <2> QED BY <2>3, <2>4
<1>10. UnmarkedIsUnsent'
  BY <1>3, <1>6, <1>8 DEF IInv, UnmarkedIsUnsent
<1>11. PackagesAreFinal'
  BY <1>3, <1>4, <1>6 DEF IInv, PackagesAreFinal
<1>12. ArchivedMeansStored'
  BY <1>6 DEF IInv, ArchivedMeansStored
<1>13. SentOncePerReplica'
  BY <1>3, <1>4, <1>6 DEF IInv, SentOncePerReplica, Unsent
<1> QED BY <1>7, <1>9, <1>10, <1>11, <1>12, <1>13 DEF IInv, Replicas

\* ArchiveDocument returns, having recorded its outcome or failed to.
LEMMA ReturnStepKeeps ==
  ASSUME IInv, NEW w \in Workers,
         RecordArchived(w) \/ RecordArchivedFails(w) \/ MarkFailed(w) \/ MarkFailedFails(w)
  PROVE  IInv'
<1>1. PICK d, id : d = worker[w].doc /\ id = worker[w].id
  OBVIOUS
<1>2. /\ worker[w] \in WorkerType /\ PipelineOf(w) /\ ReturnToCycle(w)
      /\ worker[w].phase \in {"ingested", "failing"}
      /\ faults' \in 0..MaxFaults /\ UNCHANGED <<clock, requests, archive>>
  BY FaultType DEF IInv, TypeOK, Replicas, RecordArchived, RecordArchivedFails,
     MarkFailed, MarkFailedFails
<1>3. /\ d \in Docs /\ doc[d] \in Rows
      /\ worker[w].phase = "ingested" => id \in 1..Len(archive[d])
  BY <1>1, <1>2 DEF PipelineOf, Working, IInv, TypeOK
<1>4. CASE UNCHANGED doc
  BY <1>2, <1>4, ReturnKeeps
<1>5. CASE /\ worker[w].phase = "ingested"
           /\ doc' = [doc EXCEPT ![d] = [@ EXCEPT !.archiveStatus = "ARCHIVED", !.archiveId = id]]
  <2>1. \A e \in Docs : doc'[e].status = doc[e].status
    BY <1>3, <1>5 DEF IInv, TypeOK, Rows
  <2>2. PICK t \in WorkerType :
          worker' = [worker EXCEPT ![w] = t] /\ QueueOf(w)' /\ PipelineOf(w)'
    BY <1>2, <2>1, ReturnedState
  <2>3. id \in 1..Len(archive[d]) /\ id # Null
    BY <1>3, <1>5, NullAssumption
  <2>4. PICK s \in ArchiveStatuses \ {"NOT_ARCHIVED"} : s = "ARCHIVED"
    BY DEF ArchiveStatuses
  <2>5. doc' = [doc EXCEPT ![d] = [@ EXCEPT !.archiveStatus = s, !.archiveId = id]]
    BY <1>5, <2>4
  <2>6. /\ id = doc[d].archiveId \/ id \in 1..Len(archive[d])
        /\ s = "ARCHIVED" => id # Null
    BY <2>3
  <2>7. d \in Docs /\ UNCHANGED <<clock, requests, archive>> /\ faults' \in 0..MaxFaults
    BY <1>2, <1>3
  <2> QED BY <2>2, <2>4, <2>5, <2>6, <2>7, MarkStepKeeps
<1>6. CASE SetArchiveStatus(d, "FAILED")
  <2>1. \A e \in Docs : doc'[e].status = doc[e].status
    BY <1>3, <1>6, MarkedRow DEF ArchiveStatuses
  <2>2. PICK t \in WorkerType :
          worker' = [worker EXCEPT ![w] = t] /\ QueueOf(w)' /\ PipelineOf(w)'
    BY <1>2, <2>1, ReturnedState
  <2> QED BY <1>2, <1>3, <1>6, <2>2, StatusStepKeeps DEF ArchiveStatuses
<1>7. CASE RecordArchived(w) \/ RecordArchivedFails(w)
  BY <1>1, <1>4, <1>5, <1>7 DEF RecordArchived, RecordArchivedFails
<1>8. CASE MarkFailed(w) \/ MarkFailedFails(w)
  <2>1. SetArchiveStatus(worker[w].doc, "FAILED") \/ UNCHANGED doc
    BY <1>8 DEF MarkFailed, MarkFailedFails
  <2>2. SetArchiveStatus(d, "FAILED") \/ UNCHANGED doc
    BY <1>1, <2>1 DEF SetArchiveStatus
  <2> QED BY <1>4, <1>6, <2>2
<1> QED BY <1>7, <1>8

-----------------------------------------------------------------------------
(* Steps of the archive, the users and the clock.                          *)

\* The archive stores the package of a request.
LEMMA StoreKeeps ==
  ASSUME IInv, NEW r \in requests, Store(r)
  PROVE  IInv'
<1>1. PICK d, p : d = r.doc /\ p = [by |-> r.by, events |-> r.events]
  OBVIOUS
<1>2. /\ d \in Docs /\ p \in Packages /\ p.by = r.by /\ p.events = r.events
      /\ archive[d] \in Seq(Packages)
  BY <1>1 DEF IInv, TypeOK, Requests, Packages
<1>3. /\ Append(archive[d], p) \in Seq(Packages)
      /\ Len(archive[d]) \in Nat
      /\ Len(Append(archive[d], p)) = Len(archive[d]) + 1
      /\ \A i \in 1..Len(archive[d]) : Append(archive[d], p)[i] = archive[d][i]
      /\ Append(archive[d], p)[Len(archive[d]) + 1] = p
  BY <1>2, AppendProperties
<1>4. /\ archive' = [archive EXCEPT ![d] = Append(archive[d], p)]
      /\ requests' = requests \ {r}
      /\ UNCHANGED <<clock, doc, worker, faults>>
  BY <1>1 DEF Store
<1>5. /\ archive'[d] = Append(archive[d], p)
      /\ \A e \in Docs : e # d => archive'[e] = archive[e]
  BY <1>2, <1>4 DEF IInv, TypeOK
<1>6. ASSUME NEW i \in 1..Len(archive'[d])
      PROVE  \/ i \in 1..Len(archive[d]) /\ archive'[d][i] = archive[d][i]
             \/ i = Len(archive[d]) + 1 /\ archive'[d][i] = p
  BY <1>3, <1>5
<1>7. ASSUME NEW e \in Docs, NEW id \in 1..Len(archive[e])
      PROVE  id \in 1..Len(archive'[e])
  BY <1>3, <1>5
<1>8. TypeOK'
  BY <1>2, <1>3, <1>4 DEF IInv, TypeOK
<1>9. ASSUME NEW v \in Workers, NEW e \in Docs, Unsent(v, e) PROVE Unsent(v, e)'
  <2>1. CASE e = d
    <3>1. p.by # v
      BY <1>1, <1>2, <1>9, <2>1 DEF Unsent
    <3> QED BY <1>4, <1>6, <1>9, <2>1, <3>1 DEF Unsent
  <2>2. CASE e # d
    BY <1>4, <1>5, <1>9, <2>2 DEF Unsent
  <2> QED BY <2>1, <2>2
<1>10. ASSUME NEW v \in Workers PROVE QueueOf(v)' /\ PipelineOf(v)'
  <2>1. \A i \in 1..Len(worker[v].queue) : worker[v].queue[i] \in Docs
    BY DEF IInv, TypeOK, WorkerType
  <2>2. QueueOf(v) /\ PipelineOf(v)
    BY DEF IInv, Replicas
  <2>3. QueueOf(v)'
    BY <1>4, <1>9, <2>1, <2>2 DEF QueueOf
  <2>4. PipelineOf(v)'
    BY <1>4, <1>7, <1>9, <2>2 DEF PipelineOf, Working
  <2> QED BY <2>3, <2>4
<1>11. UnmarkedIsUnsent'
  BY <1>4, <1>9 DEF IInv, UnmarkedIsUnsent
<1>12. PackagesAreFinal'
  <2>1. ASSUME NEW e \in Docs, NEW i \in 1..Len(archive'[e])
        PROVE  doc[e].status = "FINALIZAT" /\ archive'[e][i].events = doc[e].events
    <3>1. CASE e = d
      BY <1>1, <1>2, <1>6, <2>1, <3>1 DEF IInv, PackagesAreFinal
    <3>2. CASE e # d
      BY <1>5, <2>1, <3>2 DEF IInv, PackagesAreFinal
    <3> QED BY <3>1, <3>2
  <2> QED BY <1>4, <2>1 DEF IInv, PackagesAreFinal
<1>13. ArchivedMeansStored'
  BY <1>4, <1>7 DEF IInv, ArchivedMeansStored
<1>14. SentOncePerReplica'
  <2>1. \A i \in 1..Len(archive[d]) : archive[d][i].by # p.by
    BY <1>1, <1>2 DEF IInv, SentOncePerReplica
  <2>2. ASSUME NEW e \in Docs, NEW i \in 1..Len(archive'[e]), NEW j \in 1..Len(archive'[e]),
               archive'[e][i].by = archive'[e][j].by
        PROVE  i = j
    <3>1. CASE e = d
      <4>1. i \in 1..Len(archive[d]) <=> j \in 1..Len(archive[d])
        BY <1>6, <2>1, <2>2, <3>1
      <4> QED BY <1>6, <2>2, <3>1, <4>1 DEF IInv, SentOncePerReplica
    <3>2. CASE e # d
      BY <1>5, <2>2, <3>2 DEF IInv, SentOncePerReplica
    <3> QED BY <3>1, <3>2
  <2>3. ASSUME NEW q \in requests', NEW i \in 1..Len(archive'[q.doc])
        PROVE  archive'[q.doc][i].by # q.by
    <3>1. q \in requests /\ q # r /\ q.doc \in Docs
      BY <1>4 DEF IInv, TypeOK, Requests
    <3>2. CASE q.doc = d
      <4>1. q.by # p.by
        BY <1>1, <1>2, <3>1, <3>2 DEF IInv, SentOncePerReplica
      <4>2. \A k \in 1..Len(archive[d]) : archive[d][k].by # q.by
        BY <3>1, <3>2 DEF IInv, SentOncePerReplica
      <4> QED BY <1>6, <2>3, <3>2, <4>1, <4>2
    <3>3. CASE q.doc # d
      BY <1>5, <2>3, <3>1, <3>3 DEF IInv, SentOncePerReplica
    <3> QED BY <3>2, <3>3
  <2> QED BY <1>4, <2>2, <2>3 DEF IInv, SentOncePerReplica
<1> QED BY <1>8, <1>10, <1>11, <1>12, <1>13, <1>14 DEF IInv, Replicas

\* A user's step is never on a final document, so on none a replica knows of.
LEMMA AdvanceKeeps ==
  ASSUME IInv, NEW d \in Docs, NEW action \in Actions, NEW new \in Statuses,
         Advance(d, action, new)
  PROVE  IInv'
<1> DEFINE n == doc[d].events + 1
           fin == IF action \in {"APPROVE", "FINALIZE"} THEN clock ELSE Null
           row == [doc[d] EXCEPT !.status = new, !.events = n, !.finalizedAt = fin]
<1>1. doc[d] \in Rows /\ doc[d].status # "FINALIZAT" /\ clock \in Nat
  BY FinalIsFinal DEF IInv, TypeOK, Advance
<1>2. n \in Nat /\ fin \in Nat \cup {Null}
  BY <1>1 DEF Rows
<1>3. /\ row \in Rows /\ row.archiveStatus = doc[d].archiveStatus
      /\ row.archiveId = doc[d].archiveId
  BY <1>1, <1>2 DEF Rows
<1>4. doc' = [doc EXCEPT ![d] = row] /\ UNCHANGED <<clock, requests, archive, worker, faults>>
  BY DEF Advance
<1> HIDE DEF row
<1>5. /\ \A e \in Docs : e # d => doc'[e] = doc[e]
      /\ \A e \in Docs : doc'[e].archiveStatus = doc[e].archiveStatus
                         /\ doc'[e].archiveId = doc[e].archiveId
  BY <1>3, <1>4 DEF IInv, TypeOK
<1>6. TypeOK'
  BY <1>3, <1>4 DEF IInv, TypeOK
<1>7. ASSUME NEW v \in Workers PROVE QueueOf(v)' /\ PipelineOf(v)'
  <2>1. \A i \in 1..Len(worker[v].queue) :
          worker[v].queue[i] \in Docs /\ worker[v].queue[i] # d
    BY <1>1 DEF IInv, TypeOK, WorkerType, Replicas, QueueOf
  <2>2. QueueOf(v) /\ PipelineOf(v)
    BY DEF IInv, Replicas
  <2>3. worker[v].phase \in Working => worker[v].doc # d
    BY <1>1, <2>2 DEF PipelineOf
  <2>4. \A e \in Docs : Unsent(v, e) => Unsent(v, e)'
    BY <1>4 DEF Unsent
  <2>5. QueueOf(v)'
    BY <1>4, <1>5, <2>1, <2>2, <2>4 DEF QueueOf
  <2>6. PipelineOf(v)'
    BY <1>4, <1>5, <2>2, <2>3, <2>4 DEF PipelineOf, Working
  <2> QED BY <2>5, <2>6
<1>8. UnmarkedIsUnsent'
  BY <1>4, <1>5 DEF IInv, UnmarkedIsUnsent, Unsent
<1>9. PackagesAreFinal'
  BY <1>1, <1>4, <1>5 DEF IInv, PackagesAreFinal
<1>10. ArchivedMeansStored'
  BY <1>4, <1>5 DEF IInv, ArchivedMeansStored
<1>11. SentOncePerReplica'
  BY <1>4 DEF IInv, SentOncePerReplica
<1> QED BY <1>6, <1>7, <1>8, <1>9, <1>10, <1>11 DEF IInv, Replicas

-----------------------------------------------------------------------------
(* The invariant and what follows from it.                                 *)

\* The initial state satisfies the invariant.
LEMMA InitKeeps == Init => IInv
<1> SUFFICES ASSUME Init PROVE IInv
  OBVIOUS
<1>1. <<>> \in Seq(Packages)
  OBVIOUS
<1>2. TypeOK
  BY <1>1, DownType, BoundsAssumption
  DEF Init, TypeOK, Rows, Statuses, ArchiveStatuses
<1>3. Replicas
  BY DownType DEF Init, Replicas, QueueOf, PipelineOf, Working
<1>4. UnmarkedIsUnsent /\ PackagesAreFinal /\ ArchivedMeansStored /\ SentOncePerReplica
  BY DEF Init, UnmarkedIsUnsent, Unsent, PackagesAreFinal, ArchivedMeansStored,
     SentOncePerReplica
<1> QED BY <1>2, <1>3, <1>4 DEF IInv

\* Every step keeps the invariant.
LEMMA NextKeeps == IInv /\ [Next]_vars => IInv'
<1> SUFFICES ASSUME IInv, [Next]_vars PROVE IInv'
  OBVIOUS
<1>1. ASSUME NEW w \in Workers, Run(w) PROVE IInv'
  BY <1>1, CycleKeeps, MarkPendingKeeps, PipelineKeeps, IngestKeeps, ReturnStepKeeps DEF Run
<1>2. ASSUME NEW w \in Workers,
             Start(w) \/ TickerFires(w) \/ Stop(w) \/ Cancel(w) \/ Crash(w)
      PROVE  IInv'
  BY <1>2, CycleKeeps
<1>3. ASSUME NEW r \in requests, Store(r) PROVE IInv'
  BY <1>3, StoreKeeps
<1>4. ASSUME NEW d \in Docs, NEW action \in Actions, NEW new \in Statuses,
             Advance(d, action, new)
      PROVE  IInv'
  BY <1>4, AdvanceKeeps
<1>5. CASE Tick \/ UNCHANGED vars
  <2>1. UNCHANGED <<doc, requests, archive, worker, faults>> /\ clock' \in Nat
    BY <1>5 DEF Tick, vars, IInv, TypeOK
  <2>2. TypeOK'
    BY <2>1 DEF IInv, TypeOK
  <2>3. Replicas' /\ UnmarkedIsUnsent'
    BY <2>1 DEF IInv, Replicas, QueueOf, PipelineOf, UnmarkedIsUnsent, Unsent
  <2>4. PackagesAreFinal' /\ ArchivedMeansStored' /\ SentOncePerReplica'
    BY <2>1 DEF IInv, PackagesAreFinal, ArchivedMeansStored, SentOncePerReplica
  <2> QED BY <2>2, <2>3, <2>4 DEF IInv
<1> QED BY <1>1, <1>2, <1>3, <1>4, <1>5 DEF Next

\* The inductive invariant holds always.
THEOREM Invariance == Spec => []IInv
BY InitKeeps, NextKeeps, PTL DEF Spec

\* Every variable has its type in every reachable state.
THEOREM TypeCorrect == Spec => []TypeOK
<1>1. IInv => TypeOK
  BY DEF IInv
<1> QED BY <1>1, Invariance, PTL

\* Every package is made of a final document and holds its whole history,
\* although the status is not read again after the listing (worker.go:84-87).
THEOREM PackagesCorrect == Spec => []PackagesAreFinal
<1>1. IInv => PackagesAreFinal
  BY DEF IInv
<1> QED BY <1>1, Invariance, PTL

\* A document said to be archived refers to a package the archive holds of it
\* (pipeline.go:87-92).
THEOREM ArchivedCorrect == Spec => []ArchivedMeansStored
<1>1. IInv => ArchivedMeansStored
  BY DEF IInv
<1> QED BY <1>1, Invariance, PTL

\* No replica sends a document twice, however often it is cancelled, killed and
\* started again (pipeline.go:30).
THEOREM SentOnceCorrect == Spec => []SentOncePerReplica
<1>1. IInv => SentOncePerReplica
  BY DEF IInv
<1> QED BY <1>1, Invariance, PTL

\* A document is never stored more often than there are replicas: with one
\* replica the archive holds at most one package of it.
PackagesAreFew == \A d \in Docs : Len(archive[d]) <= Cardinality(Workers)

\* However many cycles, crashes, late answers and restarts there are, duplicates
\* in the archive come only from other replicas (pipeline.go:30, 78-85).
THEOREM FewCorrect == Spec => []PackagesAreFew
<1>1. IInv => PackagesAreFew
  <2> SUFFICES ASSUME IInv, NEW d \in Docs PROVE Len(archive[d]) <= Cardinality(Workers)
    BY DEF PackagesAreFew
  <2>1. PICK n : n = Len(archive[d])
    OBVIOUS
  <2>2. PICK by : by = [i \in 1..n |-> archive[d][i].by]
    OBVIOUS
  <2>3. n \in Nat /\ by \in [1..n -> Workers]
    <3>1. archive[d] \in Seq(Packages)
      BY DEF IInv, TypeOK
    <3>2. n \in Nat /\ \A i \in 1..n : archive[d][i] \in Packages
      BY <2>1, <3>1, ElementOfSeq, LenProperties
    <3>3. \A i \in 1..n : archive[d][i].by \in Workers
      BY <3>2 DEF Packages
    <3> QED BY <2>2, <3>2, <3>3
  <2>4. \A i, j \in 1..n : by[i] = by[j] => i = j
    BY <2>1, <2>2 DEF IInv, SentOncePerReplica
  <2>5. by \in Injection(1..n, Workers)
    BY <2>3, <2>4, Fun_IsInj
  <2>6. Cardinality(1..n) = n
    BY <2>3, FS_Interval
  <2>7. Cardinality(1..n) <= Cardinality(Workers)
    BY <2>5, WorkersAssumption, FS_Injection
  <2> QED BY <2>1, <2>6, <2>7
<1> QED BY <1>1, Invariance, PTL

-----------------------------------------------------------------------------
(* Runs without faults.                                                    *)

\* A context is done only after a fault.
DoneAfterFault == \A w \in Workers : worker[w].cancelled => faults > 0

\* A step of w that leaves a pending document in its hands, or in another's.
LEMMA StillInPipeline ==
  ASSUME PendingIsInPipeline, faults = 0, NEW w \in Workers, NEW d \in Docs,
         \A v \in Workers : v # w => worker'[v] = worker[v],
         \/ worker'[w].doc = d
         \/ doc[d].archiveStatus = "PENDING" /\ worker[w].doc # d
         \/ doc[d].archiveStatus = "PENDING" /\ worker'[w].doc = worker[w].doc
  PROVE  \E v \in Workers : worker'[v].doc = d
<1>1. CASE worker'[w].doc = d
  BY <1>1
<1>2. CASE /\ doc[d].archiveStatus = "PENDING"
           /\ worker[w].doc # d \/ worker'[w].doc = worker[w].doc
  <2>1. PICK v \in Workers : worker[v].doc = d
    BY <1>2 DEF PendingIsInPipeline
  <2> QED BY <1>2, <2>1
<1> QED BY <1>1, <1>2

\* What a step of w keeps of w, if it is only the phase that changes, and if the
\* replica returns to its cycle.
LEMMA GotoLeaves ==
  ASSUME TypeOK, NEW w \in Workers, NEW p, Goto(w, p)
  PROVE  worker'[w].cancelled = worker[w].cancelled /\ worker'[w].doc = worker[w].doc
<1>1. worker'[w] = [worker[w] EXCEPT !.phase = p] /\ worker[w] \in WorkerType
  BY DEF TypeOK, Goto
<1> QED BY <1>1 DEF WorkerType

LEMMA ReturnLeaves ==
  ASSUME TypeOK, NEW w \in Workers, ReturnToCycle(w)
  PROVE  worker'[w].cancelled = worker[w].cancelled
<1>1. /\ worker'[w] = [worker[w] EXCEPT !.phase = "cycle", !.doc = Null, !.events = 0,
                                        !.id = Null]
      /\ worker[w] \in WorkerType
  BY DEF TypeOK, ReturnToCycle
<1> QED BY <1>1 DEF WorkerType

LEMMA MarkPendingTakes ==
  ASSUME TypeOK, NEW w \in Workers, MarkPending(w)
  PROVE  /\ worker'[w].cancelled = worker[w].cancelled
         /\ worker'[w].doc = Head(worker[w].queue)
<1>1. /\ worker'[w] = [worker[w] EXCEPT !.phase = "fetch", !.doc = Head(worker[w].queue),
                                        !.queue = Tail(worker[w].queue)]
      /\ worker[w] \in WorkerType
  BY DEF TypeOK, MarkPending
<1> QED BY <1>1 DEF WorkerType

LEMMA OthersKeep ==
  ASSUME TypeOK, NEW w \in Workers,
         \/ FindCandidates(w) \/ CycleEnds(w) \/ MarkPendingFails(w) \/ Fetch(w)
         \/ IngestAnswered(w)
  PROVE  worker'[w].cancelled = worker[w].cancelled /\ worker'[w].doc = worker[w].doc
<1>1. worker[w] \in WorkerType
  BY DEF TypeOK
<1>2. CASE FindCandidates(w)
  <2>1. PICK q : worker' = [worker EXCEPT ![w] = [@ EXCEPT !.phase = "cycle", !.queue = q]]
    BY <1>2 DEF FindCandidates
  <2>2. worker'[w] = [worker[w] EXCEPT !.phase = "cycle", !.queue = q]
    BY <2>1 DEF TypeOK
  <2> QED BY <1>1, <2>2 DEF WorkerType
<1>3. CASE CycleEnds(w)
  <2>1. worker'[w] = [worker[w] EXCEPT !.phase = "idle", !.queue = <<>>]
    BY <1>3 DEF CycleEnds, TypeOK
  <2> QED BY <1>1, <2>1 DEF WorkerType
<1>4. CASE MarkPendingFails(w)
  <2>1. worker'[w] = [worker[w] EXCEPT !.queue = Tail(worker[w].queue)]
    BY <1>4 DEF MarkPendingFails, TypeOK
  <2> QED BY <1>1, <2>1 DEF WorkerType
<1>5. CASE Fetch(w)
  <2>1. worker'[w] = [worker[w] EXCEPT !.phase = "convert",
                                       !.events = doc[worker[w].doc].events]
    BY <1>5 DEF Fetch, TypeOK
  <2> QED BY <1>1, <2>1 DEF WorkerType
<1>6. CASE IngestAnswered(w)
  <2>1. PICK id : worker' = [worker EXCEPT ![w] = [@ EXCEPT !.phase = "ingested", !.id = id]]
    BY <1>6 DEF IngestAnswered
  <2>2. worker'[w] = [worker[w] EXCEPT !.phase = "ingested", !.id = id]
    BY <2>1 DEF TypeOK
  <2> QED BY <1>1, <2>2 DEF WorkerType
<1> QED BY <1>2, <1>3, <1>4, <1>5, <1>6

\* The steps of a replica, and those of everybody else.
StepOf(w) ==
  Start(w) \/ TickerFires(w) \/ Stop(w) \/ Run(w) \/ Cancel(w) \/ Crash(w)

Others ==
  \/ \E r \in requests : Store(r)
  \/ \E d \in Docs, action \in Actions, new \in Statuses : Advance(d, action, new)
  \/ Tick \/ UNCHANGED vars

LEMMA StepsAre ==
  ASSUME [Next]_vars
  PROVE  (\E w \in Workers : StepOf(w)) \/ Others
BY DEF Next, StepOf, Others

\* Every step keeps both.
LEMMA PendingKeeps ==
  ASSUME IInv, DoneAfterFault, PendingIsInPipeline, [Next]_vars
  PROVE  DoneAfterFault' /\ PendingIsInPipeline'
<1> USE DEF IInv
<1>1. /\ \A w \in Workers : worker[w] \in WorkerType
      /\ \A w \in Workers : worker[w].phase \notin Working => worker[w].doc = Null
      /\ \A d \in Docs : doc[d] \in Rows
      /\ faults \in Nat
  BY BoundsAssumption DEF TypeOK, Replicas, PipelineOf
<1>2. faults' \in Nat /\ faults <= faults'
  <2>1. faults' \in {faults, faults + 1}
    <3>1. ASSUME NEW w \in Workers, StepOf(w) PROVE faults' \in {faults, faults + 1}
      BY <3>1 DEF StepOf, Start, TickerFires, Stop, Run, FindCandidates, FindCandidatesFails,
         CycleEnds, MarkPending, MarkPendingFails, Fetch, FetchFails, ConvertFails,
         Ingest, IngestAnswered, IngestFails, RecordArchived, RecordArchivedFails,
         MarkFailed, MarkFailedFails, Cancel, Crash, StatementFails, Fault
    <3>2. CASE Others
      BY <3>2 DEF Others, Store, Advance, Tick, vars
    <3> QED BY <3>1, <3>2, StepsAre
  <2> QED BY <1>1, <2>1
<1>3. DoneAfterFault'
  <2> SUFFICES ASSUME NEW w \in Workers, worker'[w].cancelled PROVE faults' > 0
    BY DEF DoneAfterFault
  <2>1. CASE worker[w].cancelled
    BY <1>1, <1>2, <2>1 DEF DoneAfterFault
  <2>2. CASE ~worker[w].cancelled
    <3>1. PICK v \in Workers : StepOf(v)
      <4>1. CASE Others
        <5>1. worker' = worker
          BY <4>1 DEF Others, Store, Advance, Tick, vars
        <5> QED BY <2>2, <5>1
      <4> QED BY <4>1, StepsAre
    <3>2. CASE Cancel(v)
      BY <1>1, <3>2 DEF Cancel, Fault
    <3>3. CASE ~Cancel(v)
      <4>1. v = w
        <5> SUFFICES ASSUME v # w PROVE worker'[w] = worker[w]
          BY <2>2
        <5> QED BY <3>1, <3>3 DEF StepOf, Start, TickerFires, Stop, Run, FindCandidates,
               FindCandidatesFails, CycleEnds, MarkPending, MarkPendingFails, Fetch,
               FetchFails, ConvertFails, Ingest, IngestAnswered, IngestFails,
               RecordArchived, RecordArchivedFails, MarkFailed, MarkFailedFails, Crash, Goto,
               ReturnToCycle, TypeOK
      <4>2. CASE Start(w) \/ Crash(w)
        BY <4>2 DEF Start, Crash, Down, TypeOK
      <4>3. CASE \/ TickerFires(w) \/ Stop(w) \/ FindCandidatesFails(w) \/ FetchFails(w)
                 \/ ConvertFails(w) \/ Ingest(w) \/ IngestFails(w)
        <5>1. PICK p : Goto(w, p)
          BY <4>3 DEF TickerFires, Stop, FindCandidatesFails, FetchFails,
             ConvertFails, Ingest, IngestFails
        <5> QED BY <2>2, <5>1, GotoLeaves
      <4>4. CASE \/ FindCandidates(w) \/ CycleEnds(w) \/ MarkPendingFails(w) \/ Fetch(w)
                 \/ IngestAnswered(w)
        BY <2>2, <4>1, <4>4, OthersKeep
      <4>5. CASE MarkPending(w)
        BY <2>2, <4>1, <4>5, MarkPendingTakes
      <4>6. CASE \/ RecordArchived(w) \/ RecordArchivedFails(w) \/ MarkFailed(w)
                 \/ MarkFailedFails(w)
        <5>1. ReturnToCycle(w)
          BY <4>6 DEF RecordArchived, RecordArchivedFails, MarkFailed, MarkFailedFails
        <5> QED BY <2>2, <5>1, ReturnLeaves
      <4> QED BY <3>1, <3>3, <4>1, <4>2, <4>3, <4>4, <4>5, <4>6 DEF StepOf, Run
    <3> QED BY <3>2, <3>3
  <2> QED BY <2>1, <2>2
<1>4. PendingIsInPipeline'
  <2> SUFFICES ASSUME faults' = 0, NEW d \in Docs, doc'[d].archiveStatus = "PENDING"
               PROVE  \E v \in Workers : worker'[v].doc = d
    BY DEF PendingIsInPipeline
  <2>1. /\ faults = 0 /\ ~Fault
        /\ \A w \in Workers : ~worker[w].cancelled /\ ~StatementFails(w)
    BY <1>1, <1>2 DEF DoneAfterFault, StatementFails, Fault
  <2>2. d # Null
    BY NullAssumption
  <2>3. CASE Others
    <3>1. worker' = worker
      BY <2>3 DEF Others, Store, Advance, Tick, vars
    <3>2. CASE \E e \in Docs, action \in Actions, new \in Statuses : Advance(e, action, new)
      <4>1. PICK e \in Docs, action \in Actions, new \in Statuses : Advance(e, action, new)
        BY <3>2
      <4>2. doc'[d].archiveStatus = doc[d].archiveStatus
        <5>1. CASE d # e
          BY <4>1, <5>1 DEF Advance, TypeOK
        <5>2. CASE d = e
          BY <1>1, <4>1, <5>2 DEF Advance, TypeOK, Rows
        <5> QED BY <5>1, <5>2
      <4> QED BY <2>1, <3>1, <4>2 DEF PendingIsInPipeline
    <3>3. CASE doc' = doc
      BY <2>1, <3>1, <3>3 DEF PendingIsInPipeline
    <3> QED BY <2>3, <3>2, <3>3 DEF Others, Store, Tick, vars
  <2>4. ASSUME NEW w \in Workers, StepOf(w)
        PROVE  \E v \in Workers : worker'[v].doc = d
    <3> SUFFICES ASSUME \A v \in Workers : v # w => worker'[v] = worker[v],
                        faults' = faults
                 PROVE  \E v \in Workers : worker'[v].doc = d
      <4>1. \A v \in Workers : v # w => worker'[v] = worker[v]
        BY <2>4 DEF StepOf, Start, TickerFires, Stop, Run, FindCandidates,
           FindCandidatesFails, CycleEnds, MarkPending, MarkPendingFails, Fetch,
           FetchFails, ConvertFails, Ingest, IngestAnswered, IngestFails,
           RecordArchived, RecordArchivedFails, MarkFailed, MarkFailedFails, Cancel, Crash,
           Goto, ReturnToCycle, TypeOK
      <4> QED BY <2>1, <4>1
    <3>1. CASE Start(w) \/ FindCandidates(w) \/ CycleEnds(w) \/ TickerFires(w) \/ Stop(w)
      <4>1. worker[w].phase \notin Working /\ doc' = doc
        BY <3>1 DEF Start, FindCandidates, CycleEnds, TickerFires, Stop, Working
      <4>2. worker[w].doc # d
        BY <1>1, <2>2, <4>1
      <4> QED BY <2>1, <4>1, <4>2, StillInPipeline
    <3>2. CASE MarkPending(w)
      <4> DEFINE e == Head(worker[w].queue)
      <4>1. worker[w].doc # d
        BY <1>1, <2>2, <3>2 DEF MarkPending, Working
      <4>2. worker'[w].doc = e
        BY <3>2, MarkPendingTakes
      <4>3. e = d \/ doc[d].archiveStatus = "PENDING"
        BY <3>2 DEF MarkPending, SetArchiveStatus, TypeOK
      <4> HIDE DEF e
      <4> QED BY <2>1, <4>1, <4>2, <4>3, StillInPipeline
    <3>3. CASE ConvertFails(w) \/ Ingest(w) \/ IngestFails(w)
      <4>1. PICK p : Goto(w, p)
        BY <3>3 DEF ConvertFails, Ingest, IngestFails
      <4>2. worker'[w].doc = worker[w].doc /\ doc[d].archiveStatus = "PENDING"
        BY <3>3, <4>1, GotoLeaves DEF ConvertFails, Ingest, IngestFails
      <4> QED BY <2>1, <4>2, StillInPipeline
    <3>4. CASE Fetch(w) \/ IngestAnswered(w)
      <4>1. worker'[w].doc = worker[w].doc /\ doc[d].archiveStatus = "PENDING"
        BY <3>4, OthersKeep DEF Fetch, IngestAnswered
      <4> QED BY <2>1, <4>1, StillInPipeline
    <3>5. CASE RecordArchived(w) \/ MarkFailed(w)
      <4>1. CASE worker[w].doc # d
        <5>1. doc'[d] = doc[d]
          BY <3>5, <4>1 DEF RecordArchived, MarkFailed, SetArchiveStatus, TypeOK
        <5> QED BY <2>1, <4>1, <5>1, StillInPipeline
      <4>2. CASE worker[w].doc = d
        <5>1. doc'[d].archiveStatus \in {"ARCHIVED", "FAILED"}
          BY <1>1, <3>5, <4>2 DEF RecordArchived, MarkFailed, SetArchiveStatus, TypeOK, Rows
        <5> QED BY <5>1
      <4> QED BY <4>1, <4>2
    <3>6. CASE \/ FindCandidatesFails(w) \/ MarkPendingFails(w) \/ FetchFails(w)
               \/ RecordArchivedFails(w) \/ MarkFailedFails(w) \/ Cancel(w) \/ Crash(w)
      BY <2>1, <3>6 DEF FindCandidatesFails, MarkPendingFails, FetchFails,
         RecordArchivedFails, MarkFailedFails, Cancel, Crash
    <3> QED BY <2>4, <3>1, <3>2, <3>3, <3>4, <3>5, <3>6 DEF StepOf, Run
  <2> QED BY <2>3, <2>4, StepsAre
<1> QED BY <1>3, <1>4

\* Without faults a pending document is in some pipeline: no error return of
\* ArchiveDocument forgets the mark (pipeline.go:28-95).
THEOREM PendingCorrect == Spec => []PendingIsInPipeline
<1>1. Init => DoneAfterFault /\ PendingIsInPipeline
  BY DEF Init, DoneAfterFault, PendingIsInPipeline, Down
<1>2. IInv /\ DoneAfterFault /\ PendingIsInPipeline /\ [Next]_vars
        => DoneAfterFault' /\ PendingIsInPipeline'
  BY PendingKeeps
<1> QED BY <1>1, <1>2, Invariance, PTL DEF Spec

-----------------------------------------------------------------------------
(* What is archived and let go of stays archived.                          *)

\* A step that moves no document leaves the replica what it had.
LEMMA HasTheSame ==
  ASSUME TypeOK, NEW w \in Workers, NEW d \in Docs,
         \/ \E p \in Phases : Goto(w, p)
         \/ Cancel(w) \/ Fetch(w) \/ IngestAnswered(w)
  PROVE  Has(w, d)' <=> Has(w, d)
<1>1. worker[w] \in WorkerType
  BY DEF TypeOK
<1>2. CASE \E p \in Phases : Goto(w, p)
  <2>1. PICK p \in Phases : worker'[w] = [worker[w] EXCEPT !.phase = p]
    BY <1>2 DEF Goto, TypeOK
  <2>2. worker'[w].doc = worker[w].doc /\ worker'[w].queue = worker[w].queue
    BY <1>1, <2>1 DEF WorkerType
  <2> QED BY <2>2 DEF Has
<1>3. CASE Cancel(w)
  <2>1. worker'[w] = [worker[w] EXCEPT !.cancelled = TRUE]
    BY <1>3 DEF Cancel, TypeOK
  <2>2. worker'[w].doc = worker[w].doc /\ worker'[w].queue = worker[w].queue
    BY <1>1, <2>1 DEF WorkerType
  <2> QED BY <2>2 DEF Has
<1>4. CASE Fetch(w)
  <2>1. worker'[w] = [worker[w] EXCEPT !.phase = "convert",
                                       !.events = doc[worker[w].doc].events]
    BY <1>4 DEF Fetch, TypeOK
  <2>2. worker'[w].doc = worker[w].doc /\ worker'[w].queue = worker[w].queue
    BY <1>1, <2>1 DEF WorkerType
  <2> QED BY <2>2 DEF Has
<1>5. CASE IngestAnswered(w)
  <2>1. PICK id : worker' = [worker EXCEPT ![w] = [@ EXCEPT !.phase = "ingested", !.id = id]]
    BY <1>5 DEF IngestAnswered
  <2>2. worker'[w] = [worker[w] EXCEPT !.phase = "ingested", !.id = id]
    BY <2>1 DEF TypeOK
  <2>3. worker'[w].doc = worker[w].doc /\ worker'[w].queue = worker[w].queue
    BY <1>1, <2>2 DEF WorkerType
  <2> QED BY <2>3 DEF Has
<1> QED BY <1>2, <1>3, <1>4, <1>5

\* A replica that returns to its cycle has only its queue.
LEMMA HasTheQueue ==
  ASSUME IInv, NEW w \in Workers, NEW d \in Docs, ReturnToCycle(w), Has(w, d)'
  PROVE  Has(w, d)
<1>1. worker[w] \in WorkerType
  BY DEF IInv, TypeOK
<1>2. worker'[w] = [worker[w] EXCEPT !.phase = "cycle", !.doc = Null, !.events = 0, !.id = Null]
  BY DEF ReturnToCycle, IInv, TypeOK
<1>3. worker'[w].doc = Null /\ worker'[w].queue = worker[w].queue
  BY <1>1, <1>2 DEF WorkerType
<1> QED BY <1>3, NullAssumption DEF Has

\* A replica that marks a document had it, and has nothing it did not have.
LEMMA HasTheTail ==
  ASSUME IInv, NEW w \in Workers, MarkPending(w) \/ MarkPendingFails(w)
  PROVE  /\ Head(worker[w].queue) \in Docs /\ Has(w, Head(worker[w].queue))
         /\ \A d \in Docs : Has(w, d)' => Has(w, d)
<1> DEFINE q == worker[w].queue
<1>1. worker[w] \in WorkerType /\ q \in Seq(Docs) /\ q # <<>>
  BY DEF IInv, TypeOK, WorkerType, MarkPending, MarkPendingFails
<1>2. worker'[w].queue = Tail(q) /\ worker'[w].doc \in {worker[w].doc, Head(q)}
  <2>1. CASE MarkPending(w)
    <3>1. worker'[w] = [worker[w] EXCEPT !.phase = "fetch", !.doc = Head(q), !.queue = Tail(q)]
      BY <2>1 DEF MarkPending, IInv, TypeOK
    <3> HIDE DEF q
    <3> QED BY <1>1, <3>1 DEF WorkerType
  <2>2. CASE MarkPendingFails(w)
    <3>1. worker'[w] = [worker[w] EXCEPT !.queue = Tail(q)]
      BY <2>2 DEF MarkPendingFails, IInv, TypeOK
    <3> HIDE DEF q
    <3> QED BY <1>1, <3>1 DEF WorkerType
  <2> QED BY <2>1, <2>2
<1>3. /\ Head(q) = q[1] /\ 1 \in 1..Len(q) /\ Len(Tail(q)) = Len(q) - 1
      /\ \A i \in 1..Len(Tail(q)) : Tail(q)[i] = q[i + 1] /\ i + 1 \in 1..Len(q)
  <2> HIDE DEF q
  <2>1. Len(q) \in Nat \ {0}
    BY <1>1, EmptySeq, LenProperties
  <2>2. /\ Head(q) = q[1] /\ Len(Tail(q)) = Len(q) - 1
        /\ \A i \in 1..Len(Tail(q)) : Tail(q)[i] = q[i + 1]
    BY <1>1, HeadTailProperties
  <2> QED BY <2>1, <2>2
<1>4. Head(q) \in Docs /\ Has(w, Head(q))
  BY <1>1, <1>3 DEF Has
<1>5. ASSUME NEW d \in Docs, Has(w, d)' PROVE Has(w, d)
  BY <1>2, <1>3, <1>5 DEF Has
<1> QED BY <1>4, <1>5

\* What the query lists is not archived, and the replica that asks has nothing
\* else in hand.
LEMMA HasTheListed ==
  ASSUME IInv, NEW w \in Workers, NEW d \in Docs, FindCandidates(w), Has(w, d)'
  PROVE  doc[d].archiveStatus # "ARCHIVED"
<1>1. worker[w] \in WorkerType /\ worker[w].doc = Null
  BY DEF IInv, TypeOK, Replicas, PipelineOf, FindCandidates, Working
<1>2. PICK q \in Listings :
        worker' = [worker EXCEPT ![w] = [@ EXCEPT !.phase = "cycle", !.queue = q]]
  BY DEF FindCandidates
<1>3. worker'[w] = [worker[w] EXCEPT !.phase = "cycle", !.queue = q]
  BY <1>2 DEF IInv, TypeOK
<1>4. worker'[w].doc = Null /\ worker'[w].queue = q
  BY <1>1, <1>3 DEF WorkerType
<1>5. PICK i \in 1..Len(q) : q[i] = d
  BY <1>4, NullAssumption DEF Has
<1>6. Due(q[i])
  BY ListingsAreDue DEF IInv
<1> QED BY <1>5, <1>6 DEF Due

\* A replica writes only into the rows of documents it has.
LEMMA RowsAfter ==
  ASSUME IInv, NEW w \in Workers, StepOf(w), NEW d \in Docs, doc'[d] # doc[d]
  PROVE  Has(w, d)
<1>1. CASE MarkPending(w) \/ MarkPendingFails(w)
  <2>1. SetArchiveStatus(Head(worker[w].queue), "PENDING")
    BY <1>1 DEF MarkPending, MarkPendingFails
  <2>2. d = Head(worker[w].queue)
    BY <2>1 DEF SetArchiveStatus, IInv, TypeOK
  <2> QED BY <1>1, <2>2, HasTheTail
<1>2. CASE RecordArchived(w) \/ RecordArchivedFails(w) \/ MarkFailed(w) \/ MarkFailedFails(w)
  <2>1. worker[w].doc = d
    BY <1>2 DEF RecordArchived, RecordArchivedFails, MarkFailed, MarkFailedFails,
       SetArchiveStatus, IInv, TypeOK
  <2> QED BY <2>1 DEF Has
<1>3. CASE doc' = doc
  BY <1>3
<1> QED BY <1>1, <1>2, <1>3 DEF StepOf, Start, TickerFires, Stop, Run, FindCandidates,
       FindCandidatesFails, CycleEnds, Fetch, FetchFails, ConvertFails, Ingest,
       IngestAnswered, IngestFails, Cancel, Crash

\* What a replica has after a step it had before, or it has listed it now.
LEMMA HasAfter ==
  ASSUME IInv, NEW w \in Workers, StepOf(w), NEW d \in Docs, Has(w, d)'
  PROVE  Has(w, d) \/ FindCandidates(w)
<1>1. ReturnToCycle(w) => Has(w, d)
  BY HasTheQueue
<1>2. CASE Start(w) \/ Crash(w)
  <2>1. worker'[w].doc = Null /\ worker'[w].queue = <<>>
    <3>1. worker'[w] \in {Down, [Down EXCEPT !.phase = "scan"]}
      BY <1>2 DEF Start, Crash, IInv, TypeOK
    <3> QED BY <3>1 DEF Down
  <2> QED BY <2>1, NullAssumption DEF Has
<1>3. CASE CycleEnds(w)
  <2>1. worker[w] \in WorkerType
    BY DEF IInv, TypeOK
  <2>2. worker'[w] = [worker[w] EXCEPT !.phase = "idle", !.queue = <<>>]
    BY <1>3 DEF CycleEnds, IInv, TypeOK
  <2>3. worker'[w].doc = worker[w].doc /\ worker'[w].queue = <<>>
    BY <2>1, <2>2 DEF WorkerType
  <2> QED BY <1>1, <2>3 DEF Has
<1>4. CASE MarkPending(w) \/ MarkPendingFails(w)
  BY <1>1, <1>4, HasTheTail
<1>5. CASE RecordArchived(w) \/ RecordArchivedFails(w) \/ MarkFailed(w) \/ MarkFailedFails(w)
  BY <1>1, <1>5 DEF RecordArchived, RecordArchivedFails, MarkFailed, MarkFailedFails
<1>6. CASE \/ TickerFires(w) \/ Stop(w) \/ FindCandidatesFails(w) \/ FetchFails(w)
           \/ ConvertFails(w) \/ Ingest(w) \/ IngestFails(w)
  <2>1. \E p \in Phases : Goto(w, p)
    BY <1>6 DEF TickerFires, Stop, FindCandidatesFails, FetchFails, ConvertFails,
       Ingest, IngestFails, Phases, Working
  <2> QED BY <1>1, <2>1, HasTheSame DEF IInv
<1>7. CASE Cancel(w) \/ Fetch(w) \/ IngestAnswered(w)
  BY <1>1, <1>7, HasTheSame DEF IInv
<1>8. CASE FindCandidates(w)
  BY <1>1, <1>8
<1> QED BY <1>2, <1>3, <1>4, <1>5, <1>6, <1>7, <1>8 DEF StepOf, Run

\* Everybody else leaves the archive columns and the replicas alone.
LEMMA OthersLeaveArchive ==
  ASSUME IInv, Others
  PROVE  /\ worker' = worker
         /\ \A d \in Docs : /\ doc'[d].archiveStatus = doc[d].archiveStatus
                            /\ doc'[d].archiveId = doc[d].archiveId
<1>1. worker' = worker
  BY DEF Others, Store, Advance, Tick, vars
<1>2. ASSUME NEW e \in Docs, NEW action, NEW new, Advance(e, action, new), NEW d \in Docs
      PROVE  /\ doc'[d].archiveStatus = doc[d].archiveStatus
             /\ doc'[d].archiveId = doc[d].archiveId
  <2>1. doc[d] \in Rows
    BY DEF IInv, TypeOK
  <2>2. CASE d # e
    BY <1>2, <2>2 DEF Advance, IInv, TypeOK
  <2>3. CASE d = e
    BY <1>2, <2>1, <2>3 DEF Advance, IInv, TypeOK, Rows
  <2> QED BY <2>2, <2>3
<1>3. CASE doc' = doc
  BY <1>1, <1>3
<1> QED BY <1>1, <1>2, <1>3 DEF Others, Store, Tick, vars

\* A step of one replica is not a step of another.
LEMMA OthersStand ==
  ASSUME NEW w \in Workers, StepOf(w), NEW v \in Workers, v # w, TypeOK
  PROVE  worker'[v] = worker[v]
BY DEF TypeOK, StepOf, Start, TickerFires, Stop, Run, FindCandidates,
       FindCandidatesFails, CycleEnds, MarkPending, MarkPendingFails, Fetch, FetchFails,
       ConvertFails, Ingest, IngestAnswered, IngestFails, RecordArchived,
       RecordArchivedFails, MarkFailed, MarkFailedFails, Cancel, Crash, Goto, ReturnToCycle

\* Nobody touches an archived document nobody has, and nobody lists it.
LEMMA SettledStays ==
  ASSUME IInv, [Next]_vars, NEW d \in Docs, Settled(d)
  PROVE  Settled(d)' /\ doc'[d].archiveId = doc[d].archiveId
<1>1. CASE Others
  <2>1. \A w \in Workers : Has(w, d)' <=> Has(w, d)
    BY <1>1, OthersLeaveArchive DEF Has
  <2> QED BY <1>1, <2>1, OthersLeaveArchive DEF Settled
<1>2. ASSUME NEW w \in Workers, StepOf(w)
      PROVE  Settled(d)' /\ doc'[d].archiveId = doc[d].archiveId
  <2>1. doc'[d] = doc[d]
    BY <1>2, RowsAfter DEF Settled
  <2>2. ASSUME NEW v \in Workers, Has(v, d)' PROVE FALSE
    <3>1. CASE v = w
      <4>1. FindCandidates(w)
        BY <1>2, <2>2, <3>1, HasAfter DEF Settled
      <4> QED BY <2>2, <3>1, <4>1, HasTheListed DEF Settled
    <3>2. CASE v # w
      <4>1. worker'[v] = worker[v]
        BY <1>2, <3>2, OthersStand DEF IInv
      <4>2. Has(v, d)
        BY <2>2, <4>1 DEF Has
      <4> QED BY <4>2 DEF Settled
    <3> QED BY <3>1, <3>2
  <2> QED BY <2>1, <2>2 DEF Settled
<1> QED BY <1>1, <1>2, StepsAre

\* Of any number of replicas none takes up again an archived document that all
\* have let go of, whatever fails or is restarted (pipeline.go:28-95,
\* worker.go:78-91).
THEOREM ArchivedFinalCorrect == Spec => ArchivedIsFinal
<1>1. IInv /\ [Next]_vars
        => [\A d \in Docs :
              Settled(d) => Settled(d)' /\ doc'[d].archiveId = doc[d].archiveId]_vars
  BY SettledStays
<1> QED BY <1>1, Invariance, PTL DEF Spec, ArchivedIsFinal

-----------------------------------------------------------------------------
(* The life of a document.                                                 *)

\* A mark or a reference is written into the row of d, and nothing else.
LEMMA ColumnsAfter ==
  ASSUME TypeOK, NEW d \in Docs, NEW s \in ArchiveStatuses, NEW id \in Nat \cup {Null},
         doc' = [doc EXCEPT ![d] = [@ EXCEPT !.archiveStatus = s, !.archiveId = id]]
  PROVE  /\ [e \in Docs |-> doc'[e].status] = [e \in Docs |-> doc[e].status]
         /\ [e \in Docs |-> doc'[e].events] = [e \in Docs |-> doc[e].events]
         /\ [e \in Docs |-> doc'[e].archiveStatus]
              = [[e \in Docs |-> doc[e].archiveStatus] EXCEPT ![d] = s]
         /\ [e \in Docs |-> doc'[e].archiveId]
              = [[e \in Docs |-> doc[e].archiveId] EXCEPT ![d] = id]
<1>1. PICK row : row = [doc[d] EXCEPT !.archiveStatus = s, !.archiveId = id]
  OBVIOUS
<1>2. row.status = doc[d].status /\ row.events = doc[d].events
      /\ row.archiveStatus = s /\ row.archiveId = id
  BY <1>1 DEF TypeOK, Rows
<1>3. /\ doc'[d] = row
      /\ \A e \in Docs : e # d => doc'[e] = doc[e]
  BY <1>1 DEF TypeOK
<1>4. \A e \in Docs : doc'[e].status = doc[e].status /\ doc'[e].events = doc[e].events
  BY <1>2, <1>3
<1>5. \A e \in Docs : /\ doc'[e].archiveStatus = IF e = d THEN s ELSE doc[e].archiveStatus
                      /\ doc'[e].archiveId = IF e = d THEN id ELSE doc[e].archiveId
  BY <1>2, <1>3
<1>6. /\ [e \in Docs |-> doc'[e].status] = [e \in Docs |-> doc[e].status]
      /\ [e \in Docs |-> doc'[e].events] = [e \in Docs |-> doc[e].events]
  BY <1>4
<1>7. [e \in Docs |-> doc'[e].archiveStatus]
        = [[e \in Docs |-> doc[e].archiveStatus] EXCEPT ![d] = s]
  BY <1>5
<1>8. [e \in Docs |-> doc'[e].archiveId]
        = [[e \in Docs |-> doc[e].archiveId] EXCEPT ![d] = id]
  BY <1>5
<1> QED BY <1>6, <1>7, <1>8

\* What replica w marks PENDING is final: it is at the head of its queue.
LEMMA MarkTakes ==
  ASSUME IInv, NEW w \in Workers, MarkPending(w) \/ MarkPendingFails(w)
  PROVE  UNCHANGED <<doc, archive>> \/ \E d \in Docs : Abstract!Mark(d)
<1>1. CASE UNCHANGED doc
  BY <1>1 DEF MarkPending, MarkPendingFails
<1>2. CASE SetArchiveStatus(Head(worker[w].queue), "PENDING")
  <2>1. PICK q \in Seq(Docs) : q = worker[w].queue /\ q # <<>>
    BY DEF MarkPending, MarkPendingFails, IInv, TypeOK, WorkerType
  <2>2. PICK d \in Docs : d = Head(worker[w].queue) /\ d = q[1] /\ 1 \in 1..Len(q)
    BY <2>1, HeadTailProperties, EmptySeq
  <2>3. doc[d].status = "FINALIZAT"
    BY <2>1, <2>2 DEF IInv, Replicas, QueueOf
  <2>4. PICK id \in Nat \cup {Null} : id = doc[d].archiveId
    BY DEF IInv, TypeOK, Rows
  <2>5. doc' = [doc EXCEPT ![d] = [@ EXCEPT !.archiveStatus = "PENDING", !.archiveId = id]]
    BY <1>2, <2>2, <2>4, MarkedRow DEF ArchiveStatuses
  <2>6. [[e \in Docs |-> doc[e].archiveId] EXCEPT ![d] = id] = [e \in Docs |-> doc[e].archiveId]
    BY <2>4
  <2>7. Abstract!Mark(d)
    BY <2>3, <2>5, <2>6, ColumnsAfter
       DEF Abstract!Mark, MarkPending, MarkPendingFails, IInv, ArchiveStatuses
  <2> QED BY <2>7
<1> QED BY <1>1, <1>2 DEF MarkPending, MarkPendingFails

\* What a replica settles is what it has in hand, which is marked, and the
\* reference it records is to a package in the archive.
LEMMA SettleTakes ==
  ASSUME IInv, NEW w \in Workers,
         RecordArchived(w) \/ RecordArchivedFails(w) \/ MarkFailed(w) \/ MarkFailedFails(w)
  PROVE  \/ UNCHANGED <<doc, archive>>
         \/ \E d \in Docs : \/ Abstract!Fail(d)
                            \/ \E id \in 1..Len(archive[d]) : Abstract!Record(d, id)
<1>1. CASE UNCHANGED doc
  BY <1>1 DEF RecordArchived, RecordArchivedFails, MarkFailed, MarkFailedFails
<1>2. PICK d \in Docs : d = worker[w].doc /\ doc[d].archiveStatus # "NOT_ARCHIVED"
  BY DEF RecordArchived, RecordArchivedFails, MarkFailed, MarkFailedFails, Working,
     IInv, Replicas, PipelineOf
<1>3. CASE worker[w].phase = "ingested" /\ ~UNCHANGED doc
  <2>1. PICK id \in Nat : id = worker[w].id /\ id \in 1..Len(archive[d])
    BY <1>2, <1>3 DEF IInv, Replicas, PipelineOf
  <2>2. doc' = [doc EXCEPT ![d] = [@ EXCEPT !.archiveStatus = "ARCHIVED", !.archiveId = id]]
    BY <1>2, <1>3, <2>1 DEF RecordArchived, RecordArchivedFails, MarkFailed, MarkFailedFails
  <2>3. Abstract!Record(d, id)
    BY <1>2, <2>1, <2>2, ColumnsAfter
       DEF Abstract!Record, RecordArchived, RecordArchivedFails, MarkFailed,
           MarkFailedFails, IInv, ArchiveStatuses
  <2> QED BY <2>1, <2>3
<1>4. CASE worker[w].phase # "ingested" /\ ~UNCHANGED doc
  <2>1. SetArchiveStatus(d, "FAILED") /\ UNCHANGED archive
    BY <1>2, <1>4 DEF RecordArchived, RecordArchivedFails, MarkFailed, MarkFailedFails
  <2>2. PICK id \in Nat \cup {Null} : id = doc[d].archiveId
    BY DEF IInv, TypeOK, Rows
  <2>3. doc' = [doc EXCEPT ![d] = [@ EXCEPT !.archiveStatus = "FAILED", !.archiveId = id]]
    BY <2>1, <2>2, MarkedRow DEF ArchiveStatuses
  <2>4. [[e \in Docs |-> doc[e].archiveId] EXCEPT ![d] = id] = [e \in Docs |-> doc[e].archiveId]
    BY <2>2
  <2>5. Abstract!Fail(d)
    BY <1>2, <2>1, <2>3, <2>4, ColumnsAfter DEF Abstract!Fail, IInv, ArchiveStatuses
  <2> QED BY <2>5
<1> QED BY <1>1, <1>3, <1>4

\* A package arrives: its sender marked the document and sent it nothing before.
LEMMA StoreKept ==
  ASSUME IInv, NEW r \in requests, Store(r)
  PROVE  \E d \in Docs, w \in Workers : Abstract!Keep(d, w)
<1>1. PICK d \in Docs, w \in Workers : d = r.doc /\ w = r.by /\ r.events = doc[d].events
  BY DEF IInv, TypeOK, Requests, PackagesAreFinal
<1>2. doc[d].archiveStatus # "NOT_ARCHIVED"
  BY <1>1 DEF IInv, UnmarkedIsUnsent, Unsent
<1>3. \A i \in 1..Len(archive[d]) : archive[d][i].by # w
  BY <1>1 DEF IInv, SentOncePerReplica
<1>4. archive' = [archive EXCEPT ![d] = Append(@, [by |-> w, events |-> doc[d].events])]
  BY <1>1 DEF Store
<1> QED BY <1>2, <1>3, <1>4 DEF Abstract!Keep, Store

\* A user's step is one of the document's life, and none out of FINALIZAT.
LEMMA AdvanceTakes ==
  ASSUME IInv, NEW d \in Docs, NEW action, NEW new \in Statuses, Advance(d, action, new)
  PROVE  Abstract!Advance(d)
<1>1. doc[d].status # "FINALIZAT"
  BY FinalIsFinal DEF Advance
<1>2. PICK n : n = doc[d].events + 1
  OBVIOUS
<1>3. PICK at : at = IF action \in {"APPROVE", "FINALIZE"} THEN clock ELSE Null
  OBVIOUS
<1>4. PICK row : row = [doc[d] EXCEPT !.status = new, !.events = n, !.finalizedAt = at]
  OBVIOUS
<1>5. /\ row.status = new /\ row.events = n
      /\ row.archiveStatus = doc[d].archiveStatus /\ row.archiveId = doc[d].archiveId
  BY <1>4 DEF IInv, TypeOK, Rows
<1>6. doc' = [doc EXCEPT ![d] = row] /\ UNCHANGED archive
  BY <1>2, <1>3, <1>4 DEF Advance
<1>7. /\ doc'[d] = row
      /\ \A e \in Docs : e # d => doc'[e] = doc[e]
  BY <1>6 DEF IInv, TypeOK
<1>8. \A e \in Docs : /\ doc'[e].status = IF e = d THEN new ELSE doc[e].status
                      /\ doc'[e].events = IF e = d THEN n ELSE doc[e].events
                      /\ doc'[e].archiveStatus = doc[e].archiveStatus
                      /\ doc'[e].archiveId = doc[e].archiveId
  BY <1>5, <1>7
<1>9. [e \in Docs |-> doc'[e].status] = [[e \in Docs |-> doc[e].status] EXCEPT ![d] = new]
  BY <1>8
<1>10. [e \in Docs |-> doc'[e].events] = [[e \in Docs |-> doc[e].events] EXCEPT ![d] = @ + 1]
  BY <1>2, <1>8
<1>11. /\ [e \in Docs |-> doc'[e].archiveStatus] = [e \in Docs |-> doc[e].archiveStatus]
       /\ [e \in Docs |-> doc'[e].archiveId] = [e \in Docs |-> doc[e].archiveId]
  BY <1>8
<1>12. new \in Abstract!Statuses
  BY DEF Statuses, Abstract!Statuses
<1> QED BY <1>1, <1>6, <1>9, <1>10, <1>11, <1>12 DEF Abstract!Advance

\* Every step is one of a document's life, or none.
LEMMA StepRefines ==
  ASSUME IInv, [Next]_vars
  PROVE  [Abstract!Next]_(Abstract!vars)
<1>1. CASE UNCHANGED <<doc, archive>>
  BY <1>1 DEF Abstract!vars
<1>2. ASSUME NEW w \in Workers, StepOf(w)
      PROVE  \/ UNCHANGED <<doc, archive>>
             \/ MarkPending(w) \/ MarkPendingFails(w)
             \/ RecordArchived(w) \/ RecordArchivedFails(w) \/ MarkFailed(w)
             \/ MarkFailedFails(w)
  BY <1>2 DEF StepOf, Start, TickerFires, Stop, Run, FindCandidates, FindCandidatesFails,
     CycleEnds, Fetch, FetchFails, ConvertFails, Ingest, IngestAnswered,
     IngestFails, Cancel, Crash
<1>3. ASSUME NEW w \in Workers, StepOf(w)
      PROVE  Abstract!Next \/ UNCHANGED <<doc, archive>>
  BY <1>2, <1>3, MarkTakes, SettleTakes DEF Abstract!Next
<1>4. ASSUME Others PROVE Abstract!Next \/ UNCHANGED <<doc, archive>>
  <2>1. ASSUME NEW r \in requests, Store(r) PROVE Abstract!Next
    BY <2>1, StoreKept DEF Abstract!Next
  <2>2. ASSUME NEW d \in Docs, NEW action \in Actions, NEW new \in Statuses,
               Advance(d, action, new)
        PROVE  Abstract!Next
    BY <2>2, AdvanceTakes DEF Abstract!Next
  <2>3. CASE Tick \/ UNCHANGED vars
    BY <2>3 DEF Tick, vars
  <2> QED BY <1>4, <2>1, <2>2, <2>3, Zenon DEF Others
<1> QED BY <1>1, <1>3, <1>4, StepsAre

LEMMA InitRefines == Init => Abstract!Init
<1> SUFFICES ASSUME Init PROVE Abstract!Init
  OBVIOUS
<1>1. \A d \in Docs : /\ doc[d].status = "IN_LUCRU" /\ doc[d].events = 2
                      /\ doc[d].archiveStatus = "NOT_ARCHIVED" /\ doc[d].archiveId = Null
  BY DEF Init
<1>2. archive = [d \in Docs |-> <<>>]
  BY DEF Init
<1>3. "IN_LUCRU" \in Abstract!Statuses \ {"FINALIZAT"}
  BY DEF Abstract!Statuses
<1>4. /\ [d \in Docs |-> doc[d].status] \in [Docs -> Abstract!Statuses \ {"FINALIZAT"}]
      /\ [d \in Docs |-> doc[d].events] \in [Docs -> Nat]
  BY <1>1, <1>3
<1>5. /\ [d \in Docs |-> doc[d].archiveStatus] = [d \in Docs |-> "NOT_ARCHIVED"]
      /\ [d \in Docs |-> doc[d].archiveId] = [d \in Docs |-> Null]
  BY <1>1
<1> QED BY <1>2, <1>4, <1>5 DEF Abstract!Init

\* Replicas that list, fail, stop and start at any time, late answers and lost
\* ones come to a life in which only final documents are marked, only marked
\* ones sent, once by each replica, and only stored packages referred to
\* (worker.go:78-105, pipeline.go:28-96).
THEOREM Refinement == Spec => ImplementsArchiveRecord
BY InitRefines, StepRefines, Invariance, PTL
   DEF Spec, ImplementsArchiveRecord, Abstract!Spec
=============================================================================
