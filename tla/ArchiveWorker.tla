----------------------------- MODULE ArchiveWorker -----------------------------
(***************************************************************************)
(* The archive worker (internal/archiveworker) on several replicas: every  *)
(* replica lists the documents finalised long enough ago, and runs the     *)
(* pipeline ArchiveDocument on them one after the other: mark PENDING,     *)
(* fetch, convert, build the package, send it to the QTSP archive, record  *)
(* the answer.  Meanwhile users advance documents (Engine.Advance, atomic  *)
(* here as WorkflowEngine shows it to be), time passes, contexts are       *)
(* cancelled, processes are killed and restarted, statements fail, and the *)
(* archive may store a package whose sender has given up waiting.          *)
(*                                                                         *)
(* Reading the object store, converting to PDF/A and building the package  *)
(* change no shared state: together they are one step that succeeds or     *)
(* fails.  Of a package the model keeps how many workflow events are in it.*)
(***************************************************************************)
EXTENDS WorkflowModel, Naturals, Sequences, FiniteSets

CONSTANTS
  Docs,           \* documents
  Workers,        \* replicas of the worker
  Null,           \* SQL NULL, no document
  ArchiveDelay,   \* archiveDelay: how long a document must have been final
  Limit,          \* LIMIT of the candidate query
  MaxClock,       \* bound: time stops here
  MaxEvents,      \* bound: no document gets more workflow events before it is final
  MaxFaults       \* bound: failed statements, cancellations and crashes

ASSUME DocsAssumption == IsFiniteSet(Docs)
ASSUME WorkersAssumption == IsFiniteSet(Workers)
ASSUME NullAssumption == Null \notin Docs /\ Null \notin Nat
ASSUME BoundsAssumption ==
  /\ ArchiveDelay \in Nat /\ Limit \in Nat \ {0}
  /\ MaxClock \in Nat /\ MaxEvents \in Nat /\ MaxFaults \in Nat

ArchiveStatuses == {"NOT_ARCHIVED", "PENDING", "ARCHIVED", "FAILED"}

VARIABLES
  clock,      \* time, the same for all hosts
  doc,        \* doc[d]: the row of documente
  requests,   \* ingest requests on their way to the archive
  archive,    \* archive[d]: the packages of d the archive has stored
  worker,     \* worker[w]: the goroutine of replica w
  faults      \* failed statements, cancellations and crashes so far

vars == <<clock, doc, requests, archive, worker, faults>>

\* events is the number of rows of workflow_events of the document.
Rows ==
  [status : Statuses, events : Nat, finalizedAt : Nat \cup {Null},
   archiveStatus : ArchiveStatuses, archiveId : Nat \cup {Null}]

\* A package carries the events of its document up to the time of the fetch.
Packages == [by : Workers, events : Nat]
Requests == [by : Workers, doc : Docs, events : Nat]

\* Where the goroutine is.  down: no process.  scan, idle, stopped: about to
\* list candidates, in the select of Start, returned.  cycle: in the loop of
\* runCycle.  The rest: in ArchiveDocument for the document doc.
Working == {"fetch", "convert", "sent", "ingested", "failing"}
Phases == {"down", "scan", "idle", "stopped", "cycle"} \cup Working

WorkerType ==
  [phase     : Phases,
   cancelled : BOOLEAN,            \* ctx is done
   queue     : Seq(Docs),          \* candidates not yet taken up
   doc       : Docs \cup {Null},   \* the document in the pipeline
   events    : Nat,                \* how many events were fetched for it
   id        : Nat \cup {Null}]    \* the archive's answer

Down == [phase |-> "down", cancelled |-> FALSE, queue |-> <<>>, doc |-> Null,
         events |-> 0, id |-> Null]

\* Every document starts in the hands of a user, with two events behind it.
Init ==
  /\ clock = 0
  /\ doc = [d \in Docs |->
       [status |-> "IN_LUCRU", events |-> 2, finalizedAt |-> Null,
        archiveStatus |-> "NOT_ARCHIVED", archiveId |-> Null]]
  /\ requests = {}
  /\ archive = [d \in Docs |-> <<>>]
  /\ worker = [w \in Workers |-> Down]
  /\ faults = 0

-----------------------------------------------------------------------------
(* findCandidates.                                                         *)

\* Mutant: failed archivings are tried again.
MutantDueAgain(d) ==
  /\ doc[d].status = "FINALIZAT"
  /\ doc[d].archiveStatus \in {"NOT_ARCHIVED", "FAILED"}
  /\ doc[d].finalizedAt # Null
  /\ doc[d].finalizedAt + ArchiveDelay < clock

\* Mutant: the query does not look at archive_status.
MutantDueAnyStatus(d) ==
  /\ doc[d].status = "FINALIZAT"
  /\ doc[d].finalizedAt # Null
  /\ doc[d].finalizedAt + ArchiveDelay < clock

\* The WHERE clause (worker.go:84-87).
Due(d) ==
  /\ doc[d].status = "FINALIZAT"
  /\ doc[d].archiveStatus = "NOT_ARCHIVED"
  /\ doc[d].finalizedAt # Null
  /\ doc[d].finalizedAt + ArchiveDelay < clock

\* The lists the query may return: ORDER BY data_finalizare ASC LIMIT ...
Listings ==
  LET due == {d \in Docs : Due(d)}
      n   == IF Cardinality(due) < Limit THEN Cardinality(due) ELSE Limit
      Older(d, e) == doc[d].finalizedAt < doc[e].finalizedAt
  IN  {q \in [1..n -> due] :
         /\ \A i, j \in 1..n : i < j => q[i] # q[j] /\ ~Older(q[j], q[i])
         /\ \A i \in 1..n, d \in due :
              Older(d, q[i]) => \E j \in 1..n : q[j] = d}

-----------------------------------------------------------------------------
(* The worker's loop.                                                      *)

Goto(w, phase) == worker' = [worker EXCEPT ![w] = [@ EXCEPT !.phase = phase]]

\* ArchiveDocument returns to the loop of runCycle, with or without an error.
ReturnToCycle(w) ==
  worker' = [worker EXCEPT ![w] =
    [@ EXCEPT !.phase = "cycle", !.doc = Null, !.events = 0, !.id = Null]]

\* A failed statement, a cancellation or a crash happens.
Fault == faults < MaxFaults /\ faults' = faults + 1

\* A statement fails: always once the context is done, else by a fault.
StatementFails(w) ==
  IF worker[w].cancelled THEN UNCHANGED faults ELSE Fault

SetArchiveStatus(d, status) ==
  doc' = [doc EXCEPT ![d] = [@ EXCEPT !.archiveStatus = status]]

\* A process starts, or starts again after it was killed or shut down.
Start(w) ==
  /\ \/ worker[w].phase = "down"
     \/ worker[w].phase = "stopped" /\ worker[w].cancelled
  /\ worker' = [worker EXCEPT ![w] = [Down EXCEPT !.phase = "scan"]]
  /\ UNCHANGED <<clock, doc, requests, archive, faults>>

\* The ticker fires; when ctx is done too, select may still choose the ticker.
TickerFires(w) ==
  /\ worker[w].phase = "idle"
  /\ Goto(w, "scan")
  /\ UNCHANGED <<clock, doc, requests, archive, faults>>

Stop(w) ==
  /\ worker[w].phase = "idle"
  /\ worker[w].cancelled
  /\ Goto(w, "stopped")
  /\ UNCHANGED <<clock, doc, requests, archive, faults>>

FindCandidates(w) ==
  /\ worker[w].phase = "scan"
  /\ ~worker[w].cancelled
  /\ \E q \in Listings :
       worker' = [worker EXCEPT ![w] = [@ EXCEPT !.phase = "cycle", !.queue = q]]
  /\ UNCHANGED <<clock, doc, requests, archive, faults>>

\* Mutant: an error of the query ends the goroutine, not only the cycle.
MutantScanErrorStops(w) ==
  /\ worker[w].phase = "scan"
  /\ StatementFails(w)
  /\ Goto(w, "stopped")
  /\ UNCHANGED <<clock, doc, requests, archive>>

FindCandidatesFails(w) ==
  /\ worker[w].phase = "scan"
  /\ StatementFails(w)
  /\ Goto(w, "idle")
  /\ UNCHANGED <<clock, doc, requests, archive>>

\* runCycle returns: no candidate is left, or ctx is done.
CycleEnds(w) ==
  /\ worker[w].phase = "cycle"
  /\ worker[w].queue = <<>> \/ worker[w].cancelled
  /\ worker' = [worker EXCEPT ![w] = [@ EXCEPT !.phase = "idle", !.queue = <<>>]]
  /\ UNCHANGED <<clock, doc, requests, archive, faults>>

-----------------------------------------------------------------------------
(* ArchiveDocument.                                                        *)

\* The next candidate is marked PENDING, whatever its archive_status is now.
MarkPending(w) ==
  LET d == Head(worker[w].queue)
  IN  /\ worker[w].phase = "cycle"
      /\ worker[w].queue # <<>>
      /\ ~worker[w].cancelled
      /\ SetArchiveStatus(d, "PENDING")
      /\ worker' = [worker EXCEPT ![w] =
                      [@ EXCEPT !.phase = "fetch", !.doc = d,
                                !.queue = Tail(worker[w].queue)]]
      /\ UNCHANGED <<clock, requests, archive, faults>>

\* The UPDATE returns an error; it may have been executed all the same.
MarkPendingFails(w) ==
  LET d == Head(worker[w].queue)
  IN  /\ worker[w].phase = "cycle"
      /\ worker[w].queue # <<>>
      /\ ~worker[w].cancelled
      /\ Fault
      /\ SetArchiveStatus(d, "PENDING") \/ UNCHANGED doc
      /\ worker' = [worker EXCEPT ![w] =
                      [@ EXCEPT !.queue = Tail(worker[w].queue)]]
      /\ UNCHANGED <<clock, requests, archive>>

\* Two queries, of which only the second reads something that changes.
Fetch(w) ==
  /\ worker[w].phase = "fetch"
  /\ ~worker[w].cancelled
  /\ worker' = [worker EXCEPT ![w] =
       [@ EXCEPT !.phase = "convert", !.events = doc[worker[w].doc].events]]
  /\ UNCHANGED <<clock, doc, requests, archive, faults>>

FetchFails(w) ==
  /\ worker[w].phase = "fetch"
  /\ StatementFails(w)
  /\ Goto(w, "failing")
  /\ UNCHANGED <<clock, doc, requests, archive>>

\* Mutant: a failed conversion returns its error without markFailed.
MutantConvertReturns(w) ==
  /\ worker[w].phase = "convert"
  /\ ReturnToCycle(w)
  /\ UNCHANGED <<clock, doc, requests, archive, faults>>

\* Mutant: the conversion is retried for as long as it fails, whatever ctx says.
MutantRetryForever(w) ==
  /\ worker[w].phase = "convert"
  /\ Goto(w, "convert")
  /\ UNCHANGED <<clock, doc, requests, archive, faults>>

\* Object store, Gotenberg, BuildSIPAndStream or, once ctx is done, the
\* dispatch of the request fails.
ConvertFails(w) ==
  /\ worker[w].phase = "convert"
  /\ Goto(w, "failing")
  /\ UNCHANGED <<clock, doc, requests, archive, faults>>

\* They succeed and the request leaves; it carries nothing that identifies a
\* repetition.
Ingest(w) ==
  /\ worker[w].phase = "convert"
  /\ ~worker[w].cancelled
  /\ requests' = requests \cup
       {[by |-> w, doc |-> worker[w].doc, events |-> worker[w].events]}
  /\ Goto(w, "sent")
  /\ UNCHANGED <<clock, doc, archive, faults>>

\* The answer to the request arrives with the identifier of the package.
IngestAnswered(w) ==
  /\ worker[w].phase = "sent"
  /\ \E id \in 1..Len(archive[worker[w].doc]) :
       /\ archive[worker[w].doc][id].by = w
       /\ worker' = [worker EXCEPT ![w] = [@ EXCEPT !.phase = "ingested", !.id = id]]
  /\ UNCHANGED <<clock, doc, requests, archive, faults>>

\* Mutant: an error of Ingest is logged and not returned.
MutantIngestErrorIgnored(w) ==
  /\ worker[w].phase = "sent"
  /\ Goto(w, "ingested")
  /\ UNCHANGED <<clock, doc, requests, archive, faults>>

\* Connection error, 30 s timeout, status >= 400, unreadable answer or ctx
\* done.  The request may be on its way, or carried out, all the same.
IngestFails(w) ==
  /\ worker[w].phase = "sent"
  /\ Goto(w, "failing")
  /\ UNCHANGED <<clock, doc, requests, archive, faults>>

RecordArchived(w) ==
  /\ worker[w].phase = "ingested"
  /\ ~worker[w].cancelled
  /\ doc' = [doc EXCEPT ![worker[w].doc] =
       [@ EXCEPT !.archiveStatus = "ARCHIVED", !.archiveId = worker[w].id]]
  /\ ReturnToCycle(w)
  /\ UNCHANGED <<clock, requests, archive, faults>>

\* The UPDATE returns an error, executed or not, and nothing else is done.
RecordArchivedFails(w) ==
  /\ worker[w].phase = "ingested"
  /\ StatementFails(w)
  /\ \/ /\ ~worker[w].cancelled
        /\ doc' = [doc EXCEPT ![worker[w].doc] =
             [@ EXCEPT !.archiveStatus = "ARCHIVED", !.archiveId = worker[w].id]]
     \/ UNCHANGED doc
  /\ ReturnToCycle(w)
  /\ UNCHANGED <<clock, requests, archive>>

\* Mutant: archive_status is a VARCHAR without a check, and gets a new word.
MutantMarkError(w) ==
  /\ worker[w].phase = "failing"
  /\ ~worker[w].cancelled
  /\ SetArchiveStatus(worker[w].doc, "ERROR")
  /\ ReturnToCycle(w)
  /\ UNCHANGED <<clock, requests, archive, faults>>

MarkFailed(w) ==
  /\ worker[w].phase = "failing"
  /\ ~worker[w].cancelled
  /\ SetArchiveStatus(worker[w].doc, "FAILED")
  /\ ReturnToCycle(w)
  /\ UNCHANGED <<clock, requests, archive, faults>>

\* markFailed ignores the error of its UPDATE.
MarkFailedFails(w) ==
  /\ worker[w].phase = "failing"
  /\ StatementFails(w)
  /\ ReturnToCycle(w)
  /\ UNCHANGED <<clock, doc, requests, archive>>

-----------------------------------------------------------------------------
(* Processes, the archive service, users and time.                         *)

\* The process is told to shut down.
Cancel(w) ==
  /\ worker[w].phase \notin {"down", "stopped"}
  /\ ~worker[w].cancelled
  /\ Fault
  /\ worker' = [worker EXCEPT ![w] = [@ EXCEPT !.cancelled = TRUE]]
  /\ UNCHANGED <<clock, doc, requests, archive>>

Crash(w) ==
  /\ worker[w].phase # "down"
  /\ Fault
  /\ worker' = [worker EXCEPT ![w] = Down]
  /\ UNCHANGED <<clock, doc, requests, archive>>

\* The archive stores the package of a request, perhaps after its sender has
\* given up.  A request that is refused or lost is one that it never stores.
Store(r) ==
  /\ archive' = [archive EXCEPT ![r.doc] =
       Append(@, [by |-> r.by, events |-> r.events])]
  /\ requests' = requests \ {r}
  /\ UNCHANGED <<clock, doc, worker, faults>>

\* Engine.Advance: one committed transition of the life cycle.
Advance(d, action, new) ==
  /\ doc[d].status # "FINALIZAT" => doc[d].events < MaxEvents
  /\ Allows(doc[d].status, action, new)
  /\ doc' = [doc EXCEPT ![d] =
       [@ EXCEPT !.status = new, !.events = doc[d].events + 1,
                 !.finalizedAt = IF action \in {"APPROVE", "FINALIZE"}
                                   THEN clock ELSE Null]]
  /\ UNCHANGED <<clock, requests, archive, worker, faults>>

Tick ==
  /\ clock < MaxClock
  /\ clock' = clock + 1
  /\ UNCHANGED <<doc, requests, archive, worker, faults>>

-----------------------------------------------------------------------------
\* What the goroutine of w does next, whichever way it turns out.
Run(w) ==
  \/ FindCandidates(w) \/ FindCandidatesFails(w) \/ CycleEnds(w)
  \/ MarkPending(w) \/ MarkPendingFails(w)
  \/ Fetch(w) \/ FetchFails(w)
  \/ Ingest(w) \/ ConvertFails(w)
  \/ IngestAnswered(w) \/ IngestFails(w)
  \/ RecordArchived(w) \/ RecordArchivedFails(w)
  \/ MarkFailed(w) \/ MarkFailedFails(w)

Next ==
  \/ \E w \in Workers :
       \/ Start(w) \/ TickerFires(w) \/ Stop(w) \/ Run(w)
       \/ Cancel(w) \/ Crash(w)
  \/ \E r \in requests : Store(r)
  \/ \E d \in Docs, action \in Actions, new \in Statuses : Advance(d, action, new)
  \/ Tick

\* The scheduler runs goroutines that can run, the deployment restarts dead
\* processes and the ticker keeps firing: one of the three is what a replica
\* waits for, by its phase.  A select whose two cases are ready picks one at
\* random, so ctx.Done is not passed over for ever.
Fairness ==
  \A w \in Workers :
    /\ WF_vars(Start(w) \/ TickerFires(w) \/ Run(w))
    /\ SF_vars(Stop(w))

Spec == Init /\ [][Next]_vars /\ Fairness

-----------------------------------------------------------------------------
(* Properties.                                                             *)

\* Every variable has its type.
TypeOK ==
  /\ clock \in Nat
  /\ doc \in [Docs -> Rows]
  /\ requests \subseteq Requests
  /\ archive \in [Docs -> Seq(Packages)]
  /\ worker \in [Workers -> WorkerType]
  /\ faults \in 0..MaxFaults

\* What the archive keeps is final: every package, stored or on its way, was
\* made of a finalised document and holds its whole history, although the
\* worker does not look at the status again after it has listed the document
\* (findCandidates, fetchDocumentAndMeta, and no way out of FINALIZAT).
PackagesAreFinal ==
  \A d \in Docs :
    /\ \A i \in 1..Len(archive[d]) :
         doc[d].status = "FINALIZAT" /\ archive[d][i].events = doc[d].events
    /\ \A r \in requests :
         r.doc = d => doc[d].status = "FINALIZAT" /\ r.events = doc[d].events

\* A document said to be archived refers to a package of its own that the
\* archive holds, whatever was lost, late, repeated or overwritten by another
\* replica (the UPDATE after Ingest, pipeline.go:87-92).
ArchivedMeansStored ==
  \A d \in Docs :
    /\ doc[d].archiveStatus = "ARCHIVED" => doc[d].archiveId # Null
    /\ doc[d].archiveId # Null => doc[d].archiveId \in 1..Len(archive[d])

Abstract ==
  INSTANCE ArchiveRecord WITH
    Senders <- Workers,
    status <- [d \in Docs |-> doc[d].status],
    events <- [d \in Docs |-> doc[d].events],
    mark <- [d \in Docs |-> doc[d].archiveStatus],
    ref <- [d \in Docs |-> doc[d].archiveId],
    kept <- archive

\* However many replicas list, fail, die and come back, each step is one that
\* the life of a document has in it: only final documents are marked, only
\* marked ones sent, each by a replica once and with all its events, and only
\* packages that are there are referred to (ArchiveDocument, pipeline.go:28-96).
ImplementsArchiveRecord == Abstract!Spec

\* One replica sends a document to the archive at most once, over all its
\* cycles, crashes and restarts: the archive call is not idempotent, and the
\* mark PENDING is what keeps it from being repeated (pipeline.go:30).
SentOncePerReplica ==
  /\ \A d \in Docs : \A i, j \in 1..Len(archive[d]) :
       archive[d][i].by = archive[d][j].by => i = j
  /\ \A r, q \in requests : r.doc = q.doc /\ r.by = q.by => r = q
  /\ \A r \in requests : \A i \in 1..Len(archive[r.doc]) :
       archive[r.doc][i].by # r.by

\* As long as every statement is executed and no process is shut down or
\* killed, a PENDING document is in the pipeline of some replica: each error
\* return of ArchiveDocument settles the document it gives up.
PendingIsInPipeline ==
  faults = 0 =>
    \A d \in Docs : doc[d].archiveStatus = "PENDING" =>
      \E w \in Workers : worker[w].doc = d

\* Replica w has document d in its list or in its pipeline.
Has(w, d) ==
  \/ worker[w].doc = d
  \/ \E i \in 1..Len(worker[w].queue) : worker[w].queue[i] = d

\* d is archived, and no replica has it on its way any more.
Settled(d) ==
  /\ doc[d].archiveStatus = "ARCHIVED"
  /\ \A w \in Workers : ~Has(w, d)

\* An archived document that every replica has let go of is never taken up
\* again and keeps its archive reference, over all later cycles, failures and
\* restarts (findCandidates; setArchiveStatus overwrites whatever it finds, so
\* a replica that still has the document in its list may).
ArchivedIsFinal ==
  [][\A d \in Docs :
       Settled(d) => Settled(d)' /\ doc'[d].archiveId = doc[d].archiveId]_vars

\* A due document does not starve: it is taken up at last, however many older
\* documents fail before it (oldest first, LIMIT, and PENDING leaves the list).
\* A document that is due stays due until it is marked, so it is enough that,
\* again and again, it is not due.
\* And no replica leaves the work to the others: whatever fails or is shut down
\* (an error of the query ends the cycle and not the loop), it lists again.
DueIsTakenUp ==
  /\ \A d \in Docs : []<>~Due(d)
  /\ \A w \in Workers : []<>(worker[w].phase = "scan")

\* A worker that is told to stop does, from anywhere in a cycle.  ctx stays
\* done for as long as the process lives, so a worker that goes on for ever
\* would be cancelled and running from some point on.
CancelledStops ==
  \A w \in Workers :
    []<>(worker[w].cancelled => worker[w].phase \in {"stopped", "down"})

\* model.go:82 of ARHIVAT: "documents reach this via background archive
\* worker".  A document that is archived comes to be ARHIVAT.
ArchivedBecomesArhivat ==
  \A d \in Docs :
    doc[d].archiveStatus = "ARCHIVED" ~> doc[d].status = "ARHIVAT"
=============================================================================
