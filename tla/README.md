# EguDoc: TLA+ models, checks and proofs

EguDoc is an electronic registry for public institutions: documents are given
a number in a registry, advanced through a workflow, archived at a qualified
trust service (QTSP) and delivered electronically. The backend is a Go server
on PostgreSQL that runs on two to ten replicas (`src/k8s`), with an Angular
front end. This directory holds TLA+ models of it, the TLC runs that check
them on small instances and TLAPS proofs for all instances.

## 1. The system

| component | state it keeps | operations | what is hard | what makes it correct |
|---|---|---|---|---|
| workflow engine (`internal/workflow`) | `documente` rows, `workflow_events` | `Advance`, `LogEventTx`, `GetAuditTrail` | concurrent calls on one row, errors between statements, retries after lost answers, time of a transaction and time of its commit | history and row agree, one atomic transition per call, columns fit the status |
| registry numbers (`internal/registry`) | `registre` rows | `GenerateNextNumber` | concurrent calls, annual reset, hosts that disagree about the year, unique key (institution, prefix, year) | gapless yearly series, no duplicates |
| archive worker (`internal/archiveworker`, `qtsp/archive`, `qtsp`) | `archive_*` columns, the QTSP's packages | `Start`, `runCycle`, `findCandidates`, `ArchiveDocument`, `markFailed`, `TriggerImmediate`, `Ingest` | several replicas without a claim, a non-idempotent remote call with a timeout, crashes, cancelled contexts, ignored errors | packages are final, references lead to packages, no replica repeats a call, no starvation |
| authentication (`internal/auth`) | key set and its time, two mutexes | `GetKeys`, `ParseToken`, `RequireAuth` | expiry under load, lock order, stale answers, key rotation | bounded staleness, one key set per ttl, no blocking |
| role-based access (`internal/rbac`) | `roles`, `permissions`, `role_permissions`, `user_roles` | `HasPermission`, `GetUserRoles`, `AssignRole`, `RevokeRole`, `Require`, `RequireRole`, the seeder | seeding on every start of every replica, expiry, scopes, revocations beside assignments | a revoked or expired role gives nothing, a restart keeps administrators' edits |
| users (`internal/users`) | `users` | `GetOrCreate`, `GetBySubject`, `GetByID` | one upsert on the subject beside a unique email | one row per subject (PostgreSQL's unique keys; not modelled) |
| entities (`internal/entities`) | `entitati` | `Create`, `GetByID`, `List` | count and page are two queries, nullable columns | pages cover what is there |
| qualified delivery (`qtsp/delivery`) | `delivery_*` columns, the QTSP's messages | `ShouldDeliver`, `Dispatch`, `Submit` | submit and record are two steps, repeated dispatch | SUBMITTED leads to a message, one message for each decision |
| E-ARK packages (`internal/eark`) | none | `BuildSIP`, METS, PREMIS, Dublin Core | sums of what is stored, event order | the manifest and the history are true of the package |
| PDF/A (`internal/pdf`), object store (`internal/storage`) | objects | convert; put, get, presign | the pipe of `PutDocument` | hash and object agree, no stuck goroutine |
| database, server | pool, schema version | connect, migrate, seed, make the bucket, serve | a first migration PostgreSQL refuses, replicas that start beside each other, killed halfway | all come to serve |
| config, health | none | read the environment, ping | | |
| front end (`frontend/src/app`) | session, list filters and page | `initialize`, `handleCallback`, guard, `loadDocuments`, search, paging | answers out of order, guard before session | the list shows the last filter |

Interaction: requests pass `RequireAuth` (key cache) and the RBAC middleware;
handlers call the services; services share PostgreSQL rows. The workflow sets
`status` and `data_finalizare`, the archive worker polls for them, and the
archive and delivery updates rewrite the same row beside the workflow. `main.go`
mounts only health and user routes so far: the engine, the numbers, the worker
and the dispatcher are called from code that is not in the repository yet. The
models describe these packages as they are, under any number of callers.
`docs/superpowers` also plans features (file sync, versions, device flow) that
have no code; they are not modelled.

## 2. Modules

| module | models | runs and proofs |
|---|---|---|
| `WorkflowModel` | statuses, actions, transition table (`model.go`) | used by the three below |
| `DocumentWorkflow` | abstract life cycle: an action moves status and history in one step | refined by `WorkflowEngine` |
| `WorkflowEngine` | `Advance` statement by statement, callers, row locks, snapshots, other writers | `workflow`, `audit_trail`, `reassign`; `WorkflowProofs` |
| `NumberSeries` | abstract: an open registry gives out its next number in one step | refined by `RegistryNumber` |
| `RegistryNumber` | `GenerateNextNumber` statement by statement | `registry`, `displayed_number`; `RegistryProofs` |
| `ArchiveRecord` | abstract: a document is advanced, marked, kept in the archive, and settled | refined by `ArchiveWorker` |
| `ArchiveWorker` | worker and pipeline on several replicas, QTSP archive, users (`Advance` as one step) | `archive`, `arhivat`; `ArchiveProofs` |
| `JwksCache` | `GetKeys`, `ParseToken`, the provider's key rotation | `jwks`; `JwksProofs` |
| `Entities` | `Create`, and `List` as two queries a page, by clients that turn pages | in `delivery` |
| `Delivery` | `ShouldDeliver`, `Submit`, `Dispatch` by several callers on the rows of `Entities`; QTSP and network | `delivery`; `DeliveryProofs` |
| `RbacModel` | the seeded roles, permissions and the `WHERE` of each grant | used by `Startup` |
| `Startup` | `main` up to `ListenAndServe` on several replicas: migration, seeder, bucket; administrators | `fresh_start`, and in `access` |
| `Access` | `AssignRole`, `RevokeRole` and `HasPermission`, as `Require` asks it, on the tables of `Startup` | `access`; `AccessProofs` |
| `SipPackage` | `BuildSIP`, METS, PREMIS, Dublin Core as operators, and what a package is to be | used by `Packaging`; `SipProofs` |
| `Packaging` | `PutDocument` with its pipe, the pipeline from the fetch to the package, PDF/A | `packaging`; `PackagingProofs` |
| `MC...` | instances for TLC | |

### WorkflowEngine

`doc`, `log` are the committed rows; `tx[c]` is the open transaction of a call,
with the row it read (`read`) and the rows it wrote (`write`, `event`), which
become visible at `Commit`. `Begin` is `BeginTx` and fixes `NOW()`. The
`SELECT ... FOR UPDATE` is `TakeSnapshot` (the statement starts: the
RepeatableRead snapshot is taken) and then `SelectForUpdate`, or
`SerializationFailure` when another transaction committed the row meanwhile
(PostgreSQL's error 40001). `Refuse`, `UpdateDocument`, `LogEventTx`, `Commit`
follow the code; the deferred `Rollback` is `RollBack`, part of every failing
step. `Abort` is any other error or a killed process, and a `COMMIT` whose
answer is lost is a `Commit` whose caller may send the request again.
`Register`, `SetWorkflowLock` and `OtherColumnsUpdate` stand for the writers of
the row outside the engine. The empty string and the nil pointer of a request
are both `Null`, as the code treats them alike. Institution ids, actor, IP,
metadata and visibility are copied and never looked at: left out.

### RegistryNumber

The same transaction scheme under Serializable. A row keeps the columns the
function reads or writes. `Current` is the annual reset, `Taken` the new
counters; `UpdateCounter` chooses the host's `time.Now()` within `MaxLag` of the
true time. The unique key makes an `UPDATE` wait for another open transaction on
the same key (`KeyBusy`) and fail when the key is taken (`Refused`), as it does
beyond the range of `INTEGER`. Time has two instants a year, so that "exactly at
New Year" and "after New Year" differ; `now.Year()` is taken in UTC, as in the
container images. `allocated` records what was committed and guides no action.

`NumberSeries` is what "atomically allocates" (`number.go:14`) promises: a
registry has a year, a next number and the list of the numbers it gave out, and
`Take` changes all three at once, only while the registry is open and only if no
other registry of its prefix has the year. `ImplementsNumberSeries` maps the
committed rows and `allocated` to it. A call that waits, fails or is refused is
a stutter; a commit must be a `Take` at the moment of the commit, although the
row was read, and found active, several statements before.

### ArchiveWorker

`worker[w]` is the goroutine of a replica: waiting, listing, in the loop of
`runCycle`, or in `ArchiveDocument`. `requests` are ingest calls on the wire:
the archive may `Store` one after the client's timeout; one that is refused or
lost is one that it never stores.
A statement that fails may or may not have been executed where that makes a
difference (`MarkPendingFails`, `RecordArchivedFails`); once the context is
cancelled every statement fails. Fetching from the object store, the PDF/A
conversion, the building of the package and the dispatch of the request are one
step (`Ingest`, or `ConvertFails`), as only the last changes something shared. Of a package the model keeps how many workflow events it holds.
An action of `Advance` is one
step here because `WorkflowEngine` implements `DocumentWorkflow`; the rows start
`IN_LUCRU` with the two events that lead there.

`ArchiveRecord` is the life of a document without the replicas: only a final
document is marked, a package is kept only of a marked one, one from each sender
and with all the events, and a reference is recorded only to a package that is
kept. `ImplementsArchiveRecord` maps the columns of the rows and the archive to
it. A package that is stored long after its sender died, or after the document
was given up, is a `Keep`; with several replicas `ARCHIVED` and `FAILED` may
follow each other, but nothing comes back to `NOT_ARCHIVED`.

### JwksCache

The look at the cache under `RLock` is two steps (lock, look), so that readers
and the writer can meet; `fetchMu`, the re-check, the request, the answer and
the store are steps of their own. `StoreKeys` waits for the readers. `Tick` is
disabled while a fetch has reached the timeout of the HTTP client: the ten
seconds include the reading of the body, and the time between the last byte and
`c.mu.Lock()` is taken to be inside them.

### Entities and Delivery

`list[l]` is a client that asks for page after page until one is empty. A page
is any answer that `ORDER BY denumire LIMIT OFFSET` allows (`IsPage`): rows of
one name come in any order. `Create` inserts no `delivery_participant_id`, and
the Go field it is scanned into is a string: a page with a row that is still
`NULL` is an error (`ScanFails`), as is `GetByID` of such a row. No code sets
the id; `SetParticipant` stands for whoever does.

`call[c]` is a caller between `ShouldDeliver` and the return of `Dispatch`.
`requests` are submissions on the wire; the QTSP may accept one after the
client's timeout, or never get it. `accepted` are its messages, a message id is
a place in it. Both `UPDATE`s may fail, executed or not. `participants`, the
entities that ever were participants, guides no action.

### Startup and Access

`replica[r]` is how far the process of a replica is, with the number of its next
seeding statement. `schema` stands for the version table of the migration
library and for what is in the database: `empty`, `old` (the tables of 000001 are
there, files after it are missing), `dirty`, `current`. A process that ends in
the middle of a migration leaves it dirty, unless it ended between two files.

The database starts empty, and PostgreSQL refuses the first file: two of its
`UNIQUE` constraints hold an expression (`000001_init_rbac.up.sql:19` and `:38`),
which only a unique index takes. So the first replica to start marks version 1
dirty and dies (`MigrationRefused`), and so does every later one at the dirty
version, although nothing has failed: the run `fresh_start` shows it. Everything
that comes after rests on `Repair`, an operator who applies the tables in a form
PostgreSQL takes and forces the version. It has no fairness, as no document
mentions it. The form must keep the name of the constraint (`UNIQUE NULLS NOT
DISTINCT`, say, and not a unique index), as `AssignRole` cites it in
`ON CONFLICT ON CONSTRAINT uq_user_roles_scoped`.

`AddGrant` and `RemoveGrant` are administrators who edit `role_permissions`;
`added` and `removed` remember them. A restart brings back grants that they took
away, once and for all statements of the seeder.

`userRole[k]` is the row of `user_roles` with user, role and scope `k`.
`AssignRole` writes one row and is one step. `RevokeRole` is an `UPDATE` over all
rows of a user and a role under READ COMMITTED, two steps: `RevokeBegins` finds
the rows that are committed, `RevokeRole` is the commit that turns them, as they
are then, inactive. In between an assignment may be committed to a row the
statement has found, and is revoked with it, or insert a row it has not found,
which stays. One `RevokeRole` at a time is under way for a user and a role (a
bound). `assigned`, `during` and `until` remember what administrators asked for
and guide no action. `Require` only reads: whether a request passes is a
condition of the state, `HasPermission`.

The code disagrees with its comments here. `service.go:23` says that roles are
checked "optionally scoped by institution and compartiment", `:81` that a role is
granted "with optional institution/compartiment scoping", and the plan
`2026-04-03-egudoc-foundation.md:487` calls `compartiment_id` "further scoping to
a compartiment". The query does not look at `compartiment_id`, and `Require` does
not ask for one: an assignment scoped to a compartiment counts in the whole
institution. The model does what the code does (one of the keys of the instance
has a compartiment), and no property of it claims that compartiments limit
anything. One query shows the disagreement, so it has no run. `condition` of a
permission is not looked at either.

### SipPackage and Packaging

A file is a record of what it holds, its SHA-256 and its size are that record,
marked. `BuildSIP` lists the entries of the ZIP in their order.
`ManifestMatches` and `HistoryIsTold` say what a package is to be without
reference to how it is built. In `Packaging` a content is a number of chunks.
`put[u]` holds the two goroutines of `PutDocument`: the copier, which reads,
sums and writes to the pipe, and the caller in `PutObject`; `TakeSum` may meet
the copier in the middle of a write to the hasher (the sum of nothing, `-1`).
The pipeline reads the first attachment, then the events, then the object, in
steps of their own, while events are logged and objects deleted. The PREMIS event
"creation" is dated when the package is built, after the workflow events it
precedes in the list: `HistoryIsTold` leaves its time open.

## 3. What the runs show

Bounds are CONSTANTS of the modules; every one is named in its module.

| run | bounds | result |
|---|---|---|
| `workflow` | 1 document, 2 callers, 8 requests (all actions and one that must be refused), clock 0..1, no call starts after 4 events | `TypeOK`, `HistoryIsOneWalk`, `FieldsFitStatus`, `RowMatchesHistory`, `RetryNotAppliedTwice`, `LockIsRespected`, `EveryCallReturns`, `ImplementsDocumentWorkflow` hold |
| `audit_trail` | 4 requests, 3 events | violated: a call that begins first and commits second is listed first, since `created_at` is the start of the transaction |
| `reassign` | 4 requests, 5 events | violated: a rejected document is `IN_LUCRU` without a user and `ASSIGN_USER` is not allowed there, though `engine.go:118` says the registrar will reassign |
| `registry` | 2 registries with one prefix, 2 callers, clock 3..5 (New Year of year 2 is 4), counters up to 3, lag 1 | `TypeOK`, `SeriesAreGapless`, `SeriesMatchesYear`, `ImplementsNumberSeries`, `EveryNumberCallEnds` hold |
| `displayed_number` | 1 registry, clock 1..3 | violated: numbers repeat in the next year, as the year is not in them |
| `archive` | 2 replicas, 2 documents, one candidate per cycle, 1 fault, delay 0, clock 0..1, one action by users before a document is final (no bound after) | `TypeOK`, `PackagesAreFinal`, `SentOncePerReplica`, `PendingIsInPipeline`, `ImplementsArchiveRecord`, `ArchivedIsFinal`, `DueIsTakenUp`, `CancelledStops` hold |
| `arhivat` | 1 replica, 1 document, no faults | violated: nothing sets the status `ARHIVAT` |
| `jwks` | 1 key, 2 requests, ttl 2, timeout 1, skew 1, clock 0..4 | `TypeOK`, `WithdrawnKeysExpire`, `PublishedKeysWork`, `StoresAreSpaced`, `EveryTokenIsAnswered` hold |
| `delivery` | 2 entities whose order by name is not that of their creation, 1 client with pages of one row, 1 document, 2 callers with one decision each | `TypeOK`, `SubmittedMeansSent`, `OneMessagePerDecision`, `WalkMissesNobody`, `EveryDeliveryEnds` hold |
| `access` | 2 replicas, 1 fault, the roles `superadmin` and `archiver` with the permissions about reports, one pair that administrators edit, 1 user with a global assignment and one in an institution and a compartiment, clock 0..1 | `TypeOK`, `SeedIsExact`, `RevokedIsRefused`, `ReplicasServe` hold |
| `fresh_start` | as `access` | violated: PostgreSQL refuses the first migration, every start leaves or finds a dirty version, and nobody need repair it |
| `packaging` | 2 uploads (one may have been recorded before), up to 2 chunks, 1 pipeline, up to 2 events, clock 0..1 | `TypeOK`, `StoredIsWhole`, `PackageIsFaithful`, `CopierEnds` hold |

The runs take between a second and a few minutes; the largest, `access` and
`archive`, have about 340,000 and 290,000 states. Deadlock is not checked where
the system may really stop: clocks are bounded, calls are made a bounded number
of times and end.

Why these bounds are enough to meet the interesting cases. Documents (and
registries, apart from the shared key) do not interact, so one or two of them
suffice; the conflicts of callers are between two. Four events reach every
status, including a rejection and a finished second round being refused; all
walks of any length are covered by the proof. Two instants of workflow time give
a lock that is set, holds and expires. The years of `registry` contain a reset
that is due from the start, one that comes due during the run, a collision of
two registries on one key and a counter at its limit. In `jwks` the window
(ttl + timeout = 3) is shorter than the time covered, and a key that is withdrawn
while a fetch is under way is served up to the last instant the property allows.
A page of one row and a second entity that sorts first make a row move to a later
page during a walk; with the default page size of the instance an invalid limit
is replaced too. Two callers decide on one document before either submits.
`access` has a promise that binds (`archiver` may read reports), one that must
not be made (exporting them), and a role that gets everything; one fault kills a
replica anywhere in migration, seeding or the race for the bucket. Two chunks let
the copier be ahead of `PutObject`, and a declared size be too small, exact or
too large; two events of one instant or of two come in every order.
In `archive` a list of one document makes a second document wait for the next
cycle and for the failure of the first, and lets two replicas hold the same one;
the one fault cancels or kills one of them anywhere, or fails any statement. That
a list is longer, and the second document in it is taken up much later, is
covered by the proofs, which hold for every `Limit`, as are documents with longer
histories and more faults.

What some properties mean for the code:

- `RowMatchesHistory` says that a row can be rebuilt from its events. Together
  with `HistoryIsOneWalk` and the refinement it is what "logs the event
  atomically" promises. It needs the row lock: without `FOR UPDATE`, and below
  RepeatableRead, two calls overwrite each other.
- `RetryNotAppliedTwice` is a property of the table: no action leads to a status
  that accepts the same action. A new row such as IN_LUCRU to IN_LUCRU would
  make retries count twice.
- `SentOncePerReplica` is what the mark `PENDING` achieves. With two replicas
  there can be two packages of a document, one reference, and an `ARCHIVED`
  document can become `FAILED` by the other replica's failure: that is why
  `ArchivedIsFinal` speaks of documents that every replica has let go of, and
  says that none lists or touches them again.
- `DueIsTakenUp` also says that each replica lists again and again, so that no
  error of a query leaves a process alive whose worker has ended.
- `PendingIsInPipeline` holds only as long as nothing is killed or cancelled:
  after a crash a document stays `PENDING` for ever, as no query looks for it.
- `SubmittedMeansSent` is about `SUBMITTED` and about a `Dispatch` that returned
  no error. `FAILED` means nothing about the message: it may have been accepted
  after the timeout, or an earlier one may be in the row, since a second
  `Dispatch` overwrites the status and keeps the id.
- `WalkMissesNobody` needs that nothing is deactivated during a walk, which no
  code does, and a name of one's own: ties may change places between pages.
- `SeedIsExact` is one-sided about removed grants: a restart restores them, and
  nothing in the repository says which of the two the seeder should do.
- `RevokedIsRefused` says on what grounds a request may pass: an assignment whose
  own last expiry is yet to come, made since the last revocation of its role
  began, in a scope that covers the request, and a grant the role has from its
  row or from an administrator. Revoked rows are revived by `ON CONFLICT DO
  UPDATE`, and a revocation reaches those that were revived while it ran. It does
  not say which of several assignments that overlap with a revocation survive:
  those in scopes that had no row when the `UPDATE` looked do, the others do not,
  and this may be an order in which no one saw them made.
- `StartupMigrates` is what a fresh deployment is said to do, and does not.
- `ReplicasServe` is about the time after that, once the tables of 000001 are
  there, by hand. The only end other than all replicas serving is a dirty
  version, which needs a process that was killed, or a statement that failed, in
  a migration.
- `StoredIsWhole` holds because `Sum` is taken after `PutObject` has seen the end
  of the pipe, or the last byte of a size that was declared truly. With a size
  that is too small the object is a prefix and the sum is of something else.
- `CopierEnds` is about uploads that succeed. When `PutObject` fails, nobody
  closes the reading end, and the copier stays blocked in its write.

## 4. Fairness

- Workflow and registry: weak fairness of a call's next statement (the goroutine
  runs, the server answers), strong fairness of the statements that wait for
  another transaction (PostgreSQL queues the waiters of a row). `Begin`, `Abort`,
  the clock and the other writers have none.
- Archive: weak fairness of each goroutine's next step, of the ticker and of the
  restart of a dead process (the deployment's `Start`; one of the three is what a
  replica waits for, so one condition covers them), strong fairness of `Stop`
  because a Go `select` with two ready cases chooses at random. Users,
  the archive service and the clock have none: a call may always time out. Faults are finite in
  number, so a property about the long run is about a time without new faults.
- Key cache: weak fairness of the running steps, strong fairness of the two lock
  acquisitions that can be overtaken: `sync.Mutex` hands over to a starving
  waiter, and a waiting `Lock` of `sync.RWMutex` keeps new readers out.
- Delivery: weak fairness of the next step of each `Dispatch`: the goroutine runs,
  queries are answered, the HTTP client has a timeout of 30 s. The QTSP, the
  network, the clients of the lists and `ShouldDeliver` have none.
- Access: weak fairness of each replica's next step: a process goes on, and the
  deployment starts one that has ended. Administrators and the operator's `Repair`
  have none; faults are finite in number.
- Packaging: weak fairness of the copier and of the caller of each upload. A
  failure of the store is only fair once `PutObject` cannot succeed any more
  (the pipe is broken, or the content shorter than declared).

## 5. What is proved

Eight modules are checked by TLAPS for every value of the constants that
satisfies the `ASSUME`s of the modules. These say that sets have the shapes
their columns have, that `Null` is none of their members, that the initial
registry rows obey the unique key, that documents and entities are finitely many
(the worker lists and `List` counts them), that replicas
are finitely many (the deployment runs at most ten), that the ttl of the key cache is
positive, and that the seeder looks at one grant at least.

- `WorkflowProofs`: `TypeCorrect`, `HistoryCorrect`, `FieldsCorrect`,
  `RetryCorrect`, `LockRespected` (an action property), `RebuiltCorrect` and
  `Refinement` (`Spec => Abstract!Spec`).
- `RegistryProofs`: `TypeCorrect`, `SeriesCorrect`, `UniquenessCorrect`,
  `CalendarCorrect`, `KeysCorrect` and `Refinement`
  (`Spec => NumberSeries!Spec`).
- `ArchiveProofs`: `TypeCorrect`, `PackagesCorrect`, `ArchivedCorrect`,
  `SentOnceCorrect`, `PendingCorrect`, `ArchivedFinalCorrect` (an action
  property), `FewCorrect` and `Refinement` (`Spec => ArchiveRecord!Spec`).
- `JwksProofs`: `TypeCorrect`, `WithdrawnCorrect`, `PublishedCorrect`,
  `SpacedCorrect` (an action property).
- `DeliveryProofs`: `TypeCorrect`, `SubmittedCorrect`, `SingleCorrect`,
  `WalkCorrect`.
- `AccessProofs`: `TypeCorrect`, `SeedCorrect`, `RevokedCorrect`.
- `SipProofs`: `ManifestIsTrue` and `HistoryIsTrue`, about `BuildSIP` as an
  operator, for any lists of attachments and events.
- `PackagingProofs`: `TypeCorrect`, `StoredCorrect`, `FaithfulCorrect`.

None of the invariants of `WorkflowEngine` and `RegistryNumber` is inductive by
itself, because what `Commit` publishes was computed several steps earlier. The
strengthening says what an open transaction knows: a caller that has passed the
`SELECT` holds the row lock, and the row it read is still the committed one; its
`write` is the `UpdatedRow` (or `Taken(Current(...))`) of that row, its `event`
is the `EventOf` of both. A call that has not got the lock yet knows nothing,
and so needs nothing. From this a commit is
a transition from the row that is committed at that moment, which gives the
walk, the fit of columns and status, the row rebuilt from its events, the
gapless series and, step by step, the refinement mapping. `LockRespected` uses in
addition that the row is not written while its lock is held. Uniqueness of the
numbers follows from the gapless series: later entries are larger in (year,
number). `CalendarCorrect` needs one more fact (`YearInv`): once a registry has
reset, `data_reset` is the New Year after `an`, because the reset moves both at
once; a call that does not reset then has a clock that has not passed it.

The refinement of `NumberSeries` needs what the gapless series do not: that the
key a call has written is nobody else's, committed or written beside it
(`WrittenKeys`), which the unique index arranges when it makes the second
`UPDATE` wait, and from which two committed rows never have one key
(`KeysCorrect`); and that the row a call works on is still active (`Sound`),
because whoever deactivates it makes the waiting snapshots stale and has to wait
for the lock otherwise. Then a commit finds its registry open, its number next
and its key free (`CommitFinds`), which is `Take`. `NumbersUnique` has no
run of its own: it is proved from the gapless series.

The archive's invariant says what a replica knows of documents it does not look
at again: everything in its queue is final, occurs there once, is not in its
pipeline and was never sent by it (`QueueOf`); what it has in hand is final,
marked, and unsent up to `Ingest`, with all its events from the fetch on
(`PipelineOf`); and a document without a mark was sent by nobody. The last part
is what makes a new list new: it is kept because the mark `PENDING` precedes the
call and no statement ever resets a document to `NOT_ARCHIVED`. That users
cannot invalidate what a replica knows comes from the transition table: no
action leaves `FINALIZAT`. `PendingCorrect` adds that a context is cancelled only
by a fault (`DoneAfterFault`); without one, every statement succeeds, and every
way out of `ArchiveDocument` overwrites `PENDING`.
The refinement of `ArchiveRecord` needs no more: the head of a queue is final
(`Mark`), what is on the wire was sent by a replica that had marked it, has not
reached the archive before and holds all events (`Keep`), what is in hand is
marked (`Fail`), and an answer names a stored package (`Record`).
`ArchivedMeansStored` is proved too, and has no run of its own, as the
refinement implies it.
`FewCorrect` counts: the packages of a document come from different replicas, so
there are at most as many as replicas. `ArchivedFinalCorrect` needs no more than
the invariant: a replica writes only into rows of documents it has (`RowsAfter`),
what it has after a step it had before or has just listed (`HasAfter`), and what
it lists is not archived (`HasTheListed`).

The invariant of the key cache: `fetchMu` is held by the one caller that looks
again or fetches (`LockIsHeld`), its request is within the timeout and found the
cache expired (`FetchesAreTimely`), and every key set, on its way or cached, is
the provider's at some time at most a timeout before it was stored (`IsKeySetOf`,
`CacheIsKeySet`). Both staleness properties compare this time with the times of
publication and withdrawal.

Delivery: one decision makes one request, on the wire or accepted
(`RequestsAreSingle`), to an entity that was a participant, and what a caller is
about to record is a message of its document. Walks: whoever was there when a
client started and has not been shown to it yet stands at or after the offset of
its next page (`WalkOK`). The step that turns a page uses that a page holds
exactly the rows of its positions, whatever the order among equal names
(`PageIsComplete`), and that a creation only moves rows to later positions.

Access: a replica finds the effects of the statements it has passed
(`Progress`), up to what administrators have removed since, and the tables hold
nothing but the lists of the seeder and what administrators added
(`TablesAreDefault`). For `RevokedCorrect` each active row is an assignment no
revocation has reached (`RowIsAssigned`), with the expiry it was last given. That
is inductive only with what a revocation under way knows: a row it has not found
was made after it began, so that the commit may forget every older assignment
of the user and role.

Packaging: the hasher is at most the chunk in the pipe ahead of the store, and
the pipe is closed only at the end of the content (`PutOK`). What a pipeline has
in hand (`BuildOK`) is told by what it has read: events in order and of the
past, an attachment whose upload is recorded, the content that was stored under
its key, and in the end the package that `BuildSIP` makes of these. It stays
true while uploads, logging and deletions go on because a recorded upload does
not change any more, whatever its copier still does (`RecordedStays`), and time
does not go back. `FaithfulCorrect` follows from it with the two theorems about
`BuildSIP`. These are equivalences. The manifest is true exactly if data files
of one name are one file: `BuildSIP` writes attachments of the same name to the
same path without a look. The history is told right exactly if no other content
is stored under the name of the document, and the events are in order and not later than the
ingestion. The pipeline gives `BuildSIP` no attachments and sorted events, so
both hold of what it builds. No induction over the list of attachments is needed,
as the entries of a package are known by their place.

## 6. Only model-checked

- Liveness (`EveryCallReturns`, `EveryNumberCallEnds`, `DueIsTakenUp`,
  `CancelledStops`, `EveryTokenIsAnswered`, `EveryDeliveryEnds`, `ReplicasServe`,
  `CopierEnds`): the prover has no rules for fairness.
- The violations of `audit_trail`, `reassign`, `displayed_number`, `arhivat` and
  `fresh_start` are counterexamples; there is nothing to prove.

## 7. Not modelled

- The front end. What can go wrong there (answers of two list requests in the
  other order, the guard before the session is restored) depends on when RxJS,
  the table component and the OIDC library call back, none of which is in the
  repository. The places are listed as hazards without properties.
- `TriggerImmediate` (`worker.go:107`). Nothing calls it. It runs the pipeline
  for a document of any status: called before the document is final it would
  pack part of the history, and the mark `ARCHIVED` would keep the worker from
  packing the rest. Its model belongs to its first caller.
- What happens after a number is taken (`number.go:63`): the insertion of the
  document is not in the repository. A crash in between leaves a gap in the
  documents, not in the numbers.
- Operations that only read: `GetByID`, `GetBySubject`, `GetUserRoles`,
  `GetRoleByCode` (which scans a nullable description into a string, so a role
  without one cannot be read), `GetMessage`, `GetEvidence`, `PresignedURL`.
- `RequireRole` and the header parsing of `RequireAuth`: tests of a value of
  their own request.
- Routes, middleware stack and graceful shutdown of `main.go`; configuration
  from the environment; the health check.
- `approval_chains` and the like: tables without code. The types of
  `registratura/model.go` have no operations.
- The wording of METS, PREMIS and Dublin Core, the multipart request to
  Gotenberg, the bytes of the ZIP.
- `GetOrCreate` of users: one upsert on the subject, whose atomicity and unique
  keys are PostgreSQL's. A login whose email stands in the row of another subject
  is refused by `UNIQUE(email)`, and the code returns the error.
- PostgreSQL beyond row locks, snapshots and unique keys; what an operator does to
  repair a schema, beyond the version he leaves.
