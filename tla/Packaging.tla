------------------------------- MODULE Packaging -------------------------------
(***************************************************************************)
(* From an upload to the package: PutDocument (internal/storage/minio.go)  *)
(* stores a file and sums it while it passes through a pipe, and the       *)
(* archive pipeline fetches the first file of a document, has it converted *)
(* to PDF/A (internal/pdf) and builds the package (SipPackage).            *)
(*                                                                         *)
(* Content is a sequence of chunks; what was stored or summed of it is a   *)
(* number of chunks from its start.  One document; ArchiveWorker models    *)
(* how several are taken up and what is recorded of them.                  *)
(***************************************************************************)
EXTENDS SipPackage, FiniteSets

CONSTANTS
  Uploads,        \* calls of PutDocument; the key of an upload is its own
  Earlier,        \* those that were stored and recorded before
  Builders,       \* runs of the pipeline
  Names,          \* file names, [base, ext]
  Actions,        \* actions of the workflow
  MaxChunks,      \* bound: length of a content
  MaxEvents,      \* bound: events of the workflow
  MaxClock,       \* bound: time stops here
  Null            \* nothing

ASSUME BoundsAssumption ==
  /\ MaxChunks \in Nat /\ MaxEvents \in Nat /\ MaxClock \in Nat
  /\ Null \notin Int /\ Null \notin Uploads
  /\ Earlier \subseteq Uploads

VARIABLES
  clock,          \* time
  put,            \* put[u]: the goroutines and the pipe of upload u
  object,         \* object[u]: chunks stored under the key of u, or Null
  attachments,    \* rows of atasamente by created_at: keys and names
  events,         \* rows of workflow_events: [action, at]
  build           \* build[b]: where pipeline b is, and what it has read

store == <<put, object, attachments>>
vars == <<clock, put, object, attachments, events, build>>

\* Size -1 means unknown.
Puts ==
  [pc       : {"idle", "put", "sum", "done", "failed", "recorded"},
   copier   : {"none", "read", "write", "ended"},
   length   : 0..MaxChunks,       \* chunks of the content
   declared : -1..MaxChunks,      \* size
   hashed   : 0..MaxChunks,       \* chunks the hasher has seen
   piped    : 0..MaxChunks,       \* chunks PutObject has read
   pipe     : {"open", "closed", "broken"},
   sum      : (-1..MaxChunks) \cup {Null}]    \* PutResult.SHA256; -1 is of nothing

NoPut == [pc |-> "idle", copier |-> "none", length |-> 0, declared |-> 0, hashed |-> 0,
          piped |-> 0, pipe |-> "open", sum |-> Null]

Finished == [pc |-> "recorded", copier |-> "ended", length |-> MaxChunks, declared |-> -1,
             hashed |-> MaxChunks, piped |-> MaxChunks, pipe |-> "closed",
             sum |-> MaxChunks]

Attachments == [key : Uploads, name : Names]
Events == [action : Actions, at : 0..MaxClock]

NoBuild == [pc |-> "idle", first |-> Null, events |-> << >>, content |-> Null,
            at |-> 0, package |-> Null]

Init ==
  /\ clock = 0
  /\ put = [u \in Uploads |-> IF u \in Earlier THEN Finished ELSE NoPut]
  /\ object = [u \in Uploads |-> IF u \in Earlier THEN MaxChunks ELSE Null]
  /\ attachments \in {<< >>} \cup {<<[key |-> u, name |-> n]>> : u \in Earlier, n \in Names}
  /\ events = << >>
  /\ build = [b \in Builders |-> NoBuild]

-----------------------------------------------------------------------------
(* PutDocument: the copier's goroutine and the caller's.                   *)

Begin(u, length, declared) ==
  /\ put[u].pc = "idle"
  /\ put' = [put EXCEPT ![u] = [NoPut EXCEPT !.pc = "put", !.copier = "read",
                                             !.length = length, !.declared = declared]]
  /\ UNCHANGED <<clock, object, attachments, events, build>>

\* Mutant: the end of the content is not noticed.
MutantReadOn(u) ==
  /\ put[u].copier = "read"
  /\ put' = [put EXCEPT ![u] = [put[u] EXCEPT !.copier = "write",
                                              !.hashed = put[u].hashed + 1]]
  /\ UNCHANGED <<clock, object, attachments, events, build>>

\* io.Copy reads a chunk; the TeeReader sums it before it is written.
CopierReads(u) ==
  /\ put[u].copier = "read" /\ put[u].hashed < put[u].length
  /\ put' = [put EXCEPT ![u] = [put[u] EXCEPT !.copier = "write",
                                              !.hashed = put[u].hashed + 1]]
  /\ UNCHANGED <<clock, object, attachments, events, build>>

\* Mutant: a read error closes the pipe as if the content had ended.
MutantCloseOnError(u) ==
  /\ put[u].copier = "read"
  /\ put' = [put EXCEPT ![u] = [put[u] EXCEPT !.copier = "ended", !.pipe = "closed"]]
  /\ UNCHANGED <<clock, object, attachments, events, build>>

\* The content cannot be read: pw.CloseWithError.
CopierFails(u) ==
  /\ put[u].copier = "read"
  /\ put' = [put EXCEPT ![u] = [put[u] EXCEPT !.copier = "ended", !.pipe = "broken"]]
  /\ UNCHANGED <<clock, object, attachments, events, build>>

\* Mutant: the pipe is never closed.
MutantNoClose(u) ==
  /\ put[u].copier = "read" /\ put[u].hashed = put[u].length
  /\ put' = [put EXCEPT ![u] = [put[u] EXCEPT !.copier = "ended"]]
  /\ UNCHANGED <<clock, object, attachments, events, build>>

\* The content ends: pw.Close.
CopierCloses(u) ==
  /\ put[u].copier = "read" /\ put[u].hashed = put[u].length
  /\ put' = [put EXCEPT ![u] = [put[u] EXCEPT !.copier = "ended", !.pipe = "closed"]]
  /\ UNCHANGED <<clock, object, attachments, events, build>>

\* PutObject reads what the copier holds, no more than the declared size.
PutReads(u) ==
  /\ put[u].pc = "put" /\ put[u].copier = "write"
  /\ put[u].declared = -1 \/ put[u].piped < put[u].declared
  /\ put' = [put EXCEPT ![u] = [put[u] EXCEPT !.copier = "read",
                                              !.piped = put[u].piped + 1]]
  /\ UNCHANGED <<clock, object, attachments, events, build>>

\* It has the declared size, or the end of a content of unknown size.
PutEnds(u) ==
  /\ put[u].pc = "put"
  /\ \/ put[u].declared = put[u].piped
     \/ put[u].declared = -1 /\ put[u].pipe = "closed"
  /\ object' = [object EXCEPT ![u] = put[u].piped]
  /\ put' = [put EXCEPT ![u] = [put[u] EXCEPT !.pc = "sum"]]
  /\ UNCHANGED <<clock, attachments, events, build>>

\* The request fails, or the content is broken or too short: nobody reads the
\* pipe any more, and nobody closes its reading end.
PutFails(u) ==
  /\ put[u].pc = "put"
  /\ put' = [put EXCEPT ![u] = [put[u] EXCEPT !.pc = "failed"]]
  /\ UNCHANGED <<clock, object, attachments, events, build>>

\* hasher.Sum; the copier may be writing to the hasher at that moment.
TakeSum(u) ==
  /\ put[u].pc = "sum"
  /\ \E sum \in {put[u].hashed} \cup
        (IF put[u].copier = "read" /\ put[u].hashed < put[u].length THEN {-1} ELSE {}) :
       put' = [put EXCEPT ![u] = [put[u] EXCEPT !.pc = "done", !.sum = sum]]
  /\ UNCHANGED <<clock, object, attachments, events, build>>

\* External: the caller inserts the row of the attachment.
RecordAttachment(u, name) ==
  /\ put[u].pc = "done"
  /\ put' = [put EXCEPT ![u] = [put[u] EXCEPT !.pc = "recorded"]]
  /\ attachments' = Append(attachments, [key |-> u, name |-> name])
  /\ UNCHANGED <<clock, object, events, build>>

\* External: somebody calls DeleteDocument.
DeleteDocument(u) ==
  /\ put[u].pc \in {"done", "recorded"} /\ object[u] # Null
  /\ object' = [object EXCEPT ![u] = Null]
  /\ UNCHANGED <<clock, put, attachments, events, build>>

-----------------------------------------------------------------------------
(* The pipeline, from the fetch to the package.                            *)

Advance(b, new) == build' = [build EXCEPT ![b] = new]

\* The first query: the row and its first attachment, if there is one.
FetchDocument(b) ==
  /\ build[b].pc = "idle"
  /\ Advance(b, [build[b] EXCEPT !.pc = "events",
       !.first = IF attachments = << >> THEN Null ELSE attachments[1]])
  /\ UNCHANGED <<clock, store, events>>

\* ORDER BY created_at: rows of one time come in any order.
Orders(t) ==
  {f \in [1..Len(t) -> 1..Len(t)] :
     /\ \A i, j \in 1..Len(t) : f[i] = f[j] => i = j
     /\ \A i \in 1..(Len(t) - 1) : t[f[i]].at <= t[f[i + 1]].at}

\* Mutant: no ORDER BY.
MutantFetchUnsorted(b) ==
  /\ build[b].pc = "events"
  /\ Advance(b, [build[b] EXCEPT !.pc = "content", !.events = events])
  /\ UNCHANGED <<clock, store, events>>

\* The second query.
FetchEvents(b) ==
  /\ build[b].pc = "events"
  /\ \E f \in Orders(events) :
       Advance(b, [build[b] EXCEPT !.pc = "content",
                     !.events = [i \in 1..Len(events) |-> events[f[i]]]])
  /\ UNCHANGED <<clock, store, events>>

\* GetDocument and ConvertToPDFA. Chromium converts .html and .htm,
\* LibreOffice the rest.
Endpoint(name) ==
  IF name.ext \in {".html", ".htm"} THEN "chromium" ELSE "libreoffice"

ConvertToPDFA(b) ==
  /\ build[b].pc = "content" /\ build[b].first # Null
  /\ object[build[b].first.key] # Null
  /\ Advance(b, [build[b] EXCEPT !.pc = "build", !.content =
       [kind |-> "pdfa", by |-> Endpoint(build[b].first.name),
        of |-> build[b].first.key, chunks |-> object[build[b].first.key]]])
  /\ UNCHANGED <<clock, store, events>>

\* A document without an attachment becomes a page of its own.
ConvertHTMLToPDFA(b) ==
  /\ build[b].pc = "content" /\ build[b].first = Null
  /\ Advance(b, [build[b] EXCEPT !.pc = "build", !.content =
       [kind |-> "pdfa", by |-> "chromium", of |-> Null, chunks |-> 0]])
  /\ UNCHANGED <<clock, store, events>>

\* The queries, the store (a missing object) or Gotenberg fail.
PipelineFails(b) ==
  /\ build[b].pc \in {"events", "content"}
  /\ Advance(b, NoBuild)
  /\ UNCHANGED <<clock, store, events>>

InputOf(b) ==
  [id |-> "document",
   name |-> IF build[b].first = Null THEN [base |-> "document", ext |-> ".pdf"]
                                     ELSE ReplaceExt(build[b].first.name, ".pdf"),
   meta |-> [number |-> "number", assigned |-> "", date |-> "zero"],
   content |-> build[b].content, events |-> build[b].events, attachments |-> << >>]

\* createdAt is taken first, the time of the ingestion event later.
StartSIP(b) ==
  /\ build[b].pc = "build"
  /\ Advance(b, [build[b] EXCEPT !.pc = "sip", !.at = clock])
  /\ UNCHANGED <<clock, store, events>>

FinishSIP(b) ==
  /\ build[b].pc = "sip"
  /\ Advance(b, [build[b] EXCEPT !.pc = "built",
                                 !.package = BuildSIP(InputOf(b), build[b].at, clock)])
  /\ UNCHANGED <<clock, store, events>>

-----------------------------------------------------------------------------

\* An action of the workflow: created_at is the start of its transaction, and
\* another one that started later may have committed before.
LogEvent(action, at) ==
  /\ Len(events) < MaxEvents
  /\ events' = Append(events, [action |-> action, at |-> at])
  /\ UNCHANGED <<clock, store, build>>

Tick ==
  /\ clock < MaxClock
  /\ clock' = clock + 1
  /\ UNCHANGED <<store, events, build>>

Copier(u) == CopierReads(u) \/ CopierFails(u) \/ CopierCloses(u)

\* PutObject cannot succeed any more.
MustFail(u) ==
  \/ put[u].pipe = "broken"
  \/ put[u].pipe = "closed" /\ put[u].piped < put[u].declared

Caller(u) ==
  PutReads(u) \/ PutEnds(u) \/ TakeSum(u) \/ (MustFail(u) /\ PutFails(u))

Next ==
  \/ \E u \in Uploads :
       \/ \E length \in 0..MaxChunks, declared \in -1..MaxChunks : Begin(u, length, declared)
       \/ Copier(u) \/ PutReads(u) \/ PutEnds(u) \/ PutFails(u) \/ TakeSum(u)
       \/ DeleteDocument(u)
       \/ \E name \in Names : RecordAttachment(u, name)
  \/ \E b \in Builders :
       \/ FetchDocument(b) \/ FetchEvents(b) \/ ConvertToPDFA(b) \/ ConvertHTMLToPDFA(b)
       \/ PipelineFails(b) \/ StartSIP(b) \/ FinishSIP(b)
  \/ \E action \in Actions, at \in 0..clock : LogEvent(action, at)
  \/ Tick

\* Both goroutines go on; the store need not fail and the content need not.
Fairness == \A u \in Uploads : WF_vars(Copier(u)) /\ WF_vars(Caller(u))

Spec == Init /\ [][Next]_vars /\ Fairness

-----------------------------------------------------------------------------
(* Properties.                                                             *)

TypeOK ==
  /\ clock \in 0..MaxClock
  /\ put \in [Uploads -> Puts]
  /\ object \in [Uploads -> (0..MaxChunks) \cup {Null}]
  /\ attachments \in Seq(Attachments)
  /\ events \in Seq(Events)
  /\ \A b \in Builders :
       /\ build[b].pc \in {"idle", "events", "content", "build", "sip", "built"}
       /\ build[b].first \in Attachments \cup {Null}
       /\ build[b].events \in Seq(Events) /\ build[b].at \in 0..MaxClock

\* The size is the length of the content, or is not declared.
Truthful(u) == put[u].declared \in {-1, put[u].length}

\* PutDocument returns only for a file that is stored whole, and with the sum
\* of what is stored, though the copier sums ahead of what PutObject reads:
\* provided the caller declares the true size or none. (With a size that is too
\* small a prefix is stored under another sum.)
StoredIsWhole ==
  \A u \in Uploads : put[u].pc \in {"done", "recorded"} /\ Truthful(u) =>
    /\ put[u].sum = put[u].length
    /\ object[u] \in {put[u].length, Null}

\* A package holds the whole file that was its document's first when it was
\* fetched, or the page made of its row, and its manifest and its history
\* are true of it.
PackageIsFaithful ==
  \A b \in Builders : build[b].pc = "built" =>
    /\ build[b].first # Null /\ Truthful(build[b].first.key) =>
         build[b].content.chunks = put[build[b].first.key].length
    /\ FileAt(build[b].package, DataPath(InputOf(b).name)) = {build[b].content}
    /\ ManifestMatches(build[b].package)
    /\ HistoryIsTold(build[b].package, InputOf(b))

\* An upload that succeeds leaves no goroutine behind, and PutDocument always
\* returns. (One that fails may leave the copier blocked for ever.)
CopierEnds ==
  \A u \in Uploads :
    /\ put[u].pc = "put" ~> put[u].pc \in {"failed", "done", "recorded"}
    /\ put[u].pc = "done" /\ Truthful(u) ~> put[u].copier = "ended"
=============================================================================
