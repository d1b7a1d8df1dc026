---------------------------- MODULE PackagingProofs ----------------------------
(***************************************************************************)
(* Theorems about Packaging, for any number of uploads and pipelines and   *)
(* any length of a content: what is stored is whole, and what is built is  *)
(* true of it.                                                             *)
(***************************************************************************)
EXTENDS Packaging, SipProofs

-----------------------------------------------------------------------------
(* The inductive invariant.                                                *)

\* An upload p whose key holds o: the hasher is at most the chunk in the pipe
\* ahead of the store, the pipe is closed only at the end of the content, and
\* PutObject ends with the declared size or with that end.
PutOK(p, o) ==
  /\ p.hashed <= p.length
  /\ p.copier = "write" => p.hashed = p.piped + 1
  /\ p.copier # "write" => p.hashed = p.piped
  /\ p.pipe = "closed" => p.copier = "ended" /\ p.hashed = p.length
  /\ p.pc \in {"sum", "done", "recorded"} =>
       /\ p.declared = -1 => p.piped = p.length
       /\ p.declared # -1 => p.piped = p.declared
       /\ o \in {p.piped, Null}
  /\ p.pc \in {"done", "recorded"} /\ p.declared \in {-1, p.length} => p.sum = p.length

PutsTypeOK ==
  /\ put \in [Uploads -> Puts]
  /\ object \in [Uploads -> (0..MaxChunks) \cup {Null}]

IInv ==
  /\ PutsTypeOK
  /\ \A u \in Uploads : PutOK(put[u], object[u])

\* One upload becomes p and its key holds o.
LEMMA PutChanges ==
  ASSUME IInv, NEW u \in Uploads, NEW p \in Puts, NEW o \in (0..MaxChunks) \cup {Null},
         PutOK(p, o), put' = [put EXCEPT ![u] = p], object' = [object EXCEPT ![u] = o]
  PROVE  IInv'
<1>1. PutsTypeOK'
  BY DEF IInv, PutsTypeOK
<1>2. \A v \in Uploads : /\ put'[v] = IF v = u THEN p ELSE put[v]
                         /\ object'[v] = IF v = u THEN o ELSE object[v]
  BY DEF IInv, PutsTypeOK
<1>3. \A v \in Uploads : PutOK(put'[v], object'[v])
  BY <1>2 DEF IInv
<1> QED BY <1>1, <1>3 DEF IInv

\* The same when the key is left alone.
LEMMA PutMoves ==
  ASSUME IInv, NEW u \in Uploads, NEW p \in Puts, PutOK(p, object[u]),
         put' = [put EXCEPT ![u] = p], UNCHANGED object
  PROVE  IInv'
<1>1. PICK o \in (0..MaxChunks) \cup {Null} : o = object[u]
  BY DEF IInv, PutsTypeOK
<1>2. object' = [object EXCEPT ![u] = o]
  BY <1>1 DEF IInv, PutsTypeOK
<1> QED BY <1>1, <1>2, PutChanges

\* What an upload is made of.
LEMMA PutFields ==
  ASSUME NEW p \in Puts
  PROVE  /\ p.length \in Nat /\ p.hashed \in Nat /\ p.piped \in Nat /\ p.declared \in Int
         /\ p.length <= MaxChunks /\ p.piped <= MaxChunks /\ p.hashed <= MaxChunks
         /\ p.declared >= -1
BY BoundsAssumption DEF Puts

LEMMA BeginKeeps ==
  ASSUME IInv, NEW u \in Uploads, NEW length \in 0..MaxChunks,
         NEW declared \in -1..MaxChunks, Begin(u, length, declared)
  PROVE  IInv'
<1>1. PICK p : p = [NoPut EXCEPT !.pc = "put", !.copier = "read", !.length = length,
                                 !.declared = declared]
  OBVIOUS
<1>2. 0 \in 0..MaxChunks
  BY BoundsAssumption
<1>3. p = [pc |-> "put", copier |-> "read", length |-> length, declared |-> declared,
           hashed |-> 0, piped |-> 0, pipe |-> "open", sum |-> Null]
  BY <1>1 DEF NoPut
<1>4. p \in Puts
  BY <1>2, <1>3, Zenon DEF Puts
<1>5. PutOK(p, object[u])
  BY <1>3 DEF PutOK
<1> QED BY <1>1, <1>4, <1>5, PutMoves DEF Begin

LEMMA CopierKeeps ==
  ASSUME IInv, NEW u \in Uploads, Copier(u)
  PROVE  IInv'
<1>1. PICK q \in Puts : q = put[u]
  BY DEF IInv, PutsTypeOK
<1>2. PutOK(q, object[u])
  BY <1>1 DEF IInv
<1>3. UNCHANGED object
  BY DEF Copier, CopierReads, CopierFails, CopierCloses
<1>4. CASE CopierReads(u)
  <2>1. PICK n \in 0..MaxChunks : n = q.hashed + 1 /\ q.hashed < q.length
    <3>1. q.hashed < q.length
      BY <1>1, <1>4 DEF CopierReads
    <3>2. q.hashed \in Nat /\ q.length \in Nat /\ q.length <= MaxChunks
      BY PutFields
    <3> QED BY <3>1, <3>2, BoundsAssumption
  <2>2. PICK p : p = [q EXCEPT !.copier = "write", !.hashed = n]
    OBVIOUS
  <2>3. p \in Puts
    BY <2>2, Zenon DEF Puts
  <2>4. /\ p.copier = "write" /\ p.hashed = n /\ p.pc = q.pc /\ p.length = q.length
        /\ p.declared = q.declared /\ p.piped = q.piped /\ p.pipe = q.pipe /\ p.sum = q.sum
    BY <2>2 DEF Puts
  <2>5. q.copier = "read"
    BY <1>1, <1>4 DEF CopierReads
  <2>6. PutOK(p, object[u])
    BY <2>1, <2>4, <2>5, <1>2, PutFields DEF PutOK
  <2>7. put' = [put EXCEPT ![u] = p]
    BY <1>1, <1>4, <2>1, <2>2 DEF CopierReads
  <2> QED BY <2>3, <2>6, <2>7, <1>3, PutMoves
<1>5. ASSUME q.copier = "read", NEW pipe \in {"closed", "broken"},
             pipe = "closed" => q.hashed = q.length,
             put' = [put EXCEPT ![u] = [q EXCEPT !.copier = "ended", !.pipe = pipe]]
      PROVE  IInv'
  <2>1. PICK p : p = [q EXCEPT !.copier = "ended", !.pipe = pipe]
    OBVIOUS
  <2>2. p \in Puts
    BY <2>1, Zenon DEF Puts
  <2>3. /\ p.copier = "ended" /\ p.pipe = pipe /\ p.pc = q.pc /\ p.length = q.length
        /\ p.declared = q.declared /\ p.piped = q.piped /\ p.hashed = q.hashed
        /\ p.sum = q.sum
    BY <2>1 DEF Puts
  <2>4. PutOK(p, object[u])
    BY <1>2, <1>5, <2>3, PutFields DEF PutOK
  <2>5. put' = [put EXCEPT ![u] = p]
    BY <1>5, <2>1
  <2> QED BY <2>2, <2>4, <2>5, <1>3, PutMoves
<1>6. CASE CopierFails(u)
  BY <1>1, <1>5, <1>6 DEF CopierFails
<1>7. CASE CopierCloses(u)
  BY <1>1, <1>5, <1>7 DEF CopierCloses
<1> QED BY <1>4, <1>6, <1>7 DEF Copier

LEMMA CallerKeeps ==
  ASSUME IInv, NEW u \in Uploads,
         PutReads(u) \/ PutEnds(u) \/ PutFails(u) \/ TakeSum(u)
  PROVE  IInv'
<1>1. PICK q \in Puts : q = put[u]
  BY DEF IInv, PutsTypeOK
<1>2. PutOK(q, object[u])
  BY <1>1 DEF IInv
<1>3. CASE PutReads(u)
  <2>1. PICK n \in 0..MaxChunks : n = q.piped + 1 /\ q.copier = "write" /\ q.pc = "put"
    BY <1>1, <1>2, <1>3, PutFields, BoundsAssumption DEF PutReads, PutOK
  <2>2. PICK p : p = [q EXCEPT !.copier = "read", !.piped = n]
    OBVIOUS
  <2>3. p \in Puts
    BY <2>2, Zenon DEF Puts
  <2>4. /\ p.copier = "read" /\ p.piped = n /\ p.pc = q.pc /\ p.length = q.length
        /\ p.declared = q.declared /\ p.hashed = q.hashed /\ p.pipe = q.pipe /\ p.sum = q.sum
    BY <2>2 DEF Puts
  <2>5. PutOK(p, object[u])
    BY <2>1, <2>4, <1>2, PutFields DEF PutOK
  <2>6. put' = [put EXCEPT ![u] = p] /\ UNCHANGED object
    BY <1>1, <1>3, <2>1, <2>2 DEF PutReads
  <2> QED BY <2>3, <2>5, <2>6, PutMoves
<1>4. CASE PutEnds(u)
  <2>1. PICK p : p = [q EXCEPT !.pc = "sum"]
    OBVIOUS
  <2>2. p \in Puts
    BY <2>1, Zenon DEF Puts
  <2>3. /\ p.pc = "sum" /\ p.copier = q.copier /\ p.piped = q.piped /\ p.length = q.length
        /\ p.declared = q.declared /\ p.hashed = q.hashed /\ p.pipe = q.pipe /\ p.sum = q.sum
    BY <2>1 DEF Puts
  <2>4. q.declared = q.piped \/ (q.declared = -1 /\ q.pipe = "closed")
    BY <1>1, <1>4 DEF PutEnds
  <2>5. /\ q.declared = -1 => q.piped = q.length
        /\ q.declared # -1 => q.piped = q.declared
    BY <2>4, <1>2, PutFields DEF PutOK
  <2>6. PICK o \in (0..MaxChunks) \cup {Null} : o = q.piped
    BY DEF Puts
  <2>7. PutOK(p, o)
    BY <2>3, <2>5, <2>6, <1>2, PutFields DEF PutOK
  <2>8. put' = [put EXCEPT ![u] = p] /\ object' = [object EXCEPT ![u] = o]
    BY <1>1, <1>4, <2>1, <2>6 DEF PutEnds
  <2> QED BY <2>2, <2>7, <2>8, PutChanges
<1>5. CASE PutFails(u)
  <2>1. PICK p : p = [q EXCEPT !.pc = "failed"]
    OBVIOUS
  <2>2. p \in Puts
    BY <2>1, Zenon DEF Puts
  <2>3. /\ p.pc = "failed" /\ p.copier = q.copier /\ p.piped = q.piped /\ p.length = q.length
        /\ p.declared = q.declared /\ p.hashed = q.hashed /\ p.pipe = q.pipe
    BY <2>1 DEF Puts
  <2>4. PutOK(p, object[u])
    BY <2>3, <1>2 DEF PutOK
  <2>5. put' = [put EXCEPT ![u] = p] /\ UNCHANGED object
    BY <1>1, <1>5, <2>1 DEF PutFails
  <2> QED BY <2>2, <2>4, <2>5, PutMoves
<1>6. CASE TakeSum(u)
  <2>1. PICK sum \in -1..MaxChunks :
          /\ sum = q.hashed \/ (q.copier = "read" /\ q.hashed < q.length /\ sum = -1)
          /\ put' = [put EXCEPT ![u] = [q EXCEPT !.pc = "done", !.sum = sum]]
    <3>1. PICK sum \in {q.hashed} \cup
            (IF q.copier = "read" /\ q.hashed < q.length THEN {-1} ELSE {}) :
            put' = [put EXCEPT ![u] = [q EXCEPT !.pc = "done", !.sum = sum]]
      BY <1>1, <1>6, Zenon DEF TakeSum
    <3>2. sum = q.hashed \/ (q.copier = "read" /\ q.hashed < q.length /\ sum = -1)
      OBVIOUS
    <3>3. sum \in -1..MaxChunks
      BY <3>2, PutFields, BoundsAssumption
    <3> QED BY <3>1, <3>2, <3>3
  <2>2. PICK p : p = [q EXCEPT !.pc = "done", !.sum = sum]
    OBVIOUS
  <2>3. p \in Puts
    BY <2>2, Zenon DEF Puts
  <2>4. /\ p.pc = "done" /\ p.copier = q.copier /\ p.piped = q.piped /\ p.length = q.length
        /\ p.declared = q.declared /\ p.hashed = q.hashed /\ p.pipe = q.pipe /\ p.sum = sum
    BY <2>2 DEF Puts
  <2>5. q.pc = "sum"
    BY <1>1, <1>6 DEF TakeSum
  <2>6. q.declared \in {-1, q.length} => q.piped = q.length
    BY <2>5, <1>2 DEF PutOK
  <2>7. q.piped = q.length => q.hashed = q.length
    BY <1>2, PutFields DEF PutOK
  <2>8. q.declared \in {-1, q.length} => sum = q.length
    BY <2>1, <2>6, <2>7, PutFields
  <2>9. PutOK(p, object[u])
    BY <2>4, <2>5, <2>8, <1>2 DEF PutOK
  <2>10. put' = [put EXCEPT ![u] = p] /\ UNCHANGED object
    BY <1>6, <2>1, <2>2 DEF TakeSum
  <2> QED BY <2>3, <2>9, <2>10, PutMoves
<1> QED BY <1>3, <1>4, <1>5, <1>6

\* Recorded, or deleted.
LEMMA AfterwardsKeeps ==
  ASSUME IInv, NEW u \in Uploads,
         DeleteDocument(u) \/ \E name \in Names : RecordAttachment(u, name)
  PROVE  IInv'
<1>1. PICK q \in Puts : q = put[u]
  BY DEF IInv, PutsTypeOK
<1>2. PutOK(q, object[u])
  BY <1>1 DEF IInv
<1>3. CASE DeleteDocument(u)
  <2>1. PutOK(q, Null)
    BY <1>2 DEF PutOK
  <2>2. object' = [object EXCEPT ![u] = Null] /\ UNCHANGED put
    BY <1>3 DEF DeleteDocument
  <2>3. put' = [put EXCEPT ![u] = q]
    BY <1>1, <2>2 DEF IInv, PutsTypeOK
  <2> QED BY <2>1, <2>2, <2>3, PutChanges
<1>4. CASE \E name \in Names : RecordAttachment(u, name)
  <2>1. PICK p : p = [q EXCEPT !.pc = "recorded"]
    OBVIOUS
  <2>2. p \in Puts
    BY <2>1, Zenon DEF Puts
  <2>3. /\ p.pc = "recorded" /\ p.copier = q.copier /\ p.piped = q.piped
        /\ p.length = q.length /\ p.declared = q.declared /\ p.hashed = q.hashed
        /\ p.pipe = q.pipe /\ p.sum = q.sum
    BY <2>1 DEF Puts
  <2>4. q.pc = "done"
    BY <1>1, <1>4 DEF RecordAttachment
  <2>5. PutOK(p, object[u])
    BY <2>3, <2>4, <1>2 DEF PutOK
  <2>6. put' = [put EXCEPT ![u] = p] /\ UNCHANGED object
    BY <1>1, <1>4, <2>1 DEF RecordAttachment
  <2> QED BY <2>2, <2>5, <2>6, PutMoves
<1> QED BY <1>3, <1>4

-----------------------------------------------------------------------------
(* The theorems.                                                           *)

LEMMA InitImpliesInvariant == Init => IInv
<1> SUFFICES ASSUME Init PROVE IInv
  OBVIOUS
<1>1. 0 \in 0..MaxChunks /\ MaxChunks \in 0..MaxChunks /\ -1 \in -1..MaxChunks
      /\ 0 \in -1..MaxChunks /\ MaxChunks \in -1..MaxChunks
  BY BoundsAssumption
<1>2. NoPut \in Puts /\ Finished \in Puts
  BY <1>1, Zenon DEF NoPut, Finished, Puts
<1>3. PutsTypeOK
  BY <1>1, <1>2 DEF Init, PutsTypeOK
<1>4. PutOK(NoPut, Null)
  BY DEF PutOK, NoPut
<1>5. PutOK(Finished, MaxChunks)
  BY BoundsAssumption DEF PutOK, Finished
<1>6. \A u \in Uploads : \/ put[u] = NoPut /\ object[u] = Null
                         \/ put[u] = Finished /\ object[u] = MaxChunks
  BY DEF Init
<1> QED BY <1>3, <1>4, <1>5, <1>6 DEF IInv

LEMMA NextKeepsInvariant == IInv /\ [Next]_vars => IInv'
<1> SUFFICES ASSUME IInv, [Next]_vars PROVE IInv'
  OBVIOUS
<1>1. CASE UNCHANGED <<put, object>>
  BY <1>1 DEF IInv, PutsTypeOK
<1>2. ASSUME NEW u \in Uploads, NEW length \in 0..MaxChunks,
             NEW declared \in -1..MaxChunks, Begin(u, length, declared)
      PROVE  IInv'
  BY <1>2, BeginKeeps
<1>3. ASSUME NEW u \in Uploads, Copier(u) PROVE IInv'
  BY <1>3, CopierKeeps
<1>4. ASSUME NEW u \in Uploads, PutReads(u) \/ PutEnds(u) \/ PutFails(u) \/ TakeSum(u)
      PROVE  IInv'
  BY <1>4, CallerKeeps
<1>5. ASSUME NEW u \in Uploads,
             DeleteDocument(u) \/ \E name \in Names : RecordAttachment(u, name)
      PROVE  IInv'
  BY <1>5, AfterwardsKeeps
<1>6. ASSUME NEW b \in Builders,
             \/ FetchDocument(b) \/ FetchEvents(b) \/ ConvertToPDFA(b)
             \/ ConvertHTMLToPDFA(b) \/ PipelineFails(b) \/ StartSIP(b) \/ FinishSIP(b)
      PROVE  UNCHANGED <<put, object>>
  BY <1>6 DEF FetchDocument, FetchEvents, ConvertToPDFA, ConvertHTMLToPDFA, PipelineFails,
              StartSIP, FinishSIP, store
<1>7. ASSUME NEW action \in Actions, NEW at \in 0..clock, LogEvent(action, at)
      PROVE  UNCHANGED <<put, object>>
  BY <1>7 DEF LogEvent, store
<1>8. CASE Tick \/ UNCHANGED vars
  BY <1>1, <1>8 DEF Tick, vars, store
<1> QED BY <1>1, <1>2, <1>3, <1>4, <1>5, <1>6, <1>7, <1>8 DEF Next

\* The invariant holds in every state: the copier is one chunk ahead of
\* PutObject at most, and closes the pipe only at the end of the content.
THEOREM InvariantCorrect == Spec => []IInv
BY InitImpliesInvariant, NextKeepsInvariant, PTL DEF Spec

\* What PutDocument has stored under a true size, or none, is the whole file,
\* under its own sum.
THEOREM StoredCorrect == Spec => []StoredIsWhole
<1>1. IInv => StoredIsWhole
  <2> SUFFICES ASSUME IInv, NEW u \in Uploads, put[u].pc \in {"done", "recorded"},
                      Truthful(u)
               PROVE  put[u].sum = put[u].length /\ object[u] \in {put[u].length, Null}
    BY DEF StoredIsWhole
  <2>1. put[u] \in Puts /\ PutOK(put[u], object[u])
    BY DEF IInv, PutsTypeOK
  <2> QED BY <2>1, PutFields DEF PutOK, Truthful
<1> QED BY <1>1, InvariantCorrect, PTL

-----------------------------------------------------------------------------
(* The pipelines: what they have read and built.                           *)

Contents ==
  [kind : {"pdfa"}, by : {"chromium", "libreoffice"}, of : Uploads \cup {Null},
   chunks : 0..MaxChunks]

\* InputOf, of what a pipeline has read.
InputFor(first, content, told) ==
  [id |-> "document",
   name |-> IF first = Null THEN [base |-> "document", ext |-> ".pdf"]
                            ELSE ReplaceExt(first.name, ".pdf"),
   meta |-> [number |-> "number", assigned |-> "", date |-> "zero"],
   content |-> content, events |-> told, attachments |-> << >>]

Packages ==
  {BuildSIP(InputFor(first, content, told), at, submitted) :
     first \in Attachments \cup {Null}, content \in Contents, told \in Seq(Events),
     at \in 0..MaxClock, submitted \in 0..MaxClock}

Builds ==
  [pc : {"idle", "events", "content", "build", "sip", "built"},
   first : Attachments \cup {Null}, events : Seq(Events), content : Contents \cup {Null},
   at : 0..MaxClock, package : Packages \cup {Null}]

Sorted(s) == \A i \in 1..(Len(s) - 1) : s[i].at <= s[i + 1].at
Until(s, time) == \A i \in 1..Len(s) : s[i].at <= time

\* A pipeline r, of uploads p at the given time: its events are in order and of
\* the past, its file is recorded and was fetched whole, and its package is what
\* BuildSIP makes of these.
BuildOK(r, p, time) ==
  /\ r.at <= time /\ Sorted(r.events) /\ Until(r.events, time)
  /\ r.first # Null => p[r.first.key].pc = "recorded"
  /\ r.pc \in {"build", "sip", "built"} =>
       /\ r.content \in Contents
       /\ r.first # Null /\ p[r.first.key].declared \in {-1, p[r.first.key].length} =>
            r.content.chunks = p[r.first.key].length
  /\ r.pc = "built" =>
       \E submitted \in 0..time :
         /\ r.at <= submitted /\ Until(r.events, submitted)
         /\ r.package = BuildSIP(InputFor(r.first, r.content, r.events), r.at, submitted)

\* Rows refer to files that are recorded, and to the past.
RowsOK ==
  /\ clock \in 0..MaxClock
  /\ attachments \in Seq(Attachments)
  /\ \A i \in 1..Len(attachments) : put[attachments[i].key].pc = "recorded"
  /\ events \in Seq(Events) /\ Until(events, clock)

BuildInv ==
  /\ IInv /\ RowsOK
  /\ build \in [Builders -> Builds]
  /\ \A b \in Builders : BuildOK(build[b], put, clock)

\* A recorded upload stays as it is, but for its copier.
LEMMA RecordedStays ==
  ASSUME IInv, [Next]_vars, NEW u \in Uploads, put[u].pc = "recorded"
  PROVE  /\ put'[u].pc = "recorded"
         /\ put'[u].length = put[u].length /\ put'[u].declared = put[u].declared
<1>1. PICK q \in Puts : q = put[u]
  BY DEF IInv, PutsTypeOK
<1>2. CASE UNCHANGED put
  BY <1>2
<1>3. ASSUME NEW v \in Uploads, v # u, NEW p, put' = [put EXCEPT ![v] = p]
      PROVE  put'[u] = put[u]
  BY <1>3 DEF IInv, PutsTypeOK
<1>4. ASSUME NEW v \in Uploads, NEW length \in 0..MaxChunks,
             NEW declared \in -1..MaxChunks, Begin(v, length, declared)
      PROVE  put'[u] = put[u]
  BY <1>3, <1>4 DEF Begin
<1>5. ASSUME NEW v \in Uploads, PutReads(v) \/ PutEnds(v) \/ PutFails(v)
      PROVE  put'[u] = put[u]
  BY <1>3, <1>5 DEF PutReads, PutEnds, PutFails
<1>6. ASSUME NEW v \in Uploads, TakeSum(v)
      PROVE  put'[u] = put[u]
  <2>1. v # u
    BY <1>6 DEF TakeSum
  <2>2. PICK p : put' = [put EXCEPT ![v] = p]
    BY <1>6, Zenon DEF TakeSum
  <2> QED BY <1>3, <2>1, <2>2
<1>7. ASSUME NEW v \in Uploads, NEW name \in Names, RecordAttachment(v, name)
      PROVE  put'[u] = put[u]
  BY <1>3, <1>7 DEF RecordAttachment
<1>8. ASSUME NEW v \in Uploads, Copier(v), v # u
      PROVE  put'[u] = put[u]
  BY <1>3, <1>8 DEF Copier, CopierReads, CopierFails, CopierCloses
<1>9. CASE Copier(u)
  <2>1. CASE CopierReads(u)
    <3>1. put'[u] = [q EXCEPT !.copier = "write", !.hashed = q.hashed + 1]
      BY <1>1, <2>1 DEF CopierReads, IInv, PutsTypeOK
    <3> QED BY <1>1, <3>1 DEF Puts
  <2>2. CASE CopierFails(u)
    <3>1. put'[u] = [q EXCEPT !.copier = "ended", !.pipe = "broken"]
      BY <1>1, <2>2 DEF CopierFails, IInv, PutsTypeOK
    <3> QED BY <1>1, <3>1 DEF Puts
  <2>3. CASE CopierCloses(u)
    <3>1. put'[u] = [q EXCEPT !.copier = "ended", !.pipe = "closed"]
      BY <1>1, <2>3 DEF CopierCloses, IInv, PutsTypeOK
    <3> QED BY <1>1, <3>1 DEF Puts
  <2> QED BY <1>9, <2>1, <2>2, <2>3 DEF Copier
<1>10. ASSUME NEW v \in Uploads, DeleteDocument(v)
       PROVE  UNCHANGED put
  BY <1>10 DEF DeleteDocument
<1>11. ASSUME NEW b \in Builders,
              \/ FetchDocument(b) \/ FetchEvents(b) \/ ConvertToPDFA(b)
              \/ ConvertHTMLToPDFA(b) \/ PipelineFails(b) \/ StartSIP(b) \/ FinishSIP(b)
       PROVE  UNCHANGED put
  BY <1>11 DEF FetchDocument, FetchEvents, ConvertToPDFA, ConvertHTMLToPDFA, PipelineFails,
               StartSIP, FinishSIP, store
<1>12. ASSUME NEW action \in Actions, NEW at \in 0..clock, LogEvent(action, at)
       PROVE  UNCHANGED put
  BY <1>12 DEF LogEvent, store
<1>13. CASE Tick \/ UNCHANGED vars
  BY <1>13, <1>2 DEF Tick, vars, store
<1> QED BY <1>2, <1>4, <1>5, <1>6, <1>7, <1>8, <1>9, <1>10, <1>11, <1>12, <1>13 DEF Next

\* Steps of others, and time, leave a pipeline as it should be.
LEMMA BuildStays ==
  ASSUME NEW r \in Builds, NEW p, NEW q, NEW time \in Nat, NEW later \in Nat,
         time <= later, BuildOK(r, p, time),
         \A u \in Uploads : p[u].pc = "recorded" =>
           /\ q[u].pc = "recorded"
           /\ q[u].length = p[u].length /\ q[u].declared = p[u].declared
  PROVE  BuildOK(r, q, later)
<1>1. r.at \in Int /\ r.events \in Seq(Events) /\ r.first \in Attachments \cup {Null}
  BY DEF Builds
<1>2. \A i \in 1..Len(r.events) : r.events[i].at \in Int
  <2>1. \A i \in 1..Len(r.events) : r.events[i] \in Events
    BY <1>1, ElementOfSeq
  <2> QED BY <2>1 DEF Events
<1>3. r.at <= later /\ Sorted(r.events)
  <2>1. r.at <= time
    BY DEF BuildOK
  <2>2. r.at <= later
    BY <1>1, <2>1
  <2> QED BY <2>2 DEF BuildOK
<1>4. Until(r.events, later)
  BY <1>2 DEF BuildOK, Until
<1>5. r.first # Null =>
        /\ p[r.first.key].pc = "recorded" /\ q[r.first.key].pc = "recorded"
        /\ q[r.first.key].length = p[r.first.key].length
        /\ q[r.first.key].declared = p[r.first.key].declared
  <2> SUFFICES ASSUME r.first # Null
               PROVE  /\ p[r.first.key].pc = "recorded" /\ q[r.first.key].pc = "recorded"
                      /\ q[r.first.key].length = p[r.first.key].length
                      /\ q[r.first.key].declared = p[r.first.key].declared
    OBVIOUS
  <2>1. r.first.key \in Uploads
    BY <1>1 DEF Attachments
  <2>2. p[r.first.key].pc = "recorded"
    BY DEF BuildOK
  <2> QED BY <2>1, <2>2
<1>6. 0..time \subseteq 0..later
  OBVIOUS
<1>7. r.pc \in {"build", "sip", "built"} =>
        /\ r.content \in Contents
        /\ r.first # Null /\ q[r.first.key].declared \in {-1, q[r.first.key].length} =>
             r.content.chunks = q[r.first.key].length
  BY <1>5 DEF BuildOK
<1>8. r.pc = "built" =>
        \E submitted \in 0..later :
          /\ r.at <= submitted /\ Until(r.events, submitted)
          /\ r.package = BuildSIP(InputFor(r.first, r.content, r.events), r.at, submitted)
  BY <1>6 DEF BuildOK
<1> QED BY <1>3, <1>4, <1>5, <1>7, <1>8 DEF BuildOK

\* What the other actors may change, and pipelines are not touched.
LEMMA OthersKeep ==
  ASSUME BuildInv, [Next]_vars, IInv', UNCHANGED build, RowsOK', clock <= clock'
  PROVE  BuildInv'
<1>1. PICK p, q, time, later : p = put /\ q = put' /\ time = clock /\ later = clock'
  OBVIOUS
<1>2. time \in Nat /\ later \in Nat /\ time <= later
  BY <1>1, BoundsAssumption DEF BuildInv, RowsOK
<1>3. \A u \in Uploads : p[u].pc = "recorded" =>
        /\ q[u].pc = "recorded"
        /\ q[u].length = p[u].length /\ q[u].declared = p[u].declared
  BY <1>1, RecordedStays DEF BuildInv
<1>4. ASSUME NEW b \in Builders
      PROVE  BuildOK(build'[b], put', clock')
  <2>1. PICK r \in Builds : r = build[b]
    BY DEF BuildInv
  <2>2. BuildOK(r, p, time)
    BY <1>1, <2>1 DEF BuildInv
  <2>3. BuildOK(r, q, later)
    BY <1>2, <1>3, <2>2, BuildStays
  <2> QED BY <1>1, <2>1, <2>3
<1> QED BY <1>4 DEF BuildInv

\* Uploads alone change.
LEMMA RowsStay ==
  ASSUME BuildInv, [Next]_vars, UNCHANGED <<clock, attachments, events>>
  PROVE  RowsOK'
<1>1. ASSUME NEW i \in 1..Len(attachments)
      PROVE  put'[attachments[i].key].pc = "recorded"
  <2>1. attachments[i] \in Attachments
    BY ElementOfSeq DEF BuildInv, RowsOK
  <2>2. attachments[i].key \in Uploads /\ put[attachments[i].key].pc = "recorded"
    BY <2>1 DEF BuildInv, RowsOK, Attachments
  <2> QED BY <2>2, RecordedStays DEF BuildInv
<1> QED BY <1>1 DEF BuildInv, RowsOK

LEMMA RecordKeepsRows ==
  ASSUME BuildInv, [Next]_vars, NEW u \in Uploads, NEW name \in Names,
         RecordAttachment(u, name)
  PROVE  RowsOK'
<1>1. PICK e \in Attachments : e = [key |-> u, name |-> name]
  BY DEF Attachments
<1>2. attachments \in Seq(Attachments) /\ attachments' = Append(attachments, e)
  BY <1>1 DEF BuildInv, RowsOK, RecordAttachment
<1>3. /\ attachments' \in Seq(Attachments) /\ Len(attachments') = Len(attachments) + 1
      /\ \A i \in 1..Len(attachments) : attachments'[i] = attachments[i]
      /\ attachments'[Len(attachments) + 1] = e
  BY <1>2, AppendProperties
<1>4. Len(attachments) \in Nat
  BY <1>2, LenProperties
<1>5. put'[u].pc = "recorded"
  <2>1. PICK q \in Puts : q = put[u]
    BY DEF BuildInv, IInv, PutsTypeOK
  <2>2. put'[u] = [q EXCEPT !.pc = "recorded"]
    BY <2>1 DEF RecordAttachment, BuildInv, IInv, PutsTypeOK
  <2> QED BY <2>2 DEF Puts
<1>6. ASSUME NEW i \in 1..Len(attachments')
      PROVE  put'[attachments'[i].key].pc = "recorded"
  <2>1. CASE i = Len(attachments) + 1
    BY <1>1, <1>3, <1>5, <2>1
  <2>2. CASE i \in 1..Len(attachments)
    <3>1. attachments[i] \in Attachments
      BY <1>2, <2>2, ElementOfSeq
    <3>2. attachments[i].key \in Uploads /\ put[attachments[i].key].pc = "recorded"
      BY <2>2, <3>1 DEF BuildInv, RowsOK, Attachments
    <3>3. put'[attachments[i].key].pc = "recorded"
      BY <3>2, RecordedStays DEF BuildInv
    <3> QED BY <1>3, <2>2, <3>3
  <2> QED BY <1>3, <1>4, <2>1, <2>2
<1>7. UNCHANGED <<clock, events>>
  BY DEF RecordAttachment
<1>8. clock \in 0..MaxClock /\ events \in Seq(Events) /\ Until(events, clock)
  BY DEF BuildInv, RowsOK
<1>9. clock' \in 0..MaxClock /\ events' \in Seq(Events) /\ Until(events', clock')
  BY <1>7, <1>8
<1> QED BY <1>3, <1>6, <1>9 DEF RowsOK

LEMMA LogKeepsRows ==
  ASSUME BuildInv, NEW action \in Actions, NEW at \in 0..clock, LogEvent(action, at)
  PROVE  RowsOK'
<1>1. clock \in 0..MaxClock /\ clock \in Nat
  BY BoundsAssumption DEF BuildInv, RowsOK
<1>2. PICK e : e = [action |-> action, at |-> at]
  OBVIOUS
<1>3. e \in Events /\ e.at = at
  BY <1>1, <1>2, BoundsAssumption DEF Events
<1>4. events \in Seq(Events) /\ events' = Append(events, e)
  BY <1>2 DEF BuildInv, RowsOK, LogEvent
<1>5. /\ events' \in Seq(Events) /\ Len(events') = Len(events) + 1
      /\ \A i \in 1..Len(events) : events'[i] = events[i]
      /\ events'[Len(events) + 1] = e
  BY <1>3, <1>4, AppendProperties
<1>6. Len(events) \in Nat /\ \A i \in 1..Len(events) : events[i].at <= clock
  BY <1>4, LenProperties DEF BuildInv, RowsOK, Until
<1>7. at <= clock
  BY <1>1
<1>8. \A i \in 1..Len(events') : events'[i].at <= clock
  BY <1>3, <1>5, <1>6, <1>7
<1>9. UNCHANGED <<clock, put, attachments>>
  BY DEF LogEvent, store
<1> QED BY <1>5, <1>8, <1>9 DEF BuildInv, RowsOK, Until

LEMMA TickKeepsRows ==
  ASSUME BuildInv, Tick
  PROVE  RowsOK' /\ clock <= clock'
<1>1. clock \in 0..MaxClock /\ clock' = clock + 1 /\ clock < MaxClock
      /\ UNCHANGED <<put, attachments, events>>
  BY DEF BuildInv, RowsOK, Tick, store
<1>2. clock' \in 0..MaxClock /\ clock <= clock'
  BY <1>1, BoundsAssumption
<1>3. \A i \in 1..Len(events) : events[i].at \in Int
  <2>1. \A i \in 1..Len(events) : events[i] \in Events
    BY ElementOfSeq DEF BuildInv, RowsOK
  <2> QED BY <2>1 DEF Events
<1>4. Until(events, clock')
  <2>1. \A i \in 1..Len(events) : events[i].at <= clock
    BY DEF BuildInv, RowsOK, Until
  <2>2. clock \in Int /\ clock' \in Int
    BY <1>1
  <2>3. \A i \in 1..Len(events) : events[i].at <= clock'
    BY <1>2, <1>3, <2>1, <2>2
  <2> QED BY <2>3 DEF Until
<1> QED BY <1>1, <1>2, <1>4 DEF BuildInv, RowsOK

\* One pipeline becomes p.
LEMMA BuildAdvances ==
  ASSUME BuildInv, NEW b \in Builders, NEW p \in Builds, BuildOK(p, put, clock),
         build' = [build EXCEPT ![b] = p], UNCHANGED <<clock, store, events>>
  PROVE  BuildInv'
<1>1. UNCHANGED <<clock, put, object, attachments, events>>
  BY DEF store
<1>2. IInv' /\ RowsOK'
  BY <1>1 DEF BuildInv, IInv, PutsTypeOK, RowsOK
<1>3. build' \in [Builders -> Builds]
  BY DEF BuildInv
<1>4. \A c \in Builders : build'[c] = IF c = b THEN p ELSE build[c]
  BY DEF BuildInv
<1>5. \A c \in Builders : BuildOK(build'[c], put', clock')
  BY <1>1, <1>4 DEF BuildInv
<1> QED BY <1>2, <1>3, <1>5 DEF BuildInv

\* A pipeline of another stage that has read the same file and events, and the
\* same content if it has any.
LEMMA SameReadings ==
  ASSUME NEW r, NEW p, BuildOK(r, put, clock),
         p.first = r.first, p.events = r.events, p.at <= clock,
         \/ p.pc \notin {"build", "sip", "built"}
         \/ p.pc = "sip" /\ r.pc \in {"build", "sip", "built"} /\ p.content = r.content
  PROVE  BuildOK(p, put, clock)
BY DEF BuildOK

LEMMA FetchDocumentKeeps ==
  ASSUME BuildInv, NEW b \in Builders, FetchDocument(b)
  PROVE  BuildInv'
<1>1. PICK r \in Builds : r = build[b]
  BY DEF BuildInv
<1>2. BuildOK(r, put, clock)
  BY <1>1 DEF BuildInv
<1>3. PICK first : first = IF attachments = << >> THEN Null ELSE attachments[1]
  OBVIOUS
<1>4. /\ first \in Attachments \cup {Null}
      /\ first # Null => put[first.key].pc = "recorded"
  <2>1. CASE attachments = << >>
    BY <1>3, <2>1
  <2>2. CASE attachments # << >>
    <3>1. attachments \in Seq(Attachments)
      BY DEF BuildInv, RowsOK
    <3>2. 1 \in 1..Len(attachments)
      BY <2>2, <3>1, EmptySeq
    <3>3. attachments[1] \in Attachments
      BY <3>1, <3>2, ElementOfSeq
    <3> QED BY <1>3, <2>2, <3>2, <3>3 DEF BuildInv, RowsOK
  <2> QED BY <2>1, <2>2
<1>5. PICK p : p = [r EXCEPT !.pc = "events", !.first = first]
  OBVIOUS
<1>6. p \in Builds
  BY <1>4, <1>5, Zenon DEF Builds
<1>7. /\ p.pc = "events" /\ p.first = first /\ p.events = r.events /\ p.at = r.at
  BY <1>5 DEF Builds
<1>8. BuildOK(p, put, clock)
  BY <1>2, <1>4, <1>7 DEF BuildOK
<1>9. build' = [build EXCEPT ![b] = p] /\ UNCHANGED <<clock, store, events>>
  BY <1>1, <1>3, <1>5 DEF FetchDocument, Advance
<1> QED BY <1>6, <1>8, <1>9, BuildAdvances

\* What an order of the events tells.
LEMMA OrdersAreSorted ==
  ASSUME NEW t \in Seq(Events), NEW f \in Orders(t), NEW time, Until(t, time),
         NEW s, s = [i \in 1..Len(t) |-> t[f[i]]]
  PROVE  s \in Seq(Events) /\ Sorted(s) /\ Until(s, time)
<1>1. PICK n \in Nat : n = Len(t)
  BY LenProperties
<1>2. f \in [1..n -> 1..n]
  BY <1>1 DEF Orders
<1>3. \A i \in 1..n : t[i] \in Events
  BY <1>1, ElementOfSeq
<1>4. s \in [1..n -> Events]
  BY <1>1, <1>2, <1>3
<1>5. s \in Seq(Events) /\ Len(s) = n
  BY <1>4, FunctionIsSeq
<1>6. \A i \in 1..n : s[i] = t[f[i]]
  BY <1>1
<1>7. Until(s, time)
  BY <1>1, <1>2, <1>5, <1>6 DEF Until
<1>8. Sorted(s)
  <2> SUFFICES ASSUME NEW i \in 1..(n - 1) PROVE s[i].at <= s[i + 1].at
    BY <1>5 DEF Sorted
  <2>1. i \in 1..n /\ i + 1 \in 1..n
    OBVIOUS
  <2>2. t[f[i]].at <= t[f[i + 1]].at
    BY <1>1 DEF Orders
  <2> QED BY <1>6, <2>1, <2>2
<1> QED BY <1>5, <1>7, <1>8

LEMMA FetchEventsKeeps ==
  ASSUME BuildInv, NEW b \in Builders, FetchEvents(b)
  PROVE  BuildInv'
<1>1. PICK r \in Builds : r = build[b]
  BY DEF BuildInv
<1>2. BuildOK(r, put, clock)
  BY <1>1 DEF BuildInv
<1>3. PICK t, f, s :
        /\ t = events /\ f \in Orders(t) /\ s = [i \in 1..Len(t) |-> t[f[i]]]
        /\ build' = [build EXCEPT ![b] = [r EXCEPT !.pc = "content", !.events = s]]
  <2>1. PICK f \in Orders(events) :
          build' = [build EXCEPT ![b] = [r EXCEPT !.pc = "content",
                      !.events = [i \in 1..Len(events) |-> events[f[i]]]]]
    BY <1>1, Zenon DEF FetchEvents, Advance
  <2> QED BY <2>1
<1>4. PICK time : time = clock
  OBVIOUS
<1>5. t \in Seq(Events) /\ Until(t, time)
  BY <1>3, <1>4 DEF BuildInv, RowsOK
<1>6. s \in Seq(Events) /\ Sorted(s) /\ Until(s, time)
  BY <1>3, <1>5, OrdersAreSorted
<1>7. PICK p : p = [r EXCEPT !.pc = "content", !.events = s]
  OBVIOUS
<1>8. p \in Builds
  BY <1>6, <1>7, Zenon DEF Builds
<1>9. p.pc = "content" /\ p.first = r.first /\ p.events = s /\ p.at = r.at
  BY <1>7 DEF Builds
<1>10. BuildOK(p, put, clock)
  BY <1>2, <1>4, <1>6, <1>9 DEF BuildOK
<1>11. build' = [build EXCEPT ![b] = p] /\ UNCHANGED <<clock, store, events>>
  BY <1>3, <1>7 DEF FetchEvents
<1> QED BY <1>8, <1>10, <1>11, BuildAdvances

\* The file of an attachment is fetched whole if its size was told right.
LEMMA FetchedWhole ==
  ASSUME IInv, NEW u \in Uploads, put[u].pc = "recorded", object[u] # Null,
         put[u].declared \in {-1, put[u].length}
  PROVE  object[u] = put[u].length /\ object[u] \in 0..MaxChunks
<1>1. PICK q \in Puts : q = put[u]
  BY DEF IInv, PutsTypeOK
<1>2. PutOK(q, object[u])
  BY <1>1 DEF IInv
<1>3. q.piped = q.length
  BY <1>1, <1>2, PutFields DEF PutOK
<1>4. object[u] = q.piped
  BY <1>1, <1>2 DEF PutOK
<1> QED BY <1>1, <1>3, <1>4 DEF IInv, PutsTypeOK

LEMMA ConvertKeeps ==
  ASSUME BuildInv, NEW b \in Builders, ConvertToPDFA(b) \/ ConvertHTMLToPDFA(b)
  PROVE  BuildInv'
<1>1. PICK r \in Builds : r = build[b]
  BY DEF BuildInv
<1>2. BuildOK(r, put, clock)
  BY <1>1 DEF BuildInv
<1>3. ASSUME NEW content \in Contents,
             r.first # Null /\ put[r.first.key].declared \in {-1, put[r.first.key].length} =>
               content.chunks = put[r.first.key].length,
             build' = [build EXCEPT ![b] = [r EXCEPT !.pc = "build", !.content = content]],
             UNCHANGED <<clock, store, events>>
      PROVE  BuildInv'
  <2>1. PICK p : p = [r EXCEPT !.pc = "build", !.content = content]
    OBVIOUS
  <2>2. p \in Builds
    BY <2>1, Zenon DEF Builds
  <2>3. /\ p.pc = "build" /\ p.first = r.first /\ p.events = r.events /\ p.at = r.at
        /\ p.content = content
    BY <2>1 DEF Builds
  <2>4. BuildOK(p, put, clock)
    BY <1>2, <1>3, <2>3 DEF BuildOK
  <2>5. build' = [build EXCEPT ![b] = p]
    BY <1>3, <2>1
  <2> QED BY <1>3, <2>2, <2>4, <2>5, BuildAdvances
<1>4. CASE ConvertToPDFA(b)
  <2>1. r.first # Null /\ r.first \in Attachments
    BY <1>1, <1>4 DEF ConvertToPDFA, Builds
  <2>2. PICK u \in Uploads : u = r.first.key
    BY <2>1 DEF Attachments
  <2>3. put[u].pc = "recorded" /\ object[u] # Null
    BY <1>1, <1>2, <1>4, <2>1, <2>2 DEF BuildOK, ConvertToPDFA
  <2>4. PICK chunks \in 0..MaxChunks : chunks = object[u]
    BY <2>3 DEF BuildInv, IInv, PutsTypeOK
  <2>5. PICK content : content = [kind |-> "pdfa", by |-> Endpoint(r.first.name), of |-> u,
                                  chunks |-> chunks]
    OBVIOUS
  <2>6. Endpoint(r.first.name) \in {"chromium", "libreoffice"}
    BY DEF Endpoint
  <2>7. content \in Contents /\ content.chunks = chunks
    BY <2>5, <2>6 DEF Contents
  <2>8. put[u].declared \in {-1, put[u].length} => chunks = put[u].length
    BY <2>3, <2>4, FetchedWhole DEF BuildInv
  <2>9. build' = [build EXCEPT ![b] = [r EXCEPT !.pc = "build", !.content = content]]
    BY <1>1, <1>4, <2>2, <2>4, <2>5 DEF ConvertToPDFA, Advance
  <2>10. UNCHANGED <<clock, store, events>>
    BY <1>4 DEF ConvertToPDFA
  <2> QED BY <1>3, <2>2, <2>7, <2>8, <2>9, <2>10
<1>5. CASE ConvertHTMLToPDFA(b)
  <2>1. PICK content : content = [kind |-> "pdfa", by |-> "chromium", of |-> Null, chunks |-> 0]
    OBVIOUS
  <2>2. 0 \in 0..MaxChunks
    BY BoundsAssumption
  <2>3. content \in Contents
    BY <2>1, <2>2 DEF Contents
  <2>4. r.first = Null
    BY <1>1, <1>5 DEF ConvertHTMLToPDFA
  <2>5. build' = [build EXCEPT ![b] = [r EXCEPT !.pc = "build", !.content = content]]
        /\ UNCHANGED <<clock, store, events>>
    BY <1>1, <1>5, <2>1 DEF ConvertHTMLToPDFA, Advance
  <2> QED BY <1>3, <2>3, <2>4, <2>5
<1> QED BY <1>4, <1>5

LEMMA NoBuildIsOK ==
  ASSUME NEW time \in Nat, NEW p
  PROVE  NoBuild \in Builds /\ BuildOK(NoBuild, p, time)
<1>1. 0 \in 0..MaxClock /\ << >> \in Seq(Events) /\ Len(<< >>) = 0
  BY BoundsAssumption, EmptySeq
<1>2. NoBuild \in Builds
  BY <1>1, Zenon DEF NoBuild, Builds
<1>3. /\ NoBuild.pc = "idle" /\ NoBuild.first = Null /\ NoBuild.events = << >>
      /\ NoBuild.at = 0
  BY DEF NoBuild
<1> QED BY <1>1, <1>2, <1>3 DEF BuildOK, Sorted, Until

LEMMA PipelineFailsKeeps ==
  ASSUME BuildInv, NEW b \in Builders, PipelineFails(b)
  PROVE  BuildInv'
<1>1. PICK p, time : p = put /\ time = clock
  OBVIOUS
<1>2. time \in Nat
  BY <1>1, BoundsAssumption DEF BuildInv, RowsOK
<1>3. NoBuild \in Builds /\ BuildOK(NoBuild, put, clock)
  BY <1>1, <1>2, NoBuildIsOK
<1>4. build' = [build EXCEPT ![b] = NoBuild] /\ UNCHANGED <<clock, store, events>>
  BY DEF PipelineFails, Advance
<1> QED BY <1>3, <1>4, BuildAdvances

LEMMA StartSIPKeeps ==
  ASSUME BuildInv, NEW b \in Builders, StartSIP(b)
  PROVE  BuildInv'
<1>1. PICK r \in Builds : r = build[b]
  BY DEF BuildInv
<1>2. BuildOK(r, put, clock) /\ r.pc = "build"
  BY <1>1 DEF BuildInv, StartSIP
<1>3. PICK at \in 0..MaxClock : at = clock
  BY DEF BuildInv, RowsOK
<1>4. PICK p : p = [r EXCEPT !.pc = "sip", !.at = at]
  OBVIOUS
<1>5. p \in Builds
  BY <1>4, Zenon DEF Builds
<1>6. /\ p.pc = "sip" /\ p.first = r.first /\ p.events = r.events /\ p.at = at
      /\ p.content = r.content
  BY <1>4 DEF Builds
<1>7. at <= clock
  BY <1>3, BoundsAssumption
<1>8. BuildOK(p, put, clock)
  BY <1>2, <1>6, <1>7, SameReadings
<1>9. build' = [build EXCEPT ![b] = p] /\ UNCHANGED <<clock, store, events>>
  BY <1>1, <1>3, <1>4 DEF StartSIP, Advance
<1> QED BY <1>5, <1>8, <1>9, BuildAdvances

LEMMA InputIs ==
  ASSUME NEW b \in Builders
  PROVE  InputOf(b) = InputFor(build[b].first, build[b].content, build[b].events)
BY DEF InputOf, InputFor

LEMMA FinishSIPKeeps ==
  ASSUME BuildInv, NEW b \in Builders, FinishSIP(b)
  PROVE  BuildInv'
<1>1. PICK r \in Builds : r = build[b]
  BY DEF BuildInv
<1>2. BuildOK(r, put, clock) /\ r.pc = "sip"
  BY <1>1 DEF BuildInv, FinishSIP
<1>3. PICK submitted \in 0..MaxClock : submitted = clock
  BY DEF BuildInv, RowsOK
<1>4. PICK package : package = BuildSIP(InputFor(r.first, r.content, r.events), r.at, submitted)
  OBVIOUS
<1>5. r.first \in Attachments \cup {Null} /\ r.events \in Seq(Events) /\ r.at \in 0..MaxClock
  BY DEF Builds
<1>6. r.content \in Contents
  BY <1>2 DEF BuildOK
<1>7. package \in Packages
  <2>1. PICK first, content, told, at :
          first = r.first /\ content = r.content /\ told = r.events /\ at = r.at
    OBVIOUS
  <2>2. /\ first \in Attachments \cup {Null} /\ content \in Contents
        /\ told \in Seq(Events) /\ at \in 0..MaxClock
    BY <1>5, <1>6, <2>1
  <2>3. package = BuildSIP(InputFor(first, content, told), at, submitted)
    BY <1>4, <2>1
  <2> QED BY <2>2, <2>3 DEF Packages
<1>8. PICK p : p = [r EXCEPT !.pc = "built", !.package = package]
  OBVIOUS
<1>9. p \in Builds
  BY <1>7, <1>8, Zenon DEF Builds
<1>10. /\ p.pc = "built" /\ p.first = r.first /\ p.events = r.events /\ p.at = r.at
       /\ p.content = r.content /\ p.package = package
  BY <1>8 DEF Builds
<1>11. submitted \in 0..clock
  BY <1>3, BoundsAssumption
<1>12. r.at <= submitted /\ Until(r.events, submitted)
  BY <1>2, <1>3 DEF BuildOK
<1>13. \E s \in 0..clock :
         /\ p.at <= s /\ Until(p.events, s)
         /\ p.package = BuildSIP(InputFor(p.first, p.content, p.events), p.at, s)
  BY <1>4, <1>10, <1>11, <1>12
<1>14. BuildOK(p, put, clock)
  BY <1>2, <1>10, <1>13 DEF BuildOK
<1>15. InputOf(b) = InputFor(r.first, r.content, r.events)
  BY <1>1, InputIs
<1>16. build' = [build EXCEPT ![b] = p] /\ UNCHANGED <<clock, store, events>>
  <2>1. BuildSIP(InputOf(b), build[b].at, clock) = package
    BY <1>1, <1>3, <1>4, <1>15
  <2>2. build' = [build EXCEPT ![b] = [r EXCEPT !.pc = "built", !.package = package]]
    BY <1>1, <2>1 DEF FinishSIP, Advance
  <2> QED BY <1>8, <2>2 DEF FinishSIP
<1> QED BY <1>9, <1>14, <1>16, BuildAdvances

-----------------------------------------------------------------------------
(* The theorems about pipelines.                                           *)

LEMMA InitImpliesBuildInv == Init => BuildInv
<1> SUFFICES ASSUME Init PROVE BuildInv
  OBVIOUS
<1>1. IInv
  BY InitImpliesInvariant
<1>2. clock \in 0..MaxClock /\ clock = 0
  BY BoundsAssumption DEF Init
<1>3. events \in Seq(Events) /\ Until(events, clock)
  <2>1. events = << >>
    BY DEF Init
  <2> QED BY <2>1, EmptySeq DEF Until
<1>4. /\ attachments \in Seq(Attachments)
      /\ \A i \in 1..Len(attachments) : put[attachments[i].key].pc = "recorded"
  <2>1. CASE attachments = << >>
    BY <2>1, EmptySeq
  <2>2. ASSUME NEW u \in Earlier, NEW n \in Names, attachments = <<[key |-> u, name |-> n]>>
        PROVE  /\ attachments \in Seq(Attachments)
               /\ \A i \in 1..Len(attachments) : put[attachments[i].key].pc = "recorded"
    <3>1. PICK e \in Attachments : e = [key |-> u, name |-> n]
      BY BoundsAssumption DEF Attachments
    <3>2. attachments = <<e>> /\ e.key = u
      BY <2>2, <3>1
    <3>3. <<e>> \in Seq(Attachments) /\ Len(<<e>>) = 1 /\ <<e>>[1] = e
      OBVIOUS
    <3>4. put[u] = Finished
      BY BoundsAssumption DEF Init
    <3>5. put[u].pc = "recorded"
      BY <3>4 DEF Finished
    <3> QED BY <3>2, <3>3, <3>5
  <2> QED BY <2>1, <2>2 DEF Init
<1>5. PICK p, time : p = put /\ time = clock
  OBVIOUS
<1>6. NoBuild \in Builds /\ BuildOK(NoBuild, put, clock)
  <2>1. time \in Nat
    BY <1>2, <1>5
  <2> QED BY <1>5, <2>1, NoBuildIsOK
<1>7. build = [b \in Builders |-> NoBuild]
  BY DEF Init
<1>8. build \in [Builders -> Builds] /\ \A b \in Builders : build[b] = NoBuild
  BY <1>6, <1>7
<1>9. \A b \in Builders : BuildOK(build[b], put, clock)
  BY <1>6, <1>8
<1> QED BY <1>1, <1>2, <1>3, <1>4, <1>8, <1>9 DEF BuildInv, RowsOK

LEMMA NextKeepsBuildInv == BuildInv /\ [Next]_vars => BuildInv'
<1> SUFFICES ASSUME BuildInv, [Next]_vars PROVE BuildInv'
  OBVIOUS
<1>1. IInv'
  BY NextKeepsInvariant DEF BuildInv
<1>2. clock \in Int
  BY BoundsAssumption DEF BuildInv, RowsOK
<1>3. ASSUME UNCHANGED <<clock, attachments, events, build>>
      PROVE  BuildInv'
  <2>1. RowsOK'
    BY <1>3, RowsStay
  <2>2. clock <= clock'
    BY <1>2, <1>3
  <2> QED BY <1>1, <1>3, <2>1, <2>2, OthersKeep
<1>4. ASSUME NEW u \in Uploads,
             \/ \E length \in 0..MaxChunks, declared \in -1..MaxChunks : Begin(u, length, declared)
             \/ Copier(u) \/ PutReads(u) \/ PutEnds(u) \/ PutFails(u) \/ TakeSum(u)
             \/ DeleteDocument(u)
      PROVE  UNCHANGED <<clock, attachments, events, build>>
  BY <1>4 DEF Begin, Copier, CopierReads, CopierFails, CopierCloses, PutReads, PutEnds,
              PutFails, TakeSum, DeleteDocument
<1>5. ASSUME NEW u \in Uploads, NEW name \in Names, RecordAttachment(u, name)
      PROVE  BuildInv'
  <2>1. RowsOK'
    BY <1>5, RecordKeepsRows
  <2>2. UNCHANGED <<clock, build>>
    BY <1>5 DEF RecordAttachment
  <2>3. clock <= clock'
    BY <1>2, <2>2
  <2> QED BY <1>1, <2>1, <2>2, <2>3, OthersKeep
<1>6. ASSUME NEW b \in Builders,
             \/ FetchDocument(b) \/ FetchEvents(b) \/ ConvertToPDFA(b)
             \/ ConvertHTMLToPDFA(b) \/ PipelineFails(b) \/ StartSIP(b) \/ FinishSIP(b)
      PROVE  BuildInv'
  BY <1>6, FetchDocumentKeeps, FetchEventsKeeps, ConvertKeeps, PipelineFailsKeeps,
     StartSIPKeeps, FinishSIPKeeps
<1>7. ASSUME NEW action \in Actions, NEW at \in 0..clock, LogEvent(action, at)
      PROVE  BuildInv'
  <2>1. RowsOK'
    BY <1>7, LogKeepsRows
  <2>2. UNCHANGED <<clock, build>>
    BY <1>7 DEF LogEvent
  <2>3. clock <= clock'
    BY <1>2, <2>2
  <2> QED BY <1>1, <2>1, <2>2, <2>3, OthersKeep
<1>8. CASE Tick
  <2>1. RowsOK' /\ clock <= clock'
    BY <1>8, TickKeepsRows
  <2>2. UNCHANGED build
    BY <1>8 DEF Tick
  <2> QED BY <1>1, <2>1, <2>2, OthersKeep
<1>9. CASE UNCHANGED vars
  BY <1>3, <1>9 DEF vars
<1> QED BY <1>3, <1>4, <1>5, <1>6, <1>7, <1>8, <1>9 DEF Next

\* The invariant of the pipelines holds in every state.
THEOREM BuildInvariance == Spec => []BuildInv
BY InitImpliesBuildInv, NextKeepsBuildInv, PTL DEF Spec

\* Every variable has its type.
THEOREM TypeCorrect == Spec => []TypeOK
<1>1. BuildInv => TypeOK
  BY DEF BuildInv, RowsOK, IInv, PutsTypeOK, TypeOK, Builds
<1> QED BY <1>1, BuildInvariance, PTL

\* A package without attachments of its own, of events in order: what BuildSIP
\* makes of it is true.
LEMMA PackageIsTrue ==
  ASSUME NEW input, input.attachments = << >>, input.events \in Seq(Events),
         NEW at \in Int, NEW submitted \in Int, at <= submitted,
         Sorted(input.events), Until(input.events, submitted),
         NEW package, package = BuildSIP(input, at, submitted)
  PROVE  /\ FileAt(package, DataPath(input.name)) = {input.content}
         /\ ManifestMatches(package) /\ HistoryIsTold(package, input)
<1>1. input.attachments \in Seq({}) /\ Len(input.attachments) = 0
  BY EmptySeq
<1>2. \A i \in 0..Len(input.attachments) : i = 0
  BY <1>1
<1>3. SameNameSameFile(input)
  BY <1>2 DEF SameNameSameFile
<1>4. Data(input, 0).content = input.content
  BY DEF Data
<1>5. DocumentIsAlone(input)
  BY <1>2, <1>4 DEF DocumentIsAlone
<1>6. InOrder(input, at, submitted)
  BY DEF InOrder, Sorted, Until
<1>7. \A i \in 1..Len(input.events) : input.events[i].at \in Int
  <2>1. \A i \in 1..Len(input.events) : input.events[i] \in Events
    BY ElementOfSeq
  <2> QED BY <2>1 DEF Events
<1>8. FileAt(package, DataPath(input.name)) = {input.content}
  BY <1>1, <1>5, DocumentFile
<1>9. ManifestMatches(package)
  BY <1>1, <1>3, ManifestIsTrue
<1>10. HistoryIsTold(package, input)
  BY <1>1, <1>5, <1>6, <1>7, HistoryIsTrue
<1> QED BY <1>8, <1>9, <1>10

\* A package holds the whole file that was the document's first when it was
\* fetched, if its size was told right, and is true of what it holds.
THEOREM FaithfulCorrect == Spec => []PackageIsFaithful
<1>1. BuildInv => PackageIsFaithful
  <2> SUFFICES ASSUME BuildInv, NEW b \in Builders, build[b].pc = "built"
               PROVE  /\ build[b].first # Null /\ Truthful(build[b].first.key) =>
                           build[b].content.chunks = put[build[b].first.key].length
                      /\ FileAt(build[b].package, DataPath(InputOf(b).name)) = {build[b].content}
                      /\ ManifestMatches(build[b].package)
                      /\ HistoryIsTold(build[b].package, InputOf(b))
    BY DEF PackageIsFaithful
  <2>1. PICK r \in Builds : r = build[b]
    BY DEF BuildInv
  <2>2. BuildOK(r, put, clock) /\ r.pc = "built"
    BY <2>1 DEF BuildInv
  <2>3. r.first # Null /\ Truthful(r.first.key) => r.content.chunks = put[r.first.key].length
    BY <2>2 DEF BuildOK, Truthful
  <2>4. PICK input : input = InputFor(r.first, r.content, r.events)
    OBVIOUS
  <2>5. /\ input.attachments = << >> /\ input.events = r.events
        /\ input.content = r.content
    BY <2>4 DEF InputFor
  <2>6. input = InputOf(b)
    BY <2>1, <2>4, InputIs
  <2>7. r.events \in Seq(Events) /\ r.at \in Int /\ Sorted(r.events)
    BY <2>2 DEF BuildOK, Builds
  <2>8. PICK submitted \in Int :
          /\ r.at <= submitted /\ Until(r.events, submitted)
          /\ r.package = BuildSIP(input, r.at, submitted)
    <3>1. PICK submitted \in 0..clock :
            /\ r.at <= submitted /\ Until(r.events, submitted)
            /\ r.package = BuildSIP(input, r.at, submitted)
      BY <2>2, <2>4 DEF BuildOK
    <3> QED BY <3>1
  <2>9. PICK at, package : at = r.at /\ package = r.package
    OBVIOUS
  <2>10. /\ at \in Int /\ at <= submitted /\ input.events \in Seq(Events)
         /\ Sorted(input.events) /\ Until(input.events, submitted)
         /\ package = BuildSIP(input, at, submitted)
    BY <2>5, <2>7, <2>8, <2>9
  <2>11. /\ FileAt(package, DataPath(input.name)) = {input.content}
         /\ ManifestMatches(package) /\ HistoryIsTold(package, input)
    BY <2>5, <2>10, PackageIsTrue
  <2> QED BY <2>1, <2>3, <2>5, <2>6, <2>9, <2>11
<1> QED BY <1>1, BuildInvariance, PTL
=============================================================================
