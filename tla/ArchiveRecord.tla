----------------------------- MODULE ArchiveRecord -----------------------------
(***************************************************************************)
(* What archiving comes to for a document, with no replicas, lists,        *)
(* requests, faults or clocks in it.  A user advances a document until it  *)
(* is final; from then on it is marked, packages of it reach the archive,  *)
(* one at most from each sender and each with its whole history, and its   *)
(* row is settled: ARCHIVED with a reference to one of them, or FAILED.    *)
(* Nothing of this happens to a document that is not final, and the mark   *)
(* comes before everything else.                                           *)
(***************************************************************************)
EXTENDS WorkflowModel, Naturals, Sequences

CONSTANTS
  Docs,      \* documents
  Senders,   \* who may send packages to the archive
  Null       \* SQL NULL

VARIABLES
  status,    \* status[d]: where d is in its life cycle
  events,    \* events[d]: how many workflow events it has
  mark,      \* mark[d]: archive_status
  ref,       \* ref[d]: archive_document_id
  kept       \* kept[d]: the packages of d in the archive

vars == <<status, events, mark, ref, kept>>

Init ==
  /\ status \in [Docs -> Statuses \ {"FINALIZAT"}]
  /\ events \in [Docs -> Nat]
  /\ mark = [d \in Docs |-> "NOT_ARCHIVED"]
  /\ ref = [d \in Docs |-> Null]
  /\ kept = [d \in Docs |-> <<>>]

\* A user advances a document that is not final yet.
Advance(d) ==
  /\ status[d] # "FINALIZAT"
  /\ events' = [events EXCEPT ![d] = @ + 1]
  /\ \E new \in Statuses : status' = [status EXCEPT ![d] = new]
  /\ UNCHANGED <<mark, ref, kept>>

\* Somebody begins to archive it, perhaps not as the first one.
Mark(d) ==
  /\ status[d] = "FINALIZAT"
  /\ mark' = [mark EXCEPT ![d] = "PENDING"]
  /\ UNCHANGED <<status, events, ref, kept>>

\* A package of w reaches the archive, whatever has become of w meanwhile.
Keep(d, w) ==
  /\ mark[d] # "NOT_ARCHIVED"
  /\ \A i \in 1..Len(kept[d]) : kept[d][i].by # w
  /\ kept' = [kept EXCEPT ![d] = Append(@, [by |-> w, events |-> events[d]])]
  /\ UNCHANGED <<status, events, mark, ref>>

\* Its row gets a reference to a package.
Record(d, id) ==
  /\ mark[d] # "NOT_ARCHIVED"
  /\ id \in 1..Len(kept[d])
  /\ mark' = [mark EXCEPT ![d] = "ARCHIVED"]
  /\ ref' = [ref EXCEPT ![d] = id]
  /\ UNCHANGED <<status, events, kept>>

\* Somebody gives it up; a reference it has stays.
Fail(d) ==
  /\ mark[d] # "NOT_ARCHIVED"
  /\ mark' = [mark EXCEPT ![d] = "FAILED"]
  /\ UNCHANGED <<status, events, ref, kept>>

Next ==
  \E d \in Docs :
    \/ Advance(d) \/ Mark(d) \/ Fail(d)
    \/ \E w \in Senders : Keep(d, w)
    \/ \E id \in 1..Len(kept[d]) : Record(d, id)

Spec == Init /\ [][Next]_vars
=============================================================================
