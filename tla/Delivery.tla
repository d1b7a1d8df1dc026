------------------------------- MODULE Delivery -------------------------------
(***************************************************************************)
(* Qualified delivery, internal/qtsp/delivery: concurrent callers ask      *)
(* ShouldDeliver whether the addressee of a document takes part in the     *)
(* delivery network, and Dispatch it: the message is submitted to the QTSP *)
(* and the answer is recorded in documente by another statement.           *)
(*                                                                         *)
(* The QTSP may accept a request after its client has given up (30 s) or   *)
(* never get it.  The addressees are the rows of Entities.                 *)
(***************************************************************************)
EXTENDS Entities, Sequences

CONSTANTS
  Documents,      \* rows of documente
  Callers,        \* goroutines that deliver
  MaxCalls        \* bound: each caller decides to deliver this many times

ASSUME CallsAssumption == MaxCalls \in Nat
ASSUME NullAssumption ==
  Null \notin Documents /\ Null \notin Nat /\ Null \notin {"SUBMITTED", "FAILED", "sent"}

VARIABLES
  doc,            \* doc[d]: the delivery columns of documente
  call,           \* call[c]: where caller c is
  requests,       \* submit requests on the wire
  accepted,       \* the QTSP's messages; the id of one is its place
  participants    \* history: every entity that ever was a participant

deliveryVars == <<doc, call, requests, accepted, participants>>
vars == <<entityVars, deliveryVars>>

\* One attempt of one caller. The recipient is named by his e-mail address,
\* a column of the entity that nothing changes.
Requests == [by : Callers, attempt : 1..MaxCalls, doc : Documents, to : EntityIds]

Rows == [destinatar : EntityIds \cup {Null},
         status     : {Null, "SUBMITTED", "FAILED"},
         message    : Nat \cup {Null}]

Calls ==
  [pc      : {"idle", "decided", "submit", "record", "failed"},
   doc     : Documents \cup {Null},
   to      : EntityIds \cup {Null},
   attempt : 0..MaxCalls,
   message : Nat \cup {Null},           \* the id the QTSP answered
   told    : {Null, "sent", "error"}]   \* what Dispatch returned

Registered == {e \in EntityIds : entity[e].participant = "id"}

Init ==
  /\ EntitiesInit
  /\ doc \in [Documents -> [destinatar : Present \cup {Null},
                            status : {Null}, message : {Null}]]
  /\ call = [c \in Callers |-> [pc |-> "idle", doc |-> Null, to |-> Null,
                                attempt |-> 0, message |-> Null, told |-> Null]]
  /\ requests = {} /\ accepted = << >>
  /\ participants = Registered

-----------------------------------------------------------------------------
(* ShouldDeliver and Dispatch.                                             *)

RequestOf(c) == [by |-> c, attempt |-> call[c].attempt, doc |-> call[c].doc,
                 to |-> call[c].to]

Returns(c, told) ==
  call' = [call EXCEPT ![c] = [call[c] EXCEPT !.pc = "idle", !.to = Null,
                                              !.message = Null, !.told = told]]

\* One query; its other answers (an error without an addressee, no) end the
\* delivery before it begins and change nothing.
ShouldDeliver(c, d) ==
  /\ call[c].pc = "idle" /\ call[c].attempt < MaxCalls
  /\ doc[d].destinatar # Null
  /\ entity[doc[d].destinatar].participant \notin {Null, ""}
  /\ call' = [call EXCEPT ![c] =
       [pc |-> "decided", doc |-> d, to |-> doc[d].destinatar,
        attempt |-> call[c].attempt + 1, message |-> Null, told |-> Null]]
  /\ UNCHANGED <<entityVars, doc, requests, accepted, participants>>

\* Client.Submit posts the message with the addressee ShouldDeliver named.
Submit(c) ==
  /\ call[c].pc = "decided"
  /\ requests' = requests \cup {RequestOf(c)}
  /\ call' = [call EXCEPT ![c] = [call[c] EXCEPT !.pc = "submit"]]
  /\ UNCHANGED <<entityVars, doc, accepted, participants>>

\* Mutant: the client posts again after an error, as a new request.
MutantRetry(c) ==
  /\ call[c].pc = "submit"
  /\ RequestOf(c) \notin requests
  /\ requests' = requests \cup {RequestOf(c)}
  /\ UNCHANGED <<entityVars, doc, call, accepted, participants>>

\* Mutant: the HTTP client waits without a timeout.
MutantNoTimeout(c) ==
  /\ call[c].pc = "decided"
  /\ call' = [call EXCEPT ![c] = [call[c] EXCEPT !.pc = "failed"]]
  /\ UNCHANGED <<entityVars, doc, requests, accepted, participants>>

\* The content cannot be read, the request times out or is refused, or the
\* answer cannot be decoded; the QTSP may have accepted it or accept it yet.
SubmitFails(c) ==
  /\ call[c].pc \in {"decided", "submit"}
  /\ call' = [call EXCEPT ![c] = [call[c] EXCEPT !.pc = "failed"]]
  /\ UNCHANGED <<entityVars, doc, requests, accepted, participants>>

\* The answer names the message.
Answered(c) ==
  /\ call[c].pc = "submit"
  /\ \E i \in 1..Len(accepted) :
       /\ accepted[i] = RequestOf(c)
       /\ call' = [call EXCEPT ![c] = [call[c] EXCEPT !.pc = "record", !.message = i]]
  /\ UNCHANGED <<entityVars, doc, requests, accepted, participants>>

\* Mutant: the id of the message is not written.
MutantRecordStatusOnly(c) ==
  /\ call[c].pc = "record"
  /\ doc' = [doc EXCEPT ![call[c].doc] =
       [doc[call[c].doc] EXCEPT !.status = "SUBMITTED"]]
  /\ Returns(c, "sent")
  /\ UNCHANGED <<entityVars, requests, accepted, participants>>

\* UPDATE documente SET delivery_message_id, delivery_status = 'SUBMITTED'.
RecordSubmitted(c) ==
  /\ call[c].pc = "record"
  /\ doc' = [doc EXCEPT ![call[c].doc] =
       [doc[call[c].doc] EXCEPT !.status = "SUBMITTED", !.message = call[c].message]]
  /\ Returns(c, "sent")
  /\ UNCHANGED <<entityVars, requests, accepted, participants>>

\* The UPDATE of RecordSubmitted fails, or only its answer is lost.
RecordSubmittedFails(c) ==
  /\ call[c].pc = "record"
  /\ \/ UNCHANGED doc
     \/ doc' = [doc EXCEPT ![call[c].doc] =
          [doc[call[c].doc] EXCEPT !.status = "SUBMITTED", !.message = call[c].message]]
  /\ Returns(c, "error")
  /\ UNCHANGED <<entityVars, requests, accepted, participants>>

\* Mutant: the QTSP's word for it, StatusFailed.
MutantRecordFailedLower(c) ==
  /\ call[c].pc = "failed"
  /\ doc' = [doc EXCEPT ![call[c].doc] = [doc[call[c].doc] EXCEPT !.status = "failed"]]
  /\ Returns(c, "error")
  /\ UNCHANGED <<entityVars, requests, accepted, participants>>

\* UPDATE documente SET delivery_status = 'FAILED', which may fail as well:
\* the id of an earlier message stays in the row.
RecordFailed(c) ==
  /\ call[c].pc = "failed"
  /\ \/ UNCHANGED doc
     \/ doc' = [doc EXCEPT ![call[c].doc] = [doc[call[c].doc] EXCEPT !.status = "FAILED"]]
  /\ Returns(c, "error")
  /\ UNCHANGED <<entityVars, requests, accepted, participants>>

\* The process of the caller ends, or the caller does not go on to Dispatch.
Abandon(c) ==
  /\ call[c].pc # "idle"
  /\ Returns(c, Null)
  /\ UNCHANGED <<entityVars, doc, requests, accepted, participants>>

-----------------------------------------------------------------------------
(* The QTSP and the network.                                               *)

Accept(r) ==
  /\ r \in requests
  /\ accepted' = Append(accepted, r)
  /\ requests' = requests \ {r}
  /\ UNCHANGED <<entityVars, doc, call, participants>>

Drop(r) ==
  /\ r \in requests
  /\ requests' = requests \ {r}
  /\ UNCHANGED <<entityVars, doc, call, accepted, participants>>

\* The next step of Dispatch.
Step(c) ==
  \/ Submit(c) \/ SubmitFails(c) \/ Answered(c)
  \/ RecordSubmitted(c) \/ RecordSubmittedFails(c) \/ RecordFailed(c)

Next ==
  \/ EntitiesNext /\ participants' = participants \cup Registered'
                  /\ UNCHANGED <<doc, call, requests, accepted>>
  \/ \E c \in Callers, d \in Documents : ShouldDeliver(c, d)
  \/ \E c \in Callers : Step(c) \/ Abandon(c)
  \/ \E r \in requests : Accept(r) \/ Drop(r)

\* A goroutine goes on, a query is answered and a request times out.
Fairness == \A c \in Callers : WF_vars(Step(c))

Spec == Init /\ [][Next]_vars /\ Fairness

-----------------------------------------------------------------------------
(* Properties.                                                             *)

TypeOK ==
  /\ entity \in [EntityIds -> EntityRows]
  /\ list \in [Clients -> Walks]
  /\ doc \in [Documents -> Rows]
  /\ call \in [Callers -> Calls]
  /\ requests \subseteq Requests
  /\ accepted \in Seq(Requests)
  /\ participants \subseteq EntityIds

\* A document that is SUBMITTED, and one whose Dispatch returned without an
\* error, leads to a message of this document at the QTSP, whatever other
\* callers do with the row. (FAILED says nothing: the message may exist.)
SubmittedMeansSent ==
  /\ \A d \in Documents :
       /\ doc[d].status = "SUBMITTED" => doc[d].message # Null
       /\ doc[d].message # Null =>
            doc[d].message \in 1..Len(accepted) /\ accepted[doc[d].message].doc = d
  /\ \A c \in Callers : call[c].told = "sent" => doc[call[c].doc].message # Null

\* The QTSP gets at most one message for each decision to deliver: errors,
\* timeouts and late answers never make a caller send twice. And it gets
\* only messages for entities that have been participants.
OneMessagePerDecision ==
  /\ \A i, j \in 1..Len(accepted) :
       (accepted[i].by = accepted[j].by /\ accepted[i].attempt = accepted[j].attempt)
         => i = j
  /\ \A i \in 1..Len(accepted) : accepted[i].to \in participants

\* Every delivery comes to an end, whatever the QTSP does with the message.
EveryDeliveryEnds == \A c \in Callers : call[c].pc # "idle" ~> call[c].pc = "idle"
=============================================================================
