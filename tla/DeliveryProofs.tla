----------------------------- MODULE DeliveryProofs -----------------------------
(***************************************************************************)
(* Theorems about Delivery, and Entities within it, for any entities,      *)
(* documents, callers and clients that list.                               *)
(***************************************************************************)
EXTENDS Delivery, FiniteSetTheorems, SequenceTheorems, TLAPS

-----------------------------------------------------------------------------
(* Pages.                                                                  *)

\* The rows that come before e in the list, whatever the ties.
Before(e, rows) == {f \in rows : Denumire[f] < Denumire[e]}

Unique(e) == \A f \in EntityIds \ {e} : Denumire[f] # Denumire[e]

\* If e is not on the page that follows offset rows, although offset rows come
\* before it, then this page is full, and its rows come before e as well.
LEMMA PageIsComplete ==
  ASSUME NEW rows \in SUBSET EntityIds, NEW shown, NEW offset \in Nat,
         NEW limit \in Nat \ {0}, IsPage(shown, rows, offset, limit),
         NEW e \in rows \ shown, Unique(e),
         Cardinality(Before(e, rows)) >= offset
  PROVE  Cardinality(Before(e, rows)) >= offset + limit /\ shown # {}
<1>1. IsFiniteSet(rows) /\ Denumire \in [EntityIds -> Int]
  BY EntitiesAssumption, FS_Subset
<1>2. PICK before \in SUBSET rows :
        /\ Cardinality(before) = Least(offset, Cardinality(rows))
        /\ \A b \in before, r \in rows \ before : Denumire[b] <= Denumire[r]
        /\ shown \subseteq rows \ before
        /\ Cardinality(shown) = Least(limit, Cardinality(rows \ before))
        /\ \A s \in shown, r \in (rows \ before) \ shown : Denumire[s] <= Denumire[r]
  BY DEF IsPage
<1> DEFINE smaller == Before(e, rows)
           rest == rows \ before
<1>3. /\ smaller \subseteq rows /\ e \notin smaller
      /\ \A f \in rows \ {e} : Denumire[f] <= Denumire[e] => f \in smaller
      /\ \A f \in smaller : ~ (Denumire[e] <= Denumire[f])
  BY <1>1 DEF Before, Unique
<1>4. /\ IsFiniteSet(before) /\ IsFiniteSet(smaller)
      /\ IsFiniteSet(rest) /\ IsFiniteSet(shown)
  BY <1>1, <1>2, <1>3, FS_Subset
<1>5. PICK all \in Nat, b \in Nat, r \in Nat, s \in Nat, n \in Nat :
        /\ Cardinality(rows) = all /\ Cardinality(before) = b /\ Cardinality(rest) = r
        /\ Cardinality(shown) = n /\ Cardinality(smaller) = s
  BY <1>1, <1>4, FS_CardinalityType
<1>6. b = Least(offset, all) /\ n = Least(limit, r) /\ s >= offset
  BY <1>2, <1>5
<1>7. e \notin before
  <2> SUFFICES ASSUME e \in before PROVE FALSE
    OBVIOUS
  <2>1. \A f \in rest : Denumire[e] <= Denumire[f]
    BY <1>2
  <2>2. smaller \subseteq before \ {e}
    BY <2>1, <1>3
  <2>3. Cardinality(before \ {e}) = b - 1 /\ IsFiniteSet(before \ {e})
    BY <1>4, <1>5, FS_RemoveElement
  <2>4. s <= b - 1
    BY <2>2, <2>3, <1>5, FS_Subset
  <2>5. b <= offset
    BY <1>6 DEF Least
  <2> QED BY <2>4, <2>5, <1>6
<1>8. before \cup shown \subseteq smaller
  <2>1. \A f \in before \cup shown : f \in rows \ {e} /\ Denumire[f] <= Denumire[e]
    BY <1>2, <1>7
  <2> QED BY <2>1, <1>3
<1>9. b = offset /\ n = limit
  <2>1. b # all
    BY <1>1, <1>5, <1>7, FS_Subset
  <2>2. e \in rest \ shown /\ shown \subseteq rest
    BY <1>2, <1>7
  <2>3. n # r
    BY <2>2, <1>4, <1>5, FS_Subset
  <2> QED BY <1>6, <2>1, <2>3 DEF Least
<1>10. Cardinality(before \cup shown) = offset + limit
  <2>1. before \cap shown = {}
    BY <1>2
  <2>2. Cardinality(before \cap shown) = 0
    BY <2>1, FS_EmptySet
  <2>3. Cardinality(before \cup shown)
          = Cardinality(before) + Cardinality(shown) - Cardinality(before \cap shown)
    BY <1>4, FS_Union
  <2> HIDE DEF rest
  <2> QED BY <2>2, <2>3, <1>5, <1>9
<1>11. offset + limit <= s
  BY <1>10, <1>8, <1>4, <1>5, FS_Subset
<1>12. shown # {}
  <2>1. SUFFICES ASSUME shown = {} PROVE n = 0
    BY <2>1, <1>9
  <2> QED BY <2>1, <1>5, FS_EmptySet
<1> QED BY <1>11, <1>5, <1>12
-----------------------------------------------------------------------------
(* Walks.                                                                  *)

\* What the client has not been shown yet is at or after its page.
WalkOK(w, present) ==
  /\ w.pc # "idle" => w.atfirst \subseteq present \cap w.filter
  /\ w.pc \in {"count", "page"} =>
       /\ w.page >= 1
       /\ \A e \in w.atfirst \ w.seen :
            Unique(e) => Cardinality(Before(e, present \cap w.filter))
                           >= Offset(w.page, w.limit)
  /\ w.pc = "done" => \A e \in w.atfirst : Unique(e) => e \in w.seen

WalksOK == \A l \in Clients : WalkOK(list[l], Present)

EntitiesTypeOK ==
  /\ entity \in [EntityIds -> EntityRows]
  /\ list \in [Clients -> Walks]

LEMMA LimitsAreNumbers ==
  ASSUME NEW limit \in Limits \cup {0}
  PROVE  EffectiveLimit(limit) \in Nat \ {0}
BY LimitsAssumption DEF EffectiveLimit

LEMMA OffsetsGrow ==
  ASSUME NEW limit \in Limits \cup {0}, NEW page \in Nat, page >= 1
  PROVE  /\ Offset(page, limit) \in Nat
         /\ Offset(page + 1, limit) = Offset(page, limit) + EffectiveLimit(limit)
<1>1. PICK n \in Nat \ {0} : EffectiveLimit(limit) = n
  BY LimitsAreNumbers
<1>2. (page - 1) * n \in Nat
  BY SMT
<1>3. (page + 1 - 1) * n = (page - 1) * n + n
  BY SMT
<1> QED BY <1>1, <1>2, <1>3 DEF Offset

\* Entities are created behind or before a walk: nothing is missed.
LEMMA MoreRows ==
  ASSUME NEW w \in Walks, NEW present \in SUBSET EntityIds,
         NEW more \in SUBSET EntityIds, present \subseteq more, WalkOK(w, present)
  PROVE  WalkOK(w, more)
<1>1. ASSUME w.pc \in {"count", "page"}, NEW e \in w.atfirst \ w.seen, Unique(e)
      PROVE  Cardinality(Before(e, more \cap w.filter)) >= Offset(w.page, w.limit)
  <2>1. Cardinality(Before(e, present \cap w.filter)) >= Offset(w.page, w.limit)
    BY <1>1 DEF WalkOK
  <2>2. Before(e, present \cap w.filter) \subseteq Before(e, more \cap w.filter)
    BY DEF Before
  <2>3. IsFiniteSet(Before(e, more \cap w.filter))
    BY EntitiesAssumption, FS_Subset DEF Before
  <2>4. /\ Cardinality(Before(e, present \cap w.filter)) \in Nat
        /\ Cardinality(Before(e, more \cap w.filter)) \in Nat
        /\ Cardinality(Before(e, present \cap w.filter))
             <= Cardinality(Before(e, more \cap w.filter))
    BY <2>2, <2>3, FS_Subset, FS_CardinalityType
  <2>5. w.page \in Nat /\ w.page >= 1 /\ w.limit \in Limits \cup {0}
    BY <1>1 DEF Walks, WalkOK
  <2>6. Offset(w.page, w.limit) \in Nat
    BY <2>5, OffsetsGrow
  <2> QED BY <2>1, <2>4, <2>6
<1> QED BY <1>1 DEF WalkOK

LEMMA FirstPage ==
  ASSUME NEW present \in SUBSET EntityIds, NEW filter \in SUBSET EntityIds,
         NEW limit \in Limits, NEW w,
         w = [pc |-> "count", filter |-> filter, limit |-> limit, page |-> 1,
              atfirst |-> present \cap filter, seen |-> {}]
  PROVE  w \in Walks /\ WalkOK(w, present)
<1>1. w \in Walks
  BY DEF Walks
<1>2. Offset(1, limit) = 0
  <2>1. PICK n \in Nat \ {0} : EffectiveLimit(limit) = n
    BY LimitsAreNumbers
  <2>2. (1 - 1) * n = 0
    OBVIOUS
  <2> QED BY <2>1, <2>2 DEF Offset
<1>3. ASSUME NEW e \in EntityIds
      PROVE  Cardinality(Before(e, present \cap filter)) >= 0
  <2>1. IsFiniteSet(Before(e, present \cap filter))
    BY EntitiesAssumption, FS_Subset DEF Before
  <2>2. Cardinality(Before(e, present \cap filter)) \in Nat
    BY <2>1, FS_CardinalityType
  <2> QED BY <2>2
<1>4. /\ w.pc = "count" /\ w.page = 1 /\ w.limit = limit /\ w.filter = filter
      /\ w.atfirst = present \cap filter
  OBVIOUS
<1>5. \A e \in w.atfirst :
        Cardinality(Before(e, present \cap w.filter)) >= Offset(w.page, w.limit)
  BY <1>2, <1>3, <1>4
<1>6. w.pc # "idle" => w.atfirst \subseteq present \cap w.filter
  BY <1>4
<1>7. w.pc = "done" => FALSE
  BY <1>4
<1>8. w.page >= 1
  BY <1>4
<1> QED BY <1>1, <1>5, <1>6, <1>7, <1>8 DEF WalkOK

\* A page turned brings what it should, and only an empty one ends the walk.
LEMMA NextPage ==
  ASSUME NEW present \in SUBSET EntityIds, NEW w \in Walks, WalkOK(w, present),
         w.pc = "page", NEW shown \in SUBSET (present \cap w.filter),
         IsPage(shown, present \cap w.filter, Offset(w.page, w.limit),
                EffectiveLimit(w.limit)),
         NEW v,
         v = [w EXCEPT !.pc = IF shown = {} THEN "done" ELSE "count",
                       !.page = w.page + 1, !.seen = w.seen \cup shown]
  PROVE  v \in Walks /\ WalkOK(v, present)
<1>1. /\ w.page \in Nat /\ w.page >= 1 /\ w.limit \in Limits \cup {0}
      /\ w.filter \in SUBSET EntityIds /\ w.atfirst \subseteq present \cap w.filter
  BY DEF Walks, WalkOK
<1>2. /\ v.pc = IF shown = {} THEN "done" ELSE "count"
      /\ v.page = w.page + 1 /\ v.seen = w.seen \cup shown
      /\ v.filter = w.filter /\ v.limit = w.limit /\ v.atfirst = w.atfirst
      /\ v \in Walks
  <2>1. /\ v.page = w.page + 1 /\ v.seen = w.seen \cup shown
        /\ v.filter = w.filter /\ v.limit = w.limit /\ v.atfirst = w.atfirst
    BY DEF Walks
  <2>2. v.pc = IF shown = {} THEN "done" ELSE "count"
    BY DEF Walks
  <2>3. w.page + 1 \in Nat /\ w.seen \cup shown \in SUBSET EntityIds
    BY <1>1 DEF Walks
  <2>4. (IF shown = {} THEN "done" ELSE "count") \in {"idle", "count", "page", "done"}
    OBVIOUS
  <2>5. v \in Walks
    BY <2>3, <2>4, Zenon DEF Walks
  <2> QED BY <2>1, <2>2, <2>5
<1>3. /\ EffectiveLimit(w.limit) \in Nat \ {0} /\ Offset(w.page, w.limit) \in Nat
      /\ Offset(v.page, v.limit) = Offset(w.page, w.limit) + EffectiveLimit(w.limit)
  BY <1>1, <1>2, LimitsAreNumbers, OffsetsGrow
<1>4. ASSUME NEW e \in w.atfirst \ v.seen, Unique(e)
      PROVE  /\ shown # {}
             /\ Cardinality(Before(e, present \cap w.filter)) >= Offset(v.page, v.limit)
  <2>1. e \in (present \cap w.filter) \ shown /\ e \in w.atfirst \ w.seen
    BY <1>1, <1>2
  <2>2. Cardinality(Before(e, present \cap w.filter)) >= Offset(w.page, w.limit)
    BY <2>1, <1>4 DEF WalkOK
  <2>3. present \cap w.filter \in SUBSET EntityIds
    OBVIOUS
  <2> QED BY <2>1, <2>2, <2>3, <1>3, <1>4, PageIsComplete
<1>5. v.pc # "idle" => v.atfirst \subseteq present \cap v.filter
  BY <1>1, <1>2
<1>6. v.pc \in {"count", "page"} =>
        /\ v.page >= 1
        /\ \A e \in v.atfirst \ v.seen :
             Unique(e) => Cardinality(Before(e, present \cap v.filter))
                            >= Offset(v.page, v.limit)
  BY <1>1, <1>2, <1>4
<1>7. v.pc = "done" => \A e \in v.atfirst : Unique(e) => e \in v.seen
  BY <1>2, <1>4
<1> QED BY <1>2, <1>5, <1>6, <1>7 DEF WalkOK

LEMMA PresentIsSet == Present \in SUBSET EntityIds
BY DEF Present

\* A step on the entities, or on one walk.
LEMMA RowsChange ==
  ASSUME EntitiesTypeOK, WalksOK, UNCHANGED list,
         entity' \in [EntityIds -> EntityRows], Present \subseteq Present'
  PROVE  (EntitiesTypeOK /\ WalksOK)'
<1>1. PICK present \in SUBSET EntityIds : present = Present
  BY PresentIsSet
<1>2. PICK more \in SUBSET EntityIds : more = Present'
  BY DEF Present
<1>3. ASSUME NEW l \in Clients PROVE WalkOK(list[l], more)
  <2>1. PICK w \in Walks : w = list[l]
    BY DEF EntitiesTypeOK
  <2>2. WalkOK(w, present)
    BY <2>1, <1>1 DEF WalksOK
  <2> QED BY <2>1, <2>2, <1>1, <1>2, MoreRows
<1>4. WalksOK'
  BY <1>2, <1>3 DEF WalksOK
<1> QED BY <1>4 DEF EntitiesTypeOK

LEMMA WalkChanges ==
  ASSUME EntitiesTypeOK, WalksOK, UNCHANGED entity, NEW l \in Clients, NEW w \in Walks,
         WalkOK(w, Present), list' = [list EXCEPT ![l] = w]
  PROVE  (EntitiesTypeOK /\ WalksOK)'
<1>1. Present' = Present
  BY DEF Present
<1>2. EntitiesTypeOK'
  BY DEF EntitiesTypeOK
<1>3. \A m \in Clients : list'[m] = IF m = l THEN w ELSE list[m]
  BY DEF EntitiesTypeOK
<1>4. \A m \in Clients : WalkOK(list'[m], Present)
  BY <1>3 DEF WalksOK
<1> QED BY <1>1, <1>2, <1>4 DEF WalksOK

LEMMA EntitiesStep ==
  ASSUME EntitiesTypeOK, WalksOK, EntitiesNext
  PROVE  (EntitiesTypeOK /\ WalksOK)'
<1>1. ASSUME NEW e \in EntityIds, Create(e) PROVE (EntitiesTypeOK /\ WalksOK)'
  <2>1. entity' \in [EntityIds -> EntityRows]
    BY <1>1 DEF Create, EntitiesTypeOK, EntityRows, Participants
  <2>2. Present \subseteq Present'
    BY <1>1 DEF Create, EntitiesTypeOK, Present
  <2> QED BY <1>1, <2>1, <2>2, RowsChange DEF Create
<1>2. ASSUME NEW e \in EntityIds, NEW p \in {"", "id"}, SetParticipant(e, p)
      PROVE  (EntitiesTypeOK /\ WalksOK)'
  <2>1. entity' \in [EntityIds -> EntityRows]
    BY <1>2 DEF SetParticipant, EntitiesTypeOK, EntityRows, Participants
  <2>2. Present \subseteq Present'
    BY <1>2 DEF SetParticipant, EntitiesTypeOK, Present
  <2> QED BY <1>2, <2>1, <2>2, RowsChange DEF SetParticipant
<1>3. ASSUME NEW l \in Clients, NEW filter \in Filters, NEW limit \in Limits,
             StartWalk(l, filter, limit)
      PROVE  (EntitiesTypeOK /\ WalksOK)'
  <2>1. PICK present \in SUBSET EntityIds : present = Present
    BY PresentIsSet
  <2>2. PICK w : w = [pc |-> "count", filter |-> filter, limit |-> limit, page |-> 1,
                      atfirst |-> present \cap filter, seen |-> {}]
    OBVIOUS
  <2>3. w \in Walks /\ WalkOK(w, present)
    BY <2>2, FirstPage, EntitiesAssumption
  <2>4. list' = [list EXCEPT ![l] = w] /\ UNCHANGED entity
    BY <1>3, <2>1, <2>2 DEF StartWalk
  <2> QED BY <2>1, <2>3, <2>4, WalkChanges
<1>4. ASSUME NEW l \in Clients, CountRows(l) PROVE (EntitiesTypeOK /\ WalksOK)'
  <2>1. PICK w \in Walks : w = list[l]
    BY DEF EntitiesTypeOK
  <2>2. PICK v : v = [w EXCEPT !.pc = "page"]
    OBVIOUS
  <2>3. v \in Walks
    BY <2>2, Zenon DEF Walks
  <2>4. /\ v.pc = "page" /\ v.page = w.page /\ v.limit = w.limit /\ v.seen = w.seen
        /\ v.filter = w.filter /\ v.atfirst = w.atfirst /\ w.pc = "count"
    BY <1>4, <2>1, <2>2 DEF Walks, CountRows
  <2>5. WalkOK(w, Present)
    BY <2>1 DEF WalksOK
  <2>6. WalkOK(v, Present)
    BY <2>4, <2>5 DEF WalkOK
  <2>7. list' = [list EXCEPT ![l] = v] /\ UNCHANGED entity
    BY <1>4, <2>1, <2>2 DEF CountRows
  <2> QED BY <2>3, <2>6, <2>7, WalkChanges
<1>5. ASSUME NEW l \in Clients, FetchPage(l) PROVE (EntitiesTypeOK /\ WalksOK)'
  <2>1. PICK w \in Walks : w = list[l]
    BY DEF EntitiesTypeOK
  <2>2. PICK present \in SUBSET EntityIds : present = Present
    BY PresentIsSet
  <2>3. PICK shown \in SUBSET (present \cap w.filter) :
          /\ IsPage(shown, present \cap w.filter, Offset(w.page, w.limit),
                    EffectiveLimit(w.limit))
          /\ list' = [list EXCEPT ![l] =
               [w EXCEPT !.pc = IF shown = {} THEN "done" ELSE "count",
                         !.page = w.page + 1, !.seen = w.seen \cup shown]]
    BY <1>5, <2>1, <2>2, Zenon DEF FetchPage
  <2>4. PICK v : v = [w EXCEPT !.pc = IF shown = {} THEN "done" ELSE "count",
                               !.page = w.page + 1, !.seen = w.seen \cup shown]
    OBVIOUS
  <2>5. WalkOK(w, present) /\ w.pc = "page"
    BY <1>5, <2>1, <2>2 DEF WalksOK, FetchPage
  <2>6. v \in Walks /\ WalkOK(v, present)
    BY <2>3, <2>4, <2>5, NextPage, Zenon
  <2>7. list' = [list EXCEPT ![l] = v] /\ UNCHANGED entity
    BY <1>5, <2>3, <2>4 DEF FetchPage
  <2> QED BY <2>2, <2>6, <2>7, WalkChanges
<1>6. ASSUME NEW l \in Clients, ScanFails(l) PROVE (EntitiesTypeOK /\ WalksOK)'
  <2>1. NoWalk \in Walks
    BY DEF NoWalk, Walks
  <2>2. WalkOK(NoWalk, Present)
    BY DEF NoWalk, WalkOK
  <2> QED BY <1>6, <2>1, <2>2, WalkChanges DEF ScanFails
<1> QED BY <1>1, <1>2, <1>3, <1>4, <1>5, <1>6 DEF EntitiesNext

-----------------------------------------------------------------------------
(* Dispatch.                                                               *)

DispatchTypeOK ==
  /\ doc \in [Documents -> Rows]
  /\ call \in [Callers -> Calls]
  /\ requests \subseteq Requests
  /\ accepted \in Seq(Requests)
  /\ participants \subseteq EntityIds

\* What a caller holds: a participant to send to, the id of a message of its
\* document.
CallOK(c) ==
  /\ call[c].pc # "idle" => call[c].doc \in Documents /\ call[c].attempt \in 1..MaxCalls
  /\ call[c].pc \in {"decided", "submit"} => call[c].to \in participants
  /\ call[c].pc = "record" =>
       call[c].message \in 1..Len(accepted) /\ accepted[call[c].message].doc = call[c].doc
  /\ call[c].told = "sent" => call[c].doc \in Documents

\* Where a request came from: a decision its caller has acted upon.
RequestOK(r) ==
  /\ r.to \in participants
  /\ r.attempt <= call[r.by].attempt
  /\ r.attempt = call[r.by].attempt => call[r.by].pc # "decided"

\* One decision makes one request, on the wire or accepted.
Same(r, s) == r.by = s.by /\ r.attempt = s.attempt

RequestsAreSingle ==
  /\ \A r, s \in requests : Same(r, s) => r = s
  /\ \A r \in requests, i \in 1..Len(accepted) : ~Same(r, accepted[i])
  /\ \A i, j \in 1..Len(accepted) : Same(accepted[i], accepted[j]) => i = j

DispatchInv ==
  /\ DispatchTypeOK
  /\ Registered \subseteq participants
  /\ \A c \in Callers : CallOK(c)
  /\ \A r \in requests : RequestOK(r)
  /\ \A i \in 1..Len(accepted) : RequestOK(accepted[i])
  /\ RequestsAreSingle
  /\ SubmittedMeansSent

\* A step of one caller that sends nothing and changes no row: it keeps its
\* document and its attempt, or begins a new one.
LEMMA CallChanges ==
  ASSUME DispatchInv, UNCHANGED <<entityVars, doc, requests, accepted, participants>>,
         NEW c \in Callers, NEW k \in Calls, call' = [call EXCEPT ![c] = k],
         CallOK(c)', k.attempt >= call[c].attempt, k.pc # "decided" \/ k.attempt > call[c].attempt,
         k.told = "sent" => doc[k.doc].message # Null
  PROVE  DispatchInv'
<1> USE CallsAssumption
<1>1. \A b \in Callers : call'[b] = IF b = c THEN k ELSE call[b]
  BY DEF DispatchInv, DispatchTypeOK
<1>2. DispatchTypeOK'
  BY DEF DispatchInv, DispatchTypeOK
<1>3. Registered' = Registered
  BY DEF Registered, entityVars
<1>4. \A b \in Callers : CallOK(b)'
  BY <1>1 DEF DispatchInv, CallOK
<1>5. ASSUME NEW r \in Requests, RequestOK(r) PROVE RequestOK(r)'
  <2>1. r.by \in Callers /\ r.attempt \in Nat
    BY DEF Requests
  <2>2. call[c].attempt \in Nat /\ k.attempt \in Nat
    BY DEF DispatchInv, DispatchTypeOK, Calls
  <2> QED BY <1>1, <1>5, <2>1, <2>2 DEF RequestOK
<1>6. \A i \in 1..Len(accepted) : accepted[i] \in Requests
  BY DEF DispatchInv, DispatchTypeOK
<1>7. /\ \A r \in requests : RequestOK(r)'
      /\ \A i \in 1..Len(accepted) : RequestOK(accepted[i])'
  BY <1>5, <1>6 DEF DispatchInv, DispatchTypeOK
<1>8. RequestsAreSingle'
  BY DEF DispatchInv, RequestsAreSingle
<1>9. SubmittedMeansSent'
  BY <1>1 DEF DispatchInv, SubmittedMeansSent
<1> QED BY <1>2, <1>3, <1>4, <1>7, <1>8, <1>9 DEF DispatchInv

LEMMA ShouldDeliverKeeps ==
  ASSUME DispatchInv, EntitiesTypeOK, NEW c \in Callers, NEW d \in Documents,
         ShouldDeliver(c, d)
  PROVE  DispatchInv'
<1>1. /\ call[c] \in Calls /\ doc[d] \in Rows /\ doc[d].destinatar # Null
      /\ call[c].attempt < MaxCalls
  BY DEF DispatchInv, DispatchTypeOK, ShouldDeliver
<1>2. PICK e \in EntityIds : e = doc[d].destinatar
  BY <1>1 DEF Rows
<1>3. e \in participants
  BY <1>2 DEF ShouldDeliver, EntitiesTypeOK, EntityRows, Participants, Registered, DispatchInv
<1>4. PICK n \in 1..MaxCalls : n = call[c].attempt + 1
  BY <1>1, CallsAssumption DEF Calls
<1>5. PICK k : k = [pc |-> "decided", doc |-> d, to |-> e, attempt |-> n,
                    message |-> Null, told |-> Null]
  OBVIOUS
<1>6. k \in Calls
  BY <1>5, CallsAssumption DEF Calls
<1>7. /\ call' = [call EXCEPT ![c] = k]
      /\ UNCHANGED <<entityVars, doc, requests, accepted, participants>>
  BY <1>2, <1>4, <1>5 DEF ShouldDeliver
<1>8. call'[c] = k
  BY <1>7 DEF DispatchInv, DispatchTypeOK
<1>9. CallOK(c)'
  BY <1>3, <1>5, <1>7, <1>8, NullAssumption DEF CallOK
<1>10. k.attempt > call[c].attempt /\ k.attempt >= call[c].attempt
  BY <1>1, <1>4, <1>5 DEF Calls
<1>11. k.told # "sent"
  BY <1>5, NullAssumption
<1> QED BY <1>6, <1>7, <1>9, <1>10, <1>11, CallChanges

\* A caller that ends its call, or waits for the UPDATE that says so.
LEMMA CallFails ==
  ASSUME DispatchInv, NEW c \in Callers, SubmitFails(c) \/ Abandon(c)
  PROVE  DispatchInv'
<1>1. call[c] \in Calls /\ CallOK(c)
  BY DEF DispatchInv, DispatchTypeOK
<1>2. CASE SubmitFails(c)
  <2>1. PICK k : k = [call[c] EXCEPT !.pc = "failed"]
    OBVIOUS
  <2>2. k \in Calls
    BY <1>1, <2>1, Zenon DEF Calls
  <2>3. /\ k.pc = "failed" /\ k.doc = call[c].doc /\ k.attempt = call[c].attempt
        /\ k.told = call[c].told /\ call[c].pc \in {"decided", "submit"}
    BY <1>1, <1>2, <2>1 DEF Calls, SubmitFails
  <2>4. /\ call' = [call EXCEPT ![c] = k]
        /\ UNCHANGED <<entityVars, doc, requests, accepted, participants>>
    BY <1>2, <2>1 DEF SubmitFails
  <2>5. call'[c] = k
    BY <2>4 DEF DispatchInv, DispatchTypeOK
  <2>6. CallOK(c)'
    BY <1>1, <2>3, <2>4, <2>5 DEF CallOK
  <2>7. k.attempt >= call[c].attempt
    BY <1>1, <2>3 DEF Calls
  <2>8. k.told = "sent" => doc[k.doc].message # Null
    BY <2>3 DEF DispatchInv, SubmittedMeansSent
  <2> QED BY <2>2, <2>3, <2>4, <2>6, <2>7, <2>8, CallChanges
<1>3. CASE Abandon(c)
  <2>1. PICK k : k = [call[c] EXCEPT !.pc = "idle", !.to = Null, !.message = Null,
                                     !.told = Null]
    OBVIOUS
  <2>2. k \in Calls
    BY <1>1, <2>1, Zenon DEF Calls
  <2>3. k.pc = "idle" /\ k.attempt = call[c].attempt /\ k.told = Null
    BY <1>1, <2>1 DEF Calls
  <2>4. /\ call' = [call EXCEPT ![c] = k]
        /\ UNCHANGED <<entityVars, doc, requests, accepted, participants>>
    BY <1>3, <2>1 DEF Abandon, Returns
  <2>5. call'[c] = k
    BY <2>4 DEF DispatchInv, DispatchTypeOK
  <2>6. CallOK(c)' /\ k.told # "sent"
    BY <2>3, <2>5, NullAssumption DEF CallOK
  <2>7. k.attempt >= call[c].attempt
    BY <1>1, <2>3 DEF Calls
  <2> QED BY <2>2, <2>3, <2>4, <2>6, <2>7, CallChanges
<1> QED BY <1>2, <1>3

LEMMA AnsweredKeeps ==
  ASSUME DispatchInv, NEW c \in Callers, Answered(c)
  PROVE  DispatchInv'
<1>1. call[c] \in Calls /\ CallOK(c)
  BY DEF DispatchInv, DispatchTypeOK
<1>2. PICK i \in 1..Len(accepted) :
        /\ accepted[i] = RequestOf(c)
        /\ call' = [call EXCEPT ![c] = [call[c] EXCEPT !.pc = "record", !.message = i]]
  BY Zenon DEF Answered
<1>3. PICK k : k = [call[c] EXCEPT !.pc = "record", !.message = i]
  OBVIOUS
<1>4. i \in Nat /\ accepted[i].doc = call[c].doc
  BY <1>2 DEF RequestOf, DispatchInv, DispatchTypeOK
<1>5. k \in Calls
  BY <1>1, <1>3, <1>4, Zenon DEF Calls
<1>6. /\ k.pc = "record" /\ k.doc = call[c].doc /\ k.attempt = call[c].attempt
      /\ k.message = i /\ k.told = call[c].told /\ call[c].pc = "submit"
  BY <1>1, <1>3 DEF Calls, Answered
<1>7. /\ call' = [call EXCEPT ![c] = k]
      /\ UNCHANGED <<entityVars, doc, requests, accepted, participants>>
  BY <1>2, <1>3 DEF Answered
<1>8. call'[c] = k
  BY <1>7 DEF DispatchInv, DispatchTypeOK
<1>9. CallOK(c)'
  BY <1>1, <1>4, <1>6, <1>7, <1>8 DEF CallOK
<1>10. k.attempt >= call[c].attempt
  BY <1>1, <1>6 DEF Calls
<1>11. k.told = "sent" => doc[k.doc].message # Null
  BY <1>6 DEF DispatchInv, SubmittedMeansSent
<1> QED BY <1>5, <1>6, <1>7, <1>9, <1>10, <1>11, CallChanges

LEMMA SubmitKeeps ==
  ASSUME DispatchInv, NEW c \in Callers, Submit(c)
  PROVE  DispatchInv'
<1> USE CallsAssumption
<1>1. call[c] \in Calls /\ CallOK(c)
  BY DEF DispatchInv, DispatchTypeOK
<1>2. PICK k : k = [call[c] EXCEPT !.pc = "submit"]
  OBVIOUS
<1>3. k \in Calls
  BY <1>1, <1>2, Zenon DEF Calls
<1>4. /\ k.pc = "submit" /\ k.doc = call[c].doc /\ k.attempt = call[c].attempt
      /\ k.to = call[c].to /\ k.told = call[c].told /\ call[c].pc = "decided"
  BY <1>1, <1>2 DEF Calls, Submit
<1>5. PICK q : q = RequestOf(c)
  OBVIOUS
<1>6. /\ q.by = c /\ q.attempt = call[c].attempt /\ q.doc = call[c].doc
      /\ q.to = call[c].to
  BY <1>5 DEF RequestOf
<1>7. call[c].doc \in Documents /\ call[c].attempt \in 1..MaxCalls
      /\ call[c].to \in participants /\ call[c].to \in EntityIds
  BY <1>1, <1>4 DEF CallOK, DispatchInv, DispatchTypeOK
<1>8. q \in Requests
  BY <1>5, <1>7 DEF RequestOf, Requests
<1>9. /\ call' = [call EXCEPT ![c] = k] /\ requests' = requests \cup {q}
      /\ UNCHANGED <<entityVars, doc, accepted, participants>>
  BY <1>2, <1>5 DEF Submit
<1>10. \A b \in Callers : call'[b] = IF b = c THEN k ELSE call[b]
  BY <1>9 DEF DispatchInv, DispatchTypeOK
<1>11. DispatchTypeOK'
  BY <1>3, <1>8, <1>9 DEF DispatchInv, DispatchTypeOK
<1>12. (Registered \subseteq participants)'
  BY <1>9 DEF DispatchInv, Registered, entityVars
<1>13. \A b \in Callers : CallOK(b)'
  BY <1>4, <1>9, <1>10 DEF DispatchInv, CallOK
<1>14. ASSUME NEW r \in Requests, RequestOK(r) PROVE RequestOK(r)' /\ ~Same(r, q)
  <2>1. r.by \in Callers
    BY DEF Requests
  <2> QED BY <1>4, <1>6, <1>9, <1>10, <1>14, <2>1 DEF RequestOK, Same
<1>15. RequestOK(q)'
  BY <1>4, <1>6, <1>7, <1>9, <1>10 DEF RequestOK
<1>16. /\ \A r \in requests : r \in Requests
       /\ \A i \in 1..Len(accepted) : accepted[i] \in Requests
  BY DEF DispatchInv, DispatchTypeOK
<1>17. \A r \in requests' : RequestOK(r)'
  BY <1>9, <1>14, <1>15, <1>16 DEF DispatchInv
<1>18. (\A i \in 1..Len(accepted) : RequestOK(accepted[i]))'
  <2>1. \A i \in 1..Len(accepted) : RequestOK(accepted[i])'
    <3> SUFFICES ASSUME NEW i \in 1..Len(accepted) PROVE RequestOK(accepted[i])'
      OBVIOUS
    <3>1. PICK r \in Requests : r = accepted[i]
      BY <1>16
    <3>2. RequestOK(r)'
      BY <3>1, <1>14 DEF DispatchInv
    <3>3. r = accepted'[i]
      BY <3>1, <1>9
    <3> QED BY <3>2, <3>3 DEF RequestOK
  <2> QED BY <2>1, <1>9
<1>19. RequestsAreSingle'
  <2>1. /\ \A r \in requests : ~Same(r, q) /\ ~Same(q, r)
        /\ \A i \in 1..Len(accepted) : ~Same(q, accepted[i])
    BY <1>14, <1>16 DEF DispatchInv, Same
  <2> QED BY <1>9, <2>1 DEF DispatchInv, RequestsAreSingle
<1>20. SubmittedMeansSent'
  BY <1>4, <1>9, <1>10 DEF DispatchInv, SubmittedMeansSent
<1> QED BY <1>11, <1>12, <1>13, <1>17, <1>18, <1>19, <1>20 DEF DispatchInv

\* A caller that returns: k is its call, row the row of its document.
LEMMA ReturnKeeps ==
  ASSUME DispatchInv, UNCHANGED <<entityVars, requests, accepted, participants>>,
         NEW c \in Callers, NEW told \in {"sent", "error"}, Returns(c, told),
         call[c].pc # "idle", NEW row \in Rows,
         doc' = [doc EXCEPT ![call[c].doc] = row],
         row.status = "SUBMITTED" => row.message # Null,
         row.message # Null => /\ row.message \in 1..Len(accepted)
                               /\ accepted[row.message].doc = call[c].doc,
         doc[call[c].doc].message # Null \/ told = "sent" => row.message # Null
  PROVE  DispatchInv'
<1> USE CallsAssumption
<1>1. call[c] \in Calls /\ CallOK(c) /\ call[c].doc \in Documents
  BY DEF DispatchInv, DispatchTypeOK, CallOK
<1>2. PICK k : k = [call[c] EXCEPT !.pc = "idle", !.to = Null, !.message = Null,
                                   !.told = told]
  OBVIOUS
<1>3. k \in Calls
  BY <1>1, <1>2, Zenon DEF Calls
<1>4. /\ k.pc = "idle" /\ k.doc = call[c].doc /\ k.attempt = call[c].attempt
      /\ k.told = told
  BY <1>1, <1>2 DEF Calls
<1>5. call' = [call EXCEPT ![c] = k]
  BY <1>2 DEF Returns
<1>6. /\ \A b \in Callers : call'[b] = IF b = c THEN k ELSE call[b]
      /\ \A d \in Documents : doc'[d] = IF d = call[c].doc THEN row ELSE doc[d]
  BY <1>5 DEF DispatchInv, DispatchTypeOK
<1>7. DispatchTypeOK'
  BY <1>1, <1>3, <1>5 DEF DispatchInv, DispatchTypeOK
<1>8. (Registered \subseteq participants)'
  BY DEF DispatchInv, Registered, entityVars
<1>9. \A b \in Callers : CallOK(b)'
  BY <1>1, <1>4, <1>6 DEF DispatchInv, CallOK
<1>10. ASSUME NEW r \in Requests, RequestOK(r) PROVE RequestOK(r)'
  <2>1. r.by \in Callers
    BY DEF Requests
  <2> QED BY <1>4, <1>6, <1>10, <2>1 DEF RequestOK
<1>11. \A i \in 1..Len(accepted) : accepted[i] \in Requests
  BY DEF DispatchInv, DispatchTypeOK
<1>12. /\ \A r \in requests : RequestOK(r)'
       /\ \A i \in 1..Len(accepted) : RequestOK(accepted[i])'
  BY <1>10, <1>11 DEF DispatchInv, DispatchTypeOK
<1>13. RequestsAreSingle'
  BY DEF DispatchInv, RequestsAreSingle
<1>14. SubmittedMeansSent'
  <2>1. ASSUME NEW d \in Documents
        PROVE  /\ doc'[d].status = "SUBMITTED" => doc'[d].message # Null
               /\ doc'[d].message # Null =>
                    /\ doc'[d].message \in 1..Len(accepted)
                    /\ accepted[doc'[d].message].doc = d
    BY <1>6 DEF DispatchInv, SubmittedMeansSent
  <2>2. ASSUME NEW b \in Callers, call'[b].told = "sent"
        PROVE  doc'[call'[b].doc].message # Null
    <3>1. CASE b = c
      BY <2>2, <3>1, <1>1, <1>4, <1>6
    <3>2. CASE b # c
      BY <2>2, <3>2, <1>6 DEF DispatchInv, SubmittedMeansSent, CallOK
    <3> QED BY <3>1, <3>2
  <2> QED BY <2>1, <2>2 DEF SubmittedMeansSent
<1> QED BY <1>7, <1>8, <1>9, <1>12, <1>13, <1>14 DEF DispatchInv

\* What the three UPDATEs write.
LEMMA RecordKeeps ==
  ASSUME DispatchInv, NEW c \in Callers,
         RecordSubmitted(c) \/ RecordSubmittedFails(c) \/ RecordFailed(c)
  PROVE  DispatchInv'
<1> USE NullAssumption
<1>1. /\ call[c] \in Calls /\ CallOK(c) /\ call[c].pc \in {"record", "failed"}
      /\ UNCHANGED <<entityVars, requests, accepted, participants>>
  BY DEF DispatchInv, DispatchTypeOK, RecordSubmitted, RecordSubmittedFails, RecordFailed
<1>2. PICK d \in Documents : d = call[c].doc
  BY <1>1 DEF CallOK
<1>3. PICK old \in Rows : old = doc[d]
  BY DEF DispatchInv, DispatchTypeOK
<1>4. /\ doc = [doc EXCEPT ![d] = old]
      /\ old.status = "SUBMITTED" => old.message # Null
      /\ old.message # Null =>
           old.message \in 1..Len(accepted) /\ accepted[old.message].doc = d
  BY <1>3 DEF DispatchInv, DispatchTypeOK, SubmittedMeansSent
<1>5. ASSUME UNCHANGED doc, Returns(c, "error") PROVE DispatchInv'
  BY <1>1, <1>2, <1>3, <1>4, <1>5, ReturnKeeps
<1>6. ASSUME call[c].pc = "record", NEW told \in {"sent", "error"}, Returns(c, told),
             doc' = [doc EXCEPT ![d] = [old EXCEPT !.status = "SUBMITTED",
                                                   !.message = call[c].message]]
      PROVE  DispatchInv'
  <2>1. PICK row : row = [old EXCEPT !.status = "SUBMITTED", !.message = call[c].message]
    OBVIOUS
  <2>2. /\ call[c].message \in 1..Len(accepted) /\ call[c].message \in Nat
        /\ accepted[call[c].message].doc = d
    BY <1>1, <1>2, <1>6 DEF CallOK, DispatchInv, DispatchTypeOK
  <2>3. row \in Rows
    BY <2>1, <2>2, Zenon DEF Rows
  <2>4. row.message = call[c].message /\ row.message # Null
    BY <2>1, <2>2 DEF Rows
  <2>5. doc' = [doc EXCEPT ![call[c].doc] = row]
    BY <1>2, <1>6, <2>1
  <2>6. /\ call[c].pc # "idle"
        /\ row.status = "SUBMITTED" => row.message # Null
        /\ row.message # Null => /\ row.message \in 1..Len(accepted)
                                 /\ accepted[row.message].doc = call[c].doc
        /\ doc[call[c].doc].message # Null \/ told = "sent" => row.message # Null
    BY <1>2, <1>6, <2>2, <2>4
  <2>7. UNCHANGED <<entityVars, requests, accepted, participants>>
    BY <1>1
  <2> QED BY <1>6, <2>3, <2>5, <2>6, <2>7, ReturnKeeps, ZenonT(40)
<1>7. ASSUME doc' = [doc EXCEPT ![d] = [old EXCEPT !.status = "FAILED"]],
             Returns(c, "error")
      PROVE  DispatchInv'
  <2>1. PICK row : row = [old EXCEPT !.status = "FAILED"]
    OBVIOUS
  <2>2. row \in Rows
    BY <2>1, Zenon DEF Rows
  <2>3. row.message = old.message /\ row.status = "FAILED"
    BY <2>1 DEF Rows
  <2>4. doc' = [doc EXCEPT ![call[c].doc] = row]
    BY <1>2, <1>7, <2>1
  <2>5. /\ call[c].pc # "idle"
        /\ row.status = "SUBMITTED" => row.message # Null
        /\ row.message # Null => /\ row.message \in 1..Len(accepted)
                                 /\ accepted[row.message].doc = call[c].doc
        /\ doc[call[c].doc].message # Null \/ "error" = "sent" => row.message # Null
    BY <1>1, <1>2, <1>3, <1>4, <2>3
  <2> QED BY <1>1, <1>7, <2>2, <2>4, <2>5, ReturnKeeps
<1>8. CASE RecordSubmitted(c)
  <2>1. /\ call[c].pc = "record" /\ Returns(c, "sent")
        /\ doc' = [doc EXCEPT ![d] = [old EXCEPT !.status = "SUBMITTED",
                                                 !.message = call[c].message]]
    BY <1>2, <1>3, <1>8 DEF RecordSubmitted
  <2> QED BY <2>1, <1>6
<1>9. CASE RecordSubmittedFails(c)
  <2>1. /\ call[c].pc = "record" /\ Returns(c, "error")
        /\ \/ UNCHANGED doc
           \/ doc' = [doc EXCEPT ![d] = [old EXCEPT !.status = "SUBMITTED",
                                                    !.message = call[c].message]]
    BY <1>2, <1>3, <1>9 DEF RecordSubmittedFails
  <2> QED BY <2>1, <1>5, <1>6
<1>10. CASE RecordFailed(c)
  <2>1. /\ Returns(c, "error")
        /\ \/ UNCHANGED doc
           \/ doc' = [doc EXCEPT ![d] = [old EXCEPT !.status = "FAILED"]]
    BY <1>2, <1>3, <1>10 DEF RecordFailed
  <2> QED BY <2>1, <1>5, <1>7
<1> QED BY <1>8, <1>9, <1>10

\* The QTSP takes a request off the wire, or it is lost.
LEMMA AcceptKeeps ==
  ASSUME DispatchInv, NEW r \in requests, Accept(r)
  PROVE  DispatchInv'
<1>1. r \in Requests /\ accepted \in Seq(Requests)
  BY DEF DispatchInv, DispatchTypeOK
<1>2. PICK n \in Nat : n = Len(accepted)
  BY <1>1
<1>3. /\ accepted' \in Seq(Requests) /\ Len(accepted') = n + 1
      /\ \A i \in 1..n : accepted'[i] = accepted[i]
      /\ accepted'[n + 1] = r
  BY <1>1, <1>2 DEF Accept
<1>4. /\ requests' = requests \ {r}
      /\ UNCHANGED <<entityVars, doc, call, participants>>
  BY DEF Accept
<1>5. DispatchTypeOK'
  BY <1>3, <1>4 DEF DispatchInv, DispatchTypeOK
<1>6. (Registered \subseteq participants)'
  BY <1>4 DEF DispatchInv, Registered, entityVars
<1>7. \A c \in Callers : CallOK(c)'
  BY <1>2, <1>3, <1>4 DEF DispatchInv, CallOK
<1>8. \A q \in Requests : RequestOK(q) => RequestOK(q)'
  BY <1>4 DEF RequestOK
<1>9. \A q \in requests' : RequestOK(q)'
  BY <1>4, <1>8 DEF DispatchInv, DispatchTypeOK
<1>10. ASSUME NEW i \in 1..(n + 1) PROVE RequestOK(accepted[i])'
  <2>1. PICK q \in Requests : q = accepted'[i]
    BY <1>3
  <2>2. RequestOK(q)
    <3>1. CASE i = n + 1
      BY <3>1, <2>1, <1>3 DEF DispatchInv
    <3>2. CASE i \in 1..n
      BY <3>2, <2>1, <1>2, <1>3 DEF DispatchInv
    <3> QED BY <3>1, <3>2
  <2>3. RequestOK(q)'
    BY <2>2, <1>8
  <2> QED BY <2>1, <2>3 DEF RequestOK
<1>11. (\A i \in 1..Len(accepted) : RequestOK(accepted[i]))'
  BY <1>3, <1>10
<1>12. RequestsAreSingle'
  <2>1. /\ \A p, q \in requests : Same(p, q) => p = q
        /\ \A q \in requests, i \in 1..n : ~Same(q, accepted[i])
        /\ \A i, j \in 1..n : Same(accepted[i], accepted[j]) => i = j
    BY <1>2 DEF DispatchInv, RequestsAreSingle
  <2>2. \A i \in 1..n : ~Same(r, accepted[i]) /\ ~Same(accepted[i], r)
    BY <2>1 DEF Same
  <2>3. \A i \in 1..(n + 1) : i = n + 1 \/ i \in 1..n
    OBVIOUS
  <2>4. \A q \in requests', i \in 1..(n + 1) : ~Same(q, accepted'[i])
    BY <2>1, <2>3, <1>3, <1>4
  <2>5. \A i, j \in 1..(n + 1) : Same(accepted'[i], accepted'[j]) => i = j
    BY <2>1, <2>2, <2>3, <1>3
  <2>6. \A p, q \in requests' : Same(p, q) => p = q
    BY <2>1, <1>4
  <2> QED BY <2>4, <2>5, <2>6, <1>3 DEF RequestsAreSingle, Same
<1>13. SubmittedMeansSent'
  BY <1>2, <1>3, <1>4 DEF DispatchInv, SubmittedMeansSent
<1> QED BY <1>5, <1>6, <1>7, <1>9, <1>11, <1>12, <1>13 DEF DispatchInv

LEMMA DropKeeps ==
  ASSUME DispatchInv, NEW r \in requests, Drop(r)
  PROVE  DispatchInv'
<1>1. requests' \subseteq requests /\ UNCHANGED <<entityVars, doc, call, accepted, participants>>
  BY DEF Drop
<1>2. DispatchTypeOK'
  BY <1>1 DEF DispatchInv, DispatchTypeOK
<1>3. (Registered \subseteq participants)'
  BY <1>1 DEF DispatchInv, Registered, entityVars
<1>4. \A c \in Callers : CallOK(c)'
  BY <1>1 DEF DispatchInv, CallOK
<1>5. \A q \in requests' : RequestOK(q)'
  BY <1>1 DEF DispatchInv, RequestOK
<1>6. (\A i \in 1..Len(accepted) : RequestOK(accepted[i]))'
  BY <1>1 DEF DispatchInv, RequestOK
<1>7. RequestsAreSingle' /\ SubmittedMeansSent'
  BY <1>1 DEF DispatchInv, RequestsAreSingle, SubmittedMeansSent
<1> QED BY <1>2, <1>3, <1>4, <1>5, <1>6, <1>7 DEF DispatchInv

\* Entities come and go as participants.
LEMMA EntitiesKeepDispatch ==
  ASSUME DispatchInv, UNCHANGED <<doc, call, requests, accepted>>,
         participants' = participants \cup Registered'
  PROVE  DispatchInv'
<1>1. Registered' \subseteq EntityIds
  BY DEF Registered
<1>2. DispatchTypeOK' /\ (Registered \subseteq participants)'
  BY <1>1 DEF DispatchInv, DispatchTypeOK
<1>3. \A c \in Callers : CallOK(c)'
  BY DEF DispatchInv, CallOK
<1>4. \A q \in requests' : RequestOK(q)'
  BY DEF DispatchInv, RequestOK
<1>5. (\A i \in 1..Len(accepted) : RequestOK(accepted[i]))'
  BY DEF DispatchInv, RequestOK
<1>6. RequestsAreSingle' /\ SubmittedMeansSent'
  BY DEF DispatchInv, RequestsAreSingle, SubmittedMeansSent
<1> QED BY <1>2, <1>3, <1>4, <1>5, <1>6 DEF DispatchInv

-----------------------------------------------------------------------------
(* The inductive invariant and the theorems.                               *)

IInv == EntitiesTypeOK /\ WalksOK /\ DispatchInv

LEMMA InitImpliesInvariant == Init => IInv
<1> SUFFICES ASSUME Init PROVE IInv
  OBVIOUS
<1>1. EntitiesTypeOK
  <2>1. NoWalk \in Walks
    BY DEF NoWalk, Walks
  <2> QED BY <2>1 DEF Init, EntitiesInit, EntitiesTypeOK
<1>2. WalksOK
  BY DEF Init, EntitiesInit, WalksOK, WalkOK, NoWalk
<1>3. DispatchTypeOK
  <2>1. Present \subseteq EntityIds /\ Registered \subseteq EntityIds
    BY DEF Present, Registered
  <2>2. doc \in [Documents -> Rows]
    BY <2>1 DEF Init, Rows
  <2>3. call \in [Callers -> Calls]
    <3>1. 0 \in 0..MaxCalls
      BY CallsAssumption
    <3>2. [pc |-> "idle", doc |-> Null, to |-> Null, attempt |-> 0,
           message |-> Null, told |-> Null] \in Calls
      BY <3>1, Zenon DEF Calls
    <3> QED BY <3>2 DEF Init
  <2>4. requests \subseteq Requests /\ accepted \in Seq(Requests)
    BY EmptySeq DEF Init
  <2> QED BY <2>1, <2>2, <2>3, <2>4 DEF Init, DispatchTypeOK
<1>4. Registered \subseteq participants
  BY DEF Init
<1>5. \A c \in Callers : CallOK(c)
  BY NullAssumption DEF Init, CallOK
<1>6. requests = {} /\ Len(accepted) = 0
  BY DEF Init
<1>7. SubmittedMeansSent
  <2>1. \A d \in Documents : doc[d].status = Null /\ doc[d].message = Null
    BY DEF Init
  <2>2. \A c \in Callers : call[c].told = Null
    BY DEF Init
  <2> QED BY <2>1, <2>2, NullAssumption DEF SubmittedMeansSent
<1>8. RequestsAreSingle /\ \A i \in 1..Len(accepted) : RequestOK(accepted[i])
  <2>1. 1..Len(accepted) = {}
    BY <1>6
  <2> QED BY <2>1, <1>6 DEF RequestsAreSingle
<1>9. \A r \in requests : RequestOK(r)
  BY <1>6
<1> QED BY <1>1, <1>2, <1>3, <1>4, <1>5, <1>7, <1>8, <1>9 DEF IInv, DispatchInv

LEMMA NextKeepsInvariant == IInv /\ [Next]_vars => IInv'
<1> SUFFICES ASSUME IInv, [Next]_vars PROVE IInv'
  OBVIOUS
<1>1. ASSUME UNCHANGED entityVars PROVE (EntitiesTypeOK /\ WalksOK)'
  BY <1>1 DEF IInv, EntitiesTypeOK, WalksOK, Present, entityVars
<1>2. CASE /\ EntitiesNext /\ participants' = participants \cup Registered'
           /\ UNCHANGED <<doc, call, requests, accepted>>
  BY <1>2, EntitiesStep, EntitiesKeepDispatch DEF IInv
<1>3. ASSUME NEW c \in Callers, NEW d \in Documents, ShouldDeliver(c, d) PROVE IInv'
  BY <1>1, <1>3, ShouldDeliverKeeps DEF IInv, ShouldDeliver
<1>4. ASSUME NEW c \in Callers, Step(c) \/ Abandon(c) PROVE IInv'
  <2>1. UNCHANGED entityVars
    BY <1>4 DEF Step, Abandon, Submit, SubmitFails, Answered, RecordSubmitted,
                RecordSubmittedFails, RecordFailed
  <2>2. DispatchInv'
    BY <1>4, SubmitKeeps, CallFails, AnsweredKeeps, RecordKeeps DEF IInv, Step
  <2> QED BY <1>1, <2>1, <2>2 DEF IInv
<1>5. ASSUME NEW r \in requests, Accept(r) PROVE IInv'
  BY <1>1, <1>5, AcceptKeeps DEF IInv, Accept
<1>6. ASSUME NEW r \in requests, Drop(r) PROVE IInv'
  BY <1>1, <1>6, DropKeeps DEF IInv, Drop
<1>7. CASE UNCHANGED vars
  <2>1. DispatchInv'
    BY <1>7 DEF vars, deliveryVars, entityVars, IInv, DispatchInv, DispatchTypeOK, Registered,
                CallOK, RequestOK, RequestsAreSingle, SubmittedMeansSent
  <2> QED BY <1>1, <1>7, <2>1 DEF IInv, vars
<1> QED BY <1>2, <1>3, <1>4, <1>5, <1>6, <1>7 DEF Next

LEMMA InvariantImplies ==
  IInv => TypeOK /\ SubmittedMeansSent /\ OneMessagePerDecision /\ WalkMissesNobody
<1> SUFFICES ASSUME IInv
             PROVE  TypeOK /\ SubmittedMeansSent /\ OneMessagePerDecision /\ WalkMissesNobody
  OBVIOUS
<1>1. TypeOK /\ SubmittedMeansSent
  BY DEF IInv, DispatchInv, DispatchTypeOK, EntitiesTypeOK, TypeOK
<1>2. OneMessagePerDecision
  BY DEF IInv, DispatchInv, RequestsAreSingle, Same, RequestOK, OneMessagePerDecision
<1>3. WalkMissesNobody
  BY DEF IInv, WalksOK, WalkOK, Unique, WalkMissesNobody
<1> QED BY <1>1, <1>2, <1>3

\* The invariant holds in every state: rows and walks as above, callers hold
\* participants and messages of their own document, requests are single.
THEOREM InvariantCorrect == Spec => []IInv
BY InitImpliesInvariant, NextKeepsInvariant, PTL DEF Spec

\* Rows, walks, calls and messages keep their types.
THEOREM TypeCorrect == Spec => []TypeOK
BY InvariantCorrect, InvariantImplies, PTL

\* Dispatch records only messages the QTSP has, of the document itself.
THEOREM SubmittedCorrect == Spec => []SubmittedMeansSent
BY InvariantCorrect, InvariantImplies, PTL

\* The errors and timeouts of Dispatch never send a decision twice.
THEOREM SingleCorrect == Spec => []OneMessagePerDecision
BY InvariantCorrect, InvariantImplies, PTL

\* The pages of List, one after the other, miss no entity of a unique name
\* that was there when the client began.
THEOREM WalkCorrect == Spec => []WalkMissesNobody
BY InvariantCorrect, InvariantImplies, PTL
=============================================================================
