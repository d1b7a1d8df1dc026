------------------------------- MODULE Entities -------------------------------
(***************************************************************************)
(* The register of external parties, internal/entities/service.go: rows of *)
(* entitati are created, and clients list them page by page. One call of   *)
(* List is two queries, the count and the page, with creations between.    *)
(*                                                                         *)
(* No code deactivates an entity or sets its delivery_participant_id: the  *)
(* first never happens here, the second is an external action.             *)
(***************************************************************************)
EXTENDS Integers, FiniteSets

CONSTANTS
  EntityIds,      \* the entities that may be created
  Denumire,       \* Denumire[e]: the name List orders by; names may coincide
  Filters,        \* what Tip, InstitutionID and Search select: sets of entities
  Clients,        \* clients that list
  Limits,         \* page sizes they ask for
  MaxLimit,       \* the 100 of List
  DefaultLimit,   \* the 20 of List
  Null            \* NULL

ASSUME EntitiesAssumption ==
  /\ IsFiniteSet(EntityIds) /\ Null \notin EntityIds \cup {"", "id"}
  /\ Denumire \in [EntityIds -> Int]
  /\ Filters \subseteq SUBSET EntityIds
ASSUME LimitsAssumption ==
  /\ Limits \subseteq Int
  /\ MaxLimit \in Nat /\ DefaultLimit \in 1..MaxLimit

VARIABLES
  entity,         \* the rows of entitati
  list            \* list[l]: the walk of client l through the pages

entityVars == <<entity, list>>

\* delivery_participant_id: NULL, the empty string or an id.
Participants == {Null, "", "id"}

EntityRows == [present : BOOLEAN, participant : Participants]

Walks ==
  [pc     : {"idle", "count", "page", "done"},
   filter : SUBSET EntityIds,
   limit  : Limits \cup {0},
   page   : Nat,                 \* the page the client is at
   atfirst : SUBSET EntityIds,   \* the rows selected when the walk began
   seen   : SUBSET EntityIds]    \* the rows it was shown

NoWalk == [pc |-> "idle", filter |-> {}, limit |-> 0, page |-> 0,
           atfirst |-> {}, seen |-> {}]

EntitiesInit ==
  /\ entity \in [EntityIds -> EntityRows]
  /\ \A e \in EntityIds : ~entity[e].present => entity[e].participant = Null
  /\ list = [l \in Clients |-> NoWalk]

-----------------------------------------------------------------------------
(* The rows and pages List selects.                                        *)

Present == {e \in EntityIds : entity[e].present}

\* limit < 1 or > 100 is replaced by the default.
EffectiveLimit(limit) ==
  IF limit < 1 \/ limit > MaxLimit THEN DefaultLimit ELSE limit

\* Mutant: pages are counted from one, but the offset is not.
MutantOffset(page, limit) == page * EffectiveLimit(limit)

Offset(page, limit) == (page - 1) * EffectiveLimit(limit)

Least(m, n) == IF m < n THEN m ELSE n

\* ORDER BY denumire LIMIT limit OFFSET offset: rows of one name come in any
\* order, and another one with every query.
IsPage(shown, rows, offset, limit) ==
  \E before \in SUBSET rows :
    LET rest == rows \ before IN
    /\ Cardinality(before) = Least(offset, Cardinality(rows))
    /\ \A b \in before, r \in rest : Denumire[b] <= Denumire[r]
    /\ shown \subseteq rest
    /\ Cardinality(shown) = Least(limit, Cardinality(rest))
    /\ \A s \in shown, r \in rest \ shown : Denumire[s] <= Denumire[r]

\* Entitate.DeliveryParticipantID is a string: a NULL cannot be scanned.
Scannable(e) == entity[e].participant # Null

-----------------------------------------------------------------------------
(* Create, List, and who sets the participant ids.                         *)

\* The INSERT names no delivery_participant_id.
Create(e) ==
  /\ ~entity[e].present
  /\ entity' = [entity EXCEPT ![e] = [present |-> TRUE, participant |-> Null]]
  /\ UNCHANGED list

\* External: an administrator of the database registers or withdraws e.
SetParticipant(e, p) ==
  /\ entity[e].present
  /\ entity' = [entity EXCEPT ![e] = [present |-> TRUE, participant |-> p]]
  /\ UNCHANGED list

\* A client asks for the first page of what filter selects.
StartWalk(l, filter, limit) ==
  /\ list[l].pc \in {"idle", "done"}
  /\ list' = [list EXCEPT ![l] =
       [pc |-> "count", filter |-> filter, limit |-> limit, page |-> 1,
        atfirst |-> Present \cap filter, seen |-> {}]]
  /\ UNCHANGED entity

\* SELECT COUNT(*): the total goes to the client and decides nothing.
CountRows(l) ==
  /\ list[l].pc = "count"
  /\ list' = [list EXCEPT ![l] = [list[l] EXCEPT !.pc = "page"]]
  /\ UNCHANGED entity

\* The page is returned; unless it is empty the client asks for the next one.
FetchPage(l) ==
  /\ list[l].pc = "page"
  /\ \E shown \in SUBSET (Present \cap list[l].filter) :
       /\ IsPage(shown, Present \cap list[l].filter,
                 Offset(list[l].page, list[l].limit), EffectiveLimit(list[l].limit))
       /\ \A e \in shown : Scannable(e)
       /\ list' = [list EXCEPT ![l] =
            [list[l] EXCEPT !.pc = IF shown = {} THEN "done" ELSE "count",
                            !.page = list[l].page + 1,
                            !.seen = list[l].seen \cup shown]]
  /\ UNCHANGED entity

\* A row of the page cannot be scanned: List returns an error.
ScanFails(l) ==
  /\ list[l].pc = "page"
  /\ \E shown \in SUBSET (Present \cap list[l].filter) :
       /\ IsPage(shown, Present \cap list[l].filter,
                 Offset(list[l].page, list[l].limit), EffectiveLimit(list[l].limit))
       /\ \E e \in shown : ~Scannable(e)
  /\ list' = [list EXCEPT ![l] = NoWalk]
  /\ UNCHANGED entity

EntitiesNext ==
  \/ \E e \in EntityIds : Create(e)
  \/ \E e \in EntityIds, p \in {"", "id"} : SetParticipant(e, p)
  \/ \E l \in Clients, filter \in Filters, limit \in Limits : StartWalk(l, filter, limit)
  \/ \E l \in Clients : CountRows(l) \/ FetchPage(l) \/ ScanFails(l)

-----------------------------------------------------------------------------

\* A client that turns the pages of a list until one is empty has seen every
\* entity the filter selected when it began, although others are created in
\* between and move it to later pages. It takes a name no other entity has:
\* entities of one name may change places between two pages.
WalkMissesNobody ==
  \A l \in Clients : list[l].pc = "done" =>
    \A e \in list[l].atfirst :
      (\A f \in EntityIds \ {e} : Denumire[f] # Denumire[e]) => e \in list[l].seen
=============================================================================
