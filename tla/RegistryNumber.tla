---------------------------- MODULE RegistryNumber ----------------------------
(***************************************************************************)
(* GenerateNextNumber (internal/registry/number.go) run by concurrent      *)
(* callers on several hosts.  A call is one Serializable transaction:      *)
(* BEGIN, SELECT ... FOR UPDATE of the registry row, the annual reset in   *)
(* Go, UPDATE, COMMIT.  As in WorkflowEngine the SELECT takes the snapshot,*)
(* waits for the row lock and fails when the row was rewritten after the   *)
(* snapshot; every other failure (connection, context, a serialization     *)
(* conflict at COMMIT, a killed pod) is Abort.                             *)
(*                                                                         *)
(* Time is a number of instants, two in a year: the first instant of       *)
(* 1 January and the rest of the year.  A host clock may lag behind.       *)
(***************************************************************************)
EXTENDS Naturals, Sequences, FiniteSets

CONSTANTS
  Registries,      \* registre ids
  Callers,         \* concurrent calls of GenerateNextNumber
  Prefixes,        \* registry prefixes; two registries may share one
  InitialRows,     \* contents of registre to start from
  Null,            \* SQL NULL, a nil pointer, nobody
  MaxInteger,     \* largest value of the INTEGER columns nr_curent, nr_urmator
  MaxLag,          \* how far a host clock lags behind the true time
  StartClock,      \* the instant at which InitialRows holds
  MaxClock         \* bound: time stops here

YearOf(t)  == t \div 2
NewYear(y) == 2 * y          \* the instant time.Date(y, 1, 1, 0, 0, 0, 0, UTC)

\* A row of registre.  The key UNIQUE(institution_id, prefix, an) is kept per
\* prefix: registries of different institutions never conflict.
Rows ==
  [prefix : Prefixes, an : Nat, nrCurent : Nat, nrUrmator : Nat,
   dataReset : Nat \cup {Null}, active : BOOLEAN]

ASSUME InitialRowsAssumption ==
  \A rows \in InitialRows :
    /\ rows \in [Registries -> Rows]
    /\ \A r, q \in Registries :
         r # q => <<rows[r].prefix, rows[r].an>> # <<rows[q].prefix, rows[q].an>>
ASSUME NullAssumption ==
  Null \notin Registries /\ Null \notin Callers /\ Null \notin Nat /\ Null \notin Rows
ASSUME BoundsAssumption ==
  /\ MaxInteger \in Nat /\ MaxLag \in Nat
  /\ StartClock \in Nat /\ MaxClock \in Nat

VARIABLES
  clock,       \* the true time
  reg,         \* reg[r]: the committed row of registry r
  allocated,   \* allocated[r]: the numbers committed for r, in commit order
  lockedBy,    \* lockedBy[r]: the caller holding the row lock of r, or Null
  tx           \* tx[c]: the transaction of caller c

vars == <<clock, reg, allocated, lockedBy, tx>>

Phases == {"idle", "begun", "waiting", "locked", "updated"}

Allocations == [an : Nat, number : Nat, now : Nat]

TxType ==
  [phase : Phases, reg : Registries \cup {Null},
   stale : BOOLEAN,               \* the row was rewritten after the snapshot
   read  : Rows \cup {Null},      \* what the SELECT returned
   write : Rows \cup {Null},      \* what the UPDATE wrote, not yet committed
   now   : Nat]                   \* time.Now() of the call

IdleTx == [phase |-> "idle", reg |-> Null, stale |-> FALSE,
           read |-> Null, write |-> Null, now |-> 0]

Init ==
  /\ clock = StartClock
  /\ reg \in InitialRows
  /\ allocated = [r \in Registries |-> <<>>]
  /\ lockedBy = [r \in Registries |-> Null]
  /\ tx = [c \in Callers |-> IdleTx]

-----------------------------------------------------------------------------
(* The pure parts.                                                         *)

\* The condition of the annual reset (number.go:44).
ResetDue(row, now) ==
  /\ row.dataReset # Null
  /\ now > row.dataReset
  /\ YearOf(now) > row.an

\* Mutant: the next reset is put one year too far.
MutantLateReset(row, now) ==
  IF ResetDue(row, now)
    THEN [row EXCEPT !.nrUrmator = 1, !.an = YearOf(now),
                     !.dataReset = NewYear(YearOf(now) + 2)]
    ELSE row

\* The row the number is taken from: restarted at 1 in a new year
\* (number.go:42-49).
Current(row, now) ==
  IF ResetDue(row, now)
    THEN [row EXCEPT !.nrUrmator = 1, !.an = YearOf(now),
                     !.dataReset = NewYear(YearOf(now) + 1)]
    ELSE row

\* Mutant: the UPDATE leaves nr_curent NULL.
MutantTakenNull(row) == [row EXCEPT !.nrCurent = Null, !.nrUrmator = row.nrUrmator + 1]

\* The row after the UPDATE (number.go:51-58).
Taken(row) == [row EXCEPT !.nrCurent = row.nrUrmator, !.nrUrmator = row.nrUrmator + 1]

\* The UPDATE is refused: the counter leaves the INTEGER range, or another
\* registry already has the prefix and the new year.
Refused(r, row) ==
  \/ row.nrUrmator > MaxInteger
  \/ \E q \in Registries \ {r} : reg[q].prefix = row.prefix /\ reg[q].an = row.an

\* The unique index holds an entry of that key which another registry's open
\* transaction is writing or moving away: the UPDATE waits for its end.
KeyBusy(c, row) ==
  \E e \in Callers :
    /\ tx[e].phase = "updated" /\ tx[e].reg # tx[c].reg
    /\ \E other \in {tx[e].write, reg[tx[e].reg]} :
         other.prefix = row.prefix /\ other.an = row.an

\* The number a caller is handed: prefix and counter, formatted (number.go:67).
Displayed(r, e) == <<reg[r].prefix, e.number>>

-----------------------------------------------------------------------------
(* Row locks and snapshots of PostgreSQL, as in WorkflowEngine.            *)

Invalidated(r) ==
  [c \in Callers |->
     IF tx[c].phase = "waiting" /\ tx[c].reg = r
       THEN [tx[c] EXCEPT !.stale = TRUE] ELSE tx[c]]

Released(c) == [r \in Registries |-> IF lockedBy[r] = c THEN Null ELSE lockedBy[r]]

RollBack(c) ==
  /\ tx' = [tx EXCEPT ![c] = IdleTx]
  /\ lockedBy' = Released(c)
  /\ UNCHANGED <<clock, reg, allocated>>

-----------------------------------------------------------------------------
(* GenerateNextNumber, one step per statement.                             *)

Begin(c, r) ==
  /\ tx[c].phase = "idle"
  /\ tx' = [tx EXCEPT ![c] = [IdleTx EXCEPT !.phase = "begun", !.reg = r]]
  /\ UNCHANGED <<clock, reg, allocated, lockedBy>>

\* "registry not found or inactive"
NotFound(c) ==
  /\ tx[c].phase = "begun"
  /\ ~reg[tx[c].reg].active
  /\ RollBack(c)

\* Mutant: the SELECT does not look at the column active.
MutantSnapshotOfClosed(c) ==
  /\ tx[c].phase = "begun"
  /\ tx' = [tx EXCEPT ![c] = [@ EXCEPT !.phase = "waiting"]]
  /\ UNCHANGED <<clock, reg, allocated, lockedBy>>

TakeSnapshot(c) ==
  /\ tx[c].phase = "begun"
  /\ reg[tx[c].reg].active
  /\ tx' = [tx EXCEPT ![c] = [@ EXCEPT !.phase = "waiting"]]
  /\ UNCHANGED <<clock, reg, allocated, lockedBy>>

\* Mutant: a plain SELECT below Serializable.
MutantPlainSelect(c) ==
  /\ tx[c].phase = "waiting"
  /\ tx' = [tx EXCEPT ![c] = [@ EXCEPT !.phase = "locked", !.read = reg[tx[c].reg]]]
  /\ UNCHANGED <<clock, reg, allocated, lockedBy>>

SelectForUpdate(c) ==
  /\ tx[c].phase = "waiting"
  /\ lockedBy[tx[c].reg] = Null
  /\ ~tx[c].stale
  /\ lockedBy' = [lockedBy EXCEPT ![tx[c].reg] = c]
  /\ tx' = [tx EXCEPT ![c] = [@ EXCEPT !.phase = "locked", !.read = reg[tx[c].reg]]]
  /\ UNCHANGED <<clock, reg, allocated>>

SerializationFailure(c) ==
  /\ tx[c].phase = "waiting"
  /\ lockedBy[tx[c].reg] = Null
  /\ tx[c].stale
  /\ RollBack(c)

\* The host reads its clock, applies the reset and sends the UPDATE.
UpdateCounter(c, now) ==
  LET row == Taken(Current(tx[c].read, now))
  IN  /\ tx[c].phase = "locked"
      /\ now <= clock /\ clock <= now + MaxLag
      /\ ~KeyBusy(c, row) /\ ~Refused(tx[c].reg, row)
      /\ tx' = [tx EXCEPT ![c] =
                  [@ EXCEPT !.phase = "updated", !.write = row, !.now = now]]
      /\ UNCHANGED <<clock, reg, allocated, lockedBy>>

\* Mutant: a refused UPDATE returns without ending the transaction.
MutantRefusedKeepsLock(c, now) ==
  LET row == Taken(Current(tx[c].read, now))
  IN  /\ tx[c].phase = "locked"
      /\ now <= clock /\ clock <= now + MaxLag
      /\ ~KeyBusy(c, row) /\ Refused(tx[c].reg, row)
      /\ tx' = [tx EXCEPT ![c] = IdleTx]
      /\ UNCHANGED <<clock, reg, allocated, lockedBy>>

UpdateRefused(c, now) ==
  LET row == Taken(Current(tx[c].read, now))
  IN  /\ tx[c].phase = "locked"
      /\ now <= clock /\ clock <= now + MaxLag
      /\ ~KeyBusy(c, row) /\ Refused(tx[c].reg, row)
      /\ RollBack(c)

\* The number is the caller's, whether or not the answer reaches it.
Commit(c) ==
  LET r == tx[c].reg
      row == tx[c].write
  IN  /\ tx[c].phase = "updated"
      /\ reg' = [reg EXCEPT ![r] = row]
      /\ allocated' = [allocated EXCEPT ![r] =
           Append(@, [an |-> row.an, number |-> row.nrCurent, now |-> tx[c].now])]
      /\ lockedBy' = Released(c)
      /\ tx' = [Invalidated(r) EXCEPT ![c] = IdleTx]
      /\ UNCHANGED clock

Abort(c) == tx[c].phase # "idle" /\ RollBack(c)

-----------------------------------------------------------------------------
\* An administrator closes a registry (not in this repository).
Deactivate(r) ==
  /\ lockedBy[r] = Null
  /\ reg[r].active
  /\ reg' = [reg EXCEPT ![r] = [@ EXCEPT !.active = FALSE]]
  /\ tx' = Invalidated(r)
  /\ UNCHANGED <<clock, allocated, lockedBy>>

Tick ==
  /\ clock < MaxClock
  /\ clock' = clock + 1
  /\ UNCHANGED <<reg, allocated, lockedBy, tx>>

Next ==
  \/ \E c \in Callers :
       \/ \E r \in Registries : Begin(c, r)
       \/ NotFound(c)
       \/ TakeSnapshot(c)
       \/ SelectForUpdate(c)
       \/ SerializationFailure(c)
       \/ \E now \in 0..MaxClock : UpdateCounter(c, now) \/ UpdateRefused(c, now)
       \/ Commit(c)
       \/ Abort(c)
  \/ \E r \in Registries : Deactivate(r)
  \/ Tick

\* The goroutine sends its next statement and the server answers.
Proceed(c) == NotFound(c) \/ TakeSnapshot(c) \/ Commit(c)

\* Statements that may wait for another transaction: PostgreSQL wakes a waiter
\* when the transaction it waits for ends, and queues the waiters of a row.
Served(c) ==
  \/ SelectForUpdate(c) \/ SerializationFailure(c)
  \/ \E now \in 0..MaxClock : UpdateCounter(c, now) \/ UpdateRefused(c, now)

Fairness == \A c \in Callers : WF_vars(Proceed(c)) /\ SF_vars(Served(c))

Spec == Init /\ [][Next]_vars /\ Fairness

-----------------------------------------------------------------------------
(* Properties.                                                             *)

\* Every variable has its type.
TypeOK ==
  /\ clock \in Nat
  /\ reg \in [Registries -> Rows]
  /\ allocated \in [Registries -> Seq(Allocations)]
  /\ lockedBy \in [Registries -> Callers \cup {Null}]
  /\ tx \in [Callers -> TxType]

\* e follows f without a gap: the next number of the same year, or the first
\* number of a later one.
Follows(e, f) ==
  \/ e.an = f.an /\ e.number = f.number + 1
  \/ e.an > f.an /\ e.number = 1

\* The numbers committed for a registry form gapless yearly series and the row
\* stands right after the last of them, whatever callers interleave, fail or
\* disagree about the time ("atomically allocates the next document number",
\* number.go:14).
SeriesAreGapless ==
  \A r \in Registries :
    LET n == Len(allocated[r])
    IN  /\ \A i \in 2..n : Follows(allocated[r][i], allocated[r][i-1])
        /\ n > 0 =>
             /\ reg[r].an = allocated[r][n].an
             /\ reg[r].nrCurent = allocated[r][n].number
             /\ reg[r].nrUrmator = allocated[r][n].number + 1

\* No two calls get the same number of the same year (number.go:15 "to prevent
\* race conditions").
NumbersUnique ==
  \A r \in Registries : \A i, j \in 1..Len(allocated[r]) :
    i # j => <<allocated[r][i].an, allocated[r][i].number>>
               # <<allocated[r][j].an, allocated[r][j].number>>

\* The call that took number i of registry r performed the annual reset.
Resets(r, i) == i > 1 /\ allocated[r][i].an > allocated[r][i-1].an

\* Once a registry has reset it keeps to the calendar: a number is never taken
\* from a series whose year is over for the host that asks, except in the first
\* instant of the new year, as now.After(dataReset) is strict (number.go:44-48).
SeriesMatchesYear ==
  \A r \in Registries : \A i, j \in 1..Len(allocated[r]) :
    LET e == allocated[r][j]
    IN  Resets(r, i) /\ i <= j =>
          e.an >= YearOf(e.now) \/ e.now = NewYear(YearOf(e.now))

\* What the committed rows and numbers amount to.
Book ==
  [r \in Registries |->
     [prefix |-> reg[r].prefix, year |-> reg[r].an, next |-> reg[r].nrUrmator,
      open |-> reg[r].active]]

Issued ==
  [r \in Registries |->
     [i \in 1..Len(allocated[r]) |->
        [an |-> allocated[r][i].an, number |-> allocated[r][i].number]]]

Abstract ==
  INSTANCE NumberSeries WITH
    book <- Book, issued <- Issued, Years <- {YearOf(t) : t \in 0..MaxClock}

\* Whatever callers interleave, wait, fail or read an old clock, the effect is
\* that of calls made one after the other: each committed number is the next
\* one of a registry that is open at that moment, its year is no other
\* registry's, and a closed registry gives out no more ("atomically allocates",
\* number.go:14; the read of the row at number.go:29-34 is long past by then).
ImplementsNumberSeries == Abstract!Spec

\* Every call returns, also when the UPDATE is refused.
EveryNumberCallEnds ==
  \A c \in Callers : tx[c].phase # "idle" ~> tx[c].phase = "idle"

\* The displayed number names one document of the registry (the plan of the
\* archive integration calls nr_inregistrare the "identificator unic").
DisplayedNumbersUnique ==
  \A r \in Registries : \A i, j \in 1..Len(allocated[r]) :
    i # j => Displayed(r, allocated[r][i]) # Displayed(r, allocated[r][j])
=============================================================================
