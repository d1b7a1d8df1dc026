---------------------------- MODULE RegistryProofs ----------------------------
(***************************************************************************)
(* Theorems about RegistryNumber for every number of registries, callers   *)
(* and hosts, every initial content of the table and every clock lag.      *)
(***************************************************************************)
EXTENDS RegistryNumber, SequenceTheorems, TLAPS

\* An idle transaction is a transaction.
LEMMA IdleTxType == IdleTx \in TxType
BY DEF IdleTx, TxType, Phases

\* Years and new years are numbers.
LEMMA Calendar ==
  ASSUME NEW t \in Nat
  PROVE  YearOf(t) \in Nat /\ NewYear(t) \in Nat
BY DEF YearOf, NewYear

\* What taking a number does to a row.
LEMMA TakenFields ==
  ASSUME NEW row \in Rows
  PROVE  /\ Taken(row) \in Rows /\ Taken(row).an = row.an
         /\ Taken(row).nrCurent = row.nrUrmator
         /\ Taken(row).nrUrmator = row.nrUrmator + 1
<1>1. row.nrUrmator \in Nat /\ row.nrUrmator + 1 \in Nat
  BY DEF Rows
<1> QED BY <1>1 DEF Taken, Rows

\* The row an allocation writes: a row, one number further, in the same year
\* or at the start of a later one.
LEMMA TakenRow ==
  ASSUME NEW row \in Rows, NEW now \in Nat
  PROVE  LET new == Taken(Current(row, now))
         IN  /\ new \in Rows /\ new.nrUrmator = new.nrCurent + 1
             /\ \/ new.an = row.an /\ new.nrCurent = row.nrUrmator
                \/ new.an > row.an /\ new.nrCurent = 1
<1> DEFINE cur == Current(row, now)
<1>1. YearOf(now) \in Nat /\ NewYear(YearOf(now) + 1) \in Nat
  <2>1. YearOf(now) \in Nat
    BY Calendar
  <2>2. YearOf(now) + 1 \in Nat
    BY <2>1
  <2> QED BY <2>1, <2>2, Calendar
<1>2. /\ cur \in Rows
      /\ \/ cur.an = row.an /\ cur.nrUrmator = row.nrUrmator
         \/ cur.an > row.an /\ cur.nrUrmator = 1
  BY <1>1 DEF Current, ResetDue, Rows
<1> HIDE DEF cur
<1>3. /\ Taken(cur) \in Rows /\ Taken(cur).an = cur.an
      /\ Taken(cur).nrCurent = cur.nrUrmator /\ Taken(cur).nrUrmator = cur.nrUrmator + 1
  BY <1>2, TakenFields
<1> QED BY <1>2, <1>3 DEF cur, Rows

\* What a call past its SELECT knows: it holds the row lock and the row it read
\* is the committed one.
Call(c) ==
  /\ tx[c].phase # "idle" => tx[c].reg \in Registries
  /\ tx[c].phase \in {"locked", "updated"} =>
       /\ lockedBy[tx[c].reg] = c
       /\ tx[c].read = reg[tx[c].reg]
  /\ tx[c].phase = "updated" =>
       tx[c].write = Taken(Current(tx[c].read, tx[c].now))

CallInv == \A c \in Callers : Call(c)

\* An allocation lies before a position in the lexicographic order of years and
\* numbers.
Before(e, an, number) ==
  \/ e.an < an
  \/ e.an = an /\ e.number < number

\* The row of a registry stands right after its last number, and the numbers
\* are in strictly increasing order: the second part is what makes uniqueness
\* inductive.
SeriesInv ==
  /\ SeriesAreGapless
  /\ \A r \in Registries :
       /\ \A i \in 1..Len(allocated[r]) :
            Before(allocated[r][i], reg[r].an, reg[r].nrUrmator)
       /\ \A i, j \in 1..Len(allocated[r]) :
            i < j => Before(allocated[r][i], allocated[r][j].an, allocated[r][j].number)

\* Marking snapshots stale keeps types and changes nothing else.
LEMMA InvalidatedTypes ==
  ASSUME TypeOK, NEW r \in Registries
  PROVE  /\ Invalidated(r) \in [Callers -> TxType]
         /\ \A c \in Callers :
              /\ Invalidated(r)[c].phase = tx[c].phase
              /\ Invalidated(r)[c].reg = tx[c].reg
              /\ Invalidated(r)[c].read = tx[c].read
              /\ Invalidated(r)[c].write = tx[c].write
              /\ Invalidated(r)[c].now = tx[c].now
<1>1. ASSUME NEW c \in Callers
      PROVE  LET t == [tx[c] EXCEPT !.stale = TRUE]
             IN  /\ t \in TxType /\ t.phase = tx[c].phase /\ t.reg = tx[c].reg
                 /\ t.read = tx[c].read /\ t.write = tx[c].write /\ t.now = tx[c].now
  BY DEF TypeOK, TxType
<1> QED BY <1>1 DEF Invalidated, TypeOK

\* The locks left when a transaction ends.
LEMMA ReleasedType ==
  ASSUME TypeOK, NEW c \in Callers
  PROVE  /\ Released(c) \in [Registries -> Callers \cup {Null}]
         /\ \A r \in Registries : lockedBy[r] # c => Released(c)[r] = lockedBy[r]
BY DEF Released, TypeOK

\* A rolled back call keeps everything.
LEMMA RollBackKeeps ==
  ASSUME TypeOK, CallInv, SeriesInv, NEW c \in Callers, RollBack(c)
  PROVE  TypeOK' /\ CallInv' /\ SeriesInv'
<1>1. TypeOK'
  BY IdleTxType, ReleasedType DEF RollBack, TypeOK
<1>2. ASSUME NEW e \in Callers PROVE Call(e)'
  <2>1. CASE e = c
    BY <2>1 DEF RollBack, TypeOK, IdleTx, Call
  <2>2. CASE e # c
    BY <2>2, ReleasedType DEF RollBack, TypeOK, Call, CallInv
  <2> QED BY <2>1, <2>2
<1>3. SeriesInv'
  BY DEF RollBack, SeriesInv, SeriesAreGapless, Before, Follows
<1> QED BY <1>1, <1>2, <1>3 DEF CallInv

\* A step of one call that keeps clock, rows, numbers and locks.
LEMMA LocalStepKeeps ==
  ASSUME TypeOK, CallInv, SeriesInv, NEW c \in Callers, NEW t \in TxType,
         tx' = [tx EXCEPT ![c] = t], UNCHANGED <<clock, reg, allocated, lockedBy>>,
         Call(c)'
  PROVE  TypeOK' /\ CallInv' /\ SeriesInv'
<1>1. TypeOK'
  BY DEF TypeOK
<1>2. ASSUME NEW e \in Callers PROVE Call(e)'
  BY DEF TypeOK, Call, CallInv
<1>3. SeriesInv'
  BY DEF SeriesInv, SeriesAreGapless, Before, Follows
<1> QED BY <1>1, <1>2, <1>3 DEF CallInv

\* COMMIT appends the number right after the last one.
LEMMA CommitKeeps ==
  ASSUME TypeOK, CallInv, SeriesInv, NEW c \in Callers, Commit(c)
  PROVE  TypeOK' /\ CallInv' /\ SeriesInv'
<1> DEFINE r0  == tx[c].reg
           row == tx[c].write
           ev  == [an |-> row.an, number |-> row.nrCurent, now |-> tx[c].now]
           n   == Len(allocated[r0])
<1>1. /\ r0 \in Registries /\ lockedBy[r0] = c
      /\ tx[c].now \in Nat /\ reg[r0] \in Rows
      /\ row = Taken(Current(reg[r0], tx[c].now))
  BY DEF Commit, CallInv, Call, TypeOK, TxType
<1>2. /\ row \in Rows /\ row.nrUrmator = row.nrCurent + 1
      /\ \/ row.an = reg[r0].an /\ row.nrCurent = reg[r0].nrUrmator
         \/ row.an > reg[r0].an /\ row.nrCurent = 1
  BY <1>1, TakenRow
<1>3. /\ reg' = [reg EXCEPT ![r0] = row]
      /\ allocated' = [allocated EXCEPT ![r0] = Append(@, ev)]
      /\ lockedBy' = Released(c)
      /\ tx' = [Invalidated(r0) EXCEPT ![c] = IdleTx]
      /\ clock' = clock
  BY DEF Commit
<1>4. ev \in Allocations
  BY <1>1, <1>2 DEF Allocations, Rows
<1> HIDE DEF ev, row
<1>5. TypeOK'
  <2>1. Append(allocated[r0], ev) \in Seq(Allocations)
    BY <1>1, <1>4 DEF TypeOK
  <2> QED
    BY <1>1, <1>2, <1>3, <2>1, IdleTxType, InvalidatedTypes, ReleasedType DEF TypeOK
<1>6. ASSUME NEW e \in Callers PROVE Call(e)'
  <2>1. CASE e = c
    BY <1>1, <1>3, <2>1, InvalidatedTypes DEF IdleTx, Call
  <2>2. CASE e # c
    <3>1. tx'[e] = Invalidated(r0)[e]
      BY <1>1, <1>3, <2>2, InvalidatedTypes
    <3>2. tx[e].phase \in {"locked", "updated"} =>
            /\ tx[e].reg \in Registries /\ lockedBy[tx[e].reg] = e /\ tx[e].reg # r0
      BY <1>1, <2>2 DEF CallInv, Call
    <3>3. tx[e].phase \in {"locked", "updated"} =>
            reg'[tx[e].reg] = reg[tx[e].reg] /\ lockedBy'[tx[e].reg] = e
      BY <1>1, <1>3, <2>2, <3>2, ReleasedType DEF TypeOK
    <3>4. /\ tx'[e].phase = tx[e].phase /\ tx'[e].reg = tx[e].reg
          /\ tx'[e].read = tx[e].read /\ tx'[e].write = tx[e].write
          /\ tx'[e].now = tx[e].now
      BY <1>1, <3>1, InvalidatedTypes
    <3>5. Call(e)
      BY DEF CallInv
    <3>6. tx[e].phase = "updated" => Taken(Current(tx[e].read, tx[e].now))
                                    = Taken(Current(tx[e].read, tx[e].now))'
      BY <3>4 DEF Taken, Current, ResetDue, YearOf, NewYear
    <3> QED BY <3>3, <3>4, <3>5, <3>6 DEF Call
  <2> QED BY <2>1, <2>2
<1>7. ASSUME NEW r \in Registries, r # r0
      PROVE  reg'[r] = reg[r] /\ allocated'[r] = allocated[r]
  BY <1>1, <1>3, <1>7 DEF TypeOK
<1>8. /\ reg'[r0] = row
      /\ n \in Nat /\ Len(allocated'[r0]) = n + 1
      /\ allocated'[r0][n + 1] = ev
      /\ \A i \in 1..n : allocated'[r0][i] = allocated[r0][i]
      /\ \A i \in 1..n : allocated[r0][i] \in Allocations
  <2>1. allocated[r0] \in Seq(Allocations)
    BY <1>1 DEF TypeOK
  <2>2. allocated'[r0] = Append(allocated[r0], ev) /\ reg'[r0] = row
    BY <1>1, <1>3 DEF TypeOK
  <2> QED BY <1>4, <2>1, <2>2
<1>9. /\ ev.an = row.an /\ ev.number = row.nrCurent
      /\ row.nrUrmator = ev.number + 1
      /\ ev.an \in Nat /\ ev.number \in Nat
      /\ reg[r0].an \in Nat /\ reg[r0].nrUrmator \in Nat
  BY <1>1, <1>2 DEF ev, Rows
<1>10. /\ n > 0 => Follows(ev, allocated[r0][n])
       /\ \A i \in 1..n : Before(allocated[r0][i], ev.an, ev.number)
  <2>1. n > 0 => /\ reg[r0].an = allocated[r0][n].an
                 /\ reg[r0].nrUrmator = allocated[r0][n].number + 1
    BY <1>1 DEF SeriesInv, SeriesAreGapless
  <2>2. n > 0 => Follows(ev, allocated[r0][n])
    BY <1>2, <1>9, <2>1 DEF Follows
  <2>3. ASSUME NEW i \in 1..n PROVE Before(allocated[r0][i], ev.an, ev.number)
    <3>1. Before(allocated[r0][i], reg[r0].an, reg[r0].nrUrmator)
      BY <1>1 DEF SeriesInv
    <3>2. allocated[r0][i].an \in Nat /\ allocated[r0][i].number \in Nat
      BY <1>8 DEF Allocations
    <3>3. CASE ev.an = reg[r0].an /\ ev.number = reg[r0].nrUrmator
      BY <3>1, <3>3 DEF Before
    <3>4. CASE ev.an > reg[r0].an
      <4>1. allocated[r0][i].an <= reg[r0].an
        BY <1>9, <3>1, <3>2 DEF Before
      <4> QED BY <1>9, <3>2, <3>4, <4>1 DEF Before
    <3> QED BY <1>2, <1>9, <3>3, <3>4
  <2> QED BY <2>2, <2>3
<1>11. SeriesAreGapless'
  <2>1. ASSUME NEW r \in Registries
        PROVE  /\ \A i \in 2..Len(allocated'[r]) :
                    Follows(allocated'[r][i], allocated'[r][i-1])
               /\ Len(allocated'[r]) > 0 =>
                    /\ reg'[r].an = allocated'[r][Len(allocated'[r])].an
                    /\ reg'[r].nrCurent = allocated'[r][Len(allocated'[r])].number
                    /\ reg'[r].nrUrmator = allocated'[r][Len(allocated'[r])].number + 1
    <3>1. CASE r # r0
      BY <1>7, <3>1 DEF SeriesInv, SeriesAreGapless
    <3>2. CASE r = r0
      <4>1. ASSUME NEW i \in 2..(n + 1)
            PROVE  Follows(allocated'[r0][i], allocated'[r0][i-1])
        <5>1. CASE i = n + 1
          <6>1. n > 0 /\ n \in 1..n /\ i - 1 = n
            BY <1>8, <5>1
          <6> QED BY <1>8, <1>10, <5>1, <6>1
        <5>2. CASE i # n + 1
          <6>1. i \in 2..n /\ i \in 1..n /\ i - 1 \in 1..n
            BY <1>8, <5>2
          <6>2. Follows(allocated[r0][i], allocated[r0][i-1])
            BY <1>1, <6>1 DEF SeriesInv, SeriesAreGapless
          <6> QED BY <1>8, <6>1, <6>2
        <5> QED BY <5>1, <5>2
      <4> QED BY <1>8, <1>9, <3>2, <4>1
    <3> QED BY <3>1, <3>2
  <2> QED BY <2>1 DEF SeriesAreGapless, Follows
<1>12. ASSUME NEW r \in Registries
       PROVE  /\ \A i \in 1..Len(allocated'[r]) :
                   Before(allocated'[r][i], reg'[r].an, reg'[r].nrUrmator)
              /\ \A i, j \in 1..Len(allocated'[r]) :
                   i < j => Before(allocated'[r][i], allocated'[r][j].an,
                                   allocated'[r][j].number)
  <2>1. CASE r # r0
    BY <1>7, <2>1 DEF SeriesInv
  <2>2. CASE r = r0
    <3>1. ASSUME NEW i \in 1..(n + 1)
          PROVE  Before(allocated'[r0][i], row.an, row.nrUrmator)
      <4>1. CASE i = n + 1
        BY <1>8, <1>9, <4>1 DEF Before
      <4>2. CASE i # n + 1
        <5>1. i \in 1..n
          BY <1>8, <4>2
        <5>2. allocated[r0][i].an \in Nat /\ allocated[r0][i].number \in Nat
          BY <1>8, <5>1 DEF Allocations
        <5>3. Before(allocated[r0][i], ev.an, ev.number)
          BY <1>10, <5>1
        <5>4. Before(allocated[r0][i], row.an, row.nrUrmator)
          BY <1>9, <5>2, <5>3 DEF Before
        <5> QED BY <1>8, <5>1, <5>4
      <4> QED BY <4>1, <4>2
    <3>2. ASSUME NEW i \in 1..(n + 1), NEW j \in 1..(n + 1), i < j
          PROVE  Before(allocated'[r0][i], allocated'[r0][j].an, allocated'[r0][j].number)
      <4>1. i \in 1..n
        BY <1>8, <3>2
      <4>2. CASE j = n + 1
        BY <1>8, <1>10, <4>1, <4>2
      <4>3. CASE j # n + 1
        <5>1. j \in 1..n
          BY <1>8, <4>3
        <5>2. Before(allocated[r0][i], allocated[r0][j].an, allocated[r0][j].number)
          BY <1>1, <3>2, <4>1, <5>1 DEF SeriesInv
        <5> QED BY <1>8, <4>1, <5>1, <5>2
      <4> QED BY <4>2, <4>3
    <3> QED BY <1>8, <2>2, <3>1, <3>2
  <2> QED BY <2>1, <2>2
<1> QED BY <1>5, <1>6, <1>11, <1>12 DEF CallInv, SeriesInv, Before

\* Closing a registry touches no counter, and only an unlocked row.
LEMMA DeactivateKeeps ==
  ASSUME TypeOK, CallInv, SeriesInv, NEW r0 \in Registries, Deactivate(r0)
  PROVE  TypeOK' /\ CallInv' /\ SeriesInv'
<1>1. /\ [reg[r0] EXCEPT !.active = FALSE] \in Rows
      /\ reg' = [reg EXCEPT ![r0] = [reg[r0] EXCEPT !.active = FALSE]]
      /\ tx' = Invalidated(r0) /\ lockedBy[r0] = Null
      /\ UNCHANGED <<clock, allocated, lockedBy>>
  BY DEF Deactivate, TypeOK, Rows
<1>2. TypeOK'
  BY <1>1, InvalidatedTypes DEF TypeOK
<1>3. ASSUME NEW e \in Callers PROVE Call(e)'
  <2>1. /\ tx'[e].phase = tx[e].phase /\ tx'[e].reg = tx[e].reg
        /\ tx'[e].read = tx[e].read /\ tx'[e].write = tx[e].write
        /\ tx'[e].now = tx[e].now
    BY <1>1, InvalidatedTypes
  <2>2. Call(e)
    BY DEF CallInv
  <2>3. tx[e].phase \in {"locked", "updated"} => reg'[tx[e].reg] = reg[tx[e].reg]
    BY <1>1, <2>2, NullAssumption DEF Call, TypeOK
  <2>4. Taken(Current(tx[e].read, tx[e].now))' = Taken(Current(tx[e].read, tx[e].now))
    BY <2>1 DEF Taken, Current, ResetDue, YearOf, NewYear
  <2> QED BY <1>1, <2>1, <2>2, <2>3, <2>4 DEF Call
<1>4. \A r \in Registries :
        /\ reg'[r].an = reg[r].an /\ reg'[r].nrCurent = reg[r].nrCurent
        /\ reg'[r].nrUrmator = reg[r].nrUrmator
  BY <1>1 DEF TypeOK, Rows
<1>5. SeriesAreGapless'
  BY <1>1, <1>4 DEF SeriesInv, SeriesAreGapless, Follows
<1>6. SeriesInv'
  BY <1>1, <1>4, <1>5 DEF SeriesInv, Before
<1> QED BY <1>2, <1>3, <1>6 DEF CallInv

\* Each step keeps the invariant.
LEMMA NextKeeps ==
  ASSUME TypeOK, CallInv, SeriesInv, [Next]_vars
  PROVE  TypeOK' /\ CallInv' /\ SeriesInv'
<1>1. ASSUME NEW c \in Callers, NEW r \in Registries, Begin(c, r)
      PROVE  TypeOK' /\ CallInv' /\ SeriesInv'
  <2>1. [IdleTx EXCEPT !.phase = "begun", !.reg = r] \in TxType
    BY DEF IdleTx, TxType, Phases
  <2>2. Call(c)'
    BY <1>1 DEF Begin, TypeOK, IdleTx, Call
  <2> QED BY <1>1, <2>1, <2>2, LocalStepKeeps DEF Begin
<1>2. ASSUME NEW c \in Callers, NotFound(c) PROVE TypeOK' /\ CallInv' /\ SeriesInv'
  BY <1>2, RollBackKeeps DEF NotFound
<1>3. ASSUME NEW c \in Callers, TakeSnapshot(c) PROVE TypeOK' /\ CallInv' /\ SeriesInv'
  <2>1. [tx[c] EXCEPT !.phase = "waiting"] \in TxType
    BY DEF TypeOK, TxType, Phases
  <2>2. Call(c)'
    BY <1>3 DEF TakeSnapshot, TypeOK, TxType, Call, CallInv
  <2> QED BY <1>3, <2>1, <2>2, LocalStepKeeps DEF TakeSnapshot
<1>4. ASSUME NEW c \in Callers, SelectForUpdate(c) PROVE TypeOK' /\ CallInv' /\ SeriesInv'
  <2>1. tx[c].reg \in Registries /\ reg[tx[c].reg] \in Rows
    BY <1>4 DEF SelectForUpdate, CallInv, Call, TypeOK
  <2>2. [tx[c] EXCEPT !.phase = "locked", !.read = reg[tx[c].reg]] \in TxType
    BY <2>1 DEF TypeOK, TxType, Phases
  <2>3. /\ lockedBy[tx[c].reg] = Null
        /\ lockedBy' = [lockedBy EXCEPT ![tx[c].reg] = c]
        /\ tx' = [tx EXCEPT ![c] =
                    [tx[c] EXCEPT !.phase = "locked", !.read = reg[tx[c].reg]]]
        /\ UNCHANGED <<clock, reg, allocated>>
    BY <1>4 DEF SelectForUpdate
  <2>4. TypeOK'
    BY <2>1, <2>2, <2>3 DEF TypeOK
  <2>5. ASSUME NEW e \in Callers PROVE Call(e)'
    <3>1. CASE e = c
      BY <2>1, <2>3, <3>1 DEF TypeOK, TxType, Call
    <3>2. CASE e # c
      <4>1. tx'[e] = tx[e] /\ Call(e)
        BY <2>3, <3>2 DEF TypeOK, CallInv
      <4>2. tx[e].phase \in {"locked", "updated"} => tx[e].reg # tx[c].reg
        BY <2>3, <4>1, NullAssumption DEF Call
      <4>3. tx[e].phase \in {"locked", "updated"} => lockedBy'[tx[e].reg] = e
        BY <2>3, <4>1, <4>2 DEF Call, TypeOK
      <4>4. Taken(Current(tx[e].read, tx[e].now))' = Taken(Current(tx[e].read, tx[e].now))
        BY <4>1 DEF Taken, Current, ResetDue, YearOf, NewYear
      <4> QED BY <2>3, <4>1, <4>3, <4>4 DEF Call
    <3> QED BY <3>1, <3>2
  <2>6. SeriesInv'
    BY <2>3 DEF SeriesInv, SeriesAreGapless, Before, Follows
  <2> QED BY <2>4, <2>5, <2>6 DEF CallInv
<1>5. ASSUME NEW c \in Callers, SerializationFailure(c)
      PROVE  TypeOK' /\ CallInv' /\ SeriesInv'
  BY <1>5, RollBackKeeps DEF SerializationFailure
<1>6. ASSUME NEW c \in Callers, NEW now \in 0..MaxClock, UpdateCounter(c, now)
      PROVE  TypeOK' /\ CallInv' /\ SeriesInv'
  <2> DEFINE row == Taken(Current(tx[c].read, now))
  <2>1. now \in Nat /\ tx[c].read \in Rows /\ tx[c].phase = "locked" /\ Call(c)
    BY <1>6, BoundsAssumption DEF UpdateCounter, CallInv, Call, TypeOK
  <2>2. row \in Rows
    BY <2>1, TakenRow
  <2>3. [tx[c] EXCEPT !.phase = "updated", !.write = row, !.now = now] \in TxType
    BY <2>1, <2>2 DEF TypeOK, TxType, Phases
  <2>4. /\ tx' = [tx EXCEPT ![c] =
                    [tx[c] EXCEPT !.phase = "updated", !.write = row, !.now = now]]
        /\ UNCHANGED <<clock, reg, allocated, lockedBy>>
    BY <1>6 DEF UpdateCounter
  <2>5. /\ tx'[c].phase = "updated" /\ tx'[c].reg = tx[c].reg
        /\ tx'[c].read = tx[c].read /\ tx'[c].write = row /\ tx'[c].now = now
    BY <2>4 DEF TypeOK, TxType
  <2>6. Taken(Current(tx[c].read, tx[c].now))' = row
    BY <2>5 DEF Taken, Current, ResetDue, YearOf, NewYear
  <2>7. Call(c)'
    BY <2>1, <2>4, <2>5, <2>6 DEF Call
  <2> QED BY <2>3, <2>4, <2>7, LocalStepKeeps
<1>7. ASSUME NEW c \in Callers, NEW now \in 0..MaxClock, UpdateRefused(c, now)
      PROVE  TypeOK' /\ CallInv' /\ SeriesInv'
  BY <1>7, RollBackKeeps DEF UpdateRefused
<1>8. ASSUME NEW c \in Callers, Commit(c) PROVE TypeOK' /\ CallInv' /\ SeriesInv'
  BY <1>8, CommitKeeps
<1>9. ASSUME NEW c \in Callers, Abort(c) PROVE TypeOK' /\ CallInv' /\ SeriesInv'
  BY <1>9, RollBackKeeps DEF Abort
<1>10. ASSUME NEW r \in Registries, Deactivate(r) PROVE TypeOK' /\ CallInv' /\ SeriesInv'
  BY <1>10, DeactivateKeeps
<1>11. CASE Tick \/ UNCHANGED vars
  <2>1. UNCHANGED <<reg, allocated, lockedBy, tx>> /\ clock' \in Nat
    BY <1>11 DEF Tick, vars, TypeOK
  <2>2. TypeOK'
    BY <2>1 DEF TypeOK
  <2>3. CallInv'
    BY <2>1, ZenonT(30) DEF CallInv, Call, Taken, Current, ResetDue, YearOf, NewYear
  <2>4. SeriesInv'
    BY <2>1 DEF SeriesInv, SeriesAreGapless, Before, Follows
  <2> QED BY <2>2, <2>3, <2>4
<1> QED
  BY <1>1, <1>2, <1>3, <1>4, <1>5, <1>6, <1>7, <1>8, <1>9, <1>10, <1>11 DEF Next

\* The initial table satisfies the invariant.
LEMMA InitKeeps == Init => TypeOK /\ CallInv /\ SeriesInv
<1> SUFFICES ASSUME Init PROVE TypeOK /\ CallInv /\ SeriesInv
  OBVIOUS
<1>1. TypeOK
  BY IdleTxType, InitialRowsAssumption, BoundsAssumption DEF Init, TypeOK
<1>2. CallInv
  BY DEF Init, CallInv, Call, IdleTx
<1>3. SeriesInv
  BY DEF Init, SeriesInv, SeriesAreGapless
<1> QED BY <1>1, <1>2, <1>3

\* The invariant holds always.
THEOREM Invariance == Spec => [](TypeOK /\ CallInv /\ SeriesInv)
BY InitKeeps, NextKeeps, PTL DEF Spec

\* Every variable has its type in every reachable state.
THEOREM TypeCorrect == Spec => []TypeOK
BY Invariance, PTL

\* The numbers of a registry form gapless yearly series and the row stands
\* right after the last of them (number.go:14-68).
THEOREM SeriesCorrect == Spec => []SeriesAreGapless
<1>1. SeriesInv => SeriesAreGapless
  BY DEF SeriesInv
<1> QED BY <1>1, Invariance, PTL

\* No two calls are handed the same number of the same year of a registry
\* (number.go:15 "Serializable isolation to prevent race conditions").
THEOREM UniquenessCorrect == Spec => []NumbersUnique
<1>1. TypeOK /\ SeriesInv => NumbersUnique
  <2> SUFFICES ASSUME TypeOK, SeriesInv, NEW r \in Registries,
                      NEW i \in 1..Len(allocated[r]), NEW j \in 1..Len(allocated[r]),
                      i < j
               PROVE  <<allocated[r][i].an, allocated[r][i].number>>
                        # <<allocated[r][j].an, allocated[r][j].number>>
    BY DEF NumbersUnique
  <2>1. Before(allocated[r][i], allocated[r][j].an, allocated[r][j].number)
    BY DEF SeriesInv
  <2>2. allocated[r][i] \in Allocations
    BY DEF TypeOK
  <2> QED BY <2>1, <2>2 DEF Before, Allocations
<1> QED BY <1>1, Invariance, PTL

-----------------------------------------------------------------------------
(* The calendar.                                                           *)

\* An instant that is not after the first one of a year lies in an earlier year
\* or is that instant.
LEMMA NewYearBounds ==
  ASSUME NEW t \in Nat, NEW y \in Nat, t <= NewYear(y + 1)
  PROVE  y >= YearOf(t) \/ t = NewYear(YearOf(t))
BY DEF YearOf, NewYear

\* Taking a number keeps the reset date.
LEMMA TakenReset ==
  ASSUME NEW row \in Rows
  PROVE  Taken(row).dataReset = row.dataReset /\ Taken(row).an = row.an
<1>1. Taken(row).an = row.an
  BY TakenFields
<1>2. Taken(row).dataReset = row.dataReset
  BY DEF Taken, Rows
<1> QED BY <1>1, <1>2

\* The year and reset date a call writes: those of its clock if the reset is
\* due, those it read otherwise.
LEMMA ResetWritten ==
  ASSUME NEW row \in Rows, NEW now \in Nat
  PROVE  LET new == Taken(Current(row, now))
         IN  /\ ResetDue(row, now) =>
                  /\ new.an = YearOf(now)
                  /\ new.dataReset = NewYear(YearOf(now) + 1)
             /\ ~ResetDue(row, now) =>
                  /\ new.an = row.an
                  /\ new.dataReset = row.dataReset
<1>1. YearOf(now) \in Nat /\ YearOf(now) + 1 \in Nat
  BY Calendar
<1>2. NewYear(YearOf(now) + 1) \in Nat
  BY <1>1, Calendar
<1>3. CASE ResetDue(row, now)
  <2> DEFINE cur == [row EXCEPT !.nrUrmator = 1, !.an = YearOf(now),
                                !.dataReset = NewYear(YearOf(now) + 1)]
  <2>1. cur \in Rows /\ cur.an = YearOf(now) /\ cur.dataReset = NewYear(YearOf(now) + 1)
    BY <1>1, <1>2 DEF Rows
  <2>2. Current(row, now) = cur
    BY <1>3 DEF Current
  <2> HIDE DEF cur
  <2> QED BY <1>3, <2>1, <2>2, TakenReset
<1>4. CASE ~ResetDue(row, now)
  BY <1>4, TakenReset DEF Current
<1> QED BY <1>3, <1>4

\* A call that moves the year has reset the row for its own clock.
LEMMA ResetMoves ==
  ASSUME NEW row \in Rows, NEW now \in Nat, Taken(Current(row, now)).an > row.an
  PROVE  LET new == Taken(Current(row, now))
         IN  new.an = YearOf(now) /\ new.dataReset = NewYear(new.an + 1)
<1>1. ResetDue(row, now)
  BY ResetWritten DEF Rows
<1> QED BY <1>1, ResetWritten

\* A row whose reset date belongs to its year stays so, and the number taken
\* from it is of the year of the clock or later, or taken in the first instant.
LEMMA YearKept ==
  ASSUME NEW row \in Rows, NEW now \in Nat, row.dataReset = NewYear(row.an + 1)
  PROVE  LET new == Taken(Current(row, now))
         IN  /\ new.dataReset = NewYear(new.an + 1)
             /\ new.an >= YearOf(now) \/ now = NewYear(YearOf(now))
<1>1. /\ YearOf(now) \in Nat /\ row.an \in Nat
      /\ row.an + 1 \in Nat
  BY Calendar DEF Rows
<1>2. NewYear(row.an + 1) \in Nat
  BY <1>1, Calendar
<1>3. CASE ResetDue(row, now)
  BY <1>1, <1>3, ResetWritten
<1>4. CASE ~ResetDue(row, now)
  <2>1. now <= row.dataReset \/ YearOf(now) <= row.an
    BY <1>1, <1>2, <1>4, NullAssumption DEF ResetDue
  <2>2. row.an >= YearOf(now) \/ now = NewYear(YearOf(now))
    BY <1>1, <2>1, NewYearBounds
  <2> QED BY <1>4, <2>2, ResetWritten
<1> QED BY <1>3, <1>4

\* Once a registry has reset, its row carries the reset date of its year.
YearInv ==
  \A r \in Registries : \A i \in 1..Len(allocated[r]) :
    Resets(r, i) => reg[r].dataReset = NewYear(reg[r].an + 1)

\* Steps that allocate nothing and keep years and reset dates keep the calendar.
LEMMA CalendarStays ==
  ASSUME YearInv, SeriesMatchesYear, allocated' = allocated,
         \A r \in Registries : reg'[r].an = reg[r].an
                               /\ reg'[r].dataReset = reg[r].dataReset
  PROVE  YearInv' /\ SeriesMatchesYear'
<1>1. \A r, i : Resets(r, i)' = Resets(r, i)
  BY DEF Resets
<1>2. YearInv'
  BY <1>1 DEF YearInv
<1>3. SeriesMatchesYear'
  BY <1>1 DEF SeriesMatchesYear
<1> QED BY <1>2, <1>3

\* A number appended to a registry keeps to the calendar if its row does.
LEMMA AppendKeepsCalendar ==
  ASSUME TypeOK, SeriesInv, YearInv, SeriesMatchesYear,
         NEW r0 \in Registries, NEW n \in Nat, n = Len(allocated[r0]),
         NEW row \in Rows, NEW now \in Nat, NEW ev \in Allocations,
         ev.an = row.an, ev.now = now,
         reg' = [reg EXCEPT ![r0] = row],
         allocated' = [allocated EXCEPT ![r0] = Append(@, ev)],
         row.an > reg[r0].an =>
           row.an = YearOf(now) /\ row.dataReset = NewYear(row.an + 1),
         reg[r0].dataReset = NewYear(reg[r0].an + 1) =>
           /\ row.dataReset = NewYear(row.an + 1)
           /\ row.an >= YearOf(now) \/ now = NewYear(YearOf(now))
  PROVE  YearInv' /\ SeriesMatchesYear'
<1>1. row.an \in Nat /\ YearOf(now) \in Nat
  BY Calendar DEF Rows
<1>2. ASSUME NEW r \in Registries, r # r0
      PROVE  reg'[r] = reg[r] /\ allocated'[r] = allocated[r]
  BY <1>2 DEF TypeOK
<1>3. /\ reg'[r0] = row
      /\ Len(allocated'[r0]) = n + 1
      /\ allocated'[r0][n + 1] = ev
      /\ \A i \in 1..n : allocated'[r0][i] = allocated[r0][i]
  <2>1. allocated[r0] \in Seq(Allocations)
    BY DEF TypeOK
  <2>2. allocated'[r0] = Append(allocated[r0], ev) /\ reg'[r0] = row
    BY DEF TypeOK
  <2> QED BY <2>1, <2>2
\* A reset among the old entries is an old reset; a reset by the new entry moved
\* the year of the row.
<1>4. ASSUME NEW i \in 1..n PROVE Resets(r0, i)' <=> Resets(r0, i)
  <2>1. i > 1 => i - 1 \in 1..n
    BY <1>3
  <2> QED BY <1>3, <2>1 DEF Resets
<1>5. Resets(r0, n + 1)' => row.an > reg[r0].an
  <2>1. SUFFICES ASSUME Resets(r0, n + 1)' PROVE row.an > reg[r0].an
    OBVIOUS
  <2>2. n > 0 /\ n \in 1..n /\ (n + 1) - 1 = n
    BY <1>3, <2>1 DEF Resets
  <2>3. reg[r0].an = allocated[r0][n].an
    BY <2>2 DEF SeriesInv, SeriesAreGapless
  <2>4. ev.an > allocated[r0][n].an
    BY <1>3, <2>1, <2>2 DEF Resets
  <2> QED BY <2>3, <2>4
<1>6. ASSUME NEW i \in 1..(n + 1), Resets(r0, i)'
       PROVE  /\ row.dataReset = NewYear(row.an + 1)
              /\ row.an >= YearOf(now) \/ now = NewYear(YearOf(now))
  <2>1. CASE i = n + 1
    BY <1>1, <1>5, <1>6, <2>1
  <2>2. CASE i # n + 1
    <3>1. i \in 1..n
      BY <1>3, <2>2
    <3>2. Resets(r0, i)
      BY <1>4, <1>6, <3>1
    <3>3. reg[r0].dataReset = NewYear(reg[r0].an + 1)
      BY <3>1, <3>2 DEF YearInv
    <3> QED BY <3>3
  <2> QED BY <2>1, <2>2
<1>7. ASSUME NEW r \in Registries, NEW i \in 1..Len(allocated'[r]), Resets(r, i)'
       PROVE  reg'[r].dataReset = NewYear(reg'[r].an + 1)
  <2>1. CASE r # r0
    <3>1. Resets(r, i)
      BY <1>2, <1>7, <2>1 DEF Resets
    <3> QED BY <1>2, <1>7, <2>1, <3>1 DEF YearInv
  <2>2. CASE r = r0
    BY <1>3, <1>6, <1>7, <2>2
  <2> QED BY <2>1, <2>2
<1>8. ASSUME NEW r \in Registries, NEW i \in 1..Len(allocated'[r]),
              NEW j \in 1..Len(allocated'[r]), Resets(r, i)', i <= j
       PROVE  LET e == allocated'[r][j]
              IN  e.an >= YearOf(e.now) \/ e.now = NewYear(YearOf(e.now))
  <2>1. CASE r # r0
    <3>1. Resets(r, i)
      BY <1>2, <1>8, <2>1 DEF Resets
    <3> QED BY <1>2, <1>8, <2>1, <3>1 DEF SeriesMatchesYear
  <2>2. CASE r = r0
    <3>1. CASE j = n + 1
      BY <1>3, <1>6, <1>8, <2>2, <3>1
    <3>2. CASE j # n + 1
      <4>1. i \in 1..n /\ j \in 1..n
        BY <1>3, <1>8, <2>2, <3>2
      <4>2. Resets(r0, i)
        BY <1>4, <1>8, <2>2, <4>1
      <4>3. allocated'[r0][j] = allocated[r0][j]
        BY <1>3, <4>1
      <4> QED BY <1>8, <2>2, <4>1, <4>2, <4>3 DEF SeriesMatchesYear
    <3> QED BY <3>1, <3>2
  <2> QED BY <2>1, <2>2
<1>9. YearInv'
  BY <1>7 DEF YearInv
<1>10. SeriesMatchesYear'
  BY <1>8 DEF SeriesMatchesYear, YearOf, NewYear
<1> QED BY <1>9, <1>10

\* A number that is committed keeps to the calendar.
LEMMA CommitKeepsCalendar ==
  ASSUME TypeOK, CallInv, SeriesInv, YearInv, SeriesMatchesYear,
         NEW c \in Callers, Commit(c)
  PROVE  YearInv' /\ SeriesMatchesYear'
<1>1. /\ tx[c].reg \in Registries /\ tx[c].now \in Nat /\ reg[tx[c].reg] \in Rows
      /\ tx[c].write = Taken(Current(reg[tx[c].reg], tx[c].now))
  BY DEF Commit, CallInv, Call, TypeOK, TxType
<1>2. PICK r0 \in Registries : r0 = tx[c].reg
  BY <1>1
<1>3. PICK now \in Nat : now = tx[c].now
  BY <1>1
<1>4. PICK row : row = tx[c].write
  OBVIOUS
<1>5. PICK ev : ev = [an |-> row.an, number |-> row.nrCurent, now |-> now]
  OBVIOUS
<1>6. PICK n : n = Len(allocated[r0])
  OBVIOUS
<1>7. PICK old \in Rows : old = reg[r0]
  BY <1>1, <1>2
<1>8. row = Taken(Current(old, now))
  BY <1>1, <1>2, <1>3, <1>4, <1>7
<1>9. /\ reg' = [reg EXCEPT ![r0] = row]
      /\ allocated' = [allocated EXCEPT ![r0] = Append(@, ev)]
  BY <1>2, <1>3, <1>4, <1>5 DEF Commit
<1>10. row \in Rows
  BY <1>8, TakenRow
<1>11. ev \in Allocations /\ ev.an = row.an /\ ev.now = now
  BY <1>5, <1>10 DEF Allocations, Rows
<1>12. n \in Nat
  BY <1>6 DEF TypeOK
<1>13. row.an > old.an =>
         row.an = YearOf(now) /\ row.dataReset = NewYear(row.an + 1)
  BY <1>8, ResetMoves
<1>14. old.dataReset = NewYear(old.an + 1) =>
         /\ row.dataReset = NewYear(row.an + 1)
         /\ row.an >= YearOf(now) \/ now = NewYear(YearOf(now))
  BY <1>8, YearKept
<1> QED
  BY <1>6, <1>7, <1>9, <1>10, <1>11, <1>12, <1>13, <1>14, AppendKeepsCalendar

\* Each step keeps to the calendar.
LEMMA NextKeepsCalendar ==
  ASSUME TypeOK, CallInv, SeriesInv, YearInv, SeriesMatchesYear, [Next]_vars
  PROVE  YearInv' /\ SeriesMatchesYear'
<1>1. CASE \E c \in Callers : Commit(c)
  BY <1>1, CommitKeepsCalendar
<1>2. CASE \E r \in Registries : Deactivate(r)
  <2>1. PICK r0 \in Registries : Deactivate(r0)
    BY <1>2
  <2>2. \A r \in Registries : reg'[r].an = reg[r].an
                              /\ reg'[r].dataReset = reg[r].dataReset
    BY <2>1 DEF Deactivate, TypeOK, Rows
  <2>3. allocated' = allocated
    BY <2>1 DEF Deactivate
  <2> QED BY <2>2, <2>3, CalendarStays
<1>3. CASE UNCHANGED <<reg, allocated>>
  BY <1>3, CalendarStays
<1>4. \/ \E c \in Callers : Commit(c)
      \/ \E r \in Registries : Deactivate(r)
      \/ UNCHANGED <<reg, allocated>>
  BY DEF Next, vars, Begin, NotFound, TakeSnapshot, SelectForUpdate,
         SerializationFailure, UpdateCounter, UpdateRefused, Abort, RollBack, Tick
<1> QED BY <1>1, <1>2, <1>3, <1>4

\* Once a registry has reset, no number is taken from a series whose year is
\* over for the host that asks, but for the first instant of the new year
\* (number.go:42-49), for any clock lag and any callers.
THEOREM CalendarCorrect == Spec => []SeriesMatchesYear
<1>1. Init => YearInv /\ SeriesMatchesYear
  <2> SUFFICES ASSUME Init PROVE YearInv /\ SeriesMatchesYear
    OBVIOUS
  <2>1. \A r \in Registries : Len(allocated[r]) = 0
    BY DEF Init
  <2> QED BY <2>1 DEF YearInv, SeriesMatchesYear
<1>2. TypeOK /\ CallInv /\ SeriesInv /\ YearInv /\ SeriesMatchesYear /\ [Next]_vars
        => YearInv' /\ SeriesMatchesYear'
  BY NextKeepsCalendar
<1> QED BY <1>1, <1>2, Invariance, PTL DEF Spec
















-----------------------------------------------------------------------------
(* The registries implement the atomic number series.                      *)

\* The columns the UPDATE leaves alone.
LEMMA TakenKeeps ==
  ASSUME NEW row \in Rows, NEW now \in Nat
  PROVE  LET new == Taken(Current(row, now))
         IN  new.prefix = row.prefix /\ new.active = row.active
<1> DEFINE cur == Current(row, now)
<1>1. /\ cur.prefix = row.prefix /\ cur.active = row.active
      /\ DOMAIN cur = {"prefix", "an", "nrCurent", "nrUrmator", "dataReset", "active"}
  BY DEF Current, Rows
<1> HIDE DEF cur
<1>2. Taken(cur).prefix = cur.prefix /\ Taken(cur).active = cur.active
  BY <1>1 DEF Taken
<1> QED BY <1>1, <1>2 DEF cur

\* The entry of a row in UNIQUE(institution_id, prefix, an).
SameKey(row, other) == row.prefix = other.prefix /\ row.an = other.an

\* No two registries have the same prefix and year.
KeysAreDistinct ==
  \A r, q \in Registries : r # q => ~SameKey(reg[r], reg[q])

\* The key a call has written is no other registry's, neither a committed one
\* nor one another call has written: only so is a COMMIT free to keep it.
WrittenKeys ==
  \A c \in Callers : tx[c].phase = "updated" =>
    /\ \A q \in Registries \ {tx[c].reg} : ~SameKey(tx[c].write, reg[q])
    /\ \A e \in Callers : tx[e].phase = "updated" /\ tx[e].reg # tx[c].reg =>
         ~SameKey(tx[c].write, tx[e].write)

\* What a call knows of its registry: a snapshot that has not become stale is of
\* an open one, and so is what the call has locked; a number that is written
\* fits its column and has the year of a clock.
Sound(c) ==
  /\ tx[c].phase = "waiting" /\ ~tx[c].stale => reg[tx[c].reg].active
  /\ tx[c].phase \in {"locked", "updated"} => tx[c].read.active
  /\ tx[c].phase = "updated" =>
       tx[c].now \in 0..MaxClock /\ tx[c].write.nrUrmator <= MaxInteger

ServedInv == KeysAreDistinct /\ WrittenKeys /\ \A c \in Callers : Sound(c)

\* A step that writes no row and no new key.
LEMMA QuietKeeps ==
  ASSUME ServedInv, UNCHANGED reg,
         \A e \in Callers : tx'[e] = tx[e] \/ (tx'[e].phase # "updated" /\ Sound(e)')
  PROVE  ServedInv'
<1>1. KeysAreDistinct'
  BY DEF ServedInv, KeysAreDistinct, SameKey
<1>2. WrittenKeys'
  <2>1. ASSUME NEW e \in Callers, tx'[e].phase = "updated" PROVE tx'[e] = tx[e]
    BY <2>1
  <2> QED BY <2>1 DEF ServedInv, WrittenKeys, SameKey
<1>3. ASSUME NEW e \in Callers PROVE Sound(e)'
  BY DEF ServedInv, Sound
<1> QED BY <1>1, <1>2, <1>3 DEF ServedInv

\* The UPDATE waits for and yields to every other holder of its key.
LEMMA UpdateServed ==
  ASSUME TypeOK, CallInv, ServedInv, NEW c \in Callers, NEW now \in 0..MaxClock,
         UpdateCounter(c, now)
  PROVE  ServedInv'
<1> DEFINE row == Taken(Current(tx[c].read, now))
<1>1. /\ tx[c].phase = "locked" /\ tx[c] \in TxType /\ tx[c].read.active
      /\ tx[c].read \in Rows /\ now \in Nat /\ tx[c].reg \in Registries
  BY BoundsAssumption DEF UpdateCounter, CallInv, Call, TypeOK, ServedInv, Sound
<1>2. ~KeyBusy(c, row) /\ ~Refused(tx[c].reg, row)
  BY DEF UpdateCounter
<1>3. /\ UNCHANGED reg
      /\ \A e \in Callers : e # c => tx'[e] = tx[e]
      /\ tx'[c] = [tx[c] EXCEPT !.phase = "updated", !.write = row, !.now = now]
  BY DEF UpdateCounter, TypeOK
<1>4. row.nrUrmator <= MaxInteger
  <2>1. row \in Rows
    BY <1>1, TakenRow
  <2> QED BY <1>2, <2>1, BoundsAssumption DEF Refused, Rows
<1>5. /\ \A q \in Registries \ {tx[c].reg} : ~SameKey(row, reg[q])
      /\ \A e \in Callers : tx[e].phase = "updated" /\ tx[e].reg # tx[c].reg =>
           ~SameKey(row, tx[e].write)
  BY <1>2 DEF Refused, KeyBusy, SameKey
<1> HIDE DEF row
<1>6. /\ tx'[c].phase = "updated" /\ tx'[c].reg = tx[c].reg /\ tx'[c].write = row
      /\ tx'[c].now = now /\ tx'[c].read = tx[c].read
  BY <1>1, <1>3 DEF TxType
<1>7. KeysAreDistinct'
  BY <1>3 DEF ServedInv, KeysAreDistinct, SameKey
<1>8. WrittenKeys'
  <2> SUFFICES ASSUME NEW e \in Callers, tx'[e].phase = "updated"
               PROVE  /\ \A q \in Registries \ {tx'[e].reg} : ~SameKey(tx'[e].write, reg'[q])
                      /\ \A f \in Callers : tx'[f].phase = "updated" /\ tx'[f].reg # tx'[e].reg =>
                           ~SameKey(tx'[e].write, tx'[f].write)
    BY DEF WrittenKeys, SameKey
  <2>1. CASE e = c
    BY <1>3, <1>5, <1>6, <2>1
  <2>2. CASE e # c
    <3>1. /\ \A q \in Registries \ {tx[e].reg} : ~SameKey(tx[e].write, reg[q])
          /\ \A f \in Callers : tx[f].phase = "updated" /\ tx[f].reg # tx[e].reg =>
               ~SameKey(tx[e].write, tx[f].write)
      BY <1>3, <2>2 DEF ServedInv, WrittenKeys
    <3>2. tx[e].reg # tx[c].reg => ~SameKey(tx[e].write, row)
      BY <1>3, <1>5, <2>2 DEF SameKey
    <3> QED BY <1>3, <1>6, <2>2, <3>1, <3>2
  <2> QED BY <2>1, <2>2
<1>9. ASSUME NEW e \in Callers PROVE Sound(e)'
  <2>1. CASE e = c
    BY <1>1, <1>4, <1>6, <2>1 DEF Sound
  <2>2. CASE e # c
    BY <1>3, <2>2 DEF ServedInv, Sound
  <2> QED BY <2>1, <2>2
<1> QED BY <1>7, <1>8, <1>9 DEF ServedInv

\* What a COMMIT finds: it holds the lock, the row it read is the committed one
\* and still open, and what it writes is the row after one number.
LEMMA CommitFinds ==
  ASSUME TypeOK, CallInv, ServedInv, NEW c \in Callers, Commit(c)
  PROVE  \E r \in Registries, row \in Rows, now \in 0..MaxClock :
           /\ r = tx[c].reg /\ row = tx[c].write /\ now = tx[c].now
           /\ lockedBy[r] = c /\ reg[r].active
           /\ row.prefix = reg[r].prefix /\ row.active = reg[r].active
           /\ row.nrUrmator = row.nrCurent + 1 /\ row.nrUrmator <= MaxInteger
           /\ \/ row.an = reg[r].an /\ row.nrCurent = reg[r].nrUrmator
              \/ row.an > reg[r].an /\ row.nrCurent = 1 /\ row.an = YearOf(now)
           /\ \A q \in Registries \ {r} : ~SameKey(row, reg[q])
<1>0. tx[c].phase = "updated" /\ Call(c) /\ Sound(c)
  BY DEF Commit, CallInv, ServedInv
<1>1. PICK r \in Registries, old \in Rows, now \in 0..MaxClock :
        /\ r = tx[c].reg /\ old = reg[r] /\ now = tx[c].now /\ old.active
        /\ lockedBy[r] = c /\ tx[c].write = Taken(Current(old, now))
  <2>1. /\ tx[c].reg \in Registries /\ reg[tx[c].reg] \in Rows
        /\ tx[c].now \in 0..MaxClock /\ lockedBy[tx[c].reg] = c
        /\ reg[tx[c].reg].active
        /\ tx[c].write = Taken(Current(reg[tx[c].reg], tx[c].now))
    BY <1>0 DEF Call, TypeOK, Sound
  <2> QED BY <2>1
<1>2. PICK row : row = Taken(Current(old, now))
  OBVIOUS
<1>3. now \in Nat
  BY BoundsAssumption
<1>4. /\ row \in Rows /\ row.nrUrmator = row.nrCurent + 1
      /\ \/ row.an = old.an /\ row.nrCurent = old.nrUrmator
         \/ row.an > old.an /\ row.nrCurent = 1
  BY <1>2, <1>3, TakenRow
<1>5. row.an > old.an => row.an = YearOf(now)
  BY <1>2, <1>3, ResetMoves
<1>6. row.prefix = old.prefix /\ row.active = old.active
  BY <1>2, <1>3, TakenKeeps
<1>7. /\ row.nrUrmator <= MaxInteger
      /\ \A q \in Registries \ {r} : ~SameKey(row, reg[q])
  BY <1>0, <1>1, <1>2 DEF ServedInv, WrittenKeys, Sound
<1>8. /\ r = tx[c].reg /\ row = tx[c].write /\ now = tx[c].now
      /\ lockedBy[r] = c /\ reg[r].active
      /\ row.prefix = reg[r].prefix /\ row.active = reg[r].active
  BY <1>1, <1>2, <1>6
<1>9. \/ row.an = reg[r].an /\ row.nrCurent = reg[r].nrUrmator
      \/ row.an > reg[r].an /\ row.nrCurent = 1 /\ row.an = YearOf(now)
  BY <1>1, <1>4, <1>5
<1> QED BY <1>4, <1>7, <1>8, <1>9

LEMMA CommitServed ==
  ASSUME TypeOK, CallInv, ServedInv, NEW c \in Callers, Commit(c)
  PROVE  ServedInv'
<1>1. PICK r \in Registries, row \in Rows :
        /\ r = tx[c].reg /\ row = tx[c].write /\ lockedBy[r] = c /\ row.active
        /\ \A q \in Registries \ {r} : ~SameKey(row, reg[q])
  BY CommitFinds
<1>2. /\ reg' = [reg EXCEPT ![r] = row]
      /\ tx' = [Invalidated(r) EXCEPT ![c] = IdleTx]
  BY <1>1 DEF Commit
<1>3. reg'[r] = row /\ \A q \in Registries : q # r => reg'[q] = reg[q]
  BY <1>2 DEF TypeOK
<1>4. tx'[c] = IdleTx /\ \A e \in Callers : e # c => tx'[e] = Invalidated(r)[e]
  BY <1>2, InvalidatedTypes
<1>5. ASSUME NEW e \in Callers, e # c
      PROVE  /\ tx'[e].phase = tx[e].phase /\ tx'[e].reg = tx[e].reg
             /\ tx'[e].read = tx[e].read /\ tx'[e].write = tx[e].write
             /\ tx'[e].now = tx[e].now
             /\ tx[e].phase \in {"locked", "updated"} => tx[e].reg # r
             /\ tx[e].phase = "waiting" /\ ~tx'[e].stale => tx[e].reg # r /\ ~tx[e].stale
  <2>1. tx[e].phase \in {"locked", "updated"} => tx[e].reg # r
    BY <1>1, <1>5 DEF CallInv, Call
  <2>2. tx[e].phase = "waiting" /\ ~tx'[e].stale => tx[e].reg # r /\ ~tx[e].stale
    BY <1>4, <1>5 DEF Invalidated, TypeOK, TxType
  <2> QED BY <1>4, <1>5, <2>1, <2>2, InvalidatedTypes
<1>6. tx'[c].phase = "idle"
  BY <1>4 DEF IdleTx
<1>7. KeysAreDistinct'
  BY <1>1, <1>3 DEF ServedInv, KeysAreDistinct, SameKey
<1>8. WrittenKeys'
  <2> SUFFICES ASSUME NEW e \in Callers, tx'[e].phase = "updated"
               PROVE  /\ \A q \in Registries \ {tx'[e].reg} : ~SameKey(tx'[e].write, reg'[q])
                      /\ \A f \in Callers : tx'[f].phase = "updated" /\ tx'[f].reg # tx'[e].reg =>
                           ~SameKey(tx'[e].write, tx'[f].write)
    BY DEF WrittenKeys, SameKey
  <2>1. e # c /\ tx[e].phase = "updated" /\ tx[e].reg # r /\ tx[c].phase = "updated"
    BY <1>5, <1>6 DEF Commit
  <2>2. /\ \A q \in Registries \ {tx[e].reg} : ~SameKey(tx[e].write, reg[q])
        /\ \A f \in Callers : tx[f].phase = "updated" /\ tx[f].reg # tx[e].reg =>
             ~SameKey(tx[e].write, tx[f].write)
    BY <2>1 DEF ServedInv, WrittenKeys
  <2>3. ~SameKey(tx[e].write, row)
    BY <1>1, <2>1, <2>2
  <2>4. \A q \in Registries \ {tx'[e].reg} : ~SameKey(tx'[e].write, reg'[q])
    BY <1>3, <1>5, <2>1, <2>2, <2>3
  <2>5. ASSUME NEW f \in Callers, tx'[f].phase = "updated", tx'[f].reg # tx'[e].reg
        PROVE  ~SameKey(tx'[e].write, tx'[f].write)
    BY <1>5, <1>6, <2>1, <2>2, <2>5
  <2> QED BY <2>4, <2>5
<1>9. ASSUME NEW e \in Callers PROVE Sound(e)'
  <2>1. CASE e = c
    BY <1>6, <2>1 DEF Sound
  <2>2. CASE e # c
    <3>1. Sound(e) /\ tx[e].phase # "idle" => tx[e].reg \in Registries
      BY DEF ServedInv, CallInv, Call
    <3> QED BY <1>3, <1>5, <2>2, <3>1 DEF Sound, ServedInv
  <2> QED BY <2>1, <2>2
<1> QED BY <1>7, <1>8, <1>9 DEF ServedInv

\* Closing a registry spoils the snapshots that wait for its row.
LEMMA DeactivateServed ==
  ASSUME TypeOK, CallInv, ServedInv, NEW r \in Registries, Deactivate(r)
  PROVE  ServedInv'
<1>1. /\ lockedBy[r] = Null /\ tx' = Invalidated(r)
      /\ reg' = [reg EXCEPT ![r] = [reg[r] EXCEPT !.active = FALSE]]
  BY DEF Deactivate
<1>2. /\ \A q \in Registries : reg'[q].prefix = reg[q].prefix /\ reg'[q].an = reg[q].an
      /\ \A q \in Registries : q # r => reg'[q] = reg[q]
  BY <1>1 DEF TypeOK, Rows
<1>3. ASSUME NEW e \in Callers
      PROVE  /\ tx'[e].phase = tx[e].phase /\ tx'[e].reg = tx[e].reg
             /\ tx'[e].read = tx[e].read /\ tx'[e].write = tx[e].write
             /\ tx'[e].now = tx[e].now
             /\ tx[e].phase = "waiting" /\ ~tx'[e].stale => tx[e].reg # r /\ ~tx[e].stale
  <2>1. tx[e].phase = "waiting" /\ ~tx'[e].stale => tx[e].reg # r /\ ~tx[e].stale
    BY <1>1 DEF Invalidated, TypeOK, TxType
  <2> QED BY <1>1, <2>1, InvalidatedTypes
<1>4. KeysAreDistinct'
  BY <1>2 DEF ServedInv, KeysAreDistinct, SameKey
<1>5. WrittenKeys'
  BY <1>2, <1>3 DEF ServedInv, WrittenKeys, SameKey
<1>6. ASSUME NEW e \in Callers PROVE Sound(e)'
  <2>1. Sound(e) /\ (tx[e].phase # "idle" => tx[e].reg \in Registries)
    BY DEF ServedInv, CallInv, Call
  <2> QED BY <1>2, <1>3, <2>1 DEF Sound
<1> QED BY <1>4, <1>5, <1>6 DEF ServedInv

\* Each step keeps the keys and the snapshots sound.
LEMMA NextServed ==
  ASSUME TypeOK, CallInv, ServedInv, [Next]_vars
  PROVE  ServedInv'
<1>1. ASSUME NEW c \in Callers, NEW r \in Registries, Begin(c, r) PROVE ServedInv'
  <2>1. /\ UNCHANGED reg /\ \A e \in Callers : e # c => tx'[e] = tx[e]
        /\ tx'[c].phase = "begun"
    BY <1>1 DEF Begin, TypeOK, IdleTx
  <2>2. Sound(c)'
    BY <2>1 DEF Sound
  <2> QED BY <2>1, <2>2, QuietKeeps
<1>2. ASSUME NEW c \in Callers, TakeSnapshot(c) PROVE ServedInv'
  <2>1. /\ UNCHANGED reg /\ \A e \in Callers : e # c => tx'[e] = tx[e]
        /\ tx'[c] = [tx[c] EXCEPT !.phase = "waiting"]
        /\ reg[tx[c].reg].active /\ tx[c] \in TxType
    BY <1>2 DEF TakeSnapshot, TypeOK
  <2>2. tx'[c].phase = "waiting" /\ tx'[c].reg = tx[c].reg
    BY <2>1 DEF TxType
  <2>3. Sound(c)'
    BY <2>1, <2>2 DEF Sound
  <2> QED BY <2>1, <2>2, <2>3, QuietKeeps
<1>3. ASSUME NEW c \in Callers, SelectForUpdate(c) PROVE ServedInv'
  <2>1. /\ UNCHANGED reg /\ \A e \in Callers : e # c => tx'[e] = tx[e]
        /\ tx'[c] = [tx[c] EXCEPT !.phase = "locked", !.read = reg[tx[c].reg]]
        /\ tx[c] \in TxType /\ tx[c].phase = "waiting" /\ ~tx[c].stale
    BY <1>3 DEF SelectForUpdate, TypeOK
  <2>2. tx'[c].phase = "locked" /\ tx'[c].read = reg[tx[c].reg]
    BY <2>1 DEF TxType
  <2>3. reg[tx[c].reg].active
    BY <2>1 DEF ServedInv, Sound
  <2>4. Sound(c)'
    BY <2>2, <2>3 DEF Sound
  <2> QED BY <2>1, <2>2, <2>4, QuietKeeps
<1>4. ASSUME NEW c \in Callers, RollBack(c) PROVE ServedInv'
  <2>1. /\ UNCHANGED reg /\ \A e \in Callers : e # c => tx'[e] = tx[e]
        /\ tx'[c].phase = "idle"
    BY <1>4 DEF RollBack, TypeOK, IdleTx
  <2>2. Sound(c)'
    BY <2>1 DEF Sound
  <2> QED BY <2>1, <2>2, QuietKeeps
<1>5. CASE Tick \/ UNCHANGED vars
  <2>1. UNCHANGED <<reg, tx>>
    BY <1>5 DEF Tick, vars
  <2> QED BY <2>1, QuietKeeps
<1> QED
  BY <1>1, <1>2, <1>3, <1>4, <1>5, UpdateServed, CommitServed, DeactivateServed
  DEF Next, NotFound, SerializationFailure, UpdateRefused, Abort

LEMMA InitServed == Init => ServedInv
<1> SUFFICES ASSUME Init PROVE ServedInv
  OBVIOUS
<1>1. KeysAreDistinct
  BY InitialRowsAssumption DEF Init, KeysAreDistinct, SameKey
<1>2. \A c \in Callers : tx[c].phase = "idle"
  BY DEF Init, IdleTx
<1> QED BY <1>1, <1>2 DEF ServedInv, WrittenKeys, Sound

\* The unique key of the table is kept by the writers themselves: no COMMIT
\* brings two registries to the same prefix and year, however many reset at the
\* same moment (number.go:44-58, UNIQUE in 000005_registries.up.sql:30).
THEOREM KeysCorrect == Spec => []KeysAreDistinct
<1>1. ServedInv => KeysAreDistinct
  BY DEF ServedInv
<1>2. TypeOK /\ CallInv /\ ServedInv /\ [Next]_vars => ServedInv'
  BY NextServed
<1> QED BY <1>1, <1>2, InitServed, Invariance, PTL DEF Spec

\* A function on 1..n is a sequence of length n.
LEMMA FunctionIsSeq ==
  ASSUME NEW T, NEW n \in Nat, NEW f \in [1..n -> T]
  PROVE  f \in Seq(T) /\ Len(f) = n
<1>1. f \in Seq(T)
  BY SeqDef
<1>2. Len(f) \in Nat /\ 1..Len(f) = 1..n
  BY <1>1, LenProperties
<1>3. (Len(f) \in 1..Len(f) \/ Len(f) = 0) /\ (n \in 1..n \/ n = 0)
  BY <1>2
<1> QED BY <1>1, <1>2, <1>3

\* One more function value is one more element of the sequence.
LEMMA OneMore ==
  ASSUME NEW T, NEW n \in Nat, NEW f \in [1..n -> T], NEW g \in [1..(n + 1) -> T],
         NEW e \in T, g[n + 1] = e, \A i \in 1..n : g[i] = f[i]
  PROVE  g = Append(f, e)
<1>1. f \in Seq(T) /\ Len(f) = n
  BY FunctionIsSeq
<1>2. g \in Seq(T) /\ Len(g) = n + 1
  <2>1. n + 1 \in Nat
    OBVIOUS
  <2> QED BY <2>1, FunctionIsSeq
<1>3. /\ Append(f, e) \in Seq(T) /\ Len(Append(f, e)) = n + 1
      /\ \A i \in 1..n : Append(f, e)[i] = f[i]
      /\ Append(f, e)[n + 1] = e
  BY <1>1, AppendProperties
<1>4. \A i \in 1..Len(g) : g[i] = Append(f, e)[i]
  BY <1>2, <1>3
<1> QED BY <1>2, <1>3, <1>4, SeqEqual

\* What one row amounts to, and what a new row does to the book.
Entry(prefix, year, next, open) ==
  [prefix |-> prefix, year |-> year, next |-> next, open |-> open]

LEMMA BookAfter ==
  ASSUME TypeOK, NEW r \in Registries, NEW row \in Rows, reg' = [reg EXCEPT ![r] = row]
  PROVE  Book' = [Book EXCEPT ![r] = Entry(row.prefix, row.an, row.nrUrmator, row.active)]
<1>1. reg'[r] = row /\ \A q \in Registries : q # r => reg'[q] = reg[q]
  BY DEF TypeOK
<1>2. Book'[r] = Entry(row.prefix, row.an, row.nrUrmator, row.active)
  <2>1. Book'[r] = [prefix |-> reg'[r].prefix, year |-> reg'[r].an,
                    next |-> reg'[r].nrUrmator, open |-> reg'[r].active]
    BY DEF Book
  <2> QED BY <1>1, <2>1, Zenon DEF Entry
<1>3. \A q \in Registries : q # r => Book'[q] = Book[q]
  BY <1>1 DEF Book
<1> QED BY <1>2, <1>3, Zenon DEF Book

\* Committing a number appends its year and number to what is issued.
LEMMA IssuedAppend ==
  ASSUME TypeOK, NEW r \in Registries, NEW ev \in Allocations,
         allocated' = [allocated EXCEPT ![r] = Append(@, ev)]
  PROVE  Issued' = [Issued EXCEPT ![r] = Append(@, [an |-> ev.an, number |-> ev.number])]
<1> DEFINE n  == Len(allocated[r])
           e2 == [an |-> ev.an, number |-> ev.number]
           T  == [an : Nat, number : Nat]
<1>1. allocated[r] \in Seq(Allocations) /\ n \in Nat /\ allocated'[r] = Append(allocated[r], ev)
  BY DEF TypeOK
<1>2. /\ Len(allocated'[r]) = n + 1 /\ allocated'[r][n + 1] = ev
      /\ \A i \in 1..n : allocated'[r][i] = allocated[r][i] /\ allocated[r][i] \in Allocations
  BY <1>1
<1>3. \A i \in 1..(n + 1) : allocated'[r][i] \in Allocations
  BY <1>1, <1>2
<1>4. Issued[r] \in [1..n -> T]
  BY <1>2 DEF Issued, Allocations
<1>5. Issued'[r] \in [1..(n + 1) -> T]
  BY <1>2, <1>3 DEF Issued, Allocations
<1>6. e2 \in T
  BY DEF Allocations
<1>7. Issued'[r][n + 1] = e2 /\ \A i \in 1..n : Issued'[r][i] = Issued[r][i]
  BY <1>1, <1>2 DEF Issued
<1> HIDE DEF n, e2, T
<1>8. Issued'[r] = Append(Issued[r], e2)
  BY <1>1, <1>4, <1>5, <1>6, <1>7, OneMore
<1>9. \A q \in Registries : q # r => Issued'[q] = Issued[q]
  BY DEF Issued, TypeOK
<1> QED BY <1>8, <1>9 DEF Issued, e2

\* A COMMIT takes the next number.
LEMMA CommitTakes ==
  ASSUME TypeOK, CallInv, ServedInv, NEW c \in Callers, Commit(c)
  PROVE  Abstract!Next
<1>1. PICK r \in Registries, row \in Rows, now \in 0..MaxClock :
        /\ r = tx[c].reg /\ row = tx[c].write /\ now = tx[c].now
        /\ lockedBy[r] = c /\ reg[r].active
        /\ row.prefix = reg[r].prefix /\ row.active = reg[r].active
        /\ row.nrUrmator = row.nrCurent + 1 /\ row.nrUrmator <= MaxInteger
        /\ \/ row.an = reg[r].an /\ row.nrCurent = reg[r].nrUrmator
           \/ row.an > reg[r].an /\ row.nrCurent = 1 /\ row.an = YearOf(now)
        /\ \A q \in Registries \ {r} : ~SameKey(row, reg[q])
  BY CommitFinds
<1>2. PICK ev : ev = [an |-> row.an, number |-> row.nrCurent, now |-> now]
  OBVIOUS
<1>3. /\ reg' = [reg EXCEPT ![r] = row]
      /\ allocated' = [allocated EXCEPT ![r] = Append(@, ev)]
  BY <1>1, <1>2 DEF Commit
<1>4. ev \in Allocations /\ ev.an = row.an /\ ev.number = row.nrCurent
  BY <1>2, BoundsAssumption DEF Allocations, Rows
<1>5. Issued' = [Issued EXCEPT ![r] =
                   Append(@, [an |-> row.an, number |-> row.nrCurent])]
  BY <1>3, <1>4, IssuedAppend
<1>6. Book' = [Book EXCEPT ![r] = [prefix |-> Book[r].prefix, year |-> row.an,
                                   next |-> row.nrCurent + 1, open |-> TRUE]]
  <2>1. reg' = [reg EXCEPT ![r] = row]
    BY <1>3
  <2>2. Book' = [Book EXCEPT ![r] = Entry(row.prefix, row.an, row.nrUrmator, row.active)]
    BY <2>1, BookAfter, Zenon
  <2>3. row.active \in BOOLEAN /\ reg[r] \in Rows /\ reg[r].active \in BOOLEAN
    BY DEF TypeOK, Rows
  <2>4. TRUE = row.active
    BY <1>1, <2>3
  <2>5. Book[r].prefix = row.prefix /\ row.nrUrmator = row.nrCurent + 1
    BY <1>1 DEF Book
  <2> QED BY <2>2, <2>4, <2>5, Zenon DEF Entry
<1>7. row.nrCurent < MaxInteger
  BY <1>1, BoundsAssumption DEF Rows
<1>8. /\ Book[r].open /\ Book[r].year = reg[r].an /\ Book[r].next = reg[r].nrUrmator
      /\ Book[r].prefix = row.prefix
      /\ \A q \in Registries : Book[q].prefix = reg[q].prefix /\ Book[q].year = reg[q].an
  BY <1>1 DEF Book
<1>9. ~Abstract!KeyTaken(r, row.an)
  BY <1>1, <1>8 DEF Abstract!KeyTaken, SameKey
<1>10. Abstract!Take(r, row.an, row.nrCurent)
  BY <1>1, <1>5, <1>6, <1>7, <1>8, <1>9 DEF Abstract!Take
<1>11. \/ row.an = Book[r].year /\ row.nrCurent = Book[r].next
       \/ row.an \in {YearOf(t) : t \in 0..MaxClock} /\ row.nrCurent = 1
  BY <1>1, <1>8
<1> QED BY <1>10, <1>11 DEF Abstract!Next

\* An administrator's step closes the series.
LEMMA DeactivateCloses ==
  ASSUME TypeOK, NEW r \in Registries, Deactivate(r)
  PROVE  Abstract!Next
<1>1. /\ reg' = [reg EXCEPT ![r] = [reg[r] EXCEPT !.active = FALSE]]
      /\ allocated' = allocated /\ reg[r].active /\ reg[r] \in Rows
  BY DEF Deactivate, TypeOK
<1>2. Issued' = Issued
  BY <1>1 DEF Issued
<1>3. /\ Book[r].open
      /\ Book' = [Book EXCEPT ![r] = [prefix |-> Book[r].prefix, year |-> Book[r].year,
                                      next |-> Book[r].next, open |-> FALSE]]
  <2>1. PICK row : row = [reg[r] EXCEPT !.active = FALSE]
    OBVIOUS
  <2>2. /\ row \in Rows /\ FALSE = row.active /\ row.prefix = reg[r].prefix
        /\ row.an = reg[r].an /\ row.nrUrmator = reg[r].nrUrmator
    BY <1>1, <2>1 DEF Rows
  <2>3. Book' = [Book EXCEPT ![r] = Entry(row.prefix, row.an, row.nrUrmator, row.active)]
    BY <1>1, <2>1, <2>2, BookAfter, Zenon
  <2>4. Book[r].prefix = row.prefix /\ Book[r].year = row.an /\ Book[r].next = row.nrUrmator
    BY <2>2 DEF Book
  <2>5. Book[r].open
    BY <1>1 DEF Book
  <2> QED BY <2>2, <2>3, <2>4, <2>5, Zenon DEF Entry
<1>4. Abstract!Close(r)
  BY <1>2, <1>3 DEF Abstract!Close
<1> QED BY <1>4 DEF Abstract!Next

\* Every step is one of the number series or changes nothing it speaks of.
LEMMA StepRefines ==
  ASSUME TypeOK, CallInv, ServedInv, [Next]_vars
  PROVE  [Abstract!Next]_(Abstract!vars)
<1>1. CASE UNCHANGED <<reg, allocated>>
  BY <1>1 DEF Abstract!vars, Book, Issued
<1>2. \/ \E c \in Callers : Commit(c)
      \/ \E r \in Registries : Deactivate(r)
      \/ UNCHANGED <<reg, allocated>>
  BY DEF Next, vars, Begin, NotFound, TakeSnapshot, SelectForUpdate,
         SerializationFailure, UpdateCounter, UpdateRefused, Abort, RollBack, Tick
<1> QED BY <1>1, <1>2, CommitTakes, DeactivateCloses

LEMMA InitRefines == Init => Abstract!Init
<1> SUFFICES ASSUME Init PROVE Abstract!Init
  OBVIOUS
<1>1. reg \in [Registries -> Rows] /\ KeysAreDistinct
  BY InitialRowsAssumption DEF Init, KeysAreDistinct, SameKey
<1>2. Book \in [Registries -> Abstract!Books]
  BY <1>1 DEF Book, Abstract!Books, Rows
<1>3. \A r \in Registries : ~Abstract!KeyTaken(r, Book[r].year)
  BY <1>1 DEF KeysAreDistinct, SameKey, Abstract!KeyTaken, Book
<1>4. Issued = [r \in Registries |-> <<>>]
  <2>1. \A r \in Registries : Issued[r] = <<>>
    BY DEF Init, Issued
  <2> QED BY <2>1 DEF Issued
<1> QED BY <1>2, <1>3, <1>4 DEF Abstract!Init

\* Transactions that interleave, wait for locks and keys, fail anywhere and read
\* clocks that lag implement calls that take their number in one step, and a
\* closed registry gives out no more (number.go:14-68).
THEOREM Refinement == Spec => ImplementsNumberSeries
<1>1. TypeOK /\ CallInv /\ ServedInv /\ [Next]_vars => ServedInv'
  BY NextServed
<1>2. TypeOK /\ CallInv /\ ServedInv /\ [Next]_vars => [Abstract!Next]_(Abstract!vars)
  BY StepRefines
<1> QED
  BY <1>1, <1>2, InitServed, InitRefines, Invariance, PTL
  DEF Spec, Abstract!Spec, ImplementsNumberSeries
=============================================================================
