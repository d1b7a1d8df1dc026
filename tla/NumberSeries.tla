------------------------------ MODULE NumberSeries ------------------------------
(***************************************************************************)
(* What the registries promise about document numbers, with no             *)
(* transactions, locks or clocks in it: GenerateNextNumber "atomically     *)
(* allocates the next document number for a registry"                      *)
(* (internal/registry/number.go:14).  A registry has a year, the number it *)
(* gives out next and the list of those it has given out; taking a number  *)
(* changes all three in one step, and only while the registry is open.     *)
(***************************************************************************)
EXTENDS Naturals, Sequences

CONSTANTS
  Registries,    \* registries
  Prefixes,      \* registry prefixes; two registries may share one
  Years,         \* the years a registry may move to
  MaxInteger     \* the largest number a registry can count to

VARIABLES
  book,      \* book[r]: prefix, year, next number and whether r is open
  issued     \* issued[r]: the numbers r has given out, in their order

vars == <<book, issued>>

Books == [prefix : Prefixes, year : Nat, next : Nat, open : BOOLEAN]

\* Another registry has the prefix and the year.
KeyTaken(r, year) ==
  \E q \in Registries \ {r} : book[q].prefix = book[r].prefix /\ book[q].year = year

Init ==
  /\ book \in [Registries -> Books]
  /\ \A r \in Registries : ~KeyTaken(r, book[r].year)
  /\ issued = [r \in Registries |-> <<>>]

\* An open registry gives out number n of a year: its next one, or the first
\* one of a later year, if no other registry of its prefix has that year.
Take(r, year, n) ==
  /\ book[r].open
  /\ \/ year = book[r].year /\ n = book[r].next
     \/ year > book[r].year /\ n = 1
  /\ n < MaxInteger
  /\ ~KeyTaken(r, year)
  /\ book' = [book EXCEPT ![r] =
       [prefix |-> book[r].prefix, year |-> year, next |-> n + 1, open |-> TRUE]]
  /\ issued' = [issued EXCEPT ![r] = Append(@, [an |-> year, number |-> n])]

\* A registry is closed for good.
Close(r) ==
  /\ book[r].open
  /\ book' = [book EXCEPT ![r] =
       [prefix |-> book[r].prefix, year |-> book[r].year, next |-> book[r].next,
        open |-> FALSE]]
  /\ UNCHANGED issued

Next ==
  \E r \in Registries :
    \/ \E year \in {book[r].year} \cup Years :
         Take(r, year, book[r].next) \/ Take(r, year, 1)
    \/ Close(r)

Spec == Init /\ [][Next]_vars
=============================================================================
