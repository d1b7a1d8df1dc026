--------------------------- MODULE MCRegistryNumber ---------------------------
(***************************************************************************)
(* Instance of RegistryNumber for TLC.                                     *)
(***************************************************************************)
EXTENDS RegistryNumber

CONSTANTS r1, r2, p1

Fresh(year, reset) ==
  [prefix |-> p1, an |-> year, nrCurent |-> 0, nrUrmator |-> 1,
   dataReset |-> reset, active |-> TRUE]

\* Two registries of one prefix, for years 0 and 1, or r1 alone and a closed
\* registry of another year.  From instant 3 on the first reset of r1 collides
\* with the key of r2 and in year 2 the two race for the same key.
MCInitialRows ==
  { [r \in Registries |-> IF r = r1 THEN Fresh(0, NewYear(1))
                                   ELSE Fresh(1, NewYear(2))],
    [r \in Registries |-> IF r = r1 THEN Fresh(0, NewYear(1))
                                   ELSE [Fresh(9, Null) EXCEPT !.active = FALSE]] }

\* One registry, resetting at the end of its year.
MCOneRegistry == {[r \in Registries |-> Fresh(0, NewYear(1))]}
=============================================================================
