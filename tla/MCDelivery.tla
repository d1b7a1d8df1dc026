------------------------------ MODULE MCDelivery ------------------------------
(***************************************************************************)
(* Instance of Delivery for TLC.                                           *)
(***************************************************************************)
EXTENDS Delivery, TLC

CONSTANTS e1, e2

\* The second entity comes before the first in a list.
MCDenumire == (e1 :> 2) @@ (e2 :> 1)
MCFilters == {EntityIds}
MCLimits == {0}
=============================================================================
