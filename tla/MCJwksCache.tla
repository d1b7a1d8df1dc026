------------------------------ MODULE MCJwksCache ------------------------------
(***************************************************************************)
(* Instance of JwksCache for TLC.                                          *)
(***************************************************************************)
EXTENDS JwksCache

CONSTANT k1

\* One key, a lasting token and one that is soon expired.
MCTokens == { [key |-> k1, iat |-> 0, exp |-> MaxClock],
              [key |-> k1, iat |-> 2, exp |-> 2] }
=============================================================================
