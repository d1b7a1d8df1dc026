------------------------------ MODULE MCPackaging ------------------------------
(***************************************************************************)
(* Instance of Packaging for TLC.                                          *)
(***************************************************************************)
EXTENDS Packaging

MCNames == {[base |-> "adresa", ext |-> ".docx"]}
MCActions == {"FINALIZE"}
=============================================================================
