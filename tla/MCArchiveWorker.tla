---------------------------- MODULE MCArchiveWorker ----------------------------
(***************************************************************************)
(* Instance of ArchiveWorker for TLC.                                      *)
(***************************************************************************)
EXTENDS ArchiveWorker

CONSTANTS d1, d2, w1, w2
=============================================================================
