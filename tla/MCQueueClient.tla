----------------------------- MODULE MCQueueClient -----------------------------
(***************************************************************************)
(* Small instances of QueueClient for TLC.                                 *)
(***************************************************************************)
EXTENDS QueueClient

CONSTANTS m1, m2, m3, m4
=============================================================================
