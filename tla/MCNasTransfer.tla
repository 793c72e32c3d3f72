---------------------------- MODULE MCNasTransfer ----------------------------
(* Small instances of NasTransfer for TLC.                                 *)
EXTENDS NasTransfer
=============================================================================
