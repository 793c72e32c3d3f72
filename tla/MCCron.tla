-------------------------------- MODULE MCCron --------------------------------
(* Small instances of Cron for TLC.                                        *)
EXTENDS Cron
=============================================================================
