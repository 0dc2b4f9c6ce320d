-------------------------------- MODULE MC_Arm --------------------------------
(* Small instances of ArmSetup: a chat, and the session of a cron job.        *)
EXTENDS ArmSetup
CONSTANTS c1, d1
=============================================================================
