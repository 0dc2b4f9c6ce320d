------------------------------- MODULE MC_Cron -------------------------------
(* Small instances of CronService: one or two one-shot jobs and a recurring one. *)
EXTENDS CronService

CONSTANTS a, b, c

\* a and b are due at 2 and 3, c recurs.
MCAtTime == [j \in Jobs |-> CASE j = a -> 2 [] j = b -> 3 [] OTHER -> 0]
=============================================================================
