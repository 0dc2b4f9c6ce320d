---------------------------- MODULE EpisodeLedger ----------------------------
(***************************************************************************)
(* What a data collection promises: episodes are concluded one after the   *)
(* other, each with the frames of one take of the skill, all of them if    *)
(* the episode counts as completed; and a dataset holds every episode that *)
(* was asked for, or there is none.                                        *)
(***************************************************************************)
EXTENDS Naturals

CONSTANTS
  Episodes,   \* how many are asked for
  Steps,      \* of the skill
  Takes       \* attempts at one episode

VARIABLES
  concluded,  \* episodes that are over
  completed,  \* those that succeeded
  frames,     \* <<episode, frame, take>>
  dataset,    \* what was saved
  phase       \* "collecting", "saved", "aborted"

vars == <<concluded, completed, frames, dataset, phase>>

Init ==
  /\ concluded = 0 /\ completed = 0 /\ frames = {}
  /\ dataset = {} /\ phase = "collecting"

Conclude(ok, n, take) ==
  /\ phase = "collecting" /\ concluded < Episodes
  /\ ok => n = Steps
  /\ concluded' = concluded + 1
  /\ completed' = IF ok THEN completed + 1 ELSE completed
  /\ frames' = frames \union {<<concluded + 1, i, take>> : i \in 1..n}
  /\ UNCHANGED <<dataset, phase>>

Save ==
  /\ phase = "collecting" /\ concluded = Episodes
  /\ dataset' = frames /\ phase' = "saved"
  /\ UNCHANGED <<concluded, completed, frames>>

Abort ==
  /\ phase = "collecting" /\ phase' = "aborted"
  /\ UNCHANGED <<concluded, completed, frames, dataset>>

Next ==
  \/ \E ok \in BOOLEAN, n \in 0..Steps, take \in 1..Takes : Conclude(ok, n, take)
  \/ Save \/ Abort

Spec == Init /\ [][Next]_vars
=============================================================================
