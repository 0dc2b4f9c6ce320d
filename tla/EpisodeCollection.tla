-------------------------- MODULE EpisodeCollection --------------------------
(***************************************************************************)
(* collect_episodes (orchestration/data_collection.py) with the recording  *)
(* and judging of an episode (supervision.py), the dataset (dataset.py)    *)
(* and the dashboard (collection_server.py).  A file is named after its    *)
(* episode and step, so that the takes of an episode write to the same     *)
(* files; content is the number of the take it shows.                      *)
(*                                                                         *)
(* One sensor; an action is the code up to the next await.                 *)
(***************************************************************************)
EXTENDS Naturals, Sequences

CONSTANTS
  Episodes,   \* num_episodes
  Steps,      \* of the skill
  Holds       \* wait_closed of a server waits for its open connections, as it
              \* does from Python 3.12 on

ASSUME CollectionAssumption ==
  Episodes \in Nat \ {0} /\ Steps \in Nat \ {0} /\ Holds \in BOOLEAN

Takes == 3    \* one and the two retries of collect_episodes

VARIABLES
  supervised, \* with an EpisodeSupervisor
  pc,         \* "start", "reset", "step", "closing" (the last report is awaited),
              \* "stopping" (dashboard.stop() is), "saving", "over"
  raising,    \* an exception is on its way through the finally clause
  episode, take,
  steps,      \* recorded in this take: [ok, moved, captured]
  staging,    \* .staging/frames: [1..Episodes, 1..Steps -> take], 0 if no file
  rows,       \* EpisodeDataset._frames: [episode, frame, take, image]
  images,     \* the files under images/
  completed, failed,
  board,      \* the dashboard serves its page
  client,     \* a browser holds a connection and has not sent its request
  disk        \* what save() has written: "none", "rows" (data/episodes.parquet
              \* or .jsonl), "whole" (meta/info.json too)

browser == <<board, client>>
collectVars == <<supervised, pc, raising, episode, take, steps, staging, rows, images,
          completed, failed, browser, disk>>

Files == [ep \in 1..Episodes |-> [k \in 1..Steps |-> 0]]

CollectInit ==
  /\ supervised \in BOOLEAN
  /\ pc = "start" /\ episode = 1 /\ take = 1 /\ steps = <<>>
  /\ staging = Files /\ rows = <<>> /\ images = Files
  /\ completed = 0 /\ failed = 0 /\ board = FALSE /\ client = FALSE
  /\ disk = "none" /\ raising = FALSE

\* The dashboard is left out when its port is taken.
Begin ==
  /\ pc = "start" /\ pc' = "reset"
  /\ board' \in BOOLEAN
  /\ UNCHANGED <<supervised, raising, episode, take, steps, staging, rows, images,
                 completed, failed, client, disk>>

\* _handle_client reads with no timeout: the connection stays until the request has
\* come and been answered, or the browser closes it.
Browse ==
  /\ (board /\ client' = TRUE) \/ client' = FALSE
  /\ UNCHANGED <<supervised, pc, raising, episode, take, steps, staging, rows, images,
                 completed, failed, board, disk>>

-----------------------------------------------------------------------------
(* The end of a take *)

\* EpisodeSupervisor.judge, with min_joints_moved 1: a joint that moved is a
\* change of state.
Judged(ok, recorded) == ok /\ \E i \in DOMAIN recorded : recorded[i].moved

\* Mutant: a file that is there is taken for what the step captured.
MutRowOf(recorded, k) ==
  [episode |-> episode, frame |-> k, take |-> take, image |-> staging'[episode][k]]

\* add_frame: what a step captured is copied from the staging directory.
RowOf(recorded, k) ==
  [episode |-> episode, frame |-> k, take |-> take,
   image |-> IF recorded[k].captured THEN staging'[episode][k] ELSE 0]

Conclude(ok, recorded) ==
  /\ rows' = rows \o [k \in DOMAIN recorded |-> RowOf(recorded, k)]
  /\ images' = [images EXCEPT ![episode] = [k \in 1..Steps |->
                  IF k \in DOMAIN recorded THEN RowOf(recorded, k).image ELSE @[k]]]
  /\ completed' = IF ok THEN completed + 1 ELSE completed
  /\ failed' = IF ok THEN failed ELSE failed + 1
  /\ steps' = <<>> /\ take' = 1
  /\ IF episode < Episodes THEN episode' = episode + 1 /\ pc' = "reset"
     ELSE pc' = "closing" /\ UNCHANGED episode

\* A supervised episode is tried again up to twice; the frames of the take
\* before are forgotten.
MutEndTake(ok, recorded) ==
  IF supervised /\ ~Judged(ok, recorded)
  THEN /\ pc' = "reset" /\ steps' = <<>>
       /\ UNCHANGED <<episode, take, rows, images, completed, failed>>
  ELSE Conclude(ok, recorded)
EndTake(ok, recorded) ==
  IF supervised /\ ~Judged(ok, recorded) /\ take < Takes
  THEN /\ take' = take + 1 /\ pc' = "reset" /\ steps' = <<>>
       /\ UNCHANGED <<episode, rows, images, completed, failed>>
  ELSE Conclude(IF supervised THEN Judged(ok, recorded) ELSE ok, recorded)

\* execute_reset; without it the skill is not run.
Reset(ok) ==
  /\ pc = "reset" /\ UNCHANGED staging
  /\ IF ok THEN pc' = "step" /\ UNCHANGED <<episode, take, steps, rows, images, completed, failed>>
     ELSE EndTake(FALSE, <<>>)
  /\ UNCHANGED <<supervised, raising, browser, disk>>

\* One execute_move of the RecordingExecutor, with capture_sensors after it;
\* a step that fails ends the skill but is recorded too.
MutStep(ok, moved, captured) ==
  LET recorded == Append(steps, [ok |-> ok, moved |-> moved, captured |-> captured])
      k == Len(recorded)
  IN  /\ pc = "step"
      /\ staging' = IF captured THEN [staging EXCEPT ![episode][k] = take] ELSE staging
      /\ IF ok /\ k < Steps
         THEN steps' = recorded /\ UNCHANGED <<pc, episode, take, rows, images, completed, failed>>
         ELSE EndTake(TRUE, recorded)
      /\ UNCHANGED <<supervised, raising, browser, disk>>
Step(ok, moved, captured) ==
  LET recorded == Append(steps, [ok |-> ok, moved |-> moved, captured |-> captured])
      k == Len(recorded)
  IN  /\ pc = "step"
      /\ staging' = IF captured THEN [staging EXCEPT ![episode][k] = take] ELSE staging
      /\ IF ok /\ k < Steps
         THEN steps' = recorded /\ UNCHANGED <<pc, episode, take, rows, images, completed, failed>>
         ELSE EndTake(ok, recorded)
      /\ UNCHANGED <<supervised, raising, browser, disk>>

-----------------------------------------------------------------------------
(* The end of the collection *)

\* The finally clause: the staging directory goes, and the server is closed.
Finally ==
  /\ pc' = "stopping" /\ staging' = Files /\ board' = FALSE
  /\ UNCHANGED <<supervised, episode, take, steps, rows, images, completed, failed, client, disk>>
Close == pc = "closing" /\ Finally /\ UNCHANGED raising

\* An exception of the adapter or of a report, or a /stop.
Raised == pc \in {"reset", "step", "closing"} /\ Finally /\ raising' = TRUE

\* wait_closed is over. The exception goes on, or save() begins: first the rows, then
\* the description.
ServerClosed == pc = "stopping" /\ (client => ~Holds)
GiveUp ==
  /\ ServerClosed /\ raising
  /\ pc' = "over"
  /\ UNCHANGED <<supervised, raising, episode, take, steps, staging, rows, images,
                 completed, failed, browser, disk>>
SaveData ==
  /\ ServerClosed /\ ~raising
  /\ pc' = "saving" /\ disk' = "rows"
  /\ UNCHANGED <<supervised, raising, episode, take, steps, staging, rows, images,
                 completed, failed, browser>>
SaveInfo ==
  /\ pc = "saving"
  /\ pc' = "over" /\ disk' = "whole"
  /\ UNCHANGED <<supervised, raising, episode, take, steps, staging, rows, images,
                 completed, failed, browser>>

\* A /stop while the server is awaited: there is nothing left to clean up, and
\* nothing is saved.
CutShort ==
  /\ pc = "stopping" /\ pc' = "over"
  /\ UNCHANGED <<supervised, raising, episode, take, steps, staging, rows, images,
                 completed, failed, browser, disk>>

\* The process dies, at any moment; the directory stays as it is.
Crash ==
  /\ pc \notin {"start", "over"}
  /\ pc' = "over" /\ board' = FALSE /\ client' = FALSE
  /\ UNCHANGED <<supervised, raising, episode, take, steps, staging, rows, images,
                 completed, failed, disk>>

Ended == pc = "over" /\ UNCHANGED collectVars

Work ==
  \/ Begin
  \/ \E ok \in BOOLEAN : Reset(ok)
  \/ \E ok, moved, captured \in BOOLEAN : Step(ok, moved, captured)
  \/ Close \/ GiveUp \/ SaveData \/ SaveInfo
CollectNext == Work \/ Raised \/ CutShort \/ Crash \/ Browse \/ Ended

\* Every call of the adapter has a timeout; nothing is assumed of a browser.
CollectSpec == CollectInit /\ [][CollectNext]_collectVars /\ WF_collectVars(Work)

-----------------------------------------------------------------------------
(* Properties *)

\* The picture of a frame shows the take that its state and action come from,
\* though every take writes to the same files (capture_sensors, add_frame).
ImagesOfTake ==
  \A i \in DOMAIN rows : /\ rows[i].image \in {0, rows[i].take}
                         /\ rows[i].image # 0 => images[rows[i].episode][rows[i].frame] = rows[i].take

\* The collection as the ledger sees it.
Taken == {<<rows[i].episode, rows[i].frame, rows[i].take>> : i \in DOMAIN rows}
Ledger == INSTANCE EpisodeLedger WITH
  concluded <- completed + failed,
  frames    <- Taken,
  dataset   <- IF disk = "whole" THEN Taken ELSE {},
  phase     <- IF disk = "whole" THEN "saved" ELSE IF pc = "over" THEN "aborted" ELSE "collecting"

\* What a take leaves is the work of one attempt, an episode that counts as
\* completed has all steps of the skill, and a dataset that has its
\* description holds all episodes: the collection implements the ledger.
LedgerSpec == Ledger!Spec

\* A collection ends, however often episodes fail, or waits from some time on for a
\* browser that sends nothing (collect_episodes, CollectionDashboard.stop).
CollectionEnds == pc = "reset" ~> (pc = "over" \/ [](pc = "stopping" /\ client))
=============================================================================
