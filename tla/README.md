# RoboClaw in TLA+

TLA+ models of RoboClaw, the TLC runs that check them on small instances, and
theorems about them proved with TLAPS. RoboClaw is a personal agent that chats
over messaging services, runs scheduled jobs, keeps a long-term memory, and
operates robot arms through ROS2. It is one asyncio process (the gateway, or the
interactive `agent` command) plus, for a robot, a control-surface process of its
own. Paths below are relative to `src/roboclaw/`.

Nearly all of its state is shared by asyncio tasks without locks, so what is hard
is what happens between two awaits of one task while another one runs, what a
cancellation leaves behind, and what a restart finds. The models are cut along
those lines: **an action is the code between two awaits**.

## 1. Inventory

| Part | State | Operations | Talks to | Hard behaviour | What makes it correct |
|---|---|---|---|---|---|
| Cron service, `cron/` | jobs in memory, `jobs.json`, mtime, one timer task, the batch it runs | start, stop, add, remove, list, enable, tick, run a job | agent loop (`on_job`), cron tool, a second process that edits the file | the tool cancels a running batch; reload during a batch; restart recomputes all times | no armed job forgotten, none run twice or after removal, file and memory agree |
| Sessions, `session/manager.py` | messages, `last_consolidated`, metadata, one file each, cache | get, save, clear, invalidate | agent loop, memory | append and save versus background consolidation; crash before save | offset within the messages; nothing skipped |
| Memory, `agent/memory.py` | `MEMORY.md`, `HISTORY.md` | consolidate (a model call) | sessions, provider | snapshot before the await, write after it; several sessions, one file | nothing summarised twice, nothing dropped |
| Agent loop, `agent/loop.py` | active tasks, processing lock, consolidation marks and locks | run, dispatch, /stop, /new, process_direct | bus, tools, sessions, subagents, embodied, onboarding | cancellation, lock order, turns outside the lock | every message answered once, in its chat, in order |
| Tools and subagents, `agent/tools`, `agent/subagent.py` | routing context, `_sent_in_turn`, running subagents | message, spawn, announce, cancel | loop, bus | one context shared by all turns | answers and announcements go where they belong |
| Bus, `bus/` | two unbounded queues | publish, consume | channels, loop | order | FIFO |
| Heartbeat, `heartbeat/` | one timer task | tick, decide, execute, notify | provider, loop | direct turns during user turns | one tick at a time |
| Gateway and CLI, `cli/commands.py` | wiring, terminal state | start, stop, cron and heartbeat callbacks, prompt | all | shutdown order | services stop, nothing left running |
| Channels, `channels/`, `src/bridge` | connections, dedup caches, cursors, typing tasks | start, receive, send, stop | bus, network services | reconnects, duplicates, retries, albums and delays, polls that take over from sockets | each message reaches the bus once or is given up knowingly, answers arrive in order |
| Embodied controller, `embodied/execution/controller.py`, `tools.py` | session metadata (setup, runtime, calibration) | connect, calibrate, move, skill, reset, debug, collect, train, deploy | executor, driver, sessions | pending calibration takes messages over; metadata versus flow | no flow that nobody can finish |
| Procedure executor, `.../orchestration/runtime` | runtime status, adapters | connect, move, reset, debug, calibrate | adapter | status across awaits, several chats | status tells what is going on |
| Calibration driver, `embodied/builtins/so101.py` | flows by runtime, a sampling task each | begin, advance, finish, cleanup | serial port, file | /stop while it saves; crash | saved only when complete |
| ROS2 adapter and control surface, `.../adapters/ros2`, `.../control_surfaces/ros2` | server process, port, calibration read at launch | connect, motions, reset, recover | servos, executor | outlives the agent; recovery kills competitors | arm moved only when calibrated |
| Policies, `.../inference.py` | table of running policies | deploy, stop, step | adapter, runtime status | two deployments, shared status | a running policy can be stopped, and is over when it is said to be |
| Data collection, `.../data_collection.py`, `supervision.py`, `dataset.py` | episodes, staging directory, dataset | collect, retry, judge, save | executor | failures and retries | the dataset holds what was counted |
| Training, `.../training.py`, `learning/` | subprocess | run | files | - | - |
| Onboarding, `embodied/onboarding/` | stage, facts, assets | intake to handoff | files, probes, calibration | resumption, edits out of order | ready only when every fact is there |
| Definitions, catalogue, workspace, `embodied/workspace.py` | immutable once loaded | inspect, load, find candidates | files of users and of the onboarding | one bad file raises for all setups | what the onboarding hands off can be loaded |
| Providers, config, simulation, perception, skills, utilities | little | - | external | - | - |

`PROJECT.json` lists each part with the modules that model it, and under
`hazards` every behaviour above that is hard to test, at its line, with the
properties aimed at it.

## 2. Modules

| Module | Models | Checked by | Proved in |
|---|---|---|---|
| `CronService` | cron service, its tool, a second writer of `jobs.json` | `MC_Cron` | `CronProofs` |
| `SessionMemory` | sessions, consolidation, /new, crash | `MC_Session` | `SessionProofs` |
| `TurnServer` | abstract: whom the agent serves when | through the next | `TurnProofs` |
| `AgentTurns` | bus, lock, /stop, turns, shared tools, subagents, direct turns; implements `TurnServer` | `MC_Turns` | `TurnProofs` |
| `ArmSetup` | embodied tool, calibration, executor, control surface, as whole calls | `MC_Arm` | `ArmProofs` |
| `ServoBus` | control surface and calibration monitor, as accesses to single servos | `MC_Servo` | `ServoProofs` |
| `PolicyRuns` | deploy_policy, stop_policy, and the moves beside them | itself | `ControllerProofs` |
| `EpisodeLedger` | abstract: what a data collection promises | through the next | `ControllerProofs` |
| `EpisodeCollection` | collection of episodes, dataset, dashboard; implements `EpisodeLedger` | itself | `ControllerProofs` |
| `Workspace` | the loader of the files of a setup | through the next | `OnboardingProofs` |
| `Onboarding` | the conversation that sets up a robot, over `Workspace` | `MC_Onboarding` | `OnboardingProofs` |
| `ChannelBus` | what all channels share; agent and users as seen from there; dispatcher, start and stop | through `Channels` | `ChannelProofs` |
| `Telegram`, `Discord`, `Matrix`, `Mail`, `Mochat`, `PushChannels` | the ten channels (the last: Feishu, QQ, WhatsApp, DingTalk, Slack) | through `Channels` | `ChannelProofs` |
| `Channels` | the composition of the seven modules above | `MC_Channels` | `ChannelProofs` |

An operator whose name begins with `Mut` is a plausible mistake in the definition
that follows it; it is not part of any specification. For each property of a
passing run there is one whose substitution makes TLC report that property
(`PROJECT.json`, `mutants`), so that no property holds merely by the shape of the
model.

### CronService

`mem` is `_store.jobs` (id to enabled and next run; 0 is None, as in the code,
which tests the truth value), `disk` is `jobs.json`, `stale` says that the file's
mtime is not the one recorded by the last save, `timer` is `_timer_task`,
`current` and `pending` are the job whose `on_job` is awaited and the rest of
`due_jobs`. `orphan` records that a reload replaced the store while a batch was
running: the jobs of the batch are then objects that no save will write, except
that a deletion filters the current store by id. `ArmTimer` cancels whatever the
timer task is doing, which is what `_timer_task.cancel()` does even to a batch.
`JobDoneNext` and `JobDoneLast` are `on_job` returning or raising. A loaded file
that is not saved leaves `_last_mtime` alone, as in the code, so that it is loaded
again at the next call. Recurring jobs by interval stand for cron expressions too:
both compute the next run from the present moment.

Left out: `run_job` (no caller), the evaluation of cron expressions, files that
cannot be parsed, mtimes that do not change with a write.

### SessionMemory

The messages of a session are numbered over its whole life. `base` counts those
that /new cleared, `lc - base` is `last_consolidated`, `savedLc` what the file has
of it. Append and save have no await between them, so the file always holds the
messages. `task` are the background consolidations, `turn` the calls of
`_process_message`; both hold what they read before the model call (`from`,
`upto`, `seen`), because the code goes on using it afterwards. `memory` is a set
of facts: the model is assumed to answer with the memory it was given plus at most
one new fact, so that a fact can only get lost by an overwrite. All sessions share
it; `author` is the session whose consolidation wrote it last. Two sessions that
consolidate at once do overwrite each other (section 5), and the run with two chats
has that case: `MemoryKept` says that it is the only one. `TaskHalfDone` is
an exception between `append_history` and the end of `consolidate`.

Left out: a torn write of a session file; providers that leave out the arguments
the tool requires.

### TurnServer and AgentTurns

A turn is identified with the message it serves; an announcement is a system
message identified with its subagent; a direct turn is a call of `process_direct`.
`Consume` and `ConsumeStop` are one iteration of `run()`, `waiting` and `holder`
are the lock with its FIFO of waiters, `Cancelled` is CancelledError reaching a
task, `ctx` is the routing context and `_sent_in_turn` of the shared tools, `out`
what was published. The tool loop is reduced to what it does to shared state:
`ToolMessage` and `ToolSpawn`, any number of times in any order, then `Finish`,
`Fail` or `Rethrow`. A message has a chat and a session `key`, which differ in a
thread of Slack or a topic of Telegram: /stop goes by the key, the answer by the chat,
and the spawn tool registers a subagent under the chat. `Rethrow` is a turn that waits
for a task which was cancelled together with another turn (the end of a calibration,
a policy to be stopped): `_dispatch` hands the CancelledError on and nobody answers;
`cut` and `raised` record both ends of it. Two properties are stated for turns that are
not `mixed`, i.e. did not overlap with a direct turn; section 5 says what can happen to
the others.

`TurnServer` is what this machinery amounts to for those who write over the bus: one
line, served from the front, one at a time; whoever leaves without being served was
called off by a /stop that came later; only who is served, and not called off, says
anything. The refinement mapping at the end of `AgentTurns` takes for the line the
waiters of the lock followed by the queue of the bus, so that `Consume` moves
nobody, and for who is served the holder of the lock. Direct turns and the answer to
/stop itself are beside the server.

### ArmSetup

Each chat has a runtime for the setup (`status`, `adapter`), a calibration
flow (`flow`, `stream`) and session metadata (`pending`); they share the
calibration `file`, the control surface (`arm`), the arm, and the tool. `turns` are
the chats with a turn in progress, and `bound` is the session the tool was given
last (`EmbodiedControlTool._session`): a call of any turn operates the runtime of
`bound`, so that `op[t]`, the operation that turn `t` awaits, is one of the
runtime `on[t]`, which may be another chat's. A calibration is a
number, and each one saved gets the next. `Begin...` actions start an operation, `ConnectDone`,
`MotionDone`, `Save` and so on answer it, `Stop` cuts it off with whatever the server may still do with the
call (`Abandoned`); `left` are the runtimes whose status then stays as it was. `MayCome` is the
processing lock of the chats served from the bus;
the sessions of cron jobs (`Direct`) do not take it. Calibration state that is pending is looked at
when a turn begins, and not again. `ServerEnds` and `Crash` are
the end of either process.

Left out: servo registers and units, setups other than one SO101, the selection
among setups, simulation targets, and the killing of competing processes
(control_surface.py:227-251), which looks like any other `Crash`.

### ServoBus

The same two processes one level below `ArmSetup`: a step is one access to one
servo. Of a servo's registers the model keeps its `frame` (whose homing offset and
limits it holds: none, the file's, or the new calibration's) and its
torque. A `call` of a service is a plan, the sequence of steps its handler makes,
consumed from the front; a step that fails leads to the recovery
(`_call_with_runtime_recovery`: drop the port, then everything once again) or to an
answer with an error, or it ends the server. `mon` is the calibration monitor with the stages
of a calibration, which opens the same serial port. Faults are garbled packets,
errors of a servo and power cycles. `doubt` records that the servos may have lost
what the server wrote without its being able to know, and the properties are stated up to it.

Left out: positions and units, the parsing of ROS2 output, the killing of
competing processes (`Launch` models the next start).

### PolicyRuns

`runs` are the `InferenceSession`s in the order of their deployment, each with its
task's phase, its stop event and its `running` flag; `table` is the entry of
`_INFERENCE_SESSIONS`. As in `ArmSetup`, `bound` is the session of the shared tool:
`op[t]` is what turn `t` awaits, and its field `of` is the chat of whose runtime. `status`
is the `RuntimeSession.status` that policies share with moves. A policy sets it busy
once, before its loop (`Load`, inference.py:68), so that a move or a reset beside it
leaves another status while it runs; a round of the loop, which changes nothing here,
ends it (`LoopEnds`, `StepFails`) or does not. `displaced` are runs whose
place in the table a second deploy took while they were still starting: `running`
is set only after the connect, so that controller.py:618 lets it through. `left`
are runtimes whose operation a /stop has cut off. What a policy predicts is left out.

### EpisodeLedger and EpisodeCollection

The ledger is the promise: episodes are concluded one by one, each with frames of
one take, a completed one with all of them; a dataset with its description holds
everything or does not exist. The collection has the loop of reset, take, judge and
retry, the staging directory in which every take of an episode writes to the same
files, the copies under `images/`, the two steps of `save()`, the dashboard,
exceptions and a crash at every await. A browser may hold a connection to the dashboard
without sending anything (`client`); while it does, `dashboard.stop()` waits where
`wait_closed` does (`Holds`, from Python 3.12 on), and `CutShort` is a /stop at that
moment. The refinement mapping is an `INSTANCE ...
WITH` at the end of `EpisodeCollection`: `concluded` is completed plus failed,
`frames` the rows without their pictures.

### Workspace and Onboarding

`Workspace` has operators only: what the inspection finds wrong with a file, when
loading raises, which setups execution then sees as candidates. `Onboarding` keeps
the saved state and the `draft` of the turn; `at` is the next handler of
`StageHandler`, and an action is a handler, or the part of it between two tools.
Meanwhile the `host` changes (a device is plugged in, ROS2 gets installed, the
calibration file appears) and a /stop may cut the turn, which forgets the draft but
keeps the files written so far (`torn`). A write may fail (`Write`), before it has
opened the file or with the file cut short: the tool answers with a text, which nobody
looks at, and the handler goes on. A message is what `IntentEngine` makes of
the text; `shown` records which steps of the install guide the user has seen.

Left out: the parsing of messages, the wording, the text of the files (a file is
its kind, its defects and what it belongs to).

### ChannelBus and the channels

A message is a number whose `shape` says who wrote it, whether in a group, whether
the bot is mentioned and whether it has an attachment. `service` is what the
network service may still deliver (up to `Copies` times), `seen` the cache of ids,
`handling` the handlers that await something, `buffer` and `timer` an album or
Mochat's delayed entries, `typing` the typing tasks, `inbound` the batches on the
bus, `outbox` the answers, `disp` the dispatcher with the piece and the attempt it
is at. The ghosts: `times` counts publications, `gone` are messages given up by a
step of the code that lets go of them (a first poll that drops, a fetch or a download
that breaks, the end), `again` those that have left the cache, so that nobody would
recognise a repetition, `silent` the chats whose typing goes on because the turn left
no answer (`NoAnswer`). The channels share only the bus and the
dispatcher, so a behaviour has one of them enabled, chosen in the initial state.

Each module is faithful to what is peculiar to its channel: Telegram handles one
update at a time and puts albums together; Discord never resumes a connection;
Matrix awaits the typing task it cancels, and loses the message whose file cannot be
downloaded; `Mail` has the poll in its thread and the
mailbox options; `Mochat` has a session with a cursor saved late, a panel
without one, the socket's subscriptions, the workers that take over, and a crash;
Slack pairs two events of one message, and its `send` sends nothing, as it reads a name
that is not defined (slack.py:85); DingTalk and Slack have no cache.

Left out: rendering, codecs, topics and threads, the splitting of texts (a message
has a number of pieces), several channels at once.


## 3. Runs

| Run | Instance | Shows |
|---|---|---|
| `cron_gateway` | two one-shot jobs (one kept, one deleted after its run), one recurring; clock to 5, three tool calls, one external edit | `TimerCovers`, `DiskInSync`, `OneShotUnlessDisturbed`, `EverySpacing`, and under fairness `OneShotDone` |
| `session_overlap` | two chats, one turn at a time, two tasks, window 2, four messages in one chat and two in the other, a /new, a crash | `OffsetWithin`, `NoDoubleSummary`, `MemoryKept`, and under fairness `NewAnswered` |
| `session_skipped` | one chat, two turns, one task | messages below the offset that nobody summarised: finding |
| `turns_bus` | two chats (one the command line, the other with a thread), two messages of any kind, a subagent, a direct turn | `LockSerializes`, `AnsweredUnlessMixed`, `StopStops`, `ServesInTurn` (the refinement), and under fairness `AllServed` |
| `arm_setup` | a chat and a cron session, one calibration at a time and one that is saved, ends of either process without a bound | `MotionCalibrated`, `StatusJustified`, `AnsweredUnlessCut`, and under fairness `FinishEnds` |
| `arm_stale` | one chat, two calibrations | motion with an old calibration: finding |
| `servo` | a joint and the gripper, two calls, two faults, one calibration | `MovedAsCalibrated`, `PortGivenBack`, `SavedSound`, and under fairness `CallsEnd` |
| `policy_runs` | a chat and a cron session with one tool, two deployments | `DriverStoppable`, `StoppedMeansOver`, `StatusJustified`, no deadlock, and under fairness `StopEnds` |
| `collection` | two episodes of two steps, three takes each, with and without a supervisor; a server that waits for its connections | `ImagesOfTake`, `LedgerSpec` (the refinement), no deadlock, and under fairness `CollectionEnds` |
| `onboarding` | one chat, nine messages, two devices of which one is the arm, a file of the user's that does not load, two messages out of turn, one /stop or failing write | `ReadyFacts`, `ReadyLoads`, `InstallInOrder`, and under fairness `HandedOff` |
| `channels` | nine channels, one at a time; two messages of five shapes, each delivered up to twice; one or two answers of two pieces; a cache of one id | `Accounted`, `AtMostOnce`, `TypingJustified`, `SentInOrder`, and under fairness `HandledInTheEnd` |
| `mochat` | a session and a panel, two messages, polls of two, a cache of two ids, a crash | `Accounted`, `AtMostOnce` |

What these properties say is in the comment before each of them.

**Bounds.** With a clock of 5 both one-shot times, the recurring interval and a late
restart all fit; three tool calls are an addition, a call in the middle of a batch
and one after it. Four messages with a window of 2 let a session be consolidated
twice with turns in between, or once more after a /new; two tasks let two
consolidations be in flight, of one session (the most that the marks are there to
prevent) or of both, and two facts let one of them overwrite the other. Two messages and a direct turn
are two waiters for the lock and one turn outside it; one of the messages may be
posted in the thread or in its chat, the other anywhere (`Source`), which has a /stop
meet the turn of the same session, of the same chat and of another one. A chat and a cron
session are the fewest of which one can be led to the other's runtime; two calibrations are the
fewest for which a file and a running server can disagree (`arm_stale`; in `arm_setup` there is
one file or none, and a server that read it or did not come up). Two servos are the fewest
of which one can be configured and the other not; two faults let the second try
fail as well; a second call finds what the first has left. Two deployments let one
displace the other. Two episodes with three takes let a picture of one take be
overwritten by the next, and a row of one episode meet the files of another. The
nine messages of `onboarding` contain one for each kind of edit, a known, an
unknown and a second robot and a switch to simulation; two of them at any moment,
beside the answers asked for, are enough to leave a stage and to come back; one mishap
(`Mishaps`, a /stop or a write that fails) can hit any of the three files or what is between them. In
`channels` a cache of one id and two messages overflow it, and two pieces let the
first succeed and the second fail; `mochat` has a larger cache because one poll of
the panel must fit into it. Deadlock is checked where the system never has to stop
(`policy_runs`, `collection`); the other instances do stop, when their budgets of
messages, calls or edits are used up.

**Fairness.** Weak fairness of the steps that the event loop takes by itself: a task
that can run is run, a sleeping timer wakes, `on_job`, a model call or a call of the
adapter returns or raises (each has a timeout or is bounded by `max_iterations`), a
cancelled task ends. In `AgentTurns` it is asked of these steps taken together, not of
each: every one of them brings some turn further, so that the order, which asyncio makes
first come first served, does not matter. For `Channels` these are the handlers and
timers that have begun, and the stop. Their requests have a timeout, except those of the
mailbox, of the client of Feishu and of a download of Matrix: no fairness is assumed
there, and `HandledInTheEnd` leaves them out (`Unbounded`). For `ServoBus` it is the
server's next access to the wire, which it makes without waiting for anybody; for
`PolicyRuns` the steps of a task and of an operation, none of which has to fail; for
`EpisodeCollection` the loop, whose wait for a browser is not a step and may last. In
`CronService` time passes, and a supervisor starts the gateway again. Waiting for a
consolidation lock gets strong fairness, because asyncio grants a lock in the order of
the requests. No fairness is assumed of the model's choice of tools, of a second
process, of crashes or of `/stop`, nor of users, with one exception: `HandedOff` speaks
of a user who goes on answering (`GoodReply`), connects and installs what is missing,
and repeats a calibration until it works (strong fairness of its success). That is the
condition under which the conversation promises anything.

## 4. Proofs

Every safety property of every run that passes is a theorem, for every value of the
constants that the `ASSUME`s allow, and so are the two refinements. The arguments:

* **Cron.** `CronType`, `CronTimerCovers`, `CronDiskInSync` from the inductive invariant
  `IInv` of `CronProofs`: `TypeOK`, `BatchInv` (a job is awaited exactly in a
  batch, and without one nothing is pending or orphaned), `IdsInv` (what the store,
  the file and the batch name has been created; what was removed is in none of
  them), and the two properties themselves. `TimerCovers` alone is not inductive: at
  the end of a batch it needs that the store is type-correct to know that the timer
  set by `ArmTimer` is the minimum (`ArmCovers`), and while none runs it needs
  `DiskInSync` to know what a reload brings. `CronRemovedStaysRemoved`, an action
  property, from `IdsInv`; `CronDisableHonoured` from the further invariant `OffInv`: a
  job disabled from outside while the service slept is disabled in whatever the
  next load returns. `CronOneShot` and `CronSpacing` from `SpacedInv`, which says of
  every run that the store, the rest of the batch or (outside a batch) the file still
  plans that the job has rested before it: a one-shot job was not started yet, a
  recurring one at least an interval ago. A restart or a reload finds one of these.
* **Sessions.** `SessionType`, `SessionOffsetWithin`, `SessionLockJustified`,
  `SessionNewArchives` from the `IInv` of `SessionProofs`. It adds to the
  properties that the calls in progress of a session are the one that holds its
  lock and that they read the present offset: this is what forbids a second
  consolidation, or a /new, to move the offset under a call.
  `SessionNoDoubleSummary` from `Written` (what the history covers lies below the
  offset, or an entry was left by a call that failed or a crash brought the offset
  back). `SessionMemoryKept` from `SeenIsMemory`: a call for the
  session that wrote MEMORY.md last has read what MEMORY.md still is, because the
  lock of the session keeps its other calls away and no other session has written
  since. That is as far as a lock that belongs to one session reaches.
* **Turns.** The seven theorems of `TurnProofs` for the safety properties of
  `AgentTurns`, from its `IInv`: `KindInv` (which kinds of turn reach which phase),
  `ChatInv`, `QueueInv` (the queues hold nobody twice; a waiter is queued or being
  cancelled), `LockInv`, `StopInv` (while a /stop is handled its session begins
  nothing, and has no subagent of its own once they have been cancelled), `CutInv`
  (who was cut off does not run again, so that a turn whose wait raises was not itself
  the one that was cut), `SpawnInv` and `ContextInv`. The last is the argument why the context that all turns share
  does no harm among bus turns: a turn that is not `mixed` is the only one running,
  so the chat in the context is its own, and `_sent_in_turn` is set only if it has
  itself sent something there. `TurnImplementsServer` is the refinement `Spec =>
  Server!Spec`, action by action: the lemmas `LineGrows`, `LineBegins`, `LineAtBus` and
  `LineLoses` say what each operation on the two queues does to the one line, and
  `OnlyServedSpeaks` uses `LockInv` to tell the turn that speaks from the direct ones.
* **Arm.** The six theorems of `ArmProofs`, for all safety properties of `ArmSetup`,
  from `Inv`, which has a part for the turns, the runtimes, the flows and the arm: the
  properties, plus that a server which is up has read one of
  the calibrations saved so far (`Calibrated(arm)`), that a sampling task was
  cancelled only in a chat that a /stop has cut (`StreamCut`), and that only a turn in
  progress awaits anything. `MotionCalibrated` is
  not inductive without the first, `AnsweredUnlessCut` not without the second.
  `StatusJustified` survives a step because an operation that ends sets the status of the runtime
  it is of, whoever asked for it (`SetRuntimes`), or leaves it to `left` (`KeepRuntimes`).
* **Servos.** `ServoMovedAsCalibrated`, `ServoPortGivenBack`, `ServoSavedSound` from
  `IInv` of `ServoProofs`. `Wired` says of an open port that what is left to be
  configured comes first in the plan, and that a servo the server cannot know to
  have changed is configured or still to be; the exception is a recovery, whose
  plan begins with a drop that closes the port whatever it raises. `Framed` says,
  stage by stage of a calibration, which servos are in the frame it needs.
* **Policies** (`ControllerProofs`). `PolicyType`, `PolicyStoppable`,
  `PolicyStoppedMeansOver`, `PolicyStatusJustified`: a run that is not over is in the
  table or was displaced (`Known`), and what drives the arm is in its loop
  (`Driving`). A step sets the status of one runtime at most (`Shown`), that of the run or
  of the operation it belongs to.
* **Collection** (`ControllerProofs`). `PicturesOfTake` and `CollectionImplementsLedger`,
  the refinement `CollectSpec => LedgerSpec`. `CollectInv` adds to the counts
  (`Counts`, `Room`) that the files of the steps captured so far show the take under
  way (`Fresh`), that rows kept have their pictures (`Pictured`) and are of earlier
  episodes, so that no later take
  writes over them (`Earlier`). Every step of the collection is one step of the
  ledger or none (`LedgerStep`).
* **Onboarding.** `OnlyReadyWithFacts` and `GuideInOrder` from `Inv`: what a stage says
  about a setup, saved or in the turn (`SetupOK`: from `await_calibration` on the robot is known,
  after it the calibration has been seen, during the guide the index is the last
  step shown), and what the handlers passed so far add (`DraftOK`).
  `ReadySetupsLoad` from `LoadsInv`: when a setup is ready and was not torn, and no turn
  is between its writes, every file the onboarding has written is one that the loader
  accepts (`Loadable`); a write that fails leaves the files alone, or one that the check
  after the writes finds. Its hypothesis `NoneBefore` says that the
  user puts no file of his own under an id of the setup on a path that comes first:
  the loader takes the first file of an id and reports the other one, and a user may
  do so after the check.
* **Channels.** `AnswersInOrder` from `Ordered`: the answers that wait are in the order of
  their numbers, after the one that is sent.
  `NothingLost` and `OneTurnEach` from `ChannelOK`, one invariant for each channel
  that relates what it remembers to what has become of a message: for the channels
  that are pushed to (`OnceOK`, `DingOK`, `SlackOK`, `CacheOK`) how many deliveries are
  left, in hand and published; for the mailbox (`MailOK`) which mails are unseen; for
  Mochat (`MochatOK`) that every position that anybody goes by, that is the cursor,
  the cursor on disk, those the socket subscribed with and those a poll has asked
  for, lies below nothing that is not accounted for (`ReadUpTo`). Neither property is
  inductive: a cursor that is right says nothing about a crash that returns to the
  saved one, or an answer that arrives for an older position. `TypingForAReason`
  from `TypingOK`: a batch on the bus belongs to one chat, and whoever is shown
  typing has a message in hand, on the bus, or answered next, or had a turn that left
  no answer (`silent`).

Several of these modules also prove properties that no run checks separately, because the
type invariant or a stronger property of the run has the case already:
`RemovedStaysRemoved`, `ExternalDisableHonoured`, `LockJustified`, `NewArchives`,
`RoutedUnlessMixed`, `ServedInOrder`, `StoppedSilent`, `FlowReachable`, `SavedOnlyComplete`.

The assumptions are the `ASSUME`s of the modules (types of the constants, and that
the identifiers for "none" are none of the others) and the hypothesis `NoneBefore`.
Each proof has one step per action; frames that several actions share are lemmas
(`SetRuntimes`, `KeepRuntimes` and `FlowStep` in `ArmProofs`, `InCall` and `MonitorStep`
in `ServoProofs`, `OneRun` in `ControllerProofs`, `Applied` and `FollowsOK` in
`OnboardingProofs`). Sequences are reasoned about through lemmas that say which items
they have. Where Mochat handles the events of a poll one after the other (`Processed`),
the induction over their number is made from the well-foundedness of the naturals
(`Smallest`, `Induction` in `ChannelProofs`), as the induction theorems of the library
take an operator as a parameter.

Only model-checked: all liveness (`OneShotDone`, `NewAnswered`, `AllServed`, `FinishEnds`,
`CallsEnd`, `StopEnds`, `CollectionEnds`, `HandedOff`, `HandledInTheEnd`), because fairness
and ENABLED are out of the prover's reach, and the two runs of section 5, which end
in a violation. RECURSIVE operators are out of reach as well; no module uses any, and
`AgentTurns` takes a waiter out of a queue with `Without` rather than `SelectSeq`,
whose definition is recursive.

## 5. Findings

Two runs end in a violation: each states what a comment or a message of the
repository says, and the counterexample shows the code doing something else.
`PROJECT.json` quotes the lines. Messages that arrive while a consolidation waits
for the model are marked consolidated although nobody summarised them
(`session_skipped`); and a running control surface keeps its old calibration after a
new one was saved and announced as ready for use (`arm_stale`).

Modelling turned up more behaviour that a maintainer may want to look at. Nothing in
the repository promises otherwise, or the case is excluded by name in a property
(`mixed`, `cut`, `left`, `displaced`, `torn`, `gone`, `again`, `silent`, `Unbounded`, `client`,
`doubt`, `DeadEnd`), so these have no run of their own:

* *Cron and sessions.* A call of the cron tool cancels the batch that runs, and a
  one-shot job of it runs again. Two sessions that consolidate at once overwrite
  each other's MEMORY.md: what the first one wrote is gone after the second.
* *Turns.* A direct turn (cron, heartbeat) that uses the message tool silences the
  user turn beside it, because `_sent_in_turn` is shared. /stop misses the
  announcement of a subagent that has just finished. In a thread it misses every
  subagent, which is registered under the chat (spawn.py:24), and in the chat it
  cancels those of its threads too. A turn that awaits what an earlier /stop has
  cancelled ends without any answer (so101.py:484-507, controller.py:655, loop.py:454).
* *Channels.* The end of an answer on Matrix swallows the cancellation of the
  dispatcher, and `stop_all` waits for ever (manager.py:180, matrix.py:441). Mochat
  stays deaf when the connection is lost during the refresh of its targets. An email
  is ticked off before it is handed over and is lost when the fetch breaks. A download
  that raises on Matrix loses its message without a word (matrix.py:576, 676, 453). The mailbox
  (email.py:237), the client of Feishu (feishu.py:279) and the downloads of Matrix have no
  timeout, so that a message may stay there for good. A turn without an answer leaves the
  chat typing. Discord
  and Telegram drop what was posted while they were away. Slack ignores a direct
  message that mentions the bot, and sends nothing at all: `send` raises NameError on
  `use_thread` (slack.py:85), which it logs.
* *Policies and collection.* A second `deploy_policy` displaces one that is still
  starting, which nobody can stop then (controller.py:618). After a /stop during
  `stop_policy`, later calls raise CancelledError again. A move or a reset beside a
  policy leaves its runtime ready or in error while it goes on driving the arm. The dashboard says
  "completed" after an abort. From Python 3.12 on a browser that opens a connection to it and
  sends nothing keeps the collection from ending (collection_server.py:40-49); a /stop
  then loses what was collected. `start_training` without an algorithm passes one that
  train.py rejects.
* *Arm and servos.* The embodied tool has one session (tools.py:64): while a cron job's turn
  overlaps with a user's, the one that began first goes on with the other's runtime, and may start a
  calibration there whose prompts the user never sees. A /stop leaves the runtime connecting or
  busy. Enter is swallowed after a /stop during the saving of a
  calibration. A connect that fails halfway leaves the port open over unconfigured
  servos, and a power cycle under an open port goes unnoticed. A stop service whose
  read fails ends the server. Servos that the preparation of a calibration could not
  reach are passed over in silence.
* *Onboarding.* An unknown first robot stays the primary one for ever; a setup with
  two cameras on one mount is stuck; switching to simulation and back leaves two
  deployments, which no longer are a candidate; starting a calibration answers from
  the saved state and forgets what the message changed; one bad file in the
  workspace stops every embodied tool; a /stop between the writes leaves a torn setup; a
  write that fails goes unnoticed, so that a setup is handed off without the file, or is
  stuck with half of it, which nothing writes again; a calibration file that turns up
  between the probe and its handler hands off a setup of which no file was written.

## 6. Not modelled

* Training: one subprocess that is started and awaited, and numerical code.
* The WhatsApp bridge (`src/bridge`), a TypeScript process before an external library: the
  channel sees it as a service that pushes messages.
* Procedure library, definitions, capabilities: immutable data, much of which no
  executed path reads.
* Simulation, perception and streaming, providers: calls to numerical code, cameras
  and model services; the modules take any answer, or an exception, as the outcome.
* Other tools, skills, context, configuration, templates: stateless, text, or read
  once at the start. The vendored servo SDK is not this project's code.

Of the parts that are modelled partly, what is missing is named in section 2 and in
the notes of `PROJECT.json`.

## 7. Plan

In the order of what matters most:

1. `Heartbeat` and the start and stop of the gateway as one module over `CronService`
   and `Channels`: shutdown order, and the terminal of the interactive agent.
2. The choice among several setups and `start_training` in the controller, composing
   `PolicyRuns` with the calibration of `ArmSetup`.
3. Abstract specifications: a scheduler that runs each one-shot job once, which
   `CronService` implements while it is not disturbed; whole calls, which `ServoBus`
   implements as `ArmSetup` has them.
4. Proofs: those refinements; and the lemmas that the modules of step 1 will need.
5. Functions against reference definitions over bounded inputs: servo encoding and
   calibration ranges, splitting of long messages, alignment of a session's history.
