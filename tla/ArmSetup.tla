-------------------------------- MODULE ArmSetup --------------------------------
(***************************************************************************)
(* One setup with an SO101 arm: the embodied tool and the calibration      *)
(* prompts of the chats (embodied/execution/controller.py), the procedures *)
(* (orchestration/runtime/executor.py), the calibration driver             *)
(* (builtins/so101.py), and on the other side of ROS2 the control surface  *)
(* (integration/control_surfaces/ros2), a process of its own that drives   *)
(* the servos and outlives the agent.                                      *)
(*                                                                         *)
(* Each chat has a runtime of its own for the setup; all of them share the *)
(* calibration file, the control surface and the arm. They also share the  *)
(* tool: it operates the runtime of the chat whose turn began last, whoever*)
(* calls it. A calibration is a number: 0 stands for none, and each one    *)
(* that is saved gets the next.                                            *)
(* An action is the code between two awaits, and a call of the control     *)
(* surface is one step: its server handles the calls one at a time.        *)
(***************************************************************************)
EXTENDS Naturals, FiniteSets

CONSTANTS Chats,      \* sessions that use the setup
          NoChat,     \* the tool has not been given a session
          Direct,     \* those of cron jobs and the heartbeat: no lock, no /stop
          MaxSaved,   \* bound: calibrations saved
          MaxFlows    \* bound: calibration flows alive at once

ASSUME ArmAssumption ==
  Direct \subseteq Chats /\ NoChat \notin Chats /\ MaxSaved \in Nat /\ MaxFlows \in Nat

VARIABLES
  status,   \* RuntimeSession.status
  adapter,  \* the chats whose runtime has an adapter
  turns,    \* the chats with a turn in progress
  bound,    \* EmbodiedControlTool._session
  op,       \* the operation that the turn of the chat is awaiting
  on,       \* the chat whose runtime that operation is of
  flow,     \* phase of the driver's calibration flow
  stream,   \* the flow's task that samples the joints
  pending,  \* chats with calibration state in their session's metadata
  onboarded,\* a calibration has marked the onboarding of its chat ready
  file,     \* the calibration file
  arm,      \* the control surface: running, its calibration, its port open
  last,     \* the last motion, if any was made: the calibration it used, and the
            \* file at the time
  left,     \* the chats whose status a cancelled operation has left behind
  cut       \* the chats with a flow whose end a /stop has cut off

driver  == <<flow, stream, cut>>
runtime == <<status, left, adapter>>
turn    == <<turns, bound, op, on>>
vars    == <<runtime, turn, driver, pending, onboarded, file, arm, last>>

Statuses == {"disconnected", "connecting", "ready", "busy", "error"}
Ops      == {"none", "connect", "move", "go", "reset", "detach", "finish"}
Streams  == {"none", "run", "stopping", "over", "failed", "cancelled"}

Set(r, v) == status' = [status EXCEPT ![r] = v] /\ left' = left \ {r}

\* Turn t awaits operation o of the runtime of chat r, ...
Await(t, o, r) == /\ op' = [op EXCEPT ![t] = o] /\ on' = [on EXCEPT ![t] = r]
                  /\ UNCHANGED <<turns, bound>>

\* ... and then nothing.
Done(t) == Await(t, "none", t)

\* The tool's session is s and the turns of T go on; with none of them nobody looks
\* at it before the next turn sets its own.
Bind(s, T) == bound' = IF T = {} THEN NoChat ELSE s

\* A turn of a bus chat has the processing lock; a direct turn does not need it.
MayCome(t) == t \notin turns /\ (t \in Direct \/ turns \subseteq Direct)

\* The turn ends, whatever it was awaiting.
Leave(t) == /\ turns' = turns \ {t} /\ Bind(bound, turns')
            /\ op' = [op EXCEPT ![t] = "none"] /\ on' = [on EXCEPT ![t] = t]

\* Turn t calls the tool, which operates the runtime of chat r.
MayUseTool(t, r) == t \in turns /\ op[t] = "none" /\ r \in Chats /\ r = bound
-----------------------------------------------------------------------------
(* The control surface.                                                    *)

\* _maybe_launch_runtime: a server that is running is left alone; one that is
\* started reads the calibration file, and does not come up without it.
Launched == IF arm.up \/ file = 0 THEN arm
            ELSE [arm EXCEPT !.up = TRUE, !.cal = file, !.open = FALSE]

\* A call that no server handles is taken for accepted.
MutSucceeded(v) == {[v EXCEPT !.open = TRUE]}

\* What a call that connects the runtime of server v and does something leaves
\* behind when it is answered with success, ...
Succeeded(v) == IF v.up THEN {[v EXCEPT !.open = TRUE]} ELSE {}

\* ... and when it fails: the port was not opened, or it is open and the servos are
\* not configured, or the recovery has closed it.
Failed(v) == IF v.up THEN {[v EXCEPT !.open = b] : b \in BOOLEAN} ELSE {v}

\* The arm has moved, with targets computed by server v.
Moved(v) == last' = [made |-> TRUE, with |-> v.cal, file |-> file]
-----------------------------------------------------------------------------
Init ==
  /\ status = [s \in Chats |-> "disconnected"] /\ adapter = {}
  /\ turns = {} /\ bound = NoChat
  /\ op = [t \in Chats |-> "none"] /\ on = [t \in Chats |-> t]
  /\ flow = [s \in Chats |-> "none"] /\ stream = [s \in Chats |-> "none"]
  /\ pending = {} /\ onboarded = FALSE
  /\ file = 0 /\ arm = [up |-> FALSE, cal |-> 0, open |-> FALSE]
  /\ last = [made |-> FALSE, with |-> 0, file |-> 0]
  /\ left = {} /\ cut = {}

\* While calibration state is pending a user's message does not reach the agent,
\* but the turn that reports on a subagent does.
BeginTurn(t) ==
  /\ MayCome(t) /\ (t \in Direct => t \notin pending)
  /\ turns' = turns \cup {t} /\ Bind(t, turns')
  /\ UNCHANGED <<runtime, op, on, driver, pending, onboarded, file, arm, last>>

EndTurn(t) ==
  /\ t \in turns /\ op[t] = "none"
  /\ Leave(t)
  /\ UNCHANGED <<runtime, driver, pending, onboarded, file, arm, last>>

\* connect, and run_primitive for a runtime that is not ready. Without a
\* calibration file the runtime is set to error, ready or not, ...
Refused(t, r) ==
  /\ MayUseTool(t, r) /\ file = 0
  /\ Set(r, "error")
  /\ UNCHANGED <<adapter, turn, driver, pending, onboarded, file, arm, last>>

\* ... otherwise the adapter is asked to connect.
BeginConnect(t, r, o) ==
  /\ MayUseTool(t, r) /\ file # 0
  /\ o = "move" => status[r] # "ready"
  /\ Set(r, "connecting") /\ Await(t, o, r) /\ adapter' = adapter \cup {r}
  /\ UNCHANGED <<driver, pending, onboarded, file, arm, last>>

\* The adapter has connected; a move goes on with its primitive.
ConnectDone(t) ==
  /\ op[t] \in {"connect", "move"}
  /\ \E v \in {arm, Launched} : arm' \in Succeeded(v)
  /\ IF op[t] = "connect" THEN Set(on[t], "ready") /\ Done(t)
                          ELSE Set(on[t], "busy") /\ Await(t, "go", on[t])
  /\ UNCHANGED <<adapter, driver, pending, onboarded, file, last>>

\* It did not, or is not ready.
ConnectFails(t) ==
  /\ op[t] \in {"connect", "move"}
  /\ \E v \in {arm, Launched} : arm' \in Failed(v)
  /\ Set(on[t], "error") /\ Done(t)
  /\ UNCHANGED <<adapter, driver, pending, onboarded, file, last>>

\* run_primitive, or a step of a skill, for a runtime that is ready: neither the
\* file nor the connection is looked at.
BeginMove(t, r) ==
  /\ MayUseTool(t, r) /\ status[r] = "ready"
  /\ Set(r, "busy") /\ Await(t, "go", r) /\ adapter' = adapter \cup {r}
  /\ UNCHANGED <<driver, pending, onboarded, file, arm, last>>

BeginReset(t, r) ==
  /\ MayUseTool(t, r)
  /\ Await(t, "reset", r) /\ adapter' = adapter \cup {r}
  /\ UNCHANGED <<status, left, driver, pending, onboarded, file, arm, last>>

\* The primitive or the reset moved the arm; the server connects if it has to. A
\* skill goes on with its next primitive, on the same runtime.
MotionDone(t) ==
  /\ op[t] \in {"go", "reset"}
  /\ arm' \in Succeeded(arm) /\ Moved(arm)
  /\ \/ Set(on[t], "ready") /\ Done(t)
     \/ op[t] = "go" /\ Set(on[t], "busy") /\ UNCHANGED turn
  /\ UNCHANGED <<adapter, driver, pending, onboarded, file>>

\* A failed primitive leaves the runtime busy.
MutMotionFails(t) ==
  /\ op[t] \in {"go", "reset"}
  /\ arm' \in Failed(arm) /\ (last' = last \/ (arm.up /\ Moved(arm)))
  /\ Done(t)
  /\ UNCHANGED <<runtime, driver, pending, onboarded, file>>

\* It was rejected, or failed on the way.
MotionFails(t) ==
  /\ op[t] \in {"go", "reset"}
  /\ arm' \in Failed(arm) /\ (last' = last \/ (arm.up /\ Moved(arm)))
  /\ Set(on[t], "error") /\ Done(t)
  /\ UNCHANGED <<adapter, driver, pending, onboarded, file>>

\* debug: a snapshot makes the runtime ready, connected or not. Nothing is read
\* before its awaits and used after, so that it is one step.
Debug(t, r) ==
  /\ MayUseTool(t, r)
  /\ adapter' = adapter \cup {r}
  /\ \/ arm.up /\ Set(r, "ready")
     \/ Set(r, "error")
  /\ UNCHANGED <<turn, driver, pending, onboarded, file, arm, last>>

-----------------------------------------------------------------------------
(* Calibration.                                                            *)

\* calibrate: a runtime with an adapter asks it to disconnect first.
BeginCalibrate(t, r) ==
  /\ MayUseTool(t, r) /\ r \in adapter
  /\ Await(t, "detach", r)
  /\ UNCHANGED <<runtime, driver, pending, onboarded, file, arm, last>>

\* The driver's begin: a flow that is there is described; otherwise the monitor
\* opens the port and resets the servos, which may fail. In each case the session's
\* calibration state follows.
Begin(r, v) ==
  \/ /\ flow[r] # "none"
     /\ arm' = v /\ pending' = pending \cup {r} /\ UNCHANGED driver
     /\ (UNCHANGED <<status, left>> \/ Set(r, "disconnected"))
  \/ /\ flow[r] = "none" /\ Cardinality({s \in Chats : flow[s] # "none"}) < MaxFlows
     /\ flow' = [flow EXCEPT ![r] = "mid"] /\ arm' = v
     /\ Set(r, "disconnected") /\ pending' = pending \cup {r} /\ UNCHANGED <<stream, cut>>
  \/ /\ flow[r] = "none"
     /\ arm' = v /\ Set(r, "error") /\ pending' = pending \ {r} /\ UNCHANGED driver

\* There is no adapter to disconnect.
Calibrate(t, r) ==
  /\ MayUseTool(t, r) /\ r \notin adapter
  /\ Begin(r, arm)
  /\ UNCHANGED <<adapter, turn, onboarded, file, last>>

\* The disconnect was answered, and the port is closed if the call got through.
Detached(t) ==
  /\ op[t] = "detach"
  /\ Done(t)
  /\ \E v \in {arm, [arm EXCEPT !.open = FALSE]} : Begin(on[t], v)
  /\ UNCHANGED <<adapter, onboarded, file, last>>

\* A message for a chat with pending calibration state: no flow is left of a
\* previous process, ...
EnterExpired(s) ==
  /\ MayCome(s) /\ s \in pending /\ flow[s] = "none"
  /\ pending' = pending \ {s} /\ Bind(s, turns)
  /\ UNCHANGED <<runtime, turns, op, on, driver, onboarded, file, arm, last>>

\* ... the arm is in its middle pose, and the sampling starts or fails to, ...
EnterStart(s) ==
  /\ MayCome(s) /\ s \in pending /\ flow[s] = "mid"
  /\ Bind(s, turns)
  /\ \/ /\ flow' = [flow EXCEPT ![s] = "stream"] /\ stream' = [stream EXCEPT ![s] = "run"]
        /\ Set(s, "disconnected") /\ pending' = pending
     \/ /\ flow' = [flow EXCEPT ![s] = "none"] /\ UNCHANGED <<stream, cut>>
        /\ Set(s, "error") /\ pending' = pending \ {s}
  /\ UNCHANGED <<adapter, turns, op, on, cut, onboarded, file, arm, last>>

\* The turn awaits the end of the sampling of its own chat.
AwaitFinish(s) ==
  /\ turns' = turns \cup {s} /\ Bind(s, turns')
  /\ op' = [op EXCEPT ![s] = "finish"] /\ on' = [on EXCEPT ![s] = s]

\* The task is awaited, but is not told to stop.
MutEnterFinish(s) ==
  /\ MayCome(s) /\ s \in pending /\ flow[s] = "stream"
  /\ AwaitFinish(s)
  /\ UNCHANGED <<runtime, driver, pending, onboarded, file, arm, last>>

\* The task is cancelled instead.
MutEnterCancels(s) ==
  /\ MayCome(s) /\ s \in pending /\ flow[s] = "stream"
  /\ AwaitFinish(s)
  /\ stream' = [stream EXCEPT ![s] = IF @ = "run" THEN "cancelled" ELSE @]
  /\ UNCHANGED <<runtime, flow, cut, pending, onboarded, file, arm, last>>

\* ... or the samples are complete: the task is told to stop and awaited.
EnterFinish(s) ==
  /\ MayCome(s) /\ s \in pending /\ flow[s] = "stream"
  /\ AwaitFinish(s)
  /\ stream' = [stream EXCEPT ![s] = IF @ = "run" THEN "stopping" ELSE @]
  /\ UNCHANGED <<runtime, flow, cut, pending, onboarded, file, arm, last>>

\* _run_stream ends when it is told to, at its sample limit, or by an error.
StreamEnds(s) ==
  /\ stream[s] = "stopping"
  /\ stream' = [stream EXCEPT ![s] = "over"]
  /\ UNCHANGED <<runtime, turn, flow, cut, pending, onboarded, file, arm, last>>

StreamGivesUp(s) ==
  /\ stream[s] \in {"run", "stopping"}
  /\ \E e \in {"over", "failed"} : stream' = [stream EXCEPT ![s] = e]
  /\ UNCHANGED <<runtime, turn, flow, cut, pending, onboarded, file, arm, last>>

\* cleanup, and the session's state with it; the turn is answered.
EndFlow(s) ==
  /\ flow' = [flow EXCEPT ![s] = "none"] /\ stream' = [stream EXCEPT ![s] = "none"]
  /\ pending' = pending \ {s} /\ cut' = cut \ {s} /\ Leave(s)

\* _finish after a task that ended well: the file is written, and the onboarding
\* of the chat is marked ready.
Save(s) ==
  /\ op[s] = "finish" /\ stream[s] = "over" /\ file < MaxSaved
  /\ file' = file + 1 /\ onboarded' = TRUE
  /\ EndFlow(s) /\ Set(s, "disconnected")
  /\ UNCHANGED <<adapter, arm, last>>

\* The task failed, the samples are incomplete or the file cannot be written.
SaveFails(s) ==
  /\ op[s] = "finish" /\ stream[s] \in {"over", "failed"}
  /\ EndFlow(s) /\ Set(s, "error")
  /\ UNCHANGED <<adapter, onboarded, file, arm, last>>

\* Awaiting a cancelled task raises CancelledError, which neither _finish nor
\* _dispatch takes for an error: the message is not answered, the flow remains.
Swallowed(s) ==
  /\ op[s] = "finish" /\ stream[s] = "cancelled"
  /\ Leave(s)
  /\ UNCHANGED <<runtime, driver, pending, onboarded, file, arm, last>>

-----------------------------------------------------------------------------
\* The call of the control surface that turn t awaits may still be handled.
Abandoned(t) ==
  CASE op[t] \in {"connect", "move"} -> {arm} \cup Failed(Launched)
    [] op[t] \in {"go", "reset"}     -> Failed(arm)
    [] op[t] = "detach"              -> {arm, [arm EXCEPT !.open = FALSE]}
    [] OTHER                         -> {arm}

\* /stop cancels the task of the turn, and the task it awaits with it; a call of the
\* cron tool cancels the turn of a cron job in the same way. The status of the
\* runtime that was operated is left as it was.
Stop(t) ==
  /\ op[t] # "none"
  /\ Leave(t)
  /\ left' = IF op[t] \in {"connect", "move", "go"} THEN left \cup {on[t]} ELSE left
  /\ cut' = IF op[t] = "finish" THEN cut \cup {t} ELSE cut
  /\ stream' = [stream EXCEPT ![t] =
                  IF op[t] = "finish" /\ @ = "stopping" THEN "cancelled" ELSE @]
  /\ arm' \in Abandoned(t)
  /\ last' = last \/ (op[t] \in {"go", "reset"} /\ arm.up /\ Moved(arm))
  /\ UNCHANGED <<status, adapter, flow, pending, onboarded, file>>

\* The agent's process ends, and another is started: runtimes, adapters and flows
\* are gone, the metadata of a turn that has not saved its session is lost, and
\* the control surface goes on.
Crash ==
  /\ status' = [s \in Chats |-> "disconnected"] /\ adapter' = {}
  /\ turns' = {} /\ bound' = NoChat
  /\ op' = [t \in Chats |-> "none"] /\ on' = [t \in Chats |-> t]
  /\ flow' = [s \in Chats |-> "none"] /\ stream' = [s \in Chats |-> "none"]
  /\ pending' \in SUBSET pending
  /\ left' = {} /\ cut' = {}
  /\ UNCHANGED <<onboarded, file, arm, last>>

\* The control surface ends.
ServerEnds ==
  /\ arm.up
  /\ arm' = [arm EXCEPT !.up = FALSE, !.cal = 0, !.open = FALSE]
  /\ UNCHANGED <<runtime, turn, driver, pending, onboarded, file, last>>

Tool(t, r) ==
  \/ Refused(t, r) \/ BeginMove(t, r) \/ BeginReset(t, r) \/ Debug(t, r)
  \/ BeginCalibrate(t, r) \/ Calibrate(t, r)
  \/ \E o \in {"connect", "move"} : BeginConnect(t, r, o)

Enter(s) == EnterExpired(s) \/ EnterStart(s) \/ EnterFinish(s)

Finish(s) == Save(s) \/ SaveFails(s) \/ Swallowed(s)

Answer(t) ==
  \/ ConnectDone(t) \/ ConnectFails(t) \/ MotionDone(t) \/ MotionFails(t)
  \/ Detached(t) \/ Finish(t)

Next ==
  \/ \E t \in Chats : BeginTurn(t) \/ EndTurn(t) \/ Enter(t) \/ Answer(t) \/ StreamEnds(t)
                      \/ StreamGivesUp(t) \/ Stop(t)
  \/ \E t, r \in Chats : Tool(t, r)
  \/ Crash \/ ServerEnds

Spec == Init /\ [][Next]_vars

\* A task that is told to stop notices at its next sample, and the event loop runs
\* the turn that awaits it when it is over: one condition stands for the two, which
\* exclude each other.
Fairness == \A s \in Chats : WF_vars(Finish(s) \/ StreamEnds(s))

FairSpec == Spec /\ Fairness
-----------------------------------------------------------------------------
(* Properties.                                                             *)

(* The type of every variable.                                             *)
TypeOK ==
  /\ status \in [Chats -> Statuses] /\ adapter \subseteq Chats
  /\ turns \subseteq Chats /\ bound \in Chats \cup {NoChat}
  /\ op \in [Chats -> Ops] /\ on \in [Chats -> Chats]
  /\ flow \in [Chats -> {"none", "mid", "stream"}] /\ stream \in [Chats -> Streams]
  /\ pending \subseteq Chats /\ onboarded \in BOOLEAN
  /\ file \in Nat
  /\ arm \in [up : BOOLEAN, cal : Nat, open : BOOLEAN]
  /\ last \in [made : BOOLEAN, with : Nat, file : Nat]
  /\ left \subseteq Chats /\ cut \subseteq Chats

(* Execution is blocked until a calibration exists: though debug and reset  *)
(* make a runtime ready that was never calibrated, and a move of a ready    *)
(* runtime looks at neither the file nor the connection, the arm is only    *)
(* ever moved by a server that has a calibration.                           *)
MotionCalibrated == last.made => last.with \in 1..last.file

(* While a calibration flow is alive its chat's messages go to it: if the   *)
(* session forgot it, nobody could finish it, and the monitor would hold    *)
(* the serial port.                                                         *)
FlowReachable == \A s \in Chats : flow[s] # "none" => s \in pending

(* A runtime shows an operation in progress only if some turn has one on    *)
(* it, its own chat's or one that the shared tool has led there, or a       *)
(* cancellation has cut one off.                                            *)
StatusJustified ==
  \A r \in Chats \ left :
    /\ status[r] = "connecting" => \E t \in Chats : on[t] = r /\ op[t] \in {"connect", "move"}
    /\ status[r] = "busy" => \E t \in Chats : on[t] = r /\ op[t] = "go"

(* A calibration is saved only when the sampling ended well, by the chat    *)
(* that awaited it, and that flow is over; and onboarding is marked ready   *)
(* only by a calibration that was saved.                                    *)
SavedOnlyComplete ==
  [][/\ file' # file => \E s \in Chats : /\ op[s] = "finish" /\ stream[s] = "over"
                                         /\ flow'[s] = "none"
     /\ onboarded' # onboarded => file' # file]_vars

(* A message that asks for the end of a calibration is answered, with the   *)
(* flow over, unless a /stop cuts it off or has cut off an earlier one.     *)
AnsweredUnlessCut ==
  [][\A s \in Chats : op[s] = "finish" /\ op'[s] # "finish" =>
                        flow'[s] = "none" \/ s \in cut']_vars

(* Asked to finish, a calibration is finished: saved, or given up with an   *)
(* error, unless the process dies or a /stop comes in between.              *)
FinishEnds == \A s \in Chats : (op[s] = "finish") ~> (flow[s] = "none" \/ s \in cut)

(* The arm is moved with the calibration that was saved last.               *)
MotionCurrent == last.with = last.file
=============================================================================
