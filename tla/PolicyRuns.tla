----------------------------- MODULE PolicyRuns -----------------------------
(***************************************************************************)
(* deploy_policy and stop_policy of one setup (execution/controller.py and *)
(* orchestration/inference.py), with the operations that use the runtimes  *)
(* of its chats (orchestration/runtime/executor.py).  A policy runs in a   *)
(* task of its own, which the turn that started it does not wait for; the  *)
(* table _INFERENCE_SESSIONS holds the last one deployed.                  *)
(*                                                                         *)
(* Each chat has a runtime of its own for the setup, and all of them share *)
(* the tool: it operates the runtime of the chat whose turn began last,    *)
(* whoever calls it.  An action is the code between two awaits.            *)
(***************************************************************************)
EXTENDS Naturals, Sequences

CONSTANTS
  Chats,      \* sessions that use the setup
  NoChat,     \* the tool has not been given a session
  Direct,     \* those of cron jobs and the heartbeat: no lock
  MaxRuns     \* bound: policies deployed

ASSUME PolicyAssumption ==
  Direct \subseteq Chats /\ NoChat \notin Chats /\ MaxRuns \in Nat

VARIABLES
  status,     \* RuntimeSession.status of each chat
  left,       \* the chats whose status a cancelled operation has left behind
  turns,      \* the chats with a turn in progress
  bound,      \* EmbodiedControlTool._session
  op,         \* what the turn of the chat awaits, and of which chat's runtime
  runs,       \* the InferenceSessions, in the order of their deployment
  table,      \* the one in _INFERENCE_SESSIONS, 0 if there is none
  displaced,  \* runs that lost their place in the table while they started
  answered    \* runs that a stop_policy has reported as stopped

runtime  == <<status, left>>
turn     == <<turns, bound, op>>
policies == <<runs, table, displaced, answered>>
vars     == <<runtime, turn, policies>>

Run == DOMAIN runs
Nothing == [kind |-> "none", run |-> 0, of |-> NoChat]
Over(r) == runs[r].phase = "over"

Set(c, v) == status' = [status EXCEPT ![c] = v] /\ left' = left \ {c}

\* Turn t awaits operation k of the runtime of chat c, ...
Await(t, k, c) == /\ op' = [op EXCEPT ![t] = [kind |-> k, run |-> 0, of |-> c]]
                  /\ UNCHANGED <<turns, bound>>

\* ... and then nothing.
Done(t) == op' = [op EXCEPT ![t] = Nothing] /\ UNCHANGED <<turns, bound>>

\* With no turn left nobody looks at the tool's session before it is set again.
Bind(c, T) == bound' = IF T = {} THEN NoChat ELSE c

\* The turn ends, whatever it was awaiting.
Leave(t) == /\ turns' = turns \ {t} /\ Bind(bound, turns')
            /\ op' = [op EXCEPT ![t] = Nothing]

\* Turn t calls the tool, which operates the runtime of chat c.
MayUseTool(t, c) == t \in turns /\ op[t] = Nothing /\ c = bound

Init ==
  /\ status = [c \in Chats |-> "disconnected"] /\ left = {}
  /\ turns = {} /\ bound = NoChat /\ op = [t \in Chats |-> Nothing]
  /\ runs = <<>> /\ table = 0 /\ displaced = {} /\ answered = {}

\* A turn of a bus chat has the processing lock; a direct turn does not need it.
BeginTurn(t) ==
  /\ t \notin turns /\ (t \in Direct \/ turns \subseteq Direct)
  /\ turns' = turns \union {t} /\ Bind(t, turns')
  /\ UNCHANGED <<op, runtime, policies>>

EndTurn(t) ==
  /\ t \in turns /\ op[t] = Nothing
  /\ Leave(t) /\ UNCHANGED <<runtime, policies>>

-----------------------------------------------------------------------------
(* Deploying: the turn goes on at once *)

New(c) == [by |-> c, phase |-> "new", stop |-> FALSE, running |-> FALSE, cancelled |-> FALSE]

\* Mutant: a policy that is running does not stand in the way.
MutDeploy(t, c) ==
  /\ MayUseTool(t, c) /\ Len(runs) < MaxRuns
  /\ runs' = Append(runs, New(c)) /\ table' = Len(runs) + 1
  /\ displaced' = IF table # 0 /\ ~Over(table) /\ ~runs[table].running
                  THEN displaced \union {table} ELSE displaced
  /\ UNCHANGED <<runtime, turn, answered>>
Deploy(t, c) ==
  /\ MayUseTool(t, c) /\ Len(runs) < MaxRuns
  /\ table # 0 => ~runs[table].running
  /\ runs' = Append(runs, New(c)) /\ table' = Len(runs) + 1
  /\ displaced' = IF table # 0 /\ ~Over(table) THEN displaced \union {table} ELSE displaced
  /\ UNCHANGED <<runtime, turn, answered>>

\* The task ends, with its finally clause if it has come so far.
Ends(r, v) ==
  /\ runs' = [runs EXCEPT ![r].phase = "over", ![r].running = FALSE]
  /\ Set(runs[r].by, v)

\* _load_policy blocks the loop; a checkpoint that cannot be read ends the task with
\* the runtime ready, and so does an event that is set already. Otherwise the
\* runtime is busy, from here on and not anew in each round.
Load(r) ==
  \/ Ends(r, "ready")
  \/ /\ ~runs[r].stop
     /\ runs' = [runs EXCEPT ![r].phase = "loop", ![r].running = TRUE]
     /\ Set(runs[r].by, "busy")

\* The task begins: a runtime that is not ready is connected first, which a
\* missing calibration file prevents.
Start(r) ==
  /\ runs[r].phase = "new"
  /\ IF status[runs[r].by] = "ready" THEN Load(r)
     ELSE \/ Ends(r, "error")
          \/ runs' = [runs EXCEPT ![r].phase = "connect"] /\ Set(runs[r].by, "connecting")
  /\ UNCHANGED <<turn, table, displaced, answered>>
Connected(r) ==
  /\ runs[r].phase = "connect" /\ Load(r)
  /\ UNCHANGED <<turn, table, displaced, answered>>
ConnectFails(r) ==
  /\ runs[r].phase = "connect" /\ Ends(r, "error")
  /\ UNCHANGED <<turn, table, displaced, answered>>

\* The event is not looked at: the next round begins.
MutLoopEnds(r) == runs[r].phase = "loop" /\ UNCHANGED vars

\* A round of the loop, a step and a pause of 0.02 seconds, sets nothing here. Then
\* the event is looked at.
LoopEnds(r) ==
  /\ runs[r].phase = "loop" /\ runs[r].stop /\ Ends(r, "ready")
  /\ UNCHANGED <<turn, table, displaced, answered>>

\* The runtime stays as it was.
MutStepFails(r) ==
  /\ runs[r].phase = "loop"
  /\ runs' = [runs EXCEPT ![r].phase = "over", ![r].running = FALSE]
  /\ UNCHANGED <<runtime, turn, table, displaced, answered>>

\* A step is rejected or raises, or the report of progress does.
StepFails(r) ==
  /\ runs[r].phase = "loop" /\ Ends(r, "ready")
  /\ UNCHANGED <<turn, table, displaced, answered>>

-----------------------------------------------------------------------------
(* Stopping: the event is set and the task awaited *)

\* What came of run r is known to turn t: a task that was cancelled raises in the
\* turn that awaits it, and nothing takes that for an error.
Told(t, r) ==
  IF runs[r].cancelled THEN Leave(t) /\ UNCHANGED answered
  ELSE Done(t) /\ answered' = answered \union {r}

\* Mutant: stop_policy does not wait for the task.
MutStopPolicy(t) ==
  /\ MayUseTool(t, bound) /\ table # 0
  /\ runs' = [runs EXCEPT ![table].stop = TRUE]
  /\ Told(t, table)
  /\ UNCHANGED <<runtime, table, displaced>>
StopPolicy(t) ==
  /\ MayUseTool(t, bound) /\ table # 0
  /\ runs' = [runs EXCEPT ![table].stop = TRUE]
  /\ IF Over(table) THEN Told(t, table)
     ELSE /\ op' = [op EXCEPT ![t] = [kind |-> "stop", run |-> table, of |-> NoChat]]
          /\ UNCHANGED <<turns, bound, answered>>
  /\ UNCHANGED <<runtime, table, displaced>>
Stopped(t) ==
  /\ op[t].kind = "stop" /\ Over(op[t].run) /\ Told(t, op[t].run)
  /\ UNCHANGED <<runtime, runs, table, displaced>>

\* What runtime c shows may be of an operation that is cancelled.
Cut(c) == left' = IF c # NoChat /\ status[c] \in {"connecting", "busy"} THEN left \union {c} ELSE left

\* /stop cancels the turn; a call of the cron tool cancels that of a cron job. An
\* operation that is cancelled leaves the status of its runtime as it was.
Cancel(t) ==
  /\ op[t] # Nothing /\ (op[t].kind = "stop" => Over(op[t].run))
  /\ Leave(t)
  /\ Cut(op[t].of) /\ UNCHANGED <<status, policies>>

\* The task that the turn awaits is cancelled with it, and only a policy that is
\* running has a finally clause to set the runtime ready.
CancelPolicy(t, r) ==
  /\ op[t].kind = "stop" /\ op[t].run = r /\ ~Over(r)
  /\ Leave(t)
  /\ runs' = [runs EXCEPT ![r].phase = "over", ![r].running = FALSE, ![r].cancelled = TRUE]
  /\ CASE runs[r].running           -> Set(runs[r].by, "ready")
       [] runs[r].phase = "connect" -> Cut(runs[r].by) /\ UNCHANGED status
       [] OTHER                     -> UNCHANGED runtime
  /\ UNCHANGED <<table, displaced, answered>>

-----------------------------------------------------------------------------
(* The other operations of a runtime; none asks whether a policy is running *)

\* connect, and a move of a runtime that is not ready. There is no calibration, ...
Refused(t, c) ==
  /\ MayUseTool(t, c)
  /\ Set(c, "error") /\ UNCHANGED <<turn, policies>>
\* ... or the adapter is asked to connect, and does or does not.
BeginConnect(t, c, k) ==
  /\ MayUseTool(t, c) /\ (k = "move" => status[c] # "ready")
  /\ Set(c, "connecting") /\ Await(t, k, c) /\ UNCHANGED policies
ConnectEnds(t) ==
  /\ op[t].kind \in {"connect", "move"}
  /\ \/ Set(op[t].of, "error") /\ Done(t)
     \/ op[t].kind = "connect" /\ Set(op[t].of, "ready") /\ Done(t)
     \/ op[t].kind = "move" /\ Set(op[t].of, "busy") /\ Await(t, "go", op[t].of)
  /\ UNCHANGED policies
BeginMove(t, c) ==
  /\ MayUseTool(t, c) /\ status[c] = "ready"
  /\ Set(c, "busy") /\ Await(t, "go", c) /\ UNCHANGED policies
MoveEnds(t) ==
  /\ op[t].kind = "go"
  /\ \E v \in {"ready", "error"} : Set(op[t].of, v)
  /\ Done(t) /\ UNCHANGED policies
\* debug and reset come out well or not: one step, as they read nothing before their
\* awaits that they use after them.
DebugOrReset(t, c) ==
  /\ MayUseTool(t, c)
  /\ \E v \in {"ready", "error"} : Set(c, v)
  /\ UNCHANGED <<turn, policies>>

-----------------------------------------------------------------------------
RunStep(r) == Start(r) \/ Connected(r) \/ ConnectFails(r) \/ LoopEnds(r)
OpStep(t) == Stopped(t) \/ ConnectEnds(t) \/ MoveEnds(t)
Tool(t, c) ==
  \/ Deploy(t, c) \/ Refused(t, c) \/ BeginMove(t, c) \/ DebugOrReset(t, c)
  \/ \E k \in {"connect", "move"} : BeginConnect(t, c, k)

Next ==
  \/ \E t \in Chats : BeginTurn(t) \/ EndTurn(t) \/ StopPolicy(t) \/ OpStep(t) \/ Cancel(t)
  \/ \E t, c \in Chats : Tool(t, c)
  \/ \E t \in Chats, r \in Run : CancelPolicy(t, r)
  \/ \E r \in Run : RunStep(r) \/ StepFails(r)

\* Every call of the adapter has a timeout, and a task that is ready runs; no step
\* has to fail.
Fairness ==
  /\ \A r \in 1..MaxRuns : WF_vars(r \in Run /\ RunStep(r))
  /\ \A t \in Chats : WF_vars(OpStep(t))

Spec == Init /\ [][Next]_vars /\ Fairness

-----------------------------------------------------------------------------
(* Properties *)

Statuses == {"disconnected", "connecting", "ready", "busy", "error"}
Phases == {"new", "connect", "loop", "over"}
Kinds == {"none", "connect", "move", "go", "stop"}

\* The kinds of the state.
TypeOK ==
  /\ status \in [Chats -> Statuses] /\ left \subseteq Chats
  /\ turns \subseteq Chats /\ bound \in Chats \union {NoChat}
  /\ op \in [Chats -> [kind : Kinds, run : 0..MaxRuns, of : Chats \union {NoChat}]]
  /\ runs \in Seq([by : Chats, phase : Phases, stop : BOOLEAN, running : BOOLEAN,
                   cancelled : BOOLEAN])
  /\ Len(runs) <= MaxRuns /\ table = Len(runs)
  /\ displaced \subseteq 1..Len(runs) /\ answered \subseteq 1..Len(runs)

\* A policy that drives the arm is the one stop_policy would stop, so that
\* there is one at most; but for those that a second deploy_policy replaced
\* while they were starting (execute_action, the table of sessions).
DriverStoppable ==
  \A r \in Run : runs[r].running => r = table \/ r \in displaced

\* "Policy stopped": once stop_policy has said so of a policy, its task is over and
\* none that was deployed before it drives the arm, but for the displaced ones
\* (execute_action, start_inference).
StoppedMeansOver ==
  \A r \in answered : Over(r) /\ \A q \in 1..r : runs[q].running => q \in displaced

\* A runtime shows an operation in progress only if some turn has one on it, its
\* own chat's or one that the shared tool has led there, or a policy connects it
\* or runs on it, or a cancellation has cut one off (the assignments of status in
\* start_inference, execute_connect and execute_move).
StatusJustified ==
  \A c \in Chats \ left :
    /\ status[c] = "connecting" =>
         \/ \E t \in Chats : op[t].of = c /\ op[t].kind \in {"connect", "move"}
         \/ \E r \in Run : runs[r].by = c /\ runs[r].phase = "connect"
    /\ status[c] = "busy" =>
         \/ \E t \in Chats : op[t].of = c /\ op[t].kind = "go"
         \/ \E r \in Run : runs[r].by = c /\ runs[r].running

\* Every stop_policy comes to an end, and the policy with it.
StopEnds ==
  \A r \in 1..MaxRuns :
    (r \in Run /\ runs[r].stop) ~> (r \in Run /\ Over(r))
=============================================================================
