--------------------------- MODULE ControllerProofs ---------------------------
(***************************************************************************)
(* What the two procedures of the controller promise that go on beside a   *)
(* turn or count what it does: PolicyRuns, for any number of chats and     *)
(* deployments, and EpisodeCollection, for any number of episodes and      *)
(* steps.  They share no state; the proofs are one after the other.        *)
(*                                                                         *)
(* Policies: the invariant says of every run that is not over that it is   *)
(* the one in the table or one that lost its place there, and that only a  *)
(* run in its loop drives the arm. Over is for ever: every action changes  *)
(* one run at most, and never one that is over.  And every action sets the *)
(* status of one runtime at most (Shown): what the others show keeps its   *)
(* reason, whichever turn or policy it is.                                 *)
(*                                                                         *)
(* Collection: the picture of a frame belongs to its take, and the         *)
(* collection implements EpisodeLedger, step by step.  The invariant has   *)
(* two ideas.  While a take is under way the files of the steps it         *)
(* captured show that take (Fresh); and the rows kept so far are of        *)
(* earlier episodes, so that no later take writes over their pictures      *)
(* (Earlier).                                                              *)
(***************************************************************************)
EXTENDS PolicyRuns, EpisodeCollection, SequenceTheorems, TLAPS

RunRec == [by : Chats, phase : Phases, stop : BOOLEAN, running : BOOLEAN, cancelled : BOOLEAN]
OpRec == [kind : Kinds, run : 0..MaxRuns, of : Chats \union {NoChat}]

\* A run that is not over can be stopped, or was displaced while it started.
Known == \A r \in 1..Len(runs) : runs[r].phase # "over" => r = table \/ r \in displaced

\* What drives the arm is in its loop.
Driving == \A r \in 1..Len(runs) : runs[r].running => runs[r].phase = "loop"

Types ==
  /\ status \in [Chats -> Statuses] /\ left \subseteq Chats
  /\ turns \subseteq Chats /\ bound \in Chats \union {NoChat}
  /\ op \in [Chats -> OpRec]
  /\ runs \in Seq(RunRec)
  /\ Len(runs) <= MaxRuns /\ table = Len(runs)
  /\ displaced \subseteq 1..Len(runs) /\ answered \subseteq 1..Len(runs)
  /\ \A t \in Chats : /\ op[t].run <= Len(runs)
                      /\ op[t].kind = "stop" <=> op[t].run # 0

Reported == \A r \in answered : runs[r].phase = "over"

IInv == Types /\ Known /\ Driving /\ Reported /\ StatusJustified

-----------------------------------------------------------------------------
(* What a runtime shows                                                     *)

Shows(c) ==
  /\ status[c] = "connecting" =>
       \/ \E t \in Chats : op[t].of = c /\ op[t].kind \in {"connect", "move"}
       \/ \E r \in Run : runs[r].by = c /\ runs[r].phase = "connect"
  /\ status[c] = "busy" =>
       \/ \E t \in Chats : op[t].of = c /\ op[t].kind = "go"
       \/ \E r \in Run : runs[r].by = c /\ runs[r].running

LEMMA ShownByAll == StatusJustified <=> \A c \in Chats \ left : Shows(c)
  BY DEF StatusJustified, Shows

\* A step is about one runtime d at most: what the others show has its reason still.
LEMMA Shown ==
  ASSUME StatusJustified, NEW d,
         \A c \in Chats : c # d =>
           /\ c \notin left' => c \notin left
           /\ status'[c] = status[c]
           /\ \A t \in Chats : op[t].of = c /\ op[t].kind \in {"connect", "move", "go"} =>
                op'[t].of = c /\ op'[t].kind = op[t].kind
           /\ \A r \in Run : runs[r].by = c =>
                /\ r \in Run' /\ runs'[r].by = c
                /\ runs[r].phase = "connect" => runs'[r].phase = "connect"
                /\ runs[r].running => runs'[r].running,
         d \in Chats \ left' => Shows(d)'
  PROVE  StatusJustified'
  <1>1. SUFFICES ASSUME NEW c \in Chats, c \notin left', c # d
                 PROVE  Shows(c)'
    BY DEF StatusJustified, Shows
  <1>2. Shows(c) /\ status'[c] = status[c]
    BY <1>1, ShownByAll
  <1>3. CASE status[c] = "connecting"
    <2>1. CASE \E t \in Chats : op[t].of = c /\ op[t].kind \in {"connect", "move"}
      <3>1. PICK t \in Chats : op[t].of = c /\ op[t].kind \in {"connect", "move"}
        BY <2>1
      <3>2. op'[t].of = c /\ op'[t].kind = op[t].kind
        BY <1>1, <3>1
      <3> QED
        BY <1>2, <1>3, <3>1, <3>2 DEF Shows
    <2>2. CASE \E r \in Run : runs[r].by = c /\ runs[r].phase = "connect"
      BY <1>1, <1>2, <1>3, <2>2 DEF Shows
    <2> QED
      BY <1>2, <1>3, <2>1, <2>2 DEF Shows
  <1>4. CASE status[c] = "busy"
    <2>1. CASE \E t \in Chats : op[t].of = c /\ op[t].kind = "go"
      <3>1. PICK t \in Chats : op[t].of = c /\ op[t].kind = "go"
        BY <2>1
      <3>2. op'[t].of = c /\ op'[t].kind = op[t].kind
        BY <1>1, <3>1
      <3> QED
        BY <1>2, <1>4, <3>1, <3>2 DEF Shows
    <2>2. CASE \E r \in Run : runs[r].by = c /\ runs[r].running
      BY <1>1, <1>2, <1>4, <2>2 DEF Shows
    <2> QED
      BY <1>2, <1>4, <2>1, <2>2 DEF Shows
  <1>5. CASE status[c] \notin {"connecting", "busy"}
    BY <1>2, <1>5 DEF Shows
  <1> QED
    BY <1>3, <1>4, <1>5

\* The operation of one turn changes.
LEMMA OneOp ==
  ASSUME Types, NEW t \in Chats, NEW x \in OpRec, op' = [op EXCEPT ![t] = x],
         x.run <= Len(runs), x.kind = "stop" <=> x.run # 0, Len(runs') = Len(runs)
  PROVE  /\ op' \in [Chats -> OpRec] /\ op'[t] = x
         /\ \A u \in Chats : u # t => op'[u] = op[u]
         /\ \A u \in Chats : /\ op'[u].run <= Len(runs')
                             /\ op'[u].kind = "stop" <=> op'[u].run # 0
  <1>1. /\ op' \in [Chats -> OpRec] /\ op'[t] = x
        /\ \A u \in Chats : u # t => op'[u] = op[u]
    BY DEF Types
  <1>2. ASSUME NEW u \in Chats
        PROVE  op'[u].run <= Len(runs') /\ (op'[u].kind = "stop" <=> op'[u].run # 0)
    <2>1. CASE u = t
      BY <1>1, <2>1
    <2>2. CASE u # t
      BY <1>1, <2>2 DEF Types
    <2> QED
      BY <2>1, <2>2
  <1> QED
    BY <1>1, <1>2

LEMMA NoOp == Nothing \in OpRec /\ Nothing.run = 0 /\ Nothing.kind = "none" /\ Nothing.of = NoChat
  <1>1. MaxRuns \in Nat
    BY PolicyAssumption
  <1> QED
    BY <1>1 DEF Nothing, OpRec, Kinds

-----------------------------------------------------------------------------
(* One run changes                                                          *)

\* What is left of the invariant to show when run r becomes x.
LEMMA OneRun ==
  ASSUME IInv, NEW r \in 1..Len(runs), NEW x \in RunRec,
         runs' = [runs EXCEPT ![r] = x],
         x.running => x.phase = "loop",
         runs[r].phase = "over" => x.phase = "over",
         table' = table, displaced' = displaced, answered' = answered
  PROVE  /\ runs' \in Seq(RunRec) /\ Len(runs') = Len(runs)
         /\ runs'[r] = x
         /\ \A q \in 1..Len(runs) : q # r => runs'[q] = runs[q]
         /\ Known' /\ Driving' /\ Reported'
  <1>1. runs \in Seq(RunRec) /\ answered \subseteq 1..Len(runs)
    BY DEF IInv, Types
  <1>2. /\ runs' \in Seq(RunRec) /\ Len(runs') = Len(runs)
        /\ \A q \in 1..Len(runs) : runs'[q] = IF q = r THEN x ELSE runs[q]
    BY <1>1, ExceptSeq
  <1>3. Known'
    BY <1>2 DEF IInv, Known
  <1>4. Driving'
    BY <1>2 DEF IInv, Driving
  <1>5. Reported'
    BY <1>1, <1>2 DEF IInv, Reported
  <1> QED
    BY <1>2, <1>3, <1>4, <1>5

\* The same for the whole invariant: a run's step sets the status of its chat.
LEMMA RunMoves ==
  ASSUME IInv, NEW r \in 1..Len(runs), NEW x \in RunRec, NEW v \in Statuses,
         runs' = [runs EXCEPT ![r] = x], x.by = runs[r].by,
         x.running => x.phase = "loop",
         runs[r].phase # "over",
         Set(x.by, v),
         v = "connecting" => x.phase = "connect", v = "busy" => x.running,
         UNCHANGED <<turn, table, displaced, answered>>
  PROVE  IInv'
  <1>1. /\ runs' \in Seq(RunRec) /\ Len(runs') = Len(runs)
        /\ runs'[r] = x
        /\ \A q \in 1..Len(runs) : q # r => runs'[q] = runs[q]
        /\ Known' /\ Driving' /\ Reported'
    BY OneRun
  <1>2. x.by \in Chats
    BY DEF RunRec
  <1>3. /\ status' \in [Chats -> Statuses] /\ status'[x.by] = v
        /\ \A c \in Chats : c # x.by => status'[c] = status[c]
        /\ left' \subseteq Chats /\ (\A c \in Chats : c # x.by => (c \in left' <=> c \in left))
        /\ UNCHANGED <<turns, bound, op>>
    BY <1>2 DEF IInv, Types, Set, turn
  <1>4. Types'
    BY <1>1, <1>3 DEF IInv, Types
  <1>5. Run = 1..Len(runs) /\ Run' = 1..Len(runs)
    BY <1>1 DEF Run, IInv, Types
  <1>6. Shows(x.by)'
    BY <1>1, <1>3, <1>5 DEF Shows
  <1>7. ASSUME NEW c \in Chats, c # x.by, NEW q \in Run, runs[q].by = c
        PROVE  q \in Run' /\ runs'[q] = runs[q]
    BY <1>1, <1>5, <1>7
  <1>8. StatusJustified
    BY DEF IInv
  <1>9. StatusJustified'
    BY <1>3, <1>6, <1>7, <1>8, Shown
  <1> QED
    BY <1>1, <1>4, <1>9 DEF IInv

-----------------------------------------------------------------------------
(* The steps of a run                                                       *)

LEMMA EndsStep ==
  ASSUME IInv, NEW r \in 1..Len(runs), runs[r].phase # "over",
         NEW v \in {"ready", "error"}, Ends(r, v),
         UNCHANGED <<turn, table, displaced, answered>>
  PROVE  IInv'
  <1>1. runs[r] \in RunRec
    BY DEF IInv, Types
  <1> DEFINE x == [runs[r] EXCEPT !.phase = "over", !.running = FALSE]
  <1>2. /\ x \in RunRec /\ x.by = runs[r].by /\ ~x.running
        /\ runs' = [runs EXCEPT ![r] = x] /\ Set(x.by, v)
    BY <1>1 DEF Ends, RunRec, Phases
  <1> HIDE DEF x
  <1> QED
    BY <1>2, RunMoves DEF Statuses

LEMMA LoadStep ==
  ASSUME IInv, NEW r \in 1..Len(runs), runs[r].phase # "over", Load(r),
         UNCHANGED <<turn, table, displaced, answered>>
  PROVE  IInv'
  <1>1. runs[r] \in RunRec
    BY DEF IInv, Types
  <1>2. CASE Ends(r, "ready")
    BY <1>2, EndsStep
  <1>3. CASE /\ runs' = [runs EXCEPT ![r].phase = "loop", ![r].running = TRUE]
             /\ Set(runs[r].by, "busy")
    <2> DEFINE x == [runs[r] EXCEPT !.phase = "loop", !.running = TRUE]
    <2>1. /\ x \in RunRec /\ x.by = runs[r].by /\ x.running /\ x.phase = "loop"
          /\ runs' = [runs EXCEPT ![r] = x] /\ Set(x.by, "busy")
      BY <1>1, <1>3 DEF RunRec, Phases
    <2> HIDE DEF x
    <2> QED
      BY <2>1, RunMoves DEF Statuses
  <1> QED
    BY <1>2, <1>3 DEF Load

LEMMA RunStepInv ==
  ASSUME IInv, NEW r \in Run, RunStep(r) \/ StepFails(r)
  PROVE  IInv'
  <1>1. r \in 1..Len(runs) /\ runs[r] \in RunRec
    BY DEF IInv, Types, Run
  <1>2. CASE Start(r)
    <2>1. runs[r].phase = "new" /\ ~runs[r].running /\ UNCHANGED <<turn, table, displaced, answered>>
      BY <1>1, <1>2 DEF Start, IInv, Driving
    <2>2. CASE Load(r)
      BY <1>1, <2>1, <2>2, LoadStep
    <2>3. CASE Ends(r, "error")
      BY <1>1, <2>1, <2>3, EndsStep
    <2>4. CASE runs' = [runs EXCEPT ![r].phase = "connect"] /\ Set(runs[r].by, "connecting")
      <3> DEFINE x == [runs[r] EXCEPT !.phase = "connect"]
      <3>1. /\ x \in RunRec /\ x.by = runs[r].by /\ ~x.running /\ x.phase = "connect"
            /\ runs' = [runs EXCEPT ![r] = x] /\ Set(x.by, "connecting")
        BY <1>1, <2>1, <2>4 DEF RunRec, Phases
      <3> HIDE DEF x
      <3> QED
        BY <1>1, <2>1, <3>1, RunMoves DEF Statuses
    <2> QED
      BY <1>2, <2>2, <2>3, <2>4 DEF Start
  <1>3. CASE Connected(r)
    BY <1>1, <1>3, LoadStep DEF Connected
  <1>4. CASE ConnectFails(r)
    BY <1>1, <1>4, EndsStep DEF ConnectFails
  <1>5. CASE LoopEnds(r)
    BY <1>1, <1>5, EndsStep DEF LoopEnds
  <1>6. CASE StepFails(r)
    BY <1>1, <1>6, EndsStep DEF StepFails
  <1> QED
    BY <1>2, <1>3, <1>4, <1>5, <1>6 DEF RunStep

-----------------------------------------------------------------------------
(* The steps of a turn                                                      *)

\* An operation of turn t on runtime c begins, goes on or ends.
LEMMA ToolMoves ==
  ASSUME IInv, NEW t \in Chats, NEW c, NEW v \in Statuses, NEW x \in OpRec,
         Set(c, v), op' = [op EXCEPT ![t] = x], x.run = 0, x.kind # "stop",
         op[t].of = c \/ op[t] = Nothing,
         v = "connecting" => x.of = c /\ x.kind \in {"connect", "move"},
         v = "busy" => x.of = c /\ x.kind = "go",
         UNCHANGED <<turns, bound, policies>>
  PROVE  IInv'
  <1>1. /\ status' \in [Chats -> Statuses] /\ (c \in Chats => status'[c] = v)
        /\ \A u \in Chats : u # c => status'[u] = status[u]
        /\ left' \subseteq Chats /\ (\A u \in Chats : u # c => (u \in left' <=> u \in left))
        /\ UNCHANGED <<turns, bound, runs, table, displaced, answered>>
    BY DEF IInv, Types, Set, policies
  <1>2. /\ op' \in [Chats -> OpRec] /\ op'[t] = x
        /\ \A u \in Chats : u # t => op'[u] = op[u]
        /\ \A u \in Chats : /\ op'[u].run <= Len(runs')
                            /\ op'[u].kind = "stop" <=> op'[u].run # 0
    BY <1>1, OneOp DEF IInv, Types
  <1>3. Types'
    BY <1>1, <1>2 DEF IInv, Types
  <1>4. Known' /\ Driving' /\ Reported'
    BY <1>1 DEF IInv, Known, Driving, Reported
  <1>5. c \in Chats => Shows(c)'
    BY <1>1, <1>2 DEF Shows
  <1>6. ASSUME NEW d \in Chats, d # c, NEW u \in Chats, op[u].of = d,
               op[u].kind \in {"connect", "move", "go"}
        PROVE  op'[u] = op[u]
    <2>1. u # t
      BY <1>6, NoOp
    <2> QED
      BY <1>2, <2>1
  <1>7. StatusJustified /\ Run' = Run
    BY <1>1 DEF IInv, Run
  <1>8. StatusJustified'
    BY <1>1, <1>5, <1>6, <1>7, Shown
  <1> QED
    BY <1>3, <1>4, <1>8 DEF IInv

LEMMA OperationInv ==
  ASSUME IInv, NEW t \in Chats,
         \/ ConnectEnds(t) \/ MoveEnds(t)
         \/ \E c \in Chats : \/ Refused(t, c) \/ BeginMove(t, c) \/ DebugOrReset(t, c)
                             \/ \E k \in {"connect", "move"} : BeginConnect(t, c, k)
  PROVE  IInv'
  <1>0. /\ op[t] \in OpRec /\ op = [op EXCEPT ![t] = op[t]] /\ MaxRuns \in Nat
        /\ "ready" \in Statuses /\ "error" \in Statuses /\ "busy" \in Statuses
        /\ "connecting" \in Statuses
    BY PolicyAssumption DEF IInv, Types, Statuses
  <1>1. ASSUME NEW c \in Chats \union {NoChat}, NEW k \in {"connect", "move", "go"}
        PROVE  LET x == [kind |-> k, run |-> 0, of |-> c]
               IN  x \in OpRec /\ x.run = 0 /\ x.kind = k /\ x.of = c
    BY <1>0 DEF OpRec, Kinds
  <1>2. ASSUME NEW c \in Chats, Refused(t, c) PROVE IInv'
    <2>1. op' = [op EXCEPT ![t] = Nothing] /\ op[t] = Nothing /\ Set(c, "error")
          /\ UNCHANGED <<turns, bound, policies>>
      BY <1>0, <1>2 DEF Refused, MayUseTool, turn
    <2> QED
      BY <1>0, <2>1, NoOp, ToolMoves
  <1>3. ASSUME NEW c \in Chats, DebugOrReset(t, c) PROVE IInv'
    <2>1. PICK v \in {"ready", "error"} : Set(c, v)
      BY <1>3 DEF DebugOrReset
    <2>2. op' = [op EXCEPT ![t] = Nothing] /\ op[t] = Nothing
          /\ UNCHANGED <<turns, bound, policies>>
      BY <1>0, <1>3 DEF DebugOrReset, MayUseTool, turn
    <2> QED
      BY <1>0, <2>1, <2>2, NoOp, ToolMoves
  <1>4. ASSUME NEW c \in Chats, BeginMove(t, c) PROVE IInv'
    <2> DEFINE x == [kind |-> "go", run |-> 0, of |-> c]
    <2>1. x \in OpRec /\ x.run = 0 /\ x.kind = "go" /\ x.of = c
      BY <1>1
    <2>2. op' = [op EXCEPT ![t] = x] /\ op[t] = Nothing /\ Set(c, "busy")
          /\ UNCHANGED <<turns, bound, policies>>
      BY <1>4 DEF BeginMove, MayUseTool, Await
    <2> HIDE DEF x
    <2> QED
      BY <1>0, <2>1, <2>2, ToolMoves
  <1>5. ASSUME NEW c \in Chats, NEW k \in {"connect", "move"}, BeginConnect(t, c, k) PROVE IInv'
    <2> DEFINE x == [kind |-> k, run |-> 0, of |-> c]
    <2>1. x \in OpRec /\ x.run = 0 /\ x.kind = k /\ x.of = c
      BY <1>1
    <2>2. op' = [op EXCEPT ![t] = x] /\ op[t] = Nothing /\ Set(c, "connecting")
          /\ UNCHANGED <<turns, bound, policies>>
      BY <1>5 DEF BeginConnect, MayUseTool, Await
    <2> HIDE DEF x
    <2> QED
      BY <1>0, <2>1, <2>2, ToolMoves
  <1>6. ASSUME ConnectEnds(t) \/ MoveEnds(t), NEW v \in {"ready", "error"},
               Set(op[t].of, v), Done(t)
        PROVE  IInv'
    <2>1. op' = [op EXCEPT ![t] = Nothing] /\ UNCHANGED <<turns, bound, policies>>
      BY <1>6 DEF ConnectEnds, MoveEnds, Done
    <2> QED
      BY <1>0, <1>6, <2>1, NoOp, ToolMoves
  <1>7. CASE ConnectEnds(t)
    <2>1. CASE Set(op[t].of, "busy") /\ Await(t, "go", op[t].of)
      <3> DEFINE x == [kind |-> "go", run |-> 0, of |-> op[t].of]
      <3>1. op[t].of \in Chats \union {NoChat}
        BY <1>0 DEF OpRec
      <3>2. x \in OpRec /\ x.run = 0 /\ x.kind = "go" /\ x.of = op[t].of
        BY <1>1, <3>1
      <3>3. op' = [op EXCEPT ![t] = x] /\ UNCHANGED <<turns, bound, policies>>
        BY <1>7, <2>1 DEF ConnectEnds, Await
      <3> HIDE DEF x
      <3> QED
        BY <1>0, <2>1, <3>2, <3>3, ToolMoves
    <2> QED
      BY <1>6, <1>7, <2>1 DEF ConnectEnds
  <1>8. CASE MoveEnds(t)
    BY <1>6, <1>8 DEF MoveEnds
  <1> QED
    BY <1>2, <1>3, <1>4, <1>5, <1>7, <1>8

LEMMA TurnInv ==
  ASSUME IInv, NEW t \in Chats, BeginTurn(t) \/ EndTurn(t)
  PROVE  IInv'
  <1>1. op' = op /\ UNCHANGED <<runtime, policies>>
    <2>1. op \in [Chats -> OpRec]
      BY DEF IInv, Types
    <2> QED
      BY <2>1 DEF BeginTurn, EndTurn, Leave
  <1>2. turns' \subseteq Chats /\ bound' \in Chats \union {NoChat}
    BY DEF IInv, Types, BeginTurn, EndTurn, Leave, Bind
  <1>3. UNCHANGED <<status, left, runs, table, displaced, answered>>
    BY <1>1 DEF runtime, policies
  <1>4. Types'
    BY <1>1, <1>2, <1>3 DEF IInv, Types
  <1>5. Known' /\ Driving' /\ Reported' /\ StatusJustified'
    BY <1>1, <1>3 DEF IInv, Known, Driving, Reported, StatusJustified, Run
  <1> QED
    BY <1>4, <1>5 DEF IInv

-----------------------------------------------------------------------------
(* Deploying and stopping                                                   *)

LEMMA DeployInv ==
  ASSUME IInv, NEW t \in Chats, NEW c \in Chats, Deploy(t, c)
  PROVE  IInv'
  <1>1. New(c) \in RunRec /\ ~New(c).running
    BY DEF New, RunRec, Phases
  <1>2. /\ runs' = Append(runs, New(c)) /\ table' = Len(runs) + 1 /\ Len(runs) < MaxRuns
        /\ displaced' = IF table # 0 /\ ~Over(table) THEN displaced \union {table} ELSE displaced
        /\ UNCHANGED <<status, left, turns, bound, op, answered>>
    BY DEF Deploy, runtime, turn
  <1>3. runs \in Seq(RunRec) /\ Len(runs) \in Nat /\ MaxRuns \in Nat
    BY PolicyAssumption DEF IInv, Types
  <1>4. /\ runs' \in Seq(RunRec) /\ Len(runs') = Len(runs) + 1
        /\ runs'[Len(runs) + 1] = New(c)
        /\ \A r \in 1..Len(runs) : runs'[r] = runs[r]
    BY <1>1, <1>2, <1>3
  <1>5. displaced' \subseteq 1..Len(runs) /\ displaced \subseteq displaced'
    <2>1. displaced \subseteq 1..Len(runs) /\ (table # 0 => table \in 1..Len(runs))
      BY <1>3 DEF IInv, Types
    <2> QED
      BY <1>2, <2>1
  <1>6. Types'
    <2>1. ASSUME NEW u \in Chats
          PROVE  op'[u].run <= Len(runs') /\ (op'[u].kind = "stop" <=> op'[u].run # 0)
      <3>1. op[u].run \in Nat
        BY DEF IInv, Types, OpRec
      <3> QED
        BY <1>2, <1>3, <1>4, <3>1 DEF IInv, Types
    <2> QED
      BY <1>2, <1>3, <1>4, <1>5, <2>1 DEF IInv, Types
  <1>7. Known'
    <2> SUFFICES ASSUME NEW r \in 1..Len(runs'), runs'[r].phase # "over", r # table'
                 PROVE  r \in displaced'
      BY DEF Known
    <2>1. r \in 1..Len(runs) /\ runs[r].phase # "over"
      BY <1>2, <1>3, <1>4
    <2>2. r = table \/ r \in displaced
      BY <2>1 DEF IInv, Known
    <2> QED
      BY <1>2, <1>3, <1>5, <2>1, <2>2 DEF Over
  <1>8. Driving'
    BY <1>1, <1>3, <1>4 DEF IInv, Driving
  <1>9. Reported'
    BY <1>2, <1>4 DEF IInv, Types, Reported
  <1>10. StatusJustified'
    <2>1. Run = 1..Len(runs) /\ Run' = 1..(Len(runs) + 1)
      BY <1>3, <1>4 DEF Run
    <2>2. \A r \in Run : r \in Run' /\ runs'[r] = runs[r]
      BY <1>3, <1>4, <2>1
    <2>3. StatusJustified /\ NoChat \notin Chats
      BY PolicyAssumption DEF IInv
    <2> QED
      BY <1>2, <2>2, <2>3, Shown
  <1> QED
    BY <1>6, <1>7, <1>8, <1>9, <1>10 DEF IInv

\* What a run is doing is the same as before.
Same == /\ runs' \in Seq(RunRec) /\ Len(runs') = Len(runs)
        /\ \A q \in 1..Len(runs) : /\ runs'[q].by = runs[q].by
                                   /\ runs'[q].phase = runs[q].phase
                                   /\ runs'[q].running = runs[q].running

\* A turn that awaits no operation of a runtime awaits something else, or learns that
\* a run is over.
LEMMA WaitMoves ==
  ASSUME IInv, NEW t \in Chats, NEW x \in OpRec, op' = [op EXCEPT ![t] = x],
         op[t].kind \in {"none", "stop"},
         x.run <= Len(runs), x.kind = "stop" <=> x.run # 0,
         turns' \subseteq Chats, bound' \in Chats \union {NoChat},
         Same, UNCHANGED <<runtime, table, displaced>>,
         answered' \subseteq 1..Len(runs),
         \A r \in answered' : r \in answered \/ runs[r].phase = "over"
  PROVE  IInv'
  <1>1. /\ op' \in [Chats -> OpRec] /\ op'[t] = x
        /\ \A u \in Chats : u # t => op'[u] = op[u]
        /\ \A u \in Chats : /\ op'[u].run <= Len(runs')
                            /\ op'[u].kind = "stop" <=> op'[u].run # 0
    BY OneOp DEF IInv, Same
  <1>2. UNCHANGED <<status, left>>
    BY DEF runtime
  <1>3. Types'
    BY <1>1, <1>2 DEF IInv, Types, Same
  <1>4. Known' /\ Driving'
    BY DEF IInv, Known, Driving, Same
  <1>5. Reported'
    BY DEF IInv, Types, Reported, Same
  <1>6. StatusJustified'
    <2>1. Run = 1..Len(runs) /\ Run' = 1..Len(runs)
      BY DEF Run, IInv, Types, Same
    <2>2. StatusJustified /\ NoChat \notin Chats
      BY PolicyAssumption DEF IInv
    <2>3. \A u \in Chats : op[u].kind \in {"connect", "move", "go"} => op'[u] = op[u]
      BY <1>1
    <2>4. \A r \in Run : /\ r \in Run' /\ runs'[r].by = runs[r].by
                         /\ runs'[r].phase = runs[r].phase /\ runs'[r].running = runs[r].running
      BY <2>1 DEF Same
    <2> QED
      BY <1>2, <2>2, <2>3, <2>4, Shown
  <1> QED
    BY <1>3, <1>4, <1>5, <1>6 DEF IInv

\* A run that is over is reported, or the turn ends with it.
LEMMA ToldInv ==
  ASSUME IInv, NEW t \in Chats, NEW r \in 1..Len(runs), runs[r].phase = "over",
         op[t].kind \in {"none", "stop"}, Told(t, r),
         Same, UNCHANGED <<runtime, table, displaced>>
  PROVE  IInv'
  <1>1. /\ op' = [op EXCEPT ![t] = Nothing]
        /\ turns' \subseteq Chats /\ bound' \in Chats \union {NoChat}
        /\ answered' = answered \/ answered' = answered \union {r}
    BY DEF Told, Leave, Done, Bind, IInv, Types
  <1>2. answered' \subseteq 1..Len(runs) /\ \A q \in answered' : q \in answered \/ q = r
    BY <1>1 DEF IInv, Types
  <1>3. runs \in Seq(RunRec)
    BY DEF IInv, Types
  <1>4. Nothing.run <= Len(runs) /\ (Nothing.kind = "stop" <=> Nothing.run # 0)
    BY <1>3, NoOp
  <1> QED
    BY <1>1, <1>2, <1>4, NoOp, WaitMoves

\* The event of the run in the table is set.
LEMMA StopPolicyInv ==
  ASSUME IInv, NEW t \in Chats, StopPolicy(t)
  PROVE  IInv'
  <1>1. runs \in Seq(RunRec) /\ table \in 1..Len(runs) /\ MaxRuns \in Nat
        /\ table \in 0..MaxRuns /\ table <= Len(runs)
    BY PolicyAssumption DEF IInv, Types, StopPolicy
  <1>2. runs[table] \in RunRec
    BY <1>1
  <1> DEFINE x == [runs[table] EXCEPT !.stop = TRUE]
  <1>3. /\ x \in RunRec /\ x.by = runs[table].by /\ x.phase = runs[table].phase
        /\ x.running = runs[table].running
        /\ runs' = [runs EXCEPT ![table] = x]
    BY <1>2 DEF StopPolicy, RunRec
  <1> HIDE DEF x
  <1>4. Same
    <2>1. /\ runs' \in Seq(RunRec) /\ Len(runs') = Len(runs)
          /\ \A q \in 1..Len(runs) : runs'[q] = IF q = table THEN x ELSE runs[q]
      BY <1>1, <1>3, ExceptSeq
    <2> QED
      BY <2>1, <1>3 DEF Same
  <1>5. op[t].kind = "none" /\ UNCHANGED <<runtime, table, displaced>>
    BY NoOp DEF StopPolicy, MayUseTool
  <1>6. CASE Over(table)
    <2>1. Told(t, table) /\ runs[table].phase = "over"
      BY <1>6 DEF StopPolicy, Over
    <2> QED
      BY <1>1, <1>4, <1>5, <2>1, ToldInv
  <1>7. CASE ~Over(table)
    <2> DEFINE y == [kind |-> "stop", run |-> table, of |-> NoChat]
    <2>1. y \in OpRec /\ y.run = table /\ y.kind = "stop"
      BY <1>1 DEF OpRec, Kinds
    <2>2. op' = [op EXCEPT ![t] = y] /\ UNCHANGED <<turns, bound, answered>>
      BY <1>7 DEF StopPolicy
    <2> HIDE DEF y
    <2>3. /\ turns' \subseteq Chats /\ bound' \in Chats \union {NoChat}
          /\ answered' \subseteq 1..Len(runs) /\ answered' = answered
      BY <2>2 DEF IInv, Types
    <2>4. table # 0
      BY <1>1
    <2> QED
      BY <1>1, <1>4, <1>5, <2>1, <2>2, <2>3, <2>4, WaitMoves
  <1> QED
    BY <1>6, <1>7

LEMMA StoppedInv ==
  ASSUME IInv, NEW t \in Chats, Stopped(t)
  PROVE  IInv'
  <1>1. /\ runs \in Seq(RunRec) /\ op[t] \in OpRec
        /\ op[t].run <= Len(runs) /\ op[t].run # 0
    BY DEF Stopped, IInv, Types
  <1>2. op[t].run \in 1..Len(runs) /\ runs[op[t].run].phase = "over" /\ op[t].kind = "stop"
    BY <1>1 DEF Stopped, Over, OpRec
  <1>3. Same
    BY <1>1 DEF Stopped, Same
  <1> QED
    BY <1>2, <1>3, ToldInv DEF Stopped

\* The turn is gone, and what it has left on a runtime is marked.
LEMMA CancelInv ==
  ASSUME IInv, NEW t \in Chats, Cancel(t)
  PROVE  IInv'
  <1>1. /\ op' = [op EXCEPT ![t] = Nothing]
        /\ turns' \subseteq Chats /\ bound' \in Chats \union {NoChat}
        /\ UNCHANGED <<status, runs, table, displaced, answered>>
    BY DEF Cancel, Leave, Bind, policies, IInv, Types
  <1>2. runs \in Seq(RunRec) /\ Nothing.run <= Len(runs) /\ (Nothing.kind = "stop" <=> Nothing.run # 0)
        /\ op[t].of \in Chats \union {NoChat}
    BY NoOp DEF IInv, Types, OpRec
  <1>3. /\ op' \in [Chats -> OpRec] /\ op'[t] = Nothing
        /\ \A u \in Chats : u # t => op'[u] = op[u]
        /\ \A u \in Chats : /\ op'[u].run <= Len(runs')
                            /\ op'[u].kind = "stop" <=> op'[u].run # 0
    BY <1>1, <1>2, NoOp, OneOp DEF IInv
  <1>4. /\ left' \subseteq Chats /\ left \subseteq left'
        /\ op[t].of \in Chats \ left' => status[op[t].of] \notin {"connecting", "busy"}
    BY <1>2, PolicyAssumption DEF Cancel, Cut, IInv, Types
  <1>5. Types'
    BY <1>1, <1>3, <1>4 DEF IInv, Types
  <1>6. Known' /\ Driving' /\ Reported'
    BY <1>1 DEF IInv, Known, Driving, Reported
  <1>7. StatusJustified'
    <2>1. StatusJustified /\ Run' = Run
      BY <1>1 DEF IInv, Run
    <2>0. PICK d : d = op[t].of
      OBVIOUS
    <2>2. d \in Chats \ left' => Shows(d)'
      <3>1. d \in Chats \ left' => status'[d] \notin {"connecting", "busy"}
        BY <1>1, <1>4, <2>0
      <3> QED
        BY <3>1 DEF Shows
    <2>3. ASSUME NEW c \in Chats, c # d, NEW u \in Chats, op[u].of = c
          PROVE  op'[u] = op[u]
      BY <1>3, <2>0, <2>3
    <2> QED
      <3>1. \A c \in Chats : c \notin left' => c \notin left
        BY <1>4
      <3> QED
        BY <1>1, <2>1, <2>2, <2>3, <3>1, Shown
  <1> QED
    BY <1>5, <1>6, <1>7 DEF IInv

\* The run that the turn awaited is gone too.
LEMMA CancelPolicyInv ==
  ASSUME IInv, NEW t \in Chats, NEW r \in Run, CancelPolicy(t, r)
  PROVE  IInv'
  <1>1. /\ op' = [op EXCEPT ![t] = Nothing] /\ op[t].kind = "stop"
        /\ turns' \subseteq Chats /\ bound' \in Chats \union {NoChat}
        /\ UNCHANGED <<table, displaced, answered>>
    BY DEF CancelPolicy, Leave, Bind, IInv, Types
  <1>2. /\ runs \in Seq(RunRec) /\ r \in 1..Len(runs) /\ runs[r] \in RunRec
        /\ Nothing.run <= Len(runs) /\ (Nothing.kind = "stop" <=> Nothing.run # 0)
    BY NoOp DEF IInv, Types, Run
  <1> DEFINE x == [runs[r] EXCEPT !.phase = "over", !.running = FALSE, !.cancelled = TRUE]
  <1>3. /\ x \in RunRec /\ x.by = runs[r].by /\ ~x.running /\ x.phase = "over" /\ x.by \in Chats
        /\ runs' = [runs EXCEPT ![r] = x]
    BY <1>2 DEF CancelPolicy, RunRec, Phases
  <1> HIDE DEF x
  <1>4. /\ runs' \in Seq(RunRec) /\ Len(runs') = Len(runs)
        /\ \A q \in 1..Len(runs) : q # r => runs'[q] = runs[q]
        /\ Known' /\ Driving' /\ Reported'
    BY <1>1, <1>2, <1>3, OneRun
  <1>5. /\ op' \in [Chats -> OpRec] /\ op'[t] = Nothing
        /\ \A u \in Chats : u # t => op'[u] = op[u]
        /\ \A u \in Chats : /\ op'[u].run <= Len(runs')
                            /\ op'[u].kind = "stop" <=> op'[u].run # 0
    BY <1>1, <1>2, <1>4, NoOp, OneOp DEF IInv
  <1>6. StatusJustified /\ Run = 1..Len(runs) /\ Run' = 1..Len(runs) /\ x.by # NoChat
    BY <1>2, <1>3, <1>4, PolicyAssumption DEF IInv, Run
  <1>7. ASSUME NEW u \in Chats, op[u].kind \in {"connect", "move", "go"}
        PROVE  op'[u] = op[u]
    BY <1>1, <1>5, <1>7
  <1>8. ASSUME NEW c \in Chats, c # x.by, NEW q \in Run, runs[q].by = c
        PROVE  q \in Run' /\ runs'[q] = runs[q]
    BY <1>3, <1>4, <1>6, <1>8
  <1>9. CASE runs[r].running \/ runs[r].phase = "connect"
    <2>1. /\ status' \in [Chats -> Statuses] /\ left' \subseteq Chats
          /\ \A c \in Chats : c # x.by => status'[c] = status[c] /\ (c \in left' <=> c \in left)
          /\ x.by \in left' \/ status'[x.by] \notin {"connecting", "busy"}
      <3>1. CASE runs[r].running
        <4>0. runs[r].phase # "connect"
          BY <1>2, <3>1 DEF IInv, Driving
        <4>1. Set(x.by, "ready")
          BY <1>3, <3>1, <4>0 DEF CancelPolicy
        <4>2. status \in [Chats -> Statuses] /\ left \subseteq Chats
          BY DEF IInv, Types
        <4> QED
          BY <1>3, <4>1, <4>2 DEF Set, Statuses
      <3>2. CASE ~runs[r].running /\ runs[r].phase = "connect"
        <4>1. Cut(x.by) /\ status' = status
          BY <1>3, <3>2 DEF CancelPolicy
        <4> QED
          BY <1>3, <1>6, <4>1 DEF Cut, IInv, Types
      <3> QED
        BY <1>9, <3>1, <3>2
    <2>2. Types'
      BY <1>1, <1>4, <1>5, <2>1 DEF IInv, Types
    <2>0. PICK d : d = x.by
      OBVIOUS
    <2>3. d \in Chats \ left' => Shows(d)'
      BY <2>0, <2>1 DEF Shows
    <2>4. StatusJustified'
      BY <1>6, <1>7, <1>8, <2>0, <2>1, <2>3, Shown
    <2> QED
      BY <1>4, <2>2, <2>4 DEF IInv
  <1>10. CASE ~runs[r].running /\ runs[r].phase # "connect"
    <2>1. UNCHANGED <<status, left>>
      BY <1>10 DEF CancelPolicy, runtime
    <2>2. Types'
      BY <1>1, <1>4, <1>5, <2>1 DEF IInv, Types
    <2>3. ASSUME NEW c \in Chats, NEW q \in Run, runs[q].by = c
          PROVE  /\ q \in Run' /\ runs'[q].by = c
                 /\ runs[q].phase = "connect" => runs'[q].phase = "connect"
                 /\ runs[q].running => runs'[q].running
      <3>1. CASE q = r
        BY <1>2, <1>3, <1>4, <1>6, <1>10, <2>3, <3>1
      <3>2. CASE q # r
        BY <1>4, <1>6, <2>3, <3>2
      <3> QED
        BY <3>1, <3>2
    <2>4. StatusJustified'
      BY <1>6, <1>7, <2>1, <2>3, PolicyAssumption, Shown
    <2> QED
      BY <1>4, <2>2, <2>4 DEF IInv
  <1> QED
    BY <1>9, <1>10

-----------------------------------------------------------------------------
(* The theorems                                                             *)

LEMMA InitInv == Init => IInv
  <1> SUFFICES ASSUME Init PROVE IInv
    OBVIOUS
  <1>1. runs = <<>> /\ runs \in Seq(RunRec) /\ Len(runs) = 0 /\ MaxRuns \in Nat
    BY PolicyAssumption DEF Init
  <1>2. Types
    BY <1>1, NoOp DEF Init, Types, Statuses
  <1>3. Known /\ Driving /\ Reported /\ StatusJustified
    BY <1>1 DEF Init, Known, Driving, Reported, StatusJustified
  <1> QED
    BY <1>2, <1>3 DEF IInv

LEMMA NextInv == IInv /\ [Next]_vars => IInv'
  <1> SUFFICES ASSUME IInv, [Next]_vars PROVE IInv'
    OBVIOUS
  <1>1. CASE UNCHANGED vars
    BY <1>1 DEF vars, runtime, turn, policies, IInv, Types, Known, Driving, Reported,
                StatusJustified, Run
  <1>2. ASSUME NEW t \in Chats, BeginTurn(t) \/ EndTurn(t) PROVE IInv'
    BY <1>2, TurnInv
  <1>3. ASSUME NEW t \in Chats, StopPolicy(t) PROVE IInv'
    BY <1>3, StopPolicyInv
  <1>4. ASSUME NEW t \in Chats, OpStep(t) PROVE IInv'
    BY <1>4, OperationInv, StoppedInv DEF OpStep
  <1>5. ASSUME NEW t \in Chats, Cancel(t) PROVE IInv'
    BY <1>5, CancelInv
  <1>6. ASSUME NEW t \in Chats, NEW c \in Chats, Tool(t, c) PROVE IInv'
    BY <1>6, DeployInv, OperationInv DEF Tool
  <1>7. ASSUME NEW t \in Chats, NEW r \in Run, CancelPolicy(t, r) PROVE IInv'
    BY <1>7, CancelPolicyInv
  <1>8. ASSUME NEW r \in Run, RunStep(r) \/ StepFails(r) PROVE IInv'
    BY <1>8, RunStepInv
  <1> QED
    BY <1>1, <1>2, <1>3, <1>4, <1>5, <1>6, <1>7, <1>8 DEF Next

\* The state has its type, for any chats and bound.
THEOREM PolicyType == Spec => []TypeOK
  <1>1. IInv => TypeOK
    BY DEF IInv, Types, TypeOK, RunRec, OpRec
  <1> QED
    BY <1>1, InitInv, NextInv, PTL DEF Spec

\* What drives the arm is the run that stop_policy would stop, or one that was
\* displaced while it started (controller.py:603-664).
THEOREM PolicyStoppable == Spec => []DriverStoppable
  <1>1. IInv => DriverStoppable
    <2>1. IInv => DOMAIN runs = 1..Len(runs)
      BY DEF IInv, Types
    <2> QED
      BY <2>1 DEF IInv, Known, Driving, DriverStoppable, Run
  <1> QED
    BY <1>1, InitInv, NextInv, PTL DEF Spec

\* After "Policy stopped" the task is over, and no policy that was deployed before it
\* drives the arm, but for the displaced ones (inference.py:51-93).
THEOREM PolicyStoppedMeansOver == Spec => []StoppedMeansOver
  <1>1. IInv => StoppedMeansOver
    <2> SUFFICES ASSUME IInv, NEW r \in answered
                 PROVE  Over(r) /\ \A q \in 1..r : runs[q].running => q \in displaced
      BY DEF StoppedMeansOver
    <2>1. Over(r) /\ r \in 1..Len(runs) /\ table = Len(runs) /\ Len(runs) \in Nat
      BY DEF IInv, Types, Reported, Over
    <2>2. ASSUME NEW q \in 1..r, runs[q].running, q \notin displaced PROVE FALSE
      <3>1. q \in 1..Len(runs) /\ runs[q].phase = "loop"
        BY <2>1, <2>2 DEF IInv, Driving
      <3>2. q = table
        BY <2>2, <3>1 DEF IInv, Known
      <3>3. q = r
        BY <2>1, <3>2
      <3> QED
        BY <2>1, <3>1, <3>3 DEF Over
    <2> QED
      BY <2>1, <2>2
  <1> QED
    BY <1>1, InitInv, NextInv, PTL DEF Spec

\* A runtime that shows an operation has one, of whichever turn, or a policy, or
\* one was cut off (executor.py:117-206, inference.py:51-87).
THEOREM PolicyStatusJustified == Spec => []StatusJustified
  <1>1. IInv => StatusJustified
    BY DEF IInv
  <1> QED
    BY <1>1, InitInv, NextInv, PTL DEF Spec

-----------------------------------------------------------------------------
(* Collection: what is known of a take *)

StepRec == [ok : BOOLEAN, moved : BOOLEAN, captured : BOOLEAN]
Row == [episode : 1..Episodes, frame : 1..Steps, take : 1..Takes, image : 0..Takes]
Pictures == [1..Episodes -> [1..Steps -> 0..Takes]]

CollectTypes ==
  /\ pc \in {"start", "reset", "step", "closing", "stopping", "saving", "over"}
  /\ raising \in BOOLEAN
  /\ episode \in 1..Episodes /\ take \in 1..Takes
  /\ steps \in Seq(StepRec) /\ rows \in Seq(Row)
  /\ staging \in Pictures /\ images \in Pictures
  /\ completed \in Nat /\ failed \in Nat
  /\ disk \in {"none", "rows", "whole"}

\* Every episode is counted once, and all are before anything is saved.
Counts ==
  /\ pc \in {"start", "reset", "step"} => completed + failed + 1 = episode
  /\ pc = "closing" \/ pc = "saving" \/ (pc = "stopping" /\ ~raising) => completed + failed = Episodes
  /\ raising => pc \in {"stopping", "over"}
  /\ disk # "none" => pc \in {"saving", "over"}
  /\ disk = "whole" => pc = "over"

\* A take has steps left to do.
Room ==
  /\ pc \in {"start", "reset"} => steps = <<>>
  /\ pc = "step" => Len(steps) < Steps

Fresh ==
  pc = "step" => \A k \in 1..Len(steps) : steps[k].captured => staging[episode][k] = take

Earlier ==
  pc \in {"start", "reset", "step"} => \A i \in 1..Len(rows) : rows[i].episode < episode

Pictured ==
  \A i \in 1..Len(rows) :
    /\ rows[i].image \in {0, rows[i].take}
    /\ rows[i].image # 0 => images[rows[i].episode][rows[i].frame] = rows[i].take

CollectInv == CollectTypes /\ Counts /\ Room /\ Fresh /\ Earlier /\ Pictured

-----------------------------------------------------------------------------
(* A take that counts                                                       *)

\* What is recorded, with the files it was captured in.
Recorded(recorded) ==
  /\ recorded \in Seq(StepRec) /\ Len(recorded) <= Steps
  /\ \A k \in 1..Len(recorded) : recorded[k].captured => staging'[episode][k] = take

\* The rows it adds.
LEMMA RowsOfTake ==
  ASSUME CollectInv, NEW ok, NEW recorded, Recorded(recorded), staging' \in Pictures,
         Conclude(ok, recorded)
  PROVE  /\ rows' \in Seq(Row)
         /\ Len(rows') = Len(rows) + Len(recorded)
         /\ \A i \in 1..Len(rows) : rows'[i] = rows[i]
         /\ \A k \in 1..Len(recorded) :
              rows'[Len(rows) + k] = [episode |-> episode, frame |-> k, take |-> take,
                                      image |-> IF recorded[k].captured THEN take ELSE 0]
  <1> DEFINE added == [k \in 1..Len(recorded) |-> RowOf(recorded, k)]
  <1>1. /\ episode \in 1..Episodes /\ take \in 1..Takes /\ rows \in Seq(Row)
        /\ Len(recorded) \in Nat /\ DOMAIN recorded = 1..Len(recorded)
        /\ Steps \in Nat
    BY CollectionAssumption DEF CollectInv, CollectTypes, Recorded
  <1>2. \A k \in 1..Len(recorded) :
          /\ RowOf(recorded, k) = [episode |-> episode, frame |-> k, take |-> take,
                                   image |-> IF recorded[k].captured THEN take ELSE 0]
          /\ RowOf(recorded, k) \in Row
    <2>1. SUFFICES ASSUME NEW k \in 1..Len(recorded)
                   PROVE  /\ RowOf(recorded, k) = [episode |-> episode, frame |-> k, take |-> take,
                                   image |-> IF recorded[k].captured THEN take ELSE 0]
                          /\ RowOf(recorded, k) \in Row
      OBVIOUS
    <2>2. RowOf(recorded, k) = [episode |-> episode, frame |-> k, take |-> take,
                                image |-> IF recorded[k].captured THEN take ELSE 0]
      BY DEF Recorded, RowOf
    <2>3. k \in 1..Steps /\ (IF recorded[k].captured THEN take ELSE 0) \in 0..Takes
      BY <1>1 DEF Recorded, Takes
    <2> QED
      BY <1>1, <2>2, <2>3 DEF Row
  <1>3. added \in Seq(Row) /\ Len(added) = Len(recorded)
    BY <1>1, <1>2
  <1>4. rows' = rows \o added
    BY <1>1 DEF Conclude
  <1>5. \A k \in 1..Len(recorded) : added[k] = RowOf(recorded, k)
    OBVIOUS
  <1> HIDE DEF added
  <1>6. /\ rows' \in Seq(Row) /\ Len(rows') = Len(rows) + Len(recorded)
        /\ \A i \in 1..(Len(rows) + Len(recorded)) :
             rows'[i] = IF i <= Len(rows) THEN rows[i] ELSE added[i - Len(rows)]
    <2>1. rows \o added \in Seq(Row)
      BY <1>1, <1>3
    <2>2. Len(rows \o added) = Len(rows) + Len(added)
      BY <1>1, <1>3
    <2>3. \A i \in 1..(Len(rows) + Len(added)) :
            (rows \o added)[i] = IF i <= Len(rows) THEN rows[i] ELSE added[i - Len(rows)]
      BY <1>1, <1>3
    <2> QED
      BY <1>3, <1>4, <2>1, <2>2, <2>3
  <1>7. \A k \in 1..Len(recorded) : rows'[Len(rows) + k] = added[k]
    BY <1>1, <1>6
  <1>8. \A i \in 1..Len(rows) : rows'[i] = rows[i]
    BY <1>1, <1>6
  <1> QED
    BY <1>2, <1>5, <1>6, <1>7, <1>8

\* The ledger gets the frames of the take, and the invariant holds again.
LEMMA ConcludeStep ==
  ASSUME CollectInv, pc \in {"reset", "step"}, NEW ok \in BOOLEAN, NEW recorded, Recorded(recorded),
         ok => Len(recorded) = Steps,
         staging' \in Pictures, Conclude(ok, recorded), UNCHANGED <<raising, disk>>
  PROVE  /\ CollectInv'
         /\ Taken' = Taken \union
                       {<<completed + failed + 1, k, take>> : k \in 1..Len(recorded)}
         /\ disk = "none" /\ pc' # "over"
         /\ completed' + failed' = completed + failed + 1
         /\ completed' = IF ok THEN completed + 1 ELSE completed
         /\ completed + failed < Episodes
  <1>14. rows \in Seq(Row) /\ images \in Pictures /\ DOMAIN recorded = 1..Len(recorded)
    BY DEF CollectInv, CollectTypes, Recorded
  <1>15. disk = "none" /\ raising = FALSE /\ raising' = FALSE
    BY DEF CollectInv, CollectTypes, Counts
  <1>1. /\ episode \in 1..Episodes /\ take \in 1..Takes
        /\ Len(recorded) \in Nat /\ Len(recorded) <= Steps
        /\ Steps \in Nat /\ Episodes \in Nat /\ completed \in Nat /\ failed \in Nat
        /\ completed + failed + 1 = episode
    BY CollectionAssumption DEF CollectInv, CollectTypes, Recorded, Counts
  <1>2. /\ rows' \in Seq(Row)
        /\ Len(rows') = Len(rows) + Len(recorded)
        /\ \A i \in 1..Len(rows) : rows'[i] = rows[i]
        /\ \A k \in 1..Len(recorded) :
             rows'[Len(rows) + k] = [episode |-> episode, frame |-> k, take |-> take,
                                     image |-> IF recorded[k].captured THEN take ELSE 0]
    BY RowsOfTake
  <1>11. /\ Len(rows) \in Nat /\ DOMAIN rows = 1..Len(rows)
         /\ \A i \in 1..Len(rows) : rows[i] \in Row
    <2>1. rows \in Seq(Row)
      BY <1>14
    <2> QED
      BY <2>1
  <1>12. /\ Len(rows') = Len(rows) + Len(recorded) /\ DOMAIN rows' = 1..Len(rows')
         /\ \A i \in 1..Len(rows) : i \in 1..Len(rows') /\ rows'[i] = rows[i]
         /\ \A k \in 1..Len(recorded) : Len(rows) + k \in 1..Len(rows')
    <2>1. rows' \in Seq(Row)
      BY <1>2
    <2>2. DOMAIN rows' = 1..Len(rows') /\ Len(rows') = Len(rows) + Len(recorded)
      BY <2>1, <1>2
    <2>3. Len(rows) \in Nat /\ Len(recorded) \in Nat
      BY <1>1, <1>11
    <2> QED
      BY <1>2, <2>2, <2>3
  <1>13. \A k \in 1..Len(recorded) :
           /\ rows'[Len(rows) + k].episode = completed + failed + 1
           /\ rows'[Len(rows) + k].frame = k
           /\ rows'[Len(rows) + k].take = take
    <2>1. SUFFICES ASSUME NEW k \in 1..Len(recorded)
                   PROVE  /\ rows'[Len(rows) + k].episode = episode
                          /\ rows'[Len(rows) + k].frame = k
                          /\ rows'[Len(rows) + k].take = take
      BY <1>1
    <2>2. rows'[Len(rows) + k] = [episode |-> episode, frame |-> k, take |-> take,
                                  image |-> IF recorded[k].captured THEN take ELSE 0]
      BY <1>2
    <2> QED
      BY <2>2
  <1>3. \A i \in 1..Len(rows') :
          \/ i \in 1..Len(rows) /\ rows'[i] = rows[i]
          \/ \E k \in 1..Len(recorded) :
               /\ i = Len(rows) + k
               /\ rows'[i] = [episode |-> episode, frame |-> k, take |-> take,
                              image |-> IF recorded[k].captured THEN take ELSE 0]
    <2>1. SUFFICES ASSUME NEW i \in 1..Len(rows'), ~(i \in 1..Len(rows))
                   PROVE  \E k \in 1..Len(recorded) :
                            /\ i = Len(rows) + k
                            /\ rows'[i] = [episode |-> episode, frame |-> k, take |-> take,
                                           image |-> IF recorded[k].captured THEN take ELSE 0]
      BY <1>2
    <2>2. i - Len(rows) \in 1..Len(recorded) /\ i = Len(rows) + (i - Len(rows))
      BY <1>1, <1>2, <2>1
    <2> QED
      BY <1>2, <2>2
  <1>4. /\ completed' = (IF ok THEN completed + 1 ELSE completed)
        /\ failed' = (IF ok THEN failed ELSE failed + 1)
        /\ steps' = <<>> /\ take' = 1
        /\ \/ episode < Episodes /\ episode' = episode + 1 /\ pc' = "reset"
           \/ episode = Episodes /\ episode' = episode /\ pc' = "closing"
    <2>1. steps' = <<>> /\ take' = 1
      BY DEF Conclude
    <2>2. /\ completed' = (IF ok THEN completed + 1 ELSE completed)
          /\ failed' = (IF ok THEN failed ELSE failed + 1)
      BY DEF Conclude
    <2>3. IF episode < Episodes THEN episode' = episode + 1 /\ pc' = "reset"
          ELSE pc' = "closing" /\ episode' = episode
      BY DEF Conclude
    <2>4. \/ episode < Episodes /\ episode' = episode + 1 /\ pc' = "reset"
          \/ episode = Episodes /\ episode' = episode /\ pc' = "closing"
      BY <1>1, <2>3
    <2> QED
      BY <2>1, <2>2, <2>4
  <1>5. /\ images' \in Pictures
        /\ \A e \in 1..Episodes : e # episode => images'[e] = images[e]
        /\ \A k \in 1..Len(recorded) : recorded[k].captured => images'[episode][k] = take
    <2> DEFINE shot == [k \in 1..Steps |->
                  IF k \in 1..Len(recorded) THEN RowOf(recorded, k).image ELSE images[episode][k]]
    <2>1. \A k \in 1..Len(recorded) :
            RowOf(recorded, k).image = IF recorded[k].captured THEN take ELSE 0
      BY DEF RowOf, Recorded
    <2>2. shot \in [1..Steps -> 0..Takes]
      <3>1. SUFFICES ASSUME NEW k \in 1..Steps PROVE shot[k] \in 0..Takes
        OBVIOUS
      <3>2. images[episode][k] \in 0..Takes
        BY <1>1, <1>14, <3>1 DEF Pictures
      <3> QED
        BY <1>1, <2>1, <3>2 DEF Takes
    <2>3. \A k \in 1..Len(recorded) : recorded[k].captured => shot[k] = take
      BY <1>1, <2>1
    <2>4. images' = [images EXCEPT ![episode] = shot]
      BY <1>1, <1>14 DEF Conclude
    <2> HIDE DEF shot
    <2> QED
      BY <1>1, <1>14, <2>2, <2>3, <2>4 DEF Pictures
  <1>6. CollectTypes'
    <2>1. /\ staging' \in Pictures /\ images' \in Pictures /\ rows' \in Seq(Row)
          /\ disk' \in {"none", "rows", "whole"} /\ raising' \in BOOLEAN
      BY <1>2, <1>5, <1>15
    <2>2. /\ pc' \in {"start", "reset", "step", "closing", "stopping", "saving", "over"}
          /\ episode' \in 1..Episodes /\ take' \in 1..Takes /\ steps' \in Seq(StepRec)
          /\ completed' \in Nat /\ failed' \in Nat
      BY <1>1, <1>4 DEF Takes
    <2> QED
      BY <2>1, <2>2 DEF CollectTypes
  <1>7. Counts' /\ Room' /\ Fresh'
    BY <1>1, <1>4, <1>15 DEF Counts, Room, Fresh
  <1>8. Earlier'
    <2>1. SUFFICES ASSUME pc' = "reset", NEW i \in 1..Len(rows') PROVE rows'[i].episode < episode'
      BY <1>4 DEF Earlier
    <2>2. rows'[i].episode <= episode
      <3>1. CASE i \in 1..Len(rows) /\ rows'[i] = rows[i]
        <4>1. rows[i] \in Row /\ rows[i].episode < episode
          BY <1>11, <3>1 DEF CollectInv, Earlier
        <4>2. rows[i].episode \in Nat
          BY <4>1 DEF Row
        <4> QED
          BY <1>1, <3>1, <4>1, <4>2
      <3>2. ASSUME NEW k \in 1..Len(recorded),
                   rows'[i] = [episode |-> episode, frame |-> k, take |-> take,
                               image |-> IF recorded[k].captured THEN take ELSE 0]
            PROVE  rows'[i].episode <= episode
        <4>1. rows'[i].episode = episode
          BY <3>2
        <4> QED
          BY <1>1, <4>1
      <3> QED
        BY <1>3, <3>1, <3>2
    <2>3. rows'[i] \in Row
      BY <1>2
    <2>4. rows'[i].episode \in Nat
      BY <1>1, <2>3 DEF Row
    <2> QED
      BY <1>1, <1>4, <2>1, <2>2, <2>4
  <1>9. Pictured'
    <2>1. SUFFICES ASSUME NEW i \in 1..Len(rows')
                   PROVE  /\ rows'[i].image \in {0, rows'[i].take}
                          /\ rows'[i].image # 0 =>
                               images'[rows'[i].episode][rows'[i].frame] = rows'[i].take
      BY DEF Pictured
    <2>2. CASE i \in 1..Len(rows) /\ rows'[i] = rows[i]
      <3>1. rows[i] \in Row /\ rows[i].episode < episode
        BY <1>11, <2>2 DEF CollectInv, Earlier
      <3>2. rows[i].episode \in 1..Episodes /\ rows[i].episode # episode
        BY <1>1, <3>1 DEF Row
      <3> QED
        BY <1>5, <2>2, <3>2 DEF CollectInv, Pictured
    <2>3. ASSUME NEW k \in 1..Len(recorded),
                 rows'[i] = [episode |-> episode, frame |-> k, take |-> take,
                             image |-> IF recorded[k].captured THEN take ELSE 0]
          PROVE  /\ rows'[i].image \in {0, rows'[i].take}
                 /\ rows'[i].image # 0 =>
                      images'[rows'[i].episode][rows'[i].frame] = rows'[i].take
      <3>1. /\ rows'[i].episode = episode /\ rows'[i].frame = k /\ rows'[i].take = take
            /\ rows'[i].image = IF recorded[k].captured THEN take ELSE 0
        BY <2>3
      <3>2. rows'[i].image # 0 => images'[episode][k] = take
        BY <1>5, <3>1
      <3> QED
        BY <3>1, <3>2
    <2> QED
      BY <1>3, <2>2, <2>3
  <1>10. Taken' = Taken \union {<<completed + failed + 1, k, take>> : k \in 1..Len(recorded)}
    <2>1. DOMAIN rows = 1..Len(rows) /\ DOMAIN rows' = 1..Len(rows')
      BY <1>11, <1>12
    <2>2. ASSUME NEW x \in Taken'
          PROVE  x \in Taken \union {<<completed + failed + 1, k, take>> : k \in 1..Len(recorded)}
      <3>1. PICK i \in 1..Len(rows') : x = <<rows'[i].episode, rows'[i].frame, rows'[i].take>>
        BY <2>1 DEF Taken
      <3>2. CASE i \in 1..Len(rows) /\ rows'[i] = rows[i]
        BY <2>1, <3>1, <3>2 DEF Taken
      <3>3. ASSUME NEW k \in 1..Len(recorded),
                   rows'[i] = [episode |-> episode, frame |-> k, take |-> take,
                               image |-> IF recorded[k].captured THEN take ELSE 0]
            PROVE  x \in {<<completed + failed + 1, l, take>> : l \in 1..Len(recorded)}
        <4>1. /\ rows'[i].episode = episode /\ rows'[i].frame = k /\ rows'[i].take = take
              /\ episode = completed + failed + 1
          BY <1>1, <3>3
        <4>2. x = <<completed + failed + 1, k, take>>
          BY <3>1, <4>1
        <4> QED
          BY <4>2
      <3> QED
        BY <1>3, <3>2, <3>3
    <2>3. ASSUME NEW i \in 1..Len(rows)
          PROVE  <<rows[i].episode, rows[i].frame, rows[i].take>> \in Taken'
      <3>1. i \in 1..Len(rows') /\ rows'[i] = rows[i]
        BY <1>12
      <3> QED
        BY <2>1, <3>1 DEF Taken
    <2>4. ASSUME NEW k \in 1..Len(recorded)
          PROVE  <<completed + failed + 1, k, take>> \in Taken'
      <3>1. Len(rows) + k \in 1..Len(rows')
        BY <1>12
      <3>2. <<rows'[Len(rows) + k].episode, rows'[Len(rows) + k].frame, rows'[Len(rows) + k].take>>
              = <<completed + failed + 1, k, take>>
        BY <1>13
      <3> QED
        BY <2>1, <3>1, <3>2 DEF Taken
    <2>5. \A x \in Taken : x \in Taken'
      BY <2>1, <2>3 DEF Taken
    <2> QED
      BY <2>2, <2>4, <2>5
  <1> QED
    BY <1>1, <1>4, <1>15, <1>6, <1>7, <1>8, <1>9, <1>10 DEF CollectInv

-----------------------------------------------------------------------------
(* The steps, and what the ledger sees of them                              *)

LedgerStep == [Ledger!Next]_(Ledger!vars)

\* A take that counts is one episode in the ledger.
LEMMA ConcludeLedger ==
  ASSUME CollectInv, pc \in {"reset", "step"}, NEW ok \in BOOLEAN, NEW recorded, Recorded(recorded),
         ok => Len(recorded) = Steps,
         staging' \in Pictures, Conclude(ok, recorded), UNCHANGED <<raising, disk>>
  PROVE  CollectInv' /\ LedgerStep
  <1>1. /\ CollectInv'
        /\ Taken' = Taken \union
                      {<<completed + failed + 1, k, take>> : k \in 1..Len(recorded)}
        /\ disk = "none" /\ pc' # "over"
        /\ completed' + failed' = completed + failed + 1
        /\ completed' = IF ok THEN completed + 1 ELSE completed
        /\ completed + failed < Episodes
    BY ConcludeStep
  <1>2. Len(recorded) \in 0..Steps /\ take \in 1..Takes
    BY CollectionAssumption DEF Recorded, CollectInv, CollectTypes
  <1>3. pc # "over"
    OBVIOUS
  <1>4. Ledger!Conclude(ok, Len(recorded), take)
    BY <1>1, <1>3 DEF Ledger!Conclude
  <1> QED
    BY <1>1, <1>2, <1>4 DEF LedgerStep, Ledger!Next

\* A take that is tried again is none.
LEMMA TakeEnds ==
  ASSUME CollectInv, pc \in {"reset", "step"}, NEW ok \in BOOLEAN, NEW recorded, Recorded(recorded),
         ok => Len(recorded) = Steps,
         staging' \in Pictures, EndTake(ok, recorded), UNCHANGED <<raising, disk>>
  PROVE  CollectInv' /\ LedgerStep
  <1>1. CASE supervised /\ ~Judged(ok, recorded) /\ take < Takes
    <2>1. /\ take' = take + 1 /\ pc' = "reset" /\ steps' = <<>>
          /\ UNCHANGED <<raising, episode, rows, images, completed, failed, disk>>
      BY <1>1 DEF EndTake
    <2>2. CollectTypes'
      BY <1>1, <2>1 DEF CollectInv, CollectTypes, Takes
    <2>3. Counts' /\ Room' /\ Fresh' /\ Earlier'
      BY <2>1 DEF CollectInv, Counts, Room, Fresh, Earlier
    <2>4. Pictured'
      BY <2>1 DEF CollectInv, Pictured
    <2>5. UNCHANGED Ledger!vars
      BY <2>1 DEF Ledger!vars, Taken
    <2> QED
      BY <2>2, <2>3, <2>4, <2>5 DEF CollectInv, LedgerStep
  <1>2. CASE ~(supervised /\ ~Judged(ok, recorded) /\ take < Takes)
    <2> DEFINE counts == IF supervised THEN Judged(ok, recorded) ELSE ok
    <2>1. counts \in BOOLEAN /\ (counts => ok)
      BY DEF Judged
    <2>2. Conclude(counts, recorded)
      BY <1>2 DEF EndTake
    <2> HIDE DEF counts
    <2> QED
      BY <2>1, <2>2, ConcludeLedger
  <1> QED
    BY <1>1, <1>2

LEMMA ResetStep ==
  ASSUME CollectInv, NEW ok \in BOOLEAN, Reset(ok)
  PROVE  CollectInv' /\ LedgerStep
  <1>1. /\ pc = "reset" /\ staging' = staging /\ disk' = disk /\ staging \in Pictures
        /\ raising' = raising
    BY DEF Reset, CollectInv, CollectTypes
  <1>2. CASE ok
    <2>1. pc' = "step" /\ UNCHANGED <<episode, take, steps, rows, images, completed, failed>>
      BY <1>2 DEF Reset
    <2>2. steps = <<>>
      BY <1>1 DEF CollectInv, Room
    <2>3. CollectTypes'
      BY <1>1, <2>1 DEF CollectInv, CollectTypes
    <2>4. Room' /\ Fresh'
      BY <2>1, <2>2, CollectionAssumption DEF Room, Fresh
    <2>5. Counts' /\ Earlier' /\ Pictured'
      BY <1>1, <2>1 DEF CollectInv, Counts, Earlier, Pictured
    <2>6. UNCHANGED Ledger!vars
      BY <1>1, <2>1 DEF Ledger!vars, Taken
    <2> QED
      BY <2>3, <2>4, <2>5, <2>6 DEF CollectInv, LedgerStep
  <1>3. CASE ~ok
    <2>1. EndTake(FALSE, <<>>)
      BY <1>3 DEF Reset
    <2>2. Recorded(<<>>)
      BY CollectionAssumption DEF Recorded
    <2> QED
      BY <1>1, <2>1, <2>2, TakeEnds
  <1> QED
    BY <1>2, <1>3

LEMMA StepStep ==
  ASSUME CollectInv, NEW ok \in BOOLEAN, NEW moved \in BOOLEAN, NEW captured \in BOOLEAN,
         Step(ok, moved, captured)
  PROVE  CollectInv' /\ LedgerStep
  <1> DEFINE new == [ok |-> ok, moved |-> moved, captured |-> captured]
             recorded == Append(steps, new)
  <1>1. /\ pc = "step" /\ disk' = disk /\ raising' = raising /\ steps \in Seq(StepRec) /\ new \in StepRec
        /\ Len(steps) < Steps /\ Steps \in Nat
        /\ episode \in 1..Episodes /\ take \in 1..Takes /\ staging \in Pictures
    BY CollectionAssumption DEF Step, CollectInv, CollectTypes, Room, StepRec
  <1>2. new.captured = captured
    OBVIOUS
  <1> HIDE DEF new
  <1>3. /\ recorded \in Seq(StepRec) /\ Len(recorded) = Len(steps) + 1
        /\ recorded[Len(steps) + 1] = new
        /\ \A k \in 1..Len(steps) : recorded[k] = steps[k]
        /\ Len(recorded) \in 1..Steps
    BY <1>1
  <1>4. staging' = IF captured THEN [staging EXCEPT ![episode][Len(recorded)] = take] ELSE staging
    BY DEF Step, new
  <1>5. IF ok /\ Len(recorded) < Steps
        THEN steps' = recorded /\ UNCHANGED <<pc, episode, take, rows, images, completed, failed>>
        ELSE EndTake(ok, recorded)
    BY DEF Step, new
  <1> HIDE DEF recorded
  <1>6. /\ staging' \in Pictures
        /\ captured => staging'[episode][Len(recorded)] = take
        /\ \A k \in 1..Steps : k # Len(recorded) => staging'[episode][k] = staging[episode][k]
    BY <1>1, <1>3, <1>4 DEF Pictures
  <1>7. \A k \in 1..Len(recorded) : recorded[k].captured => staging'[episode][k] = take
    <2>1. SUFFICES ASSUME NEW k \in 1..Len(recorded), recorded[k].captured
                   PROVE  staging'[episode][k] = take
      OBVIOUS
    <2>2. CASE k = Len(recorded)
      BY <1>2, <1>3, <1>6, <2>1, <2>2
    <2>3. CASE k # Len(recorded)
      <3>1. k \in 1..Len(steps) /\ k \in 1..Steps /\ steps[k].captured
        BY <1>1, <1>3, <2>1, <2>3
      <3> QED
        BY <1>1, <1>6, <2>3, <3>1 DEF CollectInv, Fresh
    <2> QED
      BY <2>2, <2>3
  <1>8. CASE ok /\ Len(recorded) < Steps
    <2>1. steps' = recorded /\ UNCHANGED <<pc, episode, take, rows, images, completed, failed>>
      BY <1>5, <1>8
    <2>2. CollectTypes'
      BY <1>1, <1>3, <1>6, <2>1 DEF CollectInv, CollectTypes
    <2>3. Room' /\ Fresh'
      BY <1>1, <1>7, <1>8, <2>1 DEF Room, Fresh
    <2>4. Counts' /\ Earlier' /\ Pictured'
      BY <1>1, <2>1 DEF CollectInv, Counts, Earlier, Pictured
    <2>5. UNCHANGED Ledger!vars
      BY <1>1, <2>1 DEF Ledger!vars, Taken
    <2> QED
      BY <2>2, <2>3, <2>4, <2>5 DEF CollectInv, LedgerStep
  <1>9. CASE ~(ok /\ Len(recorded) < Steps)
    <2>3. EndTake(ok, recorded)
      BY <1>5, <1>9
    <2>4. ok => ~(Len(recorded) < Steps)
      BY <1>9
    <2>1. EndTake(ok, recorded) /\ (ok => Len(recorded) = Steps)
      BY <1>1, <1>3, <2>3, <2>4
    <2>2. Recorded(recorded)
      BY <1>1, <1>3, <1>7 DEF Recorded
    <2> QED
      BY <1>1, <1>6, <2>1, <2>2, TakeEnds
  <1> QED
    BY <1>8, <1>9

\* What is saved is all there is to save; what breaks off is aborted.
LEMMA EndingStep ==
  ASSUME CollectInv, Close \/ Raised \/ GiveUp \/ SaveData \/ SaveInfo \/ CutShort \/ Crash
  PROVE  CollectInv' /\ LedgerStep
  <1> USE DEF Close, Raised, Finally, GiveUp, SaveData, SaveInfo, CutShort, Crash, ServerClosed
  <1>1. Files \in Pictures
    BY DEF Files, Pictures, Takes
  <1>2. UNCHANGED <<episode, take, steps, rows, images, completed, failed>>
    OBVIOUS
  <1>3. /\ staging' \in Pictures /\ pc' \in {"stopping", "saving", "over"}
        /\ disk' \in {"none", "rows", "whole"} /\ raising' \in BOOLEAN
    BY <1>1 DEF CollectInv, CollectTypes
  <1>4. CollectTypes'
    BY <1>2, <1>3 DEF CollectInv, CollectTypes
  <1>5. Room' /\ Fresh' /\ Earlier' /\ Pictured'
    BY <1>2, <1>3 DEF CollectInv, Room, Fresh, Earlier, Pictured
  <1>6. Counts'
    BY <1>2 DEF CollectInv, Counts
  <1>7. ASSUME Close \/ Raised \/ SaveData PROVE LedgerStep
    BY <1>2, <1>7 DEF LedgerStep, Ledger!vars, Taken, CollectInv, Counts
  <1>8. ASSUME SaveInfo PROVE LedgerStep
    <2>1. Ledger!Save
      BY <1>2, <1>8 DEF Ledger!Save, Taken, CollectInv, Counts
    <2> QED
      BY <2>1 DEF LedgerStep, Ledger!Next
  <1>9. ASSUME GiveUp \/ CutShort \/ Crash PROVE LedgerStep
    <2>1. Ledger!Abort
      BY <1>2, <1>9 DEF Ledger!Abort, Taken, CollectInv, Counts
    <2> QED
      BY <2>1 DEF LedgerStep, Ledger!Next
  <1> QED
    BY <1>4, <1>5, <1>6, <1>7, <1>8, <1>9 DEF CollectInv

\* A browser touches neither.
LEMMA BrowseStep ==
  ASSUME CollectInv, Browse
  PROVE  CollectInv' /\ LedgerStep
  <1>1. UNCHANGED <<pc, raising, episode, take, steps, staging, rows, images, completed, failed, disk>>
    BY DEF Browse
  <1>2. CollectInv'
    BY <1>1 DEF CollectInv, CollectTypes, Counts, Room, Fresh, Earlier, Pictured
  <1>3. LedgerStep
    BY <1>1 DEF LedgerStep, Ledger!vars, Taken
  <1> QED
    BY <1>2, <1>3

-----------------------------------------------------------------------------
LEMMA CollectInitInv == CollectInit => CollectInv /\ Ledger!Init
  <1> SUFFICES ASSUME CollectInit PROVE CollectInv /\ Ledger!Init
    OBVIOUS
  <1>1. Files \in Pictures
    BY DEF Files, Pictures, Takes
  <1>2. rows = <<>> /\ Len(rows) = 0
    BY DEF CollectInit
  <1>3. CollectTypes
    <2>1. steps \in Seq(StepRec) /\ rows \in Seq(Row) /\ episode \in 1..Episodes /\ take \in 1..Takes
      BY CollectionAssumption DEF CollectInit, Takes
    <2> QED
      BY <1>1, <2>1 DEF CollectInit, CollectTypes
  <1>4. Counts /\ Room /\ Fresh /\ Earlier /\ Pictured
    BY <1>2 DEF CollectInit, Counts, Room, Fresh, Earlier, Pictured
  <1>5. Taken = {}
    BY <1>2 DEF Taken
  <1>6. Ledger!Init
    BY <1>5 DEF CollectInit, Ledger!Init
  <1> QED
    BY <1>3, <1>4, <1>6 DEF CollectInv

LEMMA CollectNextInv == CollectInv /\ [CollectNext]_collectVars => CollectInv' /\ LedgerStep
  <1> SUFFICES ASSUME CollectInv, [CollectNext]_collectVars PROVE CollectInv' /\ LedgerStep
    OBVIOUS
  <1>1. CASE UNCHANGED collectVars
    <2>1. CollectInv'
      BY <1>1 DEF collectVars, CollectInv, CollectTypes, Counts, Room, Fresh, Earlier, Pictured
    <2>2. LedgerStep
      BY <1>1 DEF collectVars, LedgerStep, Ledger!vars, Taken
    <2> QED
      BY <2>1, <2>2
  <1>2. CASE Begin
    <2>1. /\ UNCHANGED <<raising, episode, take, steps, staging, rows, images, completed, failed, disk>>
          /\ pc = "start" /\ pc' = "reset"
      BY <1>2 DEF Begin
    <2>2. CollectInv'
      BY <2>1 DEF CollectInv, CollectTypes, Counts, Room, Fresh, Earlier, Pictured
    <2>3. LedgerStep
      BY <2>1 DEF LedgerStep, Ledger!vars, Taken
    <2> QED
      BY <2>2, <2>3
  <1>3. ASSUME NEW ok \in BOOLEAN, Reset(ok) PROVE CollectInv' /\ LedgerStep
    BY <1>3, ResetStep
  <1>4. ASSUME NEW ok \in BOOLEAN, NEW moved \in BOOLEAN, NEW captured \in BOOLEAN,
               Step(ok, moved, captured)
        PROVE  CollectInv' /\ LedgerStep
    BY <1>4, StepStep
  <1>5. CASE Close \/ Raised \/ GiveUp \/ SaveData \/ SaveInfo \/ CutShort \/ Crash
    BY <1>5, EndingStep
  <1>6. CASE Browse
    BY <1>6, BrowseStep
  <1> QED
    BY <1>1, <1>2, <1>3, <1>4, <1>5, <1>6 DEF CollectNext, Work, Ended

\* The picture kept with a frame is of the take whose state and action the frame
\* has, for any number of episodes and steps (data_collection.py:129-153).
THEOREM PicturesOfTake == CollectSpec => []ImagesOfTake
  <1>1. CollectInv => ImagesOfTake
    <2>1. CollectInv => DOMAIN rows = 1..Len(rows)
      BY DEF CollectInv, CollectTypes
    <2> QED
      BY <2>1 DEF CollectInv, Pictured, ImagesOfTake
  <1> QED
    BY <1>1, CollectInitInv, CollectNextInv, PTL DEF CollectSpec

\* The collection implements the ledger: every step concludes one episode, saves
\* all of them, gives up, or is none of the ledger's (data_collection.py:61-185).
THEOREM CollectionImplementsLedger == CollectSpec => LedgerSpec
  <1> USE DEF LedgerStep
  <1> QED
    BY CollectInitInv, CollectNextInv, PTL DEF CollectSpec, LedgerSpec, Ledger!Spec
=============================================================================
