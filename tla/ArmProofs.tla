------------------------------ MODULE ArmProofs ------------------------------
(***************************************************************************)
(* What holds of the setup with an SO101 arm for every number of chats. The *)
(* inductive invariant adds to the properties that a control surface that  *)
(* is up runs with one of the calibrations saved so far, that a sampling   *)
(* task was cancelled only in a chat that a /stop has cut, and that only a *)
(* turn in progress awaits anything.                                       *)
(***************************************************************************)
EXTENDS ArmSetup, TLAPS

Arms == [up : BOOLEAN, cal : Nat, open : BOOLEAN]

\* Server v has read a calibration that was saved.
Calibrated(v) == v.up => v.cal \in 1..file

StreamCut == \A s \in Chats : stream[s] = "cancelled" => s \in cut

\* What the turns are doing, ...
Turns == /\ turns \subseteq Chats /\ bound \in Chats \cup {NoChat}
         /\ op \in [Chats -> Ops] /\ on \in [Chats -> Chats]
         /\ \A t \in Chats \ turns : op[t] = "none"

\* ... the runtimes, ...
Runtimes == /\ status \in [Chats -> Statuses] /\ left \subseteq Chats /\ adapter \subseteq Chats
            /\ StatusJustified

\* ... the calibration flows ...
Flows == /\ flow \in [Chats -> {"none", "mid", "stream"}] /\ stream \in [Chats -> Streams]
         /\ cut \subseteq Chats /\ pending \subseteq Chats
         /\ FlowReachable /\ StreamCut

\* ... and the arm.
Server == /\ file \in Nat /\ onboarded \in BOOLEAN
          /\ arm \in Arms /\ Calibrated(arm)
          /\ last \in [made : BOOLEAN, with : Nat, file : Nat] /\ MotionCalibrated

Inv == Turns /\ Runtimes /\ Flows /\ Server

-----------------------------------------------------------------------------
(* The control surface.                                                    *)

(* A server that is launched has read the calibration file, and so has one  *)
(* that was left alone.                                                      *)
LEMMA LaunchedCalibrated ==
  ASSUME Server
  PROVE  Launched \in Arms /\ Calibrated(Launched)
  <1>1. arm \in Arms /\ file \in Nat /\ Calibrated(arm)
    BY DEF Server
  <1>2. CASE arm.up \/ file = 0
    BY <1>1, <1>2 DEF Launched
  <1>3. CASE ~arm.up /\ file # 0
    <2>1. Launched = [arm EXCEPT !.up = TRUE, !.cal = file, !.open = FALSE]
      BY <1>3 DEF Launched
    <2>2. Launched = [up |-> TRUE, cal |-> file, open |-> FALSE]
      BY <1>1, <2>1 DEF Arms
    <2>3. file \in 1..file
      BY <1>1, <1>3
    <2> QED
      BY <1>1, <2>2, <2>3 DEF Arms, Calibrated
  <1> QED
    BY <1>2, <1>3

(* A call, answered or not, changes at most whether the port is open.       *)
LEMMA CallKeepsServer ==
  ASSUME NEW v \in Arms, Calibrated(v), NEW w \in Succeeded(v) \cup Failed(v) \cup {v}
  PROVE  w \in Arms /\ Calibrated(w) /\ w.up = v.up /\ w.cal = v.cal
  BY DEF Succeeded, Failed, Arms, Calibrated

(* A server that is told to disconnect stays what it is otherwise.           *)
LEMMA DetachKeepsServer ==
  ASSUME Server, NEW w \in {arm, [arm EXCEPT !.open = FALSE]}
  PROVE  w \in Arms /\ Calibrated(w)
  <1>1. arm \in Arms /\ Calibrated(arm)
    BY DEF Server
  <1>2. CASE w = [arm EXCEPT !.open = FALSE]
    <2>1. w = [up |-> arm.up, cal |-> arm.cal, open |-> FALSE]
      BY <1>1, <1>2 DEF Arms
    <2> QED
      BY <1>1, <2>1 DEF Arms, Calibrated
  <1> QED
    BY <1>1, <1>2

(* What becomes of the server when it is asked to connect, ...               *)
LEMMA ConnectKeepsServer ==
  ASSUME Server, NEW v \in {arm, Launched}, NEW w \in Succeeded(v) \cup Failed(v)
  PROVE  w \in Arms /\ Calibrated(w)
  <1>1. v \in Arms /\ Calibrated(v)
    BY LaunchedCalibrated DEF Server
  <1> QED
    BY <1>1, CallKeepsServer

(* ... and when a call to it is given up.                                    *)
LEMMA AbandonedKeepsServer ==
  ASSUME Server, NEW t \in Chats, NEW w \in Abandoned(t)
  PROVE  w \in Arms /\ Calibrated(w)
  <1>1. \/ w \in Failed(Launched) \/ w \in Failed(arm)
        \/ w \in {arm, [arm EXCEPT !.open = FALSE]}
    BY DEF Abandoned
  <1>2. arm \in Arms /\ Calibrated(arm) /\ Launched \in Arms /\ Calibrated(Launched)
    BY LaunchedCalibrated DEF Server
  <1>3. CASE w \in Failed(Launched)
    BY <1>2, <1>3, CallKeepsServer
  <1>4. CASE w \in Failed(arm)
    BY <1>2, <1>4, CallKeepsServer
  <1>5. CASE w \in {arm, [arm EXCEPT !.open = FALSE]}
    BY <1>5, DetachKeepsServer
  <1> QED
    BY <1>1, <1>3, <1>4, <1>5

(* A motion is made with the calibration of a server that is up.             *)
LEMMA MotionByServer ==
  ASSUME Server, last' = last \/ (arm.up /\ Moved(arm))
  PROVE  /\ last' \in [made : BOOLEAN, with : Nat, file : Nat]
         /\ last'.made => last'.with \in 1..last'.file
  <1>1. CASE last' = last
    BY <1>1 DEF Server, MotionCalibrated
  <1>2. CASE arm.up /\ Moved(arm)
    <2>1. arm.cal \in 1..file /\ arm.cal \in Nat /\ file \in Nat
      BY <1>2 DEF Server, Arms, Calibrated
    <2>2. last' = [made |-> TRUE, with |-> arm.cal, file |-> file]
      BY <1>2 DEF Moved
    <2> QED
      BY <2>1, <2>2
  <1> QED
    BY <1>1, <1>2

-----------------------------------------------------------------------------
(* What a step does to each part of the state.                              *)

(* A turn that awaits something, or nothing more, ...                        *)
LEMMA AwaitTurns ==
  ASSUME Turns, NEW t \in Chats, NEW o \in Ops, NEW q \in Chats, Await(t, o, q),
         t \in turns \/ o = "none"
  PROVE  Turns'
  <1>1. /\ op' = [op EXCEPT ![t] = o] /\ on' = [on EXCEPT ![t] = q]
        /\ turns' = turns /\ bound' = bound
    BY DEF Await
  <1> QED
    BY <1>1 DEF Turns

(* ... or that is left.                                                      *)
LEMMA LeaveTurns ==
  ASSUME Turns, NEW t \in Chats, Leave(t)
  PROVE  Turns'
  <1>1. /\ op' = [op EXCEPT ![t] = "none"] /\ on' = [on EXCEPT ![t] = t]
        /\ turns' = turns \ {t} /\ bound' \in {NoChat, bound} /\ "none" \in Ops
    BY DEF Leave, Bind, Ops
  <1> QED
    BY <1>1 DEF Turns

(* A step sets the status of runtime r, of which its operation may be: the    *)
(* status is justified if it shows what the turn now awaits of r, ...        *)
LEMMA SetRuntimes ==
  ASSUME Turns, Runtimes, NEW t \in Chats, NEW r \in Chats, NEW v \in Statuses, Set(r, v),
         NEW o \in Ops, op' = [op EXCEPT ![t] = o],
         NEW q \in Chats, on' = [on EXCEPT ![t] = q],
         op[t] \in {"connect", "move", "go"} => on[t] = r,
         v = "connecting" => q = r /\ o \in {"connect", "move"},
         v = "busy" => q = r /\ o = "go",
         adapter' \subseteq Chats
  PROVE  Runtimes'
  <1>1. status' \in [Chats -> Statuses] /\ left' \subseteq Chats /\ status'[r] = v
    BY DEF Runtimes, Set
  <1>2. /\ op'[t] = o /\ on'[t] = q
        /\ \A u \in Chats \ {t} : op'[u] = op[u] /\ on'[u] = on[u]
    BY DEF Turns
  <1>3. SUFFICES ASSUME NEW u \in Chats, u \notin left'
                 PROVE  /\ status'[u] = "connecting" =>
                             \E w \in Chats : on'[w] = u /\ op'[w] \in {"connect", "move"}
                        /\ status'[u] = "busy" => \E w \in Chats : on'[w] = u /\ op'[w] = "go"
    BY <1>1 DEF Runtimes, StatusJustified
  <1>4. CASE u = r
    BY <1>1, <1>2, <1>4
  <1>5. CASE u # r
    <2>1. status'[u] = status[u] /\ u \notin left
      BY <1>3, <1>5 DEF Runtimes, Set
    <2>2. ASSUME NEW w \in Chats, on[w] = u, op[w] \in {"connect", "move", "go"}
          PROVE  on'[w] = u /\ op'[w] = op[w]
      BY <1>2, <1>5, <2>2
    <2>3. /\ status[u] = "connecting" =>
               \E w \in Chats : on[w] = u /\ op[w] \in {"connect", "move"}
          /\ status[u] = "busy" => \E w \in Chats : on[w] = u /\ op[w] = "go"
      BY <2>1 DEF Runtimes, StatusJustified
    <2> QED
      BY <2>1, <2>2, <2>3
  <1> QED
    BY <1>4, <1>5

(* ... and a status that is not set stays justified if the turn was awaiting  *)
(* neither a connection nor a motion, or what it leaves is remembered.       *)
LEMMA KeepRuntimes ==
  ASSUME Turns, Runtimes, NEW t \in Chats, status' = status,
         left' \subseteq Chats, left \subseteq left',
         NEW o \in Ops, op' = [op EXCEPT ![t] = o],
         NEW q \in Chats, on' = [on EXCEPT ![t] = q],
         op[t] \in {"connect", "move", "go"} => on[t] \in left',
         adapter' \subseteq Chats
  PROVE  Runtimes'
  <1>1. \A u \in Chats \ {t} : op'[u] = op[u] /\ on'[u] = on[u]
    BY DEF Turns
  <1>2. SUFFICES ASSUME NEW u \in Chats, u \notin left'
                 PROVE  /\ status[u] = "connecting" =>
                             \E w \in Chats : on'[w] = u /\ op'[w] \in {"connect", "move"}
                        /\ status[u] = "busy" => \E w \in Chats : on'[w] = u /\ op'[w] = "go"
    BY DEF Runtimes, StatusJustified
  <1>3. ASSUME NEW w \in Chats, on[w] = u, op[w] \in {"connect", "move", "go"}
        PROVE  on'[w] = u /\ op'[w] = op[w]
    BY <1>1, <1>2, <1>3
  <1>4. /\ status[u] = "connecting" =>
             \E w \in Chats : on[w] = u /\ op[w] \in {"connect", "move"}
        /\ status[u] = "busy" => \E w \in Chats : on[w] = u /\ op[w] = "go"
    BY <1>2 DEF Runtimes, StatusJustified
  <1> QED
    BY <1>3, <1>4

(* A turn that is not waiting, and goes on so.                               *)
LEMMA NotWaiting ==
  ASSUME Turns, NEW t \in Chats
  PROVE  /\ op[t] \in Ops /\ op = [op EXCEPT ![t] = op[t]]
         /\ on[t] \in Chats /\ on = [on EXCEPT ![t] = on[t]]
  BY DEF Turns

(* The calibration flows, where a step leaves them alone, ...                *)
LEMMA FlowsKept ==
  ASSUME Flows, UNCHANGED <<driver, pending>>
  PROVE  Flows'
  BY DEF Flows, driver, FlowReachable, StreamCut

(* ... and where it changes that of chat s.                                  *)
LEMMA FlowStep ==
  ASSUME Flows, NEW s \in Chats,
         NEW f \in {"none", "mid", "stream"}, flow' = [flow EXCEPT ![s] = f],
         NEW e \in Streams, stream' = [stream EXCEPT ![s] = e],
         pending' \subseteq Chats, pending \ {s} \subseteq pending', f # "none" => s \in pending',
         cut' \subseteq Chats, cut \ {s} \subseteq cut', e = "cancelled" => s \in cut'
  PROVE  Flows'
  <1>1. /\ flow'[s] = f /\ stream'[s] = e
        /\ \A u \in Chats \ {s} : flow'[u] = flow[u] /\ stream'[u] = stream[u]
        /\ flow' \in [Chats -> {"none", "mid", "stream"}] /\ stream' \in [Chats -> Streams]
    BY DEF Flows
  <1>2. FlowReachable'
    BY <1>1 DEF Flows, FlowReachable
  <1>3. StreamCut'
    BY <1>1 DEF Flows, StreamCut
  <1> QED
    BY <1>1, <1>2, <1>3 DEF Flows

(* The server and the last motion: untouched, ...                            *)
LEMMA ServerKept ==
  ASSUME Server, UNCHANGED <<onboarded, file, arm, last>>
  PROVE  Server'
  BY DEF Server, Calibrated, MotionCalibrated

(* ... or after a call that was answered, or may have been.                  *)
LEMMA ServerStep ==
  ASSUME Server, UNCHANGED <<onboarded, file>>, arm' \in Arms, Calibrated(arm'),
         last' = last \/ (arm.up /\ Moved(arm))
  PROVE  Server'
  BY MotionByServer DEF Server, Calibrated, MotionCalibrated

-----------------------------------------------------------------------------
(* The steps.                                                               *)

(* A turn begins or ends, ...                                                *)
LEMMA TurnSteps ==
  ASSUME Inv, NEW t \in Chats, BeginTurn(t) \/ EndTurn(t)
  PROVE  Inv'
  <1> USE DEF Inv
  <1>1. UNCHANGED <<driver, pending, onboarded, file, arm, last>>
    BY DEF BeginTurn, EndTurn
  <1>2. Flows' /\ Server'
    BY <1>1, FlowsKept, ServerKept
  <1>3. CASE BeginTurn(t)
    <2>1. Turns'
      BY <1>3 DEF BeginTurn, Turns, Bind
    <2>2. Runtimes'
      BY <1>3 DEF BeginTurn, runtime, Runtimes, StatusJustified
    <2> QED
      BY <1>2, <2>1, <2>2
  <1>4. CASE EndTurn(t)
    <2>1. /\ Leave(t) /\ op[t] = "none" /\ status' = status /\ left' = left /\ adapter' = adapter
          /\ op' = [op EXCEPT ![t] = "none"] /\ on' = [on EXCEPT ![t] = t] /\ "none" \in Ops
      BY <1>4 DEF EndTurn, runtime, Leave, Ops
    <2>2. Turns'
      BY <2>1, LeaveTurns
    <2>3. left' \subseteq Chats /\ adapter' \subseteq Chats
      BY <2>1 DEF Runtimes
    <2>4. Runtimes'
      BY <2>1, <2>3, KeepRuntimes
    <2> QED
      BY <1>2, <2>2, <2>4
  <1> QED
    BY <1>3, <1>4

(* ... calls the embodied tool for something other than a calibration, ...   *)
LEMMA ToolSteps ==
  ASSUME Inv, NEW t \in Chats, NEW r \in Chats,
         \/ Refused(t, r) \/ BeginMove(t, r) \/ BeginReset(t, r) \/ Debug(t, r)
         \/ BeginCalibrate(t, r) \/ \E o \in {"connect", "move"} : BeginConnect(t, r, o)
  PROVE  Inv'
  <1> USE DEF Inv
  <1>1. /\ UNCHANGED <<driver, pending, onboarded, file, arm, last>> /\ op[t] = "none"
        /\ t \in turns
        /\ adapter' \subseteq Chats /\ left \subseteq Chats
    BY DEF Refused, BeginMove, BeginReset, Debug, BeginCalibrate, BeginConnect, MayUseTool,
           Runtimes, runtime
  <1>2. Flows' /\ Server'
    BY <1>1, FlowsKept, ServerKept
  <1>3. /\ "none" \in Ops /\ "connect" \in Ops /\ "move" \in Ops /\ "go" \in Ops
        /\ "reset" \in Ops /\ "detach" \in Ops
        /\ "error" \in Statuses /\ "ready" \in Statuses /\ "busy" \in Statuses
        /\ "connecting" \in Statuses
    BY DEF Ops, Statuses
  <1>4. CASE Refused(t, r) \/ Debug(t, r)
    <2>1. PICK v \in {"ready", "error"} : Set(r, v)
      BY <1>4 DEF Refused, Debug
    <2>2. Turns' /\ op' = op /\ on' = on
      BY <1>4 DEF Refused, Debug, turn, Turns
    <2>3. Runtimes'
      BY <1>1, <1>3, <2>1, <2>2, NotWaiting, SetRuntimes
    <2> QED
      BY <1>2, <2>2, <2>3
  <1>5. CASE BeginMove(t, r) \/ \E o \in {"connect", "move"} : BeginConnect(t, r, o)
    <2>1. PICK o \in {"connect", "move", "go"} :
            Await(t, o, r) /\ Set(r, IF o = "go" THEN "busy" ELSE "connecting")
      BY <1>5 DEF BeginMove, BeginConnect
    <2>2. /\ o \in Ops /\ Turns'
          /\ op' = [op EXCEPT ![t] = o] /\ on' = [on EXCEPT ![t] = r]
      BY <1>1, <1>3, <2>1, AwaitTurns DEF Await
    <2>3. PICK v \in {"busy", "connecting"} :
            /\ Set(r, v) /\ (v = "busy" => o = "go")
            /\ v = "connecting" => o \in {"connect", "move"}
      BY <2>1
    <2>4. Runtimes'
      BY <1>1, <1>3, <2>2, <2>3, SetRuntimes
    <2> QED
      BY <1>2, <2>2, <2>4
  <1>6. CASE BeginReset(t, r) \/ BeginCalibrate(t, r)
    <2>1. PICK o \in {"reset", "detach"} : Await(t, o, r)
      BY <1>6 DEF BeginReset, BeginCalibrate
    <2>2. /\ o \in Ops /\ Turns'
          /\ op' = [op EXCEPT ![t] = o] /\ on' = [on EXCEPT ![t] = r]
      BY <1>1, <1>3, <2>1, AwaitTurns DEF Await
    <2>3. status' = status /\ left' = left
      BY <1>6 DEF BeginReset, BeginCalibrate, runtime
    <2>4. Runtimes'
      BY <1>1, <2>2, <2>3, KeepRuntimes
    <2> QED
      BY <1>2, <2>2, <2>4
  <1> QED
    BY <1>4, <1>5, <1>6

(* ... and is answered.                                                      *)
LEMMA AnswerSteps ==
  ASSUME Inv, NEW t \in Chats,
         ConnectDone(t) \/ ConnectFails(t) \/ MotionDone(t) \/ MotionFails(t)
  PROVE  Inv'
  <1> USE DEF Inv
  <1>1. /\ UNCHANGED <<driver, pending, onboarded, file>> /\ adapter' = adapter
        /\ adapter \subseteq Chats /\ op[t] \in {"connect", "move", "go", "reset"}
        /\ on[t] \in Chats /\ t \in turns
    BY DEF ConnectDone, ConnectFails, MotionDone, MotionFails, Runtimes, Turns
  <1>2. Flows'
    BY <1>1, FlowsKept
  <1>3. Server'
    <2>1. arm \in Arms /\ Calibrated(arm)
      BY DEF Server
    <2>2. CASE ConnectDone(t) \/ ConnectFails(t)
      <3>1. PICK v \in {arm, Launched} : arm' \in Succeeded(v) \cup Failed(v)
        BY <2>2 DEF ConnectDone, ConnectFails
      <3>2. arm' \in Arms /\ Calibrated(arm')
        BY <3>1, ConnectKeepsServer
      <3>3. last' = last
        BY <2>2 DEF ConnectDone, ConnectFails
      <3> QED
        BY <1>1, <3>2, <3>3, ServerStep
    <2>3. CASE MotionDone(t) \/ MotionFails(t)
      <3>1. arm' \in Succeeded(arm) \cup Failed(arm)
        BY <2>3 DEF MotionDone, MotionFails
      <3>2. arm' \in Arms /\ Calibrated(arm')
        BY <2>1, <3>1, CallKeepsServer
      <3>3. last' = last \/ (arm.up /\ Moved(arm))
        BY <2>3 DEF MotionDone, MotionFails, Succeeded
      <3> QED
        BY <1>1, <3>2, <3>3, ServerStep
    <2> QED
      BY <2>2, <2>3
  <1>4. PICK v \in {"ready", "busy", "error"}, o \in {"none", "go"}, q \in Chats :
          /\ Set(on[t], v) /\ (v = "busy" => o = "go" /\ q = on[t])
          /\ op' = [op EXCEPT ![t] = o] /\ on' = [on EXCEPT ![t] = q]
          /\ UNCHANGED <<turns, bound>>
    <2>1. \/ Set(on[t], "ready") /\ Done(t)
          \/ Set(on[t], "error") /\ Done(t)
          \/ Set(on[t], "busy") /\ Await(t, "go", on[t])
          \/ op[t] = "go" /\ Set(on[t], "busy") /\ UNCHANGED turn
      BY DEF ConnectDone, ConnectFails, MotionDone, MotionFails
    <2>2. CASE \/ Set(on[t], "ready") /\ Done(t)
               \/ Set(on[t], "error") /\ Done(t)
      <3>1. PICK v \in {"ready", "error"} : Set(on[t], v)
        BY <2>2
      <3>2. /\ op' = [op EXCEPT ![t] = "none"] /\ on' = [on EXCEPT ![t] = t]
            /\ UNCHANGED <<turns, bound>>
        BY <2>2 DEF Done, Await
      <3> QED
        BY <1>1, <3>1, <3>2
    <2>3. CASE Set(on[t], "busy") /\ Await(t, "go", on[t])
      BY <1>1, <2>3 DEF Await
    <2>4. CASE op[t] = "go" /\ Set(on[t], "busy") /\ UNCHANGED turn
      BY <1>1, <2>4, NotWaiting DEF turn
    <2> QED
      BY <2>1, <2>2, <2>3, <2>4
  <1>5. /\ v \in Statuses /\ o \in Ops
        /\ v # "connecting"
    BY DEF Statuses, Ops
  <1>6. Turns'
    BY <1>1, <1>4, <1>5 DEF Turns
  <1>7. Runtimes'
    BY <1>1, <1>4, <1>5, SetRuntimes
  <1> QED
    BY <1>2, <1>3, <1>6, <1>7

(* The beginning of a calibration of runtime r by turn t: a flow of the driver *)
(* is alive only if the session has been told.                               *)
LEMMA BeginStep ==
  ASSUME Inv, NEW t \in Chats, NEW r \in Chats, NEW v \in {arm, [arm EXCEPT !.open = FALSE]},
         Begin(r, v), op[t] \in {"none", "detach"}, Turns',
         NEW o \in Ops, op' = [op EXCEPT ![t] = o],
         NEW q \in Chats, on' = [on EXCEPT ![t] = q],
         UNCHANGED <<adapter, onboarded, file, last>>
  PROVE  Inv'
  <1> USE DEF Inv
  <1>1. Server'
    <2>1. v \in Arms /\ Calibrated(v) /\ arm' = v
      BY DetachKeepsServer DEF Begin
    <2> QED
      BY <2>1, ServerStep
  <1>2. Runtimes'
    <2>1. adapter' \subseteq Chats /\ left \subseteq Chats
      BY DEF Runtimes
    <2>2. CASE UNCHANGED <<status, left>>
      BY <2>1, <2>2, KeepRuntimes
    <2>3. ASSUME NEW w \in {"disconnected", "error"}, Set(r, w)
          PROVE  Runtimes'
      <3>1. w \in Statuses
        BY DEF Statuses
      <3> QED
        BY <2>1, <2>3, <3>1, SetRuntimes
    <2> QED
      BY <2>2, <2>3 DEF Begin
  <1>3. Flows'
    <2>1. /\ flow[r] \in {"none", "mid", "stream"} /\ flow = [flow EXCEPT ![r] = flow[r]]
          /\ stream[r] \in Streams /\ stream = [stream EXCEPT ![r] = stream[r]]
          /\ cut \subseteq Chats /\ pending \subseteq Chats
          /\ stream[r] = "cancelled" => r \in cut
      BY DEF Flows, StreamCut
    <2>2. PICK f \in {"none", "mid", "stream"} :
            flow' = [flow EXCEPT ![r] = f] /\ (f # "none" => r \in pending')
      BY <2>1 DEF Begin, driver
    <2>3. /\ stream' = stream /\ cut' = cut
          /\ pending' \subseteq Chats /\ pending \ {r} \subseteq pending'
      BY <2>1 DEF Begin, driver
    <2> QED
      BY <2>1, <2>2, <2>3, FlowStep
  <1> QED
    BY <1>1, <1>2, <1>3

LEMMA CalibrateSteps ==
  ASSUME Inv, NEW t \in Chats, NEW r \in Chats, Calibrate(t, r) \/ Detached(t)
  PROVE  Inv'
  <1>1. CASE Calibrate(t, r)
    <2>1. /\ Begin(r, arm) /\ op[t] = "none" /\ Turns' /\ op' = op /\ on' = on
          /\ UNCHANGED <<adapter, onboarded, file, last>>
      BY <1>1 DEF Calibrate, MayUseTool, turn, Turns, Inv
    <2> QED
      BY <2>1, NotWaiting, BeginStep DEF Inv
  <1>2. CASE Detached(t)
    <2>1. /\ op[t] = "detach" /\ Await(t, "none", t) /\ "none" \in Ops
          /\ UNCHANGED <<adapter, onboarded, file, last>>
      BY <1>2 DEF Detached, Done, Ops
    <2>2. PICK v \in {arm, [arm EXCEPT !.open = FALSE]} : Begin(on[t], v)
      BY <1>2 DEF Detached
    <2>3. Turns' /\ on[t] \in Chats
      BY <2>1, AwaitTurns DEF Inv, Turns
    <2> QED
      BY <2>1, <2>2, <2>3, BeginStep DEF Await
  <1> QED
    BY <1>1, <1>2

(* The messages that go to the flow, ...                                     *)
LEMMA EnterSteps ==
  ASSUME Inv, NEW s \in Chats, Enter(s)
  PROVE  Inv'
  <1> USE DEF Inv
  <1>1. /\ s \in pending /\ UNCHANGED <<onboarded, file, arm, last>> /\ adapter' = adapter
    BY DEF Enter, EnterExpired, EnterStart, EnterFinish, runtime
  <1>2. Server'
    BY <1>1, ServerKept
  <1>3. /\ flow[s] \in {"none", "mid", "stream"} /\ flow = [flow EXCEPT ![s] = flow[s]]
        /\ stream[s] \in Streams /\ stream = [stream EXCEPT ![s] = stream[s]]
        /\ cut \subseteq Chats /\ pending \subseteq Chats /\ adapter' \subseteq Chats
        /\ left \subseteq Chats /\ (stream[s] = "cancelled" => s \in cut)
        /\ s \in Chats /\ "none" \in Ops /\ "finish" \in Ops
        /\ "disconnected" \in Statuses /\ "error" \in Statuses
    BY <1>1 DEF Flows, StreamCut, Runtimes, Ops, Statuses
  <1>4. CASE EnterExpired(s)
    <2>1. /\ flow[s] = "none" /\ UNCHANGED driver /\ pending' = pending \ {s} /\ cut' = cut
      BY <1>4 DEF EnterExpired, driver
    <2>2. Flows'
      BY <1>3, <2>1, FlowStep DEF driver
    <2>3. Turns' /\ Runtimes'
      BY <1>4 DEF EnterExpired, Turns, Bind, runtime, Runtimes, StatusJustified
    <2> QED
      BY <1>2, <2>2, <2>3
  <1>5. CASE EnterStart(s)
    <2>1. /\ Turns' /\ op' = op /\ on' = on /\ cut' = cut /\ op[s] = "none"
      BY <1>5 DEF EnterStart, MayCome, Turns, Bind
    <2>2. PICK f \in {"none", "stream"}, e \in {"run", stream[s]} :
            /\ flow' = [flow EXCEPT ![s] = f] /\ stream' = [stream EXCEPT ![s] = e]
            /\ pending' = IF f = "none" THEN pending \ {s} ELSE pending
      BY <1>3, <1>5 DEF EnterStart
    <2>3. e \in Streams /\ (e = "cancelled" => s \in cut')
      BY <1>3, <2>1 DEF Streams
    <2>4. Flows'
      BY <1>1, <1>3, <2>1, <2>2, <2>3, FlowStep
    <2>5. PICK v \in {"disconnected", "error"} : Set(s, v)
      BY <1>5 DEF EnterStart
    <2>6. Runtimes'
      BY <1>3, <2>1, <2>5, NotWaiting, SetRuntimes
    <2> QED
      BY <1>2, <2>1, <2>4, <2>6
  <1>6. CASE EnterFinish(s)
    <2>1. /\ op[s] = "none" /\ turns' = turns \cup {s} /\ bound' \in {NoChat, s}
          /\ op' = [op EXCEPT ![s] = "finish"] /\ on' = [on EXCEPT ![s] = s]
      BY <1>6 DEF EnterFinish, AwaitFinish, MayCome, Turns, Bind
    <2>2. Turns'
      BY <1>3, <2>1 DEF Turns
    <2>3. status' = status /\ left' = left /\ flow' = flow /\ cut' = cut /\ pending' = pending
      BY <1>6 DEF EnterFinish, runtime
    <2>4. Runtimes'
      BY <1>3, <2>1, <2>3, KeepRuntimes
    <2>5. PICK e \in {"stopping", stream[s]} : stream' = [stream EXCEPT ![s] = e]
      BY <1>6 DEF EnterFinish
    <2>6. e \in Streams /\ (e = "cancelled" => s \in cut')
      BY <1>3, <2>3, <2>5 DEF Streams
    <2>7. Flows'
      BY <1>1, <1>3, <2>3, <2>5, <2>6, FlowStep
    <2> QED
      BY <1>2, <2>2, <2>4, <2>7
  <1> QED
    BY <1>4, <1>5, <1>6 DEF Enter

(* ... the task that samples the joints, ...                                  *)
LEMMA StreamSteps ==
  ASSUME Inv, NEW s \in Chats, StreamEnds(s) \/ StreamGivesUp(s)
  PROVE  Inv'
  <1> USE DEF Inv
  <1>1. PICK e \in {"over", "failed"} : stream' = [stream EXCEPT ![s] = e]
    BY DEF StreamEnds, StreamGivesUp
  <1>2. UNCHANGED <<runtime, turn, flow, cut, pending, onboarded, file, arm, last>>
    BY DEF StreamEnds, StreamGivesUp
  <1>3. /\ e \in Streams /\ e # "cancelled"
        /\ flow[s] \in {"none", "mid", "stream"} /\ flow' = [flow EXCEPT ![s] = flow[s]]
        /\ cut' \subseteq Chats /\ pending' \subseteq Chats /\ (flow[s] # "none" => s \in pending')
    BY <1>2 DEF Streams, Flows, FlowReachable
  <1>4. Flows'
    BY <1>1, <1>2, <1>3, FlowStep
  <1>5. Turns' /\ Runtimes'
    BY <1>2 DEF runtime, turn, Turns, Runtimes, StatusJustified
  <1> QED
    BY <1>2, <1>4, <1>5, ServerKept

(* ... and the end of the flow.                                              *)
LEMMA FinishSteps ==
  ASSUME Inv, NEW s \in Chats, Finish(s)
  PROVE  Inv'
  <1> USE DEF Inv
  <1>1. /\ op[s] = "finish" /\ Leave(s) /\ "none" \in Ops /\ adapter' = adapter
        /\ op' = [op EXCEPT ![s] = "none"] /\ on' = [on EXCEPT ![s] = s]
        /\ arm' = arm /\ last' = last /\ adapter' \subseteq Chats /\ left \subseteq Chats
    BY DEF Finish, Save, SaveFails, Swallowed, EndFlow, Leave, Ops, runtime, Runtimes
  <1>2. Turns'
    BY <1>1, LeaveTurns
  <1>3. Server'
    <2>1. onboarded' \in BOOLEAN /\ file' \in {file, file + 1}
      BY DEF Finish, Save, SaveFails, Swallowed, Server
    <2> QED
      BY <1>1, <2>1 DEF Server, Arms, Calibrated, MotionCalibrated
  <1>4. CASE Save(s) \/ SaveFails(s)
    <2>1. PICK v \in {"disconnected", "error"} : Set(s, v)
      BY <1>4 DEF Save, SaveFails
    <2>2. v \in Statuses
      BY DEF Statuses
    <2>3. Runtimes'
      BY <1>1, <2>1, <2>2, SetRuntimes
    <2>4. EndFlow(s) /\ "none" \in Streams
      BY <1>4 DEF Save, SaveFails, Streams
    <2>5. Flows'
      BY <2>4, FlowStep DEF EndFlow, Flows
    <2> QED
      BY <1>2, <1>3, <2>3, <2>5
  <1>5. CASE Swallowed(s)
    <2>1. status' = status /\ left' = left /\ UNCHANGED <<driver, pending>>
      BY <1>5 DEF Swallowed, runtime
    <2>2. Runtimes'
      BY <1>1, <2>1, KeepRuntimes
    <2> QED
      BY <1>2, <1>3, <2>1, <2>2, FlowsKept
  <1> QED
    BY <1>4, <1>5 DEF Finish

(* A cancellation ends what the turn awaits, and the status of the runtime may *)
(* stay behind: it is then one of those that were left.                       *)
LEMMA StopStep ==
  ASSUME Inv, NEW t \in Chats, Stop(t)
  PROVE  Inv'
  <1> USE DEF Inv
  <1>1. /\ Leave(t) /\ op' = [op EXCEPT ![t] = "none"] /\ on' = [on EXCEPT ![t] = t]
        /\ "none" \in Ops /\ on[t] \in Chats /\ left \subseteq Chats /\ adapter \subseteq Chats
    BY DEF Stop, Leave, Ops, Turns, Runtimes
  <1>2. /\ left' = IF op[t] \in {"connect", "move", "go"} THEN left \cup {on[t]} ELSE left
        /\ cut' = IF op[t] = "finish" THEN cut \cup {t} ELSE cut
        /\ UNCHANGED <<status, adapter, flow, pending, onboarded, file>>
    BY DEF Stop
  <1>3. Turns'
    BY <1>1, LeaveTurns
  <1>4. Runtimes'
    BY <1>1, <1>2, KeepRuntimes
  <1>5. Flows'
    <2>1. /\ flow[t] \in {"none", "mid", "stream"} /\ flow' = [flow EXCEPT ![t] = flow[t]]
          /\ stream[t] \in Streams /\ cut' \subseteq Chats /\ cut \subseteq cut'
          /\ pending' \subseteq Chats /\ (flow[t] # "none" => t \in pending')
          /\ (stream[t] = "cancelled" => t \in cut)
      BY <1>2 DEF Flows, FlowReachable, StreamCut
    <2>2. PICK e \in {stream[t], "cancelled"} :
            stream' = [stream EXCEPT ![t] = e] /\ (e # stream[t] => op[t] = "finish")
      BY <2>1 DEF Stop
    <2>3. e \in Streams /\ (e = "cancelled" => t \in cut')
      BY <1>2, <2>1, <2>2 DEF Streams
    <2> QED
      BY <1>2, <2>1, <2>2, <2>3, FlowStep
  <1>6. Server'
    <2>1. arm' \in Arms /\ Calibrated(arm')
      BY AbandonedKeepsServer DEF Stop
    <2>2. last' = last \/ (arm.up /\ Moved(arm))
      BY DEF Stop
    <2> QED
      BY <1>2, <2>1, <2>2, ServerStep
  <1> QED
    BY <1>3, <1>4, <1>5, <1>6

(* The end of the agent's process, or of the server's.                       *)
LEMMA CrashSteps ==
  ASSUME Inv, Crash \/ ServerEnds
  PROVE  Inv'
  <1> USE DEF Inv
  <1>1. CASE Crash
    <2>1. Turns'
      BY <1>1 DEF Crash, Turns, Ops
    <2>2. Runtimes'
      BY <1>1 DEF Crash, Runtimes, StatusJustified, Statuses
    <2>3. Flows'
      BY <1>1 DEF Crash, Flows, FlowReachable, StreamCut, Streams
    <2> QED
      BY <1>1, <2>1, <2>2, <2>3, ServerKept DEF Crash
  <1>2. CASE ServerEnds
    <2>1. arm' = [up |-> FALSE, cal |-> 0, open |-> FALSE]
      BY <1>2 DEF ServerEnds, Server, Arms
    <2>2. arm' \in Arms /\ Calibrated(arm')
      BY <2>1 DEF Arms, Calibrated
    <2>3. UNCHANGED <<runtime, turn, driver, pending, onboarded, file, last>>
      BY <1>2 DEF ServerEnds
    <2>4. Server' /\ Flows'
      BY <2>2, <2>3, ServerStep, FlowsKept
    <2>5. Turns' /\ Runtimes'
      BY <2>3 DEF runtime, turn, Turns, Runtimes, StatusJustified
    <2> QED
      BY <2>4, <2>5
  <1> QED
    BY <1>1, <1>2

-----------------------------------------------------------------------------
(* The invariant holds initially, ...                                        *)
LEMMA InitInv == Init => Inv
  <1> SUFFICES ASSUME Init PROVE Inv
    OBVIOUS
  <1>1. Turns
    BY DEF Init, Turns, Ops
  <1>2. Runtimes
    BY DEF Init, Runtimes, StatusJustified, Statuses
  <1>3. Flows
    BY DEF Init, Flows, FlowReachable, StreamCut, Streams
  <1>4. Server
    BY DEF Init, Server, Arms, Calibrated, MotionCalibrated
  <1> QED
    BY <1>1, <1>2, <1>3, <1>4 DEF Inv

(* ... and every step keeps it.                                              *)
LEMMA NextInv == Inv /\ [Next]_vars => Inv'
  <1> SUFFICES ASSUME Inv, [Next]_vars PROVE Inv'
    OBVIOUS
  <1>1. CASE UNCHANGED vars
    <2>1. Flows' /\ Server'
      BY <1>1, FlowsKept, ServerKept DEF vars, Inv
    <2>2. Turns' /\ Runtimes'
      BY <1>1 DEF vars, runtime, turn, Inv, Turns, Runtimes, StatusJustified
    <2> QED
      BY <2>1, <2>2 DEF Inv
  <1>2. ASSUME NEW t \in Chats, NEW r \in Chats, Tool(t, r) PROVE Inv'
    BY <1>2, ToolSteps, CalibrateSteps DEF Tool
  <1>3. ASSUME NEW t \in Chats, BeginTurn(t) \/ EndTurn(t) \/ Enter(t) PROVE Inv'
    BY <1>3, TurnSteps, EnterSteps
  <1>4. ASSUME NEW t \in Chats, Answer(t) PROVE Inv'
    BY <1>4, AnswerSteps, CalibrateSteps, FinishSteps DEF Answer
  <1>5. ASSUME NEW t \in Chats, StreamEnds(t) \/ StreamGivesUp(t) \/ Stop(t) PROVE Inv'
    BY <1>5, StreamSteps, StopStep
  <1>6. CASE Crash \/ ServerEnds
    BY <1>6, CrashSteps
  <1> QED
    BY <1>1, <1>2, <1>3, <1>4, <1>5, <1>6 DEF Next

(* Every variable keeps its type, ...                                        *)
THEOREM TypeCorrect == Spec => []TypeOK
  <1>1. Inv => TypeOK
    BY DEF Inv, Turns, Runtimes, Flows, Server, Arms, TypeOK
  <1> QED
    BY <1>1, InitInv, NextInv, PTL DEF Spec

(* ... the arm is moved only by a server that has a calibration, whatever the *)
(* chats, the crashes and the /stops do to the status of the runtimes, ...    *)
THEOREM OnlyCalibratedMotion == Spec => []MotionCalibrated
  <1>1. Inv => MotionCalibrated
    BY DEF Inv, Server
  <1> QED
    BY <1>1, InitInv, NextInv, PTL DEF Spec

(* ... a calibration flow that is alive is always the one its chat talks to,  *)
THEOREM FlowAlwaysReachable == Spec => []FlowReachable
  <1>1. Inv => FlowReachable
    BY DEF Inv, Flows
  <1> QED
    BY <1>1, InitInv, NextInv, PTL DEF Spec

(* ... and a runtime shows an operation only while some turn has one on it,   *)
(* whichever chat that turn is of, but for those that a cancellation has left *)
(* behind.                                                                    *)
THEOREM StatusAlwaysJustified == Spec => []StatusJustified
  <1>1. Inv => StatusJustified
    BY DEF Inv, Runtimes
  <1> QED
    BY <1>1, InitInv, NextInv, PTL DEF Spec

(* Only the end of a flow whose sampling ended well writes the calibration   *)
(* file, or marks the onboarding ready.                                      *)
THEOREM OnlyCompleteSaved == Spec => SavedOnlyComplete
  <1> DEFINE A == /\ file' # file => \E s \in Chats : /\ op[s] = "finish" /\ stream[s] = "over"
                                                      /\ flow'[s] = "none"
                  /\ onboarded' # onboarded => file' # file
  <1>1. Inv /\ [Next]_vars => [A]_vars
    <2> SUFFICES ASSUME Inv, Next PROVE A
      BY DEF vars
    <2>1. ASSUME NEW s \in Chats, Save(s) PROVE A
      <3>1. op[s] = "finish" /\ stream[s] = "over" /\ file' = file + 1 /\ file \in Nat /\ flow'[s] = "none"
        BY <2>1 DEF Save, EndFlow, Inv, Server, Flows
      <3> QED
        BY <3>1
    <2>2. CASE UNCHANGED <<file, onboarded>>
      BY <2>2
    <2>3. (\E s \in Chats : Save(s)) \/ UNCHANGED <<file, onboarded>>
      <3>1. ASSUME NEW t \in Chats, NEW r \in Chats, Tool(t, r) PROVE UNCHANGED <<file, onboarded>>
        BY <3>1 DEF Tool, Refused, BeginMove, BeginReset, Debug, BeginCalibrate, Calibrate, BeginConnect
      <3>2. ASSUME NEW s \in Chats, BeginTurn(s) \/ EndTurn(s) \/ Enter(s)
            PROVE  UNCHANGED <<file, onboarded>>
        BY <3>2 DEF BeginTurn, EndTurn, Enter, EnterExpired, EnterStart, EnterFinish
      <3>3. ASSUME NEW s \in Chats, Answer(s) PROVE Save(s) \/ UNCHANGED <<file, onboarded>>
        BY <3>3 DEF Answer, Finish, ConnectDone, ConnectFails, MotionDone, MotionFails, Detached,
                    SaveFails, Swallowed
      <3>4. ASSUME NEW s \in Chats, StreamEnds(s) \/ StreamGivesUp(s) \/ Stop(s)
            PROVE  UNCHANGED <<file, onboarded>>
        BY <3>4 DEF StreamEnds, StreamGivesUp, Stop
      <3>5. CASE Crash \/ ServerEnds
        BY <3>5 DEF Crash, ServerEnds
      <3> QED
        BY <3>1, <3>2, <3>3, <3>4, <3>5 DEF Next
    <2> QED
      BY <2>1, <2>2, <2>3
  <1> QED
    BY <1>1, InitInv, NextInv, PTL DEF Spec, SavedOnlyComplete

(* A message is left without an answer only where a /stop has cut the end of  *)
(* a calibration.                                                            *)
THEOREM OnlyCutUnanswered == Spec => AnsweredUnlessCut
  <1> DEFINE Ends(s) == op[s] = "finish" /\ op'[s] # "finish" => flow'[s] = "none" \/ s \in cut'
             A == \A s \in Chats : Ends(s)
  <1>1. Inv /\ [Next]_vars => [A]_vars
    <2> SUFFICES ASSUME Inv, Next, NEW s \in Chats, op[s] = "finish", op'[s] # "finish"
                 PROVE  flow'[s] = "none" \/ s \in cut'
      BY DEF vars
    <2> USE DEF Inv, Turns
    <2>2. ASSUME NEW t \in Chats, NEW r \in Chats, Tool(t, r) PROVE FALSE
      BY <2>2 DEF Tool, MayUseTool, Refused, BeginMove, BeginReset, Debug, BeginCalibrate,
                        Calibrate, BeginConnect, Await, turn
    <2>3. ASSUME NEW t \in Chats, BeginTurn(t) \/ EndTurn(t) \/ Enter(t) PROVE FALSE
      BY <2>3 DEF BeginTurn, EndTurn, Leave, Enter, EnterExpired, EnterStart, EnterFinish,
                  AwaitFinish, MayCome
    <2>4. ASSUME NEW t \in Chats, \/ ConnectDone(t) \/ ConnectFails(t) \/ MotionDone(t)
                                  \/ MotionFails(t) \/ Detached(t)
          PROVE  FALSE
      BY <2>4 DEF ConnectDone, ConnectFails, MotionDone, MotionFails, Detached, Done, Await, turn
    <2>5. ASSUME NEW t \in Chats, Finish(t) PROVE flow'[s] = "none" \/ s \in cut'
      <3>1. t = s
        BY <2>5 DEF Finish, Save, SaveFails, Swallowed, EndFlow, Leave
      <3>2. CASE Save(s) \/ SaveFails(s)
        BY <3>2 DEF Save, SaveFails, EndFlow, Flows
      <3>3. CASE Swallowed(s)
        BY <3>3 DEF Swallowed, driver, Flows, StreamCut
      <3> QED
        BY <2>5, <3>1, <3>2, <3>3 DEF Finish
    <2>6. ASSUME NEW t \in Chats, Stop(t) PROVE s \in cut'
      BY <2>6 DEF Stop, Leave
    <2>7. ASSUME NEW t \in Chats, StreamEnds(t) \/ StreamGivesUp(t) PROVE FALSE
      BY <2>7 DEF StreamEnds, StreamGivesUp, turn
    <2>8. CASE Crash
      BY <2>8 DEF Crash
    <2>9. CASE ServerEnds
      BY <2>9 DEF ServerEnds, turn
    <2> QED
      BY <2>2, <2>3, <2>4, <2>5, <2>6, <2>7, <2>8, <2>9 DEF Next, Answer
  <1> QED
    BY <1>1, InitInv, NextInv, PTL DEF Spec, AnsweredUnlessCut
=============================================================================
