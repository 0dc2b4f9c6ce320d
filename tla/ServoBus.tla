-------------------------------- MODULE ServoBus --------------------------------
(***************************************************************************)
(* The wire to the servos of an SO101 arm and the two processes that use   *)
(* it: the control surface (ros2/control_surface.py over So101FeetechRuntime *)
(* in ros2/so101_feetech.py), a server that handles one call at a time, and *)
(* the agent, whose calibration monitor opens the same serial port         *)
(* (So101CalibrationMonitor over ros2/scservo.py, driven by                *)
(* builtins/so101.py).                                                     *)
(*                                                                         *)
(* A step is what is done to one servo. What matters of a servo's registers*)
(* is its frame, that is whose homing offset and limits it holds, and its  *)
(* torque. ArmSetup is the same system at the level of whole calls.        *)
(***************************************************************************)
EXTENDS Integers, SequencesExt

CONSTANTS Order,    \* the servos in the order of the loops, the gripper last
          MaxCalls, \* bound: calls handled
          MaxFaults,\* bound: packets garbled, errors of a servo, power cycles
          MaxRuns   \* bound: calibrations begun

ASSUME ServoAssumption ==
  /\ Order # <<>> /\ Order \in Seq(Range(Order))
  /\ MaxCalls \in Nat /\ MaxFaults \in Nat /\ MaxRuns \in Nat

VARIABLES
  servo,    \* the registers of each servo: frame and torque
  powered,  \* the arm has power
  server,   \* the control surface's process: "up" or "ended"
  port,     \* its serial port is open, which is what it takes for connected
  call,     \* the call it handles: its operation, the steps left, its second try
  detached, \* the call answered last is a disconnect
  mon,      \* the monitor: its stage, the servos left in it, those whose range it has,
            \* whether what it measured is sound, or why not is no fault of its own
  doubt,    \* the servos may have lost what the server wrote, and it cannot know
  astray,   \* a servo was sent somewhere without its calibration or its torque,
            \* and the server could have known
  unsound,  \* a calibration was exported that mixes two frames, though every servo
            \* had answered and the server had not interfered
  calls, faults, runs

host   == <<server, port, call, detached, calls>>
notes  == <<doubt, astray, unsound>>
vars   == <<servo, powered, host, mon, notes, faults, runs>>

Joints  == Range(Order)
Gripper == Last(Order)
Frames  == {"zero", "file", "new"}
Ops     == {"connect", "disconnect", "stop", "status", "recover", "grip", "home"}
Stages  == {"off", "prepare", "mid", "capture", "homing", "observe"}

\* A step of a call: what is done, and to which servo.
Do(what, j) == [do |-> what, joint |-> j]
ToEach(what, js) == [i \in DOMAIN js |-> Do(what, js[i])]
Connect    == Do("connect", Gripper)
Disconnect == Do("disconnect", Gripper)
Drop       == Do("drop", Gripper)      \* disconnect, whatever it raises
Snapshot   == Do("read", Gripper)      \* of an open port

\* _move_servo: the goal is written, and the position read until it is reached or
\* two seconds have passed.
Move(js) == [i \in 1..2 * Len(js) |-> Do(IF i % 2 = 1 THEN "goal" ELSE "read",
                                        js[(i + 1) \div 2])]

\* The handlers.
Plan(o) ==
  CASE o = "connect"    -> <<Connect, Snapshot>>
    [] o = "disconnect" -> <<Disconnect>>
    [] o = "recover"    -> <<Disconnect, Connect, Snapshot>>
    [] o = "grip"       -> <<Connect>> \o Move(<<Gripper>>) \o <<Snapshot>>
    [] o = "home"       -> <<Connect>> \o Move(Order) \o <<Snapshot>>
    [] OTHER            -> <<Snapshot>>

\* Those that go through _call_with_runtime_recovery.
Recovers == {"connect", "recover", "grip", "home"}

NoCall == [op |-> "none", todo |-> <<>>, again |-> FALSE]
NoMon  == [stage |-> "off", left |-> <<>>, seen |-> {}, sound |-> TRUE, excused |-> FALSE]
Configured(j) == servo[j] = [frame |-> "file", torque |-> TRUE]
-----------------------------------------------------------------------------
Init ==
  /\ servo = [j \in Joints |-> [frame |-> "zero", torque |-> FALSE]]
  /\ powered \in BOOLEAN
  /\ server = "up" /\ port = FALSE /\ call = NoCall /\ detached = FALSE
  /\ mon = NoMon
  /\ doubt = FALSE /\ astray = FALSE /\ unsound = FALSE
  /\ calls = 0 /\ faults = 0 /\ runs = 0

\* An access to a servo: it is answered if the arm has power. No status packet comes,
\* or one that is incorrect, without power, when the other process uses the wire,
\* or now and then; or the servo answers with an error of its own.
Answered == powered /\ UNCHANGED faults
Mute(shared) == \/ (~powered \/ shared) /\ UNCHANGED faults
                \/ powered /\ faults < MaxFaults /\ faults' = faults + 1
ServoError == powered /\ faults < MaxFaults /\ faults' = faults + 1
-----------------------------------------------------------------------------
(* The control surface.                                                    *)

\* A service is called, or the timer publishes the status of a connected runtime.
Call(o) ==
  /\ server = "up" /\ call = NoCall /\ calls < MaxCalls
  /\ call' = [op |-> o, todo |-> Plan(o), again |-> FALSE]
  /\ calls' = calls + 1
  /\ UNCHANGED <<servo, powered, server, port, detached, mon, notes, faults, runs>>

Now  == Head(call.todo)
Busy == call.todo # <<>>
Goes(rest) == call' = [call EXCEPT !.todo = rest]

\* A connection that is open is kept as it is, without a look at the servos; a port
\* that is closed gives a snapshot without a position, and nothing to disconnect.
NothingToDo ==
  /\ Busy
  /\ \/ Now.do = "connect" /\ port
     \/ Now.do \in {"read", "disconnect", "drop"} /\ ~port
  /\ Goes(Tail(call.todo))
  /\ UNCHANGED <<servo, powered, server, port, detached, mon, notes, calls, faults, runs>>

\* The port is taken for connected as soon as it is open; then every servo gets its
\* calibration.
OpenPort ==
  /\ Busy /\ Now.do = "connect" /\ ~port
  /\ port' = TRUE /\ doubt' = FALSE
  /\ Goes(ToEach("configure", Order) \o Tail(call.todo))
  /\ UNCHANGED <<servo, powered, server, detached, mon, astray, unsound, calls, faults, runs>>

\* What an access that is answered has done to the servos.
Written(s) ==
  CASE s.do = "configure" -> [servo EXCEPT ![s.joint] = [frame |-> "file", torque |-> TRUE]]
    [] s.do \in {"disconnect", "drop"} -> [servo EXCEPT ![s.joint].torque = FALSE]
    [] OTHER -> servo

\* What one that fails on the way may have done.
Half(s) ==
  CASE s.do = "configure" ->
         {servo} \cup {[servo EXCEPT ![s.joint] = [frame |-> f, torque |-> FALSE]] :
                         f \in {"file", servo[s.joint].frame}}
    [] s.do \in {"disconnect", "drop"} ->
         {servo, [servo EXCEPT ![s.joint].torque = FALSE]}
    [] OTHER -> {servo}

Touch(s) == mon' = [mon EXCEPT !.excused = @ \/ (s.do = "configure" /\ mon.stage # "off")]
Sent(s)  == astray' = (astray \/ (s.do = "goal" /\ ~Configured(s.joint) /\ ~doubt))

\* The port stays open when the write to the gripper fails.
MutClosed(s, failed) == IF s.do \in {"disconnect", "drop"} THEN failed ELSE port

\* disconnect closes the port in its finally.
Closed(s, failed) == IF s.do \in {"disconnect", "drop"} THEN FALSE ELSE port

OnWire == Busy /\ Now.do # "connect" /\ port

Access ==
  /\ OnWire /\ Answered
  /\ servo' = Written(Now) /\ port' = Closed(Now, FALSE)
  /\ Touch(Now) /\ Sent(Now)
  /\ Goes(Tail(call.todo))
  /\ UNCHANGED <<powered, server, detached, doubt, unsound, calls, runs>>

\* The second try begins on the connection that is there.
MutRecovery(o) == Plan(o)

\* _recover_runtime_locked, and the whole action again.
Recovery(o) == <<Drop, Connect>> \o Plan(o)

\* The answer is given, good or bad; the failed snapshot of stop is raised through
\* spin and ends the server, which closes the port on the way out.
Answer(failed) ==
  /\ call' = NoCall /\ detached' = (call.op = "disconnect")
  /\ IF failed /\ call.op = "stop" THEN server' = "ended" /\ port' = FALSE
     ELSE server' = server /\ port' = Closed(Now, TRUE)

\* It is tried again as often as it takes.
MutMayRetry == call.op \in Recovers

\* Only the action itself is tried again, and only once.
MayRetry == call.op \in Recovers /\ ~call.again

\* An error that is recoverable. Every other process that has the device open is
\* killed, and the agent is one during a calibration.
Retried ==
  /\ OnWire /\ Now.do # "drop" /\ MayRetry /\ Mute(mon.stage # "off")
  /\ servo' \in Half(Now) /\ port' = Closed(Now, TRUE)
  /\ Sent(Now)
  /\ mon' = NoMon
  /\ call' = [call EXCEPT !.todo = Recovery(call.op), !.again = TRUE]
  /\ doubt' = FALSE
  /\ UNCHANGED <<powered, server, detached, unsound, calls, runs>>

\* disconnect in the recovery: what it raises is dropped.
Dropped ==
  /\ OnWire /\ Now.do = "drop" /\ (Mute(mon.stage # "off") \/ ServoError)
  /\ servo' \in Half(Now) /\ port' = Closed(Now, TRUE)
  /\ Goes(Tail(call.todo))
  /\ UNCHANGED <<powered, server, detached, mon, notes, calls, runs>>

\* An error that is not, or the second one: the call fails. A connection that has
\* come halfway stays open.
Fails ==
  /\ OnWire /\ Now.do # "drop"
  /\ ServoError \/ (~MayRetry /\ Mute(mon.stage # "off"))
  /\ servo' \in Half(Now) /\ Touch(Now) /\ Sent(Now)
  /\ doubt' = (doubt \/ Now.do = "configure")
  /\ Answer(TRUE)
  /\ UNCHANGED <<powered, unsound, calls, runs>>

\* The device is gone, or cannot be opened.
OpenFails ==
  /\ Busy /\ Now.do = "connect" /\ ~port
  /\ faults < MaxFaults /\ faults' = faults + 1
  /\ Answer(TRUE)
  /\ UNCHANGED <<servo, powered, mon, notes, calls, runs>>

Succeeds ==
  /\ call # NoCall /\ ~Busy
  /\ call' = NoCall /\ detached' = (call.op = "disconnect")
  /\ UNCHANGED <<servo, powered, server, port, mon, notes, calls, faults, runs>>

Serve == \/ NothingToDo \/ OpenPort \/ Access \/ Retried \/ Dropped
         \/ Fails \/ OpenFails \/ Succeeds

\* The adapter launches another server.
Launch ==
  /\ server = "ended"
  /\ server' = "up" /\ detached' = FALSE
  /\ UNCHANGED <<servo, powered, port, call, mon, notes, calls, faults, runs>>
-----------------------------------------------------------------------------
(* The calibration monitor, in the agent's process.                        *)

Shared == call # NoCall /\ port
Stage(s, js) == mon' = [mon EXCEPT !.stage = s, !.left = js]
NextServo == [mon EXCEPT !.left = Tail(@)]
At(s) == mon.stage = s /\ mon.left # <<>>
Done(s) == mon.stage = s /\ mon.left = <<>>

\* begin: the monitor opens the port, whoever has it open already.
Begin ==
  /\ mon.stage = "off" /\ runs < MaxRuns /\ runs' = runs + 1
  /\ mon' = [NoMon EXCEPT !.stage = "prepare", !.left = Order]
  /\ UNCHANGED <<servo, powered, host, notes, faults>>

\* prepare_manual_calibration: a servo that does not answer is passed over.
Prepare ==
  LET j == Head(mon.left) IN
  /\ At("prepare")
  /\ \/ /\ Answered
        /\ servo' = [servo EXCEPT ![j] = [frame |-> "zero", torque |-> FALSE]]
        /\ mon' = NextServo
     \/ /\ Mute(Shared)
        /\ servo' \in {servo, [servo EXCEPT ![j].torque = FALSE]}
        /\ mon' = [NextServo EXCEPT !.excused = TRUE]
  /\ doubt' = (doubt \/ port)
  /\ UNCHANGED <<powered, host, astray, unsound, runs>>

Prepared ==
  /\ Done("prepare") /\ Stage("mid", <<>>)
  /\ UNCHANGED <<servo, powered, host, notes, faults, runs>>

\* Enter, with the arm in its middle pose: capture_mid_pose, ...
EnterMid ==
  /\ Done("mid") /\ Stage("capture", Order)
  /\ UNCHANGED <<servo, powered, host, notes, faults, runs>>

Capture ==
  LET j == Head(mon.left) IN
  /\ At("capture") /\ Answered
  /\ mon' = [NextServo EXCEPT !.sound = @ /\ servo[j].frame = "zero"]
  /\ UNCHANGED <<servo, powered, host, notes, runs>>

\* ... apply_half_turn_homings, ...
Captured ==
  /\ Done("capture") /\ Stage("homing", Order)
  /\ UNCHANGED <<servo, powered, host, notes, faults, runs>>

\* A servo that does not answer is passed over here as well.
MutHome ==
  LET j == Head(mon.left) IN
  /\ At("homing") /\ (Answered \/ Mute(Shared))
  /\ servo' \in {servo, [servo EXCEPT ![j].frame = "new"]}
  /\ mon' = NextServo /\ doubt' = (doubt \/ port)
  /\ UNCHANGED <<powered, host, astray, unsound, runs>>

Home ==
  LET j == Head(mon.left) IN
  /\ At("homing") /\ Answered
  /\ servo' = [servo EXCEPT ![j].frame = "new"]
  /\ mon' = NextServo /\ doubt' = (doubt \/ port)
  /\ UNCHANGED <<powered, host, astray, unsound, runs>>

\* ... and start_observation, which forgets what was observed before.
Observing ==
  /\ Done("homing")
  /\ mon' = [mon EXCEPT !.stage = "observe", !.left = Order, !.seen = {}]
  /\ UNCHANGED <<servo, powered, host, notes, faults, runs>>

\* snapshot_observed, again and again: a position that cannot be read is left out.
Observe ==
  LET j == Head(mon.left) IN
  /\ At("observe")
  /\ \/ Answered /\ mon' = [NextServo EXCEPT !.seen = @ \cup {j},
                                           !.sound = @ /\ servo[j].frame = "new"]
     \/ Mute(Shared) /\ mon' = NextServo
  /\ UNCHANGED <<servo, powered, host, notes, runs>>

ObserveAgain ==
  /\ Done("observe") /\ Stage("observe", Order)
  /\ UNCHANGED <<servo, powered, host, notes, faults, runs>>

\* An access that must be answered is not, or the samples are incomplete, or the
\* agent ends: the port is closed, and the servos stay as they are.
Abort ==
  /\ \/ mon.stage \in {"capture", "homing"} /\ At(mon.stage) /\ Mute(Shared)
     \/ mon.stage # "off" /\ UNCHANGED faults
  /\ mon' = NoMon
  /\ UNCHANGED <<servo, powered, host, notes, runs>>

\* Enter again: export_calibration_payload, for samples that are complete. The
\* offsets are sound if they were measured from zero, and the ranges with them.
Export ==
  /\ Done("observe") /\ mon.seen = Joints
  /\ unsound' = (unsound \/ ~(mon.sound \/ mon.excused))
  /\ mon' = NoMon
  /\ UNCHANGED <<servo, powered, host, doubt, astray, faults, runs>>

Monitor == \/ Begin \/ Prepare \/ Prepared \/ EnterMid \/ Capture \/ Captured \/ Home
           \/ Observing \/ Observe \/ ObserveAgain \/ Abort \/ Export
-----------------------------------------------------------------------------
\* The arm loses its power, and the torque with it, or gets it back.
PowerOff ==
  /\ powered /\ faults < MaxFaults /\ faults' = faults + 1
  /\ powered' = FALSE
  /\ servo' = [j \in Joints |-> [servo[j] EXCEPT !.torque = FALSE]]
  /\ doubt' = (doubt \/ port)
  /\ UNCHANGED <<host, mon, astray, unsound, runs>>

PowerOn ==
  /\ ~powered /\ powered' = TRUE
  /\ UNCHANGED <<servo, host, mon, notes, faults, runs>>

Next == \/ \E o \in Ops : Call(o)
        \/ Serve \/ Launch \/ Monitor \/ PowerOff \/ PowerOn

\* The executor of the server calls the handler, which awaits nothing but the wire.
Fairness == WF_vars(Serve)

Spec == Init /\ [][Next]_vars /\ Fairness
-----------------------------------------------------------------------------
(* Properties.                                                             *)

\* A goal is written only to a servo that holds its calibration and its torque. The
\* exception is what the server cannot know: a power cycle or a calibration while
\* the port is open, and a connect that failed halfway and left it open; but once an
\* error has led to the recovery, the second try starts from a full configuration
\* (control_surface.py:251-268, so101_feetech.py:100-117, 208-212).
MovedAsCalibrated == ~astray

\* After a disconnect that was answered, and after the end of the server, the port is
\* free for the monitor, whether or not the gripper could be told to let go
\* (so101_feetech.py:119-130, control_surface.py:105-115, 291-303).
PortGivenBack == call = NoCall /\ (detached \/ server = "ended") => ~port

\* A calibration that is saved was measured in one frame: the offsets from zero, the
\* ranges with all of the new offsets. The exceptions are a servo passed over by the
\* preparation, and a server that connected in the middle
\* (so101_feetech.py:354-400, 464-484; builtins/so101.py:422-436, 478-492).
SavedSound == ~unsound

\* Every call is answered or ends the server, with or without power and whoever is
\* on the wire: what is tried again is tried once (control_surface.py:258-268).
CallsEnd == call # NoCall ~> call = NoCall
=============================================================================
