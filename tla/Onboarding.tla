------------------------------ MODULE Onboarding ------------------------------
(***************************************************************************)
(* The onboarding conversation of one chat (embodied/onboarding/).  A      *)
(* message is applied to the saved SetupOnboardingState; StageHandler then *)
(* passes the state through its handlers, the last of which answers.  The  *)
(* handlers await tools that look at the machine and write the files of    *)
(* the setup, so an action is one handler, or the part of it between two   *)
(* tools: the machine may change meanwhile, and a /stop may cut the turn,  *)
(* which forgets the state but not the files.                              *)
(*                                                                         *)
(* The messages have been through IntentEngine: a message says what        *)
(* resolve_intent made of it.                                              *)
(***************************************************************************)
EXTENDS Naturals, Sequences, SequencesExt, Workspace

CONSTANTS
  Messages,    \* what users write
  Devices,     \* serial devices with a by-id name
  Controllers, \* those that answer the probe of the robot
  Recipe,      \* the host is one for which there is a ROS2 recipe
  HandMade,    \* files users put into the workspace themselves
  HostChanges, \* what happens to the machine: "plug", "ros2", "calibrate"
  Mishaps,     \* bound: turns cut by /stop and writes that fail
  Chatter      \* bound: messages that are not the answer that was asked for

ASSUME OnboardingAssumption ==
  /\ Controllers \subseteq Devices /\ Recipe \in BOOLEAN
  /\ HostChanges \subseteq {"plug", "ros2", "calibrate"}
  /\ Mishaps \in Nat /\ Chatter \in Nat

VARIABLES
  saved,       \* the state in the metadata of the session, or NoSetup
  draft,       \* the state of the turn
  at,          \* the handler that is next, "idle" between turns
  msg,         \* the message of the turn
  files,       \* the workspace
  host,        \* [plugged, ros2, calibrated]: the machine
  calibrating, \* a calibration waits for the user
  shown,       \* steps of the install guide shown since it was started
  torn,        \* a /stop came after the first write of the files and before their check
  mishaps, chatter

bounds == <<mishaps, chatter>>
vars == <<saved, draft, at, msg, files, host, calibrating, shown, torn, bounds>>

NoSetup == [stage |-> "none"]
NoMessage == [robot |-> "none", sim |-> FALSE, change |-> "none", mounts |-> <<>>,
              connected |-> "unknown", serial |-> "none", ros2 |-> "unknown",
              install |-> FALSE, step |-> FALSE, calibrate |-> FALSE, viewer |-> FALSE]

\* The built-in embodiments and their ROS2 profiles; "other" is a name that
\* the intent parser passed on as the user wrote it.
HasProfile(r) == r \in {"so101", "piperx"}
AutoProbe(r) == r = "so101"
NeedsCalibration(r) == r = "so101"
SimRobot == "so101"          \* the only one with a simulation model

LastStep == 3                \* the recipe has four steps
Ros2Stages == {"resolve_prerequisites", "install_prerequisites", "validate_prerequisites"}
ProbeStages == {"confirm_connected", "identify_setup_scope", "probe_local_environment"}

Ready(s) == s.stage = "handoff_ready" /\ s.status = "ready"
Primary(s) == s.robots[1]

NewState ==
  [stage |-> "identify_setup_scope", status |-> "bootstrapping", robots |-> <<>>,
   mounts |-> <<>>, connected |-> "unknown", serial |-> "none", calibrated |-> FALSE,
   ros2 |-> "unknown", seen |-> "none", reported |-> FALSE, install |-> FALSE,
   step |-> FALSE, index |-> 0, sim |-> FALSE, viewer |-> FALSE]

-----------------------------------------------------------------------------
(* The files *)

\* AssemblyManifest rejects two attachments with one id, and the id of a
\* camera is made of its mount.
Text(s) == IF IsInjective(s.mounts) THEN "none" ELSE "import"
Target(s) == IF s.sim THEN "sim" ELSE "real"
File(k, i, s) ==
  [kind |-> k, id |-> i, asm |-> "setup", target |-> Target(s), serial |-> s.serial,
   mounts |-> s.mounts, defect |-> IF k = "assembly" THEN Text(s) ELSE "none",
   rank |-> 1, ours |-> TRUE]
Put(fs, f) == {g \in fs : g.kind # f.kind \/ g.id # f.id \/ g.rank # f.rank} \union {f}

\* _validation_issues and validate_materialized_setup: errors elsewhere in the
\* workspace do not count.
Issues == \E f \in InspectErrors(files) : f.ours

Builtin == {[kind |-> "robot", id |-> r] : r \in {"so101", "piperx"}}
Usable == Loads(files, Builtin) /\ Candidates(files) # {}

-----------------------------------------------------------------------------
(* A message arrives *)

IsEdit(m) == m.change # "none" \/ m.serial # "none" \/ m.ros2 # "unknown" \/ m.install
IsEmbodied(m) ==
  IsEdit(m) \/ m.robot # "none" \/ m.sim \/ m.connected # "unknown" \/ m.calibrate

\* AgentLoop._process_message: an unfinished onboarding takes every message.
Handles(m) ==
  \/ saved # NoSetup /\ ~Ready(saved)
  \/ saved # NoSetup /\ IsEdit(m)
  \/ Loads(files, Builtin) /\ Candidates(files) = {} /\ IsEmbodied(m)

\* _apply_sensor_change, for one mount after the other.  A replacement moves the
\* first camera.
Changed(mounts, m) ==
  LET one(ms, x) ==
        LET there == SelectInSeq(ms, LAMBDA y : y = x) IN
        CASE m.change = "remove" -> IF there = 0 THEN ms ELSE RemoveAt(ms, there)
          [] m.change = "add" -> IF there = 0 THEN Append(ms, x) ELSE ms
          [] m.change = "replace" -> IF ms = <<>> THEN <<x>> ELSE [ms EXCEPT ![1] = x]
  IN IF m.change = "none" THEN mounts ELSE FoldLeft(one, mounts, m.mounts)

\* A path that leads to a by-id name is believed; any other clears what the
\* probe had found.
SerialOf(s, m) ==
  IF m.serial = "none" THEN s.serial
  ELSE IF m.serial \in host.plugged THEN m.serial
  ELSE "unstable"

Apply(s, m) ==
  LET refine == Ready(s) /\ (m.change # "none" \/ m.serial # "none" \/ m.ros2 # "unknown") IN
  [s EXCEPT
    !.robots = IF m.robot = "none" \/ Contains(@, m.robot) THEN @ ELSE Append(@, m.robot),
    !.mounts = Changed(@, m),
    !.connected = IF m.connected = "unknown" THEN @ ELSE m.connected,
    !.serial = SerialOf(s, m),
    !.ros2 = IF m.ros2 = "no" THEN "no" ELSE @,
    !.reported = @ \/ m.ros2 = "yes",
    !.install = @ \/ m.install,
    !.step = @ \/ m.step,
    !.sim = @ \/ m.sim,
    !.viewer = @ \/ m.viewer,
    !.status = IF refine THEN "refining" ELSE @,
    !.stage = IF refine THEN "materialize_assembly" ELSE @]

\* OnboardingController.handle_message: the state of the session takes what the
\* message says.  While a calibration waits, the messages go to it.
Receive(m) ==
  /\ at = "idle" /\ ~calibrating /\ Handles(m)
  /\ draft' = Apply(IF saved = NoSetup THEN NewState ELSE saved, m)
  /\ at' = "simulation" /\ msg' = m
  /\ UNCHANGED <<saved, files, host, calibrating, shown, torn, mishaps>>

Rest == <<files, host, calibrating, shown, torn, bounds>>

Answer(s) ==
  /\ saved' = s /\ draft' = NoSetup /\ at' = "idle" /\ msg' = NoMessage
GoOn(h, s) ==
  /\ draft' = s /\ at' = h
  /\ UNCHANGED <<saved, msg>>

\* What most handlers answer with: a stage to come back to.
Ask(stage) == Answer([draft EXCEPT !.stage = stage, !.status = "bootstrapping"])

-----------------------------------------------------------------------------
(* The handlers, in the order of StageHandler.advance *)

Simulation ==
  /\ at = "simulation"
  /\ \/ ~draft.sim /\ GoOn("questions", draft)
     \/ /\ draft.sim
        /\ LET s == IF Contains(draft.robots, SimRobot) THEN draft
                    ELSE [draft EXCEPT !.robots = <<SimRobot>>]
           IN IF s.viewer THEN GoOn("assembly", [s EXCEPT !.stage = "materialize_assembly"])
              ELSE Answer([s EXCEPT !.stage = "identify_setup_scope"])
  /\ UNCHANGED Rest

\* handle_robot_identification and handle_connection_confirmation: two questions
\* before anything is looked at.
Questions ==
  /\ at = "questions"
  /\ IF draft.robots = <<>> \/ ~HasProfile(Primary(draft)) THEN Ask("identify_setup_scope")
     ELSE IF draft.connected # "yes" THEN Ask("confirm_connected")
     ELSE GoOn("calibration", draft)
  /\ UNCHANGED Rest

\* refresh_calibration_facts: once the file is there the setup is handed off.
Calibration ==
  /\ at = "calibration"
  /\ LET s == [draft EXCEPT !.calibrated = IF NeedsCalibration(Primary(draft))
                                           THEN host.calibrated ELSE @] IN
     \/ draft.stage # "await_calibration" /\ GoOn("probe", draft)
     \/ draft.stage = "await_calibration" /\ s.calibrated
        /\ Answer(IF Issues THEN s
                  ELSE [s EXCEPT !.stage = "handoff_ready", !.status = "ready"])
     \/ draft.stage = "await_calibration" /\ ~s.calibrated
        /\ GoOn("assembly", [s EXCEPT !.status = "bootstrapping"])
  /\ UNCHANGED Rest

\* probe_environment: the serial devices and the calibration file.
ProbeSerial ==
  /\ at = "probe"
  /\ \/ draft.stage \notin ProbeStages \union Ros2Stages /\ GoOn("prerequisites", draft)
     \/ draft.stage \in Ros2Stages /\ ~draft.reported /\ GoOn("prerequisites", draft)
     \/ /\ draft.stage \in ProbeStages \/ (draft.stage \in Ros2Stages /\ draft.reported)
        /\ \E port \in Devices \union {"none"} :
             /\ IF host.plugged = {} THEN port = "none" ELSE port \in host.plugged
             /\ GoOn("probe_ros2",
                  [draft EXCEPT
                    !.serial = IF ~AutoProbe(Primary(draft)) \/ @ \in Devices THEN @
                               ELSE IF port = "none" THEN "unstable"
                               ELSE IF port \in Controllers THEN port
                               ELSE "unresponsive",
                    !.calibrated = IF NeedsCalibration(Primary(draft)) THEN host.calibrated
                                   ELSE @])
  /\ UNCHANGED Rest

\* Mutant: what is known is not looked up again.
MutProbeRos2 ==
  /\ at = "probe_ros2"
  /\ LET forced == draft.stage \in Ros2Stages
         asked == draft.ros2 = "unknown"
         s == IF ~asked THEN draft
              ELSE [draft EXCEPT
                     !.ros2 = IF host.ros2 = "ok" THEN "yes" ELSE "no",
                     !.seen = IF host.ros2 \in {"partial", "init"} THEN host.ros2 ELSE "none",
                     !.install = @ /\ host.ros2 # "ok",
                     !.index = IF host.ros2 = "ok" THEN 0 ELSE @]
     IN GoOn(IF forced THEN "recheck" ELSE "findings",
             [s EXCEPT !.stage = "probe_local_environment", !.reported = @ /\ ~forced])
  /\ UNCHANGED Rest

\* The rest of it: ROS2, once or when the user says it is there.
ProbeRos2 ==
  /\ at = "probe_ros2"
  /\ LET forced == draft.stage \in Ros2Stages
         asked == forced \/ draft.ros2 = "unknown"
         s == IF ~asked THEN draft
              ELSE [draft EXCEPT
                     !.ros2 = IF host.ros2 = "ok" THEN "yes" ELSE "no",
                     !.seen = IF host.ros2 \in {"partial", "init"} THEN host.ros2 ELSE "none",
                     !.install = @ /\ host.ros2 # "ok",
                     !.index = IF host.ros2 = "ok" THEN 0 ELSE @]
     IN GoOn(IF forced THEN "recheck" ELSE "findings",
             [s EXCEPT !.stage = "probe_local_environment", !.reported = @ /\ ~forced])
  /\ UNCHANGED Rest

\* Mutant: the calibration of the robot is not asked for.
MutFindings ==
  /\ at = "findings"
  /\ IF AutoProbe(Primary(draft)) /\ draft.serial \notin Devices THEN Ask("probe_local_environment")
     ELSE IF draft.ros2 = "no" /\ draft.seen # "init" THEN Ask("resolve_prerequisites")
     ELSE GoOn("prerequisites", [draft EXCEPT !.stage = "materialize_assembly"])
  /\ UNCHANGED Rest

\* handle_environment_probing, on what the probe has found.  A robot that has
\* to be calibrated goes back to the start of the handlers.
Findings ==
  /\ at = "findings"
  /\ IF \/ draft.serial = "unresponsive"
        \/ AutoProbe(Primary(draft)) /\ draft.serial \notin Devices
       THEN Ask("probe_local_environment")
     ELSE IF NeedsCalibration(Primary(draft)) /\ ~draft.calibrated
       THEN GoOn("calibration", [draft EXCEPT !.stage = "await_calibration",
                                              !.status = "bootstrapping"])
     ELSE IF draft.ros2 = "no" /\ draft.seen # "init" THEN Ask("resolve_prerequisites")
     ELSE GoOn("prerequisites", [draft EXCEPT !.stage = "materialize_assembly"])
  /\ UNCHANGED Rest

\* handle_asset_materialization; a setup that waits for its validation is not
\* written again.
Materialize(s) == GoOn(IF s.stage = "materialize_assembly" THEN "assembly" ELSE "check", s)

\* What the user reported is looked into.
Recheck ==
  /\ at = "recheck"
  /\ IF draft.ros2 = "yes" THEN Materialize([draft EXCEPT !.stage = "materialize_assembly"])
     ELSE Answer(draft)
  /\ UNCHANGED Rest

\* Mutant: the guide is resumed where an earlier attempt left it.
MutPrepare(s) ==
  /\ Answer([s EXCEPT !.stage = "install_prerequisites", !.install = FALSE])
  /\ shown' = {s.index}

\* prepare_ros2_install: the guide starts at its first step.
Prepare(s) ==
  /\ Answer([s EXCEPT !.stage = "install_prerequisites", !.index = 0, !.install = FALSE])
  /\ shown' = {0}

\* The next step of the guide, or its end.
NextStep(s) ==
  LET t == [s EXCEPT !.step = FALSE] IN
  IF s.index < LastStep
    THEN Answer([t EXCEPT !.index = @ + 1]) /\ shown' = shown \union {s.index + 1}
    ELSE Answer([t EXCEPT !.stage = "validate_prerequisites"]) /\ UNCHANGED shown

\* handle_ros2_prerequisites.
Prerequisites ==
  /\ at = "prerequisites"
  /\ \/ /\ draft.stage \notin Ros2Stages
        /\ Materialize(draft) /\ UNCHANGED shown
     \/ /\ draft.stage \in Ros2Stages /\ draft.ros2 = "yes"
        /\ Materialize([draft EXCEPT !.stage = "materialize_assembly"])
        /\ UNCHANGED shown
     \/ /\ draft.stage = "resolve_prerequisites" /\ draft.ros2 # "yes"
        /\ IF draft.install /\ Recipe THEN Prepare(draft)
                                       ELSE Answer(draft) /\ UNCHANGED shown
     \/ /\ draft.stage = "install_prerequisites" /\ draft.ros2 # "yes"
        /\ IF msg.step \/ draft.step THEN NextStep(draft) ELSE Answer(draft) /\ UNCHANGED shown
     \/ /\ draft.stage = "validate_prerequisites" /\ draft.ros2 # "yes"
        /\ Answer(draft) /\ UNCHANGED shown
  /\ UNCHANGED <<files, host, calibrating, torn, bounds>>

\* write_file may fail before it has opened the file or with the file cut short, which
\* exports nothing.  It answers "Error", which run_tool returns and nobody looks at.
Write(f) ==
  \/ files' = Put(files, f) /\ UNCHANGED mishaps
  \/ /\ mishaps < Mishaps
     /\ mishaps' = mishaps + 1
     /\ files' \in {files, Put(files, [f EXCEPT !.defect = "missing_export"])}

WriteAssembly ==
  /\ at = "assembly"
  /\ Write(File("assembly", "setup", draft))
  /\ GoOn("deployment", draft)
  /\ UNCHANGED <<host, calibrating, shown, torn, chatter>>

\* The deployment and the adapter of a simulation have ids of their own.
WriteDeployment ==
  /\ at = "deployment"
  /\ Write(File("deployment", Target(draft), draft))
  /\ GoOn("adapter", draft)
  /\ UNCHANGED <<host, calibrating, shown, torn, chatter>>

WriteAdapter ==
  /\ at = "adapter"
  /\ Write(File("adapter", Target(draft), draft))
  /\ torn' = FALSE
  /\ GoOn("check", IF draft.sim \/ draft.stage = "await_calibration" THEN draft
                   ELSE [draft EXCEPT !.stage = "validate_setup"])
  /\ UNCHANGED <<host, calibrating, shown, chatter>>

HandOff(s) == [s EXCEPT !.stage = "handoff_ready", !.status = "ready"]

\* Mutant: the files are not looked at again.
MutCheckSetup ==
  /\ at = "check" /\ draft.stage # "await_calibration"
  /\ Answer(IF draft.sim \/ draft.stage = "validate_setup" THEN HandOff(draft) ELSE draft)
  /\ UNCHANGED Rest

\* The end of handle_simulation_setup, and handle_validation, which passes a
\* setup in any other stage.
CheckSetup ==
  /\ at = "check" /\ draft.stage # "await_calibration"
  /\ Answer(IF draft.sim \/ draft.stage = "validate_setup"
              THEN IF Issues THEN [draft EXCEPT !.stage = "validate_setup"] ELSE HandOff(draft)
              ELSE draft)
  /\ UNCHANGED Rest

\* The end of handle_calibration_flow.  Starting the calibration answers with
\* the state of the session, which has not taken this message yet; a catalogue
\* that cannot be built ends the turn with an exception.
CheckCalibration ==
  /\ at = "check" /\ draft.stage = "await_calibration"
  /\ LET start == ~Issues /\ msg.calibrate IN
     /\ IF ~start THEN Answer(draft)
        ELSE Answer(IF saved = NoSetup /\ Loads(files, Builtin) THEN draft ELSE saved)
     /\ calibrating' = (start /\ Usable)
  /\ UNCHANGED <<files, host, shown, torn, bounds>>

-----------------------------------------------------------------------------
(* What happens around the turns *)

\* The calibration saves its file and hands the setup off, or fails.
CalibrationEnds(ok) ==
  /\ calibrating /\ at = "idle"
  /\ calibrating' = FALSE
  /\ host' = [host EXCEPT !.calibrated = @ \/ ok]
  /\ saved' = IF ok /\ saved # NoSetup /\ saved.robots # <<>>
               THEN [HandOff(saved) EXCEPT !.calibrated = TRUE] ELSE saved
  /\ UNCHANGED <<draft, at, msg, files, shown, torn, bounds>>

\* /stop cuts the turn: the state is forgotten, the files stay.
Stop ==
  /\ at # "idle" /\ mishaps < Mishaps
  /\ mishaps' = mishaps + 1
  /\ draft' = NoSetup /\ at' = "idle" /\ msg' = NoMessage
  /\ torn' = (torn \/ at \in {"deployment", "adapter", "check"})
  /\ UNCHANGED <<saved, files, host, calibrating, shown, chatter>>

Plug ==
  /\ "plug" \in HostChanges /\ host.plugged # Devices
  /\ host' = [host EXCEPT !.plugged = Devices]
  /\ UNCHANGED <<saved, draft, at, msg, files, calibrating, shown, torn, bounds>>

\* Installed, then found by a new shell, then by the shell of the program.
Ros2Progress ==
  /\ "ros2" \in HostChanges /\ host.ros2 # "ok"
  /\ \E r \in CASE host.ros2 = "missing" -> {"partial", "ok"}
                 [] host.ros2 = "partial" -> {"init", "ok"}
                 [] OTHER -> {"ok"} :
       host' = [host EXCEPT !.ros2 = r]
  /\ UNCHANGED <<saved, draft, at, msg, files, calibrating, shown, torn, bounds>>

\* The calibration file comes from elsewhere.
CalibratedElsewhere ==
  /\ "calibrate" \in HostChanges /\ ~host.calibrated
  /\ host' = [host EXCEPT !.calibrated = TRUE]
  /\ UNCHANGED <<saved, draft, at, msg, files, calibrating, shown, torn, bounds>>

HandWrite(f) ==
  /\ f \notin files /\ chatter < Chatter
  /\ chatter' = chatter + 1
  /\ files' = files \union {f}
  /\ UNCHANGED <<saved, draft, at, msg, host, calibrating, shown, torn, mishaps>>

Chat ==
  /\ chatter < Chatter
  /\ chatter' = chatter + 1
  /\ \E m \in Messages : Receive(m)

\* A user who has read the answer.
Reply(s) ==
  IF s.sim THEN [NoMessage EXCEPT !.viewer = TRUE]
  ELSE IF s.robots = <<>> THEN [NoMessage EXCEPT !.robot = "so101"]
  ELSE IF s.connected # "yes" THEN [NoMessage EXCEPT !.connected = "yes"]
  ELSE IF s.stage = "await_calibration" THEN [NoMessage EXCEPT !.calibrate = TRUE]
  ELSE IF s.stage \in Ros2Stages /\ host.ros2 = "ok" THEN [NoMessage EXCEPT !.ros2 = "yes"]
  ELSE IF s.stage = "resolve_prerequisites" THEN [NoMessage EXCEPT !.install = TRUE]
  ELSE IF s.stage = "install_prerequisites" THEN [NoMessage EXCEPT !.step = TRUE]
  ELSE IF s.serial \notin Devices /\ host.plugged \intersect Controllers # {}
    THEN [NoMessage EXCEPT !.serial = CHOOSE d \in Controllers \intersect host.plugged : TRUE]
  ELSE NoMessage

GoodReply ==
  /\ saved # NoSetup /\ ~Ready(saved)
  /\ Receive(Reply(saved))
  /\ UNCHANGED chatter

-----------------------------------------------------------------------------
Init ==
  /\ saved = NoSetup /\ draft = NoSetup /\ at = "idle" /\ msg = NoMessage
  /\ files = {} /\ calibrating = FALSE /\ shown = {} /\ torn = FALSE
  /\ host = [plugged |-> {}, ros2 |-> "missing", calibrated |-> FALSE]
  /\ mishaps = 0 /\ chatter = 0

Turn ==
  \/ Simulation \/ Questions \/ Calibration \/ ProbeSerial
  \/ ProbeRos2 \/ Findings \/ Recheck \/ Prerequisites
  \/ WriteAssembly \/ WriteDeployment \/ WriteAdapter \/ CheckSetup \/ CheckCalibration

Next ==
  \/ Chat \/ GoodReply \/ Turn \/ Stop
  \/ \E ok \in BOOLEAN : CalibrationEnds(ok)
  \/ Plug
  \/ Ros2Progress \/ CalibratedElsewhere
  \/ \E f \in HandMade : HandWrite(f)

\* Turns are run to their end; the user answers what is asked, connects and
\* installs what is missing, and calibrates until it works.
Fairness ==
  /\ WF_vars(Turn) /\ WF_vars(GoodReply)
  /\ WF_vars(Plug) /\ WF_vars(Ros2Progress)
  /\ WF_vars(CalibrationEnds(TRUE) \/ CalibrationEnds(FALSE)) /\ SF_vars(CalibrationEnds(TRUE))

Spec == Init /\ [][Next]_vars /\ Fairness

-----------------------------------------------------------------------------
(* Properties *)

\* A real setup that was handed off has a robot the framework can control, and
\* if that robot must be calibrated its calibration has been seen, on every
\* way through the conversation: the probe, the wait for the calibration, the
\* prerequisites and later refinements.
ReadyFacts ==
  saved # NoSetup /\ Ready(saved) /\ ~saved.sim =>
    /\ saved.robots # <<>> /\ HasProfile(Primary(saved))
    /\ NeedsCalibration(Primary(saved)) => saved.calibrated /\ host.calibrated

\* Unless a /stop came between the writes and their check, those files that a setup has
\* when it is handed off can be loaded, whatever the user changed since.  (A write that
\* fails, or a calibration that turns up meanwhile, hands one off without a file.)
ReadyLoads ==
  saved # NoSetup /\ Ready(saved) /\ at = "idle" /\ ~torn =>
    \A f \in files \ HandMade : f \in Staged(files)

\* The guide asks for the validation only after it has shown every step, even
\* if an earlier attempt was given up.
InstallInOrder ==
  saved # NoSetup /\ saved.stage = "validate_prerequisites" => shown = 0..LastStep

\* Where the conversation cannot go on: a robot that is not known, a setup with
\* an error in its files or with the files of a simulation beside the real ones,
\* a workspace that does not load.
DeadEnd(s) ==
  \/ ~s.sim /\ s.robots # <<>> /\ ~HasProfile(Primary(s))
  \/ Issues
  \/ \E k \in {"deployment", "adapter"} : Cardinality(Of(files, k, "setup")) > 1
  \/ ~Loads(files, Builtin)

\* A user who answers what is asked gets the setup handed off or comes to one
\* of the dead ends.
HandedOff ==
  (saved # NoSetup) ~> (saved # NoSetup /\ at = "idle" /\ (Ready(saved) \/ DeadEnd(saved)))
=============================================================================
