--------------------------- MODULE OnboardingProofs ---------------------------
(***************************************************************************)
(* Three properties of Onboarding, for any messages, devices and number of *)
(* cut turns: a real setup is handed off only with its facts, the install  *)
(* guide is followed in order, and the files of a setup that was handed    *)
(* off can be loaded.                                                      *)
(*                                                                         *)
(* The first two follow from what a stage says about a setup (SetupOK),    *)
(* saved or in a turn: from "await_calibration" on the robot is known, in  *)
(* the stages after it the calibration has been seen, and while the guide  *)
(* is shown its index is the last step shown.  What the handlers add to    *)
(* that is in DraftOK.  The third needs what is known of the files between *)
(* a hand-off and the next write (LoadsInv).                               *)
(***************************************************************************)
EXTENDS Onboarding, SequenceTheorems, TLAPS

Fields == {"stage", "status", "robots", "mounts", "connected", "serial", "calibrated",
           "ros2", "seen", "reported", "install", "step", "index", "sim", "viewer"}
IsSetup(s) == s = [f \in Fields |-> s[f]]

Names == {m.robot : m \in Messages} \union {"none", "so101"}
Writes == {"assembly", "deployment", "adapter"}

\* The stages in which nothing is left to be found out about the robot.
Late == Ros2Stages \union {"materialize_assembly", "validate_setup", "handoff_ready"}

Known(s) == s.robots # <<>> /\ HasProfile(Primary(s))
Calibrated(s) == NeedsCalibration(Primary(s)) => s.calibrated

\* done: the calibration file is there; seen: the steps of the guide shown.
SetupOK(s, done, seen) ==
  /\ IsSetup(s) /\ s.robots \in Seq(Names)
  /\ s.calibrated => done
  /\ ~s.sim => /\ s.stage # "identify_setup_scope" => Known(s)
               /\ s.stage \in Late => Calibrated(s)
  /\ s.stage = "install_prerequisites" => s.index \in 0..LastStep /\ seen = 0..s.index
  /\ s.stage = "validate_prerequisites" => seen = 0..LastStep

\* The robot of a setup stays its robot.
Follows(s, old) ==
  ~s.sim /\ old # NoSetup /\ old.robots # <<>> =>
    s.robots # <<>> /\ Primary(s) = Primary(old)

DraftOK(h, s, old, done, seen) ==
  /\ SetupOK(s, done, seen) /\ Follows(s, old)
  /\ ~s.sim => /\ h \notin {"simulation", "questions"} => Known(s)
               /\ h = "recheck" => Calibrated(s)
               /\ h \in Writes => s.stage \in {"materialize_assembly", "await_calibration"}
  /\ s.sim /\ h # "simulation" =>
       h \in Writes \union {"check"} /\ s.stage = "materialize_assembly"

Inv ==
  /\ DOMAIN host = {"plugged", "ros2", "calibrated"}
  /\ saved # NoSetup => SetupOK(saved, host.calibrated, shown)
  /\ at # "idle" => DraftOK(at, draft, saved, host.calibrated, shown)
  /\ calibrating => /\ at = "idle"
                    /\ saved # NoSetup /\ saved.robots # <<>> => HasProfile(Primary(saved))

-----------------------------------------------------------------------------
(* Setups                                                                   *)

LEMMA NotNone == \A s : IsSetup(s) => s # NoSetup
  <1> SUFFICES ASSUME NEW s, IsSetup(s), s = NoSetup PROVE FALSE
    OBVIOUS
  <1>1. DOMAIN s = Fields /\ DOMAIN NoSetup = {"stage"}
    BY DEF IsSetup, NoSetup
  <1> QED BY <1>1 DEF Fields

LEMMA NewIsSetup ==
  /\ IsSetup(NewState) /\ NewState.robots = <<>> /\ NewState.calibrated = FALSE
  /\ NewState.stage = "identify_setup_scope"
  BY DEF IsSetup, Fields, NewState

\* A setup that only goes to another stage, one of which the guide is no part.
LEMMA StageOK ==
  ASSUME NEW s, NEW done, NEW seen, SetupOK(s, done, seen), NEW t,
         IsSetup(t), t.robots = s.robots, t.sim = s.sim, t.calibrated = s.calibrated,
         t.stage \notin {"install_prerequisites", "validate_prerequisites"},
         ~t.sim => /\ t.stage # "identify_setup_scope" => Known(s)
                   /\ t.stage \in Late => Calibrated(s)
  PROVE  SetupOK(t, done, seen)
  BY DEF SetupOK, Known, Calibrated, Primary

\* The same stage, more about the calibration.
LEMMA SameOK ==
  ASSUME NEW s, NEW done, NEW seen, SetupOK(s, done, seen), NEW t,
         IsSetup(t), t.robots = s.robots, t.sim = s.sim, t.stage = s.stage, t.index = s.index,
         t.calibrated => done, s.calibrated => t.calibrated
  PROVE  SetupOK(t, done, seen)
  BY DEF SetupOK, Known, Calibrated, Primary

LEMMA FollowsOK ==
  ASSUME NEW s, NEW t, NEW old, Follows(s, old), t.robots = s.robots, t.sim = s.sim
  PROVE  Follows(t, old)
  BY DEF Follows, Primary

-----------------------------------------------------------------------------
(* Turns in general                                                         *)

LEMMA GoOnInv ==
  ASSUME Inv, at # "idle", NEW h, NEW s, GoOn(h, s), UNCHANGED <<host, calibrating, shown>>,
         DraftOK(h, s, saved, host.calibrated, shown)
  PROVE  Inv'
  <1>1. /\ saved' = saved /\ draft' = s /\ at' = h /\ host' = host /\ shown' = shown
        /\ calibrating' = calibrating
    BY DEF GoOn
  <1>2. ~calibrating
    BY DEF Inv
  <1> QED BY <1>1, <1>2 DEF Inv

LEMMA AnswerInv ==
  ASSUME Inv, at # "idle", NEW s, Answer(s), UNCHANGED <<host, calibrating>>,
         SetupOK(s, host.calibrated, shown')
  PROVE  Inv'
  <1>1. saved' = s /\ at' = "idle" /\ host' = host /\ calibrating' = calibrating
    BY DEF Answer
  <1>2. ~calibrating
    BY DEF Inv
  <1> QED BY <1>1, <1>2 DEF Inv

\* Most questions.
LEMMA AskInv ==
  ASSUME Inv, at # "idle", NEW stage, Ask(stage), UNCHANGED <<host, calibrating, shown>>,
         stage \notin {"install_prerequisites", "validate_prerequisites"},
         ~draft.sim => /\ stage # "identify_setup_scope" => Known(draft)
                       /\ stage \in Late => Calibrated(draft)
  PROVE  Inv'
  <1> DEFINE t == [draft EXCEPT !.stage = stage, !.status = "bootstrapping"]
  <1>1. SetupOK(draft, host.calibrated, shown)
    BY DEF Inv, DraftOK
  <1>2. /\ IsSetup(t) /\ t.stage = stage /\ t.robots = draft.robots /\ t.sim = draft.sim
        /\ t.calibrated = draft.calibrated
    <2>1. IsSetup(draft)
      BY <1>1 DEF SetupOK
    <2> QED BY <2>1 DEF IsSetup, Fields
  <1> HIDE DEF t
  <1>3. SetupOK(t, host.calibrated, shown)
    BY <1>1, <1>2, StageOK
  <1>4. Answer(t)
    BY DEF Ask, t
  <1> QED BY <1>3, <1>4, AnswerInv

\* The setup is written, or goes on to its check.
LEMMA MaterializeInv ==
  ASSUME Inv, at # "idle", NEW s, Materialize(s), UNCHANGED <<host, calibrating, shown>>,
         SetupOK(s, host.calibrated, shown), Follows(s, saved), ~s.sim, Known(s)
  PROVE  Inv'
  <1>1. CASE s.stage = "materialize_assembly"
    <2>1. DraftOK("assembly", s, saved, host.calibrated, shown)
      BY <1>1 DEF DraftOK, Writes
    <2>2. GoOn("assembly", s)
      BY <1>1 DEF Materialize
    <2> QED BY <2>1, <2>2, GoOnInv
  <1>2. CASE s.stage # "materialize_assembly"
    <2>1. DraftOK("check", s, saved, host.calibrated, shown)
      BY DEF DraftOK, Writes
    <2>2. GoOn("check", s)
      BY <1>2 DEF Materialize
    <2> QED BY <2>1, <2>2, GoOnInv
  <1> QED BY <1>1, <1>2

-----------------------------------------------------------------------------
(* Messages                                                                 *)

\* What a message does to a setup.
AppliedTo(t, s, m) ==
  /\ IsSetup(t) /\ t.index = s.index /\ t.calibrated = s.calibrated
  /\ t.sim = (s.sim \/ m.sim)
  /\ t.stage = s.stage \/ (Ready(s) /\ t.stage = "materialize_assembly")
  /\ t.robots = s.robots \/ t.robots = Append(s.robots, m.robot)

LEMMA Applied ==
  ASSUME NEW s, IsSetup(s), NEW m
  PROVE  AppliedTo(Apply(s, m), s, m)
  <1> DEFINE t == Apply(s, m)
  <1> DEFINE refine == Ready(s) /\ (m.change # "none" \/ m.serial # "none" \/ m.ros2 # "unknown")
             robots == IF m.robot = "none" \/ Contains(s.robots, m.robot) THEN s.robots
                       ELSE Append(s.robots, m.robot)
             stage == IF refine THEN "materialize_assembly" ELSE s.stage
             mounts == Changed(s.mounts, m)
             serial == SerialOf(s, m)
             connected == IF m.connected = "unknown" THEN s.connected ELSE m.connected
             ros2 == IF m.ros2 = "no" THEN "no" ELSE s.ros2
             status == IF refine THEN "refining" ELSE s.status
             reported == s.reported \/ m.ros2 = "yes"
             install == s.install \/ m.install
             step == s.step \/ m.step
             sim == s.sim \/ m.sim
             viewer == s.viewer \/ m.viewer
  <1>1. t = [s EXCEPT !.robots = robots, !.mounts = mounts, !.connected = connected,
                      !.serial = serial, !.ros2 = ros2, !.reported = reported,
                      !.install = install, !.step = step, !.sim = sim, !.viewer = viewer,
                      !.status = status, !.stage = stage]
    BY DEF Apply, IsSetup, Fields
  <1> HIDE DEF t, refine, mounts, serial, connected, ros2, status, robots, stage,
               reported, install, step, sim, viewer
  <1>2. /\ IsSetup(t) /\ t.index = s.index /\ t.calibrated = s.calibrated
        /\ t.sim = sim /\ t.stage = stage /\ t.robots = robots
    <2>1. s = [f \in Fields |-> s[f]]
      BY DEF IsSetup
    <2>2. DOMAIN s = Fields
      BY ONLY <2>1
    <2>3. DOMAIN t = Fields /\ t = [f \in Fields |-> t[f]]
      BY ONLY <1>1, <2>1, <2>2
    <2>4. /\ t.index = s.index /\ t.calibrated = s.calibrated
          /\ t.sim = sim /\ t.stage = stage /\ t.robots = robots
      BY ONLY <1>1, <2>2 DEF Fields
    <2> QED BY <2>3, <2>4 DEF IsSetup
  <1>3. t.stage = s.stage \/ (Ready(s) /\ t.stage = "materialize_assembly")
    BY <1>2 DEF refine, stage
  <1>4. t.robots = s.robots \/ t.robots = Append(s.robots, m.robot)
    BY <1>2 DEF robots
  <1>5. t.sim = (s.sim \/ m.sim)
    BY <1>2 DEF sim
  <1>6. AppliedTo(t, s, m)
    BY <1>2, <1>3, <1>4, <1>5 DEF AppliedTo
  <1> QED BY <1>6 DEF t

LEMMA ReceiveInv ==
  ASSUME Inv, NEW m, m.robot \in Names, Receive(m) PROVE Inv'
  <1> DEFINE s == IF saved = NoSetup THEN NewState ELSE saved
             t == Apply(s, m)
  <1>1. /\ at' = "simulation" /\ draft' = t /\ ~calibrating
        /\ UNCHANGED <<saved, host, calibrating, shown>>
    BY DEF Receive
  <1>2. SetupOK(s, host.calibrated, shown)
    <2>1. <<>> \in Seq(Names)
      OBVIOUS
    <2> QED BY <2>1, NewIsSetup DEF Inv, SetupOK, Late, Ros2Stages
  <1>3. IsSetup(s)
    BY <1>2 DEF SetupOK
  <1>4. saved = NoSetup => s.robots = <<>>
    BY NewIsSetup
  <1>5. saved # NoSetup => s = saved
    OBVIOUS
  <1> HIDE DEF s
  <1>0. AppliedTo(t, s, m)
    BY <1>3, Applied
  <1> HIDE DEF t
  <1>6. /\ IsSetup(t) /\ t.index = s.index /\ t.calibrated = s.calibrated
        /\ t.sim = (s.sim \/ m.sim)
        /\ t.stage = s.stage \/ (Ready(s) /\ t.stage = "materialize_assembly")
        /\ t.robots = s.robots \/ t.robots = Append(s.robots, m.robot)
    BY <1>0 DEF AppliedTo
  <1>7. /\ t.robots \in Seq(Names)
        /\ s.robots # <<>> => t.robots # <<>> /\ t.robots[1] = s.robots[1]
    <2>1. s.robots \in Seq(Names)
      BY <1>2 DEF SetupOK
    <2>2. ASSUME t.robots = Append(s.robots, m.robot)
          PROVE  /\ t.robots \in Seq(Names)
                 /\ s.robots # <<>> => t.robots # <<>> /\ t.robots[1] = s.robots[1]
      BY <2>1, <2>2, AppendProperties, EmptySeq
    <2> QED BY <1>6, <2>1, <2>2
  <1>8. SetupOK(t, host.calibrated, shown)
    <2>1. CASE t.stage = s.stage
      <3>1. ~t.sim => ~s.sim
        BY <1>6
      <3>2. Known(s) => Known(t) /\ (Calibrated(s) => Calibrated(t))
        BY <1>6, <1>7 DEF Known, Calibrated, Primary
      <3>3. s.stage \in Late => s.stage # "identify_setup_scope"
        BY DEF Late, Ros2Stages
      <3> QED BY <1>2, <1>6, <1>7, <2>1, <3>1, <3>2, <3>3 DEF SetupOK
    <2>2. CASE Ready(s) /\ t.stage = "materialize_assembly"
      <3>1. ~t.sim => ~s.sim
        BY <1>6
      <3>2. Known(s) => Known(t) /\ (Calibrated(s) => Calibrated(t))
        BY <1>6, <1>7 DEF Known, Calibrated, Primary
      <3>3. s.stage \in Late /\ s.stage # "identify_setup_scope"
        BY <2>2 DEF Ready, Late
      <3> QED BY <1>2, <1>6, <1>7, <2>2, <3>1, <3>2, <3>3 DEF SetupOK
    <2> QED BY <1>6, <2>1, <2>2
  <1>9. Follows(t, saved)
    BY <1>4, <1>5, <1>7 DEF Follows, Primary
  <1>10. DraftOK("simulation", t, saved, host.calibrated, shown)
    BY <1>8, <1>9 DEF DraftOK, Writes
  <1> QED BY <1>1, <1>10 DEF Inv

-----------------------------------------------------------------------------
(* The handlers                                                             *)

\* What a handler after the first finds.
LEMMA InTurn ==
  ASSUME Inv, NEW h, at = h, h # "idle"
  PROVE  /\ DraftOK(h, draft, saved, host.calibrated, shown)
         /\ SetupOK(draft, host.calibrated, shown) /\ IsSetup(draft) /\ Follows(draft, saved)
         /\ h \notin Writes \union {"check", "simulation"} => ~draft.sim
         /\ ~draft.sim /\ h \notin {"simulation", "questions"} => Known(draft)
  <1>1. DraftOK(h, draft, saved, host.calibrated, shown)
    BY DEF Inv
  <1> QED BY <1>1 DEF DraftOK, SetupOK

LEMMA SimulationInv == ASSUME Inv, Simulation PROVE Inv'
  <1>1. at = "simulation" /\ UNCHANGED <<host, calibrating, shown>>
    BY DEF Simulation, Rest
  <1>2. /\ SetupOK(draft, host.calibrated, shown) /\ IsSetup(draft) /\ Follows(draft, saved)
    BY <1>1, InTurn
  <1>3. CASE ~draft.sim
    <2>1. GoOn("questions", draft)
      BY <1>3 DEF Simulation
    <2>2. DraftOK("questions", draft, saved, host.calibrated, shown)
      BY <1>2, <1>3 DEF DraftOK, Writes
    <2> QED BY <1>1, <2>1, <2>2, GoOnInv
  <1>4. CASE draft.sim
    <2> DEFINE s == IF Contains(draft.robots, SimRobot) THEN draft
                    ELSE [draft EXCEPT !.robots = <<SimRobot>>]
               u == [s EXCEPT !.stage = "materialize_assembly"]
               v == [s EXCEPT !.stage = "identify_setup_scope"]
    <2>1. IsSetup(s) /\ s.sim = draft.sim /\ s.calibrated = draft.calibrated
          /\ s.robots \in {draft.robots, <<SimRobot>>}
      BY <1>2 DEF IsSetup, Fields
    <2>2. GoOn("assembly", u) \/ Answer(v)
      BY <1>3, <1>4 DEF Simulation
    <2> HIDE DEF s
    <2>3. s.robots \in Seq(Names)
      <3>1. SimRobot \in Names
        BY DEF SimRobot, Names
      <3>2. draft.robots \in Seq(Names) /\ <<SimRobot>> \in Seq(Names)
        BY <1>2, <3>1 DEF SetupOK
      <3> QED BY <2>1, <3>2
    <2>4. /\ IsSetup(u) /\ u.stage = "materialize_assembly" /\ u.sim = s.sim
          /\ u.robots = s.robots /\ u.calibrated = s.calibrated
          /\ IsSetup(v) /\ v.stage = "identify_setup_scope" /\ v.sim = s.sim
          /\ v.robots = s.robots /\ v.calibrated = s.calibrated
      BY <2>1 DEF IsSetup, Fields
    <2> HIDE DEF u, v
    <2>5. SetupOK(u, host.calibrated, shown) /\ SetupOK(v, host.calibrated, shown)
      BY <1>2, <1>4, <2>1, <2>3, <2>4 DEF SetupOK
    <2>6. DraftOK("assembly", u, saved, host.calibrated, shown)
      BY <1>4, <2>1, <2>4, <2>5 DEF DraftOK, Follows, Writes
    <2>7. CASE GoOn("assembly", u)
      BY <1>1, <2>6, <2>7, GoOnInv
    <2>8. CASE Answer(v)
      BY <1>1, <2>5, <2>8, AnswerInv
    <2> QED BY <2>2, <2>7, <2>8
  <1> QED BY <1>3, <1>4

LEMMA QuestionsInv == ASSUME Inv, Questions PROVE Inv'
  <1>1. at = "questions" /\ UNCHANGED <<host, calibrating, shown>>
    BY DEF Questions, Rest
  <1>2. DraftOK("questions", draft, saved, host.calibrated, shown) /\ ~draft.sim
    BY <1>1, InTurn DEF Writes
  <1>3. CASE draft.robots = <<>> \/ ~HasProfile(Primary(draft))
    <2>1. Ask("identify_setup_scope")
      BY <1>3 DEF Questions
    <2> QED BY <1>1, <2>1, AskInv DEF Late, Ros2Stages
  <1>4. CASE Known(draft) /\ draft.connected # "yes"
    <2>1. Ask("confirm_connected")
      BY <1>4 DEF Questions, Known
    <2> QED BY <1>1, <1>4, <2>1, AskInv DEF Late, Ros2Stages
  <1>5. CASE Known(draft) /\ draft.connected = "yes"
    <2>1. GoOn("calibration", draft)
      BY <1>5 DEF Questions, Known
    <2>2. DraftOK("calibration", draft, saved, host.calibrated, shown)
      BY <1>2, <1>5 DEF DraftOK, Writes
    <2> QED BY <1>1, <2>1, <2>2, GoOnInv
  <1> QED BY <1>3, <1>4, <1>5 DEF Known

LEMMA CalibrationInv == ASSUME Inv, Calibration PROVE Inv'
  <1> DEFINE c == IF NeedsCalibration(Primary(draft)) THEN host.calibrated ELSE draft.calibrated
             s == [draft EXCEPT !.calibrated = c]
             u == [s EXCEPT !.status = "bootstrapping"]
             v == [s EXCEPT !.stage = "handoff_ready", !.status = "ready"]
  <1>1. at = "calibration" /\ UNCHANGED <<host, calibrating, shown>>
    BY DEF Calibration, Rest
  <1>2. /\ SetupOK(draft, host.calibrated, shown) /\ IsSetup(draft) /\ Follows(draft, saved)
        /\ ~draft.sim /\ Known(draft)
    BY <1>1, InTurn DEF Writes
  <1>3. \/ draft.stage # "await_calibration" /\ GoOn("probe", draft)
        \/ draft.stage = "await_calibration" /\ s.calibrated /\ Answer(IF Issues THEN s ELSE v)
        \/ draft.stage = "await_calibration" /\ GoOn("assembly", u)
    BY DEF Calibration
  <1>4. draft.calibrated => c
    BY <1>2 DEF SetupOK
  <1>5. c => host.calibrated
    BY <1>2 DEF SetupOK
  <1> HIDE DEF c
  <1>6. /\ IsSetup(s) /\ s.stage = draft.stage /\ s.robots = draft.robots
        /\ s.index = draft.index /\ s.sim = draft.sim /\ s.calibrated = c
    BY <1>2 DEF IsSetup, Fields
  <1> HIDE DEF s
  <1>7. /\ IsSetup(u) /\ u.stage = s.stage /\ u.robots = s.robots
        /\ u.index = s.index /\ u.sim = s.sim /\ u.calibrated = s.calibrated
        /\ IsSetup(v) /\ v.stage = "handoff_ready" /\ v.robots = s.robots
        /\ v.sim = s.sim /\ v.calibrated = s.calibrated
    BY <1>6 DEF IsSetup, Fields
  <1> HIDE DEF u, v
  <1>8. SetupOK(s, host.calibrated, shown) /\ SetupOK(u, host.calibrated, shown)
    BY <1>2, <1>4, <1>5, <1>6, <1>7, SameOK
  <1>9. s.calibrated => SetupOK(v, host.calibrated, shown)
    BY <1>2, <1>6, <1>7, <1>8, StageOK DEF Known, Calibrated, Primary
  <1>10. CASE draft.stage # "await_calibration" /\ GoOn("probe", draft)
    <2>1. DraftOK("probe", draft, saved, host.calibrated, shown)
      BY <1>2 DEF DraftOK, Writes
    <2> QED BY <1>1, <1>10, <2>1, GoOnInv
  <1>11. CASE s.calibrated /\ Answer(IF Issues THEN s ELSE v)
    <2>1. SetupOK(IF Issues THEN s ELSE v, host.calibrated, shown)
      BY <1>8, <1>9, <1>11
    <2> QED BY <1>1, <1>11, <2>1, AnswerInv
  <1>12. CASE draft.stage = "await_calibration" /\ GoOn("assembly", u)
    <2>1. Follows(u, saved) /\ Known(u)
      BY <1>2, <1>6, <1>7 DEF Follows, Known, Primary
    <2>2. DraftOK("assembly", u, saved, host.calibrated, shown)
      BY <1>2, <1>6, <1>7, <1>8, <1>12, <2>1 DEF DraftOK, Writes
    <2> QED BY <1>1, <1>12, <2>2, GoOnInv
  <1> QED BY <1>3, <1>10, <1>11, <1>12

LEMMA ProbeSerialInv == ASSUME Inv, ProbeSerial PROVE Inv'
  <1>1. at = "probe" /\ UNCHANGED <<host, calibrating, shown>>
    BY DEF ProbeSerial, Rest
  <1>2. /\ SetupOK(draft, host.calibrated, shown) /\ IsSetup(draft) /\ Follows(draft, saved)
        /\ ~draft.sim /\ Known(draft)
    BY <1>1, InTurn DEF Writes
  <1>3. CASE GoOn("prerequisites", draft)
    <2>1. DraftOK("prerequisites", draft, saved, host.calibrated, shown)
      BY <1>2 DEF DraftOK, Writes
    <2> QED BY <1>1, <1>3, <2>1, GoOnInv
  <1>4. CASE ~GoOn("prerequisites", draft)
    <2> DEFINE c == IF NeedsCalibration(Primary(draft)) THEN host.calibrated ELSE draft.calibrated
               s(p) == [draft EXCEPT !.serial = p, !.calibrated = c]
    <2>1. PICK port \in Devices \union {"none"} :
            GoOn("probe_ros2",
                 [draft EXCEPT
                   !.serial = IF ~AutoProbe(Primary(draft)) \/ @ \in Devices THEN @
                              ELSE IF port = "none" THEN "unstable"
                              ELSE IF port \in Controllers THEN port
                              ELSE "unresponsive",
                   !.calibrated = IF NeedsCalibration(Primary(draft)) THEN host.calibrated
                                  ELSE @])
      BY <1>4 DEF ProbeSerial
    <2> DEFINE p == IF ~AutoProbe(Primary(draft)) \/ draft.serial \in Devices THEN draft.serial
                    ELSE IF port = "none" THEN "unstable"
                    ELSE IF port \in Controllers THEN port
                    ELSE "unresponsive"
    <2>2. GoOn("probe_ros2", s(p))
      BY <1>2, <2>1 DEF IsSetup, Fields
    <2>3. (draft.calibrated => c) /\ (c => host.calibrated)
      BY <1>2 DEF SetupOK
    <2> HIDE DEF c, p
    <2>4. /\ IsSetup(s(p)) /\ s(p).stage = draft.stage /\ s(p).robots = draft.robots
          /\ s(p).index = draft.index /\ s(p).sim = draft.sim /\ s(p).calibrated = c
      BY <1>2 DEF IsSetup, Fields
    <2> DEFINE u == s(p)
    <2> HIDE DEF s
    <2>5. SetupOK(u, host.calibrated, shown) /\ Follows(u, saved) /\ Known(u)
      BY <1>2, <2>3, <2>4, SameOK DEF Follows, Known, Primary
    <2>6. DraftOK("probe_ros2", u, saved, host.calibrated, shown)
      BY <1>2, <2>4, <2>5 DEF DraftOK, Writes
    <2> QED BY <1>1, <2>2, <2>6, GoOnInv
  <1> QED BY <1>3, <1>4

LEMMA ProbeRos2Inv == ASSUME Inv, ProbeRos2 PROVE Inv'
  <1>1. at = "probe_ros2" /\ UNCHANGED <<host, calibrating, shown>>
    BY DEF ProbeRos2, Rest
  <1>2. /\ SetupOK(draft, host.calibrated, shown) /\ IsSetup(draft) /\ Follows(draft, saved)
        /\ ~draft.sim /\ Known(draft)
    BY <1>1, InTurn DEF Writes
  <1> DEFINE forced == draft.stage \in Ros2Stages
             asked == forced \/ draft.ros2 = "unknown"
             ros2 == IF host.ros2 = "ok" THEN "yes" ELSE "no"
             seen == IF host.ros2 \in {"partial", "init"} THEN host.ros2 ELSE "none"
             install == draft.install /\ host.ros2 # "ok"
             index == IF host.ros2 = "ok" THEN 0 ELSE draft.index
             s == IF ~asked THEN draft
                  ELSE [draft EXCEPT !.ros2 = ros2, !.seen = seen, !.install = install,
                                     !.index = index]
             reported == s.reported /\ ~forced
             t == [s EXCEPT !.stage = "probe_local_environment", !.reported = reported]
             h == IF forced THEN "recheck" ELSE "findings"
  <1>3. GoOn(h, t)
    BY <1>1, <1>2 DEF ProbeRos2, IsSetup, Fields
  <1>4. forced => Calibrated(draft)
    BY <1>2 DEF SetupOK, Late
  <1>5. h \in {"recheck", "findings"} /\ (h = "recheck" => Calibrated(draft))
    BY <1>4
  <1> HIDE DEF h, forced, asked, ros2, seen, install, index
  <1>6. /\ IsSetup(s) /\ s.robots = draft.robots /\ s.sim = draft.sim
        /\ s.calibrated = draft.calibrated
    BY <1>2 DEF IsSetup, Fields
  <1> HIDE DEF s, reported
  <1>7. /\ IsSetup(t) /\ t.robots = draft.robots /\ t.sim = draft.sim
        /\ t.calibrated = draft.calibrated /\ t.stage = "probe_local_environment"
    BY <1>6 DEF IsSetup, Fields
  <1> HIDE DEF t
  <1>8. SetupOK(t, host.calibrated, shown) /\ Follows(t, saved)
    BY <1>2, <1>7, StageOK, FollowsOK DEF Late, Ros2Stages
  <1>9. DraftOK(h, t, saved, host.calibrated, shown)
    BY <1>2, <1>5, <1>7, <1>8 DEF DraftOK, Writes, Known, Calibrated, Primary
  <1> QED BY <1>1, <1>3, <1>5, <1>9, GoOnInv

LEMMA FindingsInv == ASSUME Inv, Findings PROVE Inv'
  <1>1. at = "findings" /\ UNCHANGED <<host, calibrating, shown>>
    BY DEF Findings, Rest
  <1>2. /\ SetupOK(draft, host.calibrated, shown) /\ IsSetup(draft) /\ Follows(draft, saved)
        /\ ~draft.sim /\ Known(draft)
    BY <1>1, InTurn DEF Writes
  <1> DEFINE w == [draft EXCEPT !.stage = "await_calibration", !.status = "bootstrapping"]
             m == [draft EXCEPT !.stage = "materialize_assembly"]
  <1>3. \/ Ask("probe_local_environment")
        \/ GoOn("calibration", w)
        \/ Calibrated(draft) /\ Ask("resolve_prerequisites")
        \/ Calibrated(draft) /\ GoOn("prerequisites", m)
    BY DEF Findings, Calibrated
  <1>4. /\ IsSetup(w) /\ w.robots = draft.robots /\ w.sim = draft.sim
        /\ w.calibrated = draft.calibrated /\ w.stage = "await_calibration"
        /\ IsSetup(m) /\ m.robots = draft.robots /\ m.sim = draft.sim
        /\ m.calibrated = draft.calibrated /\ m.stage = "materialize_assembly"
    BY <1>2 DEF IsSetup, Fields
  <1> HIDE DEF w, m
  <1>5. CASE Ask("probe_local_environment")
    BY <1>1, <1>2, <1>5, AskInv DEF Late, Ros2Stages
  <1>6. CASE GoOn("calibration", w)
    <2>1. SetupOK(w, host.calibrated, shown) /\ Follows(w, saved)
      BY <1>2, <1>4, StageOK, FollowsOK DEF Late, Ros2Stages
    <2>2. DraftOK("calibration", w, saved, host.calibrated, shown)
      BY <1>2, <1>4, <2>1 DEF DraftOK, Writes, Known, Primary
    <2> QED BY <1>1, <1>6, <2>2, GoOnInv
  <1>7. CASE Calibrated(draft) /\ Ask("resolve_prerequisites")
    BY <1>1, <1>2, <1>7, AskInv
  <1>8. CASE Calibrated(draft) /\ GoOn("prerequisites", m)
    <2>1. SetupOK(m, host.calibrated, shown) /\ Follows(m, saved)
      BY <1>2, <1>4, <1>8, StageOK, FollowsOK
    <2>2. DraftOK("prerequisites", m, saved, host.calibrated, shown)
      BY <1>2, <1>4, <2>1 DEF DraftOK, Writes, Known, Primary
    <2> QED BY <1>1, <1>8, <2>2, GoOnInv
  <1> QED BY <1>3, <1>5, <1>6, <1>7, <1>8

\* A setup that has all its facts goes to its files.
LEMMA ReadyToWrite ==
  ASSUME Inv, at # "idle", ~draft.sim, Known(draft), Calibrated(draft),
         SetupOK(draft, host.calibrated, shown), Follows(draft, saved),
         Materialize([draft EXCEPT !.stage = "materialize_assembly"]),
         UNCHANGED <<host, calibrating, shown>>
  PROVE  Inv'
  <1> DEFINE m == [draft EXCEPT !.stage = "materialize_assembly"]
  <1>1. IsSetup(draft)
    BY DEF SetupOK
  <1>2. /\ IsSetup(m) /\ m.robots = draft.robots /\ m.sim = draft.sim
        /\ m.calibrated = draft.calibrated /\ m.stage = "materialize_assembly"
    BY <1>1 DEF IsSetup, Fields
  <1> HIDE DEF m
  <1>3. SetupOK(m, host.calibrated, shown) /\ Follows(m, saved) /\ Known(m)
    BY <1>2, StageOK, FollowsOK DEF Known, Primary
  <1>4. Materialize(m)
    BY DEF m
  <1> QED BY <1>2, <1>3, <1>4, MaterializeInv

LEMMA RecheckInv == ASSUME Inv, Recheck PROVE Inv'
  <1>1. at = "recheck" /\ UNCHANGED <<host, calibrating, shown>>
    BY DEF Recheck, Rest
  <1>2. /\ SetupOK(draft, host.calibrated, shown) /\ Follows(draft, saved)
        /\ ~draft.sim /\ Known(draft)
        /\ DraftOK("recheck", draft, saved, host.calibrated, shown)
    BY <1>1, InTurn DEF Writes
  <1>3. Calibrated(draft)
    BY <1>2 DEF DraftOK
  <1>4. CASE Materialize([draft EXCEPT !.stage = "materialize_assembly"])
    BY <1>1, <1>2, <1>3, <1>4, ReadyToWrite
  <1>5. CASE Answer(draft)
    BY <1>1, <1>2, <1>5, AnswerInv
  <1> QED BY <1>4, <1>5 DEF Recheck

-----------------------------------------------------------------------------
(* The install guide                                                        *)

LEMMA PrerequisitesInv == ASSUME Inv, Prerequisites PROVE Inv'
  <1>1. at = "prerequisites" /\ UNCHANGED <<host, calibrating>>
    BY DEF Prerequisites
  <1>2. /\ SetupOK(draft, host.calibrated, shown) /\ IsSetup(draft) /\ Follows(draft, saved)
        /\ ~draft.sim /\ Known(draft)
    BY <1>1, InTurn DEF Writes
  <1>3. draft.stage \in Ros2Stages => Calibrated(draft)
    BY <1>2 DEF SetupOK, Late
  <1>4. CASE Materialize(draft) /\ UNCHANGED shown
    BY <1>1, <1>2, <1>4, MaterializeInv
  <1>5. CASE /\ draft.stage \in Ros2Stages /\ UNCHANGED shown
             /\ Materialize([draft EXCEPT !.stage = "materialize_assembly"])
    BY <1>1, <1>2, <1>3, <1>5, ReadyToWrite
  <1>6. CASE Answer(draft) /\ UNCHANGED shown
    BY <1>1, <1>2, <1>6, AnswerInv
  <1>7. CASE draft.stage = "resolve_prerequisites" /\ Prepare(draft)
    <2> DEFINE s == [draft EXCEPT !.stage = "install_prerequisites", !.index = 0,
                                  !.install = FALSE]
    <2>1. Answer(s) /\ shown' = {0}
      BY <1>7 DEF Prepare
    <2>2. /\ IsSetup(s) /\ s.stage = "install_prerequisites" /\ s.robots = draft.robots
          /\ s.index = 0 /\ s.sim = draft.sim /\ s.calibrated = draft.calibrated
      BY <1>2 DEF IsSetup, Fields
    <2> HIDE DEF s
    <2>3. Calibrated(s) /\ Known(s)
      BY <1>2, <1>3, <1>7, <2>2 DEF Calibrated, Known, Primary, Ros2Stages
    <2>4. 0 \in 0..LastStep /\ {0} = 0..0
      BY DEF LastStep
    <2>5. SetupOK(s, host.calibrated, shown')
      BY <1>2, <2>1, <2>2, <2>3, <2>4 DEF SetupOK
    <2> QED BY <1>1, <2>1, <2>5, AnswerInv
  <1>8. CASE draft.stage = "install_prerequisites" /\ NextStep(draft)
    <2> DEFINE t == [draft EXCEPT !.step = FALSE]
               u == [t EXCEPT !.index = draft.index + 1]
               v == [t EXCEPT !.stage = "validate_prerequisites"]
    <2>1. draft.index \in 0..LastStep /\ shown = 0..draft.index /\ Calibrated(draft)
      BY <1>2, <1>3, <1>8 DEF SetupOK, Ros2Stages
    <2>2. IsSetup(t) /\ t.stage = "install_prerequisites" /\ t.robots = draft.robots
          /\ t.index = draft.index /\ t.sim = draft.sim /\ t.calibrated = draft.calibrated
      BY <1>2, <1>8 DEF IsSetup, Fields
    <2>3. \/ /\ draft.index < LastStep /\ shown' = shown \union {draft.index + 1}
             /\ Answer([t EXCEPT !.index = @ + 1])
          \/ draft.index >= LastStep /\ Answer(v) /\ UNCHANGED shown
      BY <1>8, <2>1 DEF NextStep, LastStep
    <2> HIDE DEF t
    <2>4. /\ IsSetup(u) /\ u.stage = "install_prerequisites" /\ u.robots = draft.robots
          /\ u.index = draft.index + 1 /\ u.sim = draft.sim /\ u.calibrated = draft.calibrated
          /\ IsSetup(v) /\ v.stage = "validate_prerequisites" /\ v.robots = draft.robots
          /\ v.sim = draft.sim /\ v.calibrated = draft.calibrated
          /\ [t EXCEPT !.index = @ + 1] = u
      BY <2>2 DEF IsSetup, Fields
    <2> HIDE DEF u, v
    <2>5. Calibrated(u) /\ Known(u) /\ Calibrated(v) /\ Known(v)
      BY <1>2, <2>1, <2>4 DEF Calibrated, Known, Primary
    <2>6. CASE draft.index < LastStep /\ shown' = shown \union {draft.index + 1} /\ Answer(u)
      <3>1. u.index \in 0..LastStep /\ shown' = 0..u.index
        BY <2>1, <2>4, <2>6 DEF LastStep
      <3>2. SetupOK(u, host.calibrated, shown')
        BY <1>2, <2>4, <2>5, <3>1 DEF SetupOK
      <3> QED BY <1>1, <2>6, <3>2, AnswerInv
    <2>7. CASE draft.index >= LastStep /\ Answer(v) /\ UNCHANGED shown
      <3>1. shown' = 0..LastStep
        BY <2>1, <2>7 DEF LastStep
      <3>2. SetupOK(v, host.calibrated, shown')
        BY <1>2, <2>4, <2>5, <3>1 DEF SetupOK
      <3> QED BY <1>1, <2>7, <3>2, AnswerInv
    <2> QED BY <2>3, <2>4, <2>6, <2>7
  <1> QED BY <1>4, <1>5, <1>6, <1>7, <1>8 DEF Prerequisites

-----------------------------------------------------------------------------
(* The files, their check, and the calibration                              *)

LEMMA WriteInv == ASSUME Inv, WriteAssembly \/ WriteDeployment \/ WriteAdapter PROVE Inv'
  <1>1. PICK h \in Writes : at = h
    BY DEF WriteAssembly, WriteDeployment, WriteAdapter, Writes
  <1>2. /\ h # "idle" /\ UNCHANGED <<host, calibrating, shown>>
    BY <1>1 DEF WriteAssembly, WriteDeployment, WriteAdapter, Writes
  <1>3. /\ DraftOK(h, draft, saved, host.calibrated, shown)
        /\ SetupOK(draft, host.calibrated, shown) /\ IsSetup(draft) /\ Follows(draft, saved)
        /\ ~draft.sim => Known(draft)
    BY <1>1, <1>2, InTurn DEF Writes
  <1>4. /\ ~draft.sim => draft.stage \in {"materialize_assembly", "await_calibration"}
        /\ draft.sim => draft.stage = "materialize_assembly"
    BY <1>1, <1>3 DEF DraftOK, Writes
  <1>5. ASSUME NEW n \in {"deployment", "adapter", "check"}
        PROVE  DraftOK(n, draft, saved, host.calibrated, shown)
    BY <1>3, <1>4 DEF DraftOK, Writes
  <1>6. CASE WriteAssembly
    <2>1. GoOn("deployment", draft)
      BY <1>6 DEF WriteAssembly
    <2> QED BY <1>1, <1>2, <1>5, <2>1, GoOnInv
  <1>7. CASE WriteDeployment
    <2>1. GoOn("adapter", draft)
      BY <1>7 DEF WriteDeployment
    <2> QED BY <1>1, <1>2, <1>5, <2>1, GoOnInv
  <1>8. CASE WriteAdapter
    <2> DEFINE v == [draft EXCEPT !.stage = "validate_setup"]
    <2>1. \/ GoOn("check", draft)
          \/ ~draft.sim /\ draft.stage # "await_calibration" /\ GoOn("check", v)
      BY <1>8 DEF WriteAdapter
    <2>2. /\ IsSetup(v) /\ v.stage = "validate_setup" /\ v.robots = draft.robots
          /\ v.sim = draft.sim /\ v.calibrated = draft.calibrated
      BY <1>3 DEF IsSetup, Fields
    <2> HIDE DEF v
    <2>3. ASSUME ~draft.sim, draft.stage # "await_calibration"
          PROVE  DraftOK("check", v, saved, host.calibrated, shown)
      <3>1. Calibrated(draft)
        BY <1>3, <1>4, <2>3 DEF SetupOK, Late
      <3>2. SetupOK(v, host.calibrated, shown) /\ Follows(v, saved) /\ Known(v)
        BY <1>3, <2>2, <2>3, <3>1, StageOK, FollowsOK DEF Known, Primary
      <3> QED BY <2>2, <2>3, <3>2 DEF DraftOK, Writes
    <2> QED BY <1>1, <1>2, <1>5, <2>1, <2>3, GoOnInv
  <1> QED BY <1>6, <1>7, <1>8

LEMMA HandedOffOK ==
  ASSUME NEW s, NEW done, NEW seen, SetupOK(s, done, seen), ~s.sim => Known(s) /\ Calibrated(s)
  PROVE  SetupOK(HandOff(s), done, seen)
  <1> DEFINE t == HandOff(s)
  <1>1. /\ IsSetup(t) /\ t.stage = "handoff_ready" /\ t.robots = s.robots
        /\ t.sim = s.sim /\ t.calibrated = s.calibrated
    BY DEF HandOff, IsSetup, Fields, SetupOK
  <1> HIDE DEF t
  <1>2. SetupOK(t, done, seen)
    BY <1>1, StageOK
  <1> QED BY <1>2 DEF t

LEMMA CheckSetupInv == ASSUME Inv, CheckSetup PROVE Inv'
  <1>1. at = "check" /\ UNCHANGED <<host, calibrating, shown>>
    BY DEF CheckSetup, Rest
  <1>2. /\ SetupOK(draft, host.calibrated, shown) /\ IsSetup(draft)
        /\ ~draft.sim => Known(draft)
    BY <1>1, InTurn
  <1> DEFINE v == [draft EXCEPT !.stage = "validate_setup"]
  <1>3. \/ Answer(draft)
        \/ (draft.sim \/ draft.stage = "validate_setup") /\ (Answer(v) \/ Answer(HandOff(draft)))
    BY DEF CheckSetup
  <1>4. draft.stage = "validate_setup" /\ ~draft.sim => Calibrated(draft)
    BY <1>2 DEF SetupOK, Late
  <1>5. /\ IsSetup(v) /\ v.stage = "validate_setup" /\ v.robots = draft.robots
        /\ v.sim = draft.sim /\ v.calibrated = draft.calibrated
    BY <1>2 DEF IsSetup, Fields
  <1> HIDE DEF v
  <1>6. CASE Answer(draft)
    BY <1>1, <1>2, <1>6, AnswerInv
  <1>7. CASE (draft.sim \/ draft.stage = "validate_setup") /\ Answer(v)
    <2>1. SetupOK(v, host.calibrated, shown)
      BY <1>2, <1>4, <1>5, <1>7, StageOK
    <2> QED BY <1>1, <1>7, <2>1, AnswerInv
  <1>8. CASE (draft.sim \/ draft.stage = "validate_setup") /\ Answer(HandOff(draft))
    <2>1. SetupOK(HandOff(draft), host.calibrated, shown)
      BY <1>2, <1>4, <1>8, HandedOffOK
    <2> QED BY <1>1, <1>8, <2>1, AnswerInv
  <1> QED BY <1>3, <1>6, <1>7, <1>8

LEMMA CheckCalibrationInv == ASSUME Inv, CheckCalibration PROVE Inv'
  <1>1. at = "check" /\ draft.stage = "await_calibration" /\ UNCHANGED <<host, shown>>
    BY DEF CheckCalibration
  <1>2. /\ DraftOK("check", draft, saved, host.calibrated, shown)
        /\ SetupOK(draft, host.calibrated, shown) /\ IsSetup(draft) /\ Follows(draft, saved)
        /\ ~draft.sim => Known(draft)
    BY <1>1, InTurn
  <1>3. ~draft.sim /\ Known(draft)
    BY <1>1, <1>2 DEF DraftOK
  <1>4. PICK s \in {draft, saved} : Answer(s)
    BY DEF CheckCalibration
  <1>5. saved' = s /\ at' = "idle"
    BY <1>4 DEF Answer
  <1>6. saved' # NoSetup => SetupOK(saved', host.calibrated, shown)
    BY <1>2, <1>4, <1>5 DEF Inv
  <1>7. saved' # NoSetup /\ saved'.robots # <<>> => HasProfile(Primary(saved'))
    <2>1. CASE s = draft
      BY <1>3, <1>5, <2>1 DEF Known
    <2>2. CASE s = saved
      BY <1>2, <1>3, <1>5, <2>2 DEF Follows, Known
    <2> QED BY <1>4, <2>1, <2>2
  <1> QED BY <1>1, <1>5, <1>6, <1>7 DEF Inv

\* The machine only gets better.
LEMMA BetterHost ==
  ASSUME NEW s, NEW done, NEW seen, SetupOK(s, done, seen), NEW now, done => now
  PROVE  SetupOK(s, now, seen)
  BY DEF SetupOK

LEMMA HostInv ==
  ASSUME Inv, UNCHANGED <<saved, draft, at, calibrating, shown>>,
         DOMAIN host' = DOMAIN host, host.calibrated => host'.calibrated
  PROVE  Inv'
  <1>1. saved # NoSetup => SetupOK(saved, host'.calibrated, shown)
    BY BetterHost DEF Inv
  <1>2. at # "idle" => DraftOK(at, draft, saved, host'.calibrated, shown)
    BY BetterHost DEF Inv, DraftOK
  <1> QED BY <1>1, <1>2 DEF Inv

LEMMA CalibrationEndsInv == ASSUME Inv, NEW ok \in BOOLEAN, CalibrationEnds(ok) PROVE Inv'
  <1>1. /\ calibrating /\ at = "idle" /\ calibrating' = FALSE /\ UNCHANGED <<at, shown>>
        /\ host' = [host EXCEPT !.calibrated = host.calibrated \/ ok]
    BY DEF CalibrationEnds
  <1>2. DOMAIN host' = DOMAIN host /\ host'.calibrated = (host.calibrated \/ ok)
    BY <1>1 DEF Inv
  <1> DEFINE t == [HandOff(saved) EXCEPT !.calibrated = TRUE]
  <1>3. \/ saved' = saved
        \/ ok /\ saved # NoSetup /\ saved.robots # <<>> /\ saved' = t
    BY DEF CalibrationEnds
  <1>4. saved # NoSetup => SetupOK(saved, host'.calibrated, shown)
    <2>1. host.calibrated => host'.calibrated
      BY <1>2
    <2> QED BY <2>1, BetterHost DEF Inv
  <1>5. ASSUME ok, saved # NoSetup, saved.robots # <<>> PROVE SetupOK(t, host'.calibrated, shown)
    <2>1. Known(saved) /\ SetupOK(saved, host'.calibrated, shown)
      BY <1>1, <1>4, <1>5 DEF Inv, Known
    <2>2. /\ IsSetup(t) /\ t.stage = "handoff_ready" /\ t.robots = saved.robots
          /\ t.sim = saved.sim /\ t.calibrated = TRUE
      BY <2>1 DEF SetupOK, HandOff, IsSetup, Fields
    <2> HIDE DEF t
    <2> QED BY <1>2, <1>5, <2>1, <2>2 DEF SetupOK, Known, Calibrated, Primary
  <1> HIDE DEF t
  <1> QED BY <1>1, <1>2, <1>3, <1>4, <1>5 DEF Inv

LEMMA StopInv == ASSUME Inv, Stop PROVE Inv'
  <1>1. at # "idle" /\ at' = "idle" /\ UNCHANGED <<saved, host, calibrating, shown>>
    BY DEF Stop
  <1> QED BY <1>1 DEF Inv

-----------------------------------------------------------------------------
(* The specification                                                        *)

LEMMA InitInv == Init => Inv
  BY DEF Init, Inv

LEMMA RepliedName == \A s : Reply(s).robot \in {"none", "so101"}
  BY DEF Reply, NoMessage

LEMMA NextInv == Inv /\ [Next]_vars => Inv'
  <1> SUFFICES ASSUME Inv, [Next]_vars PROVE Inv'
    OBVIOUS
  <1>1. CASE Chat
    <2>1. PICK m \in Messages : Receive(m)
      BY <1>1 DEF Chat
    <2>2. m.robot \in Names
      BY DEF Names
    <2> QED BY <2>1, <2>2, ReceiveInv
  <1>2. CASE GoodReply
    <2>1. Receive(Reply(saved))
      BY <1>2 DEF GoodReply
    <2>2. Reply(saved).robot \in Names
      BY RepliedName DEF Names
    <2> HIDE DEF Reply
    <2> QED BY <2>1, <2>2, ReceiveInv
  <1>3. CASE Turn
    BY <1>3, SimulationInv, QuestionsInv, CalibrationInv, ProbeSerialInv, ProbeRos2Inv,
       FindingsInv, RecheckInv, PrerequisitesInv, WriteInv, CheckSetupInv, CheckCalibrationInv
       DEF Turn
  <1>4. CASE Stop
    BY <1>4, StopInv
  <1>5. ASSUME NEW ok \in BOOLEAN, CalibrationEnds(ok) PROVE Inv'
    BY <1>5, CalibrationEndsInv
  <1>6. CASE Plug \/ Ros2Progress \/ CalibratedElsewhere
    <2>1. UNCHANGED <<saved, draft, at, calibrating, shown>>
      BY <1>6 DEF Plug, Ros2Progress, CalibratedElsewhere
    <2>2. \/ host' = [host EXCEPT !.plugged = Devices]
          \/ \E r : host' = [host EXCEPT !.ros2 = r]
          \/ host' = [host EXCEPT !.calibrated = TRUE]
      BY <1>6 DEF Plug, Ros2Progress, CalibratedElsewhere
    <2>3. DOMAIN host' = DOMAIN host /\ (host.calibrated => host'.calibrated)
      BY <2>2 DEF Inv
    <2> QED BY <2>1, <2>3, HostInv
  <1>7. ASSUME NEW f \in HandMade, HandWrite(f) PROVE Inv'
    <2>1. UNCHANGED <<saved, draft, at, host, calibrating, shown>>
      BY <1>7 DEF HandWrite
    <2> QED BY <2>1 DEF Inv
  <1>8. CASE UNCHANGED vars
    BY <1>8 DEF vars, Inv
  <1> QED BY <1>1, <1>2, <1>3, <1>4, <1>5, <1>6, <1>7, <1>8 DEF Next

LEMMA SpecInv == Spec => []Inv
  <1> QED BY InitInv, NextInv, PTL DEF Spec

\* A real setup that was handed off has a robot the framework can control, and the
\* calibration of that robot, if it needs one, has been seen
\* (onboarding/stage_handler.py:278-390, embodied/execution/controller.py:941-966).
THEOREM OnlyReadyWithFacts == Spec => []ReadyFacts
  <1>1. Inv => ReadyFacts
    BY DEF Inv, SetupOK, ReadyFacts, Ready, Known, Calibrated, Late
  <1> QED BY <1>1, SpecInv, PTL

\* The guide asks for the validation only after it has shown every step
\* (onboarding/ros2_install.py:329-338, onboarding/environment_probe.py:288-335).
THEOREM GuideInOrder == Spec => []InstallInOrder
  <1>1. Inv => InstallInOrder
    BY DEF Inv, SetupOK, InstallInOrder
  <1> QED BY <1>1, SpecInv, PTL

-----------------------------------------------------------------------------
(* The files of a setup that was handed off                                 *)

\* Nobody has put a file of his own under an id of the setup, on a path that
\* comes before the one of the setup.
NoneBefore ==
  \A g \in HandMade : Sound(g) /\ g.kind \in Writes /\ g.id \in {"setup", "real", "sim"} => ~(g.rank < 1)

Loadable == \A f \in files \ HandMade : f \in Staged(files)

\* The handlers between the first write and the answer.
Writing == {"deployment", "adapter", "check"}

\* A setup is handed off only after its files were checked; what is handed off
\* stays so in a turn until the turn writes.
LoadsInv ==
  /\ \A f \in files \ HandMade :
       f.ours /\ f.kind \in Writes /\ f.id \in {"setup", "real", "sim"} /\ f.rank = 1
  /\ at \notin Writing /\ saved # NoSetup /\ Ready(saved) /\ ~torn => Loadable
  /\ at \notin Writing \union {"idle"} /\ Ready(draft) => saved # NoSetup /\ Ready(saved)
  /\ at = "check" /\ ~draft.sim /\ Ready(draft) /\ ~torn => Loadable
  /\ calibrating /\ ~torn => Loadable

\* What is checked can be loaded.
LEMMA CheckedLoads == ASSUME LoadsInv, ~Issues PROVE Loadable
  BY DEF LoadsInv, Issues, InspectErrors, Loadable

\* A turn goes on without writing.
LEMMA GoOnLoads ==
  ASSUME Inv, LoadsInv, at \notin Writing \union {"idle"}, NEW h, NEW s, GoOn(h, s),
         h \notin {"idle", "deployment", "adapter"},
         UNCHANGED <<files, calibrating, torn>>, Ready(s) => Ready(draft)
  PROVE  LoadsInv'
  BY DEF LoadsInv, GoOn, Loadable, Writing, Inv

\* A turn answers without having written.
LEMMA AnswerLoads ==
  ASSUME Inv, LoadsInv, at \notin Writing \union {"idle"}, NEW s, Answer(s),
         UNCHANGED <<files, calibrating, torn>>, Ready(s) => Ready(draft) \/ ~Issues
  PROVE  LoadsInv'
  <1>1. Ready(s) /\ ~torn => Loadable
    BY CheckedLoads DEF LoadsInv, Writing
  <1> QED BY <1>1 DEF LoadsInv, Answer, Loadable, Writing, Inv

LEMMA AskLoads ==
  ASSUME Inv, LoadsInv, at \notin Writing \union {"idle"}, NEW stage, Ask(stage),
         UNCHANGED <<files, calibrating, torn>>
  PROVE  LoadsInv'
  <1> DEFINE t == [draft EXCEPT !.stage = stage, !.status = "bootstrapping"]
  <1>1. IsSetup(draft)
    BY InTurn DEF Writing
  <1>2. ~Ready(t)
    BY <1>1 DEF IsSetup, Fields, Ready
  <1> HIDE DEF t
  <1>3. Answer(t)
    BY DEF Ask, t
  <1> QED BY <1>2, <1>3, AnswerLoads

\* A message does not hand a setup off.
LEMMA AppliedReady ==
  ASSUME NEW s, IsSetup(s), NEW m, Ready(Apply(s, m)) PROVE Ready(s)
  <1> DEFINE refine == Ready(s) /\ (m.change # "none" \/ m.serial # "none" \/ m.ros2 # "unknown")
             t == Apply(s, m)
  <1>1. DOMAIN s = Fields
    BY DEF IsSetup
  <1>2. t.stage = IF refine THEN "materialize_assembly" ELSE s.stage
    BY <1>1 DEF Apply, Fields
  <1>3. t.status = IF refine THEN "refining" ELSE s.status
    BY <1>1 DEF Apply, Fields
  <1> HIDE DEF t, refine
  <1> QED BY <1>2, <1>3 DEF Ready, t

LEMMA ReceiveLoads == ASSUME Inv, LoadsInv, NEW m, Receive(m) PROVE LoadsInv'
  <1> DEFINE s == IF saved = NoSetup THEN NewState ELSE saved
  <1>1. /\ at = "idle" /\ at' = "simulation" /\ draft' = Apply(s, m) /\ ~calibrating
        /\ UNCHANGED <<saved, files, calibrating, torn>>
    BY DEF Receive
  <1>2. IsSetup(s)
    BY NewIsSetup DEF Inv, SetupOK
  <1>3. Ready(s) => saved # NoSetup /\ Ready(saved)
    BY NewIsSetup DEF Ready
  <1> HIDE DEF s
  <1>4. Ready(draft') => saved # NoSetup /\ Ready(saved)
    BY <1>1, <1>2, <1>3, AppliedReady
  <1> QED BY <1>1, <1>4 DEF LoadsInv, Loadable, Writing

\* The handlers that look and ask.
LEMMA LookingLoads ==
  ASSUME Inv, LoadsInv,
         Simulation \/ Questions \/ Calibration \/ ProbeSerial \/ ProbeRos2 \/ Findings
           \/ Recheck \/ Prerequisites
  PROVE  LoadsInv'
  <1>1. /\ at \notin Writing \union {"idle"} /\ UNCHANGED <<files, torn>>
        /\ UNCHANGED calibrating
    BY DEF Simulation, Questions, Calibration, ProbeSerial, ProbeRos2, Findings, Recheck,
       Prerequisites, Rest, Writing
  <1>2. IsSetup(draft) /\ DOMAIN draft = Fields
    <2>1. IsSetup(draft)
      BY <1>1, InTurn DEF Writing
    <2> QED BY <2>1 DEF IsSetup
  <1>3. \A h, s : /\ GoOn(h, s) /\ h \notin {"idle", "deployment", "adapter"} /\ (Ready(s) => Ready(draft))
                    => LoadsInv'
                  /\ Answer(s) /\ (Ready(s) => Ready(draft) \/ ~Issues) => LoadsInv'
    BY <1>1, GoOnLoads, AnswerLoads
  <1>4. \A stage : Ask(stage) => LoadsInv'
    BY <1>1, AskLoads
  <1>5. \A s : Materialize(s) /\ (Ready(s) => Ready(draft)) => LoadsInv'
    BY <1>3 DEF Materialize
  <1>6. ASSUME NEW s, DOMAIN s = Fields, NEW st, st # "handoff_ready"
        PROVE  ~Ready([s EXCEPT !.stage = st])
    BY <1>6 DEF Ready, Fields
  <1>7. CASE Simulation
    <2> DEFINE s == IF Contains(draft.robots, SimRobot) THEN draft
                    ELSE [draft EXCEPT !.robots = <<SimRobot>>]
    <2>1. DOMAIN s = Fields
      BY <1>2
    <2>2. \/ GoOn("questions", draft)
          \/ GoOn("assembly", [s EXCEPT !.stage = "materialize_assembly"])
          \/ Answer([s EXCEPT !.stage = "identify_setup_scope"])
      BY <1>7 DEF Simulation
    <2> HIDE DEF s
    <2> QED BY <1>3, <1>6, <2>1, <2>2
  <1>8. CASE Questions
    BY <1>3, <1>4, <1>8 DEF Questions
  <1>9. CASE Calibration
    <2> DEFINE s == [draft EXCEPT !.calibrated = IF NeedsCalibration(Primary(draft))
                                                 THEN host.calibrated ELSE @]
               u == [s EXCEPT !.status = "bootstrapping"]
               v == [s EXCEPT !.stage = "handoff_ready", !.status = "ready"]
    <2>1. \/ GoOn("probe", draft)
          \/ Answer(IF Issues THEN s ELSE v)
          \/ GoOn("assembly", u)
      BY <1>9 DEF Calibration
    <2>2. (Ready(s) => Ready(draft)) /\ ~Ready(u)
      BY <1>2 DEF Ready, Fields
    <2> HIDE DEF s, u, v
    <2> QED BY <1>3, <2>1, <2>2
  <1>10. CASE ProbeSerial
    <2>1. CASE GoOn("prerequisites", draft)
      BY <1>3, <2>1
    <2>2. ASSUME NEW x, NEW y, GoOn("probe_ros2", [draft EXCEPT !.serial = x, !.calibrated = y])
          PROVE  LoadsInv'
      <3> DEFINE s == [draft EXCEPT !.serial = x, !.calibrated = y]
      <3>1. Ready(s) => Ready(draft)
        BY <1>2 DEF Ready, Fields
      <3> HIDE DEF s
      <3>2. GoOn("probe_ros2", s)
        BY <2>2 DEF s
      <3> QED BY <1>3, <3>1, <3>2
    <2>3. \/ GoOn("prerequisites", draft)
          \/ \E x, y : GoOn("probe_ros2", [draft EXCEPT !.serial = x, !.calibrated = y])
      BY <1>10 DEF ProbeSerial
    <2> QED BY <2>1, <2>2, <2>3
  <1>11. CASE ProbeRos2
    <2> DEFINE forced == draft.stage \in Ros2Stages
               asked == forced \/ draft.ros2 = "unknown"
               s == IF ~asked THEN draft
                    ELSE [draft EXCEPT
                           !.ros2 = IF host.ros2 = "ok" THEN "yes" ELSE "no",
                           !.seen = IF host.ros2 \in {"partial", "init"} THEN host.ros2 ELSE "none",
                           !.install = @ /\ host.ros2 # "ok",
                           !.index = IF host.ros2 = "ok" THEN 0 ELSE @]
               u == [s EXCEPT !.stage = "probe_local_environment", !.reported = @ /\ ~forced]
    <2>1. GoOn(IF forced THEN "recheck" ELSE "findings", u)
      BY <1>11 DEF ProbeRos2
    <2>2. DOMAIN s = Fields
      BY <1>2
    <2> HIDE DEF s
    <2>3. ~Ready(u)
      BY <2>2 DEF Ready, Fields
    <2> HIDE DEF u, forced
    <2> QED BY <1>3, <2>1, <2>3
  <1>12. CASE Findings
    <2> DEFINE u == [draft EXCEPT !.stage = "await_calibration", !.status = "bootstrapping"]
               v == [draft EXCEPT !.stage = "materialize_assembly"]
    <2>1. (\E stage : Ask(stage)) \/ GoOn("calibration", u) \/ GoOn("prerequisites", v)
      BY <1>12 DEF Findings
    <2>2. ~Ready(u) /\ ~Ready(v)
      BY <1>2 DEF Ready, Fields
    <2> HIDE DEF u, v
    <2> QED BY <1>3, <1>4, <2>1, <2>2
  <1>13. CASE Recheck
    <2> DEFINE v == [draft EXCEPT !.stage = "materialize_assembly"]
    <2>1. Materialize(v) \/ Answer(draft)
      BY <1>13 DEF Recheck
    <2>2. ~Ready(v)
      BY <1>2, <1>6
    <2> HIDE DEF v
    <2> QED BY <1>3, <1>5, <2>1, <2>2
  <1>14. CASE Prerequisites
    <2> DEFINE v == [draft EXCEPT !.stage = "materialize_assembly"]
               p == [draft EXCEPT !.stage = "install_prerequisites", !.index = 0, !.install = FALSE]
               t == [draft EXCEPT !.step = FALSE]
               n == [t EXCEPT !.index = @ + 1]
               e == [t EXCEPT !.stage = "validate_prerequisites"]
    <2>1. \/ Materialize(draft) \/ Materialize(v)
          \/ Answer(draft) \/ Answer(p) \/ Answer(n) \/ Answer(e)
      BY <1>14 DEF Prerequisites, Prepare, NextStep
    <2>2. /\ ~Ready(v) /\ ~Ready(p) /\ ~Ready(e)
          /\ Ready(n) => Ready(draft)
      BY <1>2 DEF Ready, Fields
    <2> HIDE DEF v, p, n, e
    <2> QED BY <1>3, <1>5, <2>1, <2>2
  <1> QED BY <1>7, <1>8, <1>9, <1>10, <1>11, <1>12, <1>13, <1>14

\* What a write leaves: the files of the setup are not known to load any more.
LEMMA WritingLoads ==
  ASSUME Inv, LoadsInv, WriteAssembly \/ WriteDeployment \/ WriteAdapter
  PROVE  LoadsInv'
  <1>1. at \in Writes /\ at # "idle" /\ ~calibrating
    BY DEF WriteAssembly, WriteDeployment, WriteAdapter, Writes, Inv
  <1>2. /\ IsSetup(draft)
        /\ ~draft.sim => draft.stage \in {"materialize_assembly", "await_calibration"}
    BY <1>1, InTurn DEF DraftOK, Writes
  <1>3. \E k \in Writes, i \in {"setup", "real", "sim"} : Write(File(k, i, draft))
    BY DEF WriteAssembly, WriteDeployment, WriteAdapter, Target, Writes
  <1>4. \A f \in files' \ HandMade :
           f.ours /\ f.kind \in Writes /\ f.id \in {"setup", "real", "sim"} /\ f.rank = 1
    <2>1. PICK k \in Writes, i \in {"setup", "real", "sim"} : Write(File(k, i, draft))
      BY <1>3
    <2> DEFINE f == File(k, i, draft)
               g == [f EXCEPT !.defect = "missing_export"]
    <2>2. /\ f.ours /\ f.kind = k /\ f.id = i /\ f.rank = 1
          /\ g.ours /\ g.kind = k /\ g.id = i /\ g.rank = 1
      BY DEF File
    <2>3. files' = files \/ files' = Put(files, f) \/ files' = Put(files, g)
      BY <2>1 DEF Write
    <2> HIDE DEF f, g
    <2> QED BY <2>2, <2>3 DEF LoadsInv, Put
  <1>5. at' \in Writing /\ calibrating' = calibrating
    BY DEF WriteAssembly, WriteDeployment, WriteAdapter, GoOn, Writing
  <1>6. ASSUME at' = "check", ~draft'.sim PROVE ~Ready(draft')
    <2>1. \/ draft' = draft
          \/ draft' = [draft EXCEPT !.stage = "validate_setup"]
      BY <1>6 DEF WriteAssembly, WriteDeployment, WriteAdapter, GoOn
    <2>2. draft.sim = draft'.sim
      BY <1>2, <2>1 DEF IsSetup, Fields
    <2> QED BY <1>2, <1>6, <2>1, <2>2 DEF Ready, IsSetup, Fields
  <1> QED BY <1>1, <1>4, <1>5, <1>6 DEF LoadsInv, Writing

\* A setup is handed off when its files were found sound.
LEMMA CheckingLoads ==
  ASSUME Inv, LoadsInv, CheckSetup \/ CheckCalibration
  PROVE  LoadsInv'
  <1>1. at = "check" /\ ~calibrating /\ at' = "idle" /\ UNCHANGED <<files, torn>>
    BY DEF CheckSetup, CheckCalibration, Answer, Rest, Inv
  <1>2. IsSetup(draft)
    BY <1>1, InTurn
  <1>3. Ready(saved') /\ ~torn => Loadable
    <2>1. CASE CheckSetup
      <3> DEFINE v == [draft EXCEPT !.stage = "validate_setup"]
      <3>1. \/ saved' = draft /\ ~draft.sim
            \/ saved' = v
            \/ ~Issues
        BY <2>1 DEF CheckSetup, Answer
      <3>2. ~Ready(v)
        BY <1>2 DEF Ready, IsSetup, Fields
      <3> HIDE DEF v
      <3> QED BY <1>1, <3>1, <3>2, CheckedLoads DEF LoadsInv
    <2>2. CASE CheckCalibration
      <3>1. saved' = draft \/ ~Issues
        BY <2>2 DEF CheckCalibration, Answer
      <3>2. ~Ready(draft)
        BY <2>2 DEF CheckCalibration, Ready
      <3> QED BY <3>1, <3>2, CheckedLoads
    <2> QED BY <2>1, <2>2
  <1>4. calibrating' => Loadable
    BY <1>1, CheckedLoads DEF CheckSetup, CheckCalibration, Rest
  <1> QED BY <1>1, <1>3, <1>4 DEF LoadsInv, Loadable, Writing

LEMMA CalibrationEndsLoads ==
  ASSUME Inv, LoadsInv, NEW ok \in BOOLEAN, CalibrationEnds(ok)
  PROVE  LoadsInv'
  <1>1. /\ calibrating /\ ~calibrating' /\ at = "idle" /\ at' = "idle"
        /\ UNCHANGED <<files, torn>>
    BY DEF CalibrationEnds
  <1> QED BY <1>1 DEF LoadsInv, Loadable, Writing

LEMMA StopLoads == ASSUME Inv, LoadsInv, Stop PROVE LoadsInv'
  <1>1. /\ at # "idle" /\ at' = "idle" /\ ~calibrating /\ UNCHANGED <<saved, files, calibrating>>
        /\ torn' = (torn \/ at \in Writing)
    BY DEF Stop, Writing, Inv
  <1> QED BY <1>1 DEF LoadsInv, Loadable, Writing

\* A file of the user's takes no name from the setup.
LEMMA HandWriteLoads ==
  ASSUME NoneBefore, LoadsInv, NEW g \in HandMade, HandWrite(g)
  PROVE  LoadsInv'
  <1>1. files' = files \union {g} /\ UNCHANGED <<saved, draft, at, calibrating, torn>>
    BY DEF HandWrite
  <1>2. files' \ HandMade = files \ HandMade
    BY <1>1
  <1>3. Loadable => Loadable'
    <2> SUFFICES ASSUME Loadable, NEW f \in files \ HandMade PROVE f \in Staged(files')
      BY <1>2 DEF Loadable
    <2>1. f \in files /\ Sound(f) /\ ~Repeated(files, f)
      BY DEF Loadable, Staged
    <2>2. f.kind \in Writes /\ f.id \in {"setup", "real", "sim"} /\ f.rank = 1
      BY DEF LoadsInv
    <2>3. ~(Sound(g) /\ g.kind = f.kind /\ g.id = f.id /\ g.rank < f.rank)
      BY <2>2 DEF NoneBefore
    <2>4. ~Repeated(files', f)
      BY <1>1, <2>1, <2>3 DEF Repeated
    <2> QED BY <1>1, <2>1, <2>4 DEF Staged
  <1> QED BY <1>1, <1>2, <1>3 DEF LoadsInv

LEMMA NextLoads == ASSUME NoneBefore, Inv, LoadsInv, [Next]_vars PROVE LoadsInv'
  <1>1. CASE Chat
    BY <1>1, ReceiveLoads DEF Chat
  <1>2. CASE GoodReply
    <2>1. Receive(Reply(saved))
      BY <1>2 DEF GoodReply
    <2> HIDE DEF Reply
    <2> QED BY <2>1, ReceiveLoads
  <1>3. CASE Turn
    BY <1>3, LookingLoads, WritingLoads, CheckingLoads DEF Turn
  <1>4. CASE Stop
    BY <1>4, StopLoads
  <1>5. ASSUME NEW ok \in BOOLEAN, CalibrationEnds(ok) PROVE LoadsInv'
    BY <1>5, CalibrationEndsLoads
  <1>6. CASE Plug \/ Ros2Progress \/ CalibratedElsewhere \/ UNCHANGED vars
    <2>1. UNCHANGED <<saved, draft, at, files, calibrating, torn>>
      BY <1>6 DEF Plug, Ros2Progress, CalibratedElsewhere, vars
    <2> QED BY <2>1 DEF LoadsInv, Loadable
  <1>7. ASSUME NEW f \in HandMade, HandWrite(f) PROVE LoadsInv'
    BY <1>7, HandWriteLoads
  <1> QED BY <1>1, <1>2, <1>3, <1>4, <1>5, <1>6, <1>7 DEF Next

\* Unless a /stop came between the writes and their check, those files that a setup has
\* when it is handed off can be loaded, as long as nobody puts a file of his own under
\* an id of the setup where the loader comes to it first
\* (onboarding/stage_handler.py:463-498; embodied/workspace.py:346-418).
THEOREM ReadySetupsLoad == ASSUME NoneBefore PROVE Spec => []ReadyLoads
  <1>1. Init => LoadsInv
    BY DEF Init, LoadsInv
  <1>2. Inv /\ LoadsInv /\ [Next]_vars => LoadsInv'
    BY NextLoads
  <1>3. LoadsInv => ReadyLoads
    BY DEF LoadsInv, Loadable, ReadyLoads, Writing
  <1> QED BY <1>1, <1>2, <1>3, SpecInv, PTL DEF Spec
=============================================================================
