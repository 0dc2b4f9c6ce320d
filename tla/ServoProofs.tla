------------------------------ MODULE ServoProofs ------------------------------
(***************************************************************************)
(* The safety properties of ServoBus, for any number of servos, calls,     *)
(* calibrations and faults.                                                *)
(*                                                                         *)
(* Moves are safe because of two facts about an open port (Wired): what is *)
(* to be configured comes first among the steps left, and a servo that the *)
(* server cannot know to have changed is configured or still to be.  The   *)
(* exception is the recovery, which opens with a drop that closes the port *)
(* whatever it raises.  A calibration has one frame because of Framed,     *)
(* which says, stage by stage, which servos are in the frame it needs.     *)
(***************************************************************************)
EXTENDS ServoBus, SequenceTheorems, TLAPS

Plain == [do : {"connect", "disconnect", "drop", "read", "goal"}, joint : Joints]
Steps == [do : {"connect", "disconnect", "drop", "read", "goal", "configure"}, joint : Joints]
Calls == [op : Ops, todo : Seq(Steps), again : BOOLEAN]
Monitors == [stage : Stages, left : Seq(Joints), seen : SUBSET Joints,
             sound : BOOLEAN, excused : BOOLEAN]

Types ==
  /\ servo \in [Joints -> [frame : Frames, torque : BOOLEAN]]
  /\ powered \in BOOLEAN /\ port \in BOOLEAN /\ detached \in BOOLEAN
  /\ server \in {"up", "ended"}
  /\ call \in Calls \cup {NoCall}
  /\ mon \in Monitors
  /\ doubt \in BOOLEAN

\* What is to be configured comes first.
First(t) ==
  \A i, k \in 1..Len(t) : i < k /\ t[k].do = "configure" => t[i].do = "configure"

Pending(t, j) == \E i \in 1..Len(t) : t[i] = Do("configure", j)

\* The recovery is about to close the port.
Dropping(t) == t # <<>> /\ Head(t).do = "drop"

Wired ==
  /\ First(call.todo)
  /\ port /\ ~doubt /\ ~Dropping(call.todo) =>
       \A j \in Joints : Configured(j) \/ Pending(call.todo, j)

\* A disconnect has closed the port when it has no step left, and so has the end.
Closing ==
  /\ call.op = "disconnect" =>
       call.todo = <<Disconnect>> \/ (call.todo = <<>> /\ ~port)
  /\ call = NoCall /\ detached => ~port
  /\ server = "ended" => call = NoCall /\ ~port

Framed ==
  mon.stage # "off" /\ ~mon.excused =>
    /\ mon.sound
    /\ \A j \in Joints :
         /\ mon.stage = "prepare" => j \in Range(mon.left) \/ servo[j].frame = "zero"
         /\ mon.stage \in {"mid", "capture"} => servo[j].frame = "zero"
         /\ mon.stage = "homing" => j \in Range(mon.left) \/ servo[j].frame = "new"
         /\ mon.stage = "observe" => servo[j].frame = "new"

IInv == Types /\ Wired /\ Closing /\ Framed /\ ~astray /\ ~unsound

-----------------------------------------------------------------------------
(* Sequences of steps                                                       *)

LEMMA OrderFacts ==
  /\ Order \in Seq(Joints) /\ Order # <<>> /\ Len(Order) \in Nat \ {0}
  /\ \A i \in 1..Len(Order) : Order[i] \in Joints
  /\ \A j \in Joints : \E i \in 1..Len(Order) : Order[i] = j
  /\ Gripper \in Joints
  <1>1. Order \in Seq(Joints) /\ Order # <<>>
    BY ServoAssumption DEF Joints
  <1>2. Len(Order) \in Nat \ {0} /\ DOMAIN Order = 1..Len(Order)
    BY <1>1, EmptySeq, LenProperties
  <1>3. \A i \in 1..Len(Order) : Order[i] \in Joints
    BY <1>2 DEF Joints, Range
  <1>4. \A j \in Joints : \E i \in 1..Len(Order) : Order[i] = j
    BY <1>2 DEF Joints, Range
  <1>5. Gripper \in Joints
    BY <1>2, <1>3 DEF Gripper, Last
  <1> QED BY <1>1, <1>2, <1>3, <1>4, <1>5

\* A handler configures nothing by itself.
LEMMA PlanPlain ==
  \A o \in Ops : /\ Plan(o) \in Seq(Plain)
                 /\ o = "disconnect" => Plan(o) = <<Disconnect>>
  <1>1. /\ Connect \in Plain /\ Disconnect \in Plain /\ Drop \in Plain /\ Snapshot \in Plain
    BY OrderFacts DEF Connect, Disconnect, Drop, Snapshot, Do, Plain
  <1>2. ASSUME NEW js \in Seq(Joints) PROVE Move(js) \in Seq(Plain)
    <2>1. Len(js) \in Nat /\ \A i \in 1..Len(js) : js[i] \in Joints
      BY <1>2
    <2>2. ASSUME NEW i \in 1..2 * Len(js)
          PROVE  Do(IF i % 2 = 1 THEN "goal" ELSE "read", js[(i + 1) \div 2]) \in Plain
      <3>1. (i + 1) \div 2 \in 1..Len(js)
        BY <2>1
      <3> QED BY <2>1, <3>1 DEF Do, Plain
    <2>3. Move(js) \in [1..2 * Len(js) -> Plain]
      BY <2>2 DEF Move
    <2> QED BY <2>1, <2>3
  <1>3. Move(<<Gripper>>) \in Seq(Plain) /\ Move(Order) \in Seq(Plain)
    <2>1. <<Gripper>> \in Seq(Joints) /\ Order \in Seq(Joints)
      BY OrderFacts
    <2> QED BY <1>2, <2>1
  <1> QED BY <1>1, <1>3 DEF Plan, Ops

LEMMA PlainFirst ==
  \A t \in Seq(Plain) : /\ t \in Seq(Steps) /\ First(t)
                        /\ \A j \in Joints : ~Pending(t, j)
  <1> SUFFICES ASSUME NEW t \in Seq(Plain)
               PROVE  /\ t \in Seq(Steps) /\ First(t)
                      /\ \A j \in Joints : ~Pending(t, j)
    OBVIOUS
  <1>1. \A i \in 1..Len(t) : t[i] \in Plain /\ t[i] \in Steps /\ t[i].do # "configure"
    <2>1. \A i \in 1..Len(t) : t[i] \in Plain
      BY ElementOfSeq
    <2>2. \A s \in Plain : s \in Steps /\ s.do # "configure"
      BY DEF Plain, Steps
    <2> QED BY <2>1, <2>2
  <1>2. t \in Seq(Steps)
    BY <1>1, LenProperties
  <1> QED BY <1>1, <1>2 DEF First, Pending, Do

\* One step less.
LEMMA TailSteps ==
  ASSUME NEW t \in Seq(Steps), t # <<>>, First(t)
  PROVE  /\ Head(t) \in Steps
         /\ Tail(t) \in Seq(Steps) /\ First(Tail(t))
         /\ \A j \in Joints : Pending(t, j) => Head(t) = Do("configure", j) \/ Pending(Tail(t), j)
         /\ Head(t).do # "configure" => Tail(t) \in Seq(Plain) /\ \A j \in Joints : ~Pending(t, j)
  <1>1. /\ Len(t) \in Nat \ {0} /\ Tail(t) \in Seq(Steps) /\ Len(Tail(t)) = Len(t) - 1
        /\ Head(t) = t[1] /\ \A i \in 1..Len(t) : t[i] \in Steps
        /\ \A i \in 1..Len(Tail(t)) : Tail(t)[i] = t[i + 1]
    BY HeadTailProperties, EmptySeq, LenProperties, ElementOfSeq
  <1>2. First(Tail(t))
    BY <1>1 DEF First
  <1>3. ASSUME NEW j \in Joints, Pending(t, j)
        PROVE  Head(t) = Do("configure", j) \/ Pending(Tail(t), j)
    <2>1. PICK i \in 1..Len(t) : t[i] = Do("configure", j)
      BY <1>3 DEF Pending
    <2>2. CASE i = 1
      BY <1>1, <2>1, <2>2
    <2>3. CASE i # 1
      <3>1. i - 1 \in 1..Len(Tail(t)) /\ Tail(t)[i - 1] = t[i]
        BY <1>1, <2>3
      <3> QED BY <2>1, <3>1 DEF Pending
    <2> QED BY <2>2, <2>3
  <1>4. ASSUME Head(t).do # "configure"
        PROVE  Tail(t) \in Seq(Plain) /\ \A j \in Joints : ~Pending(t, j)
    <2>1. \A i \in 1..Len(t) : t[i].do # "configure"
      <3>1. ASSUME NEW i \in 1..Len(t), t[i].do = "configure" PROVE FALSE
        <4>1. i # 1
          BY <1>1, <1>4, <3>1
        <4>2. 1 \in 1..Len(t) /\ 1 < i
          BY <1>1, <4>1
        <4> QED BY <1>1, <1>4, <3>1, <4>2 DEF First
      <3> QED BY <3>1
    <2>2. \A i \in 1..Len(Tail(t)) : Tail(t)[i] \in Plain
      <3>1. ASSUME NEW i \in 1..Len(Tail(t)) PROVE Tail(t)[i] \in Plain
        <4>1. i + 1 \in 1..Len(t)
          BY <1>1
        <4> QED BY <1>1, <2>1, <4>1 DEF Plain, Steps
      <3> QED BY <3>1
    <2>3. Tail(t) \in Seq(Plain)
      <3>1. Tail(t) \in [1..Len(Tail(t)) -> Steps] /\ Len(Tail(t)) \in Nat
        BY <1>1, LenProperties
      <3> DEFINE u == Tail(t)
      <3> HIDE DEF u
      <3>2. u \in [1..Len(u) -> Steps] /\ Len(u) \in Nat /\ \A i \in 1..Len(u) : u[i] \in Plain
        BY <3>1, <2>2 DEF u
      <3>3. u \in [1..Len(u) -> Plain]
        BY <3>2
      <3>4. u \in Seq(Plain)
        BY <3>2, <3>3, SeqDef
      <3> QED BY <3>4 DEF u
    <2> QED BY <2>1, <2>3 DEF Pending, Do
  <1> QED BY <1>1, <1>2, <1>3, <1>4

\* An open port, before anything else.
LEMMA ConfigureSteps ==
  ASSUME NEW t \in Seq(Plain)
  PROVE  LET u == ToEach("configure", Order) \o t IN
         /\ u \in Seq(Steps) /\ First(u)
         /\ \A j \in Joints : Pending(u, j)
  <1> DEFINE c == ToEach("configure", Order)
  <1>1. /\ c \in Seq(Steps) /\ Len(c) = Len(Order) /\ Len(Order) \in Nat
        /\ \A i \in 1..Len(Order) : c[i] = Do("configure", Order[i])
    <2>1. \A i \in 1..Len(Order) : Do("configure", Order[i]) \in Steps
      BY OrderFacts DEF Do, Steps
    <2>2. DOMAIN Order = 1..Len(Order) /\ Len(Order) \in Nat
      BY OrderFacts, LenProperties
    <2>3. /\ c \in [1..Len(Order) -> Steps]
          /\ \A i \in 1..Len(Order) : c[i] = Do("configure", Order[i])
      BY <2>1, <2>2 DEF ToEach
    <2>4. c \in Seq(Steps)
      BY <2>2, <2>3
    <2>5. DOMAIN c = 1..Len(Order) /\ Len(c) \in Nat /\ DOMAIN c = 1..Len(c)
      BY <2>3, <2>4, LenProperties
    <2>6. Len(c) = Len(Order)
      BY <2>2, <2>5
    <2> HIDE DEF c
    <2> QED BY <2>2, <2>3, <2>4, <2>6
  <1>2. t \in Seq(Steps) /\ Len(t) \in Nat /\ \A i \in 1..Len(t) : t[i].do # "configure"
    <2>1. \A i \in 1..Len(t) : t[i] \in Plain
      BY ElementOfSeq
    <2>2. \A s \in Plain : s.do # "configure"
      BY DEF Plain
    <2> QED BY <2>1, <2>2, PlainFirst, LenProperties
  <1> HIDE DEF c
  <1>3. /\ c \o t \in Seq(Steps) /\ Len(c \o t) = Len(Order) + Len(t)
        /\ \A i \in 1..Len(Order) + Len(t) :
             (c \o t)[i] = IF i <= Len(Order) THEN c[i] ELSE t[i - Len(Order)]
    <2>1. c \in Seq(Steps) /\ t \in Seq(Steps) /\ Len(c) = Len(Order)
      BY <1>1, <1>2
    <2>2. /\ c \o t \in Seq(Steps) /\ Len(c \o t) = Len(c) + Len(t)
          /\ \A i \in 1..Len(c) + Len(t) :
               (c \o t)[i] = IF i <= Len(c) THEN c[i] ELSE t[i - Len(c)]
      BY ONLY <2>1, ConcatProperties
    <2> QED BY ONLY <2>1, <2>2
  <1>4. First(c \o t)
    <2>1. \A k \in 1..Len(c \o t) : (c \o t)[k].do = "configure" <=> k <= Len(Order)
      <3>1. SUFFICES ASSUME NEW k \in 1..Len(c \o t)
                     PROVE  (c \o t)[k].do = "configure" <=> k <= Len(Order)
        OBVIOUS
      <3>2. CASE k <= Len(Order)
        <4>1. k \in 1..Len(Order) /\ (c \o t)[k] = Do("configure", Order[k])
          BY <1>1, <1>2, <1>3, <3>2
        <4> QED BY <3>2, <4>1 DEF Do
      <3>3. CASE ~(k <= Len(Order))
        <4>1. k - Len(Order) \in 1..Len(t) /\ (c \o t)[k] = t[k - Len(Order)]
          BY <1>1, <1>2, <1>3, <3>3
        <4> QED BY <1>2, <3>3, <4>1
      <3> QED BY <3>2, <3>3
    <2> QED BY <1>1, <1>2, <1>3, <2>1 DEF First
  <1>5. ASSUME NEW j \in Joints PROVE Pending(c \o t, j)
    <2>1. PICK i \in 1..Len(Order) : Order[i] = j
      BY OrderFacts
    <2>2. i \in 1..Len(c \o t) /\ (c \o t)[i] = Do("configure", j)
      BY <1>1, <1>2, <1>3, <2>1
    <2> QED BY <2>2 DEF Pending
  <1> QED BY <1>3, <1>4, <1>5 DEF c

-----------------------------------------------------------------------------
(* The initial state                                                        *)

LEMMA InitInv == Init => IInv
  <1> SUFFICES ASSUME Init PROVE IInv
    OBVIOUS
  <1>1. Types
    <2>1. servo \in [Joints -> [frame : Frames, torque : BOOLEAN]]
      BY DEF Init, Frames
    <2>2. NoMon \in Monitors
      BY DEF NoMon, Monitors, Stages
    <2> QED BY <2>1, <2>2 DEF Init, Types
  <1>2. Wired /\ Closing /\ Framed
    BY DEF Init, Wired, First, Dropping, Closing, Framed, NoCall, NoMon
  <1> QED BY <1>1, <1>2 DEF Init, IInv

-----------------------------------------------------------------------------
(* The control surface                                                      *)

\* What is known in every step of a call.
LEMMA InCall ==
  ASSUME IInv, Busy
  PROVE  /\ call \in Calls /\ call # NoCall /\ server = "up"
         /\ call.todo \in Seq(Steps) /\ Now \in Steps /\ Tail(call.todo) \in Seq(Steps)
         /\ First(Tail(call.todo))
         /\ \A j \in Joints : Pending(call.todo, j) =>
              Now = Do("configure", j) \/ Pending(Tail(call.todo), j)
         /\ Now.do # "configure" => /\ Tail(call.todo) \in Seq(Plain)
                                    /\ \A j \in Joints : ~Pending(call.todo, j)
         /\ call.op = "disconnect" => Now = Disconnect /\ Tail(call.todo) = <<>>
  <1>1. call \in Calls /\ call # NoCall /\ server = "up" /\ call.todo # <<>>
    BY DEF IInv, Types, Closing, Busy, NoCall
  <1>2. call.todo \in Seq(Steps) /\ First(call.todo)
    BY <1>1 DEF Calls, IInv, Wired
  <1>3. call.op = "disconnect" => Now = Disconnect /\ Tail(call.todo) = <<>>
    <2>1. ASSUME call.todo = <<Disconnect>> PROVE Now = Disconnect /\ Tail(call.todo) = <<>>
      BY <2>1 DEF Now
    <2> QED BY <1>1, <2>1 DEF IInv, Closing
  <1> QED BY <1>1, <1>2, <1>3, TailSteps DEF Now

\* One step of it is done.
LEMMA GoneOn ==
  ASSUME IInv, Busy, NEW t \in Seq(Steps), Goes(t),
         call.op = "disconnect" => t = <<>>
  PROVE  /\ call' \in Calls /\ call' # NoCall /\ call'.todo = t /\ call'.op = call.op
  <1>1. call \in Calls
    BY InCall
  <1>2. call' = [call EXCEPT !.todo = t]
    BY DEF Goes
  <1>3. /\ call' \in Calls /\ call'.todo = t /\ call'.op = call.op
    BY <1>1, <1>2 DEF Calls
  <1>4. call'.op # "none"
    BY <1>3 DEF Calls, Ops
  <1> QED BY <1>3, <1>4 DEF NoCall

LEMMA CallInv ==
  ASSUME IInv, NEW o \in Ops, Call(o) PROVE IInv'
  <1>1. /\ Plan(o) \in Seq(Plain) /\ Plan(o) \in Seq(Steps) /\ First(Plan(o))
        /\ \A j \in Joints : ~Pending(Plan(o), j)
        /\ o = "disconnect" => Plan(o) = <<Disconnect>>
    BY PlanPlain, PlainFirst
  <1>2. /\ call = NoCall /\ call.todo = <<>> /\ server = "up"
        /\ call' = [op |-> o, todo |-> Plan(o), again |-> FALSE]
        /\ UNCHANGED <<servo, powered, server, port, detached, mon, notes>>
    BY DEF Call, NoCall
  <1>3. call' \in Calls /\ call'.op = o /\ call'.todo = Plan(o) /\ call' # NoCall
    <2>1. call' \in Calls /\ call'.op = o /\ call'.todo = Plan(o)
      BY <1>1, <1>2 DEF Calls
    <2>2. o # "none"
      BY DEF Ops
    <2> QED BY <2>1, <2>2 DEF NoCall
  <1>4. Types'
    BY <1>2, <1>3 DEF IInv, Types, notes
  <1>5. Wired'
    <2>1. port /\ ~doubt => \A j \in Joints : Configured(j)
      BY <1>2 DEF IInv, Wired, Dropping, Pending
    <2> QED BY <1>1, <1>2, <1>3, <2>1 DEF Wired, Configured, notes
  <1>6. Closing'
    BY <1>1, <1>2, <1>3 DEF IInv, Closing
  <1>7. Framed'
    BY <1>2 DEF IInv, Framed
  <1> QED BY <1>2, <1>4, <1>5, <1>6, <1>7 DEF IInv, notes

LEMMA NothingToDoInv ==
  ASSUME IInv, NothingToDo PROVE IInv'
  <1>1. /\ Busy /\ Goes(Tail(call.todo)) /\ Now.do # "configure"
        /\ UNCHANGED <<servo, powered, server, port, detached, mon, notes>>
        /\ Now.do \in {"disconnect", "drop"} => ~port
    BY DEF NothingToDo
  <1>2. /\ call' \in Calls /\ call' # NoCall /\ call'.op = call.op
        /\ call'.todo = Tail(call.todo) /\ server = "up"
        /\ First(call'.todo)
        /\ \A j \in Joints : ~Pending(call.todo, j)
        /\ call.op = "disconnect" => Now = Disconnect /\ call'.todo = <<>>
    BY <1>1, InCall, GoneOn
  <1>3. Types'
    BY <1>1, <1>2 DEF IInv, Types, notes
  <1>4. Wired'
    <2>1. Dropping(call.todo) => ~port
      BY <1>1 DEF Dropping, Now
    <2> QED BY <1>1, <1>2, <2>1 DEF IInv, Wired, Configured, notes
  <1>5. Closing'
    BY <1>1, <1>2 DEF IInv, Closing, Disconnect, Do
  <1>6. Framed'
    BY <1>1 DEF IInv, Framed
  <1> QED BY <1>1, <1>3, <1>4, <1>5, <1>6 DEF IInv, notes

LEMMA OpenPortInv ==
  ASSUME IInv, OpenPort PROVE IInv'
  <1> DEFINE t == ToEach("configure", Order) \o Tail(call.todo)
  <1>1. /\ Busy /\ Goes(t) /\ Now.do = "connect" /\ port' = TRUE /\ doubt' = FALSE
        /\ UNCHANGED <<servo, powered, server, detached, mon, astray, unsound>>
    BY DEF OpenPort
  <1>2. /\ Tail(call.todo) \in Seq(Plain) /\ server = "up"
        /\ call.op # "disconnect"
    BY <1>1, InCall DEF Disconnect, Do
  <1>3. t \in Seq(Steps) /\ First(t) /\ \A j \in Joints : Pending(t, j)
    BY <1>2, ConfigureSteps
  <1> HIDE DEF t
  <1>4. call' \in Calls /\ call' # NoCall /\ call'.op = call.op /\ call'.todo = t
    BY <1>1, <1>2, <1>3, GoneOn
  <1>5. Types'
    BY <1>1, <1>4 DEF IInv, Types
  <1>6. Wired' /\ Closing'
    BY <1>1, <1>2, <1>3, <1>4 DEF Wired, Closing
  <1>7. Framed'
    BY <1>1 DEF IInv, Framed
  <1> QED BY <1>1, <1>5, <1>6, <1>7 DEF IInv

\* An access of the server changes frames only when it configures, and says so to a
\* calibration under way.
LEMMA FramesKept ==
  ASSUME IInv, NEW s \in Steps, Touch(s),
         \A j \in Joints : s.do # "configure" => servo'[j].frame = servo[j].frame
  PROVE  Framed' /\ mon' \in Monitors
  <1>1. mon \in Monitors
    BY DEF IInv, Types
  <1>2. /\ mon' \in Monitors /\ mon'.stage = mon.stage /\ mon'.left = mon.left
        /\ mon'.sound = mon.sound
        /\ mon'.excused = (mon.excused \/ (s.do = "configure" /\ mon.stage # "off"))
    BY <1>1 DEF Touch, Monitors
  <1> QED BY <1>2 DEF IInv, Framed

LEMMA OffFramed ==
  ASSUME mon' = NoMon PROVE Framed' /\ mon' \in Monitors
  BY DEF NoMon, Framed, Monitors, Stages

\* What an access may have done.
LEMMA AccessTypes ==
  ASSUME IInv, NEW s \in Steps, NEW registers \in {Written(s)} \cup Half(s)
  PROVE  /\ registers \in [Joints -> [frame : Frames, torque : BOOLEAN]]
         /\ \A j \in Joints : s.do # "configure" => registers[j].frame = servo[j].frame
         /\ s.do \notin {"configure", "disconnect", "drop"} => registers = servo
         /\ \A j \in Joints : j # s.joint => registers[j] = servo[j]
         /\ s.do = "configure" /\ registers = Written(s) =>
              registers[s.joint] = [frame |-> "file", torque |-> TRUE]
  <1>1. servo \in [Joints -> [frame : Frames, torque : BOOLEAN]] /\ s.joint \in Joints
    BY DEF IInv, Types, Steps
  <1>2. "file" \in Frames /\ servo[s.joint].frame \in Frames
    BY <1>1 DEF Frames
  <1>3. CASE s.do = "configure"
    <2>1. \/ registers = [servo EXCEPT ![s.joint] = [frame |-> "file", torque |-> TRUE]]
          \/ registers = servo
          \/ \E f \in {"file", servo[s.joint].frame} :
               registers = [servo EXCEPT ![s.joint] = [frame |-> f, torque |-> FALSE]]
      BY <1>3 DEF Written, Half
    <2>2. Written(s) = [servo EXCEPT ![s.joint] = [frame |-> "file", torque |-> TRUE]]
      BY <1>3 DEF Written
    <2> DEFINE e(f, q) == [servo EXCEPT ![s.joint] = [frame |-> f, torque |-> q]]
    <2>3. ASSUME NEW f \in Frames, NEW q \in BOOLEAN, registers = e(f, q)
          PROVE  /\ registers \in [Joints -> [frame : Frames, torque : BOOLEAN]]
                 /\ registers[s.joint] = [frame |-> f, torque |-> q]
                 /\ \A j \in Joints : j # s.joint => registers[j] = servo[j]
      BY <1>1, <2>3
    <2>4. \/ registers = servo \/ \E f \in Frames, q \in BOOLEAN : registers = e(f, q)
      BY <1>2, <2>1
    <2>5. s.do = "configure" /\ registers = Written(s) => registers = e("file", TRUE)
      BY <2>2
    <2> HIDE DEF e
    <2>6. /\ registers \in [Joints -> [frame : Frames, torque : BOOLEAN]]
          /\ \A j \in Joints : j # s.joint => registers[j] = servo[j]
      BY <1>1, <2>3, <2>4
    <2>7. registers = Written(s) => registers[s.joint] = [frame |-> "file", torque |-> TRUE]
      BY <1>2, <1>3, <2>3, <2>5
    <2> QED BY <1>3, <2>6, <2>7
  <1>4. CASE s.do \in {"disconnect", "drop"}
    <2>1. \/ registers = [servo EXCEPT ![s.joint].torque = FALSE]
          \/ registers = servo
      BY <1>4 DEF Written, Half
    <2>2. servo[s.joint] \in [frame : Frames, torque : BOOLEAN]
      BY <1>1
    <2>3. [servo[s.joint] EXCEPT !.torque = FALSE] \in [frame : Frames, torque : BOOLEAN]
      BY <2>2
    <2>4. /\ registers \in [Joints -> [frame : Frames, torque : BOOLEAN]]
          /\ \A j \in Joints : j # s.joint => registers[j] = servo[j]
          /\ registers[s.joint].frame = servo[s.joint].frame
      BY <1>1, <2>1, <2>2, <2>3
    <2> QED BY <1>4, <2>4
  <1>5. CASE s.do \notin {"configure", "disconnect", "drop"}
    <2>1. registers = servo
      BY <1>5 DEF Written, Half
    <2> QED BY <1>1, <1>5, <2>1
  <1> QED BY <1>3, <1>4, <1>5

\* The port that an access leaves.
LEMMA PortLeft ==
  ASSUME NEW s \in Steps, NEW failed \in BOOLEAN
  PROVE  /\ s.do \in {"disconnect", "drop"} => Closed(s, failed) = FALSE
         /\ s.do \notin {"disconnect", "drop"} => Closed(s, failed) = port
  BY DEF Closed

LEMMA AccessInv ==
  ASSUME IInv, Access PROVE IInv'
  <1>1. /\ Busy /\ port /\ servo' = Written(Now) /\ port' = Closed(Now, FALSE)
        /\ Touch(Now) /\ Sent(Now) /\ Goes(Tail(call.todo))
        /\ UNCHANGED <<powered, server, detached, doubt, unsound>>
    BY DEF Access, OnWire
  <1>2. /\ Now \in Steps /\ call' \in Calls /\ call' # NoCall /\ call'.op = call.op
        /\ call'.todo = Tail(call.todo) /\ server = "up" /\ First(call'.todo)
        /\ \A j \in Joints : Pending(call.todo, j) =>
             Now = Do("configure", j) \/ Pending(call'.todo, j)
        /\ Now.do # "configure" => \A j \in Joints : ~Pending(call.todo, j)
        /\ call.op = "disconnect" => Now = Disconnect /\ call'.todo = <<>>
    BY <1>1, InCall, GoneOn
  <1>3. /\ servo' \in [Joints -> [frame : Frames, torque : BOOLEAN]]
        /\ \A j \in Joints : Now.do # "configure" => servo'[j].frame = servo[j].frame
        /\ Now.do \notin {"configure", "disconnect", "drop"} => servo' = servo
        /\ \A j \in Joints : j # Now.joint => servo'[j] = servo[j]
        /\ Now.do = "configure" => servo'[Now.joint] = [frame |-> "file", torque |-> TRUE]
    BY <1>1, <1>2, AccessTypes
  <1>4. Framed' /\ mon' \in Monitors
    BY <1>1, <1>2, <1>3, FramesKept
  <1>5. Types'
    BY <1>1, <1>2, <1>3, <1>4, PortLeft DEF IInv, Types
  <1>6. Wired'
    <2>1. CASE Now.do \in {"disconnect", "drop"}
      BY <1>1, <1>2, <2>1, PortLeft DEF Wired
    <2>2. CASE Now.do \notin {"disconnect", "drop"}
      <3>1. ~Dropping(call.todo)
        BY <2>2 DEF Dropping, Now
      <3>2. ASSUME ~doubt, NEW j \in Joints
            PROVE  Configured(j)' \/ Pending(call'.todo, j)
        <4>1. Configured(j) \/ Now = Do("configure", j) \/ Pending(call'.todo, j)
          BY <1>1, <1>2, <3>1, <3>2 DEF IInv, Wired
        <4>2. CASE Now = Do("configure", j)
          BY <1>3, <4>2 DEF Do, Configured
        <4>3. CASE Configured(j) /\ Now # Do("configure", j)
          <5>1. Now.do = "configure" => j # Now.joint
            BY <1>2, <4>3 DEF Do, Steps
          <5> QED BY <1>3, <2>2, <4>3, <5>1 DEF Configured
        <4> QED BY <4>1, <4>2, <4>3
      <3> QED BY <1>1, <1>2, <3>2 DEF Wired
    <2> QED BY <2>1, <2>2
  <1>7. Closing'
    BY <1>1, <1>2, PortLeft DEF IInv, Closing, Disconnect, Do
  <1>8. ~astray'
    <2>1. Now.do = "goal" /\ ~doubt => Configured(Now.joint)
      BY <1>1, <1>2 DEF IInv, Wired, Dropping, Now, Steps
    <2> QED BY <1>1, <2>1 DEF Sent, IInv
  <1> QED BY <1>1, <1>4, <1>5, <1>6, <1>7, <1>8 DEF IInv

\* A goal goes to a configured servo, whether or not it is answered.
LEMMA GoalSent ==
  ASSUME IInv, OnWire, Sent(Now) PROVE ~astray'
  <1>1. Busy /\ port
    BY DEF OnWire
  <1>2. Now.do = "goal" /\ ~doubt => Configured(Now.joint)
    BY <1>1, InCall DEF IInv, Wired, Dropping, Now, Steps
  <1> QED BY <1>2 DEF Sent, IInv

\* The recovery starts from the beginning, and without a port.
LEMMA RetriedInv ==
  ASSUME IInv, Retried PROVE IInv'
  <1> DEFINE t == Recovery(call.op)
  <1>1. /\ Busy /\ OnWire /\ Sent(Now) /\ servo' \in Half(Now) /\ port' = Closed(Now, TRUE)
        /\ mon' = NoMon /\ call.op \in Recovers /\ doubt' = FALSE
        /\ call' = [call EXCEPT !.todo = t, !.again = TRUE]
        /\ UNCHANGED <<powered, server, detached, unsound>>
    BY DEF Retried, OnWire, MayRetry
  <1>2. /\ call \in Calls /\ Now \in Steps /\ server = "up" /\ call.op \in Ops
        /\ call.op # "disconnect" /\ call.op # "none"
    BY <1>1, InCall DEF Recovers, Ops
  <1>3. t \in Seq(Plain) /\ t # <<>> /\ Head(t) = Drop
    <2>1. Plan(call.op) \in Seq(Plain)
      BY <1>2, PlanPlain
    <2>2. Drop \in Plain /\ Connect \in Plain
      BY OrderFacts DEF Drop, Connect, Do, Plain
    <2>3. <<Drop, Connect>> \in Seq(Plain) /\ Len(<<Drop, Connect>>) = 2
      BY <2>2
    <2>4. t \in Seq(Plain) /\ Len(t) = 2 + Len(Plan(call.op)) /\ t[1] = Drop
      BY <2>1, <2>3, ConcatProperties DEF Recovery
    <2>5. Len(Plan(call.op)) \in Nat
      BY <2>1, LenProperties
    <2> QED BY <2>4, <2>5, HeadTailProperties, EmptySeq
  <1>4. t \in Seq(Steps) /\ First(t) /\ Dropping(t)
    BY <1>3, PlainFirst DEF Dropping, Drop, Do
  <1> HIDE DEF t
  <1>5. /\ call' \in Calls /\ call'.op = call.op /\ call'.todo = t /\ call' # NoCall
    <2>1. call' \in Calls /\ call'.op = call.op /\ call'.todo = t
      BY <1>1, <1>2, <1>4 DEF Calls
    <2> QED BY <1>2, <2>1 DEF NoCall
  <1>6. Framed' /\ mon' \in Monitors
    BY <1>1, OffFramed
  <1>7. Types'
    <2>1. servo' \in [Joints -> [frame : Frames, torque : BOOLEAN]]
      BY <1>1, <1>2, AccessTypes
    <2>2. port' \in BOOLEAN
      BY <1>1, <1>2, PortLeft DEF IInv, Types
    <2> QED BY <1>1, <1>5, <1>6, <2>1, <2>2 DEF IInv, Types
  <1>8. Wired' /\ Closing'
    BY <1>1, <1>2, <1>4, <1>5 DEF Wired, Closing
  <1>9. ~astray'
    BY <1>1, GoalSent
  <1> QED BY <1>1, <1>6, <1>7, <1>8, <1>9 DEF IInv

LEMMA DroppedInv ==
  ASSUME IInv, Dropped PROVE IInv'
  <1>1. /\ Busy /\ Now.do = "drop" /\ servo' \in Half(Now) /\ port' = Closed(Now, TRUE)
        /\ Goes(Tail(call.todo))
        /\ UNCHANGED <<powered, server, detached, mon, doubt, astray, unsound>>
    BY DEF Dropped, OnWire, notes
  <1>2. /\ Now \in Steps /\ call' \in Calls /\ call' # NoCall /\ call'.op = call.op
        /\ call'.todo = Tail(call.todo) /\ server = "up" /\ First(call'.todo)
        /\ call.op # "disconnect"
    <2>1. call.op # "disconnect"
      BY <1>1, InCall DEF Disconnect, Do
    <2> QED BY <1>1, <2>1, InCall, GoneOn
  <1>3. /\ servo' \in [Joints -> [frame : Frames, torque : BOOLEAN]]
        /\ \A j \in Joints : servo'[j].frame = servo[j].frame
    BY <1>1, <1>2, AccessTypes
  <1>4. port' = FALSE
    BY <1>1, <1>2, PortLeft
  <1>5. Types'
    BY <1>1, <1>2, <1>3, <1>4 DEF IInv, Types
  <1>6. Wired' /\ Closing'
    BY <1>1, <1>2, <1>4 DEF Wired, Closing
  <1>7. Framed'
    BY <1>1, <1>3 DEF IInv, Framed
  <1> QED BY <1>1, <1>5, <1>6, <1>7 DEF IInv

\* A bad answer: no call, and a port that is closed if there is no server.
LEMMA BadAnswer ==
  ASSUME IInv, Busy, Answer(TRUE)
  PROVE  /\ call' = NoCall /\ server' \in {"up", "ended"} /\ detached' \in BOOLEAN
         /\ port' \in {FALSE, Closed(Now, TRUE)} /\ port' \in BOOLEAN
         /\ server' = "ended" => ~port'
         /\ detached' => call.op = "disconnect"
  <1>1. server = "up" /\ port \in BOOLEAN /\ Now \in Steps
    BY InCall DEF IInv, Types
  <1> QED BY <1>1, PortLeft DEF Answer

LEMMA FailsInv ==
  ASSUME IInv, Fails PROVE IInv'
  <1>1. /\ Busy /\ OnWire /\ port /\ Now.do # "drop" /\ servo' \in Half(Now)
        /\ Touch(Now) /\ Sent(Now) /\ doubt' = (doubt \/ Now.do = "configure")
        /\ Answer(TRUE) /\ UNCHANGED <<powered, unsound>>
    BY DEF Fails, OnWire
  <1>2. /\ Now \in Steps
        /\ Now.do # "configure" => \A j \in Joints : ~Pending(call.todo, j)
        /\ call.op = "disconnect" => Now = Disconnect
    BY <1>1, InCall
  <1>3. /\ call' = NoCall /\ server' \in {"up", "ended"} /\ detached' \in BOOLEAN
        /\ port' \in {FALSE, Closed(Now, TRUE)} /\ port' \in BOOLEAN
        /\ server' = "ended" => ~port'
        /\ detached' => call.op = "disconnect"
    BY <1>1, BadAnswer
  <1>4. /\ servo' \in [Joints -> [frame : Frames, torque : BOOLEAN]]
        /\ \A j \in Joints : Now.do # "configure" => servo'[j].frame = servo[j].frame
        /\ Now.do \notin {"configure", "disconnect", "drop"} => servo' = servo
    BY <1>1, <1>2, AccessTypes
  <1>5. Framed' /\ mon' \in Monitors
    BY <1>1, <1>2, <1>4, FramesKept
  <1>6. Types'
    BY <1>1, <1>3, <1>4, <1>5 DEF IInv, Types
  <1>7. Wired'
    <2>1. First(call'.todo)
      BY <1>3 DEF First, NoCall
    <2>2. ASSUME port', ~doubt', NEW j \in Joints PROVE Configured(j)'
      <3>1. Now.do \notin {"disconnect", "drop", "configure"} /\ ~doubt
        BY <1>1, <1>2, <1>3, <2>2, PortLeft
      <3>2. Configured(j)
        BY <1>1, <1>2, <3>1 DEF IInv, Wired, Dropping, Now
      <3> QED BY <1>4, <3>1, <3>2 DEF Configured
    <2> QED BY <2>1, <2>2 DEF Wired
  <1>8. Closing'
    <2>1. detached' => ~port'
      BY <1>2, <1>3, PortLeft DEF Disconnect, Do
    <2> QED BY <1>3, <2>1 DEF Closing, NoCall
  <1>9. ~astray'
    BY <1>1, GoalSent
  <1> QED BY <1>1, <1>5, <1>6, <1>7, <1>8, <1>9 DEF IInv

LEMMA OpenFailsInv ==
  ASSUME IInv, OpenFails PROVE IInv'
  <1>1. /\ Busy /\ Now.do = "connect" /\ ~port /\ Answer(TRUE)
        /\ UNCHANGED <<servo, powered, mon, doubt, astray, unsound>>
    BY DEF OpenFails, notes
  <1>2. /\ call' = NoCall /\ server' \in {"up", "ended"} /\ detached' \in BOOLEAN
        /\ port' = FALSE
    <2>1. Now \in Steps /\ Closed(Now, TRUE) = FALSE
      BY <1>1, InCall DEF IInv, Types, Closed
    <2> QED BY <1>1, <2>1, BadAnswer
  <1>3. Types'
    BY <1>1, <1>2 DEF IInv, Types
  <1>4. Wired' /\ Closing'
    BY <1>2 DEF Wired, Closing, First, NoCall
  <1>5. Framed'
    BY <1>1 DEF IInv, Framed
  <1> QED BY <1>1, <1>3, <1>4, <1>5 DEF IInv

LEMMA SucceedsInv ==
  ASSUME IInv, Succeeds PROVE IInv'
  <1>1. /\ call # NoCall /\ call.todo = <<>> /\ call' = NoCall
        /\ detached' = (call.op = "disconnect")
        /\ UNCHANGED <<servo, powered, server, port, mon, doubt, astray, unsound>>
    BY DEF Succeeds, Busy, notes
  <1>2. Types'
    BY <1>1 DEF IInv, Types
  <1>3. Wired'
    <2>1. port /\ ~doubt => \A j \in Joints : Configured(j)
      BY <1>1 DEF IInv, Wired, Dropping, Pending
    <2> QED BY <1>1, <2>1 DEF Wired, Configured, First, NoCall
  <1>4. Closing'
    <2>1. <<Disconnect>> # <<>>
      OBVIOUS
    <2>2. call.op = "disconnect" => ~port
      BY <1>1, <2>1 DEF IInv, Closing
    <2>3. server # "ended"
      BY <1>1 DEF IInv, Closing
    <2> QED BY <1>1, <2>2, <2>3 DEF Closing, NoCall
  <1>5. Framed'
    BY <1>1 DEF IInv, Framed
  <1> QED BY <1>1, <1>2, <1>3, <1>4, <1>5 DEF IInv

LEMMA LaunchInv ==
  ASSUME IInv, Launch PROVE IInv'
  <1>1. /\ server = "ended" /\ server' = "up" /\ detached' = FALSE
        /\ UNCHANGED <<servo, powered, port, call, mon, doubt, astray, unsound>>
    BY DEF Launch, notes
  <1> QED BY <1>1 DEF IInv, Types, Wired, Closing, Framed, Configured, NoCall

-----------------------------------------------------------------------------
(* The calibration monitor and the power                                    *)

\* A step of the monitor leaves the calls alone; if it changes a servo while the
\* port is open the server cannot know.
LEMMA MonitorStep ==
  ASSUME IInv, UNCHANGED <<server, port, call, detached, astray>>,
         UNCHANGED unsound \/ ~unsound', powered' \in BOOLEAN,
         servo' \in [Joints -> [frame : Frames, torque : BOOLEAN]],
         \/ servo' = servo /\ doubt' = doubt
         \/ doubt' = (doubt \/ port),
         mon' \in Monitors, Framed'
  PROVE  IInv'
  <1>1. Types'
    BY DEF IInv, Types
  <1>2. Wired'
    BY DEF IInv, Types, Wired, Configured
  <1>3. Closing'
    BY DEF IInv, Closing
  <1> QED BY <1>1, <1>2, <1>3 DEF IInv

\* The same without an effect on the servos.
LEMMA QuietStep ==
  ASSUME IInv, UNCHANGED <<servo, powered, host, doubt, astray>>,
         UNCHANGED unsound \/ ~unsound', mon' \in Monitors, Framed'
  PROVE  IInv'
  <1>1. /\ UNCHANGED <<server, port, call, detached, astray>>
        /\ servo' = servo /\ doubt' = doubt
    BY DEF host
  <1>2. servo' \in [Joints -> [frame : Frames, torque : BOOLEAN]] /\ powered' \in BOOLEAN
    BY <1>1 DEF IInv, Types
  <1> QED BY <1>1, <1>2, MonitorStep

\* The servos left, and the one that is next.
LEMMA LeftServos ==
  ASSUME IInv, mon.left # <<>>
  PROVE  /\ Head(mon.left) \in Joints /\ Tail(mon.left) \in Seq(Joints)
         /\ \A j \in Range(mon.left) : j = Head(mon.left) \/ j \in Range(Tail(mon.left))
  <1>1. mon.left \in Seq(Joints)
    BY DEF IInv, Types, Monitors
  <1> DEFINE s == mon.left
  <1> HIDE DEF s
  <1>2. /\ Len(s) \in Nat \ {0} /\ DOMAIN s = 1..Len(s) /\ s # <<>> /\ s \in Seq(Joints)
        /\ Head(s) = s[1] /\ Tail(s) \in Seq(Joints) /\ Len(Tail(s)) = Len(s) - 1
        /\ \A i \in 1..Len(Tail(s)) : Tail(s)[i] = s[i + 1]
        /\ s[1] \in Joints
    BY <1>1, EmptySeq, LenProperties, HeadTailProperties, ElementOfSeq DEF s
  <1>3. ASSUME NEW j \in Range(s), j # Head(s) PROVE j \in Range(Tail(s))
    <2>1. PICK i \in 1..Len(s) : s[i] = j
      BY <1>2 DEF Range
    <2>2. i - 1 \in 1..Len(Tail(s)) /\ Tail(s)[i - 1] = j
      BY <1>2, <1>3, <2>1
    <2>3. DOMAIN Tail(s) = 1..Len(Tail(s))
      BY <1>2, LenProperties
    <2> QED BY <2>2, <2>3 DEF Range
  <1> QED BY <1>2, <1>3 DEF s

LEMMA OrderRange == Range(Order) = Joints /\ Range(<<>>) = {} /\ <<>> \in Seq(Joints)
  BY DEF Joints, Range

\* The monitor, when it goes on to the servo after this one.
LEMMA NextMon ==
  ASSUME IInv, mon.left # <<>>, NEW excused \in BOOLEAN, NEW sound \in BOOLEAN,
         NEW seen \in SUBSET Joints,
         mon' = [mon EXCEPT !.left = Tail(@), !.excused = excused, !.sound = sound, !.seen = seen]
  PROVE  /\ mon' \in Monitors /\ mon'.stage = mon.stage /\ mon'.left = Tail(mon.left)
         /\ mon'.excused = excused /\ mon'.sound = sound
  <1>1. mon \in Monitors /\ Tail(mon.left) \in Seq(Joints)
    BY LeftServos DEF IInv, Types
  <1> QED BY <1>1 DEF Monitors

LEMMA PrepareInv ==
  ASSUME IInv, Prepare PROVE IInv'
  <1> DEFINE j == Head(mon.left)
  <1>1. /\ mon.stage = "prepare" /\ mon.left # <<>>
        /\ UNCHANGED <<powered, server, port, call, detached, astray, unsound>>
        /\ doubt' = (doubt \/ port) /\ powered' \in BOOLEAN
    BY DEF Prepare, At, host, IInv, Types
  <1>2. /\ mon \in Monitors /\ servo \in [Joints -> [frame : Frames, torque : BOOLEAN]]
        /\ j \in Joints /\ mon.sound \in BOOLEAN /\ mon.excused \in BOOLEAN
        /\ mon.seen \in SUBSET Joints
    BY <1>1, LeftServos DEF IInv, Types, Monitors
  <1>3. CASE servo' = [servo EXCEPT ![j] = [frame |-> "zero", torque |-> FALSE]] /\ mon' = NextServo
    <2>1. mon' = [mon EXCEPT !.left = Tail(@), !.excused = mon.excused, !.sound = mon.sound,
                             !.seen = mon.seen]
      BY <1>2, <1>3 DEF NextServo, Monitors
    <2>2. /\ mon' \in Monitors /\ mon'.stage = mon.stage /\ mon'.left = Tail(mon.left)
          /\ mon'.excused = mon.excused /\ mon'.sound = mon.sound
      BY <1>1, <1>2, <2>1, NextMon
    <2>3. /\ servo' \in [Joints -> [frame : Frames, torque : BOOLEAN]]
          /\ servo'[j].frame = "zero"
          /\ \A k \in Joints : k # j => servo'[k] = servo[k]
      BY <1>2, <1>3 DEF Frames
    <2>4. Framed'
      BY <1>1, <2>2, <2>3, LeftServos DEF IInv, Framed
    <2> QED BY <1>1, <2>2, <2>3, <2>4, MonitorStep
  <1>4. CASE /\ servo' \in {servo, [servo EXCEPT ![j].torque = FALSE]}
             /\ mon' = [NextServo EXCEPT !.excused = TRUE]
    <2>1. mon' = [mon EXCEPT !.left = Tail(@), !.excused = TRUE, !.sound = mon.sound,
                             !.seen = mon.seen]
      BY <1>2, <1>4 DEF NextServo, Monitors
    <2>2. mon' \in Monitors /\ mon'.excused
      BY <1>1, <1>2, <2>1, NextMon
    <2>3. servo' \in [Joints -> [frame : Frames, torque : BOOLEAN]]
      BY <1>2, <1>4
    <2>4. Framed'
      BY <2>2 DEF Framed
    <2> QED BY <1>1, <2>2, <2>3, <2>4, MonitorStep
  <1> QED BY <1>3, <1>4 DEF Prepare

LEMMA CaptureInv ==
  ASSUME IInv, Capture PROVE IInv'
  <1> DEFINE j == Head(mon.left)
  <1>1. /\ mon.stage = "capture" /\ mon.left # <<>>
        /\ UNCHANGED <<servo, powered, host, doubt, astray, unsound>>
        /\ mon' = [NextServo EXCEPT !.sound = @ /\ servo[j].frame = "zero"]
    BY DEF Capture, At, notes
  <1>2. /\ mon \in Monitors /\ j \in Joints /\ mon.sound \in BOOLEAN
        /\ mon.excused \in BOOLEAN /\ mon.seen \in SUBSET Joints
    BY <1>1, LeftServos DEF IInv, Types, Monitors
  <1> DEFINE sound == mon.sound /\ servo[j].frame = "zero"
  <1>3. sound \in BOOLEAN
    BY <1>2
  <1>4. mon' = [mon EXCEPT !.left = Tail(@), !.excused = mon.excused, !.sound = sound,
                           !.seen = mon.seen]
    BY <1>1, <1>2 DEF NextServo, Monitors
  <1>5. /\ mon' \in Monitors /\ mon'.stage = mon.stage /\ mon'.left = Tail(mon.left)
        /\ mon'.excused = mon.excused /\ mon'.sound = sound
    <2> HIDE DEF sound
    <2>1. /\ mon.left # <<>> /\ mon.excused \in BOOLEAN /\ mon.seen \in SUBSET Joints
      BY <1>1, <1>2
    <2> QED BY <1>3, <1>4, <2>1, NextMon
  <1>6. Framed'
    <2>1. SUFFICES ASSUME mon'.stage # "off", ~mon'.excused
                   PROVE  mon'.sound /\ \A x \in Joints : servo'[x].frame = "zero"
      BY <1>1, <1>5 DEF Framed
    <2>2. mon.sound /\ \A x \in Joints : servo[x].frame = "zero"
      BY <1>1, <1>5, <2>1 DEF IInv, Framed
    <2>3. UNCHANGED servo
      BY <1>1
    <2> QED BY <1>2, <1>5, <2>2, <2>3
  <1> QED BY <1>1, <1>5, <1>6, QuietStep

LEMMA HomeInv ==
  ASSUME IInv, Home PROVE IInv'
  <1> DEFINE j == Head(mon.left)
  <1>1. /\ mon.stage = "homing" /\ mon.left # <<>> /\ mon' = NextServo
        /\ servo' = [servo EXCEPT ![j].frame = "new"]
        /\ UNCHANGED <<powered, server, port, call, detached, astray, unsound>>
        /\ doubt' = (doubt \/ port) /\ powered' \in BOOLEAN
    BY DEF Home, At, host, IInv, Types
  <1>2. /\ mon \in Monitors /\ servo \in [Joints -> [frame : Frames, torque : BOOLEAN]]
        /\ j \in Joints /\ mon.sound \in BOOLEAN /\ mon.excused \in BOOLEAN
        /\ mon.seen \in SUBSET Joints
    BY <1>1, LeftServos DEF IInv, Types, Monitors
  <1>3. mon' = [mon EXCEPT !.left = Tail(@), !.excused = mon.excused, !.sound = mon.sound,
                           !.seen = mon.seen]
    BY <1>1, <1>2 DEF NextServo, Monitors
  <1>4. /\ mon' \in Monitors /\ mon'.stage = mon.stage /\ mon'.left = Tail(mon.left)
        /\ mon'.excused = mon.excused /\ mon'.sound = mon.sound
    <2>1. /\ mon.left # <<>> /\ mon.sound \in BOOLEAN /\ mon.excused \in BOOLEAN
          /\ mon.seen \in SUBSET Joints
      BY <1>1, <1>2
    <2> QED BY <1>3, <2>1, NextMon
  <1>5. /\ servo' \in [Joints -> [frame : Frames, torque : BOOLEAN]]
        /\ servo'[j].frame = "new"
        /\ \A k \in Joints : k # j => servo'[k] = servo[k]
    <2>1. servo[j] \in [frame : Frames, torque : BOOLEAN] /\ "new" \in Frames
      BY <1>2 DEF Frames
    <2>2. /\ [servo[j] EXCEPT !.frame = "new"] \in [frame : Frames, torque : BOOLEAN]
          /\ [servo[j] EXCEPT !.frame = "new"].frame = "new"
      BY <2>1
    <2> QED BY <1>1, <1>2, <2>2
  <1>6. Framed'
    BY <1>1, <1>4, <1>5, LeftServos DEF IInv, Framed
  <1> QED BY <1>1, <1>4, <1>5, <1>6, MonitorStep

LEMMA ObserveInv ==
  ASSUME IInv, Observe PROVE IInv'
  <1> DEFINE j == Head(mon.left)
  <1>1. /\ mon.stage = "observe" /\ mon.left # <<>>
        /\ UNCHANGED <<servo, powered, host, doubt, astray, unsound>>
        /\ \/ mon' = [NextServo EXCEPT !.seen = @ \cup {j},
                                        !.sound = @ /\ servo[j].frame = "new"]
           \/ mon' = NextServo
    BY DEF Observe, At, notes
  <1>2. /\ mon \in Monitors /\ j \in Joints /\ mon.sound \in BOOLEAN
        /\ mon.excused \in BOOLEAN /\ mon.seen \in SUBSET Joints
    BY <1>1, LeftServos DEF IInv, Types, Monitors
  <1> DEFINE sound == mon.sound /\ servo[j].frame = "new"
  <1>3. sound \in BOOLEAN /\ mon.seen \cup {j} \in SUBSET Joints
    BY <1>2
  <1>4. \/ mon' = [mon EXCEPT !.left = Tail(@), !.excused = mon.excused, !.sound = sound,
                              !.seen = mon.seen \cup {j}]
        \/ mon' = [mon EXCEPT !.left = Tail(@), !.excused = mon.excused, !.sound = mon.sound,
                              !.seen = mon.seen]
    BY <1>1, <1>2 DEF NextServo, Monitors
  <1>5. /\ mon' \in Monitors /\ mon'.stage = mon.stage /\ mon'.left = Tail(mon.left)
        /\ mon'.excused = mon.excused /\ mon'.sound \in {sound, mon.sound}
    <2> HIDE DEF sound
    <2>1. /\ mon.left # <<>> /\ mon.excused \in BOOLEAN /\ mon.seen \in SUBSET Joints
          /\ mon.sound \in BOOLEAN
      BY <1>1, <1>2
    <2>2. CASE mon' = [mon EXCEPT !.left = Tail(@), !.excused = mon.excused, !.sound = sound,
                                  !.seen = mon.seen \cup {j}]
      BY <1>3, <2>1, <2>2, NextMon
    <2>3. CASE mon' = [mon EXCEPT !.left = Tail(@), !.excused = mon.excused,
                                  !.sound = mon.sound, !.seen = mon.seen]
      BY <2>1, <2>3, NextMon
    <2> QED BY <1>4, <2>2, <2>3
  <1>6. Framed'
    <2>1. SUFFICES ASSUME mon'.stage # "off", ~mon'.excused
                   PROVE  mon'.sound /\ \A x \in Joints : servo'[x].frame = "new"
      BY <1>1, <1>5 DEF Framed
    <2>2. mon.sound /\ \A x \in Joints : servo[x].frame = "new"
      BY <1>1, <1>5, <2>1 DEF IInv, Framed
    <2>3. UNCHANGED servo
      BY <1>1
    <2> QED BY <1>2, <1>5, <2>2, <2>3
  <1> QED BY <1>1, <1>5, <1>6, QuietStep

\* From one stage to the next.
LEMMA StageInv ==
  ASSUME IInv, Begin \/ Prepared \/ EnterMid \/ Captured \/ Observing \/ ObserveAgain
  PROVE  IInv'
  <1>1. mon \in Monitors /\ Order \in Seq(Joints) /\ <<>> \in Seq(Joints)
    BY OrderFacts, OrderRange DEF IInv, Types
  <1>2. UNCHANGED <<servo, powered, host, doubt, astray, unsound>>
    BY DEF Begin, Prepared, EnterMid, Captured, Observing, ObserveAgain, notes
  <1>3. ASSUME Begin PROVE mon' \in Monitors /\ Framed'
    <2>1. mon' = [NoMon EXCEPT !.stage = "prepare", !.left = Order]
      BY <1>3 DEF Begin
    <2>2. /\ mon' \in Monitors /\ mon'.sound = TRUE /\ mon'.stage = "prepare" /\ mon'.left = Order
      BY <1>1, <2>1 DEF NoMon, Monitors, Stages
    <2> QED BY <2>2, OrderRange DEF Framed
  <1> DEFINE Moved(s, js) ==
        /\ mon' \in Monitors /\ mon'.stage = s /\ mon'.left = js
        /\ mon'.sound = mon.sound /\ mon'.excused = mon.excused
  <1>4. ASSUME NEW s \in Stages, NEW js \in Seq(Joints), Stage(s, js)
        PROVE  Moved(s, js)
    BY <1>1, <1>4 DEF Stage, Monitors
  <1>5. ASSUME Observing PROVE Moved("observe", Order)
    <2>1. mon' = [mon EXCEPT !.stage = "observe", !.left = Order, !.seen = {}]
      BY <1>5 DEF Observing
    <2> QED BY <1>1, <2>1 DEF Monitors, Stages
  <1>6. /\ Prepared => Moved("mid", <<>>)
        /\ EnterMid => Moved("capture", Order)
        /\ Captured => Moved("homing", Order)
        /\ ObserveAgain => Moved("observe", Order)
    BY <1>1, <1>4 DEF Prepared, EnterMid, Captured, ObserveAgain, Stages
  <1>7. /\ Prepared => mon.stage = "prepare" /\ mon.left = <<>>
        /\ EnterMid => mon.stage = "mid"
        /\ Captured => mon.stage = "capture"
        /\ Observing => mon.stage = "homing" /\ mon.left = <<>>
        /\ ObserveAgain => mon.stage = "observe"
    BY DEF Prepared, EnterMid, Captured, Observing, ObserveAgain, Done
  <1>8. servo' = servo
    BY <1>2
  <1>9. CASE Begin
    BY <1>2, <1>3, <1>9, QuietStep
  <1>10. CASE Prepared
    <2>1. Framed'
      BY <1>6, <1>7, <1>8, <1>10, OrderRange DEF IInv, Framed
    <2> QED BY <1>2, <1>6, <1>10, <2>1, QuietStep
  <1>11. CASE EnterMid
    <2>1. Framed'
      BY <1>6, <1>7, <1>8, <1>11 DEF IInv, Framed
    <2> QED BY <1>2, <1>6, <1>11, <2>1, QuietStep
  <1>12. CASE Captured
    <2>1. Framed'
      BY <1>6, <1>7, <1>8, <1>12, OrderRange DEF IInv, Framed
    <2> QED BY <1>2, <1>6, <1>12, <2>1, QuietStep
  <1>13. CASE Observing
    <2>1. Framed'
      BY <1>5, <1>7, <1>8, <1>13, OrderRange DEF IInv, Framed
    <2> QED BY <1>2, <1>5, <1>13, <2>1, QuietStep
  <1>14. CASE ObserveAgain
    <2>1. Framed'
      BY <1>6, <1>7, <1>8, <1>14 DEF IInv, Framed
    <2> QED BY <1>2, <1>6, <1>14, <2>1, QuietStep
  <1> QED BY <1>9, <1>10, <1>11, <1>12, <1>13, <1>14

\* The monitor ends, and what it exports is sound.
LEMMA EndInv ==
  ASSUME IInv, Abort \/ Export PROVE IInv'
  <1>1. /\ mon' = NoMon
        /\ UNCHANGED <<servo, powered, host, doubt, astray>>
    BY DEF Abort, Export, notes
  <1>2. UNCHANGED unsound \/ ~unsound'
    <2>1. CASE Abort
      BY <2>1 DEF Abort, notes
    <2>2. CASE Export
      <3>1. mon.stage # "off"
        BY <2>2 DEF Export, Done
      <3>2. mon.sound \/ mon.excused
        BY <3>1 DEF IInv, Framed
      <3>3. unsound' = (unsound \/ ~(mon.sound \/ mon.excused))
        BY <2>2 DEF Export
      <3> QED BY <3>2, <3>3 DEF IInv
    <2> QED BY <2>1, <2>2
  <1>3. Framed' /\ mon' \in Monitors
    BY <1>1, OffFramed
  <1> QED BY <1>1, <1>2, <1>3, QuietStep

LEMMA PowerInv ==
  ASSUME IInv, PowerOff \/ PowerOn PROVE IInv'
  <1>1. CASE PowerOff
    <2>1. /\ servo' = [j \in Joints |-> [servo[j] EXCEPT !.torque = FALSE]]
          /\ UNCHANGED <<server, port, call, detached, mon, astray, unsound>>
          /\ powered' \in BOOLEAN /\ doubt' = (doubt \/ port)
      BY <1>1 DEF PowerOff, host
    <2>2. ASSUME NEW j \in Joints
          PROVE  /\ [servo[j] EXCEPT !.torque = FALSE] \in [frame : Frames, torque : BOOLEAN]
                 /\ [servo[j] EXCEPT !.torque = FALSE].frame = servo[j].frame
      <3>1. servo[j] \in [frame : Frames, torque : BOOLEAN]
        BY DEF IInv, Types
      <3> QED BY <3>1
    <2>3. /\ servo' \in [Joints -> [frame : Frames, torque : BOOLEAN]]
          /\ \A j \in Joints : servo'[j].frame = servo[j].frame
      BY <2>1, <2>2
    <2>4. Framed' /\ mon' \in Monitors
      BY <2>1, <2>3 DEF IInv, Types, Framed
    <2> QED BY <2>1, <2>3, <2>4, MonitorStep
  <1>2. CASE PowerOn
    <2>1. /\ UNCHANGED <<servo, server, port, call, detached, mon, doubt, astray, unsound>>
          /\ powered' \in BOOLEAN
      BY <1>2 DEF PowerOn, host, notes
    <2>2. /\ servo' \in [Joints -> [frame : Frames, torque : BOOLEAN]]
          /\ Framed' /\ mon' \in Monitors
      BY <2>1 DEF IInv, Types, Framed
    <2> QED BY <2>1, <2>2, MonitorStep
  <1> QED BY <1>1, <1>2

LEMMA NextInv == IInv /\ [Next]_vars => IInv'
  <1> SUFFICES ASSUME IInv, [Next]_vars PROVE IInv'
    OBVIOUS
  <1>1. ASSUME NEW o \in Ops, Call(o) PROVE IInv'
    BY <1>1, CallInv
  <1>2. CASE Serve
    BY <1>2, NothingToDoInv, OpenPortInv, AccessInv, RetriedInv, DroppedInv, FailsInv,
       OpenFailsInv, SucceedsInv DEF Serve
  <1>3. CASE Monitor
    BY <1>3, StageInv, PrepareInv, CaptureInv, HomeInv, ObserveInv, EndInv DEF Monitor
  <1>4. CASE Launch \/ PowerOff \/ PowerOn
    BY <1>4, LaunchInv, PowerInv
  <1>5. CASE UNCHANGED vars
    BY <1>5 DEF vars, host, notes, IInv, Types, Wired, Closing, Framed, Configured
  <1> QED BY <1>1, <1>2, <1>3, <1>4, <1>5 DEF Next

-----------------------------------------------------------------------------
(* The theorems                                                             *)

LEMMA SpecInv == Spec => []IInv
  <1> QED BY InitInv, NextInv, PTL DEF Spec

\* No goal is written to a servo that the server could know to be without its
\* calibration or its torque (so101_feetech.py:100-117, control_surface.py:251-268).
THEOREM ServoMovedAsCalibrated == Spec => []MovedAsCalibrated
  <1>1. IInv => MovedAsCalibrated
    BY DEF IInv, MovedAsCalibrated
  <1> QED BY <1>1, SpecInv, PTL

\* The serial port is closed after a disconnect and after the end of the server,
\* whatever failed on the way (so101_feetech.py:119-130).
THEOREM ServoPortGivenBack == Spec => []PortGivenBack
  <1>1. IInv => PortGivenBack
    BY DEF IInv, Closing, PortGivenBack
  <1> QED BY <1>1, SpecInv, PTL

\* A calibration that is saved was measured in one frame (so101_feetech.py:354-484).
THEOREM ServoSavedSound == Spec => []SavedSound
  <1>1. IInv => SavedSound
    BY DEF IInv, SavedSound
  <1> QED BY <1>1, SpecInv, PTL
=============================================================================
