------------------------------ MODULE TurnProofs ------------------------------
(***************************************************************************)
(* What holds of the agent's turns for any number of chats, messages,      *)
(* subagents and direct runs. The inductive invariant adds to the          *)
(* properties what the queues hold (a waiter is queued or being cancelled,  *)
(* once), which kinds of turn are in which phase, and the argument why the *)
(* context that all turns share does no harm: a turn that no direct run     *)
(* overlaps is alone, so that the context is the one it has set. The last   *)
(* part shows, step by step, that the agent implements TurnServer.          *)
(***************************************************************************)
EXTENDS AgentTurns, SequenceTheorems, TLAPS

Items(q)    == {q[i] : i \in 1..Len(q)}
Distinct(q) == \A i, j \in 1..Len(q) : q[i] = q[j] => i = j

-----------------------------------------------------------------------------
(* The queues.                                                             *)

(* Whoever is put at the end of a queue is in it.                            *)
LEMMA AppendItems ==
  ASSUME NEW T, NEW q \in Seq(T), NEW x \in T
  PROVE  /\ Append(q, x) \in Seq(T) /\ Items(Append(q, x)) = Items(q) \cup {x}
         /\ Distinct(q) /\ x \notin Items(q) => Distinct(Append(q, x))
  <1>1. /\ Append(q, x) \in Seq(T) /\ Len(Append(q, x)) = Len(q) + 1 /\ Len(q) \in Nat
        /\ Append(q, x)[Len(q) + 1] = x
        /\ \A i \in 1..Len(q) : Append(q, x)[i] = q[i]
    OBVIOUS
  <1>2. \A i \in 1..(Len(q) + 1) : i \in 1..Len(q) \/ i = Len(q) + 1
    BY <1>1
  <1>3. \A i \in 1..Len(q) : i \in 1..(Len(q) + 1)
    BY <1>1
  <1>4. Items(Append(q, x)) = Items(q) \cup {x}
    <2>1. ASSUME NEW y \in Items(Append(q, x)) PROVE y \in Items(q) \cup {x}
      BY <1>1, <1>2 DEF Items
    <2>2. ASSUME NEW y \in Items(q) PROVE y \in Items(Append(q, x))
      BY <1>1, <1>3 DEF Items
    <2>3. x \in Items(Append(q, x))
      BY <1>1 DEF Items
    <2> QED
      BY <2>1, <2>2, <2>3
  <1>5. ASSUME Distinct(q), x \notin Items(q) PROVE Distinct(Append(q, x))
    <2> SUFFICES ASSUME NEW i \in 1..(Len(q) + 1), NEW j \in 1..(Len(q) + 1),
                        Append(q, x)[i] = Append(q, x)[j]
                 PROVE  i = j
      BY <1>1 DEF Distinct
    <2>1. \A k \in 1..Len(q) : q[k] # x
      BY <1>5 DEF Items
    <2> QED
      BY <1>1, <1>2, <1>5, <2>1 DEF Distinct
  <1> QED
    BY <1>1, <1>4, <1>5

(* Whoever is taken from the front of a queue is no longer in it.            *)
LEMMA TailItems ==
  ASSUME NEW T, NEW q \in Seq(T), q # << >>, Distinct(q)
  PROVE  /\ Tail(q) \in Seq(T) /\ Distinct(Tail(q))
         /\ Items(Tail(q)) = Items(q) \ {Head(q)}
         /\ Head(q) \in T /\ Head(q) \in Items(q)
  <1>1. /\ Len(q) \in Nat \ {0} /\ Head(q) = q[1] /\ Head(q) \in T
        /\ Tail(q) \in Seq(T) /\ Len(Tail(q)) = Len(q) - 1
        /\ \A i \in 1..(Len(q) - 1) : Tail(q)[i] = q[i + 1]
    OBVIOUS
  <1>2. \A i \in 1..(Len(q) - 1) : i + 1 \in 1..Len(q) /\ i + 1 # 1
    BY <1>1
  <1>3. \A i \in 1..Len(q) : i = 1 \/ (i - 1 \in 1..(Len(q) - 1) /\ (i - 1) + 1 = i)
    BY <1>1
  <1>4. Distinct(Tail(q))
    <2> SUFFICES ASSUME NEW i \in 1..(Len(q) - 1), NEW j \in 1..(Len(q) - 1), Tail(q)[i] = Tail(q)[j]
                 PROVE  i = j
      BY <1>1 DEF Distinct
    <2>1. i + 1 = j + 1
      BY <1>1, <1>2 DEF Distinct
    <2> QED
      BY <2>1
  <1>5. 1 \in 1..Len(q)
    BY <1>1
  <1>6. ASSUME NEW y \in Items(Tail(q)) PROVE y \in Items(q) \ {Head(q)}
    <2>1. PICK i \in 1..(Len(q) - 1) : y = q[i + 1]
      BY <1>1 DEF Items
    <2>2. i + 1 \in 1..Len(q) /\ i + 1 # 1
      BY <1>2
    <2>3. y # q[1]
      BY <1>5, <2>1, <2>2 DEF Distinct
    <2> QED
      BY <1>1, <2>1, <2>2, <2>3 DEF Items
  <1>7. ASSUME NEW y \in Items(q), y # Head(q) PROVE y \in Items(Tail(q))
    <2>1. PICK i \in 1..Len(q) : y = q[i]
      BY DEF Items
    <2>2. i - 1 \in 1..(Len(q) - 1) /\ Tail(q)[i - 1] = y
      BY <1>1, <1>3, <1>7, <2>1
    <2> QED
      BY <1>1, <2>2 DEF Items
  <1>8. Head(q) \in Items(q)
    BY <1>1, <1>5 DEF Items
  <1> QED
    BY <1>1, <1>4, <1>6, <1>7, <1>8

(* Without takes one waiter out and leaves the others in.                    *)
LEMMA WithoutItems ==
  ASSUME NEW T, NEW q \in Seq(T), Distinct(q), NEW t
  PROVE  /\ Without(q, t) \in Seq(T) /\ Distinct(Without(q, t))
         /\ Items(Without(q, t)) = Items(q) \ {t}
  <1>1. Len(q) \in Nat /\ \A i \in 1..Len(q) : q[i] \in T
    OBVIOUS
  <1>2. CASE t \notin Items(q)
    <2>1. {i \in 1..Len(q) : q[i] = t} = {}
      BY <1>2 DEF Items
    <2>2. Without(q, t) = q
      BY <2>1 DEF Without
    <2> QED
      BY <1>2, <2>2
  <1>3. CASE t \in Items(q)
    <2>1. PICK k \in 1..Len(q) : q[k] = t
      BY <1>3 DEF Items
    <2>2. {i \in 1..Len(q) : q[i] = t} = {k}
      BY <2>1 DEF Distinct
    <2> DEFINE w == [j \in 1..(Len(q) - 1) |-> IF j < k THEN q[j] ELSE q[j + 1]]
    <2>3. Without(q, t) = w
      BY <2>2 DEF Without
    <2>4. Len(q) - 1 \in Nat /\ \A j \in 1..(Len(q) - 1) : j \in 1..Len(q) /\ j + 1 \in 1..Len(q)
      BY <1>1, <2>1
    <2>5. w \in Seq(T) /\ Len(w) = Len(q) - 1
      BY <1>1, <2>4
    <2>6. ASSUME NEW i \in 1..(Len(q) - 1), NEW j \in 1..(Len(q) - 1), w[i] = w[j] PROVE i = j
      BY <1>1, <2>1, <2>4, <2>6 DEF Distinct
    <2>7. Distinct(w)
      BY <2>5, <2>6 DEF Distinct
    <2>8. ASSUME NEW y \in Items(w) PROVE y \in Items(q) \ {t}
      <3>1. PICK j \in 1..(Len(q) - 1) : y = w[j]
        BY <2>5 DEF Items
      <3>2. PICK i \in 1..Len(q) : y = q[i] /\ i # k
        BY <1>1, <2>1, <2>4, <3>1
      <3> QED
        BY <2>1, <3>2 DEF Items, Distinct
    <2>9. ASSUME NEW y \in Items(q), y # t PROVE y \in Items(w)
      <3>1. PICK i \in 1..Len(q) : y = q[i] /\ i # k
        BY <2>1, <2>9 DEF Items
      <3>2. \E j \in 1..(Len(q) - 1) : y = w[j]
        <4>1. CASE i < k
          BY <1>1, <2>1, <3>1, <4>1
        <4>2. CASE i > k
          <5>1. i - 1 \in 1..(Len(q) - 1) /\ ~(i - 1 < k) /\ (i - 1) + 1 = i
            BY <1>1, <2>1, <4>2
          <5> QED
            BY <3>1, <5>1
        <4> QED
          BY <2>1, <3>1, <4>1, <4>2
      <3> QED
        BY <2>5, <3>2 DEF Items
    <2> QED
      BY <2>3, <2>5, <2>7, <2>8, <2>9
  <1> QED
    BY <1>2, <1>3

-----------------------------------------------------------------------------
(* The inductive invariant.                                                *)

\* What may be in which phase.
KindInv ==
  /\ \A t \in Turns : phase[t] = "new" <=> kind[t] = "none"
  /\ \A m \in Msgs : kind[m] \in {"none", "user", "command", "stop"}
  /\ \A s \in Subs : kind[s] \in {"none", "system"} /\ (sub[s] # "announced" => phase[s] = "new")
  /\ \A d \in Directs : kind[d] \in {"none", "direct"} /\ phase[d] \in {"new", "run", "done"}
  /\ \A t \in Turns : phase[t] \in {"queued", "cancel"} => kind[t] # "stop"

\* What is under way belongs to a chat, and what was published to a turn.
ChatInv ==
  /\ \A t \in Turns : phase[t] # "new" => chat[t] \in Chats
  /\ \A s \in Subs : sub[s] # "none" => chat[s] \in Chats
  /\ \A o \in out : phase[o.turn] # "new"
  /\ \A m \in Msgs : phase[m] # "new" /\ key[m] \notin Threads => chat[m] = key[m]

QueueInv ==
  /\ Distinct(inbound) /\ \A t \in Items(inbound) : phase[t] = "inbound"
  /\ Distinct(waiting) /\ \A t \in Items(waiting) : phase[t] \in {"queued", "cancel"} /\ t # holder
  /\ \A t \in Turns : phase[t] = "queued" => t \in Items(waiting)

LockInv ==
  /\ holder # Nobody => holder \in Msgs \cup Subs /\ phase[holder] \in {"run", "cancel"}
                          /\ kind[holder] # "stop"
  /\ \A t \in Msgs \cup Subs : phase[t] = "run" /\ kind[t] # "stop" => holder = t

\* Who is stopped is being cancelled, or over.
StoppedInv ==
  /\ \A t \in stopped : phase[t] \in {"cancel", "done"}
  /\ \A t \in Turns : phase[t] = "cancel" => t \in stopped

\* While a /stop is handled its session does not begin anything, ...
StoppingInv ==
  stopping # Nobody =>
    /\ kind[stopping] = "stop" /\ phase[stopping] \in {"run", "answer"}
    /\ \A t \in Msgs : kind[t] \in {"user", "command"} /\ key[t] = key[stopping] =>
         phase[t] \notin {"queued", "run"} /\ (phase[stopping] = "answer" => phase[t] # "cancel")

\* ... and when the subagents have been cancelled it does not have any.
SubsInv ==
  stopping # Nobody /\ phase[stopping] = "answer" =>
    \A s \in Subs : parent[s] \in Msgs \ mixed /\ key[parent[s]] = key[stopping]
                    /\ key[stopping] \notin Threads => sub[s] # "run"

StopInv == StoppedInv /\ StoppingInv /\ SubsInv

\* Who was cut off is over, or about to be, and does not run again.
CutInv == \A t \in cut : phase[t] \in {"cancel", "done"}

SpawnInv ==
  \A s \in Subs : sub[s] # "none" =>
    /\ parent[s] \in Turns /\ kind[parent[s]] \in {"user", "system", "direct"}
    /\ parent[s] \notin mixed => chat[s] = chat[parent[s]]

\* A turn that is not mixed runs alone, and the context is its own.
ContextInv ==
  /\ \A t, u \in Running : t # u => t \in mixed /\ u \in mixed
  /\ \A t \in Turns \ mixed : InLoop(t) =>
       ctx.chat = chat[t] /\ (kind[t] # "system" /\ ctx.sent => Answered(t))

IInv == /\ TypeOK /\ KindInv /\ ChatInv /\ QueueInv /\ LockInv /\ StopInv /\ CutInv /\ SpawnInv
        /\ ContextInv /\ AnsweredUnlessMixed /\ RoutedUnlessMixed

(* The invariant holds initially.                                           *)
LEMMA InitInv == Init => IInv
  <1> SUFFICES ASSUME Init PROVE IInv
    OBVIOUS
  <1>1. Items(inbound) = {} /\ Items(waiting) = {} /\ Distinct(inbound) /\ Distinct(waiting)
    BY DEF Init, Items, Distinct
  <1>2. TypeOK
    BY DEF Init, TypeOK, Kinds, Phases
  <1>3. KindInv /\ ChatInv /\ QueueInv /\ LockInv
    BY <1>1, TurnsAssumption DEF Init, KindInv, ChatInv, QueueInv, LockInv, Turns
  <1>4. StopInv /\ CutInv /\ SpawnInv /\ ContextInv /\ AnsweredUnlessMixed /\ RoutedUnlessMixed
    BY DEF Init, StopInv, StoppedInv, StoppingInv, SubsInv, CutInv, SpawnInv, ContextInv, Running, InLoop, AnsweredUnlessMixed, RoutedUnlessMixed, Turns
  <1> QED
    BY <1>2, <1>3, <1>4 DEF IInv

(* The kinds of turn are apart from one another.                            *)
LEMMA TurnKinds ==
  /\ Msgs \subseteq Turns /\ Subs \subseteq Turns /\ Directs \subseteq Turns
  /\ Turns = Msgs \cup Subs \cup Directs /\ Nobody \notin Turns
  /\ Msgs \cap Subs = {} /\ Msgs \cap Directs = {} /\ Subs \cap Directs = {}
  BY TurnsAssumption DEF Turns

(* A message that a channel publishes, ...                                   *)
LEMMA SendStep ==
  ASSUME IInv, NEW m \in Msgs, NEW c \in Keys, NEW k \in {"user", "command", "stop"}, Send(m, c, k)
  PROVE  IInv'
  <1> USE TurnKinds DEF IInv, Send, queues, history, message
  <1>1. /\ phase[m] = "new" /\ kind[m] = "none" /\ m \in Turns
        /\ phase'[m] = "inbound" /\ kind'[m] = k /\ chat'[m] \in Chats /\ key'[m] = c
        /\ c \notin Threads => chat'[m] = c
        /\ \A t \in Turns : t # m => phase'[t] = phase[t] /\ kind'[t] = kind[t] /\ chat'[t] = chat[t]
        /\ \A t \in Msgs : t # m => key'[t] = key[t]
    BY TurnsAssumption DEF TypeOK, KindInv, Keys
  <1>2. /\ inbound' \in Seq(Turns) /\ Distinct(inbound') /\ Items(inbound') = Items(inbound) \cup {m}
    BY <1>1, AppendItems DEF TypeOK, QueueInv
  <1>3. TypeOK'
    BY <1>1, <1>2 DEF TypeOK, Kinds, Phases
  <1>4. KindInv'
    BY <1>1 DEF KindInv
  <1>5. ChatInv'
    BY <1>1 DEF ChatInv, TypeOK
  <1>6. \A t \in Items(inbound) \cup Items(waiting) : t \in Turns
    BY DEF TypeOK, Items
  <1>7. QueueInv'
    BY <1>1, <1>2, <1>6 DEF QueueInv
  <1>8. LockInv'
    BY <1>1 DEF LockInv, TypeOK
  <1>9. StopInv'
    <2>1. stopping # Nobody => stopping \in Msgs /\ stopping # m
      BY <1>1 DEF StopInv, StoppedInv, StoppingInv, SubsInv, TypeOK
    <2>2. \A s \in Subs : sub[s] = "run" => parent[s] \in Turns /\ parent[s] # m
      BY <1>1 DEF SpawnInv
    <2>3. StoppedInv'
      BY <1>1, <2>1, <2>2 DEF StopInv, StoppedInv, StoppingInv, SubsInv, TypeOK
    <2>4. StoppingInv'
      BY <1>1, <2>1, <2>2 DEF StopInv, StoppedInv, StoppingInv, SubsInv, TypeOK
    <2>5. SubsInv'
      BY <1>1, <2>1, <2>2 DEF StopInv, StoppedInv, StoppingInv, SubsInv, TypeOK
    <2> QED
      BY <2>3, <2>4, <2>5 DEF StopInv
  <1>10. CutInv' /\ SpawnInv'
    BY <1>1 DEF CutInv, SpawnInv, TypeOK
  <1>11. ContextInv'
    BY <1>1 DEF ContextInv, Running, InLoop, Answered
  <1>12. AnsweredUnlessMixed' /\ RoutedUnlessMixed'
    BY <1>1 DEF AnsweredUnlessMixed, RoutedUnlessMixed, Answered, TypeOK, ChatInv
  <1> QED
    BY <1>3, <1>4, <1>5, <1>7, <1>8, <1>9, <1>10, <1>11, <1>12

(* ... one that run() takes from the bus, ...                                *)
LEMMA ConsumeStep ==
  ASSUME IInv, Consume
  PROVE  IInv'
  <1> USE TurnKinds DEF IInv, queues, history, message
  <1> DEFINE m == Head(inbound)
  <1>0. m \in Turns /\ m \in Items(inbound)
    BY TailItems DEF Consume, TypeOK, QueueInv
  <1>1. /\ stopping = Nobody /\ phase[m] = "inbound" /\ kind[m] # "stop"
        /\ phase'[m] = "queued" /\ \A t \in Turns : t # m => phase'[t] = phase[t]
        /\ UNCHANGED <<kind, chat, key, holder, stopping, sub, parent, ctx, out, stopped, cut, raised, mixed>>
    BY <1>0 DEF Consume, TypeOK, QueueInv
  <1>2. /\ inbound' \in Seq(Turns) /\ Distinct(inbound') /\ Items(inbound') = Items(inbound) \ {m}
    BY TailItems DEF Consume, TypeOK, QueueInv
  <1>3. /\ waiting' \in Seq(Turns) /\ Distinct(waiting') /\ Items(waiting') = Items(waiting) \cup {m}
    BY <1>0, <1>1, AppendItems DEF Consume, TypeOK, QueueInv
  <1>4. TypeOK'
    <2>1. phase' \in [Turns -> Phases]
      BY DEF Consume, TypeOK, Phases
    <2> QED
      BY <1>1, <1>2, <1>3, <2>1 DEF TypeOK
  <1>5. m \notin Directs /\ \A s \in Subs : m = s => sub[s] = "announced"
    BY <1>0, <1>1 DEF KindInv
  <1>6. KindInv'
    BY <1>0, <1>1, <1>5 DEF KindInv
  <1>7. ChatInv'
    <2>1. \A t \in Turns : phase'[t] = "new" <=> phase[t] = "new"
      BY <1>0, <1>1
    <2>2. \A o \in out : o.turn \in Turns
      BY DEF TypeOK
    <2> QED
      BY <1>1, <2>1, <2>2 DEF ChatInv
  <1>8. \A t \in Items(inbound) \cup Items(waiting) : t \in Turns
    BY DEF TypeOK, Items
  <1>9. m # holder
    BY <1>0, <1>1 DEF LockInv
  <1>10. QueueInv'
    BY <1>0, <1>1, <1>2, <1>3, <1>8, <1>9 DEF QueueInv
  <1>11. LockInv'
    BY <1>0, <1>1, <1>9 DEF LockInv
  <1>12. StopInv' /\ CutInv' /\ SpawnInv'
    BY <1>0, <1>1 DEF StopInv, StoppedInv, StoppingInv, SubsInv, CutInv, SpawnInv, TypeOK
  <1>13. ContextInv'
    BY <1>0, <1>1 DEF ContextInv, Running, InLoop, Answered
  <1>14. AnsweredUnlessMixed' /\ RoutedUnlessMixed'
    BY <1>0, <1>1 DEF AnsweredUnlessMixed, RoutedUnlessMixed, Answered
  <1> QED
    BY <1>4, <1>6, <1>7, <1>10, <1>11, <1>12, <1>13, <1>14

(* ... and a /stop, which cancels what the session has under way.            *)
LEMMA ConsumeStopStep ==
  ASSUME IInv, ConsumeStop
  PROVE  IInv'
  <1> USE TurnKinds DEF IInv, queues, history, message
  <1> DEFINE m == Head(inbound)
             gone == Active(key[m])
  <1>0. m \in Turns /\ m \in Items(inbound)
    BY TailItems DEF ConsumeStop, TypeOK, QueueInv
  <1>1. /\ stopping = Nobody /\ phase[m] = "inbound" /\ kind[m] = "stop" /\ m \in Msgs
        /\ stopping' = m /\ stopped' = stopped \cup gone /\ cut \subseteq cut' /\ cut' \subseteq cut \cup gone
        /\ UNCHANGED <<kind, chat, key, waiting, holder, sub, parent, ctx, out, raised, mixed>>
    BY <1>0 DEF ConsumeStop, QueueInv, KindInv
  <1>2. /\ gone \subseteq Msgs /\ m \notin gone
        /\ \A t \in Msgs : t \in gone <=> /\ kind[t] \in {"user", "command"} /\ key[t] = key[m]
                                        /\ phase[t] \in {"queued", "run"}
    BY <1>1 DEF Active
  <1>3. /\ phase' \in [Turns -> Phases] /\ phase'[m] = "run" /\ \A t \in gone : phase'[t] = "cancel"
        /\ \A t \in Turns : t # m /\ t \notin gone => phase'[t] = phase[t]
    BY <1>0, <1>2 DEF ConsumeStop, TypeOK, Phases
  <1>4. /\ inbound' \in Seq(Turns) /\ Distinct(inbound') /\ Items(inbound') = Items(inbound) \ {m}
    BY TailItems DEF ConsumeStop, TypeOK, QueueInv
  <1>5. TypeOK'
    BY <1>1, <1>2, <1>3, <1>4 DEF TypeOK
  <1>6. KindInv'
    BY <1>1, <1>2, <1>3 DEF KindInv
  <1>7. ChatInv'
    <2>1. \A t \in Turns : phase'[t] = "new" <=> phase[t] = "new"
      BY <1>1, <1>2, <1>3
    <2>2. \A o \in out : o.turn \in Turns
      BY DEF TypeOK
    <2> QED
      BY <1>1, <2>1, <2>2 DEF ChatInv
  <1>8. \A t \in Items(inbound) \cup Items(waiting) : t \in Turns
    BY DEF TypeOK, Items
  <1>9. m # holder /\ m \notin Items(waiting)
    BY <1>1 DEF LockInv, QueueInv
  <1>10. QueueInv'
    BY <1>1, <1>2, <1>3, <1>4, <1>8, <1>9 DEF QueueInv
  <1>11. LockInv'
    BY <1>1, <1>2, <1>3, <1>9 DEF LockInv
  <1>12. StopInv'
    <2>1. \A t \in stopped' : phase'[t] \in {"cancel", "done"}
      BY <1>1, <1>2, <1>3 DEF StopInv, StoppedInv, StoppingInv, SubsInv, TypeOK
    <2>2. \A t \in Msgs : kind[t] \in {"user", "command"} /\ key[t] = key[m] => phase'[t] \notin {"queued", "run"}
      BY <1>1, <1>2, <1>3
    <2>3. \A t \in Turns : phase'[t] = "cancel" => t \in stopped'
      BY <1>1, <1>2, <1>3 DEF StopInv, StoppedInv, StoppingInv, SubsInv
    <2>4. StoppedInv'
      BY <1>1, <1>3, <2>1, <2>2, <2>3 DEF StopInv, StoppedInv, StoppingInv, SubsInv
    <2>5. StoppingInv'
      BY <1>1, <1>3, <2>1, <2>2, <2>3 DEF StopInv, StoppedInv, StoppingInv, SubsInv
    <2>6. SubsInv'
      BY <1>1, <1>3, <2>1, <2>2, <2>3 DEF StopInv, StoppedInv, StoppingInv, SubsInv
    <2> QED
      BY <2>4, <2>5, <2>6 DEF StopInv
  <1>13. CutInv' /\ SpawnInv'
    BY <1>1, <1>2, <1>3 DEF CutInv, SpawnInv, TypeOK
  <1>14. ContextInv'
    BY <1>1, <1>2, <1>3 DEF ContextInv, Running, InLoop, Answered
  <1>15. AnsweredUnlessMixed' /\ RoutedUnlessMixed'
    BY <1>1, <1>2, <1>3 DEF AnsweredUnlessMixed, RoutedUnlessMixed, Answered
  <1> QED
    BY <1>5, <1>6, <1>7, <1>10, <1>11, <1>12, <1>13, <1>14, <1>15

(* A cancelled task leaves the queue, or gives the lock back, ...            *)
LEMMA CancelledStep ==
  ASSUME IInv, NEW t \in Turns, Cancelled(t)
  PROVE  IInv'
  <1> USE TurnKinds DEF IInv, queues, history, message
  <1>1. /\ phase[t] = "cancel" /\ phase' \in [Turns -> Phases] /\ phase'[t] = "done"
        /\ \A u \in Turns : u # t => phase'[u] = phase[u]
        /\ holder' \in {holder, Nobody} /\ holder' # t /\ (holder # t => holder' = holder)
        /\ UNCHANGED <<kind, chat, key, inbound, stopping, sub, parent, ctx, out, stopped, cut, raised, mixed>>
    BY DEF Cancelled, TypeOK, Phases
  <1>2. /\ waiting' \in Seq(Turns) /\ Distinct(waiting') /\ Items(waiting') = Items(waiting) \ {t}
    BY WithoutItems DEF Cancelled, TypeOK, QueueInv
  <1>3. TypeOK'
    BY <1>1, <1>2 DEF TypeOK
  <1>4. KindInv'
    BY <1>1 DEF KindInv
  <1>5. ChatInv'
    BY <1>1 DEF ChatInv, TypeOK
  <1>6. \A u \in Items(inbound) \cup Items(waiting) : u \in Turns
    BY DEF TypeOK, Items
  <1>7. QueueInv'
    BY <1>1, <1>2, <1>6 DEF QueueInv
  <1>8. LockInv'
    BY <1>1 DEF LockInv
  <1>9. StopInv'
    <2>1. \A u \in stopped : phase'[u] \in {"cancel", "done"}
      BY <1>1 DEF StopInv, StoppedInv, StoppingInv, SubsInv, TypeOK
    <2>2. stopping # Nobody => stopping \in Msgs /\ stopping # t
      BY <1>1 DEF StopInv, StoppedInv, StoppingInv, SubsInv, TypeOK
    <2>3. StoppedInv'
      BY <1>1, <2>1, <2>2 DEF StopInv, StoppedInv, StoppingInv, SubsInv
    <2>4. StoppingInv'
      BY <1>1, <2>1, <2>2 DEF StopInv, StoppedInv, StoppingInv, SubsInv
    <2>5. SubsInv'
      BY <1>1, <2>1, <2>2 DEF StopInv, StoppedInv, StoppingInv, SubsInv
    <2> QED
      BY <2>3, <2>4, <2>5 DEF StopInv
  <1>10. CutInv' /\ SpawnInv'
    BY <1>1 DEF CutInv, SpawnInv, TypeOK
  <1>11. ContextInv'
    BY <1>1 DEF ContextInv, Running, InLoop, Answered
  <1>12. AnsweredUnlessMixed' /\ RoutedUnlessMixed'
    <2>1. t \in stopped
      BY <1>1 DEF StopInv, StoppedInv, StoppingInv, SubsInv
    <2> QED
      BY <1>1, <2>1 DEF AnsweredUnlessMixed, RoutedUnlessMixed, Answered
  <1> QED
    BY <1>3, <1>4, <1>5, <1>7, <1>8, <1>9, <1>10, <1>11, <1>12

(* ... the subagents are cancelled, ...                                       *)
LEMMA StopSubsStep ==
  ASSUME IInv, StopSubs
  PROVE  IInv'
  <1> USE TurnKinds DEF IInv, queues, history, message
  <1> DEFINE m == stopping
  <1>1. /\ m \in Msgs /\ kind[m] = "stop" /\ phase[m] = "run" /\ \A t \in Turns : phase[t] # "cancel"
        /\ phase' \in [Turns -> Phases] /\ phase'[m] = "answer" /\ \A t \in Turns : t # m => phase'[t] = phase[t]
        /\ UNCHANGED <<kind, chat, key, inbound, waiting, holder, stopping, parent, ctx, out, stopped, cut, raised, mixed>>
    BY DEF StopSubs, TypeOK, StopInv, StoppedInv, StoppingInv, SubsInv, Phases
  <1>2. /\ sub' \in [Subs -> {"none", "run", "cancel", "cancelled", "announced"}]
        /\ \A s \in Subs : sub'[s] = IF sub[s] = "run" /\ chat[s] = key[m] THEN "cancel" ELSE sub[s]
    BY DEF StopSubs, RunningSubs, TypeOK
  <1>3. TypeOK'
    BY <1>1, <1>2 DEF TypeOK
  <1>4. KindInv'
    BY <1>1, <1>2 DEF KindInv
  <1>5. ChatInv'
    BY <1>1, <1>2 DEF ChatInv, TypeOK
  <1>6. \A t \in Items(inbound) \cup Items(waiting) : t \in Turns
    BY DEF TypeOK, Items
  <1>7. QueueInv'
    BY <1>1, <1>6 DEF QueueInv
  <1>8. LockInv'
    BY <1>1 DEF LockInv
  <1>9. StopInv'
    <2>1. \A t \in stopped : t \in Turns /\ t # m
      BY <1>1 DEF StopInv, StoppedInv, StoppingInv, SubsInv, TypeOK
    <2>2. ASSUME NEW s \in Subs, parent[s] \in Msgs \ mixed, key[parent[s]] = key[m], key[m] \notin Threads
          PROVE  sub'[s] # "run"
      <3>1. CASE sub[s] = "none"
        BY <1>2, <3>1
      <3>2. CASE sub[s] # "none"
        <4>1. phase[parent[s]] # "new" /\ chat[s] = chat[parent[s]]
          BY <2>2, <3>2 DEF SpawnInv, KindInv
        <4>2. chat[s] = key[m]
          BY <2>2, <4>1 DEF ChatInv
        <4> QED
          BY <1>2, <4>2
      <3> QED
        BY <3>1, <3>2
    <2>3. StoppedInv'
      BY <1>1, <2>1, <2>2 DEF StopInv, StoppedInv, StoppingInv, SubsInv
    <2>4. StoppingInv'
      BY <1>1, <2>1, <2>2 DEF StopInv, StoppedInv, StoppingInv, SubsInv
    <2>5. SubsInv'
      BY <1>1, <2>1, <2>2 DEF StopInv, StoppedInv, StoppingInv, SubsInv
    <2> QED
      BY <2>3, <2>4, <2>5 DEF StopInv
  <1>10. CutInv' /\ SpawnInv'
    BY <1>1, <1>2 DEF CutInv, SpawnInv, TypeOK
  <1>11. ContextInv'
    BY <1>1 DEF ContextInv, Running, InLoop, Answered
  <1>12. AnsweredUnlessMixed' /\ RoutedUnlessMixed'
    BY <1>1 DEF AnsweredUnlessMixed, RoutedUnlessMixed, Answered
  <1> QED
    BY <1>3, <1>4, <1>5, <1>7, <1>8, <1>9, <1>10, <1>11, <1>12

LEMMA SubCancelledStep ==
  ASSUME IInv, NEW s \in Subs, SubCancelled(s)
  PROVE  IInv'
  <1> USE TurnKinds DEF IInv, SubCancelled, queues, history, message
  <1>1. /\ sub[s] = "cancel" /\ sub'[s] = "cancelled" /\ \A r \in Subs : r # s => sub'[r] = sub[r]
        /\ sub' \in [Subs -> {"none", "run", "cancel", "cancelled", "announced"}]
    BY DEF TypeOK
  <1>2. TypeOK'
    BY <1>1 DEF TypeOK
  <1>3. KindInv' /\ ChatInv'
    BY <1>1 DEF KindInv, ChatInv
  <1>4. QueueInv' /\ LockInv'
    BY DEF QueueInv, LockInv
  <1>5. StopInv' /\ CutInv' /\ SpawnInv'
    BY <1>1 DEF StopInv, StoppedInv, StoppingInv, SubsInv, CutInv, SpawnInv
  <1>6. ContextInv' /\ AnsweredUnlessMixed' /\ RoutedUnlessMixed'
    BY DEF ContextInv, Running, InLoop, AnsweredUnlessMixed, RoutedUnlessMixed, Answered
  <1> QED
    BY <1>2, <1>3, <1>4, <1>5, <1>6

(* ... and the /stop is answered.                                            *)
LEMMA StopFinishStep ==
  ASSUME IInv, StopFinish
  PROVE  IInv'
  <1> USE TurnKinds DEF IInv, queues, history, message
  <1> DEFINE m == stopping
  <1>1. /\ m \in Msgs /\ kind[m] = "stop" /\ phase[m] = "answer" /\ stopping' = Nobody
        /\ phase' \in [Turns -> Phases] /\ phase'[m] = "done" /\ \A t \in Turns : t # m => phase'[t] = phase[t]
        /\ out' = out \cup {Out(m, chat[m], "stopped")}
        /\ UNCHANGED <<kind, chat, key, inbound, waiting, holder, sub, parent, ctx, stopped, cut, raised, mixed>>
    BY DEF StopFinish, TypeOK, StopInv, StoppedInv, StoppingInv, SubsInv, Phases
  <1>2. /\ Out(m, chat[m], "stopped") \in [turn : Turns, to : Chats,
                    what : {"tool", "elsewhere", "reply", "empty", "error", "stopped"}]
        /\ Out(m, chat[m], "stopped").turn = m /\ Out(m, chat[m], "stopped").what = "stopped"
    BY <1>1 DEF ChatInv, Out
  <1>3. TypeOK'
    BY <1>1, <1>2 DEF TypeOK
  <1>4. KindInv'
    BY <1>1 DEF KindInv
  <1>5. ChatInv'
    BY <1>1, <1>2 DEF ChatInv, TypeOK
  <1>6. \A t \in Items(inbound) \cup Items(waiting) : t \in Turns
    BY DEF TypeOK, Items
  <1>7. QueueInv'
    BY <1>1, <1>6 DEF QueueInv
  <1>8. LockInv'
    BY <1>1 DEF LockInv
  <1>9. StopInv'
    BY <1>1 DEF StopInv, StoppedInv, StoppingInv, SubsInv, TypeOK
  <1>10. CutInv' /\ SpawnInv'
    BY <1>1 DEF CutInv, SpawnInv, TypeOK
  <1>11. ContextInv'
    BY <1>1 DEF ContextInv, Running, InLoop, Answered
  <1>12. AnsweredUnlessMixed' /\ RoutedUnlessMixed'
    BY <1>1, <1>2 DEF AnsweredUnlessMixed, RoutedUnlessMixed, Answered
  <1> QED
    BY <1>3, <1>4, <1>5, <1>7, <1>8, <1>9, <1>10, <1>11, <1>12

(* A turn that begins is alone, or it and all that run are mixed.            *)
LEMMA OverlapMixes ==
  ASSUME NEW t \in Turns, Overlap(t), Running \cap Directs # {} \/ (t \in Directs /\ Running # {})
  PROVE  mixed' = mixed \cup Running \cup {t}
  BY DEF Overlap

LEMMA OverlapGrows ==
  ASSUME NEW t \in Turns, Overlap(t), mixed \subseteq Turns
  PROVE  mixed \subseteq mixed' /\ mixed' \subseteq Turns /\ UNCHANGED <<stopped, cut, raised>>
  BY DEF Overlap, Running

(* A bus turn gets the processing lock: no other bus turn runs.              *)
LEMMA AcquireStep ==
  ASSUME IInv, NEW t \in Turns, Acquire(t)
  PROVE  IInv'
  <1> USE TurnKinds DEF IInv, queues, history, message
  <1>1. /\ holder = Nobody /\ phase[t] = "queued" /\ holder' = t
        /\ phase' \in [Turns -> Phases] /\ phase'[t] = "run" /\ \A u \in Turns : u # t => phase'[u] = phase[u]
        /\ waiting # << >> /\ Head(waiting) = t /\ waiting' = Tail(waiting)
        /\ UNCHANGED <<kind, chat, key, inbound, stopping, sub, parent, out>>
    BY DEF Acquire, TypeOK, Phases
  <1>2. /\ mixed \subseteq mixed' /\ mixed' \subseteq Turns /\ UNCHANGED <<stopped, cut, raised>>
    BY OverlapGrows DEF Acquire, TypeOK
  <1>3. /\ waiting' \in Seq(Turns) /\ Distinct(waiting') /\ Items(waiting') = Items(waiting) \ {t}
    BY <1>1, TailItems DEF TypeOK, QueueInv
  <1>4. kind[t] \in {"user", "command", "system"} /\ t \in Msgs \cup Subs
    BY <1>1 DEF KindInv
  <1>5. /\ ctx' \in [chat : Chats \cup {NoChat}, sent : BOOLEAN]
        /\ InLoop(t)' => ctx'.chat = chat[t] /\ (kind[t] # "system" => ~ctx'.sent)
    <2>1. CASE kind[t] = "command"
      BY <1>1, <2>1 DEF Acquire, BeginContext, TypeOK, InLoop
    <2>2. CASE kind[t] = "system"
      <3>1. ctx' = [ctx EXCEPT !.chat = chat[t]]
        BY <2>2 DEF Acquire, BeginContext
      <3> QED
        BY <2>2, <3>1 DEF TypeOK
    <2>3. CASE kind[t] = "user"
      <3>1. ctx' = [chat |-> chat[t], sent |-> FALSE]
        BY <2>3 DEF Acquire, BeginContext
      <3> QED
        BY <3>1 DEF TypeOK
    <2> QED
      BY <1>4, <2>1, <2>2, <2>3
  <1>6. TypeOK'
    BY <1>1, <1>2, <1>3, <1>5 DEF TypeOK
  <1>7. KindInv'
    BY <1>1, <1>4 DEF KindInv
  <1>8. ChatInv'
    BY <1>1 DEF ChatInv, TypeOK
  <1>9. \A u \in Items(inbound) \cup Items(waiting) : u \in Turns
    BY DEF TypeOK, Items
  <1>10. QueueInv'
    BY <1>1, <1>3, <1>9 DEF QueueInv
  <1>11. LockInv'
    BY <1>1, <1>4 DEF LockInv
  <1>12. StopInv'
    <2>1. \A u \in stopped : u \in Turns /\ u # t
      BY <1>1 DEF StopInv, StoppedInv, StoppingInv, SubsInv, TypeOK
    <2>2. stopping # Nobody => stopping \in Msgs /\ stopping # t
      BY <1>1 DEF StopInv, StoppedInv, StoppingInv, SubsInv, TypeOK
    <2>3. stopping # Nobody => t \notin Msgs \/ key[t] # key[stopping]
      BY <1>1, <1>4 DEF StopInv, StoppedInv, StoppingInv, SubsInv, KindInv
    <2>4. StoppedInv'
      BY <1>1, <1>2, <2>1, <2>2, <2>3 DEF StopInv, StoppedInv, StoppingInv, SubsInv
    <2>5. StoppingInv'
      BY <1>1, <1>2, <2>1, <2>2, <2>3 DEF StopInv, StoppedInv, StoppingInv, SubsInv
    <2>6. SubsInv'
      BY <1>1, <1>2, <2>1, <2>2, <2>3 DEF StopInv, StoppedInv, StoppingInv, SubsInv
    <2> QED
      BY <2>4, <2>5, <2>6 DEF StopInv
  <1>13. CutInv' /\ SpawnInv'
    BY <1>1, <1>2 DEF CutInv, SpawnInv, TypeOK
  <1>14. ContextInv'
    <2>1. Running' = Running \cup {t} /\ t \notin Running
      BY <1>1, <1>4 DEF Running
    <2>2. ASSUME NEW u \in Running PROVE u \in mixed' /\ t \in mixed'
      <3>1. u \in Directs
        BY <1>1 DEF Running, LockInv
      <3> QED
        BY <3>1, OverlapMixes DEF Acquire
    <2>3. \A u, v \in Running' : u # v => u \in mixed' /\ v \in mixed'
      BY <1>2, <2>1, <2>2 DEF ContextInv
    <2>4. \A u \in Turns \ mixed' : InLoop(u)' => u = t
      BY <2>1, <2>2 DEF InLoop, Running
    <2> QED
      BY <1>1, <1>5, <2>3, <2>4 DEF ContextInv
  <1>15. AnsweredUnlessMixed' /\ RoutedUnlessMixed'
    BY <1>1, <1>2 DEF AnsweredUnlessMixed, RoutedUnlessMixed, Answered
  <1> QED
    BY <1>6, <1>7, <1>8, <1>10, <1>11, <1>12, <1>13, <1>14, <1>15

(* A direct turn begins: all that run with it are mixed.                     *)
LEMMA BeginDirectStep ==
  ASSUME IInv, NEW d \in Directs, BeginDirect(d)
  PROVE  IInv'
  <1> USE TurnKinds DEF IInv, queues, history, message
  <1>1. /\ phase[d] = "new" /\ kind[d] = "none" /\ d \in Turns
        /\ phase' \in [Turns -> Phases] /\ phase'[d] = "run" /\ kind' \in [Turns -> Kinds] /\ kind'[d] = "direct"
        /\ chat' \in [Turns -> Chats \cup {NoChat}] /\ chat'[d] = Target[d] /\ chat'[d] \in Chats
        /\ \A t \in Turns : t # d => phase'[t] = phase[t] /\ kind'[t] = kind[t] /\ chat'[t] = chat[t]
        /\ UNCHANGED <<key, inbound, waiting, holder, stopping, sub, parent, out>>
    BY TurnsAssumption DEF BeginDirect, TypeOK, Phases, Kinds, KindInv
  <1>2. /\ mixed \subseteq mixed' /\ mixed' \subseteq Turns /\ UNCHANGED <<stopped, cut, raised>>
    BY OverlapGrows DEF BeginDirect, TypeOK
  <1>3. ctx' = [chat |-> Target[d], sent |-> FALSE]
    BY DEF BeginDirect
  <1>4. ctx' \in [chat : Chats \cup {NoChat}, sent : BOOLEAN] /\ ctx'.chat = chat'[d] /\ ~ctx'.sent
    BY <1>1, <1>3
  <1>5. TypeOK'
    BY <1>1, <1>2, <1>4 DEF TypeOK
  <1>6. KindInv'
    BY <1>1 DEF KindInv
  <1>7. ChatInv'
    <2>1. /\ \A t \in Turns : phase'[t] # "new" => chat'[t] \in Chats
          /\ \A s \in Subs : sub'[s] # "none" => chat'[s] \in Chats
      BY <1>1 DEF ChatInv
    <2>2. \A o \in out' : phase'[o.turn] # "new"
      BY <1>1 DEF ChatInv, TypeOK
    <2>3. \A m \in Msgs : phase'[m] # "new" /\ key'[m] \notin Threads => chat'[m] = key'[m]
      BY <1>1 DEF ChatInv
    <2> QED
      BY <2>1, <2>2, <2>3 DEF ChatInv
  <1>8. \A u \in Items(inbound) \cup Items(waiting) : u \in Turns
    BY DEF TypeOK, Items
  <1>9. QueueInv'
    BY <1>1, <1>8 DEF QueueInv
  <1>10. LockInv'
    BY <1>1 DEF LockInv
  <1>11. CutInv' /\ SpawnInv'
    <2>1. CutInv'
      BY <1>1, <1>2 DEF CutInv, TypeOK
    <2>2. SpawnInv'
      BY <1>1, <1>2 DEF SpawnInv
    <2> QED
      BY <2>1, <2>2
  <1>12. StopInv'
    <2>1. \A u \in stopped : u \in Turns /\ u # d
      BY <1>1 DEF StopInv, StoppedInv, StoppingInv, SubsInv, TypeOK
    <2>2. stopping # Nobody => stopping \in Msgs /\ stopping # d
      BY <1>1 DEF StopInv, StoppedInv, StoppingInv, SubsInv, TypeOK
    <2>3. StoppedInv'
      BY <1>1, <1>2, <2>1, <2>2 DEF StopInv, StoppedInv, StoppingInv, SubsInv
    <2>4. StoppingInv'
      BY <1>1, <1>2, <2>1, <2>2 DEF StopInv, StoppedInv, StoppingInv, SubsInv
    <2>5. SubsInv'
      BY <1>1, <1>2, <2>1, <2>2 DEF StopInv, StoppedInv, StoppingInv, SubsInv
    <2> QED
      BY <2>3, <2>4, <2>5 DEF StopInv
  <1>13. ContextInv'
    <2>1. Running' = Running \cup {d} /\ d \notin Running
      BY <1>1 DEF Running
    <2>2. ASSUME NEW u \in Running PROVE u \in mixed' /\ d \in mixed'
      BY OverlapMixes DEF BeginDirect
    <2>3. \A u, v \in Running' : u # v => u \in mixed' /\ v \in mixed'
      BY <1>2, <2>1, <2>2 DEF ContextInv
    <2>4. \A u \in Turns \ mixed' : InLoop(u)' => u = d
      BY <2>1, <2>2 DEF InLoop, Running
    <2> QED
      BY <1>4, <2>3, <2>4 DEF ContextInv
  <1>14. AnsweredUnlessMixed' /\ RoutedUnlessMixed'
    BY <1>1, <1>2 DEF AnsweredUnlessMixed, RoutedUnlessMixed, Answered, ChatInv, TypeOK
  <1> QED
    BY <1>5, <1>6, <1>7, <1>9, <1>10, <1>11, <1>12, <1>13, <1>14

(* A turn sends with the message tool, ...                                   *)
LEMMA ToolMessageStep ==
  ASSUME IInv, NEW t \in Turns, NEW c \in Chats, ToolMessage(t, c)
  PROVE  IInv'
  <1> USE TurnKinds DEF IInv, queues, history, message
  <1> DEFINE o == Out(t, c, IF c = ctx.chat THEN "tool" ELSE "elsewhere")
  <1>1. /\ phase[t] = "run" /\ kind[t] \in {"user", "system", "direct"} /\ t \in Running
        /\ out' = out \cup {o}
        /\ UNCHANGED <<kind, chat, key, phase, inbound, waiting, holder, stopping, sub, parent, stopped, cut, raised, mixed>>
    BY DEF ToolMessage, InLoop, Running
  <1>2. /\ o \in [turn : Turns, to : Chats, what : {"tool", "elsewhere", "reply", "empty", "error", "stopped"}]
        /\ o.turn = t /\ o.to = c /\ (o.what = "tool" => c = ctx.chat)
    BY DEF Out
  <1>3. /\ ctx' \in [chat : Chats \cup {NoChat}, sent : BOOLEAN] /\ ctx'.chat = ctx.chat
        /\ ctx'.sent = (ctx.sent \/ c = ctx.chat)
    BY DEF ToolMessage, TypeOK
  <1>4. TypeOK'
    BY <1>1, <1>2, <1>3 DEF TypeOK
  <1>5. KindInv' /\ ChatInv'
    BY <1>1, <1>2 DEF KindInv, ChatInv
  <1>6. QueueInv' /\ LockInv' /\ StopInv' /\ CutInv' /\ SpawnInv'
    BY <1>1 DEF QueueInv, LockInv, StopInv, StoppedInv, StoppingInv, SubsInv, CutInv, SpawnInv
  <1>7. \A u \in Turns \ mixed : InLoop(u) => u = t
    BY <1>1 DEF ContextInv, InLoop, Running
  <1>8. ContextInv'
    <2>1. Running' = Running
      BY <1>1 DEF Running
    <2>2. t \notin mixed => ctx.chat = chat[t] /\ (kind[t] # "system" /\ ctx.sent => Answered(t))
      BY <1>1 DEF ContextInv, InLoop
    <2>3. t \notin mixed => ctx'.chat = chat[t] /\ (kind[t] # "system" /\ ctx'.sent => Answered(t)')
      BY <1>1, <1>2, <1>3, <2>2 DEF Answered
    <2> QED
      BY <1>1, <1>7, <2>1, <2>3 DEF ContextInv, InLoop
  <1>9. AnsweredUnlessMixed'
    BY <1>1 DEF AnsweredUnlessMixed, Answered
  <1>10. RoutedUnlessMixed'
    <2>1. t \notin mixed => ctx.chat = chat[t]
      BY <1>1 DEF ContextInv, InLoop
    <2> QED
      BY <1>1, <1>2, <2>1 DEF RoutedUnlessMixed
  <1> QED
    BY <1>4, <1>5, <1>6, <1>8, <1>9, <1>10

(* ... or spawns a subagent, for the chat of the context.                    *)
LEMMA ToolSpawnStep ==
  ASSUME IInv, NEW t \in Turns, NEW s \in Subs, ToolSpawn(t, s)
  PROVE  IInv'
  <1> USE TurnKinds DEF IInv, queues, history, message
  <1>1. /\ phase[t] = "run" /\ kind[t] \in {"user", "system", "direct"}
        /\ sub[s] = "none" /\ phase[s] = "new" /\ kind[s] = "none" /\ t # s
        /\ UNCHANGED <<kind, key, phase, inbound, waiting, holder, stopping, ctx, out, stopped, cut, raised, mixed>>
    BY DEF ToolSpawn, InLoop, KindInv
  <1>2. /\ sub' \in [Subs -> {"none", "run", "cancel", "cancelled", "announced"}]
        /\ chat' \in [Turns -> Chats \cup {NoChat}] /\ parent' \in [Subs -> Turns \cup {Nobody}]
        /\ sub'[s] = "run" /\ chat'[s] = ctx.chat /\ ctx.chat \in Chats /\ parent'[s] = t
        /\ \A r \in Subs : r # s => sub'[r] = sub[r] /\ parent'[r] = parent[r]
        /\ \A u \in Turns : u # s => chat'[u] = chat[u]
    BY DEF ToolSpawn, TypeOK
  <1>3. TypeOK'
    BY <1>1, <1>2 DEF TypeOK
  <1>4. KindInv' /\ ChatInv'
    BY <1>1, <1>2 DEF KindInv, ChatInv
  <1>5. QueueInv' /\ LockInv'
    BY <1>1 DEF QueueInv, LockInv
  <1>6. CutInv' /\ SpawnInv'
    <2>1. t \notin mixed => ctx.chat = chat[t]
      BY <1>1 DEF ContextInv, InLoop
    <2>2. \A r \in Subs : sub[r] # "none" => parent[r] \in Turns /\ parent[r] # s
      BY <1>1 DEF SpawnInv
    <2> QED
      BY <1>1, <1>2, <2>1, <2>2 DEF CutInv, SpawnInv
  <1>7. StopInv'
    <2>1. stopping # Nobody => stopping \in Msgs
      BY DEF TypeOK
    <2>2. \A u \in Msgs : chat'[u] = chat[u]
      BY <1>2
    <2>3. stopping # Nobody /\ t \in Msgs => key[t] # key[stopping]
      BY <1>1 DEF StopInv, StoppedInv, StoppingInv, SubsInv, KindInv
    <2>4. StoppedInv'
      BY <1>1, <1>2, <2>1, <2>2, <2>3 DEF StopInv, StoppedInv, StoppingInv, SubsInv
    <2>5. StoppingInv'
      BY <1>1, <1>2, <2>1, <2>2, <2>3 DEF StopInv, StoppedInv, StoppingInv, SubsInv
    <2>6. SubsInv'
      BY <1>1, <1>2, <2>1, <2>2, <2>3 DEF StopInv, StoppedInv, StoppingInv, SubsInv
    <2> QED
      BY <2>4, <2>5, <2>6 DEF StopInv
  <1>8. ContextInv'
    <2>1. \A u \in Turns : InLoop(u) => u # s /\ chat'[u] = chat[u]
      BY <1>1, <1>2 DEF InLoop
    <2> QED
      BY <1>1, <2>1 DEF ContextInv, Running, InLoop, Answered
  <1>9. AnsweredUnlessMixed' /\ RoutedUnlessMixed'
    BY <1>1, <1>2 DEF AnsweredUnlessMixed, RoutedUnlessMixed, Answered, ChatInv, TypeOK
  <1> QED
    BY <1>3, <1>4, <1>5, <1>6, <1>7, <1>8, <1>9

(* A subagent announces its result.                                          *)
LEMMA SubDoneStep ==
  ASSUME IInv, NEW s \in Subs, SubDone(s)
  PROVE  IInv'
  <1> USE TurnKinds DEF IInv, queues, history, message
  <1>1. /\ sub[s] = "run" /\ phase[s] = "new" /\ kind[s] = "none"
        /\ phase' \in [Turns -> Phases] /\ phase'[s] = "inbound" /\ kind' \in [Turns -> Kinds] /\ kind'[s] = "system"
        /\ \A t \in Turns : t # s => phase'[t] = phase[t] /\ kind'[t] = kind[t]
        /\ UNCHANGED <<chat, key, waiting, holder, stopping, parent, ctx, out, stopped, cut, raised, mixed>>
    BY DEF SubDone, TypeOK, KindInv, Kinds, Phases
  <1>2. /\ sub' \in [Subs -> {"none", "run", "cancel", "cancelled", "announced"}]
        /\ sub'[s] = "announced" /\ \A r \in Subs : r # s => sub'[r] = sub[r]
    BY DEF SubDone, TypeOK
  <1>3. /\ inbound' \in Seq(Turns) /\ Distinct(inbound') /\ Items(inbound') = Items(inbound) \cup {s}
    BY <1>1, AppendItems DEF SubDone, TypeOK, QueueInv
  <1>4. TypeOK'
    BY <1>1, <1>2, <1>3 DEF TypeOK
  <1>5. KindInv' /\ ChatInv'
    <2>1. KindInv'
      BY <1>1, <1>2 DEF KindInv
    <2>2. chat[s] \in Chats /\ \A o \in out : o.turn \in Turns
      BY <1>1 DEF ChatInv, TypeOK
    <2>3. ChatInv'
      BY <1>1, <1>2, <2>2 DEF ChatInv
    <2> QED
      BY <2>1, <2>3
  <1>6. \A u \in Items(inbound) \cup Items(waiting) : u \in Turns
    BY DEF TypeOK, Items
  <1>7. QueueInv'
    BY <1>1, <1>3, <1>6 DEF QueueInv
  <1>8. LockInv'
    BY <1>1 DEF LockInv
  <1>9. CutInv' /\ SpawnInv'
    BY <1>1, <1>2 DEF CutInv, SpawnInv, TypeOK
  <1>10. StopInv'
    <2>1. \A u \in stopped : u \in Turns /\ u # s
      BY <1>1 DEF StopInv, StoppedInv, StoppingInv, SubsInv, TypeOK
    <2>2. stopping # Nobody => stopping \in Msgs /\ stopping # s
      BY DEF TypeOK
    <2>3. StoppedInv'
      BY <1>1, <1>2, <2>1, <2>2 DEF StopInv, StoppedInv, StoppingInv, SubsInv
    <2>4. StoppingInv'
      BY <1>1, <1>2, <2>1, <2>2 DEF StopInv, StoppedInv, StoppingInv, SubsInv
    <2>5. SubsInv'
      BY <1>1, <1>2, <2>1, <2>2 DEF StopInv, StoppedInv, StoppingInv, SubsInv
    <2> QED
      BY <2>3, <2>4, <2>5 DEF StopInv
  <1>11. ContextInv'
    BY <1>1 DEF ContextInv, Running, InLoop, Answered
  <1>12. AnsweredUnlessMixed' /\ RoutedUnlessMixed'
    BY <1>1 DEF AnsweredUnlessMixed, RoutedUnlessMixed, Answered
  <1> QED
    BY <1>4, <1>5, <1>7, <1>8, <1>9, <1>10, <1>11, <1>12

(* A turn that ends leaves its answer, or an apology, unless it has already   *)
(* sent something to the chat of the context.                                *)
LEMMA EndStep ==
  ASSUME IInv, NEW t \in Turns, End(t)
  PROVE  IInv'
  <1> USE TurnKinds DEF IInv, queues, history, message
  <1>1. /\ phase[t] = "run" /\ kind[t] # "stop" /\ chat[t] \in Chats
        /\ phase' \in [Turns -> Phases] /\ phase'[t] = "done" /\ \A u \in Turns : u # t => phase'[u] = phase[u]
        /\ holder' \in {holder, Nobody} /\ holder' # t /\ (holder # t => holder' = holder)
        /\ cut \subseteq cut' /\ cut' \subseteq cut \cup {t} /\ raised \subseteq raised' /\ raised' \subseteq raised \cup {t}
        /\ UNCHANGED <<kind, chat, key, inbound, waiting, stopping, sub, parent, ctx, stopped, mixed>>
    BY DEF End, Finish, FinishHandled, Fail, Rethrow, EndTurn, InLoop, TypeOK, Phases, ChatInv
  <1>2. PICK w \in {"reply", "empty", "error"} : out' = out \/ out' = out \cup {Out(t, chat[t], w)}
    BY DEF End, Finish, FinishHandled, Fail, Rethrow
  <1>3. /\ Out(t, chat[t], w) \in [turn : Turns, to : Chats,
                    what : {"tool", "elsewhere", "reply", "empty", "error", "stopped"}]
        /\ Out(t, chat[t], w).turn = t /\ Out(t, chat[t], w).to = chat[t] /\ Out(t, chat[t], w).what # "tool"
    BY <1>1 DEF Out
  <1>4. out \subseteq out' /\ \A o \in out' : o \in out \/ o = Out(t, chat[t], w)
    BY <1>2
  <1>5. TypeOK'
    BY <1>1, <1>3, <1>4 DEF TypeOK
  <1>6. KindInv'
    BY <1>1 DEF KindInv
  <1>7. ChatInv'
    <2>1. \A u \in Turns : phase'[u] = "new" <=> phase[u] = "new"
      BY <1>1
    <2>2. \A o \in out' : o.turn \in Turns /\ phase[o.turn] # "new"
      BY <1>1, <1>3, <1>4 DEF ChatInv, TypeOK
    <2> QED
      BY <1>1, <2>1, <2>2 DEF ChatInv
  <1>8. \A u \in Items(inbound) \cup Items(waiting) : u \in Turns
    BY DEF TypeOK, Items
  <1>9. QueueInv'
    BY <1>1, <1>8 DEF QueueInv
  <1>10. LockInv'
    BY <1>1 DEF LockInv
  <1>11. StopInv'
    <2>1. \A u \in stopped : u \in Turns /\ u # t
      BY <1>1 DEF StopInv, StoppedInv, StoppingInv, SubsInv, TypeOK
    <2>2. stopping # Nobody => stopping \in Msgs /\ stopping # t
      BY <1>1 DEF StopInv, StoppedInv, StoppingInv, SubsInv, TypeOK
    <2>3. StoppedInv'
      BY <1>1, <2>1, <2>2 DEF StopInv, StoppedInv, StoppingInv, SubsInv
    <2>4. StoppingInv'
      BY <1>1, <2>1, <2>2 DEF StopInv, StoppedInv, StoppingInv, SubsInv
    <2>5. SubsInv'
      BY <1>1, <2>1, <2>2 DEF StopInv, StoppedInv, StoppingInv, SubsInv
    <2> QED
      BY <2>3, <2>4, <2>5 DEF StopInv
  <1>12. CutInv' /\ SpawnInv'
    BY <1>1 DEF CutInv, SpawnInv, TypeOK
  <1>13. ContextInv'
    BY <1>1, <1>4 DEF ContextInv, Running, InLoop, Answered
  <1>14. AnsweredUnlessMixed'
    <2>1. ASSUME t \in Msgs, t \notin mixed, kind[t] = "user"
          PROVE  Answered(t)' \/ (t \in raised' /\ cut' \ {t} # {})
      <3>1. CASE Out(t, chat[t], w) \in out'
        BY <1>1, <1>3, <3>1 DEF Answered
      <3>2. CASE out' = out
        <4>1. CASE Finish(t)
          <5>1. ctx.sent => Answered(t)
            BY <2>1, <4>1 DEF ContextInv, Finish
          <5>2. ~ctx.sent => Out(t, chat[t], "reply") \in out
            BY <3>2, <4>1 DEF Finish
          <5> QED
            BY <1>1, <3>2, <5>1, <5>2 DEF Answered, Out
        <4>2. CASE FinishHandled(t) \/ Fail(t)
          <5>1. \E x \in {"reply", "error"} : Out(t, chat[t], x) \in out'
            BY <2>1, <4>2 DEF FinishHandled, Fail
          <5> QED
            BY <1>1, <5>1 DEF Answered, Out
        <4>3. CASE Rethrow(t)
          BY <1>1, <4>3 DEF Rethrow, CutInv
        <4> QED
          BY <4>1, <4>2, <4>3 DEF End
      <3> QED
        BY <1>2, <3>1, <3>2
    <2>2. \A u \in Msgs : Answered(u) => Answered(u)'
      BY <1>1, <1>4 DEF Answered
    <2> QED
      BY <1>1, <2>1, <2>2 DEF AnsweredUnlessMixed
  <1>15. RoutedUnlessMixed'
    BY <1>1, <1>3, <1>4 DEF RoutedUnlessMixed
  <1> QED
    BY <1>5, <1>6, <1>7, <1>9, <1>10, <1>11, <1>12, <1>13, <1>14, <1>15

-----------------------------------------------------------------------------
(* Every step keeps the invariant.                                           *)
LEMMA NextInv == IInv /\ [Next]_vars => IInv'
  <1> SUFFICES ASSUME IInv, [Next]_vars PROVE IInv'
    OBVIOUS
  <1>1. CASE UNCHANGED vars
    BY <1>1 DEF vars, message, queues, history, IInv, TypeOK, KindInv, ChatInv, QueueInv, LockInv, StopInv, StoppedInv, StoppingInv, SubsInv,
                CutInv, SpawnInv, ContextInv, Running, InLoop, Answered, AnsweredUnlessMixed, RoutedUnlessMixed
  <1>2. ASSUME NEW m \in Msgs, NEW c \in Keys, NEW k \in {"user", "command", "stop"}, Send(m, c, k) PROVE IInv'
    BY <1>2, SendStep
  <1>3. CASE Consume \/ ConsumeStop \/ StopSubs \/ StopFinish
    BY <1>3, ConsumeStep, ConsumeStopStep, StopSubsStep, StopFinishStep
  <1>4. CASE \E d \in Directs : BeginDirect(d)
    BY <1>4, BeginDirectStep
  <1>5. CASE \E s \in Subs : SubDone(s) \/ SubCancelled(s)
    BY <1>5, SubDoneStep, SubCancelledStep
  <1>6. ASSUME NEW t \in Turns, Cancelled(t) \/ Acquire(t) \/ Step(t) \/ End(t) PROVE IInv'
    BY <1>6, CancelledStep, AcquireStep, ToolMessageStep, ToolSpawnStep, EndStep DEF Step
  <1> QED
    BY <1>1, <1>2, <1>3, <1>4, <1>5, <1>6 DEF Next

-----------------------------------------------------------------------------
(* What follows.                                                           *)

(* Every variable keeps its type; what is published goes to a real chat.    *)
THEOREM TurnType == Spec => []TypeOK
  <1>1. IInv => TypeOK
    BY DEF IInv
  <1> QED
    BY <1>1, InitInv, NextInv, PTL DEF Spec

(* The bus turns never overlap, and no queued task is lost, whatever /stop   *)
(* cancels and whoever fails.                                                *)
THEOREM TurnLockSerializes == Spec => []LockSerializes
  <1>1. IInv => LockSerializes
    <2> SUFFICES ASSUME IInv PROVE LockSerializes
      OBVIOUS
    <2>1. ASSUME NEW t \in Turns, phase[t] = "queued" PROVE \E i \in 1..Len(waiting) : waiting[i] = t
      BY <2>1 DEF IInv, QueueInv, Items
    <2> QED
      BY <2>1 DEF LockSerializes, IInv, LockInv
  <1> QED
    BY <1>1, InitInv, NextInv, PTL DEF Spec

(* A user's turn that was not stopped leaves something in its chat, unless a *)
(* direct turn ran at the same time, or it waited for what was cancelled     *)
(* with another turn that was cut off.                                       *)
THEOREM TurnAnswered == Spec => []AnsweredUnlessMixed
  <1>1. IInv => AnsweredUnlessMixed
    BY DEF IInv
  <1> QED
    BY <1>1, InitInv, NextInv, PTL DEF Spec

(* What a turn sends to the default target of the message tool goes to its   *)
(* own chat, unless a direct turn ran at the same time.                      *)
THEOREM TurnRouted == Spec => []RoutedUnlessMixed
  <1>1. IInv => RoutedUnlessMixed
    BY DEF IInv
  <1> QED
    BY <1>1, InitInv, NextInv, PTL DEF Spec

(* Only the first waiter gets the processing lock.                           *)
LEMMA OnlyAcquireRuns ==
  ASSUME IInv, Next, NEW t \in Turns, phase[t] = "queued", phase'[t] = "run"
  PROVE  Acquire(t)
  <1>1. ASSUME NEW m \in Msgs, NEW c \in Keys, NEW k \in {"user", "command", "stop"}, Send(m, c, k) PROVE FALSE
    BY <1>1, TurnKinds DEF Send, IInv, TypeOK
  <1>2. CASE Consume
    BY <1>2 DEF Consume, IInv, TypeOK
  <1>3. CASE ConsumeStop
    BY <1>3, TailItems DEF ConsumeStop, IInv, TypeOK, QueueInv
  <1>4. CASE StopSubs \/ StopFinish
    BY <1>4 DEF StopSubs, StopFinish, IInv, TypeOK
  <1>5. ASSUME NEW d \in Directs, BeginDirect(d) PROVE FALSE
    BY <1>5 DEF BeginDirect, IInv, TypeOK
  <1>6. ASSUME NEW s \in Subs, SubDone(s) \/ SubCancelled(s) PROVE FALSE
    BY <1>6 DEF SubDone, SubCancelled, IInv, TypeOK
  <1>7. ASSUME NEW u \in Turns, Cancelled(u) \/ Step(u) \/ End(u) PROVE FALSE
    BY <1>7 DEF Cancelled, Step, ToolMessage, ToolSpawn, End, Finish, FinishHandled, Fail, Rethrow, EndTurn, IInv, TypeOK
  <1>8. ASSUME NEW u \in Turns, Acquire(u) PROVE u = t
    BY <1>8 DEF Acquire, IInv, TypeOK
  <1> QED
    BY <1>1, <1>2, <1>3, <1>4, <1>5, <1>6, <1>7, <1>8 DEF Next

(* The turns are served in the order in which run() took their messages.     *)
THEOREM TurnServedInOrder == Spec => ServedInOrder
  <1> DEFINE A == \A i \in 1..Len(waiting), j \in 1..Len(waiting) :
                    i < j /\ phase[waiting[j]] = "queued" /\ phase'[waiting[j]] = "run"
                      => phase[waiting[i]] # "queued"
  <1>1. IInv /\ [Next]_vars => [A]_vars
    <2> SUFFICES ASSUME IInv, Next, NEW i \in 1..Len(waiting), NEW j \in 1..Len(waiting),
                        i < j, phase[waiting[j]] = "queued", phase'[waiting[j]] = "run"
                 PROVE  FALSE
      OBVIOUS
    <2>1. waiting \in Seq(Turns) /\ waiting[j] \in Turns
      BY DEF IInv, TypeOK
    <2>2. waiting[j] = Head(waiting) /\ waiting # << >>
      BY <2>1, OnlyAcquireRuns DEF Acquire
    <2>3. waiting[j] = waiting[1] /\ 1 \in 1..Len(waiting)
      BY <2>1, <2>2
    <2>4. j = 1
      BY <2>3 DEF IInv, QueueInv, Distinct
    <2> QED
      BY <2>4
  <1> QED
    BY <1>1, InitInv, NextInv, PTL DEF Spec, ServedInOrder

(* Only its answer ends the handling of a /stop.                             *)
LEMMA OnlyFinishAnswers ==
  ASSUME Next, stopping # Nobody, stopping' = Nobody
  PROVE  StopFinish
  <1>1. ASSUME NEW t \in Turns, Cancelled(t) \/ Acquire(t) \/ Step(t) \/ End(t) PROVE stopping' = stopping
    BY <1>1 DEF Cancelled, Acquire, Step, ToolMessage, ToolSpawn, End, Finish, FinishHandled, Fail, Rethrow, EndTurn
  <1>2. ASSUME NEW s \in Subs, SubDone(s) \/ SubCancelled(s) PROVE stopping' = stopping
    BY <1>2 DEF SubDone, SubCancelled
  <1>3. ASSUME NEW d \in Directs, BeginDirect(d) PROVE stopping' = stopping
    BY <1>3 DEF BeginDirect
  <1>4. ASSUME NEW m \in Msgs, NEW c \in Keys, NEW k \in {"user", "command", "stop"}, Send(m, c, k)
        PROVE  stopping' = stopping
    BY <1>4 DEF Send
  <1> QED
    BY <1>1, <1>2, <1>3, <1>4 DEF Next, Consume, ConsumeStop, StopSubs

(* When /stop is answered, what the session had under way is over: its       *)
(* messages, and the subagents they spawned unless a direct turn gave them   *)
(* the context of another chat or the session is that of a thread.           *)
THEOREM TurnStopStops == Spec => StopStops
  <1> DEFINE A == \A m \in Msgs : stopping = m /\ stopping' = Nobody =>
                    /\ \A t \in Msgs : kind[t] \in {"user", "command"} /\ key[t] = key[m]
                         => phase'[t] \notin {"queued", "run", "cancel"}
                    /\ \A s \in Subs : /\ parent[s] \in Msgs \ mixed /\ key[parent[s]] = key[m]
                                       /\ key[m] \notin Threads
                         => sub'[s] \notin {"run", "cancel"}
  <1>1. IInv /\ [Next]_vars => [A]_vars
    <2> SUFFICES ASSUME IInv, Next, NEW m \in Msgs, stopping = m, stopping' = Nobody
                 PROVE  /\ \A t \in Msgs : kind[t] \in {"user", "command"} /\ key[t] = key[m]
                             => phase'[t] \notin {"queued", "run", "cancel"}
                        /\ \A s \in Subs : /\ parent[s] \in Msgs \ mixed /\ key[parent[s]] = key[m]
                                           /\ key[m] \notin Threads
                             => sub'[s] \notin {"run", "cancel"}
      BY DEF vars
    <2>1. m # Nobody /\ StopFinish
      BY OnlyFinishAnswers, TurnKinds
    <2>2. /\ phase[m] = "answer" /\ sub' = sub /\ \A s \in Subs : sub[s] # "cancel"
          /\ \A t \in Turns : phase'[t] = IF t = m THEN "done" ELSE phase[t]
      BY <2>1 DEF StopFinish, IInv, TypeOK
    <2> QED
      BY <2>1, <2>2, TurnKinds DEF IInv, StopInv, StoppedInv, StoppingInv, SubsInv
  <1> QED
    BY <1>1, InitInv, NextInv, PTL DEF Spec, StopStops

(* A turn that was stopped publishes nothing any more.                       *)
THEOREM TurnStoppedSilent == Spec => StoppedSilent
  <1> DEFINE A == \A t \in stopped : {o \in out' : o.turn = t} = {o \in out : o.turn = t}
  <1>1. IInv /\ [Next]_vars => [A]_vars
    <2> SUFFICES ASSUME IInv, Next, NEW t \in stopped
                 PROVE  {o \in out' : o.turn = t} = {o \in out : o.turn = t}
      BY DEF vars
    <2>1. phase[t] \in {"cancel", "done"} /\ t \in Turns
      BY DEF IInv, StopInv, StoppedInv, StoppingInv, SubsInv, TypeOK
    <2>2. ASSUME NEW u \in Turns, Step(u) \/ End(u)
          PROVE  \/ out' = out
                 \/ u # t /\ \E c, w : out' = out \cup {Out(u, c, w)}
      <3>1. phase[u] = "run"
        BY <2>2 DEF Step, ToolMessage, ToolSpawn, End, Finish, FinishHandled, Fail, Rethrow, InLoop
      <3>2. out' = out \/ \E c, w : out' = out \cup {Out(u, c, w)}
        BY <2>2 DEF Step, ToolMessage, ToolSpawn, End, Finish, FinishHandled, Fail, Rethrow
      <3> QED
        BY <2>1, <3>1, <3>2
    <2>3. CASE StopFinish
      <3>1. stopping # t /\ out' = out \cup {Out(stopping, chat[stopping], "stopped")}
        BY <2>1, <2>3 DEF StopFinish
      <3> QED
        BY <3>1 DEF Out
    <2>4. ASSUME NEW u, u # t, NEW c, NEW w, out' = out \cup {Out(u, c, w)}
          PROVE  {o \in out' : o.turn = t} = {o \in out : o.turn = t}
      BY <2>4 DEF Out
    <2>5. CASE Consume \/ ConsumeStop \/ StopSubs
      BY <2>5 DEF Consume, ConsumeStop, StopSubs
    <2>6. ASSUME NEW u \in Turns, Cancelled(u) \/ Acquire(u) PROVE out' = out
      BY <2>6 DEF Cancelled, Acquire
    <2>7. ASSUME NEW s \in Subs, SubDone(s) \/ SubCancelled(s) PROVE out' = out
      BY <2>7 DEF SubDone, SubCancelled
    <2>8. ASSUME NEW d \in Directs, BeginDirect(d) PROVE out' = out
      BY <2>8 DEF BeginDirect
    <2>9. ASSUME NEW m \in Msgs, NEW c \in Keys, NEW k \in {"user", "command", "stop"}, Send(m, c, k)
          PROVE  out' = out
      BY <2>9 DEF Send
    <2> QED
      BY <2>2, <2>3, <2>4, <2>5, <2>6, <2>7, <2>8, <2>9 DEF Next
  <1> QED
    BY <1>1, InitInv, NextInv, PTL DEF Spec, StoppedSilent

-----------------------------------------------------------------------------
(* The line of the server is the waiters followed by the bus.                *)

Cut(q, i) == [j \in 1..(Len(q) - 1) |-> IF j < i THEN q[j] ELSE q[j + 1]]

(* Whoever comes to the bus comes to the end of the line.                    *)
LEMMA LineGrows ==
  ASSUME NEW T, NEW q \in Seq(T), NEW r \in Seq(T), NEW x \in T
  PROVE  q \o Append(r, x) = Append(q \o r, x)
  <1> DEFINE a == q \o Append(r, x)
             b == Append(q \o r, x)
  <1>1. /\ Append(r, x) \in Seq(T) /\ Len(Append(r, x)) = Len(r) + 1 /\ Len(r) \in Nat /\ Len(q) \in Nat
        /\ \A i \in 1..(Len(r) + 1) : Append(r, x)[i] = IF i = Len(r) + 1 THEN x ELSE r[i]
    OBVIOUS
  <1>2. /\ q \o r \in Seq(T) /\ Len(q \o r) = Len(q) + Len(r)
        /\ \A i \in 1..(Len(q) + Len(r)) : (q \o r)[i] = IF i <= Len(q) THEN q[i] ELSE r[i - Len(q)]
    BY ConcatProperties
  <1>3. /\ a \in Seq(T) /\ Len(a) = Len(q) + (Len(r) + 1)
        /\ \A i \in 1..(Len(q) + (Len(r) + 1)) :
             a[i] = IF i <= Len(q) THEN q[i] ELSE Append(r, x)[i - Len(q)]
    <2> DEFINE s == Append(r, x)
    <2>1. s \in Seq(T) /\ Len(s) = Len(r) + 1
      BY <1>1
    <2> HIDE DEF s
    <2>2. /\ q \o s \in Seq(T) /\ Len(q \o s) = Len(q) + Len(s)
          /\ \A i \in 1..(Len(q) + Len(s)) : (q \o s)[i] = IF i <= Len(q) THEN q[i] ELSE s[i - Len(q)]
      BY <2>1, ConcatProperties
    <2> QED
      BY <2>1, <2>2 DEF s
  <1>4. /\ b \in Seq(T) /\ Len(b) = (Len(q) + Len(r)) + 1
        /\ \A i \in 1..((Len(q) + Len(r)) + 1) : b[i] = IF i = (Len(q) + Len(r)) + 1 THEN x ELSE (q \o r)[i]
    BY <1>2
  <1> HIDE DEF a, b
  <1>5. ASSUME NEW i \in 1..Len(a) PROVE a[i] = b[i]
    <2>0. i \in 1..(Len(q) + (Len(r) + 1)) /\ i \in 1..((Len(q) + Len(r)) + 1)
      BY <1>1, <1>3
    <2>1. CASE i <= Len(q)
      <3>1. i \in 1..(Len(q) + Len(r)) /\ i # (Len(q) + Len(r)) + 1
        BY <1>1, <2>0, <2>1
      <3> QED
        BY <1>2, <1>3, <1>4, <2>0, <2>1, <3>1
    <2>2. CASE i > Len(q)
      <3>0. i - Len(q) \in 1..(Len(r) + 1) /\ ~(i <= Len(q))
        BY <1>1, <2>0, <2>2
      <3>1. i - Len(q) \in 1..(Len(r) + 1) /\ a[i] = Append(r, x)[i - Len(q)]
        BY <1>3, <2>0, <3>0
      <3>2. CASE i = (Len(q) + Len(r)) + 1
        BY <1>1, <1>3, <1>4, <3>1, <3>2
      <3>3. CASE i # (Len(q) + Len(r)) + 1
        <4>1. i \in 1..(Len(q) + Len(r)) /\ i - Len(q) # Len(r) + 1
          BY <1>1, <1>3, <3>3
        <4> QED
          BY <1>1, <1>2, <1>3, <1>4, <2>2, <3>1, <3>3, <4>1
      <3> QED
        BY <3>2, <3>3
    <2> QED
      BY <1>1, <1>3, <2>1, <2>2
  <1>6. Len(a) = Len(b)
    BY <1>1, <1>3, <1>4
  <1>7. a = b
    BY <1>3, <1>4, <1>5, <1>6, SeqEqual
  <1> QED
    BY <1>7 DEF a, b

(* Who waits first for the lock is the first of the line.                    *)
LEMMA LineBegins ==
  ASSUME NEW T, NEW q \in Seq(T), NEW r \in Seq(T), q # << >>
  PROVE  q \o r # << >> /\ Head(q \o r) = Head(q) /\ Tail(q \o r) = Tail(q) \o r
  <1> DEFINE a == Tail(q) \o r
             b == Tail(q \o r)
  <1>1. /\ Len(q) \in Nat \ {0} /\ Len(r) \in Nat /\ Head(q) = q[1]
        /\ Tail(q) \in Seq(T) /\ Len(Tail(q)) = Len(q) - 1
        /\ \A i \in 1..(Len(q) - 1) : Tail(q)[i] = q[i + 1]
    OBVIOUS
  <1>2. /\ q \o r \in Seq(T) /\ Len(q \o r) = Len(q) + Len(r)
        /\ \A i \in 1..(Len(q) + Len(r)) : (q \o r)[i] = IF i <= Len(q) THEN q[i] ELSE r[i - Len(q)]
    BY ConcatProperties
  <1>3. q \o r # << >> /\ Head(q \o r) = Head(q)
    BY <1>1, <1>2
  <1>4. /\ a \in Seq(T) /\ Len(a) = (Len(q) - 1) + Len(r)
        /\ \A i \in 1..((Len(q) - 1) + Len(r)) :
             a[i] = IF i <= Len(q) - 1 THEN Tail(q)[i] ELSE r[i - (Len(q) - 1)]
    BY <1>1, ConcatProperties
  <1>5. /\ b \in Seq(T) /\ Len(b) = (Len(q) + Len(r)) - 1
        /\ \A i \in 1..((Len(q) + Len(r)) - 1) : b[i] = (q \o r)[i + 1]
    BY <1>2, <1>3, HeadTailProperties
  <1> HIDE DEF a, b
  <1>6. ASSUME NEW i \in 1..Len(a) PROVE a[i] = b[i]
    <2>1. i \in 1..((Len(q) + Len(r)) - 1) /\ i + 1 \in 1..(Len(q) + Len(r))
          /\ (i + 1) - Len(q) = i - (Len(q) - 1)
      BY <1>1, <1>4
    <2>2. CASE i <= Len(q) - 1
      BY <1>1, <1>2, <1>4, <1>5, <2>1, <2>2
    <2>3. CASE ~(i <= Len(q) - 1)
      BY <1>1, <1>2, <1>4, <1>5, <2>1, <2>3
    <2> QED
      BY <2>2, <2>3
  <1>7. Len(a) = Len(b)
    BY <1>1, <1>4, <1>5
  <1>8. a = b
    BY <1>4, <1>5, <1>6, <1>7, SeqEqual
  <1> QED
    BY <1>3, <1>8 DEF a, b

(* The first on the bus stands behind those who wait for the lock: it may     *)
(* join them, or be taken out.                                               *)
LEMMA LineAtBus ==
  ASSUME NEW T, NEW q \in Seq(T), NEW r \in Seq(T), r # << >>
  PROVE  /\ Append(q, Head(r)) \o Tail(r) = q \o r
         /\ Len(q) + 1 \in 1..Len(q \o r) /\ (q \o r)[Len(q) + 1] = Head(r)
         /\ q \o Tail(r) = Cut(q \o r, Len(q) + 1)
         /\ \A i \in 1..Len(q) : (q \o r)[i] = q[i]
  <1> DEFINE x == Head(r)
             a == Append(q, x) \o Tail(r)
             b == q \o Tail(r)
             c == Cut(q \o r, Len(q) + 1)
  <1>1. /\ Len(q) \in Nat /\ Len(r) \in Nat \ {0} /\ x = r[1] /\ x \in T
        /\ Tail(r) \in Seq(T) /\ Len(Tail(r)) = Len(r) - 1
        /\ \A i \in 1..(Len(r) - 1) : Tail(r)[i] = r[i + 1]
    OBVIOUS
  <1> HIDE DEF x
  <1>2. /\ q \o r \in Seq(T) /\ Len(q \o r) = Len(q) + Len(r)
        /\ \A i \in 1..(Len(q) + Len(r)) : (q \o r)[i] = IF i <= Len(q) THEN q[i] ELSE r[i - Len(q)]
    BY ConcatProperties
  <1>3. Len(q) + 1 \in 1..Len(q \o r) /\ (q \o r)[Len(q) + 1] = x
    <2>1. Len(q) + 1 \in 1..(Len(q) + Len(r)) /\ ~(Len(q) + 1 <= Len(q)) /\ (Len(q) + 1) - Len(q) = 1
      BY <1>1
    <2> QED
      BY <1>1, <1>2, <2>1
  <1>4. /\ Append(q, x) \in Seq(T) /\ Len(Append(q, x)) = Len(q) + 1
        /\ \A i \in 1..(Len(q) + 1) : Append(q, x)[i] = IF i = Len(q) + 1 THEN x ELSE q[i]
    BY <1>1
  <1>5. /\ a \in Seq(T) /\ Len(a) = (Len(q) + 1) + (Len(r) - 1)
        /\ \A i \in 1..((Len(q) + 1) + (Len(r) - 1)) :
             a[i] = IF i <= Len(q) + 1 THEN Append(q, x)[i] ELSE Tail(r)[i - (Len(q) + 1)]
    BY <1>1, <1>4, ConcatProperties
  <1>6. /\ b \in Seq(T) /\ Len(b) = Len(q) + (Len(r) - 1)
        /\ \A i \in 1..(Len(q) + (Len(r) - 1)) : b[i] = IF i <= Len(q) THEN q[i] ELSE Tail(r)[i - Len(q)]
    BY <1>1, ConcatProperties
  <1>7. \A i \in 1..((Len(q) + Len(r)) - 1) : i + 1 \in 1..(Len(q) + Len(r)) /\ i \in 1..(Len(q) + Len(r))
    BY <1>1
  <1>8. /\ c \in Seq(T) /\ Len(c) = (Len(q) + Len(r)) - 1
        /\ \A i \in 1..((Len(q) + Len(r)) - 1) :
             c[i] = IF i < Len(q) + 1 THEN (q \o r)[i] ELSE (q \o r)[i + 1]
    <2>1. (Len(q) + Len(r)) - 1 \in Nat
      BY <1>1
    <2>2. \A i \in 1..((Len(q) + Len(r)) - 1) :
            (IF i < Len(q) + 1 THEN (q \o r)[i] ELSE (q \o r)[i + 1]) \in T
      <3>1. \A i \in 1..(Len(q) + Len(r)) : (q \o r)[i] \in T
        BY <1>2, ElementOfSeq
      <3> QED
        BY <1>7, <3>1
    <2>3. c = [i \in 1..((Len(q) + Len(r)) - 1) |->
                 IF i < Len(q) + 1 THEN (q \o r)[i] ELSE (q \o r)[i + 1]]
      BY <1>2 DEF Cut
    <2> HIDE DEF c
    <2> QED
      BY <2>1, <2>2, <2>3
  <1> HIDE DEF a, b, c
  <1>9. a = q \o r
    <2>1. ASSUME NEW i \in 1..Len(a) PROVE a[i] = (q \o r)[i]
      <3>1. i \in 1..(Len(q) + Len(r)) /\ i \in 1..((Len(q) + 1) + (Len(r) - 1))
        BY <1>1, <1>5
      <3>2. CASE i <= Len(q)
        BY <1>1, <1>2, <1>4, <1>5, <3>1, <3>2
      <3>3. CASE i = Len(q) + 1
        BY <1>1, <1>3, <1>4, <1>5, <3>1, <3>3
      <3>4. CASE i > Len(q) + 1
        <4>1. i - (Len(q) + 1) \in 1..(Len(r) - 1) /\ (i - (Len(q) + 1)) + 1 = i - Len(q)
          BY <1>1, <3>1, <3>4
        <4>2. a[i] = r[i - Len(q)]
          BY <1>1, <1>5, <3>1, <3>4, <4>1
        <4> QED
          BY <1>1, <1>2, <3>1, <3>4, <4>2
      <3> QED
        BY <1>1, <3>1, <3>2, <3>3, <3>4
    <2>2. Len(a) = Len(q \o r)
      BY <1>1, <1>2, <1>5
    <2> QED
      BY <1>2, <1>5, <2>1, <2>2, SeqEqual
  <1>10. b = c
    <2>1. ASSUME NEW i \in 1..Len(b) PROVE b[i] = c[i]
      <3>1. i \in 1..((Len(q) + Len(r)) - 1) /\ i \in 1..(Len(q) + (Len(r) - 1))
        BY <1>1, <1>6
      <3>2. CASE i <= Len(q)
        BY <1>1, <1>2, <1>6, <1>7, <1>8, <3>1, <3>2
      <3>3. CASE i > Len(q)
        <4>1. i - Len(q) \in 1..(Len(r) - 1) /\ (i - Len(q)) + 1 = (i + 1) - Len(q)
          BY <1>1, <3>1, <3>3
        <4>2. b[i] = r[(i + 1) - Len(q)]
          BY <1>1, <1>6, <3>1, <3>3, <4>1
        <4>3. c[i] = (q \o r)[i + 1]
          BY <1>1, <1>8, <3>1, <3>3
        <4> QED
          BY <1>1, <1>2, <1>7, <3>1, <3>3, <4>2, <4>3
      <3> QED
        BY <1>1, <3>1, <3>2, <3>3
    <2>2. Len(b) = Len(c)
      BY <1>1, <1>6, <1>8
    <2> QED
      BY <1>6, <1>8, <2>1, <2>2, SeqEqual
  <1>11. \A i \in 1..Len(q) : (q \o r)[i] = q[i]
    BY <1>1, <1>2
  <1> QED
    BY <1>3, <1>9, <1>10, <1>11 DEF a, b, c, x

(* A waiter that leaves the lock leaves the line.                            *)
LEMMA LineLoses ==
  ASSUME NEW T, NEW q \in Seq(T), NEW r \in Seq(T), Distinct(q), NEW k \in 1..Len(q)
  PROVE  /\ k \in 1..Len(q \o r) /\ (q \o r)[k] = q[k]
         /\ Without(q, q[k]) \o r = Cut(q \o r, k)
  <1> DEFINE w == Without(q, q[k])
             a == w \o r
             c == Cut(q \o r, k)
  <1>1. /\ Len(q) \in Nat \ {0} /\ Len(r) \in Nat /\ k \in Nat /\ k >= 1 /\ k <= Len(q)
        /\ \A i \in 1..Len(q) : q[i] \in T
    BY ElementOfSeq
  <1>2. /\ q \o r \in Seq(T) /\ Len(q \o r) = Len(q) + Len(r)
        /\ \A i \in 1..(Len(q) + Len(r)) : (q \o r)[i] = IF i <= Len(q) THEN q[i] ELSE r[i - Len(q)]
    BY ConcatProperties
  <1>3. w = [j \in 1..(Len(q) - 1) |-> IF j < k THEN q[j] ELSE q[j + 1]]
    <2>1. {i \in 1..Len(q) : q[i] = q[k]} = {k}
      BY DEF Distinct
    <2> QED
      BY <2>1 DEF Without
  <1>4. /\ w \in Seq(T) /\ Len(w) = Len(q) - 1
        /\ \A j \in 1..(Len(q) - 1) : w[j] = IF j < k THEN q[j] ELSE q[j + 1]
    <2>1. Len(q) - 1 \in Nat /\ \A j \in 1..(Len(q) - 1) : j \in 1..Len(q) /\ j + 1 \in 1..Len(q)
      BY <1>1
    <2>2. \A j \in 1..(Len(q) - 1) : (IF j < k THEN q[j] ELSE q[j + 1]) \in T
      BY <1>1, <2>1
    <2> QED
      BY <1>3, <2>1, <2>2
  <1> HIDE DEF w
  <1>5. /\ a \in Seq(T) /\ Len(a) = (Len(q) - 1) + Len(r)
        /\ \A i \in 1..((Len(q) - 1) + Len(r)) :
             a[i] = IF i <= Len(q) - 1 THEN w[i] ELSE r[i - (Len(q) - 1)]
    <2>1. /\ a \in Seq(T) /\ Len(a) = Len(w) + Len(r)
          /\ \A i \in 1..(Len(w) + Len(r)) : a[i] = IF i <= Len(w) THEN w[i] ELSE r[i - Len(w)]
      BY <1>4, ConcatProperties
    <2> HIDE DEF a
    <2> QED
      BY <1>4, <2>1
  <1>6. \A i \in 1..((Len(q) + Len(r)) - 1) : i + 1 \in 1..(Len(q) + Len(r)) /\ i \in 1..(Len(q) + Len(r))
    BY <1>1
  <1>7. /\ c \in Seq(T) /\ Len(c) = (Len(q) + Len(r)) - 1
        /\ \A i \in 1..((Len(q) + Len(r)) - 1) : c[i] = IF i < k THEN (q \o r)[i] ELSE (q \o r)[i + 1]
    <2>1. (Len(q) + Len(r)) - 1 \in Nat
      BY <1>1
    <2>2. \A i \in 1..((Len(q) + Len(r)) - 1) : (IF i < k THEN (q \o r)[i] ELSE (q \o r)[i + 1]) \in T
      <3>1. \A i \in 1..(Len(q) + Len(r)) : (q \o r)[i] \in T
        BY <1>2, ElementOfSeq
      <3> QED
        BY <1>6, <3>1
    <2>3. c = [i \in 1..((Len(q) + Len(r)) - 1) |-> IF i < k THEN (q \o r)[i] ELSE (q \o r)[i + 1]]
      BY <1>2 DEF Cut
    <2> QED
      BY <2>1, <2>2, <2>3
  <1> HIDE DEF a, c
  <1>8. ASSUME NEW i \in 1..Len(a) PROVE a[i] = c[i]
    <2>1. i \in 1..((Len(q) + Len(r)) - 1) /\ i \in 1..((Len(q) - 1) + Len(r))
      BY <1>1, <1>5
    <2>2. CASE i < k
      <3>1. i <= Len(q) - 1 /\ i \in 1..(Len(q) - 1) /\ i <= Len(q)
        BY <1>1, <2>1, <2>2
      <3> QED
        BY <1>2, <1>4, <1>5, <1>6, <1>7, <2>1, <2>2, <3>1
    <2>3. CASE ~(i < k) /\ i <= Len(q) - 1
      <3>1. i \in 1..(Len(q) - 1) /\ i + 1 <= Len(q)
        BY <1>1, <2>1, <2>3
      <3> QED
        BY <1>2, <1>4, <1>5, <1>6, <1>7, <2>1, <2>3, <3>1
    <2>4. CASE ~(i <= Len(q) - 1)
      <3>1. ~(i < k) /\ ~(i + 1 <= Len(q)) /\ (i + 1) - Len(q) = i - (Len(q) - 1)
        BY <1>1, <2>1, <2>4
      <3> QED
        BY <1>2, <1>5, <1>6, <1>7, <2>1, <2>4, <3>1
    <2> QED
      BY <2>2, <2>3, <2>4
  <1>9. Len(a) = Len(c)
    BY <1>1, <1>5, <1>7
  <1>10. a = c
    BY <1>5, <1>7, <1>8, <1>9, SeqEqual
  <1>11. k \in 1..Len(q \o r) /\ (q \o r)[k] = q[k]
    <2>1. k \in 1..(Len(q) + Len(r))
      BY <1>1
    <2> QED
      BY <1>1, <1>2, <2>1
  <1> QED
    BY <1>10, <1>11 DEF a, c, w

-----------------------------------------------------------------------------
(* The agent implements the server.                                          *)

Come == {t \in Msgs \cup Subs : phase[t] # "new"}
Stops == {t \in Msgs \cup Subs : kind[t] = "stop"}
Said == {o \in out : o.turn \notin Directs /\ o.what # "stopped"}
ServerStep == [Server!Next]_(Server!vars)

(* What the server sees of the agent, once for all steps.                    *)
LEMMA ServerView ==
  /\ Server!vars = <<Come, Stops, waiting \o inbound, holder, stopped, Said>>
  /\ Server!vars' = <<Come', Stops', waiting' \o inbound', holder', stopped', Said'>>
  BY DEF Server!vars, Come, Stops, Said

(* A step that the server does not see.                                      *)
LEMMA Unseen ==
  ASSUME Come' = Come, Stops' = Stops, waiting' \o inbound' = waiting \o inbound, holder' = holder,
         stopped' = stopped, Said' = Said
  PROVE  ServerStep
  BY DEF ServerStep, Server!vars, Come, Stops, Said

(* Nothing new is said where nothing is published.                           *)
LEMMA SameSaid == out' = out => Said' = Said
  BY DEF Said

(* Nobody becomes a /stop where no message comes.                            *)
LEMMA SameStops == kind' = kind => Stops' = Stops
  BY DEF Stops

(* Who has come stays the same where nobody is new.                          *)
LEMMA SameCome ==
  ASSUME IInv, \A t \in Turns : phase'[t] = "new" <=> phase[t] = "new"
  PROVE  Come' = Come
  BY TurnKinds DEF Come

(* Somebody comes: a message of a user, or the announcement of a subagent.   *)
LEMMA ArriveServer ==
  ASSUME IInv, NEW t \in Msgs \cup Subs, phase[t] = "new",
         phase' = [phase EXCEPT ![t] = "inbound"], inbound' = Append(inbound, t),
         NEW k, kind' = [kind EXCEPT ![t] = k],
         UNCHANGED <<waiting, holder, stopped, out>>
  PROVE  ServerStep
  <1>1. t \in Turns /\ \A u \in Turns : phase'[u] = IF u = t THEN "inbound" ELSE phase[u]
    BY TurnKinds DEF IInv, TypeOK
  <1>2. t \notin Come /\ Come' = Come \cup {t}
    BY <1>1, TurnKinds DEF Come
  <1>3. waiting' \o inbound' = Append(waiting \o inbound, t)
    BY <1>1, LineGrows DEF IInv, TypeOK
  <1>4. Stops' \in {Stops, Stops \cup {t}}
    <2>1. kind[t] = "none" /\ \A u \in Turns : kind'[u] = IF u = t THEN k ELSE kind[u]
      BY <1>1 DEF IInv, KindInv, TypeOK
    <2>2. CASE k = "stop"
      BY <2>1, <2>2, TurnKinds DEF Stops
    <2>3. CASE k # "stop"
      BY <2>1, <2>3, TurnKinds DEF Stops
    <2> QED
      BY <2>2, <2>3
  <1>5. Server!Arrive(t)
    BY <1>2, <1>3, <1>4 DEF Server!Arrive, Come, Stops
  <1> QED
    BY <1>5 DEF ServerStep, Server!Next

(* run() makes a message a task: the line stays what it was.                 *)
LEMMA ConsumeServer ==
  ASSUME IInv, Consume
  PROVE  ServerStep
  <1>1. /\ inbound \in Seq(Turns) /\ waiting \in Seq(Turns) /\ inbound # << >>
        /\ inbound' = Tail(inbound) /\ waiting' = Append(waiting, Head(inbound))
        /\ UNCHANGED <<kind, holder, stopped, out>>
    BY DEF Consume, IInv, TypeOK, history, message
  <1>2. waiting' \o inbound' = waiting \o inbound
    BY <1>1, LineAtBus
  <1>3. Head(inbound) \in Turns /\ phase[Head(inbound)] = "inbound"
    BY <1>1, TailItems DEF IInv, QueueInv
  <1>4. \A t \in Turns : phase'[t] = "new" <=> phase[t] = "new"
    BY <1>3 DEF Consume, IInv, TypeOK
  <1> QED
    BY <1>1, <1>2, <1>4, SameCome, SameStops, SameSaid, Unseen

(* A /stop leaves the line and calls off turns that came before it.          *)
LEMMA ConsumeStopServer ==
  ASSUME IInv, ConsumeStop
  PROVE  ServerStep
  <1> DEFINE m == Head(inbound)
             line == waiting \o inbound
             i == Len(waiting) + 1
  <1>1. /\ inbound \in Seq(Turns) /\ waiting \in Seq(Turns) /\ inbound # << >>
        /\ inbound' = Tail(inbound) /\ waiting' = waiting
        /\ stopped' = stopped \cup Active(key[m])
        /\ UNCHANGED <<kind, holder, out>>
    BY DEF ConsumeStop, IInv, TypeOK, message
  <1>2. /\ i \in 1..Len(line) /\ waiting' \o inbound' = Cut(line, i)
        /\ \A j \in 1..Len(waiting) : line[j] = waiting[j]
    BY <1>1, LineAtBus
  <1>3. m \in Turns /\ phase[m] = "inbound"
    BY <1>1, TailItems DEF IInv, QueueInv
  <1>4. Come' = Come
    <2>1. \A t \in Turns : phase'[t] = "new" <=> phase[t] = "new"
      BY <1>3 DEF ConsumeStop, Active
    <2> QED
      BY <2>1, SameCome
  <1>5. Active(key[m]) \subseteq {line[j] : j \in 1..(i - 1)} \cup {holder}
    <2> SUFFICES ASSUME NEW t \in Active(key[m]) PROVE t \in {line[j] : j \in 1..(i - 1)} \cup {holder}
      OBVIOUS
    <2>1. t \in Msgs /\ t \in Turns /\ phase[t] \in {"queued", "run"} /\ kind[t] # "stop"
      BY TurnKinds DEF Active
    <2>2. CASE phase[t] = "run"
      BY <2>1, <2>2 DEF IInv, LockInv
    <2>3. CASE phase[t] = "queued"
      <3>1. PICK j \in 1..Len(waiting) : waiting[j] = t
        BY <2>1, <2>3 DEF IInv, QueueInv, Items
      <3>2. i - 1 = Len(waiting) /\ line[j] = t
        BY <1>1, <1>2, <3>1
      <3> QED
        BY <3>1, <3>2
    <2> QED
      BY <2>1, <2>2, <2>3
  <1>6. Said' = Said /\ Stops' = Stops /\ line[i] \in Stops
    <2>1. m \in Msgs \cup Subs /\ kind[m] = "stop"
      BY <1>3 DEF ConsumeStop, IInv, KindInv, Turns
    <2>2. line[i] = m
      BY <1>1, LineAtBus
    <2> QED
      BY <1>1, <2>1, <2>2, SameSaid, SameStops DEF Stops
  <1>7. Server!Stop(i)
    <2>1. Server!Left(i) = Cut(line, i)
      BY DEF Server!Left, Cut
    <2>2. stopped \subseteq stopped' /\ stopped' \ stopped \subseteq {line[j] : j \in 1..(i - 1)} \cup {holder}
      BY <1>1, <1>5
    <2> QED
      BY <1>1, <1>2, <1>4, <1>6, <2>1, <2>2 DEF Server!Stop, Come, Stops, Said
  <1> QED
    BY <1>2, <1>7 DEF ServerStep, Server!Next

(* A task that was cancelled ends its turn, or leaves the line.              *)
LEMMA CancelledServer ==
  ASSUME IInv, NEW t \in Turns, Cancelled(t)
  PROVE  ServerStep
  <1> DEFINE line == waiting \o inbound
  <1>1. /\ inbound \in Seq(Turns) /\ waiting \in Seq(Turns) /\ phase[t] = "cancel"
        /\ inbound' = inbound /\ waiting' = Without(waiting, t)
        /\ holder' = (IF holder = t THEN Nobody ELSE holder)
        /\ UNCHANGED <<kind, stopped, out>>
    BY DEF Cancelled, IInv, TypeOK, history, message
  <1>2. t \in stopped
    BY <1>1 DEF IInv, StopInv, StoppedInv, StoppingInv, SubsInv
  <1>3. Come' = Come
    <2>1. \A u \in Turns : phase'[u] = "new" <=> phase[u] = "new"
      BY <1>1 DEF Cancelled, IInv, TypeOK
    <2> QED
      BY <2>1, SameCome
  <1>4. Said' = Said /\ Stops' = Stops
    BY <1>1, SameSaid, SameStops
  <1>5. ASSUME t \notin Items(waiting) PROVE Without(waiting, t) = waiting
    <2>1. {i \in 1..Len(waiting) : waiting[i] = t} = {}
      BY <1>5 DEF Items
    <2> QED
      BY <2>1 DEF Without
  <1>6. CASE holder = t
    <2>1. waiting' = waiting /\ holder # Nobody /\ holder' = Nobody
      <3>1. t \notin Items(waiting)
        BY <1>6 DEF IInv, QueueInv
      <3> QED
        BY <1>1, <1>5, <1>6, <3>1, TurnKinds
    <2>2. Server!SaysMore
      BY <1>4 DEF Server!SaysMore, Said
    <2>3. Server!End
      BY <1>1, <1>3, <1>4, <2>1, <2>2 DEF Server!End, Come, Stops
    <2> QED
      BY <2>3 DEF ServerStep, Server!Next
  <1>7. CASE holder # t /\ t \in Items(waiting)
    <2>1. PICK k \in 1..Len(waiting) : waiting[k] = t
      BY <1>7 DEF Items
    <2>2. /\ k \in 1..Len(line) /\ line[k] = t /\ waiting' \o inbound' = Cut(line, k)
      <3>1. Distinct(waiting)
        BY DEF IInv, QueueInv
      <3>2. /\ k \in 1..Len(line) /\ line[k] = waiting[k]
            /\ Without(waiting, waiting[k]) \o inbound = Cut(line, k)
        BY <1>1, <3>1, LineLoses
      <3> QED
        BY <1>1, <2>1, <3>2
    <2>3. Server!Left(k) = Cut(line, k)
      BY DEF Server!Left, Cut
    <2>4. Server!Leave(k)
      BY <1>1, <1>2, <1>3, <1>4, <1>7, <2>2, <2>3 DEF Server!Leave, Come, Stops, Said
    <2> QED
      BY <2>2, <2>4 DEF ServerStep, Server!Next
  <1>8. CASE holder # t /\ t \notin Items(waiting)
    BY <1>1, <1>3, <1>4, <1>5, <1>8, Unseen
  <1> QED
    BY <1>6, <1>7, <1>8

(* The lock is granted to the first of the line.                             *)
LEMMA AcquireServer ==
  ASSUME IInv, NEW t \in Turns, Acquire(t)
  PROVE  ServerStep
  <1>1. /\ inbound \in Seq(Turns) /\ waiting \in Seq(Turns) /\ waiting # << >>
        /\ holder = Nobody /\ phase[t] = "queued" /\ Head(waiting) = t
        /\ holder' = t /\ waiting' = Tail(waiting) /\ inbound' = inbound
        /\ UNCHANGED <<kind, stopped, out>>
    BY DEF Acquire, Overlap, IInv, TypeOK, message
  <1>2. t \notin stopped /\ t \notin Stops
    BY <1>1 DEF IInv, StopInv, StoppedInv, StoppingInv, SubsInv, KindInv, Stops
  <1>3. Come' = Come
    <2>1. \A u \in Turns : phase'[u] = "new" <=> phase[u] = "new"
      BY <1>1 DEF Acquire, IInv, TypeOK
    <2> QED
      BY <2>1, SameCome
  <1>4. /\ waiting \o inbound # << >> /\ Head(waiting \o inbound) = t
        /\ Tail(waiting \o inbound) = waiting' \o inbound'
    BY <1>1, LineBegins
  <1>5. Server!Begin
    BY <1>1, <1>2, <1>3, <1>4, SameSaid, SameStops DEF Server!Begin, Come, Stops, Said
  <1> QED
    BY <1>5 DEF ServerStep, Server!Next

(* A turn of the bus that runs is the one that is served; what a direct turn  *)
(* publishes is not said by anybody who came over the bus.                   *)
LEMMA OnlyServedSpeaks ==
  ASSUME IInv, NEW t \in Turns, phase[t] = "run", kind[t] # "stop",
         out' = out \/ \E c, w : out' = out \cup {Out(t, c, w)}
  PROVE  /\ Said \subseteq Said' /\ \A o \in Said' \ Said : o.turn = holder /\ holder \notin stopped
         /\ t \in Directs => Said' = Said
         /\ t \notin Directs => t = holder
         /\ t = holder <=> t \notin Directs
  <1>1. t \notin stopped
    BY DEF IInv, StopInv, StoppedInv, StoppingInv, SubsInv
  <1>2. t \notin Directs => t = holder
    BY TurnKinds DEF IInv, LockInv
  <1>3. t \in Directs => t # holder
    BY TurnKinds DEF IInv, LockInv
  <1>4. \A o \in out' \ out : o.turn = t
    BY DEF Out
  <1>5. out \subseteq out'
    OBVIOUS
  <1> QED
    BY <1>1, <1>2, <1>3, <1>4, <1>5 DEF Said

(* A turn uses a tool, ...                                                   *)
LEMMA StepServer ==
  ASSUME IInv, NEW t \in Turns, Step(t)
  PROVE  ServerStep
  <1>1. /\ phase[t] = "run" /\ kind[t] # "stop" /\ phase' = phase
        /\ Stops' = Stops /\ UNCHANGED <<waiting, inbound, holder, stopped>>
        /\ out' = out \/ \E c, w : out' = out \cup {Out(t, c, w)}
    BY SameStops DEF Step, ToolMessage, ToolSpawn, InLoop, queues, history, message
  <1>2. Come' = Come
    BY <1>1 DEF Come
  <1>3. CASE t \in Directs
    <2>1. Said' = Said
      BY <1>1, <1>3, OnlyServedSpeaks
    <2> QED
      BY <1>1, <1>2, <2>1, Unseen
  <1>4. CASE t \notin Directs
    <2>1. Server!SaysMore /\ holder # Nobody
      BY <1>1, <1>4, OnlyServedSpeaks, TurnKinds DEF Server!SaysMore, Said
    <2>2. Server!Speak
      BY <1>1, <1>2, <2>1 DEF Server!Speak, Come, Stops
    <2> QED
      BY <2>2 DEF ServerStep, Server!Next
  <1> QED
    BY <1>3, <1>4

(* ... or is over.                                                           *)
LEMMA EndServer ==
  ASSUME IInv, NEW t \in Turns, End(t)
  PROVE  ServerStep
  <1>1. /\ phase[t] = "run" /\ kind[t] # "stop" /\ phase' = [phase EXCEPT ![t] = "done"]
        /\ holder' = (IF holder = t THEN Nobody ELSE holder)
        /\ Stops' = Stops /\ UNCHANGED <<waiting, inbound, stopped>>
        /\ out' = out \/ \E c, w : out' = out \cup {Out(t, c, w)}
    BY SameStops DEF End, Finish, FinishHandled, Fail, Rethrow, EndTurn, InLoop, history, message
  <1>2. Come' = Come
    <2>1. \A u \in Turns : phase'[u] = "new" <=> phase[u] = "new"
      BY <1>1 DEF IInv, TypeOK
    <2> QED
      BY <2>1, SameCome
  <1>3. CASE t \in Directs
    <2>1. Said' = Said /\ t # holder
      BY <1>1, <1>3, OnlyServedSpeaks
    <2> QED
      BY <1>1, <1>2, <2>1, Unseen
  <1>4. CASE t \notin Directs
    <2>1. Server!SaysMore /\ holder # Nobody /\ holder' = Nobody
      BY <1>1, <1>4, OnlyServedSpeaks, TurnKinds DEF Server!SaysMore, Said
    <2>2. Server!End
      BY <1>1, <1>2, <2>1 DEF Server!End, Come, Stops
    <2> QED
      BY <2>2 DEF ServerStep, Server!Next
  <1> QED
    BY <1>3, <1>4

(* The rest of a /stop, the end of a subagent, and the begin of a direct turn *)
(* are none of the server's business.                                        *)
LEMMA BesideServer ==
  ASSUME IInv,
         StopSubs \/ StopFinish \/ (\E s \in Subs : SubCancelled(s)) \/ (\E d \in Directs : BeginDirect(d))
  PROVE  ServerStep
  <1>1. UNCHANGED <<waiting, inbound, holder, stopped>>
    BY DEF StopSubs, StopFinish, SubCancelled, BeginDirect, Overlap, queues, history
  <1>2. Come' = Come
    <2>1. CASE StopSubs \/ StopFinish \/ \E s \in Subs : SubCancelled(s)
      <3>1. \A t \in Turns : phase'[t] = "new" <=> phase[t] = "new"
        BY <2>1, TurnKinds DEF StopSubs, StopFinish, SubCancelled, IInv, TypeOK
      <3> QED
        BY <3>1, SameCome
    <2>2. CASE \E d \in Directs : BeginDirect(d)
      <3>1. PICK d \in Directs : BeginDirect(d)
        BY <2>2
      <3>2. \A t \in Msgs \cup Subs : phase'[t] = phase[t]
        BY <3>1, TurnKinds DEF BeginDirect, IInv, TypeOK
      <3> QED
        BY <3>2 DEF Come
    <2> QED
      BY <2>1, <2>2
  <1>3. Said' = Said
    <2>1. CASE StopFinish
      <3>1. out' = out \cup {Out(stopping, chat[stopping], "stopped")}
        BY <2>1 DEF StopFinish
      <3> QED
        BY <3>1 DEF Said, Out
    <2>2. CASE ~StopFinish
      BY <2>2, SameSaid DEF StopSubs, SubCancelled, BeginDirect
    <2> QED
      BY <2>1, <2>2
  <1>4. Stops' = Stops
    <2>1. CASE StopSubs \/ StopFinish \/ \E s \in Subs : SubCancelled(s)
      BY <2>1, SameStops DEF StopSubs, StopFinish, SubCancelled, message
    <2>2. CASE \E d \in Directs : BeginDirect(d)
      <3>1. PICK d \in Directs : BeginDirect(d)
        BY <2>2
      <3>2. \A t \in Msgs \cup Subs : kind'[t] = kind[t]
        BY <3>1, TurnKinds DEF BeginDirect, IInv, TypeOK
      <3> QED
        BY <3>2 DEF Stops
    <2> QED
      BY <2>1, <2>2
  <1> QED
    BY <1>1, <1>2, <1>3, <1>4, Unseen

(* Every step of the agent is one of the server's, or none.                  *)
LEMMA NextServer == IInv /\ [Next]_vars => ServerStep
  <1> SUFFICES ASSUME IInv, [Next]_vars PROVE ServerStep
    OBVIOUS
  <1>1. CASE UNCHANGED vars
    BY <1>1, Unseen DEF vars, message, queues, history, Come, Stops, Said
  <1>2. ASSUME NEW m \in Msgs, NEW c \in Keys, NEW k \in {"user", "command", "stop"}, Send(m, c, k)
        PROVE  ServerStep
    BY <1>2, ArriveServer DEF Send, history
  <1>3. ASSUME NEW s \in Subs, SubDone(s) PROVE ServerStep
    <2>1. phase[s] = "new"
      BY <1>3 DEF SubDone, IInv, KindInv
    <2> QED
      BY <1>3, <2>1, ArriveServer DEF SubDone, history
  <1>4. CASE Consume \/ ConsumeStop
    BY <1>4, ConsumeServer, ConsumeStopServer
  <1>5. CASE StopSubs \/ StopFinish \/ (\E s \in Subs : SubCancelled(s)) \/ (\E d \in Directs : BeginDirect(d))
    BY <1>5, BesideServer
  <1>6. ASSUME NEW t \in Turns, Cancelled(t) \/ Acquire(t) \/ Step(t) \/ End(t) PROVE ServerStep
    BY <1>6, CancelledServer, AcquireServer, StepServer, EndServer
  <1> QED
    BY <1>1, <1>2, <1>3, <1>4, <1>5, <1>6 DEF Next

(* The bus, the tasks, the lock and /stop together are a server with one      *)
(* line: first come, first served, one at a time; nobody leaves unserved but   *)
(* who was called off, and only who is served and not called off speaks       *)
(* (loop.py:407-462).                                                        *)
THEOREM TurnImplementsServer == Spec => ServesInTurn
  <1>1. Init => Server!Init
    <2> SUFFICES ASSUME Init PROVE Server!Init
      OBVIOUS
    <2>1. waiting \o inbound = << >>
      BY DEF Init
    <2>2. \A t \in Msgs \cup Subs : phase[t] = "new" /\ kind[t] # "stop"
      BY TurnKinds DEF Init
    <2> QED
      BY <2>1, <2>2 DEF Init, Server!Init
  <1> USE DEF ServerStep
  <1> QED
    BY <1>1, InitInv, NextInv, NextServer, PTL DEF Spec, ServesInTurn, Server!Spec
=============================================================================
