------------------------------ MODULE AgentTurns ------------------------------
(***************************************************************************)
(* The turns of the agent: how AgentLoop (agent/loop.py) takes messages    *)
(* from the bus, serialises them with the processing lock, cancels them on *)
(* /stop, and what the turns do to the state that all of them share: the   *)
(* routing context of the message, spawn and cron tools                    *)
(* (agent/tools/message.py, spawn.py), the subagents (agent/subagent.py)   *)
(* and the outbound queue. Cron jobs and the heartbeat call process_direct *)
(* (cli/commands.py), which runs a turn without the lock.                  *)
(*                                                                         *)
(* A turn is identified with the message it serves. An announcement of a   *)
(* subagent is a message of its own, identified with the subagent. The     *)
(* session key of a message is its chat, unless a channel has given it the *)
(* key of a thread or topic in the chat (bus/events.py).                   *)
(***************************************************************************)
EXTENDS Naturals, Sequences, FiniteSets

CONSTANTS Chats,      \* channel and chat id of a conversation
          Cli,        \* those that are the command line
          Threads,    \* session keys of threads and topics
          ThreadOf,   \* the chat a thread is in
          NoChat,     \* the tools have no context yet
          Msgs,       \* messages of users
          Source,     \* bound: the session keys a message may have
          Subs,       \* subagents
          Directs,    \* runs of process_direct by cron or the heartbeat
          Target,     \* the chat a direct run reports to
          Nobody,     \* no turn
          MaxSends    \* bound: calls of the message tool that differ

Keys == Chats \cup Threads

ASSUME TurnsAssumption ==
  /\ Cli \subseteq Chats /\ NoChat \notin Chats \cup Threads
  /\ Threads \cap Chats = {} /\ ThreadOf \in [Threads -> Chats]
  /\ Msgs \cap Subs = {} /\ Msgs \cap Directs = {} /\ Subs \cap Directs = {}
  /\ Nobody \notin Msgs \cup Subs \cup Directs
  /\ Target \in [Directs -> Chats] /\ Source \in [Msgs -> SUBSET Keys]
  /\ MaxSends \in Nat

Turns == Msgs \cup Subs \cup Directs
Kinds == {"none", "user", "command", "stop", "system", "direct"}
Phases == {"new", "inbound", "queued", "run", "cancel", "answer", "done"}

VARIABLES
  kind, chat,  \* what the message is and the conversation it belongs to
  key,         \* the session key of a user's message
  phase,       \* where the turn is
  inbound,     \* the inbound queue of the bus
  waiting,     \* the tasks that wait for the processing lock, in order
  holder,      \* the turn that holds the processing lock
  stopping,    \* the /stop message that run() is handling
  sub,         \* the state of each subagent
  parent,      \* the turn that spawned it
  ctx,         \* the context of the tools, and _sent_in_turn
  out,         \* what was published to the outbound queue, and by which turn
  stopped,     \* turns cancelled by a /stop
  cut,         \* turns cancelled while they ran
  raised,      \* turns that awaited what had been cancelled with another one
  mixed        \* turns that ran at the same time as a direct one

message == <<kind, chat, key>>
queues  == <<inbound, waiting, holder>>
history == <<stopped, cut, raised, mixed>>
vars    == <<message, phase, queues, stopping, sub, parent, ctx, out, history>>

Out(t, c, what) == [turn |-> t, to |-> c, what |-> what]

\* The tasks registered in _active_tasks under a session key. The task of an
\* announcement is registered under the key of the channel "system".
Active(k) == {t \in Msgs : kind[t] \in {"user", "command"} /\ key[t] = k
                           /\ phase[t] \in {"queued", "run"}}
\* The queue without the waiter t, who is in it once at most.
Without(q, t) ==
  LET at == {i \in 1..Len(q) : q[i] = t}
  IN IF at = {} THEN q
     ELSE [j \in 1..(Len(q) - 1) |-> IF \A i \in at : j < i THEN q[j] ELSE q[j + 1]]

\* The subagents registered under a session key: the spawn tool makes the key
\* from the channel and the chat, so that there are none under that of a thread.
RunningSubs(k) == {s \in Subs : sub[s] = "run" /\ chat[s] = k}
-----------------------------------------------------------------------------
Init ==
  /\ kind = [t \in Turns |-> "none"] /\ chat = [t \in Turns |-> NoChat]
  /\ key = [m \in Msgs |-> NoChat]
  /\ phase = [t \in Turns |-> "new"]
  /\ inbound = << >> /\ waiting = << >> /\ holder = Nobody
  /\ stopping = Nobody
  /\ sub = [s \in Subs |-> "none"] /\ parent = [s \in Subs |-> Nobody]
  /\ ctx = [chat |-> NoChat, sent |-> FALSE]
  /\ out = {} /\ stopped = {} /\ cut = {} /\ raised = {} /\ mixed = {}

\* The identity that the next message gets, which does not matter.
NextMsg == CHOOSE m \in Msgs : phase[m] = "new"

\* A channel publishes a message: an ordinary one, /new or /help, or /stop. One
\* posted in a thread has the thread's key.
Send(m, s, k) ==
  /\ phase[m] = "new" /\ m = NextMsg /\ s \in Source[m]
  /\ kind' = [kind EXCEPT ![m] = k] /\ key' = [key EXCEPT ![m] = s]
  /\ chat' = [chat EXCEPT ![m] = IF s \in Threads THEN ThreadOf[s] ELSE s]
  /\ phase' = [phase EXCEPT ![m] = "inbound"]
  /\ inbound' = Append(inbound, m)
  /\ UNCHANGED <<waiting, holder, stopping, sub, parent, ctx, out, history>>

\* run() takes the next message and makes it a task, ...
Consume ==
  /\ stopping = Nobody /\ inbound # << >>
  /\ LET m == Head(inbound)
     IN /\ kind[m] # "stop"
        /\ inbound' = Tail(inbound)
        /\ waiting' = Append(waiting, m)
        /\ phase' = [phase EXCEPT ![m] = "queued"]
  /\ UNCHANGED <<message, holder, stopping, sub, parent, ctx, out, history>>

\* ... or, for /stop, cancels the tasks of the session and waits for them.
ConsumeStop ==
  /\ stopping = Nobody /\ inbound # << >>
  /\ LET m == Head(inbound)
         cancelled == Active(key[m])
     IN /\ kind[m] = "stop"
        /\ inbound' = Tail(inbound)
        /\ stopping' = m
        /\ phase' = [t \in Turns |-> IF t = m THEN "run"
                                     ELSE IF t \in cancelled THEN "cancel" ELSE phase[t]]
        /\ stopped' = stopped \cup cancelled
        /\ cut' = cut \cup {t \in cancelled : phase[t] = "run"}
  /\ UNCHANGED <<message, waiting, holder, sub, parent, ctx, out, raised, mixed>>

\* The processing lock is not given back by a task that is cancelled.
MutCancelled(t) ==
  /\ phase[t] = "cancel"
  /\ phase' = [phase EXCEPT ![t] = "done"]
  /\ waiting' = Without(waiting, t)
  /\ UNCHANGED <<message, inbound, holder, stopping, sub, parent, ctx, out, history>>

\* CancelledError reaches the task, in the turn or while it waits for the lock.
Cancelled(t) ==
  /\ phase[t] = "cancel"
  /\ phase' = [phase EXCEPT ![t] = "done"]
  /\ waiting' = Without(waiting, t)
  /\ holder' = IF holder = t THEN Nobody ELSE holder
  /\ UNCHANGED <<message, inbound, stopping, sub, parent, ctx, out, history>>

\* The subagents are cancelled before the tasks that may spawn one are over.
MutStopSubs ==
  /\ stopping # Nobody
  /\ sub' = [s \in Subs |-> IF s \in RunningSubs(key[stopping]) THEN "cancel" ELSE sub[s]]
  /\ phase' = [phase EXCEPT ![stopping] = "answer"]
  /\ UNCHANGED <<message, queues, stopping, parent, ctx, out, history>>

\* The cancelled tasks are over: cancel_by_session cancels the subagents, ...
StopSubs ==
  /\ stopping # Nobody /\ phase[stopping] = "run"
  /\ \A t \in Turns : phase[t] # "cancel"
  /\ sub' = [s \in Subs |-> IF s \in RunningSubs(key[stopping]) THEN "cancel" ELSE sub[s]]
  /\ phase' = [phase EXCEPT ![stopping] = "answer"]
  /\ UNCHANGED <<message, queues, stopping, parent, ctx, out, history>>

SubCancelled(s) ==
  /\ sub[s] = "cancel"
  /\ sub' = [sub EXCEPT ![s] = "cancelled"]
  /\ UNCHANGED <<message, phase, queues, stopping, parent, ctx, out, history>>

\* ... and /stop is answered when they are over too.
StopFinish ==
  /\ stopping # Nobody /\ phase[stopping] = "answer"
  /\ \A s \in Subs : sub[s] # "cancel"
  /\ out' = out \cup {Out(stopping, chat[stopping], "stopped")}
  /\ phase' = [phase EXCEPT ![stopping] = "done"]
  /\ stopping' = Nobody
  /\ UNCHANGED <<message, queues, sub, parent, ctx, history>>

-----------------------------------------------------------------------------
(* A turn.                                                                 *)

Running == {t \in Turns : phase[t] = "run" /\ kind[t] # "stop"}

\* Turns that overlap with one that does not take the lock.
Overlap(t) ==
  /\ mixed' = IF Running \cap Directs = {} /\ ~(t \in Directs /\ Running # {}) THEN mixed
              ELSE mixed \cup Running \cup {t}
  /\ UNCHANGED <<stopped, cut, raised>>

\* The flag of the previous turn is not reset.
MutBeginContext(t) ==
  ctx' = CASE kind[t] = "command" -> ctx
           [] OTHER -> [ctx EXCEPT !.chat = chat[t]]

\* A user or direct turn sets the context of the tools and resets the flag, a
\* system turn only sets the context, a command does neither.
BeginContext(t) ==
  ctx' = CASE kind[t] = "command" -> ctx
           [] kind[t] = "system" -> [ctx EXCEPT !.chat = chat[t]]
           [] OTHER -> [chat |-> chat[t], sent |-> FALSE]

\* Any waiting task may take the lock.
MutAcquire(t) ==
  /\ holder = Nobody /\ phase[t] = "queued"
  /\ holder' = t /\ waiting' = Without(waiting, t)
  /\ phase' = [phase EXCEPT ![t] = "run"]
  /\ BeginContext(t) /\ Overlap(t)
  /\ UNCHANGED <<message, inbound, stopping, sub, parent, out>>

\* _dispatch gets the processing lock, which asyncio grants in order.
Acquire(t) ==
  /\ holder = Nobody /\ phase[t] = "queued" /\ waiting # << >> /\ Head(waiting) = t
  /\ holder' = t /\ waiting' = Tail(waiting)
  /\ phase' = [phase EXCEPT ![t] = "run"]
  /\ BeginContext(t) /\ Overlap(t)
  /\ UNCHANGED <<message, inbound, stopping, sub, parent, out>>

\* process_direct, called by a cron job or the heartbeat.
BeginDirect(d) ==
  /\ phase[d] = "new"
  /\ kind' = [kind EXCEPT ![d] = "direct"] /\ chat' = [chat EXCEPT ![d] = Target[d]]
  /\ key' = key
  /\ phase' = [phase EXCEPT ![d] = "run"]
  /\ ctx' = [chat |-> Target[d], sent |-> FALSE] /\ Overlap(d)
  /\ UNCHANGED <<queues, stopping, sub, parent, out>>

InLoop(t) == phase[t] = "run" /\ kind[t] \in {"user", "system", "direct"}

\* A first call of the message tool, or one like an earlier one.
MaySend(o) ==
  o \in out \/ Cardinality({p \in out : p.what \in {"tool", "elsewhere"}}) < MaxSends

\* The message tool, for the default target or one that the model names.
ToolMessage(t, c) ==
  /\ InLoop(t)
  /\ LET o == Out(t, c, IF c = ctx.chat THEN "tool" ELSE "elsewhere")
     IN MaySend(o) /\ out' = out \cup {o}
  /\ ctx' = [ctx EXCEPT !.sent = @ \/ c = ctx.chat]
  /\ UNCHANGED <<message, phase, queues, stopping, sub, parent, history>>

\* The spawn tool: the subagent belongs to the session of the context.
ToolSpawn(t, s) ==
  /\ InLoop(t) /\ sub[s] = "none" /\ ctx.chat \in Chats
  /\ sub' = [sub EXCEPT ![s] = "run"]
  /\ chat' = [chat EXCEPT ![s] = ctx.chat] /\ parent' = [parent EXCEPT ![s] = t]
  /\ UNCHANGED <<kind, key, phase, queues, stopping, ctx, out, history>>

\* The subagent finishes or fails and announces its result to the bus.
SubDone(s) ==
  /\ sub[s] = "run"
  /\ sub' = [sub EXCEPT ![s] = "announced"]
  /\ kind' = [kind EXCEPT ![s] = "system"]
  /\ phase' = [phase EXCEPT ![s] = "inbound"]
  /\ inbound' = Append(inbound, s)
  /\ UNCHANGED <<chat, key, waiting, holder, stopping, parent, ctx, out, history>>

\* The turn is over, and a bus turn gives the lock back.
EndTurn(t) ==
  /\ phase' = [phase EXCEPT ![t] = "done"]
  /\ holder' = IF holder = t THEN Nobody ELSE holder
  /\ UNCHANGED <<message, inbound, waiting, stopping, sub, parent, ctx, stopped, mixed>>

\* The agent loop ended: the answer is published, unless the message tool has
\* sent something to the conversation of the context. A system turn always
\* answers; the command line always gets an answer, if an empty one.
Finish(t) ==
  /\ InLoop(t)
  /\ out' = IF kind[t] = "system" \/ ~ctx.sent THEN out \cup {Out(t, chat[t], "reply")}
            ELSE IF kind[t] = "user" /\ chat[t] \in Cli THEN out \cup {Out(t, chat[t], "empty")}
            ELSE out
  /\ EndTurn(t) /\ UNCHANGED <<cut, raised>>

\* /new and /help, and the turns that the calibration or onboarding handlers
\* take over, answer whatever the tools did.
FinishHandled(t) ==
  /\ phase[t] = "run" /\ kind[t] \in {"user", "command"}
  /\ \A o \in out : o.turn # t
  /\ out' = out \cup {Out(t, chat[t], "reply")}
  /\ EndTurn(t) /\ UNCHANGED <<cut, raised>>

\* The turn raises. _dispatch apologises to the channel of the message, which
\* does not exist for a system message; the caller of process_direct only logs.
\* A direct turn may also have been cancelled, with the cron batch it was of.
Fail(t) ==
  /\ phase[t] = "run" /\ kind[t] # "stop"
  /\ out' = IF kind[t] \in {"user", "command"} THEN out \cup {Out(t, chat[t], "error")} ELSE out
  /\ cut' = cut \cup ({t} \cap Directs) /\ raised' = raised
  /\ EndTurn(t)

\* The turn waits for a task that was cancelled together with an earlier turn
\* that waited for it: the sampling of a calibration (so101.py, _finish), or a
\* policy that is to stop (controller.py). The CancelledError of that task ends
\* this turn too, and _dispatch hands it on without an apology.
Rethrow(t) ==
  /\ phase[t] = "run" /\ kind[t] = "user" /\ cut # {}
  /\ raised' = raised \cup {t}
  /\ EndTurn(t) /\ UNCHANGED <<out, cut>>

Step(t) ==
  \/ \E c \in Chats : ToolMessage(t, c)
  \/ \E s \in Subs : ToolSpawn(t, s)
End(t) == Finish(t) \/ FinishHandled(t) \/ Fail(t) \/ Rethrow(t)

Next ==
  \/ \E m \in Msgs, s \in Keys, k \in {"user", "command", "stop"} : Send(m, s, k)
  \/ Consume \/ ConsumeStop \/ StopSubs \/ StopFinish
  \/ \E d \in Directs : BeginDirect(d)
  \/ \E s \in Subs : SubDone(s) \/ SubCancelled(s)
  \/ \E t \in Turns : Cancelled(t) \/ Acquire(t) \/ Step(t) \/ End(t)

Spec == Init /\ [][Next]_vars

\* The event loop runs what can run: run() itself, the subagents, and the tasks
\* of the turns. A turn ends, by an answer or an error (its iterations are
\* bounded), and so does a subagent. Nothing else is asked of the order, which
\* is less than asyncio does; every such step brings somebody further.
Fairness ==
  WF_vars(\/ Consume \/ ConsumeStop \/ StopSubs \/ StopFinish
          \/ \E s \in Subs : SubDone(s) \/ SubCancelled(s)
          \/ \E t \in Turns : Cancelled(t) \/ Acquire(t) \/ End(t))

FairSpec == Spec /\ Fairness
-----------------------------------------------------------------------------
(* Properties.                                                             *)

(* The type of every variable: what is published is always for a chat that  *)
(* a channel serves.                                                        *)
TypeOK ==
  /\ kind \in [Turns -> Kinds] /\ chat \in [Turns -> Chats \cup {NoChat}]
  /\ key \in [Msgs -> Keys \cup {NoChat}]
  /\ phase \in [Turns -> Phases]
  /\ inbound \in Seq(Turns) /\ waiting \in Seq(Turns)
  /\ holder \in Turns \cup {Nobody} /\ stopping \in Msgs \cup {Nobody}
  /\ sub \in [Subs -> {"none", "run", "cancel", "cancelled", "announced"}]
  /\ parent \in [Subs -> Turns \cup {Nobody}]
  /\ ctx \in [chat : Chats \cup {NoChat}, sent : BOOLEAN]
  /\ out \subseteq [turn : Turns, to : Chats,
                    what : {"tool", "elsewhere", "reply", "empty", "error", "stopped"}]
  /\ stopped \subseteq Turns /\ cut \subseteq Turns /\ raised \subseteq Turns /\ mixed \subseteq Turns

(* The processing lock is held by a turn that is under way, every queued    *)
(* task waits for it once, and no two turns from the bus overlap.           *)
LockSerializes ==
  /\ holder # Nobody => phase[holder] \in {"run", "cancel"}
  /\ \A t \in Msgs \cup Subs : phase[t] = "run" /\ kind[t] # "stop" => holder = t
  /\ \A t \in Turns : phase[t] = "queued" => \E i \in 1..Len(waiting) : waiting[i] = t

(* The turns of a chat are served in the order of its messages: a turn does *)
(* not begin while one that waited longer is still waiting.                 *)
ServedInOrder ==
  [][\A i \in 1..Len(waiting), j \in 1..Len(waiting) :
       i < j /\ phase[waiting[j]] = "queued" /\ phase'[waiting[j]] = "run"
         => phase[waiting[i]] # "queued"]_vars

(* When /stop is answered, no earlier message of the session is waiting or  *)
(* being processed, and no subagent that such a message spawned still runs,  *)
(* unless the session is that of a thread (its subagents are registered      *)
(* under the chat, and /stop misses them) or a turn of process_direct gave   *)
(* the subagent the context of another chat.                                 *)
StopStops ==
  [][\A m \in Msgs : stopping = m /\ stopping' = Nobody =>
       /\ \A t \in Msgs : kind[t] \in {"user", "command"} /\ key[t] = key[m]
            => phase'[t] \notin {"queued", "run", "cancel"}
       /\ \A s \in Subs : /\ parent[s] \in Msgs \ mixed /\ key[parent[s]] = key[m]
                          /\ key[m] \notin Threads
            => sub'[s] \notin {"run", "cancel"}]_vars

(* A turn that was stopped publishes nothing any more, and it is not        *)
(* replaced by an apology.                                                   *)
StoppedSilent ==
  [][\A t \in stopped : {o \in out' : o.turn = t} = {o \in out : o.turn = t}]_vars

Answered(t) == \E o \in out : o.turn = t /\ o.to = chat[t]

(* A user turn that is neither stopped nor overlapped by a turn of           *)
(* process_direct leaves something in its own chat, whatever the turns       *)
(* before it did to the flag that suppresses the answer; unless it waited    *)
(* for a task that was cancelled with another turn, and one was cut off.     *)
AnsweredUnlessMixed ==
  \A t \in Msgs \ (stopped \cup mixed) : phase[t] = "done" /\ kind[t] = "user"
     => Answered(t) \/ (t \in raised /\ cut \ {t} # {})

(* What such a turn sends to the default target of the message tool goes to  *)
(* its own chat: the context of another chat is never left behind.           *)
RoutedUnlessMixed == \A o \in out : o.what = "tool" /\ o.turn \notin mixed => o.to = chat[o.turn]

\* The agent as those see it who write to it over the bus.
Server == INSTANCE TurnServer WITH
  Turns   <- Msgs \cup Subs,
  came    <- {t \in Msgs \cup Subs : phase[t] # "new"},
  stops   <- {t \in Msgs \cup Subs : kind[t] = "stop"},
  line    <- waiting \o inbound,
  serving <- holder,
  off     <- stopped,
  said    <- {o \in out : o.turn \notin Directs /\ o.what # "stopped"}

(* The queue of the bus, the tasks, the processing lock and the cancelling   *)
(* of /stop together are a server with one line: who came first is served   *)
(* first, alone, and speaks only then; nobody leaves unserved but who was    *)
(* called off, a /stop calls off only who came before it, and they are       *)
(* silent from then on.                                                      *)
ServesInTurn == Server!Spec

(* Every message is dealt with: /stop and the turns it cancels, the waiters *)
(* for the lock and the announcements do not block one another for ever.    *)
AllServed == \A t \in Msgs \cup Subs : (phase[t] = "inbound") ~> (phase[t] = "done")
=============================================================================
