----------------------------- MODULE ChannelBus -----------------------------
(***************************************************************************)
(* What all chat channels share: BaseChannel, the bus between channels and *)
(* agent, and the ChannelManager with its outbound dispatcher, start and   *)
(* stop (channels/base.py, channels/manager.py).  The modules of the       *)
(* channels EXTEND this one; Channels puts them together.                  *)
(*                                                                         *)
(* An action is the code between two awaits.  A message that somebody      *)
(* posts is a number; `shape' tells what it looks like.                    *)
(***************************************************************************)
EXTENDS Naturals, Sequences, FiniteSets

CONSTANTS
  Ids,        \* the messages that can be posted: 1..n
  Shapes,     \* what they can look like
  Answers,    \* how many attachments and chunks of text an answer can have
  Replies,    \* Replies[ch]: how many messages the agent sends
  Backlog,    \* batches waiting for the agent beyond which no poll begins
  Copies,     \* how often a service delivers one message, at most
  SeenMax,    \* messages a deduplication cache remembers (1000, 2000)
  Policies,   \* what group_policy and reply_delay_mode can be
  Enabled     \* the channels that the configuration can enable

ASSUME BusAssumption ==
  /\ IsFiniteSet(Ids) /\ Ids = 1..Cardinality(Ids)
  /\ Shapes \subseteq [from : {"user", "stranger", "bot"}, group : BOOLEAN,
                       mention : BOOLEAN, media : BOOLEAN]
  /\ Answers \subseteq [media : Nat, text : Nat \ {0}]
  /\ Replies \in [Enabled -> Nat] /\ Backlog \in Nat /\ Copies \in Nat \ {0} /\ SeenMax \in Nat \ {0}
  /\ Policies \subseteq {"open", "mention", "delay"}

VARIABLES
  enabled,    \* the channel of this gateway
  policy,     \* its group_policy, or the delay mode of Mochat
  stage,      \* of the manager: "running", "stopping", "stopped"
  conn,       \* "down", "up", or "dead" when start() has raised or returned
  shape,      \* shape[m] of each message posted so far
  left,       \* left[m]: deliveries of m that the service may still make
  seen,       \* ids the channel remembers, oldest first
  handling,   \* handling[m]: handlers of m that await something
  buffer,     \* messages held back: an album, or Mochat's delayed entries
  timer,      \* the task that flushes the buffer
  typing,     \* chats with a typing task
  inbound,    \* MessageBus.inbound, as batches of the ids they come from
  outbox,     \* MessageBus.outbound
  disp,       \* the dispatcher: what it sends, at which piece and attempt
  last,       \* <<answer, piece>> that the service took last
  times,      \* times[m]: how often m was published, up to twice
  silent,     \* chats whose typing goes on after a turn that left no answer
  gone,       \* messages given up by a step that says so
  again       \* messages whose repetition nobody would recognise

config   == <<enabled, policy>>
service  == <<shape, left>>
intake   == <<seen, handling, buffer, timer>>
sends    == <<outbox, disp, last>>
ghosts   == <<times, gone, again>>
busVars  == <<config, stage, conn, service, intake, typing, inbound, sends, ghosts>>

Chats == {"dm", "room", "other"}
Chat(m) == IF shape[m].group THEN "room"
           ELSE IF shape[m].from = "stranger" THEN "other" ELSE "dm"
Posted == DOMAIN shape
Idle == [phase |-> "idle"]
Over == [phase |-> "done"]

-----------------------------------------------------------------------------
(* BaseChannel *)

Allowed(m) == shape[m].from = "user"

\* Counting up to two is enough to see a repetition.
Counted(t, k) == IF t + k > 2 THEN 2 ELSE t + k

\* _handle_message: what a sender outside allow_from writes is dropped.
Publish(batch) ==
  IF Allowed(batch[Len(batch)])
  THEN /\ inbound' = Append(inbound, batch)
       /\ times' = [m \in Ids |-> Counted(times[m], Cardinality({i \in DOMAIN batch : batch[i] = m}))]
  ELSE UNCHANGED <<inbound, times>>

\* The caches of Feishu, WhatsApp and QQ: add, then drop the oldest.
Known(m) == \E i \in DOMAIN seen : seen[i] = m
Remember(m) ==
  IF Len(seen) < SeenMax THEN seen' = Append(seen, m) /\ UNCHANGED again
  ELSE seen' = Append(Tail(seen), m) /\ again' = again \union {Head(seen)}

\* The service hands the channel a message that somebody posted.
Deliver(m) ==
  /\ conn = "up" /\ m \in Posted /\ left[m] > 0
  /\ left' = [left EXCEPT ![m] = @ - 1]
  /\ UNCHANGED shape
Handling == \E m \in Ids : handling[m] > 0
Enters(m) == handling' = [handling EXCEPT ![m] = @ + 1]
Leaves(m) == handling' = [handling EXCEPT ![m] = @ - 1]

-----------------------------------------------------------------------------
(* The users and the agent *)

\* What a channel never looks at is left out of the shape.
Looks(s) ==
  /\ s.media => enabled \in {"telegram", "discord", "matrix", "feishu"}
  /\ s.mention => enabled \in {"discord", "matrix", "slack", "mochat"}
  /\ s.group => enabled # "email"
  /\ s.from = "bot" => enabled \in {"feishu", "slack"}

Post(s) ==
  /\ Len(shape) < Cardinality(Ids) /\ stage = "running" /\ Looks(s)
  /\ shape' = Append(shape, s)
  /\ UNCHANGED <<config, stage, conn, left, intake, typing, inbound, sends, ghosts, silent>>

\* A turn takes a batch from the bus and publishes what it has to say, which
\* is numbered (AgentLoop._dispatch; the loop itself is AgentTurns).
NextNumber ==
  IF outbox # <<>> THEN outbox[Len(outbox)].n + 1
  ELSE IF disp.phase \in {"send", "untype"} THEN disp.msg.n + 1
  ELSE last[1] + 1
Asking == LET batch == Head(inbound) IN Chat(batch[Len(batch)])
Note(n) == [n |-> n, chat |-> Asking, progress |-> TRUE, media |-> 0, text |-> 1]
Final(n, a) == [n |-> n, chat |-> Asking, progress |-> FALSE, media |-> a.media, text |-> a.text]
Turn(says) ==
  /\ stage = "running" /\ inbound # <<>> /\ NextNumber + Len(says) <= Replies[enabled] + 1
  /\ inbound' = Tail(inbound)
  /\ outbox' = outbox \o says
  /\ UNCHANGED <<config, stage, conn, service, intake, typing, disp, last, ghosts>>

\* The answer, perhaps after a progress message.
Answer(a, tell) ==
  /\ Turn(IF tell THEN <<Note(NextNumber), Final(NextNumber + 1, a)>> ELSE <<Final(NextNumber, a)>>)
  /\ silent' = silent \ {Asking}
\* A turn without an answer: a direct turn beside it has used the message tool
\* (_sent_in_turn is shared), or CancelledError went through _dispatch.
NoAnswer(tell) ==
  /\ Turn(IF tell THEN <<Note(NextNumber)>> ELSE <<>>)
  /\ silent' = silent \union ({Asking} \intersect typing)
\* The typing of a chat, and with it what nobody would end, is over.
Ending == silent' = silent \intersect typing'

-----------------------------------------------------------------------------
(* The dispatcher *)

\* _dispatch_outbound takes a message; with send_progress off it drops the
\* progress messages.  Telegram's send() ends the typing of a final answer
\* before anything else.  What is for no channel is left to AgentTurns.
Dispatch(sendProgress) ==
  LET o    == Head(outbox)
      drop == o.progress /\ ~sendProgress
  IN  /\ disp = Idle /\ outbox # <<>>
      /\ outbox' = Tail(outbox)
      /\ disp' = IF drop THEN Idle ELSE [phase |-> "send", msg |-> o, at |-> 1, try |-> 1]
      /\ typing' = IF enabled = "telegram" /\ ~o.progress THEN typing \ {o.chat} ELSE typing
      /\ Ending
      /\ UNCHANGED <<config, stage, conn, service, intake, inbound, last, ghosts>>

\* The pieces a channel makes of an answer, in the order it sends them.
MediaFirst(o) == [i \in 1..(o.media + o.text) |-> IF i <= o.media THEN "media" ELSE "text"]
TextFirst(o)  == [i \in 1..(o.media + o.text) |-> IF i <= o.text THEN "text" ELSE "media"]

Sending == disp.phase = "send"

\* One request to the service.  It can fail though the service took it.
Request(taken) == last' = IF taken THEN <<disp.msg.n, disp.at>> ELSE last
NextPiece(plan, after) ==
  disp' = IF disp.at < Len(plan) THEN [disp EXCEPT !.at = @ + 1, !.try = 1] ELSE after
\* Mutant: a retry begins with the first piece.
MutNextTry == disp' = [disp EXCEPT !.at = 1, !.try = @ + 1]
NextTry == disp' = [disp EXCEPT !.try = @ + 1]
\* A request whose failure is logged, after which the next piece follows.
SendOn(plan, tries) ==
  \E taken, told \in BOOLEAN :
    /\ told => taken
    /\ Request(taken)
    /\ IF told \/ disp.try = tries THEN NextPiece(plan, Idle) ELSE NextTry
\* A request whose failure ends the whole send.
SendOrAbort(plan, tries) ==
  \E taken, told \in BOOLEAN :
    /\ told => taken
    /\ Request(taken)
    /\ IF told THEN NextPiece(plan, Idle)
       ELSE IF disp.try = tries THEN disp' = Idle ELSE NextTry
\* The early returns of send(): the channel is not up.
Drop == disp' = Idle /\ UNCHANGED last

\* QQ, WhatsApp and Mochat send an answer in one request, whose failure is
\* logged.
TextSend(c) ==
  /\ enabled = c /\ Sending /\ SendOn(<<"text">>, 1)
  /\ UNCHANGED <<config, stage, conn, service, intake, typing, inbound, outbox, ghosts>>

-----------------------------------------------------------------------------
(* Starting and stopping *)

\* Each channel is started in a task of its own, and start() connects.
ConnectUp == conn = "down" /\ stage = "running" /\ conn' = "up"
ConnectionLost == conn = "up" /\ conn' = "down"
\* A service that keeps nothing for a bot that is not connected.
FreshStart ==
  /\ left' = [m \in Ids |-> IF m \in Posted THEN 0 ELSE left[m]]
  /\ gone' = gone \union {m \in Posted : left[m] > 0}
  /\ UNCHANGED shape
\* _start_channel logs what start() raises, and nobody starts it again.
StartFails ==
  /\ conn = "down" /\ stage = "running" /\ conn' = "dead"
  /\ enabled \in {"telegram", "slack"}
  /\ UNCHANGED <<config, stage, service, intake, typing, inbound, sends, ghosts, silent>>

\* stop_all cancels the dispatcher.  CancelledError is no Exception, so it
\* leaves every send(), except where Matrix waits for its typing task.
StopAll ==
  /\ stage = "running"
  /\ stage' = "stopping"
  /\ disp' = IF disp.phase = "untype" THEN Idle ELSE Over
  /\ UNCHANGED <<config, conn, service, intake, typing, inbound, outbox, last, ghosts, silent>>

\* What every stop() does once the dispatcher has ended; the handlers and
\* timers end with it, and so does what they held.
Stopped(held) ==
  /\ stage = "stopping" /\ disp = Over
  /\ stage' = "stopped" /\ conn' = "down"
  /\ typing' = {} /\ timer' = FALSE /\ buffer' = <<>>
  /\ handling' = [m \in Ids |-> 0]
  /\ gone' = gone \union held \union {m \in Ids : handling[m] > 0}
                  \union {buffer[i] : i \in DOMAIN buffer}
  /\ UNCHANGED <<config, service, seen, inbound, outbox, disp, last, times, again>>

\* The stop() of a channel that has nothing more to say.
PlainStop(c) == enabled = c /\ Stopped({})

\* Services that hand a message to the channel once, and the mailbox, where
\* it is unseen at first.
Once == {"telegram", "discord", "matrix", "email"}

\* _init_channels builds the channels that are enabled: here it is one.
BusInit ==
  /\ enabled \in Enabled
  /\ policy \in IF enabled = "mochat" THEN Policies
               ELSE IF enabled \in {"discord", "matrix", "slack"} THEN Policies \ {"delay"}
               ELSE {"open"}
  /\ stage = "running" /\ conn = "down"
  /\ shape = <<>> /\ left = [m \in Ids |-> IF enabled \in Once THEN 1 ELSE Copies]
  /\ seen = <<>> /\ handling = [m \in Ids |-> 0]
  /\ buffer = <<>> /\ timer = FALSE /\ typing = {}
  /\ inbound = <<>> /\ outbox = <<>> /\ disp = Idle /\ last = <<0, 0>>
  /\ times = [m \in Ids |-> 0] /\ gone = {} /\ again = {} /\ silent = {}

BusNext ==
  \/ \E s \in Shapes : Post(s)
  \/ \E a \in Answers, tell \in BOOLEAN : Answer(a, tell)
  \/ \E tell \in BOOLEAN : NoAnswer(tell)
  \/ \E sendProgress \in BOOLEAN : Dispatch(sendProgress)
  \/ StartFails
  \/ StopAll
=============================================================================
