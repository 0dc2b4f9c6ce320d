------------------------------- MODULE Discord ------------------------------
(***************************************************************************)
(* channels/discord.py.  The gateway loop handles one event at a time.     *)
(* After each interruption it identifies itself again and never resumes,   *)
(* so that what is posted meanwhile does not arrive.                       *)
(***************************************************************************)
EXTENDS ChannelBus

\* HELLO and READY: heartbeat, identity, the bot's own id.
DiscordReady ==
  /\ ConnectUp /\ FreshStart
  /\ UNCHANGED <<config, stage, intake, typing, inbound, sends, times, again>>

\* RECONNECT, INVALID_SESSION or a closed socket, between two events.
DiscordReconnect ==
  /\ ~Handling /\ ConnectionLost
  /\ UNCHANGED <<config, stage, service, intake, typing, inbound, sends, ghosts>>

DiscordWants(m) ==
  /\ Allowed(m)
  /\ shape[m].group => policy = "open" \/ shape[m].mention

DiscordForward(m) == typing' = typing \union {Chat(m)} /\ Publish(<<m>>)

\* _handle_message_create
DiscordText(m) ==
  /\ ~Handling /\ Deliver(m)
  /\ IF DiscordWants(m) THEN ~shape[m].media /\ DiscordForward(m)
     ELSE UNCHANGED <<typing, inbound, times>>
  /\ UNCHANGED <<config, stage, conn, intake, sends, gone, again>>

DiscordMedia(m) ==
  /\ ~Handling /\ Deliver(m) /\ DiscordWants(m) /\ shape[m].media
  /\ Enters(m)
  /\ UNCHANGED <<config, stage, conn, seen, buffer, timer, typing, inbound, sends, ghosts>>

DiscordDownloaded(m) ==
  /\ handling[m] > 0 /\ Leaves(m)
  /\ DiscordForward(m)
  /\ UNCHANGED <<config, stage, conn, service, seen, buffer, timer, sends, gone, again>>

\* Mutant: a chunk that fails leaves send() without ending the typing.
MutDiscordSend ==
  LET plan == MediaFirst(disp.msg)
  IN  /\ Sending
      /\ IF plan[disp.at] = "media" THEN SendOn(plan, 3) ELSE SendOrAbort(plan, 3)
      /\ typing' = IF disp' = Idle /\ disp.try < 3 THEN typing \ {disp.msg.chat} ELSE typing
      /\ UNCHANGED <<config, stage, conn, service, intake, inbound, outbox, ghosts>>

\* send: a file that fails is skipped, a chunk that fails ends the send, and
\* the typing stops whatever was sent, a progress message too.
DiscordSend ==
  LET plan == MediaFirst(disp.msg)
  IN  /\ Sending
      /\ IF plan[disp.at] = "media" THEN SendOn(plan, 3) ELSE SendOrAbort(plan, 3)
      /\ typing' = IF disp' = Idle THEN typing \ {disp.msg.chat} ELSE typing
      /\ UNCHANGED <<config, stage, conn, service, intake, inbound, outbox, ghosts>>

DiscordStop == PlainStop("discord")

DiscordNext ==
  \/ DiscordReady
  \/ DiscordReconnect
  \/ \E m \in Ids : DiscordText(m) \/ DiscordMedia(m) \/ DiscordDownloaded(m)
  \/ DiscordSend
=============================================================================
