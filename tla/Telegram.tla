------------------------------ MODULE Telegram ------------------------------
(***************************************************************************)
(* channels/telegram.py.  The library hands over one update at a time and  *)
(* waits for the handler.  A handler downloads an attachment, collects the *)
(* parts of an album in a buffer that a task empties after 0.6 seconds,    *)
(* and shows that the bot is typing before anybody asks who wrote.         *)
(***************************************************************************)
EXTENDS ChannelBus

\* The first poll drops what was posted before.
TelegramUp ==
  /\ ConnectUp /\ FreshStart
  /\ UNCHANGED <<config, stage, intake, typing, inbound, sends, times, again>>

\* An album has one sender and one chat.
SameAlbum(m) == \A i \in DOMAIN buffer : Chat(buffer[i]) = Chat(m) /\ shape[buffer[i]].from = shape[m].from

\* The end of _on_message: buffer a part of an album, or publish.
TelegramForward(m, album) ==
  /\ album => shape[m].media /\ SameAlbum(m)
  /\ typing' = IF album /\ buffer # <<>> THEN typing ELSE typing \union {Chat(m)}
  /\ IF album THEN /\ buffer' = Append(buffer, m) /\ timer' = TRUE
                   /\ UNCHANGED <<inbound, times>>
     ELSE Publish(<<m>>) /\ UNCHANGED <<buffer, timer>>

TelegramText(m) ==
  /\ ~Handling /\ Deliver(m) /\ ~shape[m].media
  /\ TelegramForward(m, FALSE)
  /\ UNCHANGED <<config, stage, conn, seen, handling, sends, gone, again>>

\* _forward_command, for /new and /stop: no typing.
TelegramCommand(m) ==
  /\ ~Handling /\ Deliver(m) /\ ~shape[m].media
  /\ Publish(<<m>>)
  /\ UNCHANGED <<config, stage, conn, intake, typing, sends, gone, again>>

TelegramMedia(m) ==
  /\ ~Handling /\ Deliver(m) /\ shape[m].media
  /\ Enters(m)
  /\ UNCHANGED <<config, stage, conn, seen, buffer, timer, typing, inbound, sends, ghosts>>

\* A download that fails leaves a line that says so in the text.
TelegramDownloaded(m, album) ==
  /\ handling[m] > 0 /\ Leaves(m)
  /\ TelegramForward(m, album)
  /\ UNCHANGED <<config, stage, conn, service, seen, sends, gone, again>>

\* _flush_media_group
TelegramFlush ==
  /\ timer /\ timer' = FALSE
  /\ buffer' = <<>>
  /\ Publish(buffer)
  /\ UNCHANGED <<config, stage, conn, service, seen, handling, typing, sends, gone, again>>

\* send: a file that fails is replaced by a notice, and a notice that fails
\* ends the send; a text that fails as HTML is sent as plain text.
TelegramSend ==
  LET plan == MediaFirst(disp.msg)
  IN  /\ Sending
      /\ IF conn = "down" THEN Drop
         ELSE IF plan[disp.at] = "media" THEN SendOrAbort(plan, 2) ELSE SendOn(plan, 2)
      /\ UNCHANGED <<config, stage, conn, service, intake, typing, inbound, outbox, ghosts>>

TelegramStop == PlainStop("telegram")

TelegramNext ==
  \/ TelegramUp
  \/ \E m \in Ids : \/ TelegramText(m)
                    \/ TelegramCommand(m)
                    \/ TelegramMedia(m)
                    \/ \E album \in BOOLEAN : TelegramDownloaded(m, album)
  \/ TelegramFlush
  \/ TelegramSend
=============================================================================
