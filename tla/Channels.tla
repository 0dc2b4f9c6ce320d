------------------------------ MODULE Channels ------------------------------
(***************************************************************************)
(* The chat channels of a gateway, with the bus, the users, an agent that  *)
(* answers, the dispatcher and the end of the gateway.  Channels share     *)
(* only the bus and the dispatcher, so that a behaviour has one of them    *)
(* enabled, whichever it is.                                               *)
(***************************************************************************)
EXTENDS Telegram, Discord, Matrix, Mail, Mochat, PushChannels

vars == <<busVars, silent, mailVars, mochatVars, pushVars>>

Init == BusInit /\ MailInit /\ MochatInit /\ PushInit

\* Between the end of the dispatcher and its own stop() a channel does only
\* what it could have done before, for the two share nothing then.
Core ==
  BusNext /\ UNCHANGED <<mailVars, mochatVars, pushVars>>
Plain ==
  /\ disp # Over
  /\ \/ enabled = "telegram" /\ TelegramNext
     \/ enabled = "discord" /\ DiscordNext
     \/ enabled = "matrix" /\ MatrixNext
  /\ Ending /\ UNCHANGED <<mailVars, mochatVars, pushVars>>
Email  == disp # Over /\ enabled = "email" /\ MailNext /\ UNCHANGED <<silent, mochatVars, pushVars>>
Panels == disp # Over /\ enabled = "mochat" /\ MochatNext /\ UNCHANGED <<silent, mailVars, pushVars>>
Push   == disp # Over /\ PushNext /\ UNCHANGED <<silent, mailVars, mochatVars>>

\* stop() of the channel, once the dispatcher has ended.
Stop ==
  /\ \/ enabled = "email" /\ MailStop /\ UNCHANGED <<mochatVars, pushVars>>
     \/ enabled = "mochat" /\ MochatStop /\ UNCHANGED <<mailVars, pushVars>>
     \/ /\ TelegramStop \/ DiscordStop \/ MatrixStop \/ PushStop
        /\ UNCHANGED <<mailVars, mochatVars, pushVars>>
  /\ Ending

\* The gateway is over.
Ended == stage = "stopped" /\ UNCHANGED vars

Next == Core \/ Plain \/ Email \/ Panels \/ Push \/ Stop \/ Ended

\* Some waits may last for ever: the mailbox is opened without a timeout, the
\* client of Feishu has none, nor has a download of Matrix.
Unbounded(m) == enabled \in {"email", "feishu"} \/ (enabled = "matrix" /\ Fetching(m))

\* Every other request has a timeout, so that a handler or a timer goes on.
Still(A) == A /\ Ending /\ UNCHANGED <<mailVars, mochatVars, pushVars>>
Continues(m) ==
  \/ /\ enabled = "telegram" /\ Still(\E album \in BOOLEAN : TelegramDownloaded(m, album))
  \/ /\ enabled = "discord" /\ Still(DiscordDownloaded(m))
  \/ /\ enabled = "matrix" /\ Still(MatrixForward(m))
  \/ enabled \in {"dingtalk", "slack"} /\ Forwards(m) /\ UNCHANGED <<silent, mailVars, mochatVars>>
  \/ \E found \in BOOLEAN : enabled = "mochat" /\ MochatLookedUp(m, found)
                            /\ UNCHANGED <<silent, mailVars, pushVars>>
Timer ==
  \/ enabled = "telegram" /\ Still(TelegramFlush)
  \/ enabled = "mochat" /\ MochatFlush /\ UNCHANGED <<silent, mailVars, pushVars>>
Fairness ==
  /\ \A m \in Ids : WF_vars(disp # Over /\ Continues(m))
  /\ WF_vars(disp # Over /\ Timer)
  /\ WF_vars(Stop)

Spec == Init /\ [][Next]_vars /\ Fairness

-----------------------------------------------------------------------------
(* Properties *)

\* What the options of the channel say the bot should react to.
Wanted(m) ==
  /\ Allowed(m)
  /\ \/ ~shape[m].group \/ shape[m].mention
     \/ policy = "open" \/ (enabled = "mochat" /\ policy = "delay")

\* The service or the file of the channel regards the message as read.
Taken(m) ==
  CASE enabled = "email" -> left[m] = 0 \/ Known(m)
    [] enabled = "mochat" -> IF InSession(m) THEN m <= cursor ELSE Known(m)
    [] enabled = "slack" /\ shape[m].mention -> m \in paired
    [] enabled \in Once \ {"email"} -> left[m] = 0
    [] OTHER -> left[m] < Copies

InHand(m) ==
  \/ handling[m] > 0
  \/ timer /\ Contains(buffer, m)
  \/ m \in Fetched

\* No message is lost on the way through a channel: once the service, the
\* mailbox or the saved cursor says that a message for the bot was read, it
\* is on the bus, in the hands of a handler or of a timer, or was given up by
\* a step that says so (_on_message of each channel, _fetch_messages,
\* _handle_watch_payload, _flush_media_group, _delay_flush_after).
Accounted ==
  \A m \in Posted : Taken(m) /\ Wanted(m) => times[m] > 0 \/ InHand(m) \/ m \in gone

\* One message makes one turn, however often and over however many ways the
\* service delivers it, as long as the channel has a means to recognise it
\* (the caches of ids, the uids, the cursor, the pair of events of Slack).
AtMostOnce == \A m \in Posted : times[m] > 1 => m \in again

\* A chat is shown typing only while a message of it is on its way through
\* the gateway; the exceptions are the typing that Telegram shows to a sender
\* whom it then denies, and that of a chat whose last turn left no answer
\* (_start_typing, _stop_typing, the end of send).
TypingJustified ==
  stage = "running" =>
    \A c \in typing :
      \/ \E i \in DOMAIN inbound : \E m \in ToSet(inbound[i]) : Chat(m) = c
      \/ \E i \in DOMAIN outbox : outbox[i].chat = c
      \/ disp.phase = "send" /\ disp.msg.chat = c
      \/ \E m \in Posted : Chat(m) = c /\ InHand(m)
      \/ enabled = "telegram" /\ \E m \in Posted : Chat(m) = c /\ ~Allowed(m)
      \/ c \in silent

\* The pieces of the answers reach the service in the order in which the
\* agent left them, whatever fails and is tried again (_dispatch_outbound and
\* send of each channel).
SentInOrder ==
  [][\/ last' = last
     \/ last[1] < last'[1]
     \/ last[1] = last'[1] /\ last[2] <= last'[2]]_vars

\* What a channel has in hand does not stay there: it is published or given
\* up, until the gateway stops, unless it waits for a service without a
\* timeout (the handlers of the channels, _flush_media_group).
HandledInTheEnd ==
  \A m \in Ids : (m \in Posted /\ InHand(m) /\ Wanted(m) /\ ~Unbounded(m))
                   ~> (times[m] > 0 \/ m \in gone \/ stage # "running")
=============================================================================
