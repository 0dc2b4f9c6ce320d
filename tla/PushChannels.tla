---------------------------- MODULE PushChannels ----------------------------
(***************************************************************************)
(* The channels whose service pushes events and may push one again:        *)
(* Feishu, QQ and WhatsApp keep a cache of the ids they have seen, DingTalk *)
(* and Slack do not (channels/feishu.py, qq.py, whatsapp.py, dingtalk.py,  *)
(* slack.py).  None of them shows typing.                                  *)
(***************************************************************************)
EXTENDS ChannelBus

VARIABLES
  botId,      \* Slack knows the id of its bot: auth_test has succeeded
  paired      \* messages whose app_mention event Slack has delivered

pushVars == <<botId, paired>>

PushInit == botId \in (IF enabled = "slack" THEN BOOLEAN ELSE {TRUE}) /\ paired = {}

PushUp(c) ==
  /\ enabled = c /\ ConnectUp
  /\ UNCHANGED <<config, stage, service, intake, typing, inbound, sends, ghosts, pushVars>>
FeishuUp == PushUp("feishu")
DingTalkUp == PushUp("dingtalk")
SlackUp == PushUp("slack")
QQUp == PushUp("qq")
WhatsAppUp == PushUp("whatsapp")
\* The clients connect again by themselves.
PushLost ==
  /\ enabled \in {"feishu", "qq", "whatsapp", "dingtalk", "slack"} /\ ConnectionLost
  /\ UNCHANGED <<config, stage, service, intake, typing, inbound, sends, ghosts, pushVars>>

Ignore(m) == Deliver(m) /\ UNCHANGED <<seen, handling, inbound, times, again>>
PushFrame == UNCHANGED <<config, stage, conn, buffer, timer, typing, sends>>

\* Mutant: a handler waits until the agent has taken every message.
MutForwards(m) ==
  /\ enabled \in {"feishu", "dingtalk", "slack"}
  /\ handling[m] > 0 /\ inbound = <<>> /\ Leaves(m) /\ Publish(<<m>>)
  /\ PushFrame /\ UNCHANGED <<service, seen, gone, again, pushVars>>
\* A message that has been taken in waits for the service before it is
\* published: a reaction, a download, the background task of DingTalk.
Forwards(m) ==
  /\ enabled \in {"feishu", "dingtalk", "slack"}
  /\ handling[m] > 0 /\ Leaves(m) /\ Publish(<<m>>)
  /\ PushFrame /\ UNCHANGED <<service, seen, gone, again, pushVars>>
\* An exception in the handler of Feishu is logged.
FeishuFails(m) ==
  /\ enabled = "feishu" /\ handling[m] > 0 /\ Leaves(m)
  /\ gone' = gone \union {m}
  /\ PushFrame /\ UNCHANGED <<service, seen, inbound, times, again, pushVars>>

\* _on_message of Feishu runs once for each event, several at a time.
FeishuEvent(m) ==
  /\ enabled = "feishu"
  /\ \/ Known(m) /\ Ignore(m)
     \/ /\ ~Known(m) /\ Deliver(m) /\ Remember(m)
        /\ IF shape[m].from = "bot" THEN UNCHANGED handling ELSE Enters(m)
        /\ UNCHANGED <<inbound, times>>
  /\ PushFrame /\ UNCHANGED <<gone, pushVars>>

\* QQ and WhatsApp publish at once.
CachedEvent(m) ==
  /\ \/ Known(m) /\ Ignore(m)
     \/ ~Known(m) /\ Deliver(m) /\ Remember(m) /\ Publish(<<m>>) /\ UNCHANGED handling
  /\ PushFrame /\ UNCHANGED <<gone, pushVars>>
QQMessage(m) == enabled = "qq" /\ CachedEvent(m)
BridgeMessage(m) == enabled = "whatsapp" /\ CachedEvent(m)

\* process of DingTalk starts a background task and acknowledges.
DingTalkEvent(m) ==
  /\ enabled = "dingtalk"
  /\ Deliver(m) /\ Enters(m)
  /\ again' = IF left[m] < Copies THEN again \union {m} ELSE again
  /\ PushFrame /\ UNCHANGED <<seen, inbound, times, gone, pushVars>>

\* Mutant: both events of a mention are taken.
MutSlackPolicy(m, event) ==
  /\ shape[m].from # "bot"
  /\ shape[m].group => \/ policy = "open" \/ event = "app_mention"
                       \/ botId /\ shape[m].mention
\* Slack: a mention in a channel comes as a message and as an app_mention.
SlackPolicy(m, event) ==
  /\ shape[m].from # "bot"
  /\ event = "message" => ~(botId /\ shape[m].mention)
  /\ shape[m].group => \/ policy = "open" \/ event = "app_mention"
                       \/ botId /\ shape[m].mention
SlackTakes(m, event) ==
  IF SlackPolicy(m, event) THEN Enters(m) ELSE UNCHANGED handling
SlackMessage(m) ==
  /\ enabled = "slack"
  /\ Deliver(m) /\ SlackTakes(m, "message")
  /\ again' = IF left[m] < Copies \/ (~botId /\ shape[m].mention) THEN again \union {m} ELSE again
  /\ PushFrame /\ UNCHANGED <<seen, inbound, times, gone, pushVars>>
SlackMention(m) ==
  /\ enabled = "slack" /\ conn = "up" /\ m \in Posted \ paired
  /\ shape[m].group /\ shape[m].mention
  /\ paired' = paired \union {m} /\ SlackTakes(m, "app_mention")
  /\ PushFrame /\ UNCHANGED <<service, seen, inbound, times, gone, again, botId>>

-----------------------------------------------------------------------------
(* Sending: every failure is logged, and the next piece follows *)

\* A text is one message or, with several tables, one card for each.
FeishuPlan == MediaFirst(disp.msg)
FeishuSend ==
  /\ enabled = "feishu" /\ Sending
  /\ SendOn(FeishuPlan, 1)
  /\ UNCHANGED <<config, stage, conn, service, intake, typing, inbound, outbox, ghosts, pushVars>>

\* Without a token there is no send; a file that fails is followed by a
\* notice in its place.
DingTalkSend ==
  LET plan == TextFirst(disp.msg)
  IN  /\ enabled = "dingtalk" /\ Sending
      /\ \/ disp.at = 1 /\ disp.try = 1 /\ Drop
         \/ SendOn(plan, IF plan[disp.at] = "media" THEN 2 ELSE 1)
      /\ UNCHANGED <<config, stage, conn, service, intake, typing, inbound, outbox, ghosts, pushVars>>

\* send of Slack reads the name use_thread, which nothing defines, before its
\* first request, and logs the NameError.
SlackSend ==
  /\ enabled = "slack" /\ Sending /\ Drop
  /\ UNCHANGED <<config, stage, conn, service, intake, typing, inbound, outbox, ghosts, pushVars>>

QQSend == TextSend("qq") /\ UNCHANGED pushVars
\* After a normal close of the connection _connected still holds.
WhatsAppSend ==
  \/ TextSend("whatsapp") /\ UNCHANGED pushVars
  \/ /\ enabled = "whatsapp" /\ Sending /\ conn # "up" /\ Drop
     /\ UNCHANGED <<config, stage, conn, service, intake, typing, inbound, outbox, ghosts, pushVars>>

FeishuStop == PlainStop("feishu")
DingTalkStop == PlainStop("dingtalk")
SlackStop == PlainStop("slack")
QQStop == PlainStop("qq")
WhatsAppStop == PlainStop("whatsapp")
PushStop == FeishuStop \/ DingTalkStop \/ SlackStop \/ QQStop \/ WhatsAppStop

PushNext ==
  \/ FeishuUp \/ DingTalkUp \/ SlackUp \/ QQUp \/ WhatsAppUp \/ PushLost
  \/ \E m \in Ids : \/ Forwards(m) \/ FeishuEvent(m) \/ FeishuFails(m) \/ QQMessage(m) \/ BridgeMessage(m)
                    \/ DingTalkEvent(m) \/ SlackMessage(m) \/ SlackMention(m)
  \/ FeishuSend \/ DingTalkSend \/ SlackSend \/ QQSend \/ WhatsAppSend
=============================================================================
