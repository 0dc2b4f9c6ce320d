---------------------------- MODULE ChannelProofs ----------------------------
(***************************************************************************)
(* What Channels promises, for any messages, channels and bounds: answers  *)
(* arrive in order (from Ordered), no message is lost or taken twice        *)
(* unknowingly (from ChannelOK, which says for each channel how what it     *)
(* remembers of the messages follows what has become of them), and typing   *)
(* is shown for a reason (from TypingOK).                                   *)
(***************************************************************************)
EXTENDS Channels, SequenceTheorems, FiniteSetTheorems, WellFoundedInduction, TLAPS

USE DEF config, service, intake, sends, ghosts, busVars, mailVars, mochatVars, pushVars,
        cursorVars, wsVars

\* The channels that show typing; their service delivers a message once.
Typists == {"telegram", "discord", "matrix"}

InBuffer(m) == \E i \in DOMAIN buffer : buffer[i] = m
Unique(s, m) == \A i, j \in DOMAIN s : s[i] = m /\ s[j] = m => i = j

Types ==
  /\ shape \in Seq(Shapes) /\ Len(shape) <= Cardinality(Ids)
  /\ left \in [Ids -> Nat] /\ handling \in [Ids -> Nat] /\ times \in [Ids -> 0..2]
  /\ seen \in Seq(Ids) /\ \A m \in Ids : Known(m) => m \in Posted
  /\ buffer \in Seq(Ids) /\ \A m \in Ids : InBuffer(m) => m \in Posted
  /\ timer \in BOOLEAN /\ (timer <=> buffer # <<>>)
  /\ \A m \in Ids : handling[m] > 0 => m \in Posted

-----------------------------------------------------------------------------
(* Answers *)

Out == [n : Nat, chat : Chats, progress : BOOLEAN, media : Nat, text : Nat]

\* The answers wait in the order of their numbers, after the one that is sent.
Ordered ==
  /\ outbox \in Seq(Out) /\ last \in Nat \X Nat
  /\ \A i, j \in 1..Len(outbox) : i < j => outbox[i].n < outbox[j].n
  /\ \A i \in 1..Len(outbox) : last[1] < outbox[i].n
  /\ disp.phase \in {"send", "untype"} =>
       /\ disp.msg \in Out /\ disp.at \in Nat /\ disp.try \in Nat
       /\ disp = [phase |-> disp.phase, msg |-> disp.msg, at |-> disp.at, try |-> disp.try]
       /\ last[1] <= disp.msg.n
       /\ disp.phase = "send" /\ last[1] = disp.msg.n => last[2] <= disp.at
       /\ \A i \in 1..Len(outbox) : disp.msg.n < outbox[i].n

-----------------------------------------------------------------------------
(* Typing *)

Underway(m) == handling[m] > 0 \/ InBuffer(m)

\* An answer to c waits.
Waits(c) == \E i \in 1..Len(outbox) : ~outbox[i].progress /\ outbox[i].chat = c
\* On Matrix a message that has not been forwarded shows no typing yet.
Justified(c) ==
  \/ \E i \in 1..Len(inbound) : Chat(inbound[i][1]) = c
  \/ Waits(c)
  \/ enabled # "telegram" /\ disp.phase = "send" /\ ~disp.msg.progress /\ disp.msg.chat = c
  \/ enabled # "matrix" /\ \E m \in Posted : Chat(m) = c /\ Underway(m)
  \/ c \in silent
  \/ enabled = "telegram" /\ \E m \in Posted : Chat(m) = c /\ ~Allowed(m)

\* A batch for the agent is of one chat.
OneChat(batch) ==
  /\ batch \in Seq(Ids) /\ batch # <<>>
  /\ \A j \in 1..Len(batch) : batch[j] \in Posted /\ Chat(batch[j]) = Chat(batch[1])

TypingOK ==
  /\ enabled \notin Typists => typing = {}
  /\ enabled \in Typists =>
       inbound \in Seq(Seq(Ids)) /\ \A i \in 1..Len(inbound) : OneChat(inbound[i])
  /\ stage = "running" => \A c \in typing : Justified(c)

-----------------------------------------------------------------------------
(* Once *)

OnceOK ==
  /\ \A m \in Ids :
       /\ left[m] <= 1 /\ handling[m] <= 2 /\ times[m] <= 1
       /\ m \notin Posted => left[m] = 1
       /\ left[m] = 1 => handling[m] = 0 /\ ~InBuffer(m) /\ times[m] = 0
       /\ handling[m] > 0 => ~InBuffer(m) /\ times[m] = 0
       /\ enabled # "matrix" => handling[m] <= 1
       /\ InBuffer(m) => times[m] = 0
       /\ enabled # "telegram" /\ handling[m] > 0 => Allowed(m)
       /\ m \in Posted /\ Wanted(m) /\ left[m] = 0 => times[m] > 0 \/ Underway(m) \/ m \in gone
  /\ \A i, j \in DOMAIN buffer :
       /\ buffer[i] = buffer[j] => i = j
       /\ Chat(buffer[i]) = Chat(buffer[j]) /\ shape[buffer[i]].from = shape[buffer[j]].from
  /\ enabled # "telegram" => buffer = <<>>

MailOK ==
  /\ fetched \in Seq(Ids) /\ Fetched \subseteq Posted /\ todo \subseteq Posted
  /\ poll = "sleep" => fetched = <<>>
  /\ \A m \in Ids :
       /\ handling[m] = 0 /\ (m \notin Posted => left[m] = 1)
       /\ m \notin again => /\ m \in Fetched => Known(m) /\ times[m] = 0 /\ Unique(fetched, m)
                            /\ times[m] <= 1
                            /\ times[m] > 0 => Known(m)
       /\ m \in Posted /\ Wanted(m) /\ (left[m] = 0 \/ Known(m)) =>
            times[m] > 0 \/ m \in Fetched \/ m \in gone
  /\ buffer = <<>>

Given(m) == times[m] > 0 \/ handling[m] > 0 \/ m \in gone

CacheOK ==
  /\ \A m \in Ids :
       /\ left[m] <= Copies /\ (m \notin Posted => left[m] = Copies)
       /\ Known(m) => left[m] < Copies
       /\ m \notin again => IF Known(m) THEN handling[m] + times[m] <= 1
                                        ELSE handling[m] = 0 /\ times[m] = 0
       /\ m \in Posted /\ Wanted(m) /\ left[m] < Copies => Given(m)
  /\ buffer = <<>>

DingOK ==
  /\ \A m \in Ids :
       /\ m \notin Posted => left[m] = Copies
       /\ left[m] <= Copies
       /\ m \notin again => handling[m] + times[m] <= (IF left[m] < Copies THEN 1 ELSE 0)
       /\ m \in Posted /\ Wanted(m) /\ left[m] < Copies => Given(m)
  /\ buffer = <<>>

SlackOK ==
  /\ paired \subseteq Posted
  /\ \A m \in paired : shape[m].mention
  /\ \A m \in Ids :
       /\ m \notin Posted => left[m] = Copies
       /\ left[m] <= Copies
       /\ m \in Posted /\ shape[m].mention /\ m \notin again =>
            /\ ~botId => left[m] = Copies
            /\ handling[m] + times[m] <= (IF m \in paired THEN 1 ELSE 0)
       /\ m \in Posted /\ ~shape[m].mention /\ m \notin again =>
            handling[m] + times[m] <= (IF left[m] < Copies THEN 1 ELSE 0)
       /\ m \notin Posted => times[m] = 0
       /\ m \in Posted /\ Wanted(m) /\ (IF shape[m].mention THEN m \in paired ELSE left[m] < Copies)
            => Given(m)
  /\ buffer = <<>>

Has(r, m) == \E i \in DOMAIN r.buffer : r.buffer[i] = m
Knows(r, m) == \E i \in DOMAIN r.seen : r.seen[i] = m
Met(r, m) == r.times[m] > 0 \/ Has(r, m) \/ m \in gone

InFields == {"seen", "buffer", "timer", "again", "inbound", "times"}

Whole(r) == r = [f \in InFields |-> r[f]]
InOK(r) ==
  /\ Whole(r)
  /\ r.seen \in Seq(Ids) /\ r.buffer \in Seq(Ids) /\ r.times \in [Ids -> 0..2]
  /\ r.timer \in BOOLEAN /\ (r.timer <=> r.buffer # <<>>)
  /\ \A m \in Ids :
       /\ Has(r, m) => m \in Posted /\ Allowed(m) /\ ~InSession(m)
       /\ Knows(r, m) => m \in Posted
       /\ m \notin r.again => /\ Has(r, m) => Knows(r, m) /\ r.times[m] = 0 /\ Unique(r.buffer, m)
                              /\ r.times[m] <= 1
                              /\ r.times[m] > 0 => Knows(r, m)
       /\ Knows(r, m) /\ Wanted(m) => Met(r, m)

\* Of the session everything up to c has been met.
ReadUpTo(c) ==
  /\ c \in -1..Len(shape)
  /\ \A m \in Posted : InSession(m) /\ Wanted(m) /\ m <= c => Met(In, m)

MochatOK ==
  /\ InOK(In)
  /\ ReadUpTo(cursor) /\ ReadUpTo(saved) /\ ReadUpTo(subscribed) /\ ReadUpTo(asked)

ChannelOK ==
  /\ enabled \in Typists => OnceOK
  /\ enabled = "email" => MailOK
  /\ enabled = "mochat" => MochatOK
  /\ enabled = "slack" => SlackOK
  /\ enabled = "dingtalk" => DingOK
  /\ enabled \notin Typists \union {"email", "mochat", "slack", "dingtalk"} => CacheOK

-----------------------------------------------------------------------------
(* Answers in their order                                                   *)

\* What a step does to the answers, other than adding one or taking the first.
Quits == disp' \in {Idle, Over} /\ UNCHANGED <<outbox, last>>
Dies == outbox' = <<>> /\ disp' = Idle /\ UNCHANGED last
SendsPiece ==
  /\ Sending /\ UNCHANGED outbox
  /\ last' \in {last, <<disp.msg.n, disp.at>>}
  /\ disp' \in {Idle, [disp EXCEPT !.at = @ + 1, !.try = 1], [disp EXCEPT !.try = @ + 1],
                [disp EXCEPT !.phase = "untype"]}

InOrder ==
  \/ last' = last
  \/ last[1] < last'[1]
  \/ last[1] = last'[1] /\ last[2] <= last'[2]

LEMMA OutTypes ==
  ASSUME Ordered
  PROVE  /\ Len(outbox) \in Nat /\ last[1] \in Nat /\ last[2] \in Nat
         /\ \A i \in 1..Len(outbox) : outbox[i] \in Out /\ outbox[i].n \in Nat
  <1>1. outbox \in Seq(Out) /\ last \in Nat \X Nat
    BY DEF Ordered
  <1>2. \A i \in 1..Len(outbox) : outbox[i] \in Out
    BY <1>1
  <1>3. \A o \in Out : o.n \in Nat
    BY DEF Out
  <1> QED BY <1>1, <1>2, <1>3

LEMMA QuitsOrdered == ASSUME Ordered, UNCHANGED sends \/ Quits \/ Dies PROVE Ordered' /\ InOrder
  <1>1. CASE UNCHANGED sends
    BY <1>1 DEF Ordered, InOrder
  <1>2. CASE Quits
    BY <1>2 DEF Ordered, InOrder, Quits, Idle, Over
  <1>3. CASE Dies
    BY <1>3 DEF Ordered, InOrder, Dies, Idle
  <1> QED BY <1>1, <1>2, <1>3

LEMMA PieceOrdered == ASSUME Ordered, SendsPiece PROVE Ordered' /\ InOrder
  <1>1. /\ disp.phase = "send" /\ outbox' = outbox /\ disp.msg \in Out
        /\ disp.at \in Nat /\ disp.try \in Nat /\ last \in Nat \X Nat
        /\ disp = [phase |-> disp.phase, msg |-> disp.msg, at |-> disp.at, try |-> disp.try]
        /\ last[1] <= disp.msg.n
        /\ last[1] = disp.msg.n => last[2] <= disp.at
        /\ \A i \in 1..Len(outbox) : disp.msg.n < outbox[i].n
    BY DEF Ordered, SendsPiece, Sending
  <1>2. disp.msg.n \in Nat
    BY <1>1 DEF Out
  <1>3. /\ last' \in Nat \X Nat /\ InOrder
        /\ last'[1] <= disp.msg.n
        /\ last'[1] = disp.msg.n => last'[2] <= disp.at
    BY <1>1, <1>2 DEF SendsPiece, InOrder
  <1>4. \A i \in 1..Len(outbox) : last'[1] < outbox[i].n
    <2> SUFFICES ASSUME NEW i \in 1..Len(outbox) PROVE last'[1] < outbox[i].n
      OBVIOUS
    <2>1. disp.msg.n < outbox[i].n /\ outbox[i].n \in Nat
      BY <1>1, OutTypes
    <2>2. last'[1] \in Nat /\ last'[1] <= disp.msg.n
      BY <1>3
    <2> QED BY <1>2, <2>1, <2>2
  <1>5. \/ disp' = Idle
        \/ /\ disp'.phase \in {"send", "untype"} /\ disp'.msg = disp.msg
           /\ disp'.at \in Nat /\ disp'.try \in Nat /\ disp.at <= disp'.at
           /\ disp' = [phase |-> disp'.phase, msg |-> disp'.msg, at |-> disp'.at, try |-> disp'.try]
    <2> DEFINE p(phase, at, try) == [phase |-> phase, msg |-> disp.msg, at |-> at, try |-> try]
    <2>1. \/ disp' = Idle
          \/ disp' = p("send", disp.at + 1, 1)
          \/ disp' = p("send", disp.at, disp.try + 1)
          \/ disp' = p("untype", disp.at, disp.try)
      BY <1>1 DEF SendsPiece
    <2>2. CASE disp' = p("send", disp.at + 1, 1)
      BY <1>1, <2>2
    <2>3. CASE disp' = p("send", disp.at, disp.try + 1)
      BY <1>1, <2>3
    <2>4. CASE disp' = p("untype", disp.at, disp.try)
      BY <1>1, <2>4
    <2> QED BY <2>1, <2>2, <2>3, <2>4
  <1>6. CASE disp' = Idle
    BY <1>1, <1>3, <1>4, <1>6 DEF Ordered, Idle
  <1>7. CASE disp' # Idle
    BY <1>1, <1>3, <1>4, <1>5, <1>7 DEF Ordered
  <1> QED BY <1>6, <1>7

LEMMA DispatchOrdered ==
  ASSUME Ordered, NEW sendProgress \in BOOLEAN, Dispatch(sendProgress)
  PROVE  Ordered' /\ InOrder
  <1> DEFINE o == Head(outbox)
  <1>1. /\ outbox # <<>> /\ outbox' = Tail(outbox) /\ last' = last
        /\ \/ disp' = Idle
           \/ disp' = [phase |-> "send", msg |-> o, at |-> 1, try |-> 1]
    BY DEF Dispatch
  <1>2. /\ outbox \in Seq(Out) /\ last \in Nat \X Nat
        /\ \A i, j \in 1..Len(outbox) : i < j => outbox[i].n < outbox[j].n
        /\ \A i \in 1..Len(outbox) : last[1] < outbox[i].n
    BY DEF Ordered
  <1>3. /\ outbox' \in Seq(Out) /\ Len(outbox') = Len(outbox) - 1 /\ Len(outbox) >= 1
        /\ \A i \in 1..Len(outbox') : outbox'[i] = outbox[i + 1]
        /\ o = outbox[1] /\ o \in Out
    BY <1>1, <1>2, HeadTailProperties
  <1> HIDE DEF o
  <1>4. /\ \A i, j \in 1..Len(outbox') : i < j => outbox'[i].n < outbox'[j].n
        /\ \A i \in 1..Len(outbox') : last[1] < outbox'[i].n /\ o.n < outbox'[i].n
    <2>1. \A i \in 1..Len(outbox') : i + 1 \in 1..Len(outbox) /\ 1 < i + 1
      BY <1>3
    <2>2. \A i \in 1..Len(outbox') : o.n < outbox[i + 1].n
      BY <1>2, <1>3, <2>1
    <2>3. \A i, j \in 1..Len(outbox') : i < j => i + 1 < j + 1
      BY <1>3
    <2> QED BY <1>2, <1>3, <2>1, <2>2, <2>3
  <1>5. last[1] < o.n /\ last[1] \in Nat /\ o.n \in Nat
    BY <1>2, <1>3 DEF Out
  <1>6. CASE disp' = Idle
    BY <1>1, <1>2, <1>3, <1>4, <1>6 DEF Ordered, InOrder, Idle
  <1>7. CASE disp' = [phase |-> "send", msg |-> o, at |-> 1, try |-> 1]
    <2>1. /\ disp'.phase = "send" /\ disp'.msg = o /\ disp'.at = 1 /\ disp'.try = 1
          /\ disp' = [phase |-> disp'.phase, msg |-> disp'.msg, at |-> disp'.at, try |-> disp'.try]
      BY <1>7
    <2> QED BY <1>1, <1>2, <1>3, <1>4, <1>5, <1>7, <2>1 DEF Ordered, InOrder
  <1> QED BY <1>1, <1>6, <1>7

LEMMA ChatType == \A m : Chat(m) \in Chats
  BY DEF Chat, Chats

\* What a turn says takes the numbers that follow.
LEMMA NextNumberFollows ==
  ASSUME Ordered
  PROVE  /\ NextNumber \in Nat /\ last[1] < NextNumber
         /\ \A i \in 1..Len(outbox) : outbox[i].n < NextNumber
         /\ disp.phase \in {"send", "untype"} => disp.msg.n < NextNumber
  <1>1. /\ outbox \in Seq(Out) /\ last \in Nat \X Nat
        /\ \A i, j \in 1..Len(outbox) : i < j => outbox[i].n < outbox[j].n
        /\ \A i \in 1..Len(outbox) : last[1] < outbox[i].n
        /\ disp.phase \in {"send", "untype"} =>
             /\ disp.msg.n \in Nat /\ last[1] <= disp.msg.n
             /\ \A i \in 1..Len(outbox) : disp.msg.n < outbox[i].n
    BY DEF Ordered, Out
  <1>2. CASE outbox # <<>>
    <2>1. Len(outbox) \in 1..Len(outbox)
      BY <1>1, <1>2
    <2>2. NextNumber = outbox[Len(outbox)].n + 1 /\ outbox[Len(outbox)].n \in Nat
      BY <1>2, <2>1, OutTypes DEF NextNumber
    <2>3. \A i \in 1..Len(outbox) : outbox[i].n \in Nat /\ outbox[i].n <= outbox[Len(outbox)].n
      <3> SUFFICES ASSUME NEW i \in 1..Len(outbox)
                   PROVE  outbox[i].n \in Nat /\ outbox[i].n <= outbox[Len(outbox)].n
        OBVIOUS
      <3>1. outbox[i].n \in Nat /\ (i = Len(outbox) \/ i < Len(outbox))
        BY OutTypes
      <3>2. i < Len(outbox) => outbox[i].n < outbox[Len(outbox)].n
        BY <1>1, <2>1
      <3> QED BY <2>2, <3>1, <3>2
    <2>4. \A i \in 1..Len(outbox) : outbox[i].n < NextNumber
      BY <2>2, <2>3
    <2>5. last[1] < NextNumber
      <3>1. last[1] < outbox[Len(outbox)].n /\ last[1] \in Nat
        BY <1>1, <2>1
      <3> QED BY <2>2, <3>1
    <2>6. disp.phase \in {"send", "untype"} => disp.msg.n < NextNumber
      <3>1. disp.phase \in {"send", "untype"} =>
              disp.msg.n < outbox[Len(outbox)].n /\ disp.msg.n \in Nat
        BY <1>1, <2>1
      <3> QED BY <2>2, <3>1
    <2> QED BY <2>2, <2>4, <2>5, <2>6
  <1>3. CASE outbox = <<>>
    <2>1. NextNumber = IF disp.phase \in {"send", "untype"} THEN disp.msg.n + 1 ELSE last[1] + 1
      BY <1>3 DEF NextNumber
    <2> QED BY <1>1, <1>3, <2>1
  <1> QED BY <1>2, <1>3

LEMMA TurnOrdered ==
  ASSUME Ordered, NEW new \in Seq(Out), Turn(new),
         \A i \in 1..Len(new) : new[i].n = NextNumber + i - 1
  PROVE  Ordered' /\ InOrder
  <1> DEFINE n == NextNumber
  <1>1. outbox' = outbox \o new /\ UNCHANGED <<disp, last>> /\ Len(new) \in Nat
    BY DEF Turn
  <1>2. /\ outbox \in Seq(Out) /\ last \in Nat \X Nat
        /\ \A i, j \in 1..Len(outbox) : i < j => outbox[i].n < outbox[j].n
        /\ \A i \in 1..Len(outbox) : last[1] < outbox[i].n
        /\ disp.phase \in {"send", "untype"} =>
             disp.msg \in Out /\ \A i \in 1..Len(outbox) : disp.msg.n < outbox[i].n
    BY DEF Ordered
  <1>3. /\ n \in Nat /\ last[1] < n
        /\ \A i \in 1..Len(outbox) : outbox[i].n < n
        /\ disp.phase \in {"send", "untype"} => disp.msg.n < n
    BY NextNumberFollows
  <1>4. \A i \in 1..Len(new) : new[i].n = n + i - 1
    OBVIOUS
  <1> HIDE DEF n
  <1>5. /\ outbox' \in Seq(Out) /\ Len(outbox') = Len(outbox) + Len(new)
        /\ \A i \in 1..Len(outbox') : outbox'[i] = IF i <= Len(outbox) THEN outbox[i]
                                                   ELSE new[i - Len(outbox)]
    BY <1>1, <1>2, ConcatProperties
  <1>6. \A i \in 1..Len(outbox') : i > Len(outbox) =>
          /\ outbox'[i].n = n + (i - Len(outbox)) - 1 /\ outbox'[i].n >= n /\ outbox'[i].n \in Nat
    <2> SUFFICES ASSUME NEW i \in 1..Len(outbox'), i > Len(outbox)
                 PROVE  /\ outbox'[i].n = n + (i - Len(outbox)) - 1
                        /\ outbox'[i].n >= n /\ outbox'[i].n \in Nat
      OBVIOUS
    <2>1. outbox'[i] = new[i - Len(outbox)] /\ i - Len(outbox) \in 1..Len(new)
      BY <1>1, <1>5, OutTypes
    <2>2. new[i - Len(outbox)].n = n + (i - Len(outbox)) - 1
      BY <1>4, <2>1
    <2> DEFINE k == i - Len(outbox)
    <2>3. k \in Nat /\ k >= 1 /\ outbox'[i].n = n + k - 1
      BY <1>1, <2>1, <2>2, OutTypes
    <2> HIDE DEF k
    <2>4. n + k - 1 >= n /\ n + k - 1 \in Nat
      BY <1>3, <2>3
    <2> QED BY <2>1, <2>2, <2>3, <2>4
  <1>7. /\ \A i \in 1..Len(outbox') : last[1] < outbox'[i].n
        /\ disp.phase \in {"send", "untype"} => \A i \in 1..Len(outbox') : disp.msg.n < outbox'[i].n
    <2>1. disp.phase \in {"send", "untype"} => disp.msg.n \in Nat
      BY <1>2 DEF Out
    <2>2. \A i \in 1..Len(outbox') : i <= Len(outbox) => outbox'[i] = outbox[i] /\ i \in 1..Len(outbox)
      BY <1>5, OutTypes
    <2>3. \A i \in 1..Len(outbox') : last[1] < outbox'[i].n
      <3> SUFFICES ASSUME NEW i \in 1..Len(outbox') PROVE last[1] < outbox'[i].n
        OBVIOUS
      <3>1. CASE i <= Len(outbox)
        BY <1>2, <2>2, <3>1
      <3>2. CASE i > Len(outbox)
        BY <1>3, <1>6, <3>2, OutTypes
      <3> QED BY <3>1, <3>2, OutTypes
    <2>4. ASSUME disp.phase \in {"send", "untype"}, NEW i \in 1..Len(outbox')
          PROVE  disp.msg.n < outbox'[i].n
      <3>1. CASE i <= Len(outbox)
        BY <1>2, <2>2, <2>4, <3>1
      <3>2. CASE i > Len(outbox)
        BY <1>3, <1>6, <2>1, <2>4, <3>2
      <3> QED BY <3>1, <3>2, OutTypes
    <2> QED BY <2>3, <2>4
  <1>8. \A i, j \in 1..Len(outbox') : i < j => outbox'[i].n < outbox'[j].n
    <2> SUFFICES ASSUME NEW i \in 1..Len(outbox'), NEW j \in 1..Len(outbox'), i < j
                 PROVE  outbox'[i].n < outbox'[j].n
      OBVIOUS
    <2>1. CASE j <= Len(outbox)
      <3>1. i \in 1..Len(outbox) /\ j \in 1..Len(outbox)
        BY <2>1, OutTypes
      <3>2. outbox'[i] = outbox[i] /\ outbox'[j] = outbox[j]
        BY <1>5, <3>1
      <3>3. outbox[i].n < outbox[j].n
        BY <1>2, <3>1
      <3> QED BY <3>2, <3>3
    <2>2. CASE j > Len(outbox) /\ i <= Len(outbox)
      <3>1. outbox'[i] = outbox[i] /\ outbox[i].n < n /\ outbox[i].n \in Nat
        BY <1>3, <1>5, <2>2, OutTypes
      <3>2. outbox'[j].n >= n /\ outbox'[j].n \in Nat
        BY <1>6, <2>2
      <3> QED BY <1>3, <3>1, <3>2
    <2>3. CASE i > Len(outbox)
      <3>1. j > Len(outbox)
        BY <2>3, OutTypes
      <3>2. outbox'[i].n = n + (i - Len(outbox)) - 1
        BY <1>6, <2>3
      <3>3. outbox'[j].n = n + (j - Len(outbox)) - 1
        BY <1>6, <3>1
      <3> QED BY <1>3, <3>2, <3>3, OutTypes
    <2> QED BY <1>2, <2>1, <2>2, <2>3, OutTypes
  <1> QED BY <1>1, <1>2, <1>5, <1>7, <1>8 DEF Ordered, InOrder

\* What a turn may say.
LEMMA SayTypes ==
  ASSUME NEW n \in Nat, NEW a \in Answers
  PROVE  /\ Note(n) \in Out /\ Note(n).n = n /\ Note(n).progress
         /\ Final(n, a) \in Out /\ Final(n, a).n = n
         /\ ~Final(n, a).progress /\ Final(n, a).chat = Asking
  <1>1. a.media \in Nat /\ a.text \in Nat
    BY BusAssumption
  <1>2. Asking \in Chats
    BY ChatType DEF Asking
  <1> QED BY <1>1, <1>2 DEF Note, Final, Out

LEMMA AnswerOrdered ==
  ASSUME Ordered, NEW a \in Answers, NEW tell \in BOOLEAN, Answer(a, tell)
  PROVE  Ordered' /\ InOrder
  <1>1. NextNumber \in Nat
    BY NextNumberFollows
  <1>2. CASE tell
    <2> DEFINE note == Note(NextNumber)
               final == Final(NextNumber + 1, a)
               new == <<note, final>>
    <2>1. note \in Out /\ note.n = NextNumber /\ final \in Out /\ final.n = NextNumber + 1
      BY <1>1, SayTypes
    <2>2. Turn(new)
      BY <1>2 DEF Answer
    <2> HIDE DEF note, final
    <2>3. new \in Seq(Out) /\ \A i \in 1..Len(new) : new[i].n = NextNumber + i - 1
      BY <1>1, <2>1
    <2> QED BY <2>2, <2>3, TurnOrdered
  <1>3. CASE ~tell
    <2> DEFINE final == Final(NextNumber, a)
               new == <<final>>
    <2>1. final \in Out /\ final.n = NextNumber
      BY <1>1, SayTypes
    <2>2. Turn(new)
      BY <1>3 DEF Answer
    <2> HIDE DEF final
    <2>3. new \in Seq(Out) /\ \A i \in 1..Len(new) : new[i].n = NextNumber + i - 1
      BY <1>1, <2>1
    <2> QED BY <2>2, <2>3, TurnOrdered
  <1> QED BY <1>2, <1>3

LEMMA NoAnswerOrdered ==
  ASSUME Ordered, NEW tell \in BOOLEAN, NoAnswer(tell)
  PROVE  Ordered' /\ InOrder
  <1>1. NextNumber \in Nat
    BY NextNumberFollows
  <1>2. CASE tell
    <2> DEFINE note == Note(NextNumber)
               new == <<note>>
    <2>1. note \in Out /\ note.n = NextNumber
      <3>1. Asking \in Chats
        BY ChatType DEF Asking
      <3> QED BY <1>1, <3>1 DEF Note, Out
    <2>2. Turn(new)
      BY <1>2 DEF NoAnswer
    <2> HIDE DEF note
    <2>3. new \in Seq(Out) /\ \A i \in 1..Len(new) : new[i].n = NextNumber + i - 1
      BY <1>1, <2>1
    <2> QED BY <2>2, <2>3, TurnOrdered
  <1>3. CASE ~tell
    <2> DEFINE new == <<>>
    <2>1. new \in Seq(Out) /\ \A i \in 1..Len(new) : new[i].n = NextNumber + i - 1
      OBVIOUS
    <2>2. Turn(new)
      BY <1>3 DEF NoAnswer
    <2> HIDE DEF new
    <2> QED BY <2>1, <2>2, TurnOrdered
  <1> QED BY <1>2, <1>3

Moves == Quits \/ SendsPiece

LEMMA RequestMoves ==
  ASSUME Sending, UNCHANGED outbox, NEW plan, NEW tries, SendOn(plan, tries) \/ SendOrAbort(plan, tries)
  PROVE  SendsPiece
  <1>1. last' \in {last, <<disp.msg.n, disp.at>>}
    BY DEF SendOn, SendOrAbort, Request
  <1>2. disp' \in {Idle, [disp EXCEPT !.at = @ + 1, !.try = 1], [disp EXCEPT !.try = @ + 1]}
    BY DEF SendOn, SendOrAbort, NextPiece, NextTry
  <1> QED BY <1>1, <1>2 DEF SendsPiece

LEMMA SendMoves ==
  ASSUME \/ TelegramSend \/ DiscordSend \/ MatrixSend \/ MatrixUntyped \/ MailSend \/ MochatSend
         \/ FeishuSend \/ DingTalkSend \/ SlackSend \/ QQSend \/ WhatsAppSend
  PROVE  Moves
  <1>1. CASE TelegramSend
    <2>1. CASE conn = "down"
      BY <1>1, <2>1 DEF TelegramSend, Drop, Moves, Quits
    <2>2. CASE conn # "down"
      BY <1>1, <2>2, RequestMoves DEF TelegramSend, Moves
    <2> QED BY <2>1, <2>2
  <1>2. CASE DiscordSend
    BY <1>2, RequestMoves DEF DiscordSend, Moves
  <1>3. CASE MatrixSend
    <2>1. last' \in {last, <<disp.msg.n, disp.at>>}
      BY <1>3 DEF MatrixSend, Request
    <2>2. disp' \in {Idle, [disp EXCEPT !.at = @ + 1, !.try = 1], [disp EXCEPT !.phase = "untype"]}
      BY <1>3 DEF MatrixSend, NextPiece
    <2> QED BY <1>3, <2>1, <2>2 DEF MatrixSend, SendsPiece, Moves
  <1>4. CASE MatrixUntyped
    BY <1>4 DEF MatrixUntyped, Moves, Quits
  <1>5. CASE MailSend
    <2>1. CASE Drop
      BY <1>5, <2>1 DEF MailSend, Drop, Moves, Quits
    <2>2. CASE ~Drop
      BY <1>5, <2>2, RequestMoves DEF MailSend, Moves
    <2> QED BY <2>1, <2>2
  <1>6. CASE \E c : TextSend(c)
    BY <1>6, RequestMoves DEF TextSend, Moves
  <1>7. CASE FeishuSend
    BY <1>7, RequestMoves DEF FeishuSend, Moves
  <1>8. CASE DingTalkSend
    <2>1. CASE Drop
      BY <1>8, <2>1 DEF DingTalkSend, Drop, Moves, Quits
    <2>2. CASE ~Drop
      BY <1>8, <2>2, RequestMoves DEF DingTalkSend, Moves
    <2> QED BY <2>1, <2>2
  <1>9. CASE SlackSend
    BY <1>9 DEF SlackSend, Drop, Moves, Quits
  <1>10. CASE WhatsAppSend
    BY <1>6, <1>10 DEF WhatsAppSend, Drop, Moves, Quits
  <1> QED BY <1>1, <1>2, <1>3, <1>4, <1>5, <1>6, <1>7, <1>8, <1>9, <1>10 DEF MochatSend, QQSend

LEMMA StepsOfAnswers ==
  ASSUME [Next]_vars
  PROVE  \/ UNCHANGED sends \/ Moves \/ Dies
         \/ \E a \in Answers, tell \in BOOLEAN : Answer(a, tell)
         \/ \E tell \in BOOLEAN : NoAnswer(tell)
         \/ \E sendProgress \in BOOLEAN : Dispatch(sendProgress)
  <1>1. CASE Core
    BY <1>1 DEF Core, BusNext, Post, StartFails, StopAll, Moves, Quits
  <1>2. CASE TelegramNext
    BY <1>2, SendMoves DEF TelegramNext, TelegramUp, TelegramText, TelegramCommand, TelegramMedia,
       TelegramDownloaded, TelegramFlush
  <1>3. CASE DiscordNext
    BY <1>3, SendMoves DEF DiscordNext, DiscordReady, DiscordReconnect, DiscordText, DiscordMedia,
       DiscordDownloaded
  <1>4. CASE MatrixNext
    BY <1>4, SendMoves DEF MatrixNext, MatrixUp, MatrixSyncFails, MatrixIgnore, MatrixText,
       MatrixMedia, MatrixFetched, MatrixFails, MatrixForward
  <1>5. CASE MailNext
    BY <1>5, SendMoves DEF MailNext, MailUp, MailSearch, MailFetch, MailSkip, MailBreaks, MailPublish
  <1>6. CASE MochatNext
    <2>1. CASE MochatCrash
      BY <2>1 DEF MochatCrash, Dies
    <2>2. CASE MochatSend
      BY <2>2, SendMoves
    <2> QED BY <1>6, <2>1, <2>2 DEF MochatNext, MochatStart, MochatReconnect, MochatSubscribed,
        MochatSubscribeFails, MochatRefreshed, MochatDisconnect, MochatSessionEvent,
        MochatPanelEvent, MochatInbox, MochatLookedUp, MochatWatch, MochatWatched,
        MochatWatchFails, MochatPoll, MochatFlush, MochatSave
  <1>7. CASE PushNext
    BY <1>7, SendMoves DEF PushNext, FeishuUp, DingTalkUp, SlackUp, QQUp, WhatsAppUp, PushUp,
       PushLost, Forwards, FeishuEvent, FeishuFails, QQMessage, BridgeMessage, CachedEvent,
       DingTalkEvent, SlackMessage, SlackMention, PushFrame
  <1>8. CASE Stop
    BY <1>8 DEF Stop, MailStop, MochatStop, TelegramStop, DiscordStop, MatrixStop, PushStop,
       FeishuStop, DingTalkStop, SlackStop, QQStop, WhatsAppStop, PlainStop, Stopped
  <1>9. CASE UNCHANGED vars
    BY <1>9 DEF vars
  <1> QED BY <1>1, <1>2, <1>3, <1>4, <1>5, <1>6, <1>7, <1>8, <1>9
      DEF Next, Plain, Email, Panels, Push, Ended

LEMMA OrderedInit == Init => Ordered
  BY DEF Init, BusInit, Ordered, Idle

LEMMA OrderedStep == ASSUME Ordered, [Next]_vars PROVE Ordered' /\ InOrder
  <1>1. CASE UNCHANGED sends \/ Moves \/ Dies
    BY <1>1, QuitsOrdered, PieceOrdered DEF Moves
  <1>2. CASE \E a \in Answers, tell \in BOOLEAN : Answer(a, tell)
    BY <1>2, AnswerOrdered
  <1>3. CASE \E sendProgress \in BOOLEAN : Dispatch(sendProgress)
    BY <1>3, DispatchOrdered
  <1>4. CASE \E tell \in BOOLEAN : NoAnswer(tell)
    BY <1>4, NoAnswerOrdered
  <1> QED BY <1>1, <1>2, <1>3, <1>4, StepsOfAnswers

\* The pieces of the answers reach the service in the order in which the agent
\* left them, whatever is tried again, for any answers and any channel.
THEOREM AnswersInOrder == Spec => SentInOrder
  <1>1. Init => Ordered
    BY OrderedInit
  <1>2. Ordered /\ [Next]_vars => Ordered' /\ InOrder
    BY OrderedStep
  <1>3. InOrder <=> \/ last' = last
                    \/ last[1] < last'[1]
                    \/ last[1] = last'[1] /\ last[2] <= last'[2]
    BY DEF InOrder
  <1> QED BY <1>1, <1>2, <1>3, PTL DEF Spec, SentInOrder

-----------------------------------------------------------------------------
(* What every channel's proof uses                                          *)

LEMMA IdTypes ==
  ASSUME Types
  PROVE  /\ Cardinality(Ids) \in Nat /\ Ids \subseteq Nat
         /\ Len(shape) \in Nat /\ Posted = 1..Len(shape) /\ Posted \subseteq Ids
  <1>1. IsFiniteSet(Ids) /\ Ids = 1..Cardinality(Ids)
    BY BusAssumption
  <1>2. Cardinality(Ids) \in Nat
    BY <1>1, FS_CardinalityType
  <1>3. Len(shape) \in Nat /\ Posted = 1..Len(shape) /\ Len(shape) <= Cardinality(Ids)
    BY DEF Types, Posted
  <1> QED BY <1>1, <1>2, <1>3

LEMMA CountTypes ==
  ASSUME Types
  PROVE  \A k \in Ids : handling[k] \in Nat /\ times[k] \in Nat /\ times[k] <= 2 /\ left[k] \in Nat
  <1>1. left \in [Ids -> Nat] /\ handling \in [Ids -> Nat] /\ times \in [Ids -> 0..2]
    BY DEF Types
  <1> QED BY <1>1

LEMMA NextCountTypes ==
  ASSUME Types'
  PROVE  \A k \in Ids : handling'[k] \in Nat /\ times'[k] \in Nat
  <1>1. handling' \in [Ids -> Nat] /\ times' \in [Ids -> 0..2]
    BY DEF Types
  <1> QED BY <1>1

\* How often a message is in a batch.
LEMMA CountType ==
  ASSUME NEW S, NEW s \in Seq(S), NEW m
  PROVE  /\ Cardinality({i \in DOMAIN s : s[i] = m}) \in Nat
         /\ Cardinality({i \in DOMAIN s : s[i] = m}) > 0 <=> \E i \in DOMAIN s : s[i] = m
         /\ Unique(s, m) => Cardinality({i \in DOMAIN s : s[i] = m}) <= 1
  <1> DEFINE at == {i \in DOMAIN s : s[i] = m}
  <1>1. IsFiniteSet(at)
    <2>1. DOMAIN s = 1..Len(s) /\ Len(s) \in Nat
      OBVIOUS
    <2>2. IsFiniteSet(1..Len(s))
      BY <2>1, FS_Interval
    <2> QED BY <2>1, <2>2, FS_Subset
  <1>2. Cardinality(at) \in Nat /\ (Cardinality(at) = 0 <=> at = {})
    BY <1>1, FS_CardinalityType, FS_EmptySet
  <1>3. ASSUME Unique(s, m) PROVE Cardinality(at) <= 1
    <2>1. CASE at = {}
      BY <1>2, <2>1
    <2>2. CASE at # {}
      <3>1. PICK i \in at : TRUE
        BY <2>2
      <3>2. at = {i}
        BY <1>3, <3>1 DEF Unique
      <3>3. Cardinality({i}) = 1
        BY FS_Singleton
      <3> HIDE DEF at
      <3> QED BY <3>2, <3>3
    <2> QED BY <2>1, <2>2
  <1> QED BY <1>2, <1>3

\* One message on the bus more.
LEMMA PublishOne ==
  ASSUME times \in [Ids -> 0..2], NEW m \in Ids, Publish(<<m>>)
  PROVE  /\ times' \in [Ids -> 0..2]
         /\ \A k \in Ids : k # m => times'[k] = times[k]
         /\ ~Allowed(m) => times' = times /\ inbound' = inbound
         /\ Allowed(m) => /\ times'[m] > 0 /\ (times[m] = 0 => times'[m] = 1)
                          /\ inbound' = Append(inbound, <<m>>)
  <1> DEFINE count(k) == Cardinality({i \in DOMAIN <<m>> : <<m>>[i] = k})
  <1>1. <<m>> \in Seq(Ids) /\ DOMAIN <<m>> = {1} /\ <<m>>[1] = m /\ <<m>>[Len(<<m>>)] = m
    OBVIOUS
  <1>2. \A k \in Ids : count(k) = IF k = m THEN 1 ELSE 0
    <2> SUFFICES ASSUME NEW k \in Ids PROVE count(k) = IF k = m THEN 1 ELSE 0
      OBVIOUS
    <2>1. CASE k = m
      <3>1. {i \in DOMAIN <<m>> : <<m>>[i] = k} = {1}
        BY <1>1, <2>1
      <3> QED BY <2>1, <3>1, FS_Singleton
    <2>2. CASE k # m
      <3>1. {i \in DOMAIN <<m>> : <<m>>[i] = k} = {}
        BY <1>1, <2>2
      <3> QED BY <2>2, <3>1, FS_EmptySet
    <2> QED BY <2>1, <2>2
  <1>3. CASE Allowed(m)
    <2>1. times' = [k \in Ids |-> Counted(times[k], count(k))] /\ inbound' = Append(inbound, <<m>>)
      BY <1>1, <1>3 DEF Publish
    <2> HIDE DEF count
    <2> QED BY <1>2, <1>3, <2>1 DEF Counted
  <1>4. CASE ~Allowed(m)
    BY <1>1, <1>4 DEF Publish
  <1> QED BY <1>3, <1>4

\* The end of a pause: all that was held back goes out as one batch.
LEMMA PublishAll ==
  ASSUME times \in [Ids -> 0..2], buffer \in Seq(Ids), Publish(buffer)
  PROVE  /\ times' \in [Ids -> 0..2]
         /\ ~Allowed(buffer[Len(buffer)]) => times' = times /\ inbound' = inbound
         /\ Allowed(buffer[Len(buffer)]) =>
              /\ inbound' = Append(inbound, buffer)
              /\ \A k \in Ids :
                   /\ ~InBuffer(k) => times'[k] = times[k]
                   /\ InBuffer(k) => times'[k] > 0
                   /\ times[k] = 0 /\ Unique(buffer, k) => times'[k] <= 1
  <1> DEFINE count(k) == Cardinality({i \in DOMAIN buffer : buffer[i] = k})
  <1>1. \A k \in Ids : /\ count(k) \in Nat /\ (count(k) > 0 <=> InBuffer(k))
                       /\ Unique(buffer, k) => count(k) <= 1
    BY CountType DEF InBuffer
  <1>2. CASE Allowed(buffer[Len(buffer)])
    <2>1. times' = [k \in Ids |-> Counted(times[k], count(k))] /\ inbound' = Append(inbound, buffer)
      BY <1>2 DEF Publish
    <2> HIDE DEF count
    <2>2. ASSUME NEW k \in Ids
          PROVE  /\ times'[k] \in 0..2
                 /\ ~InBuffer(k) => times'[k] = times[k]
                 /\ InBuffer(k) => times'[k] > 0
                 /\ times[k] = 0 /\ Unique(buffer, k) => times'[k] <= 1
      <3>1. times'[k] = Counted(times[k], count(k)) /\ times[k] \in 0..2
        BY <2>1
      <3>2. /\ count(k) \in Nat /\ (count(k) > 0 <=> InBuffer(k))
            /\ Unique(buffer, k) => count(k) <= 1
        BY <1>1
      <3> QED BY <3>1, <3>2 DEF Counted
    <2> QED BY <1>2, <2>1, <2>2
  <1>3. CASE ~Allowed(buffer[Len(buffer)])
    BY <1>3 DEF Publish
  <1> QED BY <1>2, <1>3

LEMMA SameLooks ==
  ASSUME UNCHANGED <<config, shape>>
  PROVE  /\ Posted' = Posted
         /\ \A m : /\ Allowed(m)' <=> Allowed(m)
                   /\ Wanted(m)' <=> Wanted(m)
                   /\ Chat(m)' = Chat(m)
                   /\ InSession(m)' <=> InSession(m)
  BY DEF Posted, Allowed, Wanted, Chat, InSession

-----------------------------------------------------------------------------
(* Telegram, Discord, Matrix: a message comes once                          *)

LEMMA OnceSame ==
  ASSUME Types, OnceOK, UNCHANGED <<config, service, intake, ghosts>>
  PROVE  Types' /\ OnceOK'
  BY DEF Types, OnceOK, InBuffer, Known, Allowed, Wanted, Underway, Chat, Posted

\* A handler takes m, to drop it or to wait for something.
LEMMA OnceTaken ==
  ASSUME Types, OnceOK, UNCHANGED <<config, seen, buffer, timer, ghosts>>,
         NEW m \in Ids, Deliver(m),
         handling' \in [Ids -> Nat], \A k \in Ids : k # m => handling'[k] = handling[k],
         handling'[m] <= (IF enabled = "matrix" THEN 2 ELSE 1),
         handling'[m] > 0 => enabled = "telegram" \/ Allowed(m),
         handling'[m] = 0 => ~Wanted(m)
  PROVE  Types' /\ OnceOK'
  <1>1. /\ UNCHANGED <<config, shape>> /\ m \in Posted
        /\ left' = [left EXCEPT ![m] = @ - 1] /\ left[m] > 0
    BY DEF Deliver
  <1>2. left \in [Ids -> Nat] /\ left[m] = 1 /\ handling[m] = 0 /\ ~InBuffer(m) /\ times[m] = 0
    BY <1>1 DEF Types, OnceOK
  <1>3. /\ left' \in [Ids -> Nat] /\ left'[m] = 0
        /\ \A k \in Ids : k # m => left'[k] = left[k]
    BY <1>1, <1>2
  <1>4. /\ Posted' = Posted
        /\ \A k : (Allowed(k)' <=> Allowed(k)) /\ (Wanted(k)' <=> Wanted(k)) /\ Chat(k)' = Chat(k)
    BY <1>1, SameLooks
  <1>5. \A k : (InBuffer(k)' <=> InBuffer(k)) /\ (Known(k)' <=> Known(k))
    BY DEF InBuffer, Known
  <1>6. Types'
    BY <1>1, <1>3, <1>4, <1>5 DEF Types
  <1>7. ASSUME NEW k \in Ids
        PROVE  /\ left'[k] <= 1 /\ handling'[k] <= 2 /\ times'[k] <= 1
               /\ k \notin Posted => left'[k] = 1
               /\ left'[k] = 1 => handling'[k] = 0 /\ ~InBuffer(k) /\ times'[k] = 0
               /\ handling'[k] > 0 => ~InBuffer(k) /\ times'[k] = 0
               /\ enabled # "matrix" => handling'[k] <= 1
               /\ InBuffer(k) => times'[k] = 0
               /\ enabled # "telegram" /\ handling'[k] > 0 => Allowed(k)
               /\ k \in Posted /\ Wanted(k) /\ left'[k] = 0 =>
                    times'[k] > 0 \/ handling'[k] > 0 \/ InBuffer(k) \/ k \in gone'
    <2>1. CASE k = m
      BY <1>1, <1>2, <1>3, <2>1
    <2>2. CASE k # m
      BY <1>3, <2>2 DEF OnceOK, Underway
    <2> QED BY <2>1, <2>2
  <1> QED BY <1>1, <1>4, <1>5, <1>6, <1>7 DEF OnceOK, Underway

\* m goes out, at once or after its handler waited.
LEMMA OncePublishes ==
  ASSUME Types, OnceOK, UNCHANGED <<config, seen, buffer, timer, gone, again>>, NEW m \in Ids,
         \/ Deliver(m) /\ UNCHANGED handling
         \/ handling[m] = 1 /\ Leaves(m) /\ UNCHANGED service,
         Publish(<<m>>)
  PROVE  Types' /\ OnceOK'
  <1>1. /\ UNCHANGED <<config, shape>> /\ m \in Posted /\ left \in [Ids -> Nat]
        /\ handling \in [Ids -> Nat] /\ times \in [Ids -> 0..2]
    BY DEF Deliver, Types
  <1>2. ~InBuffer(m) /\ times[m] = 0
    BY <1>1 DEF OnceOK, Deliver
  <1>3. /\ left' \in [Ids -> Nat] /\ left'[m] = 0
        /\ \A k \in Ids : k # m => left'[k] = left[k]
    BY <1>1 DEF OnceOK, Deliver
  <1>4. /\ Posted' = Posted
        /\ \A k : (Allowed(k)' <=> Allowed(k)) /\ (Wanted(k)' <=> Wanted(k)) /\ Chat(k)' = Chat(k)
    BY <1>1, SameLooks
  <1>5. \A k : (InBuffer(k)' <=> InBuffer(k)) /\ (Known(k)' <=> Known(k))
    BY DEF InBuffer, Known
  <1>6. /\ handling' \in [Ids -> Nat] /\ handling'[m] = 0
        /\ \A k \in Ids : k # m => handling'[k] = handling[k]
    BY <1>1 DEF OnceOK, Deliver, Leaves
  <1>7. /\ times' \in [Ids -> 0..2] /\ times'[m] <= 1 /\ (Allowed(m) => times'[m] = 1)
        /\ \A k \in Ids : k # m => times'[k] = times[k]
    <2>1. /\ times' \in [Ids -> 0..2] /\ \A k \in Ids : k # m => times'[k] = times[k]
          /\ ~Allowed(m) => times' = times
          /\ Allowed(m) => (times[m] = 0 => times'[m] = 1)
      BY <1>1, PublishOne
    <2> QED BY <1>2, <2>1
  <1>8. Types'
    BY <1>1, <1>3, <1>4, <1>5, <1>6, <1>7 DEF Types
  <1>9. ASSUME NEW k \in Ids
        PROVE  /\ left'[k] <= 1 /\ handling'[k] <= 2 /\ times'[k] <= 1
               /\ k \notin Posted => left'[k] = 1
               /\ left'[k] = 1 => handling'[k] = 0 /\ ~InBuffer(k) /\ times'[k] = 0
               /\ handling'[k] > 0 => ~InBuffer(k) /\ times'[k] = 0
               /\ enabled # "matrix" => handling'[k] <= 1
               /\ InBuffer(k) => times'[k] = 0
               /\ enabled # "telegram" /\ handling'[k] > 0 => Allowed(k)
               /\ k \in Posted /\ Wanted(k) /\ left'[k] = 0 =>
                    times'[k] > 0 \/ handling'[k] > 0 \/ InBuffer(k) \/ k \in gone'
    <2>1. CASE k = m
      BY <1>1, <1>2, <1>3, <1>6, <1>7, <2>1 DEF Wanted
    <2>2. CASE k # m
      BY <1>3, <1>6, <1>7, <2>2 DEF OnceOK, Underway
    <2> QED BY <2>1, <2>2
  <1> QED BY <1>1, <1>4, <1>5, <1>8, <1>9 DEF OnceOK, Underway

\* A part of an album waits for the others.
LEMMA OnceHeld ==
  ASSUME Types, OnceOK, enabled = "telegram",
         UNCHANGED <<config, service, seen, times, gone, again>>, NEW m \in Ids,
         handling[m] > 0, Leaves(m), SameAlbum(m), buffer' = Append(buffer, m), timer' = TRUE
  PROVE  Types' /\ OnceOK'
  <1>1. /\ m \in Posted /\ handling \in [Ids -> Nat] /\ buffer \in Seq(Ids)
        /\ ~InBuffer(m) /\ times[m] = 0 /\ handling[m] = 1 /\ left[m] # 1
    BY DEF Types, OnceOK
  <1>2. /\ buffer' \in Seq(Ids) /\ buffer' # <<>> /\ DOMAIN buffer' = 1..Len(buffer) + 1
        /\ DOMAIN buffer = 1..Len(buffer) /\ Len(buffer) \in Nat
        /\ \A i \in DOMAIN buffer : buffer'[i] = buffer[i]
        /\ buffer'[Len(buffer) + 1] = m
    BY <1>1
  <1>3. /\ Posted' = Posted
        /\ \A k : (Allowed(k)' <=> Allowed(k)) /\ (Wanted(k)' <=> Wanted(k)) /\ Chat(k)' = Chat(k)
    BY SameLooks
  <1>4. \A k : Known(k)' <=> Known(k)
    BY DEF Known
  <1>5. \A k : InBuffer(k)' <=> InBuffer(k) \/ k = m
    BY <1>2 DEF InBuffer
  <1>6. /\ handling' \in [Ids -> Nat] /\ handling'[m] = 0
        /\ \A k \in Ids : k # m => handling'[k] = handling[k]
    BY <1>1 DEF Leaves
  <1>7. Types'
    BY <1>1, <1>2, <1>3, <1>4, <1>5, <1>6 DEF Types
  <1>8. ASSUME NEW i \in DOMAIN buffer', NEW j \in DOMAIN buffer'
        PROVE  /\ buffer'[i] = buffer'[j] => i = j
               /\ Chat(buffer'[i]) = Chat(buffer'[j]) /\ shape[buffer'[i]].from = shape[buffer'[j]].from
    <2>1. /\ \A a, b \in DOMAIN buffer :
               /\ buffer[a] = buffer[b] => a = b
               /\ Chat(buffer[a]) = Chat(buffer[b]) /\ shape[buffer[a]].from = shape[buffer[b]].from
          /\ \A a \in DOMAIN buffer :
               buffer[a] # m /\ Chat(buffer[a]) = Chat(m) /\ shape[buffer[a]].from = shape[m].from
      BY <1>1 DEF OnceOK, SameAlbum, InBuffer
    <2>2. (i \in DOMAIN buffer \/ i = Len(buffer) + 1) /\ (j \in DOMAIN buffer \/ j = Len(buffer) + 1)
      BY <1>2
    <2> QED BY <1>2, <2>1, <2>2
  <1>9. \A k \in Ids : k # m => Underway(k)' = Underway(k)
    BY <1>5, <1>6 DEF Underway
  <1>10. ASSUME NEW i \in DOMAIN buffer', NEW j \in DOMAIN buffer'
         PROVE  /\ buffer'[i] = buffer'[j] => i = j
                /\ (Chat(buffer[i]) = Chat(buffer[j]))' /\ shape'[buffer'[i]].from = shape'[buffer'[j]].from
    BY <1>3, <1>8
  <1>11. ASSUME NEW k \in Ids
         PROVE  /\ left'[k] <= 1 /\ handling'[k] <= 2 /\ times'[k] <= 1
                /\ k \notin Posted' => left'[k] = 1
                /\ left'[k] = 1 => handling'[k] = 0 /\ ~InBuffer(k)' /\ times'[k] = 0
                /\ handling'[k] > 0 => ~InBuffer(k)' /\ times'[k] = 0
                /\ handling'[k] <= 1
                /\ InBuffer(k)' => times'[k] = 0
                /\ k \in Posted' /\ Wanted(k)' /\ left'[k] = 0 => times'[k] > 0 \/ Underway(k)' \/ k \in gone'
    <2>1. left' = left /\ times' = times /\ gone' = gone
      OBVIOUS
    <2>2. CASE k = m
      <3>1. InBuffer(k)' /\ handling'[k] = 0 /\ Underway(k)'
        BY <1>5, <1>6, <2>2 DEF Underway
      <3>2. left[k] <= 1 /\ times[k] = 0 /\ left[k] # 1 /\ k \in Posted
        BY <1>1, <2>2 DEF OnceOK
      <3> QED BY <1>3, <2>1, <3>1, <3>2
    <2>3. CASE k # m
      <3>1. (InBuffer(k)' <=> InBuffer(k)) /\ handling'[k] = handling[k] /\ (Underway(k)' <=> Underway(k))
        BY <1>5, <1>6, <1>9, <2>3
      <3> QED BY <1>3, <2>1, <3>1 DEF OnceOK
    <2> QED BY <2>2, <2>3
  <1>12. enabled' = enabled /\ enabled' = "telegram"
    OBVIOUS
  <1>13. OnceOK'
    BY <1>10, <1>11, <1>12 DEF OnceOK
  <1> QED BY <1>7, <1>13

\* The album goes out; it has one sender.
LEMMA OnceFlushed ==
  ASSUME Types, OnceOK, UNCHANGED <<config, service, seen, handling, gone, again>>,
         timer, timer' = FALSE, buffer' = <<>>, Publish(buffer)
  PROVE  Types' /\ OnceOK'
  <1>1. /\ buffer \in Seq(Ids) /\ buffer # <<>> /\ times \in [Ids -> 0..2]
        /\ Len(buffer) \in DOMAIN buffer
    BY DEF Types
  <1>2. /\ Posted' = Posted
        /\ \A k : (Allowed(k)' <=> Allowed(k)) /\ (Wanted(k)' <=> Wanted(k)) /\ Chat(k)' = Chat(k)
    BY SameLooks
  <1>3. \A k : (Known(k)' <=> Known(k)) /\ ~InBuffer(k)'
    BY DEF Known, InBuffer
  <1>4. \A k \in Ids : InBuffer(k) =>
          /\ times[k] = 0 /\ Unique(buffer, k) /\ handling[k] = 0 /\ left[k] # 1
          /\ Allowed(k) <=> Allowed(buffer[Len(buffer)])
    BY <1>1 DEF OnceOK, InBuffer, Unique, Allowed, Types
  <1>5. times' \in [Ids -> 0..2]
    BY <1>1, PublishAll
  <1>6. \A k \in Ids : /\ ~InBuffer(k) => times'[k] = times[k]
                       /\ InBuffer(k) => times'[k] <= 1 /\ (Allowed(k) => times'[k] > 0)
    BY <1>1, <1>4, PublishAll
  <1>7. Types'
    <2>1. <<>> \in Seq(Ids)
      OBVIOUS
    <2> QED BY <1>2, <1>3, <1>5, <2>1 DEF Types
  <1>8. ASSUME NEW k \in Ids
        PROVE  /\ times'[k] <= 1
               /\ left[k] = 1 => times'[k] = 0
               /\ handling[k] > 0 => times'[k] = 0
               /\ k \in Posted /\ Wanted(k) /\ left[k] = 0 => times'[k] > 0 \/ handling[k] > 0 \/ k \in gone
    BY <1>4, <1>6 DEF OnceOK, Underway, Wanted
  <1> QED BY <1>2, <1>3, <1>7, <1>8 DEF OnceOK, Underway

\* What was posted before the channel came up is given up.
LEMMA OnceStarts ==
  ASSUME Types, OnceOK, FreshStart, UNCHANGED <<config, intake, times, again>>
  PROVE  Types' /\ OnceOK'
  <1>1. /\ left \in [Ids -> Nat] /\ UNCHANGED <<config, shape>>
        /\ left' = [m \in Ids |-> IF m \in Posted THEN 0 ELSE left[m]]
        /\ gone' = gone \union {m \in Posted : left[m] > 0}
    BY DEF Types, FreshStart
  <1>2. /\ Posted' = Posted
        /\ \A k : (Allowed(k)' <=> Allowed(k)) /\ (Wanted(k)' <=> Wanted(k)) /\ Chat(k)' = Chat(k)
    BY <1>1, SameLooks
  <1>3. \A k : (Known(k)' <=> Known(k)) /\ (InBuffer(k)' <=> InBuffer(k))
    BY DEF Known, InBuffer
  <1>4. Types'
    BY <1>1, <1>2, <1>3 DEF Types
  <1>5. ASSUME NEW k \in Ids
        PROVE  /\ left'[k] <= 1 /\ (k \notin Posted => left'[k] = 1)
               /\ left'[k] = 1 => left[k] = 1
               /\ k \in Posted /\ Wanted(k) /\ left'[k] = 0 => times[k] > 0 \/ Underway(k) \/ k \in gone'
    BY <1>1 DEF OnceOK, Types
  <1> QED BY <1>1, <1>2, <1>3, <1>4, <1>5 DEF OnceOK, Underway

-----------------------------------------------------------------------------
(* A new message, and the end of the channel                                *)

LEMMA Posting ==
  ASSUME Types, NEW s \in Shapes, Post(s)
  PROVE  /\ Types'
         /\ \E new \in Ids :
              /\ new \notin Posted /\ Posted' = Posted \union {new} /\ new = Len(shape')
              /\ Len(shape') = Len(shape) + 1
         /\ \A k \in Posted :
              /\ shape'[k] = shape[k]
              /\ Allowed(k)' <=> Allowed(k)
              /\ Wanted(k)' <=> Wanted(k)
              /\ Chat(k)' = Chat(k)
              /\ InSession(k)' <=> InSession(k)
         /\ \A k : (InBuffer(k)' <=> InBuffer(k)) /\ (Known(k)' <=> Known(k)) /\ (Underway(k)' <=> Underway(k))
  <1> DEFINE new == Len(shape) + 1
  <1>1. /\ shape \in Seq(Shapes) /\ shape' = Append(shape, s) /\ Len(shape) < Cardinality(Ids)
        /\ UNCHANGED <<config, left, intake, ghosts>>
    BY DEF Post, Types
  <1>2. /\ shape' \in Seq(Shapes) /\ Len(shape') = new /\ Posted' = Posted \union {new}
        /\ new \notin Posted /\ \A k \in Posted : shape'[k] = shape[k]
    BY <1>1, IdTypes DEF Posted
  <1>3. new \in Ids /\ Len(shape') <= Cardinality(Ids)
    BY <1>1, <1>2, IdTypes, BusAssumption
  <1>4. \A k : (InBuffer(k)' <=> InBuffer(k)) /\ (Known(k)' <=> Known(k)) /\ (Underway(k)' <=> Underway(k))
    BY <1>1 DEF InBuffer, Known, Underway
  <1>5. Types'
    BY <1>1, <1>2, <1>3, <1>4 DEF Types
  <1>6. \A k \in Posted : /\ Allowed(k)' <=> Allowed(k)
                          /\ Wanted(k)' <=> Wanted(k)
                          /\ Chat(k)' = Chat(k)
                          /\ InSession(k)' <=> InSession(k)
    BY <1>1, <1>2 DEF Allowed, Wanted, Chat, InSession
  <1> QED BY <1>2, <1>3, <1>4, <1>5, <1>6

LEMMA Stopping ==
  ASSUME Types, NEW held, Stopped(held)
  PROVE  /\ Types' /\ UNCHANGED <<config, shape, left, seen, times, again>> /\ buffer' = <<>>
         /\ handling' = [m \in Ids |-> 0] /\ gone \subseteq gone' /\ held \subseteq gone'
         /\ \A k : (Known(k)' <=> Known(k)) /\ ~InBuffer(k)'
         /\ \A k \in Ids : Underway(k) => k \in gone'
  <1>1. /\ UNCHANGED <<config, shape, left, seen, times, again>> /\ buffer' = <<>> /\ timer' = FALSE
        /\ handling' = [m \in Ids |-> 0]
        /\ gone' = gone \union held \union {m \in Ids : handling[m] > 0}
                      \union {buffer[i] : i \in DOMAIN buffer}
    BY DEF Stopped
  <1>2. \A k : (Known(k)' <=> Known(k)) /\ ~InBuffer(k)'
    BY <1>1 DEF Known, InBuffer
  <1>3. \A k \in Ids : Underway(k) => k \in gone'
    BY <1>1 DEF Underway, InBuffer
  <1>4. Posted' = Posted /\ <<>> \in Seq(Ids)
    BY <1>1 DEF Posted
  <1>5. Types'
    <2>1. handling' \in [Ids -> Nat] /\ \A m \in Ids : handling'[m] = 0
      BY <1>1
    <2>2. timer' \in BOOLEAN /\ (timer' <=> buffer' # <<>>) /\ buffer' \in Seq(Ids)
      BY <1>1, <1>4
    <2>3. \A m \in Ids : handling'[m] > 0 => m \in Posted
      BY <2>1
    <2> QED BY <1>1, <1>2, <1>4, <2>1, <2>2, <2>3 DEF Types
  <1> QED BY <1>1, <1>2, <1>3, <1>5

LEMMA OncePosted ==
  ASSUME Types, OnceOK, NEW s \in Shapes, Post(s)
  PROVE  OnceOK'
  <1>1. UNCHANGED <<config, left, intake, ghosts>>
    BY DEF Post
  <1>2. \A k \in Ids : (handling[k] > 0 \/ InBuffer(k)) => k \in Posted
    BY DEF Types
  <1>3. \A i \in DOMAIN buffer : buffer[i] \in Posted
    BY DEF Types, InBuffer
  <1>4. PICK new \in Ids : new \notin Posted /\ Posted' = Posted \union {new}
    BY Posting
  <1>5. left[new] = 1
    BY <1>4 DEF OnceOK
  <1> QED BY <1>1, <1>2, <1>3, <1>4, <1>5, Posting DEF OnceOK

LEMMA OnceStopped ==
  ASSUME Types, OnceOK, Stopped({})
  PROVE  OnceOK'
  <1>1. Posted' = Posted /\ \A k : (Allowed(k)' <=> Allowed(k)) /\ (Wanted(k)' <=> Wanted(k))
    BY Stopping, SameLooks
  <1>2. \A k \in Ids : handling'[k] = 0
    BY Stopping
  <1> QED BY <1>1, <1>2, Stopping DEF OnceOK, Underway

LEMMA TelegramStep ==
  ASSUME Types, OnceOK, enabled = "telegram", TelegramNext
  PROVE  Types' /\ OnceOK'
  <1>1. CASE TelegramUp
    BY <1>1, OnceStarts DEF TelegramUp
  <1>2. CASE TelegramFlush
    BY <1>2, OnceFlushed DEF TelegramFlush
  <1>3. CASE TelegramSend
    BY <1>3, OnceSame DEF TelegramSend
  <1>4. ASSUME NEW m \in Ids, TelegramText(m) PROVE Types' /\ OnceOK'
    BY <1>4, OncePublishes DEF TelegramText, TelegramForward
  <1>5. ASSUME NEW m \in Ids, TelegramCommand(m) PROVE Types' /\ OnceOK'
    BY <1>5, OncePublishes DEF TelegramCommand
  <1>6. ASSUME NEW m \in Ids, TelegramMedia(m) PROVE Types' /\ OnceOK'
    <2>1. Deliver(m) /\ UNCHANGED <<config, seen, buffer, timer, ghosts>> /\ ~Handling
      BY <1>6 DEF TelegramMedia
    <2>2. handling \in [Ids -> Nat] /\ handling[m] = 0
      BY <2>1 DEF Types, Handling
    <2>3. /\ handling' \in [Ids -> Nat] /\ handling'[m] = 1
          /\ \A k \in Ids : k # m => handling'[k] = handling[k]
      BY <1>6, <2>2 DEF TelegramMedia, Enters
    <2> QED BY <2>1, <2>3, OnceTaken
  <1>7. ASSUME NEW m \in Ids, NEW album \in BOOLEAN, TelegramDownloaded(m, album)
        PROVE  Types' /\ OnceOK'
    <2>1. handling[m] = 1 /\ handling[m] > 0
      BY <1>7 DEF TelegramDownloaded, OnceOK, Types
    <2>2. CASE album
      BY <1>7, <2>1, <2>2, OnceHeld DEF TelegramDownloaded, TelegramForward
    <2>3. CASE ~album
      BY <1>7, <2>1, <2>3, OncePublishes DEF TelegramDownloaded, TelegramForward
    <2> QED BY <2>2, <2>3
  <1> QED BY <1>1, <1>2, <1>3, <1>4, <1>5, <1>6, <1>7 DEF TelegramNext

LEMMA DiscordStep ==
  ASSUME Types, OnceOK, enabled = "discord", DiscordNext
  PROVE  Types' /\ OnceOK'
  <1>1. CASE DiscordReady
    BY <1>1, OnceStarts DEF DiscordReady
  <1>2. CASE DiscordReconnect \/ DiscordSend
    BY <1>2, OnceSame DEF DiscordReconnect, DiscordSend
  <1>3. ASSUME NEW m \in Ids, DiscordText(m) PROVE Types' /\ OnceOK'
    <2>1. CASE DiscordWants(m)
      BY <1>3, <2>1, OncePublishes DEF DiscordText, DiscordForward
    <2>2. CASE ~DiscordWants(m)
      <3>1. Deliver(m) /\ ~Handling /\ UNCHANGED <<config, intake, ghosts>>
        BY <1>3, <2>2 DEF DiscordText
      <3>2. handling \in [Ids -> Nat] /\ handling[m] = 0 /\ ~Wanted(m)
        BY <2>2, <3>1 DEF Types, Handling, DiscordWants, Wanted
      <3> QED BY <3>1, <3>2, OnceTaken
    <2> QED BY <2>1, <2>2
  <1>4. ASSUME NEW m \in Ids, DiscordMedia(m) PROVE Types' /\ OnceOK'
    <2>1. Deliver(m) /\ ~Handling /\ UNCHANGED <<config, seen, buffer, timer, ghosts>> /\ Allowed(m)
      BY <1>4 DEF DiscordMedia, DiscordWants
    <2>2. handling \in [Ids -> Nat] /\ handling[m] = 0
      BY <2>1 DEF Types, Handling
    <2>3. /\ handling' \in [Ids -> Nat] /\ handling'[m] = 1
          /\ \A k \in Ids : k # m => handling'[k] = handling[k]
      BY <1>4, <2>2 DEF DiscordMedia, Enters
    <2> QED BY <2>1, <2>3, OnceTaken
  <1>5. ASSUME NEW m \in Ids, DiscordDownloaded(m) PROVE Types' /\ OnceOK'
    <2>1. handling[m] = 1
      BY <1>5 DEF DiscordDownloaded, OnceOK, Types
    <2> QED BY <1>5, <2>1, OncePublishes DEF DiscordDownloaded, DiscordForward
  <1> QED BY <1>1, <1>2, <1>3, <1>4, <1>5 DEF DiscordNext

LEMMA MatrixStep ==
  ASSUME Types, OnceOK, enabled = "matrix", MatrixNext
  PROVE  Types' /\ OnceOK'
  <1>1. CASE MatrixUp \/ MatrixSyncFails \/ MatrixSend \/ MatrixUntyped
    BY <1>1, OnceSame DEF MatrixUp, MatrixSyncFails, MatrixSend, MatrixUntyped
  <1>2. ASSUME NEW m \in Ids, MatrixIgnore(m) \/ MatrixText(m) \/ MatrixMedia(m)
        PROVE  Types' /\ OnceOK'
    <2>1. Deliver(m) /\ ~Handling /\ UNCHANGED <<config, seen, buffer, timer, ghosts>>
      BY <1>2 DEF MatrixIgnore, MatrixText, MatrixMedia
    <2>2. handling \in [Ids -> Nat] /\ handling[m] = 0
      BY <2>1 DEF Types, Handling
    <2>3. \/ ~MatrixWants(m) /\ handling' = handling
          \/ MatrixWants(m) /\ \E h \in 1..2 : handling' = [handling EXCEPT ![m] = h]
      BY <1>2 DEF MatrixIgnore, MatrixText, MatrixMedia
    <2>4. MatrixWants(m) => Allowed(m)
      BY DEF MatrixWants
    <2>5. ~MatrixWants(m) => ~Wanted(m)
      BY DEF MatrixWants, Wanted
    <2>6. /\ handling' \in [Ids -> Nat] /\ handling'[m] \in 0..2
          /\ \A k \in Ids : k # m => handling'[k] = handling[k]
          /\ handling'[m] > 0 <=> MatrixWants(m)
      BY <2>2, <2>3
    <2> QED BY <2>1, <2>4, <2>5, <2>6, OnceTaken
  <1>3. ASSUME NEW m \in Ids, MatrixFetched(m) PROVE Types' /\ OnceOK'
    <2>1. /\ handling[m] = 2 /\ handling \in [Ids -> Nat] /\ left[m] # 1
          /\ UNCHANGED <<config, service, seen, buffer, timer, ghosts>>
          /\ ~InBuffer(m) /\ times[m] = 0 /\ Allowed(m)
      BY <1>3 DEF MatrixFetched, Fetching, Types, OnceOK
    <2>2. /\ handling' \in [Ids -> Nat] /\ handling'[m] = 1
          /\ \A k \in Ids : k # m => handling'[k] = handling[k]
      BY <1>3, <2>1 DEF MatrixFetched, Leaves
    <2>3. /\ Posted' = Posted
          /\ \A k : (Allowed(k)' <=> Allowed(k)) /\ (Wanted(k)' <=> Wanted(k)) /\ Chat(k)' = Chat(k)
      BY <2>1, SameLooks
    <2>4. \A k : (InBuffer(k)' <=> InBuffer(k)) /\ (Known(k)' <=> Known(k))
      BY <2>1 DEF InBuffer, Known
    <2>5. \A k \in Ids : handling'[k] > 0 <=> handling[k] > 0
      BY <2>1, <2>2
    <2>6. Types'
      BY <2>1, <2>2, <2>3, <2>4, <2>5 DEF Types
    <2>7. ASSUME NEW k \in Ids
          PROVE  handling'[k] <= 2 /\ (left[k] = 1 => handling'[k] = 0)
      BY <2>1, <2>2 DEF OnceOK
    <2> QED BY <2>1, <2>3, <2>4, <2>5, <2>6, <2>7 DEF OnceOK, Underway
  <1>4. ASSUME NEW m \in Ids, MatrixForward(m) PROVE Types' /\ OnceOK'
    BY <1>4, OncePublishes DEF MatrixForward, Announcing
  <1>5. ASSUME NEW m \in Ids, MatrixFails(m) PROVE Types' /\ OnceOK'
    <2>1. /\ handling[m] = 2 /\ handling \in [Ids -> Nat] /\ gone' = gone \union {m}
          /\ UNCHANGED <<config, service, seen, buffer, timer, times, again>>
      BY <1>5 DEF MatrixFails, Fetching, Types
    <2>2. /\ handling' \in [Ids -> Nat] /\ handling'[m] = 0
          /\ \A k \in Ids : k # m => handling'[k] = handling[k]
      BY <1>5, <2>1 DEF MatrixFails
    <2>3. /\ Posted' = Posted
          /\ \A k : (Allowed(k)' <=> Allowed(k)) /\ (Wanted(k)' <=> Wanted(k)) /\ Chat(k)' = Chat(k)
      BY <2>1, SameLooks
    <2>4. \A k : (InBuffer(k)' <=> InBuffer(k)) /\ (Known(k)' <=> Known(k))
      BY <2>1 DEF InBuffer, Known
    <2>5. \A k \in Ids : handling'[k] > 0 => handling[k] > 0 /\ handling'[k] = handling[k]
      BY <2>1, <2>2
    <2>6. Types'
      BY <2>1, <2>2, <2>3, <2>4, <2>5 DEF Types
    <2>7. ASSUME NEW k \in Ids
          PROVE  /\ handling'[k] <= 2 /\ (left[k] = 1 => handling'[k] = 0)
                 /\ Underway(k) => Underway(k)' \/ k \in gone'
      BY <2>1, <2>2, <2>4 DEF OnceOK, Underway
    <2>8. gone \subseteq gone'
      BY <2>1
    <2> QED BY <2>1, <2>3, <2>4, <2>5, <2>6, <2>7, <2>8 DEF OnceOK, Underway
  <1> QED BY <1>1, <1>2, <1>3, <1>4, <1>5 DEF MatrixNext

-----------------------------------------------------------------------------
(* The mailbox                                                              *)

\* A uid that is ticked off is known afterwards, or nobody would recognise it.
LEMMA Ticking ==
  ASSUME Types, NEW m \in Posted, TickOff(m)
  PROVE  /\ seen' \in Seq(Ids) /\ again \subseteq again'
         /\ \A k : Known(k)' => Known(k) \/ k = m
         /\ \A k : Known(k) \/ k = m => Known(k)' \/ k \in again'
  <1> DEFINE all == {seen[i] : i \in DOMAIN seen} \union {m}
  <1>1. seen \in Seq(Ids) /\ m \in Ids /\ \A k : Known(k) \/ k = m <=> k \in all
    BY IdTypes DEF Types, Known
  <1>2. CASE Len(seen) < SeenMax
    <2>1. seen' = Append(seen, m) /\ again' = again
      BY <1>2 DEF TickOff
    <2>2. /\ seen' \in Seq(Ids) /\ DOMAIN seen' = 1..Len(seen) + 1 /\ DOMAIN seen = 1..Len(seen)
          /\ Len(seen) \in Nat /\ seen'[Len(seen) + 1] = m
          /\ \A i \in DOMAIN seen : seen'[i] = seen[i]
      BY <1>1, <2>1
    <2>3. \A k : Known(k)' <=> Known(k) \/ k = m
      BY <2>2 DEF Known
    <2> QED BY <2>1, <2>2, <2>3
  <1>3. CASE ~(Len(seen) < SeenMax)
    <2>1. PICK kept \in [1..(Cardinality(all) - Cardinality(all) \div 2) -> all] :
            seen' = kept /\ again' = again \union (all \ {kept[i] : i \in DOMAIN kept})
      BY <1>3 DEF TickOff
    <2>2. all \subseteq Ids /\ IsFiniteSet(all) /\ Cardinality(all) \in Nat
      <3>1. all \subseteq Ids
        BY <1>1
      <3>2. IsFiniteSet(all)
        BY <3>1, FS_Subset, BusAssumption
      <3> QED BY <3>1, <3>2, FS_CardinalityType
    <2> HIDE DEF all
    <2>3. Cardinality(all) - Cardinality(all) \div 2 \in Nat
      BY <2>2
    <2>4. kept \in Seq(Ids)
      <3>1. kept \in [1..(Cardinality(all) - Cardinality(all) \div 2) -> Ids]
        BY <2>1, <2>2
      <3> QED BY <2>3, <3>1, SeqDef
    <2>5. \A k : Known(k)' <=> k \in {kept[i] : i \in DOMAIN kept}
      BY <2>1 DEF Known
    <2>6. {kept[i] : i \in DOMAIN kept} \subseteq all
      BY <2>1
    <2> QED BY <1>1, <2>1, <2>4, <2>5, <2>6
  <1> QED BY <1>2, <1>3

\* What a step of the thread and the loop leaves: the mail is as it was but
\* for what the step says of it.
LEMMA MailTick ==
  ASSUME Types, MailOK, NEW m \in todo, ~Known(m), TickOff(m),
         UNCHANGED <<config, shape, handling, buffer, timer, times>>,
         left' = left \/ left' = [left EXCEPT ![m] = 0], todo' \subseteq todo,
         \/ fetched' = Append(fetched, m) /\ gone' = gone /\ poll' = "fetch"
         \/ fetched' = <<>> /\ gone' = gone \union Fetched \union {m}
  PROVE  Types' /\ MailOK'
  <1>1. m \in Posted /\ m \in Ids /\ fetched \in Seq(Ids) /\ left \in [Ids -> Nat] /\ times \in [Ids -> 0..2]
    BY IdTypes DEF MailOK, Types
  <1>2. /\ Posted' = Posted
        /\ \A k : (Allowed(k)' <=> Allowed(k)) /\ (Wanted(k)' <=> Wanted(k))
    BY SameLooks
  <1>3. /\ seen' \in Seq(Ids) /\ again \subseteq again'
        /\ \A k : Known(k)' => Known(k) \/ k = m
        /\ \A k : Known(k) \/ k = m => Known(k)' \/ k \in again'
    BY <1>1, Ticking
  <1>4. left' \in [Ids -> Nat] /\ \A k \in Ids : k # m => left'[k] = left[k]
    BY <1>1
  <1>5. \A k : InBuffer(k)' <=> InBuffer(k)
    BY DEF InBuffer
  <1>6. Types'
    BY <1>1, <1>2, <1>3, <1>4, <1>5 DEF Types
  <1>7. /\ fetched' \in Seq(Ids) /\ Fetched' \subseteq Fetched \union {m}
        /\ \A k \in Fetched \union {m} : k \in Fetched' \/ k \in gone'
        /\ gone \subseteq gone' /\ (poll' = "sleep" => fetched' = <<>>)
        /\ m \notin Fetched => Unique(fetched', m)
        /\ \A k : k # m /\ Unique(fetched, k) => Unique(fetched', k)
    <2>1. CASE fetched' = <<>>
      BY <1>1, <2>1 DEF Fetched, Unique
    <2>2. CASE fetched' = Append(fetched, m) /\ gone' = gone /\ poll' = "fetch"
      <3>1. /\ fetched' \in Seq(Ids) /\ Len(fetched) \in Nat /\ DOMAIN fetched' = 1..Len(fetched) + 1
            /\ DOMAIN fetched = 1..Len(fetched) /\ fetched'[Len(fetched) + 1] = m
            /\ \A i \in DOMAIN fetched : fetched'[i] = fetched[i]
        BY <1>1, <2>2
      <3>2. Fetched' = Fetched \union {m}
        BY <3>1 DEF Fetched
      <3>3. ASSUME m \notin Fetched PROVE Unique(fetched', m)
        BY <3>1, <3>3 DEF Fetched, Unique
      <3>4. ASSUME NEW k, k # m, Unique(fetched, k) PROVE Unique(fetched', k)
        BY <3>1, <3>4 DEF Unique
      <3> QED BY <2>2, <3>1, <3>2, <3>3, <3>4
    <2> QED BY <2>1, <2>2
  <1>8. ASSUME NEW k \in Ids
        PROVE  /\ handling[k] = 0 /\ (k \notin Posted => left'[k] = 1)
               /\ k \notin again' => /\ k \in Fetched' => Known(k)' /\ times[k] = 0 /\ Unique(fetched', k)
                                     /\ times[k] <= 1
                                     /\ times[k] > 0 => Known(k)'
               /\ k \in Posted /\ Wanted(k) /\ (left'[k] = 0 \/ Known(k)') =>
                    times[k] > 0 \/ k \in Fetched' \/ k \in gone'
    <2>1. CASE k = m
      <3>1. m \notin again => m \notin Fetched /\ times[m] = 0
        BY <1>1 DEF MailOK
      <3>2. handling[m] = 0
        BY <1>1 DEF MailOK
      <3>3. m \in Fetched' \/ m \in gone'
        BY <1>7
      <3> QED BY <1>1, <1>3, <1>7, <2>1, <3>1, <3>2, <3>3
    <2>2. CASE k # m
      BY <1>3, <1>4, <1>7, <2>2 DEF MailOK
    <2> QED BY <2>1, <2>2
  <1>9. todo' \subseteq Posted' /\ Fetched' \subseteq Posted' /\ buffer' = <<>>
    BY <1>1, <1>2, <1>7 DEF MailOK
  <1> QED BY <1>2, <1>6, <1>7, <1>8, <1>9 DEF MailOK

LEMMA MailSame ==
  ASSUME Types, MailOK, UNCHANGED <<config, service, intake, times, again>>,
         todo' \subseteq Posted,
         \/ UNCHANGED <<fetched, gone>> /\ (poll' = "sleep" => poll = "sleep")
         \/ fetched' = <<>> /\ gone' = gone \union Fetched
  PROVE  Types' /\ MailOK'
  <1>1. /\ Posted' = Posted
        /\ \A k : (Allowed(k)' <=> Allowed(k)) /\ (Wanted(k)' <=> Wanted(k))
    BY SameLooks
  <1>2. \A k : (Known(k)' <=> Known(k)) /\ (InBuffer(k)' <=> InBuffer(k))
    BY DEF Known, InBuffer
  <1>3. Types'
    BY <1>1, <1>2 DEF Types
  <1>4. fetched' \in Seq(Ids) /\ (fetched' = fetched \/ fetched' = <<>>) /\ (poll' = "sleep" => fetched' = <<>>)
    <2>1. <<>> \in Seq(Ids)
      OBVIOUS
    <2> QED BY <2>1 DEF MailOK
  <1>5. /\ Fetched' \subseteq Fetched /\ \A k \in Fetched : k \in Fetched' \/ k \in gone'
        /\ gone \subseteq gone'
        /\ \A k : Unique(fetched, k) => Unique(fetched', k)
    BY <1>4 DEF Fetched, Unique
  <1> QED BY <1>1, <1>2, <1>3, <1>4, <1>5 DEF MailOK

LEMMA MailStep ==
  ASSUME Types, MailOK, MailNext
  PROVE  Types' /\ MailOK'
  <1>1. CASE MailUp \/ MailSend
    BY <1>1, MailSame DEF MailUp, MailSend, MailOK
  <1>2. CASE MailSearch
    BY <1>2, MailSame DEF MailSearch
  <1>3. ASSUME NEW m \in Ids, MailFetch(m) PROVE Types' /\ MailOK'
    <2>1. m \in todo /\ todo' \subseteq todo /\ poll' = "fetch" /\ gone' = gone
          /\ UNCHANGED <<config, shape, handling, buffer, timer, times>>
      BY <1>3 DEF MailFetch, NextUid
    <2>2. CASE Known(m)
      <3>1. UNCHANGED <<left, seen, again, fetched>> /\ todo' \subseteq Posted
        BY <1>3, <2>1, <2>2 DEF MailFetch, MailOK
      <3> QED BY <2>1, <3>1, MailSame
    <2>3. CASE ~Known(m)
      <3>1. fetched' = Append(fetched, m) /\ TickOff(m) /\ MarkSeen(m)
        BY <1>3, <2>3 DEF MailFetch
      <3>2. left' = left \/ left' = [left EXCEPT ![m] = 0]
        BY <3>1 DEF MarkSeen
      <3> QED BY <2>1, <2>3, <3>1, <3>2, MailTick
    <2> QED BY <2>2, <2>3
  <1>4. ASSUME NEW m \in Ids, MailSkip(m) PROVE Types' /\ MailOK'
    BY <1>4, MailSame DEF MailSkip, MailOK
  <1>5. CASE MailBreaks
    <2>1. /\ UNCHANGED <<config, shape, handling, buffer, timer, times>>
          /\ fetched' = <<>> /\ todo' = {}
      BY <1>5 DEF MailBreaks
    <2>2. CASE gone' = gone \union Fetched /\ UNCHANGED <<left, seen, again>>
      BY <2>1, <2>2, MailSame
    <2>3. ASSUME NEW m \in todo, ~Known(m), gone' = gone \union Fetched \union {m}, TickOff(m),
                 left' \in {left, [left EXCEPT ![m] = 0]}
          PROVE  Types' /\ MailOK'
      BY <2>1, <2>3, MailTick
    <2> QED BY <1>5, <2>2, <2>3 DEF MailBreaks
  <1>6. CASE MailPublish
    <2>1. /\ fetched' = <<>> /\ UNCHANGED <<config, service, intake, gone, again, todo>>
          /\ times' = [m \in Ids |-> Counted(times[m],
                         Cardinality({i \in DOMAIN fetched : fetched[i] = m /\ Allowed(m)}))]
      BY <1>6 DEF MailPublish
    <2>2. /\ Posted' = Posted
          /\ \A k : (Allowed(k)' <=> Allowed(k)) /\ (Wanted(k)' <=> Wanted(k))
      BY <2>1, SameLooks
    <2>3. \A k : (Known(k)' <=> Known(k)) /\ (InBuffer(k)' <=> InBuffer(k))
      BY <2>1 DEF Known, InBuffer
    <2>4. ASSUME NEW k \in Ids
          PROVE  /\ times'[k] \in 0..2 /\ (times[k] > 0 => times'[k] > 0)
                 /\ k \notin Fetched => times'[k] = times[k]
                 /\ k \in Fetched /\ Allowed(k) => times'[k] > 0
                 /\ times[k] = 0 /\ Unique(fetched, k) => times'[k] <= 1
      <3> DEFINE count == Cardinality({i \in DOMAIN fetched : fetched[i] = k /\ Allowed(k)})
      <3>1. times'[k] = Counted(times[k], count) /\ times[k] \in 0..2 /\ fetched \in Seq(Ids)
        BY <2>1 DEF Types, MailOK
      <3>2. CASE Allowed(k)
        <4>1. count = Cardinality({i \in DOMAIN fetched : fetched[i] = k})
          BY <3>2
        <4>2. /\ count \in Nat /\ (count > 0 <=> k \in Fetched)
              /\ Unique(fetched, k) => count <= 1
          BY <3>1, <4>1, CountType DEF Fetched
        <4> HIDE DEF count
        <4> QED BY <3>1, <3>2, <4>2 DEF Counted
      <3>3. CASE ~Allowed(k)
        <4>1. count = 0
          <5>1. {i \in DOMAIN fetched : fetched[i] = k /\ Allowed(k)} = {}
            BY <3>3
          <5> QED BY <5>1, FS_EmptySet
        <4> HIDE DEF count
        <4> QED BY <3>1, <3>3, <4>1 DEF Counted
      <3> QED BY <3>2, <3>3
    <2>5. times' \in [Ids -> 0..2]
      BY <2>1, <2>4
    <2>6. Types'
      BY <2>1, <2>2, <2>3, <2>5 DEF Types
    <2>7. fetched' \in Seq(Ids) /\ Fetched' = {}
      BY <2>1 DEF Fetched
    <2>8. ASSUME NEW k \in Ids
          PROVE  /\ k \notin again => times'[k] <= 1 /\ (times'[k] > 0 => Known(k))
                 /\ k \in Posted /\ Wanted(k) /\ (left[k] = 0 \/ Known(k)) => times'[k] > 0 \/ k \in gone
      BY <2>4 DEF MailOK, Wanted
    <2> QED BY <2>1, <2>2, <2>3, <2>6, <2>7, <2>8 DEF MailOK
  <1> QED BY <1>1, <1>2, <1>3, <1>4, <1>5, <1>6 DEF MailNext

LEMMA MailPosted ==
  ASSUME Types, MailOK, UNCHANGED mailVars, NEW s \in Shapes, Post(s)
  PROVE  MailOK'
  <1>1. UNCHANGED <<config, left, intake, ghosts>> /\ Fetched' = Fetched
    BY DEF Post, Fetched
  <1>2. PICK new \in Ids : new \notin Posted /\ Posted' = Posted \union {new}
    BY Posting
  <1>3. left[new] = 1 /\ ~Known(new)
    BY <1>2 DEF MailOK, Types
  <1> QED BY <1>1, <1>2, <1>3, Posting DEF MailOK

LEMMA MailStopped ==
  ASSUME Types, MailOK, MailStop
  PROVE  MailOK'
  <1>1. Stopped(Fetched) /\ todo' = {} /\ fetched' = <<>> /\ UNCHANGED mailbox
    BY DEF MailStop
  <1>2. Posted' = Posted /\ \A k : (Allowed(k)' <=> Allowed(k)) /\ (Wanted(k)' <=> Wanted(k))
    BY <1>1, Stopping, SameLooks
  <1>3. fetched' \in Seq(Ids) /\ Fetched' = {} /\ \A k \in Ids : handling'[k] = 0
    BY <1>1, Stopping DEF Fetched
  <1> QED BY <1>1, <1>2, <1>3, Stopping DEF MailOK

-----------------------------------------------------------------------------
(* The channels whose service may push an event again                       *)

Turns(m) == handling[m] + times[m]

\* A message stays in somebody's hands, or goes out if its sender may write.
LEMMA Forwarding ==
  ASSUME Types, NEW m \in Ids, Forwards(m)
  PROVE  /\ Types' /\ UNCHANGED <<config, service, seen, buffer, gone, again, pushVars>>
         /\ \A k \in Ids : /\ Turns(k)' <= Turns(k)
                           /\ Allowed(k) /\ Given(k) => Given(k)'
                           /\ times'[k] > 0 => times[k] > 0 \/ handling[k] > 0
  <1>1. /\ UNCHANGED <<config, service, seen, buffer, timer, gone, again, pushVars>>
        /\ handling[m] > 0 /\ Leaves(m) /\ Publish(<<m>>)
        /\ handling \in [Ids -> Nat] /\ times \in [Ids -> 0..2]
    BY DEF Forwards, PushFrame, Types
  <1>2. /\ handling' \in [Ids -> Nat] /\ handling'[m] = handling[m] - 1
        /\ \A k \in Ids : k # m => handling'[k] = handling[k]
    BY <1>1 DEF Leaves
  <1>3. /\ times' \in [Ids -> 0..2] /\ times'[m] <= times[m] + 1
        /\ Allowed(m) => times'[m] > 0
        /\ \A k \in Ids : k # m => times'[k] = times[k]
    <2>1. times' = [k \in Ids |-> Counted(times[k], Cardinality({i \in DOMAIN <<m>> : <<m>>[i] = k}))]
            \/ times' = times
      BY <1>1 DEF Publish
    <2>2. Cardinality({i \in DOMAIN <<m>> : <<m>>[i] = m}) <= 1
          /\ Cardinality({i \in DOMAIN <<m>> : <<m>>[i] = m}) \in Nat
      <3>1. <<m>> \in Seq(Ids) /\ Unique(<<m>>, m)
        BY DEF Unique
      <3> QED BY <3>1, CountType
    <2>3. times'[m] <= times[m] + 1
      BY <1>1, <2>1, <2>2 DEF Counted
    <2> QED BY <1>1, <2>3, PublishOne
  <1>4. \A k : (Known(k)' <=> Known(k)) /\ (InBuffer(k)' <=> InBuffer(k))
    BY <1>1 DEF Known, InBuffer
  <1>5. Types'
    <2>1. \A k \in Ids : handling'[k] > 0 => handling[k] > 0
      BY <1>1, <1>2
    <2>2. Posted' = Posted
      BY <1>1 DEF Posted
    <2> QED BY <1>1, <1>2, <1>3, <1>4, <2>1, <2>2 DEF Types
  <1>6. ASSUME NEW k \in Ids
        PROVE  /\ Turns(k)' <= Turns(k)
               /\ Allowed(k) /\ Given(k) => Given(k)'
               /\ times'[k] > 0 => times[k] > 0 \/ handling[k] > 0
    <2>1. CASE k = m
      BY <1>1, <1>2, <1>3, <2>1 DEF Turns, Given
    <2>2. CASE k # m
      BY <1>1, <1>2, <1>3, <2>2 DEF Turns, Given
    <2> QED BY <2>1, <2>2
  <1> QED BY <1>1, <1>5, <1>6

\* An id is remembered; one that is dropped for it is noted.
LEMMA Remembering ==
  ASSUME Types, NEW m \in Posted, Remember(m)
  PROVE  /\ seen' \in Seq(Ids) /\ again \subseteq again' /\ Known(m)'
         /\ \A k : Known(k)' => Known(k) \/ k = m
         /\ \A k : Known(k) => Known(k)' \/ k \in again'
  <1>1. seen \in Seq(Ids) /\ m \in Ids /\ SeenMax \in Nat \ {0}
    BY IdTypes, BusAssumption DEF Types
  <1>2. CASE Len(seen) < SeenMax
    <2>1. seen' = Append(seen, m) /\ again' = again
      BY <1>2 DEF Remember
    <2>2. /\ seen' \in Seq(Ids) /\ DOMAIN seen' = 1..Len(seen) + 1 /\ DOMAIN seen = 1..Len(seen)
          /\ Len(seen) \in Nat /\ seen'[Len(seen) + 1] = m
          /\ \A i \in DOMAIN seen : seen'[i] = seen[i]
      BY <1>1, <2>1
    <2> QED BY <2>1, <2>2 DEF Known
  <1>3. CASE ~(Len(seen) < SeenMax)
    <2> DEFINE rest == Tail(seen)
               n == Len(seen)
    <2>1. seen' = Append(rest, m) /\ again' = again \union {Head(seen)} /\ seen # <<>>
      BY <1>1, <1>3 DEF Remember
    <2>2. /\ rest \in Seq(Ids) /\ Len(rest) = n - 1 /\ n \in Nat \ {0} /\ Head(seen) = seen[1]
          /\ DOMAIN seen = 1..n /\ \A i \in 1..(n - 1) : rest[i] = seen[i + 1]
      BY <1>1, <2>1, HeadTailProperties
    <2> HIDE DEF rest, n
    <2>3. /\ seen' \in Seq(Ids) /\ DOMAIN seen' = 1..n /\ seen'[n] = m
          /\ \A i \in 1..(n - 1) : seen'[i] = seen[i + 1]
      BY <1>1, <2>1, <2>2
    <2>4. Known(m)' /\ \A k : Known(k)' => Known(k) \/ k = m
      <3>1. n \in DOMAIN seen'
        BY <2>2, <2>3
      <3>2. \A i \in DOMAIN seen' : i = n \/ (i \in 1..(n - 1) /\ i + 1 \in DOMAIN seen)
        BY <2>2, <2>3
      <3> QED BY <2>3, <3>1, <3>2 DEF Known
    <2>5. ASSUME NEW k, Known(k) PROVE Known(k)' \/ k \in again'
      <3>1. PICK i \in DOMAIN seen : seen[i] = k
        BY <2>5 DEF Known
      <3>2. CASE i = 1
        BY <2>1, <2>2, <3>1, <3>2
      <3>3. CASE i # 1
        <4>1. i - 1 \in 1..(n - 1) /\ (i - 1) + 1 = i /\ i - 1 \in DOMAIN seen'
          BY <2>2, <2>3, <3>3
        <4>2. seen'[i - 1] = k
          BY <2>3, <3>1, <4>1
        <4> QED BY <4>1, <4>2 DEF Known
      <3> QED BY <3>2, <3>3
    <2> QED BY <2>1, <2>3, <2>4, <2>5
  <1> QED BY <1>2, <1>3

LEMMA CacheSame ==
  ASSUME Types, CacheOK, UNCHANGED <<config, service, intake, ghosts>>
  PROVE  Types' /\ CacheOK'
  BY DEF Types, CacheOK, Known, InBuffer, Given, Allowed, Wanted, Posted

\* A copy of m comes: one that is known is ignored, the first one is taken
\* into a handler or published, or comes from a bot.
LEMMA CacheTaken ==
  ASSUME Types, CacheOK, UNCHANGED <<config, buffer, timer, gone>>, NEW m \in Ids, Deliver(m),
         \/ Known(m) /\ UNCHANGED <<seen, handling, times, again>>
         \/ /\ ~Known(m) /\ Remember(m)
            /\ \/ ~Allowed(m) /\ UNCHANGED <<handling, times>>
               \/ Enters(m) /\ UNCHANGED times
               \/ Publish(<<m>>) /\ UNCHANGED handling
  PROVE  Types' /\ CacheOK'
  <1>1. /\ UNCHANGED <<config, shape>> /\ m \in Posted /\ left \in [Ids -> Nat] /\ left[m] > 0
        /\ left' = [left EXCEPT ![m] = @ - 1]
        /\ handling \in [Ids -> Nat] /\ times \in [Ids -> 0..2] /\ Copies \in Nat \ {0}
    BY BusAssumption DEF Deliver, Types
  <1>2. /\ left' \in [Ids -> Nat] /\ left'[m] = left[m] - 1
        /\ \A k \in Ids : k # m => left'[k] = left[k]
    BY <1>1
  <1>3. /\ Posted' = Posted
        /\ \A k : (Allowed(k)' <=> Allowed(k)) /\ (Wanted(k)' <=> Wanted(k))
    BY <1>1, SameLooks
  <1>4. \A k : InBuffer(k)' <=> InBuffer(k)
    BY DEF InBuffer
  <1>5. CASE Known(m) /\ UNCHANGED <<seen, handling, times, again>>
    <2>1. \A k : Known(k)' <=> Known(k)
      BY <1>5 DEF Known
    <2>2. Types'
      BY <1>1, <1>2, <1>3, <1>4, <1>5, <2>1 DEF Types
    <2>3. ASSUME NEW k \in Ids
          PROVE  /\ left'[k] <= Copies /\ (k \notin Posted => left'[k] = Copies)
                 /\ Known(k) => left'[k] < Copies
                 /\ k \in Posted /\ Wanted(k) /\ left'[k] < Copies => Given(k)
      <3>1. CASE k = m
        BY <1>1, <1>2, <1>5, <3>1 DEF CacheOK
      <3>2. CASE k # m
        BY <1>2, <3>2 DEF CacheOK
      <3> QED BY <3>1, <3>2
    <2> QED BY <1>3, <1>5, <2>1, <2>2, <2>3 DEF CacheOK, Given
  <1>6. CASE /\ ~Known(m) /\ Remember(m)
             /\ \/ ~Allowed(m) /\ UNCHANGED <<handling, times>>
                \/ Enters(m) /\ UNCHANGED times
                \/ Publish(<<m>>) /\ UNCHANGED handling
    <2>1. /\ seen' \in Seq(Ids) /\ again \subseteq again' /\ Known(m)'
          /\ \A k : Known(k)' => Known(k) \/ k = m
          /\ \A k : Known(k) => Known(k)' \/ k \in again'
      BY <1>1, <1>6, Remembering
    <2>2. m \notin again => handling[m] = 0 /\ times[m] = 0
      BY <1>6 DEF CacheOK
    <2>3. left[m] <= Copies => left'[m] < Copies
      BY <1>1, <1>2
    <2>4. left[m] <= Copies
      BY DEF CacheOK
    <2>5. /\ handling' \in [Ids -> Nat] /\ times' \in [Ids -> 0..2]
          /\ \A k \in Ids : k # m => handling'[k] = handling[k] /\ times'[k] = times[k]
          /\ handling[m] = 0 /\ times[m] = 0 => handling'[m] + times'[m] <= 1
          /\ Allowed(m) => times'[m] > 0 \/ handling'[m] > 0
      <3>1. CASE ~Allowed(m) /\ UNCHANGED <<handling, times>>
        BY <1>1, <3>1
      <3>2. CASE Enters(m) /\ UNCHANGED times
        BY <1>1, <3>2 DEF Enters
      <3>3. CASE Publish(<<m>>) /\ UNCHANGED handling
        <4>1. /\ times' \in [Ids -> 0..2] /\ \A k \in Ids : k # m => times'[k] = times[k]
              /\ ~Allowed(m) => times' = times
              /\ Allowed(m) => times'[m] > 0 /\ (times[m] = 0 => times'[m] = 1)
          BY <1>1, <3>3, PublishOne
        <4>2. handling' = handling
          BY <3>3
        <4>3. times[m] = 0 => times'[m] \in 0..1
          BY <4>1
        <4>4. handling[m] = 0 /\ times[m] = 0 => handling'[m] + times'[m] <= 1
          BY <4>2, <4>3
        <4> QED BY <1>1, <4>1, <4>2, <4>4
      <3> QED BY <1>6, <3>1, <3>2, <3>3
    <2>6. Types'
      BY <1>1, <1>2, <1>3, <1>4, <2>1, <2>5 DEF Types
    <2>7. ASSUME NEW k \in Ids
          PROVE  /\ left'[k] <= Copies /\ (k \notin Posted => left'[k] = Copies)
                 /\ Known(k)' => left'[k] < Copies
                 /\ k \notin again' => IF Known(k)' THEN handling'[k] + times'[k] <= 1
                                       ELSE handling'[k] = 0 /\ times'[k] = 0
                 /\ k \in Posted /\ Wanted(k) /\ left'[k] < Copies =>
                      times'[k] > 0 \/ handling'[k] > 0 \/ k \in gone
      <3>1. CASE k = m
        BY <1>1, <2>1, <2>2, <2>3, <2>4, <2>5, <3>1 DEF Wanted
      <3>2. CASE k # m
        BY <1>2, <2>1, <2>5, <3>2 DEF CacheOK, Given
      <3> QED BY <3>1, <3>2
    <2> QED BY <1>3, <2>6, <2>7 DEF CacheOK, Given
  <1> QED BY <1>5, <1>6

\* The steps that move no message.
PushIdle ==
  \/ FeishuUp \/ DingTalkUp \/ SlackUp \/ QQUp \/ WhatsAppUp \/ PushLost
  \/ FeishuSend \/ DingTalkSend \/ SlackSend \/ QQSend \/ WhatsAppSend

LEMMA PushIdles ==
  ASSUME PushIdle
  PROVE  UNCHANGED <<config, service, intake, ghosts, pushVars>>
  BY DEF PushIdle, FeishuUp, DingTalkUp, SlackUp, QQUp, WhatsAppUp, PushUp, PushLost,
     FeishuSend, DingTalkSend, SlackSend, QQSend, WhatsAppSend, TextSend

LEMMA CacheStep ==
  ASSUME Types, CacheOK, enabled \notin Typists \union {"email", "mochat", "slack", "dingtalk"},
         PushNext
  PROVE  Types' /\ CacheOK'
  <1>1. CASE PushIdle
    BY <1>1, PushIdles, CacheSame
  <1>2. ASSUME NEW m \in Ids, Forwards(m) PROVE Types' /\ CacheOK'
    <2>1. /\ Types' /\ UNCHANGED <<config, service, seen, buffer, gone, again>>
          /\ \A k \in Ids : /\ Turns(k)' <= Turns(k)
                            /\ Allowed(k) /\ Given(k) => Given(k)'
      BY <1>2, Forwarding
    <2>2. /\ Posted' = Posted
          /\ \A k : (Allowed(k)' <=> Allowed(k)) /\ (Wanted(k)' <=> Wanted(k)) /\ (Wanted(k) => Allowed(k))
      BY <2>1, SameLooks DEF Wanted
    <2>3. \A k : Known(k)' <=> Known(k)
      BY <2>1 DEF Known
    <2>4. \A k \in Ids : /\ handling[k] \in Nat /\ times[k] \in Nat
                         /\ handling'[k] \in Nat /\ times'[k] \in Nat
      BY <2>1, CountTypes, NextCountTypes
    <2>5. ASSUME NEW k \in Ids, k \notin again
          PROVE  IF Known(k) THEN handling'[k] + times'[k] <= 1
                             ELSE handling'[k] = 0 /\ times'[k] = 0
      BY <2>1, <2>4, <2>5 DEF CacheOK, Turns
    <2> QED BY <2>1, <2>2, <2>3, <2>5 DEF CacheOK
  <1>3. ASSUME NEW m \in Ids, FeishuFails(m) PROVE Types' /\ CacheOK'
    <2>1. /\ handling[m] > 0 /\ handling' = [handling EXCEPT ![m] = @ - 1] /\ gone' = gone \union {m}
          /\ UNCHANGED <<config, service, seen, buffer, timer, times, again>>
          /\ handling \in [Ids -> Nat] /\ times \in [Ids -> 0..2]
      BY <1>3 DEF FeishuFails, Leaves, PushFrame, Types
    <2>2. /\ Posted' = Posted
          /\ \A k : (Allowed(k)' <=> Allowed(k)) /\ (Wanted(k)' <=> Wanted(k))
      BY <2>1, SameLooks
    <2>3. \A k : (Known(k)' <=> Known(k)) /\ (InBuffer(k)' <=> InBuffer(k))
      BY <2>1 DEF Known, InBuffer
    <2>4. /\ handling' \in [Ids -> Nat] /\ handling'[m] = handling[m] - 1
          /\ \A k \in Ids : k # m => handling'[k] = handling[k]
      BY <2>1
    <2>5. Types'
      BY <2>1, <2>2, <2>3, <2>4 DEF Types
    <2>6. ASSUME NEW k \in Ids
          PROVE  /\ k \notin again => IF Known(k) THEN handling'[k] + times[k] <= 1
                                      ELSE handling'[k] = 0 /\ times[k] = 0
                 /\ Given(k) => times[k] > 0 \/ handling'[k] > 0 \/ k \in gone'
      <3>1. CASE k = m
        BY <2>1, <2>4, <3>1 DEF CacheOK
      <3>2. CASE k # m
        BY <2>1, <2>4, <3>2 DEF CacheOK, Given
      <3> QED BY <3>1, <3>2
    <2> QED BY <2>1, <2>2, <2>3, <2>5, <2>6 DEF CacheOK, Given
  <1>4. ASSUME NEW m \in Ids, FeishuEvent(m) PROVE Types' /\ CacheOK'
    <2>1. Deliver(m) /\ UNCHANGED <<config, buffer, timer, gone>>
      BY <1>4 DEF FeishuEvent, Ignore, PushFrame
    <2>2. CASE Known(m)
      BY <1>4, <2>1, <2>2, CacheTaken DEF FeishuEvent, Ignore
    <2>3. CASE ~Known(m)
      <3>1. Remember(m) /\ UNCHANGED times /\ ((~Allowed(m) /\ UNCHANGED handling) \/ Enters(m))
        BY <1>4, <2>3 DEF FeishuEvent, Allowed
      <3> QED BY <2>1, <2>3, <3>1, CacheTaken
    <2> QED BY <2>2, <2>3
  <1>5. ASSUME NEW m \in Ids, CachedEvent(m) PROVE Types' /\ CacheOK'
    <2>1. Deliver(m) /\ UNCHANGED <<config, buffer, timer, gone>>
      BY <1>5 DEF CachedEvent, Ignore, PushFrame
    <2> QED BY <1>5, <2>1, CacheTaken DEF CachedEvent, Ignore
  <1> QED BY <1>1, <1>2, <1>3, <1>4, <1>5
      DEF PushNext, PushIdle, QQMessage, BridgeMessage, DingTalkEvent, SlackMessage, SlackMention

LEMMA CachePosted ==
  ASSUME Types, CacheOK, NEW s \in Shapes, Post(s)
  PROVE  CacheOK'
  <1>1. UNCHANGED <<config, left, intake, ghosts>>
    BY DEF Post
  <1>2. PICK new \in Ids : new \notin Posted /\ Posted' = Posted \union {new}
    BY Posting
  <1>3. left[new] = Copies /\ Copies \in Nat
    BY <1>2, BusAssumption DEF CacheOK
  <1> QED BY <1>1, <1>2, <1>3, Posting DEF CacheOK, Given

LEMMA CacheStopped ==
  ASSUME Types, CacheOK, Stopped({})
  PROVE  CacheOK'
  <1>1. Posted' = Posted /\ \A k : (Allowed(k)' <=> Allowed(k)) /\ (Wanted(k)' <=> Wanted(k))
    BY Stopping, SameLooks
  <1>2. \A k \in Ids : /\ handling'[k] = 0 /\ handling[k] \in Nat /\ times[k] \in Nat
                       /\ handling[k] > 0 => k \in gone'
    BY Stopping, CountTypes DEF Underway
  <1>3. ASSUME NEW k \in Ids, k \notin again
        PROVE  IF Known(k) THEN handling'[k] + times[k] <= 1 ELSE handling'[k] = 0 /\ times[k] = 0
    BY <1>2, <1>3 DEF CacheOK
  <1>4. UNCHANGED <<left, times, again>> /\ gone \subseteq gone' /\ buffer' = <<>>
        /\ \A k : Known(k)' <=> Known(k)
    BY Stopping
  <1> QED BY <1>1, <1>2, <1>3, <1>4 DEF CacheOK, Given

-----------------------------------------------------------------------------
(* DingTalk, which has no cache                                             *)

LEMMA DingStep ==
  ASSUME Types, DingOK, enabled = "dingtalk", PushNext
  PROVE  Types' /\ DingOK'
  <1>1. CASE PushIdle
    <2>1. UNCHANGED <<config, service, intake, ghosts>>
      BY <1>1, PushIdles
    <2> QED BY <2>1 DEF Types, DingOK, Known, InBuffer, Given, Allowed, Wanted, Posted
  <1>2. ASSUME NEW m \in Ids, Forwards(m) PROVE Types' /\ DingOK'
    <2>1. /\ Types' /\ UNCHANGED <<config, service, seen, buffer, gone, again>>
          /\ \A k \in Ids : /\ Turns(k)' <= Turns(k)
                            /\ Allowed(k) /\ Given(k) => Given(k)'
      BY <1>2, Forwarding
    <2>2. /\ Posted' = Posted
          /\ \A k : (Allowed(k)' <=> Allowed(k)) /\ (Wanted(k)' <=> Wanted(k)) /\ (Wanted(k) => Allowed(k))
      BY <2>1, SameLooks DEF Wanted
    <2>3. \A k \in Ids : /\ handling[k] \in Nat /\ times[k] \in Nat
                         /\ handling'[k] \in Nat /\ times'[k] \in Nat
      BY <2>1, CountTypes, NextCountTypes
    <2>4. ASSUME NEW k \in Ids, k \notin again
          PROVE  handling'[k] + times'[k] <= (IF left[k] < Copies THEN 1 ELSE 0)
      BY <2>1, <2>3, <2>4 DEF DingOK, Turns
    <2> QED BY <2>1, <2>2, <2>4 DEF DingOK
  <1>3. ASSUME NEW m \in Ids, DingTalkEvent(m) PROVE Types' /\ DingOK'
    <2>1. /\ UNCHANGED <<config, shape, seen, buffer, timer, times, gone>> /\ m \in Posted /\ left[m] > 0
          /\ left' = [left EXCEPT ![m] = @ - 1] /\ handling' = [handling EXCEPT ![m] = @ + 1]
          /\ again' = IF left[m] < Copies THEN again \union {m} ELSE again
          /\ left \in [Ids -> Nat] /\ handling \in [Ids -> Nat] /\ times \in [Ids -> 0..2] /\ Copies \in Nat
      BY <1>3, BusAssumption DEF DingTalkEvent, Deliver, Enters, PushFrame, Types
    <2>2. /\ left' \in [Ids -> Nat] /\ handling' \in [Ids -> Nat]
          /\ left'[m] = left[m] - 1 /\ handling'[m] = handling[m] + 1
          /\ \A k \in Ids : k # m => left'[k] = left[k] /\ handling'[k] = handling[k]
      BY <2>1
    <2>3. /\ Posted' = Posted
          /\ \A k : (Allowed(k)' <=> Allowed(k)) /\ (Wanted(k)' <=> Wanted(k))
      BY <2>1, SameLooks
    <2>4. \A k : (Known(k)' <=> Known(k)) /\ (InBuffer(k)' <=> InBuffer(k))
      BY <2>1 DEF Known, InBuffer
    <2>5. Types'
      BY <2>1, <2>2, <2>3, <2>4 DEF Types
    <2>6. left[m] <= Copies
      BY <2>1 DEF DingOK
    <2>7. ASSUME NEW k \in Ids
          PROVE  /\ left'[k] <= Copies /\ (k \notin Posted => left'[k] = Copies)
                 /\ k \notin again' => handling'[k] + times[k] <= (IF left'[k] < Copies THEN 1 ELSE 0)
                 /\ k \in Posted /\ Wanted(k) /\ left'[k] < Copies =>
                      times[k] > 0 \/ handling'[k] > 0 \/ k \in gone
      <3>1. CASE k = m
        <4>1. m \notin again' => m \notin again /\ left[m] = Copies
          BY <2>1, <2>6
        <4>2. m \notin again' => handling[m] + times[m] <= 0
          BY <2>1, <4>1 DEF DingOK
        <4> QED BY <2>1, <2>2, <2>6, <3>1, <4>1, <4>2
      <3>2. CASE k # m
        BY <2>1, <2>2, <3>2 DEF DingOK, Given
      <3> QED BY <3>1, <3>2
    <2>8. buffer' = <<>>
      BY <2>1 DEF DingOK
    <2> QED BY <2>1, <2>3, <2>5, <2>7, <2>8 DEF DingOK, Given
  <1> QED BY <1>1, <1>2, <1>3
      DEF PushNext, PushIdle, QQMessage, BridgeMessage, FeishuEvent, FeishuFails, SlackMessage, SlackMention

LEMMA DingPosted ==
  ASSUME Types, DingOK, NEW s \in Shapes, Post(s)
  PROVE  DingOK'
  <1>1. UNCHANGED <<config, left, intake, ghosts>>
    BY DEF Post
  <1>2. PICK new \in Ids : new \notin Posted /\ Posted' = Posted \union {new}
    BY Posting
  <1>3. left[new] = Copies /\ Copies \in Nat
    BY <1>2, BusAssumption DEF DingOK
  <1> QED BY <1>1, <1>2, <1>3, Posting DEF DingOK, Given

LEMMA DingStopped ==
  ASSUME Types, DingOK, Stopped({})
  PROVE  DingOK'
  <1>1. Posted' = Posted /\ \A k : (Allowed(k)' <=> Allowed(k)) /\ (Wanted(k)' <=> Wanted(k))
    BY Stopping, SameLooks
  <1>2. \A k \in Ids : /\ handling'[k] = 0 /\ handling[k] \in Nat /\ times[k] \in Nat
                       /\ handling[k] > 0 => k \in gone'
    BY Stopping, CountTypes DEF Underway
  <1>3. ASSUME NEW k \in Ids, k \notin again
        PROVE  handling'[k] + times[k] <= (IF left[k] < Copies THEN 1 ELSE 0)
    BY <1>2, <1>3 DEF DingOK
  <1>4. UNCHANGED <<left, times, again>> /\ gone \subseteq gone' /\ buffer' = <<>>
    BY Stopping
  <1> QED BY <1>1, <1>2, <1>3, <1>4 DEF DingOK, Given

-----------------------------------------------------------------------------
(* Slack, where a mention comes as two events                               *)

LEMMA SlackStep ==
  ASSUME Types, SlackOK, enabled = "slack", PushNext
  PROVE  Types' /\ SlackOK'
  <1>1. CASE PushIdle
    <2>1. UNCHANGED <<config, service, intake, ghosts, pushVars>>
      BY <1>1, PushIdles
    <2> QED BY <2>1 DEF Types, SlackOK, Known, InBuffer, Given, Allowed, Wanted, Posted
  <1>2. ASSUME NEW m \in Ids, Forwards(m) PROVE Types' /\ SlackOK'
    <2>1. /\ Types' /\ UNCHANGED <<config, service, seen, buffer, gone, again, pushVars>>
          /\ \A k \in Ids : /\ Turns(k)' <= Turns(k)
                            /\ Allowed(k) /\ Given(k) => Given(k)'
                            /\ times'[k] > 0 => times[k] > 0 \/ handling[k] > 0
      BY <1>2, Forwarding
    <2>2. /\ Posted' = Posted
          /\ \A k : (Allowed(k)' <=> Allowed(k)) /\ (Wanted(k)' <=> Wanted(k)) /\ (Wanted(k) => Allowed(k))
      BY <2>1, SameLooks DEF Wanted
    <2>3. \A k \in Ids : /\ handling[k] \in Nat /\ times[k] \in Nat
                         /\ handling'[k] \in Nat /\ times'[k] \in Nat
      BY <2>1, CountTypes, NextCountTypes
    <2>4. ASSUME NEW k \in Ids
          PROVE  /\ k \in Posted /\ shape[k].mention /\ k \notin again =>
                      handling'[k] + times'[k] <= (IF k \in paired THEN 1 ELSE 0)
                 /\ k \in Posted /\ ~shape[k].mention /\ k \notin again =>
                      handling'[k] + times'[k] <= (IF left[k] < Copies THEN 1 ELSE 0)
                 /\ k \notin Posted => times'[k] = 0
      <3>1. k \notin Posted => times[k] = 0 /\ handling[k] = 0
        BY <2>3 DEF SlackOK, Types
      <3>2. k \notin Posted => times'[k] = 0
        BY <2>1, <2>3, <3>1
      <3> QED BY <2>1, <2>3, <3>2 DEF SlackOK, Turns
    <2> QED BY <2>1, <2>2, <2>4 DEF SlackOK
  <1>3. ASSUME NEW m \in Ids, SlackMessage(m) PROVE Types' /\ SlackOK'
    <2>1. /\ UNCHANGED <<config, shape, seen, buffer, timer, times, gone, pushVars>>
          /\ m \in Posted /\ left[m] > 0
          /\ left' = [left EXCEPT ![m] = @ - 1] /\ SlackTakes(m, "message")
          /\ again' = IF left[m] < Copies \/ (~botId /\ shape[m].mention) THEN again \union {m} ELSE again
          /\ left \in [Ids -> Nat] /\ handling \in [Ids -> Nat] /\ times \in [Ids -> 0..2] /\ Copies \in Nat
      BY <1>3, BusAssumption DEF SlackMessage, Deliver, PushFrame, Types
    <2>2. /\ left' \in [Ids -> Nat] /\ left'[m] = left[m] - 1
          /\ \A k \in Ids : k # m => left'[k] = left[k]
      BY <2>1
    <2>3. /\ handling' \in [Ids -> Nat] /\ handling'[m] \in {handling[m], handling[m] + 1}
          /\ SlackPolicy(m, "message") => handling'[m] = handling[m] + 1
          /\ ~SlackPolicy(m, "message") => handling'[m] = handling[m]
          /\ \A k \in Ids : k # m => handling'[k] = handling[k]
      BY <2>1 DEF SlackTakes, Enters
    <2>4. /\ Posted' = Posted
          /\ \A k : (Allowed(k)' <=> Allowed(k)) /\ (Wanted(k)' <=> Wanted(k))
      BY <2>1, SameLooks
    <2>5. \A k : (Known(k)' <=> Known(k)) /\ (InBuffer(k)' <=> InBuffer(k))
      BY <2>1 DEF Known, InBuffer
    <2>6. Types'
      BY <2>1, <2>2, <2>3, <2>4, <2>5 DEF Types
    <2>7. left[m] <= Copies
      BY <2>1 DEF SlackOK
    <2>8. /\ shape[m].mention /\ m \notin again' => botId /\ ~SlackPolicy(m, "message")
          /\ ~shape[m].mention /\ Wanted(m) => SlackPolicy(m, "message")
      BY <2>1 DEF SlackPolicy, Wanted, Allowed
    <2>9. ASSUME NEW k \in Ids
          PROVE  /\ left'[k] <= Copies /\ (k \notin Posted => left'[k] = Copies)
                 /\ k \in Posted /\ shape[k].mention /\ k \notin again' =>
                      /\ ~botId => left'[k] = Copies
                      /\ handling'[k] + times[k] <= (IF k \in paired THEN 1 ELSE 0)
                 /\ k \in Posted /\ ~shape[k].mention /\ k \notin again' =>
                      handling'[k] + times[k] <= (IF left'[k] < Copies THEN 1 ELSE 0)
                 /\ k \in Posted /\ Wanted(k) /\ (IF shape[k].mention THEN k \in paired ELSE left'[k] < Copies)
                      => times[k] > 0 \/ handling'[k] > 0 \/ k \in gone
      <3>1. CASE k = m
        <4>1. m \notin again' => m \notin again /\ left[m] = Copies
          BY <2>1, <2>7
        <4>2. ~shape[m].mention /\ m \notin again' => handling[m] + times[m] <= 0
          BY <2>1, <4>1 DEF SlackOK
        <4>3. shape[m].mention /\ m \notin again' => handling[m] + times[m] <= (IF m \in paired THEN 1 ELSE 0)
          BY <2>1, <4>1 DEF SlackOK
        <4>4. shape[m].mention /\ m \in paired /\ Wanted(m) => times[m] > 0 \/ handling[m] > 0 \/ m \in gone
          BY <2>1 DEF SlackOK, Given
        <4>5. /\ left'[m] <= Copies
              /\ shape[m].mention /\ m \notin again' =>
                   botId /\ handling'[m] + times[m] <= (IF m \in paired THEN 1 ELSE 0)
          BY <2>1, <2>2, <2>3, <2>7, <2>8, <4>3
        <4>6. /\ ~shape[m].mention /\ m \notin again' =>
                   handling'[m] + times[m] <= (IF left'[m] < Copies THEN 1 ELSE 0)
              /\ ~shape[m].mention /\ Wanted(m) => handling'[m] > 0
          BY <2>1, <2>2, <2>3, <2>7, <2>8, <4>1, <4>2
        <4>7. handling[m] > 0 => handling'[m] > 0
          BY <2>1, <2>3
        <4> QED BY <2>1, <3>1, <4>4, <4>5, <4>6, <4>7
      <3>2. CASE k # m
        BY <2>1, <2>2, <2>3, <3>2 DEF SlackOK, Given
      <3> QED BY <3>1, <3>2
    <2>10. buffer' = <<>> /\ paired \subseteq Posted /\ (\A k \in paired : shape[k].mention)
           /\ \A k \in Ids : k \notin Posted => times[k] = 0
      BY <2>1 DEF SlackOK
    <2> QED BY <2>1, <2>4, <2>6, <2>9, <2>10 DEF SlackOK, Given
  <1>4. ASSUME NEW m \in Ids, SlackMention(m) PROVE Types' /\ SlackOK'
    <2>1. /\ UNCHANGED <<config, service, seen, buffer, timer, times, gone, again, botId>>
          /\ m \in Posted \ paired /\ shape[m].mention
          /\ paired' = paired \union {m} /\ SlackTakes(m, "app_mention")
          /\ handling \in [Ids -> Nat] /\ times \in [Ids -> 0..2]
      BY <1>4 DEF SlackMention, PushFrame, Types
    <2>2. /\ handling' \in [Ids -> Nat] /\ handling'[m] \in {handling[m], handling[m] + 1}
          /\ Wanted(m) => handling'[m] > 0
          /\ \A k \in Ids : k # m => handling'[k] = handling[k]
      <3>1. Wanted(m) => (shape[m].group => SlackPolicy(m, "app_mention"))
        BY DEF Wanted, Allowed, SlackPolicy
      <3>2. shape[m].group
        BY <1>4 DEF SlackMention
      <3> QED BY <2>1, <3>1, <3>2 DEF SlackTakes, Enters
    <2>3. /\ Posted' = Posted
          /\ \A k : (Allowed(k)' <=> Allowed(k)) /\ (Wanted(k)' <=> Wanted(k))
      BY <2>1, SameLooks
    <2>4. \A k : (Known(k)' <=> Known(k)) /\ (InBuffer(k)' <=> InBuffer(k))
      BY <2>1 DEF Known, InBuffer
    <2>5. Types'
      BY <2>1, <2>2, <2>3, <2>4 DEF Types
    <2>6. ASSUME NEW k \in Ids
          PROVE  /\ k \in Posted /\ shape[k].mention /\ k \notin again =>
                      /\ ~botId => left[k] = Copies
                      /\ handling'[k] + times[k] <= (IF k \in paired' THEN 1 ELSE 0)
                 /\ k \in Posted /\ ~shape[k].mention /\ k \notin again =>
                      handling'[k] + times[k] <= (IF left[k] < Copies THEN 1 ELSE 0)
                 /\ k \in Posted /\ Wanted(k) /\ (IF shape[k].mention THEN k \in paired' ELSE left[k] < Copies)
                      => times[k] > 0 \/ handling'[k] > 0 \/ k \in gone
      <3>1. CASE k = m
        <4>1. m \notin again => (~botId => left[m] = Copies) /\ handling[m] + times[m] <= 0
          BY <2>1 DEF SlackOK
        <4>2. m \notin again => handling'[m] + times[m] <= 1
          BY <2>1, <2>2, <4>1
        <4> QED BY <2>1, <2>2, <3>1, <4>1, <4>2
      <3>2. CASE k # m
        BY <2>1, <2>2, <3>2 DEF SlackOK, Given
      <3> QED BY <3>1, <3>2
    <2>7. buffer' = <<>> /\ paired' \subseteq Posted /\ (\A k \in paired' : shape[k].mention)
          /\ \A k \in Ids : (k \notin Posted => times[k] = 0 /\ left[k] = Copies) /\ left[k] <= Copies
      BY <2>1 DEF SlackOK
    <2> QED BY <2>1, <2>3, <2>5, <2>6, <2>7 DEF SlackOK, Given
  <1> QED BY <1>1, <1>2, <1>3, <1>4
      DEF PushNext, PushIdle, QQMessage, BridgeMessage, FeishuEvent, FeishuFails, DingTalkEvent

LEMMA SlackPosted ==
  ASSUME Types, SlackOK, UNCHANGED pushVars, NEW s \in Shapes, Post(s)
  PROVE  SlackOK'
  <1>1. UNCHANGED <<config, left, intake, ghosts>>
    BY DEF Post
  <1>2. PICK new \in Ids : new \notin Posted /\ Posted' = Posted \union {new}
    BY Posting
  <1>3. left[new] = Copies /\ Copies \in Nat /\ times[new] = 0 /\ handling[new] = 0 /\ new \notin paired
    BY <1>2, BusAssumption, CountTypes DEF SlackOK, Types
  <1>4. \A k \in Posted : shape'[k] = shape[k] /\ (Wanted(k)' <=> Wanted(k))
    BY Posting
  <1>5. ASSUME NEW k \in Ids
        PROVE  /\ k \in Posted' /\ shape'[k].mention /\ k \notin again =>
                    /\ ~botId => left[k] = Copies
                    /\ handling[k] + times[k] <= (IF k \in paired THEN 1 ELSE 0)
               /\ k \in Posted' /\ ~shape'[k].mention /\ k \notin again =>
                    handling[k] + times[k] <= (IF left[k] < Copies THEN 1 ELSE 0)
               /\ k \in Posted' /\ Wanted(k)' /\ (IF shape'[k].mention THEN k \in paired ELSE left[k] < Copies)
                    => Given(k)
    <2>1. CASE k = new
      BY <1>3, <2>1
    <2>2. CASE k # new
      BY <1>2, <1>4, <2>2 DEF SlackOK
    <2> QED BY <2>1, <2>2
  <1>6. /\ buffer = <<>> /\ paired \subseteq Posted' /\ (\A k \in paired : shape'[k].mention)
        /\ \A k \in Ids : (k \notin Posted' => times[k] = 0 /\ left[k] = Copies) /\ left[k] <= Copies
    BY <1>2, <1>4 DEF SlackOK
  <1> QED BY <1>1, <1>5, <1>6 DEF SlackOK, Given

LEMMA SlackStopped ==
  ASSUME Types, SlackOK, UNCHANGED pushVars, Stopped({})
  PROVE  SlackOK'
  <1>1. Posted' = Posted /\ \A k : (Allowed(k)' <=> Allowed(k)) /\ (Wanted(k)' <=> Wanted(k))
    BY Stopping, SameLooks
  <1>2. \A k \in Ids : /\ handling'[k] = 0 /\ handling[k] \in Nat /\ times[k] \in Nat
                       /\ handling[k] > 0 => k \in gone'
    BY Stopping, CountTypes DEF Underway
  <1>3. UNCHANGED <<config, shape, left, times, again>> /\ gone \subseteq gone' /\ buffer' = <<>>
    BY Stopping
  <1>4. ASSUME NEW k \in Ids
        PROVE  /\ k \in Posted /\ shape[k].mention /\ k \notin again =>
                    /\ ~botId => left[k] = Copies
                    /\ handling'[k] + times[k] <= (IF k \in paired THEN 1 ELSE 0)
               /\ k \in Posted /\ ~shape[k].mention /\ k \notin again =>
                    handling'[k] + times[k] <= (IF left[k] < Copies THEN 1 ELSE 0)
    BY <1>2 DEF SlackOK
  <1> QED BY <1>1, <1>2, <1>3, <1>4 DEF SlackOK, Given

-----------------------------------------------------------------------------
(* Natural numbers: what is not empty has a smallest one; induction         *)

LEMMA Smallest ==
  ASSUME NEW T \in SUBSET Nat, T # {}
  PROVE  \E x \in T : \A y \in T : x <= y
  <1> DEFINE R == OpToRel(<, Nat)
  <1>1. IsWellFoundedOn(R, Nat)
    BY NatLessThanWellFounded
  <1>2. PICK x \in T : \A y \in T : ~(<<y, x>> \in R)
    <2> HIDE DEF R
    <2> QED BY <1>1, WFMin
  <1>3. R = {ss \in Nat \X Nat : ss[1] < ss[2]}
    BY DEF OpToRel
  <1> HIDE DEF R
  <1>4. \A y \in T : ~(y < x)
    BY <1>2, <1>3
  <1> QED BY <1>4

LEMMA Largest ==
  ASSUME NEW n \in Nat, NEW T \in SUBSET (0..n), T # {}
  PROVE  \E x \in T : \A y \in T : x >= y
  <1> DEFINE U == {n - x : x \in T}
  <1>1. U \in SUBSET Nat /\ U # {}
    <2>1. \A x \in T : n - x \in Nat
      OBVIOUS
    <2> QED BY <2>1
  <1>2. PICK u \in U : \A v \in U : u <= v
    <2> HIDE DEF U
    <2> QED BY <1>1, Smallest
  <1>3. PICK x \in T : u = n - x
    OBVIOUS
  <1>4. ASSUME NEW y \in T PROVE x >= y
    <2>1. n - x <= n - y
      BY <1>2, <1>3
    <2> QED BY <2>1
  <1> QED BY <1>4

LEMMA Induction ==
  ASSUME NEW S, 0 \in S, \A n \in Nat : n \in S => n + 1 \in S
  PROVE  Nat \subseteq S
  <1> SUFFICES ASSUME Nat \ S # {} PROVE FALSE
    OBVIOUS
  <1>1. PICK x \in Nat \ S : \A y \in Nat \ S : x <= y
    BY Smallest
  <1>2. x - 1 \in Nat /\ x - 1 \in S
    BY <1>1
  <1> QED BY <1>1, <1>2

-----------------------------------------------------------------------------
(* Mochat: one event                                                        *)

LEMMA RemovedAt ==
  ASSUME NEW S, NEW s \in Seq(S), NEW j \in 1..Len(s)
  PROVE  /\ RemoveAt(s, j) \in Seq(S)
         /\ \A k : (\E i \in DOMAIN RemoveAt(s, j) : RemoveAt(s, j)[i] = k)
                     => \E i \in DOMAIN s : s[i] = k
         /\ \A i \in DOMAIN s : i # j => \E l \in DOMAIN RemoveAt(s, j) : RemoveAt(s, j)[l] = s[i]
  <1> DEFINE a == SubSeq(s, 1, j - 1)
             b == SubSeq(s, j + 1, Len(s))
             n == Len(s)
  <1>1. RemoveAt(s, j) = a \o b /\ n \in Nat /\ DOMAIN s = 1..n /\ \A i \in 1..n : s[i] \in S
    BY DEF RemoveAt
  <1>2. /\ a \in Seq(S) /\ Len(a) = j - 1 /\ \A i \in 1..(j - 1) : a[i] = s[i]
    BY <1>1, SubSeqProperties
  <1>3. /\ b \in Seq(S) /\ Len(b) = n - j /\ \A i \in 1..(n - j) : b[i] = s[i + j]
    <2>1. \A i \in (j + 1)..n : s[i] \in S
      BY <1>1
    <2>2. /\ b \in Seq(S)
          /\ Len(b) = IF j + 1 <= n THEN n - (j + 1) + 1 ELSE 0
          /\ \A i \in 1..(n - (j + 1) + 1) : b[i] = s[j + 1 + i - 1]
      BY <1>1, <2>1, SubSeqProperties
    <2> HIDE DEF b, n
    <2>3. Len(b) = n - j
      BY <1>1, <2>2
    <2>4. ASSUME NEW i \in 1..(n - j) PROVE b[i] = s[i + j]
      <3>1. j + 1 + i - 1 = i + j /\ i \in 1..(n - (j + 1) + 1)
        BY <1>1
      <3> QED BY <2>2, <3>1
    <2> QED BY <2>2, <2>3, <2>4
  <1> HIDE DEF a, b, n
  <1>4. /\ a \o b \in Seq(S) /\ DOMAIN (a \o b) = 1..(n - 1)
        /\ \A i \in 1..(n - 1) : (a \o b)[i] = IF i <= j - 1 THEN a[i] ELSE b[i - (j - 1)]
    <2>1. /\ a \o b \in Seq(S) /\ Len(a \o b) = Len(a) + Len(b)
          /\ \A i \in 1..(Len(a) + Len(b)) : (a \o b)[i] = IF i <= Len(a) THEN a[i] ELSE b[i - Len(a)]
      BY <1>2, <1>3, ConcatProperties
    <2>2. Len(a) + Len(b) = n - 1
      BY <1>1, <1>2, <1>3
    <2>3. DOMAIN (a \o b) = 1..Len(a \o b)
      BY <2>1
    <2> QED BY <1>2, <2>1, <2>2, <2>3
  <1>5. ASSUME NEW i \in 1..(n - 1)
        PROVE  (a \o b)[i] = IF i <= j - 1 THEN s[i] ELSE s[i + 1]
    <2>1. CASE i <= j - 1
      BY <1>1, <1>2, <1>4, <2>1
    <2>2. CASE ~(i <= j - 1)
      <3>1. i - (j - 1) \in 1..(n - j) /\ i - (j - 1) + j = i + 1
        BY <1>1, <2>2
      <3> QED BY <1>3, <1>4, <2>2, <3>1
    <2> QED BY <2>1, <2>2
  <1>6. ASSUME NEW i \in DOMAIN (a \o b) PROVE \E l \in DOMAIN s : s[l] = (a \o b)[i]
    <2>1. i \in 1..n /\ i + 1 \in 1..n
      BY <1>1, <1>4
    <2> QED BY <1>1, <1>4, <1>5, <2>1
  <1>7. ASSUME NEW i \in DOMAIN s, i # j PROVE \E l \in DOMAIN (a \o b) : (a \o b)[l] = s[i]
    <2>1. CASE i < j
      <3>1. i \in 1..(n - 1) /\ i <= j - 1
        BY <1>1, <2>1
      <3> QED BY <1>4, <1>5, <3>1
    <2>2. CASE i > j
      <3>1. i - 1 \in 1..(n - 1) /\ ~(i - 1 <= j - 1) /\ (i - 1) + 1 = i
        BY <1>1, <2>2
      <3> QED BY <1>4, <1>5, <3>1
    <2> QED BY <1>1, <1>7, <2>1, <2>2
  <1> QED BY <1>1, <1>4, <1>6, <1>7

\* An id is remembered; one of the same session or panel that is dropped for
\* it is noted.
LEMMA RememberedId ==
  ASSUME NEW r, Whole(r), r.seen \in Seq(Ids), NEW m \in Ids, NEW q, q = RememberMessageId(r, m)
  PROVE  /\ Whole(q) /\ q.seen \in Seq(Ids) /\ Knows(q, m)
         /\ \A k : Knows(q, k) => Knows(r, k) \/ k = m
         /\ \A k : Knows(r, k) => Knows(q, k) \/ k \in q.again
         /\ \A k \in r.again : k \in q.again
         /\ q.buffer = r.buffer /\ q.timer = r.timer /\ q.times = r.times
  <1> DEFINE s == r.seen
             mine == {i \in DOMAIN s : InSession(s[i]) = InSession(m)}
             j == Min(mine)
  <1>1. Len(s) \in Nat /\ DOMAIN s = 1..Len(s)
    OBVIOUS
  <1>2. {"seen", "buffer", "timer", "again", "inbound", "times"} = InFields
    BY DEF InFields
  <1>3. CASE Cardinality(mine) < SeenMax
    <2>1. q = [r EXCEPT !.seen = Append(s, m)]
      BY <1>3 DEF RememberMessageId
    <2>2. /\ Whole(q) /\ q.seen = Append(s, m)
          /\ q.buffer = r.buffer /\ q.timer = r.timer /\ q.times = r.times /\ q.again = r.again
      BY <2>1 DEF Whole, InFields
    <2>3. /\ q.seen \in Seq(Ids) /\ DOMAIN q.seen = 1..Len(s) + 1 /\ q.seen[Len(s) + 1] = m
          /\ \A i \in DOMAIN s : q.seen[i] = s[i]
      BY <1>1, <2>2
    <2>4. \A k : Knows(q, k) <=> Knows(r, k) \/ k = m
      BY <1>1, <2>3 DEF Knows
    <2> QED BY <2>2, <2>3, <2>4
  <1>4. CASE ~(Cardinality(mine) < SeenMax)
    <2>1. mine # {}
      <3>1. SeenMax > 0 /\ SeenMax \in Nat /\ Cardinality({}) = 0
        BY BusAssumption, FS_EmptySet
      <3> HIDE DEF mine
      <3> QED BY <1>4, <3>1
    <2>2. mine \in SUBSET Nat /\ mine \subseteq 1..Len(s)
      BY <1>1
    <2>3. j \in mine
      <3> HIDE DEF mine
      <3>1. \E x \in mine : \A y \in mine : x <= y
        BY <2>1, <2>2, Smallest
      <3> QED BY <3>1 DEF Min
    <2> DEFINE rest == RemoveAt(s, j)
    <2>4. q = [r EXCEPT !.seen = Append(rest, m), !.again = r.again \union {s[j]}]
      BY <1>4 DEF RememberMessageId
    <2>5. j \in 1..Len(s)
      BY <2>2, <2>3
    <2> HIDE DEF mine, j
    <2>6. /\ rest \in Seq(Ids)
          /\ \A k : (\E i \in DOMAIN rest : rest[i] = k) => Knows(r, k)
          /\ \A i \in DOMAIN s : i # j => \E l \in DOMAIN rest : rest[l] = s[i]
      <3>1. /\ rest \in Seq(Ids)
            /\ \A k : (\E i \in DOMAIN rest : rest[i] = k) => \E i \in DOMAIN s : s[i] = k
            /\ \A i \in DOMAIN s : i # j => \E l \in DOMAIN rest : rest[l] = s[i]
        <4>1. s \in Seq(Ids)
          OBVIOUS
        <4> HIDE DEF s
        <4> QED BY <2>5, <4>1, RemovedAt
      <3> QED BY <3>1 DEF Knows
    <2> HIDE DEF rest
    <2>7. /\ Whole(q) /\ q.seen = Append(rest, m) /\ q.again = r.again \union {s[j]}
          /\ q.buffer = r.buffer /\ q.timer = r.timer /\ q.times = r.times
      BY <2>4 DEF Whole, InFields
    <2>8. /\ q.seen \in Seq(Ids) /\ Len(rest) \in Nat
          /\ DOMAIN q.seen = 1..Len(rest) + 1 /\ q.seen[Len(rest) + 1] = m
          /\ DOMAIN rest = 1..Len(rest) /\ \A i \in DOMAIN rest : q.seen[i] = rest[i]
      BY <2>6, <2>7
    <2>9. ASSUME NEW k, Knows(r, k) PROVE Knows(q, k) \/ k \in q.again
      <3>1. PICK i \in DOMAIN s : s[i] = k
        BY <2>9 DEF Knows
      <3>2. CASE i = j
        BY <2>7, <3>1, <3>2
      <3>3. CASE i # j
        <4>1. PICK l \in DOMAIN rest : rest[l] = k
          BY <2>6, <3>1, <3>3
        <4>2. l \in DOMAIN q.seen /\ q.seen[l] = k
          BY <2>8, <4>1
        <4> QED BY <4>2 DEF Knows
      <3> QED BY <3>2, <3>3
    <2>10. Knows(q, m) /\ \A k : Knows(q, k) => Knows(r, k) \/ k = m
      <3>1. \A i \in DOMAIN q.seen : i \in DOMAIN rest \/ i = Len(rest) + 1
        BY <2>8
      <3>2. Len(rest) + 1 \in DOMAIN q.seen
        BY <2>8
      <3> QED BY <2>6, <2>8, <3>1, <3>2 DEF Knows
    <2> QED BY <2>7, <2>8, <2>9, <2>10
  <1> QED BY <1>3, <1>4

\* A batch goes out.
LEMMA Sent ==
  ASSUME NEW r, Whole(r), r.times \in [Ids -> 0..2], NEW batch, NEW q, q = Sends(r, batch)
  PROVE  /\ Whole(q) /\ q.times \in [Ids -> 0..2]
         /\ q.seen = r.seen /\ q.buffer = r.buffer /\ q.timer = r.timer /\ q.again = r.again
         /\ \A k \in Ids : /\ Contains(batch, k) => q.times[k] > 0 /\ (r.times[k] = 0 => q.times[k] = 1)
                           /\ ~Contains(batch, k) => q.times[k] = r.times[k]
  <1> DEFINE t == [k \in Ids |-> Counted(r.times[k], IF Contains(batch, k) THEN 1 ELSE 0)]
  <1>1. {"seen", "buffer", "timer", "again", "inbound", "times"} = InFields
    BY DEF InFields
  <1>2. q = [r EXCEPT !.inbound = Append(r.inbound, batch), !.times = t]
    BY DEF Sends
  <1> HIDE DEF t
  <1>3. /\ Whole(q) /\ q.times = t
        /\ q.seen = r.seen /\ q.buffer = r.buffer /\ q.timer = r.timer /\ q.again = r.again
    BY <1>2 DEF Whole, InFields
  <1>4. ASSUME NEW k \in Ids
        PROVE  /\ t[k] \in 0..2
               /\ Contains(batch, k) => t[k] > 0 /\ (r.times[k] = 0 => t[k] = 1)
               /\ ~Contains(batch, k) => t[k] = r.times[k]
    <2>1. t[k] = Counted(r.times[k], IF Contains(batch, k) THEN 1 ELSE 0) /\ r.times[k] \in 0..2
      BY DEF t
    <2>2. CASE Contains(batch, k)
      BY <2>1, <2>2 DEF Counted
    <2>3. CASE ~Contains(batch, k)
      BY <2>1, <2>3 DEF Counted
    <2> QED BY <2>2, <2>3
  <1>5. t \in [Ids -> 0..2]
    BY <1>4 DEF t
  <1> QED BY <1>3, <1>4, <1>5

Holds(s, m) == \E i \in DOMAIN s : s[i] = m

LEMMA Appended ==
  ASSUME NEW s \in Seq(Ids), NEW m \in Ids, NEW a, a = Append(s, m)
  PROVE  /\ a \in Seq(Ids) /\ a # <<>>
         /\ \A k : Holds(a, k) <=> Holds(s, k) \/ k = m
         /\ \A k : Contains(a, k) <=> Holds(s, k) \/ k = m
         /\ ~Holds(s, m) => Unique(a, m)
         /\ \A k : k # m /\ Unique(s, k) => Unique(a, k)
  <1> DEFINE n == Len(s)
  <1>1. /\ a \in Seq(Ids) /\ n \in Nat /\ DOMAIN s = 1..n /\ DOMAIN a = 1..n + 1 /\ Len(a) = n + 1
        /\ a # <<>> /\ a[n + 1] = m /\ \A i \in 1..n : a[i] = s[i]
    OBVIOUS
  <1> HIDE DEF n
  <1>2. n + 1 \in 1..n + 1 /\ \A i \in 1..n + 1 : i \in 1..n \/ i = n + 1
    BY <1>1
  <1>3. \A k : Holds(a, k) <=> Holds(s, k) \/ k = m
    BY <1>1, <1>2 DEF Holds
  <1>4. \A k : Contains(a, k) <=> Holds(a, k)
    BY <1>1 DEF Contains, Holds
  <1>5. ~Holds(s, m) => Unique(a, m)
    BY <1>1, <1>2 DEF Unique, Holds
  <1>6. ASSUME NEW k, k # m, Unique(s, k) PROVE Unique(a, k)
    BY <1>1, <1>2, <1>6 DEF Unique
  <1> QED BY <1>1, <1>3, <1>4, <1>5, <1>6

LEMMA ProcessedOne ==
  ASSUME Types, NEW r, InOK(r), NEW m \in Posted, NEW q, q = ProcessInboundEvent(r, m)
  PROVE  /\ InOK(q)
         /\ \A k \in Ids : Met(r, k) => Met(q, k)
         /\ Wanted(m) => Met(q, m)
  <1> DEFINE kept == RememberMessageId(r, m)
  <1>1. /\ m \in Ids /\ Whole(r)
        /\ r.seen \in Seq(Ids) /\ r.buffer \in Seq(Ids) /\ r.times \in [Ids -> 0..2]
        /\ r.timer \in BOOLEAN /\ (r.timer <=> r.buffer # <<>>)
    BY IdTypes DEF InOK
  <1>2. \A k \in Ids :
          /\ Has(r, k) => k \in Posted /\ Allowed(k) /\ ~InSession(k)
          /\ Knows(r, k) => k \in Posted
          /\ k \notin r.again => /\ Has(r, k) => Knows(r, k) /\ r.times[k] = 0 /\ Unique(r.buffer, k)
                                 /\ r.times[k] <= 1
                                 /\ r.times[k] > 0 => Knows(r, k)
          /\ Knows(r, k) /\ Wanted(k) => Met(r, k)
    BY DEF InOK
  <1>3. /\ Whole(kept) /\ kept.seen \in Seq(Ids) /\ Knows(kept, m)
        /\ \A k : Knows(kept, k) => Knows(r, k) \/ k = m
        /\ \A k : Knows(r, k) => Knows(kept, k) \/ k \in kept.again
        /\ \A k \in r.again : k \in kept.again
        /\ kept.buffer = r.buffer /\ kept.timer = r.timer /\ kept.times = r.times
    BY <1>1, RememberedId
  <1>4. Contains(r.seen, m) <=> Knows(r, m)
    BY <1>1 DEF Contains, Knows
  <1>5. CASE ~Allowed(m) \/ Knows(r, m)
    <2>1. q = r
      BY <1>4, <1>5 DEF ProcessInboundEvent
    <2> QED BY <1>1, <1>2, <1>5, <2>1 DEF Wanted
  <1>6. CASE Allowed(m) /\ ~Knows(r, m)
    <2>1. m \notin kept.again => ~Has(r, m) /\ r.times[m] = 0
      <3>1. m \notin kept.again => m \notin r.again
        BY <1>3
      <3>2. m \notin r.again => ~Has(r, m) /\ ~(r.times[m] > 0)
        BY <1>1, <1>2, <1>6
      <3>3. r.times[m] \in 0..2
        BY <1>1
      <3> HIDE DEF kept
      <3> QED BY <3>1, <3>2, <3>3
    <2>2. q = IF InSession(m) \/ policy = "open" THEN Sends(kept, <<m>>)
              ELSE IF policy = "mention" THEN IF shape[m].mention THEN Sends(kept, <<m>>) ELSE kept
              ELSE IF shape[m].mention
                   THEN Sends([kept EXCEPT !.buffer = <<>>, !.timer = FALSE], Append(r.buffer, m))
                   ELSE [kept EXCEPT !.buffer = Append(kept.buffer, m), !.timer = TRUE]
      BY <1>4, <1>6 DEF ProcessInboundEvent
    <2> HIDE DEF kept
    \* What every case below has in common.
    <2>3. ASSUME Whole(q), q.seen = kept.seen, q.again = kept.again,
                 q.buffer \in Seq(Ids), q.times \in [Ids -> 0..2],
                 q.timer \in BOOLEAN, q.timer <=> q.buffer # <<>>,
                 \A k \in Ids :
                   /\ Has(q, k) => Has(r, k) \/ (k = m /\ ~InSession(m))
                   /\ k \notin kept.again =>
                        /\ Has(q, k) => q.times[k] = 0 /\ Unique(q.buffer, k)
                        /\ q.times[k] <= 1
                   /\ q.times[k] > 0 => r.times[k] > 0 \/ Has(r, k) \/ k = m
                   /\ Met(r, k) => Met(q, k),
                 Wanted(m) => Met(q, m)
          PROVE  InOK(q)
      <3>1. \A k : Knows(q, k) <=> Knows(kept, k)
        BY <2>3 DEF Knows
      <3>2. ASSUME NEW k \in Ids
            PROVE  /\ Has(q, k) => k \in Posted /\ Allowed(k) /\ ~InSession(k)
                   /\ Knows(q, k) => k \in Posted
                   /\ k \notin q.again => /\ Has(q, k) => Knows(q, k) /\ q.times[k] = 0 /\ Unique(q.buffer, k)
                                          /\ q.times[k] <= 1
                                          /\ q.times[k] > 0 => Knows(q, k)
                   /\ Knows(q, k) /\ Wanted(k) => Met(q, k)
        <4>1. Has(q, k) => k \in Posted /\ Allowed(k) /\ ~InSession(k)
          BY <1>2, <1>6, <2>3
        <4>2. Knows(q, k) => k \in Posted
          BY <1>2, <1>3, <3>1
        <4>3. k \notin q.again /\ (Has(r, k) \/ r.times[k] > 0 \/ k = m) => Knows(q, k)
          BY <1>2, <1>3, <2>3, <3>1
        <4>4. Knows(q, k) /\ Wanted(k) => Met(q, k)
          BY <1>2, <1>3, <2>3, <3>1
        <4> QED BY <2>3, <4>1, <4>2, <4>3, <4>4
      <3> QED BY <1>3, <2>3, <3>2 DEF InOK
    <2>4. CASE q = Sends(kept, <<m>>)
      <3>1. \A k : Contains(<<m>>, k) <=> k = m
        BY DEF Contains
      <3>2. /\ Whole(q) /\ q.times \in [Ids -> 0..2] /\ q.seen = kept.seen
            /\ q.buffer = r.buffer /\ q.timer = r.timer /\ q.again = kept.again
            /\ \A k \in Ids : /\ k = m => q.times[k] > 0 /\ (r.times[k] = 0 => q.times[k] = 1)
                              /\ k # m => q.times[k] = r.times[k]
        BY <1>1, <1>3, <2>4, <3>1, Sent
      <3>3. \A k : Has(q, k) <=> Has(r, k)
        BY <3>2 DEF Has
      <3>4. ASSUME NEW k \in Ids
            PROVE  /\ k \notin kept.again =>
                        /\ Has(q, k) => q.times[k] = 0 /\ Unique(q.buffer, k)
                        /\ q.times[k] <= 1
                   /\ q.times[k] > 0 => r.times[k] > 0 \/ Has(r, k) \/ k = m
                   /\ Met(r, k) => Met(q, k)
        <4>1. CASE k = m
          BY <2>1, <3>2, <3>3, <4>1 DEF Met
        <4>2. CASE k # m
          BY <1>2, <1>3, <3>2, <3>3, <4>2 DEF Met
        <4> QED BY <4>1, <4>2
      <3>5. Met(q, m)
        BY <1>1, <3>2 DEF Met
      <3>6. InOK(q)
        BY <1>1, <2>3, <3>2, <3>3, <3>4, <3>5
      <3> QED BY <3>4, <3>5, <3>6
    <2>5. CASE q = kept /\ ~Wanted(m)
      <3>1. \A k : (Has(q, k) <=> Has(r, k)) /\ (Met(q, k) <=> Met(r, k))
        BY <1>3, <2>5 DEF Has, Met
      <3>2. ASSUME NEW k \in Ids
            PROVE  k \notin kept.again =>
                        /\ Has(q, k) => q.times[k] = 0 /\ Unique(q.buffer, k)
                        /\ q.times[k] <= 1
        BY <1>2, <1>3, <2>5, <3>1
      <3>3. InOK(q)
        BY <1>1, <1>3, <2>3, <2>5, <3>1, <3>2
      <3> QED BY <2>5, <3>1, <3>3
    <2>6. CASE q = Sends([kept EXCEPT !.buffer = <<>>, !.timer = FALSE], Append(r.buffer, m))
      <3> DEFINE e == [kept EXCEPT !.buffer = <<>>, !.timer = FALSE]
      <3>1. /\ Whole(e) /\ e.buffer = <<>> /\ e.timer = FALSE
            /\ e.seen = kept.seen /\ e.again = kept.again /\ e.times = r.times
        BY <1>3 DEF Whole, InFields
      <3> HIDE DEF e
      <3>2. \A k : Contains(Append(r.buffer, m), k) <=> Has(r, k) \/ k = m
        <4>1. \A a : a = Append(r.buffer, m) => \A k : Contains(a, k) <=> Holds(r.buffer, k) \/ k = m
          <5>1. m \in Ids /\ r.buffer \in Seq(Ids)
            BY <1>1
          <5> QED BY <5>1, Appended
        <4> QED BY <4>1 DEF Has, Holds
      <3>3. /\ Whole(q) /\ q.times \in [Ids -> 0..2] /\ q.seen = kept.seen
            /\ q.buffer = <<>> /\ q.timer = FALSE /\ q.again = kept.again
            /\ \A k \in Ids :
                 /\ Has(r, k) \/ k = m => q.times[k] > 0 /\ (r.times[k] = 0 => q.times[k] = 1)
                 /\ ~(Has(r, k) \/ k = m) => q.times[k] = r.times[k]
        <4>1. q = Sends(e, Append(r.buffer, m))
          BY <2>6 DEF e
        <4> QED BY <1>1, <3>1, <3>2, <4>1, Sent
      <3>4. \A k : ~Has(q, k)
        BY <3>3 DEF Has
      <3>5. ASSUME NEW k \in Ids
            PROVE  /\ k \notin kept.again => q.times[k] <= 1
                   /\ q.times[k] > 0 => r.times[k] > 0 \/ Has(r, k) \/ k = m
                   /\ Met(r, k) => Met(q, k)
        <4>1. CASE k = m
          BY <2>1, <3>3, <4>1 DEF Met
        <4>2. CASE k # m
          BY <1>2, <1>3, <3>3, <4>2 DEF Met
        <4> QED BY <4>1, <4>2
      <3>6. Met(q, m)
        BY <1>1, <3>3 DEF Met
      <3>7. <<>> \in Seq(Ids)
        OBVIOUS
      <3>8. InOK(q)
        BY <2>3, <3>3, <3>4, <3>5, <3>6, <3>7
      <3> QED BY <3>5, <3>6, <3>8
    <2>7. CASE /\ q = [kept EXCEPT !.buffer = Append(kept.buffer, m), !.timer = TRUE]
               /\ ~InSession(m)
      <3>1. /\ Whole(q) /\ q.buffer = Append(r.buffer, m) /\ q.timer = TRUE
            /\ q.seen = kept.seen /\ q.again = kept.again /\ q.times = r.times
        BY <1>3, <2>7 DEF Whole, InFields
      <3>2. /\ q.buffer \in Seq(Ids) /\ q.buffer # <<>>
            /\ \A k : Has(q, k) <=> Has(r, k) \/ k = m
            /\ ~Has(r, m) => Unique(q.buffer, m)
            /\ \A k : k # m /\ Unique(r.buffer, k) => Unique(q.buffer, k)
        <4>1. /\ q.buffer \in Seq(Ids) /\ q.buffer # <<>>
              /\ \A k : Holds(q.buffer, k) <=> Holds(r.buffer, k) \/ k = m
              /\ ~Holds(r.buffer, m) => Unique(q.buffer, m)
              /\ \A k : k # m /\ Unique(r.buffer, k) => Unique(q.buffer, k)
          <5>1. m \in Ids /\ r.buffer \in Seq(Ids) /\ q.buffer = Append(r.buffer, m)
            BY <1>1, <3>1
          <5> QED BY <5>1, Appended
        <4>2. \A k : (Has(q, k) <=> Holds(q.buffer, k)) /\ (Has(r, k) <=> Holds(r.buffer, k))
          BY DEF Has, Holds
        <4> QED BY <4>1, <4>2
      <3>3. ASSUME NEW k \in Ids
            PROVE  /\ k \notin kept.again =>
                        /\ Has(q, k) => q.times[k] = 0 /\ Unique(q.buffer, k)
                        /\ q.times[k] <= 1
                   /\ Met(r, k) => Met(q, k)
        <4>1. CASE k = m
          BY <2>1, <3>1, <3>2, <4>1 DEF Met
        <4>2. CASE k # m
          BY <1>2, <1>3, <3>1, <3>2, <4>2 DEF Met
        <4> QED BY <4>1, <4>2
      <3>4. Met(q, m)
        BY <3>2 DEF Met
      <3>5. InOK(q)
        BY <1>1, <2>3, <2>7, <3>1, <3>2, <3>3, <3>4
      <3> QED BY <3>3, <3>4, <3>5
    <2>8. ~InSession(m) /\ policy = "mention" /\ ~shape[m].mention => ~Wanted(m)
      BY DEF Wanted, InSession
    <2> QED BY <2>2, <2>4, <2>5, <2>6, <2>7, <2>8
  <1> QED BY <1>5, <1>6

-----------------------------------------------------------------------------
(* Mochat: the events of a payload, one after the other                     *)

LEMMA ProcessedSteps ==
  ASSUME Types, NEW events, NEW done, done = Processed(events)
  PROVE  /\ done[0] = In
         /\ \A k \in Posted : done[k] = IF k \in events THEN ProcessInboundEvent(done[k - 1], k)
                                        ELSE done[k - 1]
  <1> DEFINE n == Len(shape)
             step(r, k) == IF k \in events THEN ProcessInboundEvent(r, k) ELSE r
             Follows(g, l) == g = [k \in 0..l |-> IF k = 0 THEN In ELSE step(g[k - 1], k)]
             S == {l \in Nat : \E g : Follows(g, l)}
  <1>1. n \in Nat /\ Posted = 1..n
    BY IdTypes
  <1>2. 0 \in S
    <2> DEFINE g == [k \in 0..0 |-> In]
    <2>1. Follows(g, 0)
      <3>1. \A k \in 0..0 : k = 0
        OBVIOUS
      <3> HIDE DEF step
      <3> QED BY <3>1
    <2> HIDE DEF Follows
    <2> QED BY <2>1
  <1>3. ASSUME NEW l \in Nat, l \in S PROVE l + 1 \in S
    <2>1. PICK g : Follows(g, l)
      BY <1>3
    <2> DEFINE h == [k \in 0..l + 1 |-> IF k = l + 1 THEN step(g[l], k) ELSE g[k]]
    <2> HIDE DEF step
    <2>2. \A k \in 0..l : g[k] = IF k = 0 THEN In ELSE step(g[k - 1], k)
      BY <2>1
    <2>3. ASSUME NEW k \in 0..l + 1
          PROVE  h[k] = IF k = 0 THEN In ELSE step(h[k - 1], k)
      <3>1. CASE k = l + 1
        <4>1. h[k] = step(g[l], k) /\ h[k - 1] = g[l] /\ k # 0
          BY <3>1
        <4> HIDE DEF h
        <4> QED BY <3>1, <4>1
      <3>2. CASE k # l + 1 /\ k # 0
        <4>1. k \in 0..l /\ k - 1 \in 0..l + 1 /\ k - 1 # l + 1
          BY <3>2
        <4>2. h[k] = g[k] /\ h[k - 1] = g[k - 1]
          BY <3>2, <4>1
        <4> HIDE DEF h
        <4> QED BY <2>2, <3>2, <4>1, <4>2
      <3>3. CASE k # l + 1 /\ k = 0
        <4>1. 0 \in 0..l /\ h[0] = g[0]
          BY <3>3
        <4> HIDE DEF h
        <4> QED BY <2>2, <3>3, <4>1
      <3> QED BY <3>1, <3>2, <3>3
    <2>4. h = [k \in 0..l + 1 |-> h[k]]
      OBVIOUS
    <2> HIDE DEF h
    <2>5. Follows(h, l + 1)
      BY <2>3, <2>4
    <2> HIDE DEF Follows
    <2> QED BY <2>5
  <1>4. n \in S
    <2> HIDE DEF S, n
    <2> QED BY <1>1, <1>2, <1>3, Induction
  <1>5. Follows(done, n)
    <2>1. \E g : Follows(g, n)
      BY <1>4
    <2>2. done = CHOOSE g : Follows(g, n)
      BY DEF Processed
    <2> HIDE DEF Follows
    <2> QED BY <2>1, <2>2
  <1>6. \A k \in 0..n : done[k] = IF k = 0 THEN In ELSE step(done[k - 1], k)
    <2> HIDE DEF step
    <2> QED BY <1>5
  <1> HIDE DEF n, step
  <1>7. 0 \in 0..n /\ \A k \in Posted : k \in 0..n /\ k # 0
    BY <1>1
  <1> QED BY <1>6, <1>7 DEF step

LEMMA ProcessedAll ==
  ASSUME Types, InOK(In), NEW events, events \subseteq Posted, NEW out,
         out = Processed(events)[Len(shape)]
  PROVE  /\ InOK(out)
         /\ \A k \in Ids : Met(In, k) => Met(out, k)
         /\ \A k \in events : Wanted(k) => Met(out, k)
  <1> DEFINE n == Len(shape)
             done == Processed(events)
             Holding(l) == /\ InOK(done[l])
                           /\ \A k \in Ids : Met(In, k) => Met(done[l], k)
                           /\ \A k \in events : k <= l /\ Wanted(k) => Met(done[l], k)
             S == {l \in Nat : l <= n => Holding(l)}
  <1>1. n \in Nat /\ Posted = 1..n /\ Posted \subseteq Ids
    BY IdTypes
  <1>2. /\ done[0] = In
        /\ \A k \in Posted : done[k] = IF k \in events THEN ProcessInboundEvent(done[k - 1], k)
                                       ELSE done[k - 1]
    BY ProcessedSteps
  <1> HIDE DEF done, n
  <1>3. 0 \in S
    BY <1>1, <1>2
  <1>4. ASSUME NEW l \in Nat, l \in S PROVE l + 1 \in S
    <2> SUFFICES ASSUME l + 1 <= n PROVE Holding(l + 1)
      OBVIOUS
    <2>1. l + 1 \in Posted /\ (l + 1) - 1 = l /\ l <= n
      BY <1>1
    <2>2. Holding(l)
      BY <1>4, <2>1
    <2>3. CASE l + 1 \in events
      <3>1. done[l + 1] = ProcessInboundEvent(done[l], l + 1)
        BY <1>2, <2>1, <2>3
      <3>2. /\ InOK(done[l + 1])
            /\ \A k \in Ids : Met(done[l], k) => Met(done[l + 1], k)
            /\ Wanted(l + 1) => Met(done[l + 1], l + 1)
        BY <2>1, <2>2, <3>1, ProcessedOne
      <3>3. \A k \in events : k \in Ids /\ (k <= l + 1 => k <= l \/ k = l + 1)
        BY <1>1
      <3> QED BY <2>2, <3>2, <3>3
    <2>4. CASE l + 1 \notin events
      <3>1. done[l + 1] = done[l]
        BY <1>2, <2>1, <2>4
      <3>2. \A k \in events : k <= l + 1 => k <= l
        BY <1>1, <2>4
      <3> QED BY <2>2, <3>1, <3>2
    <2> QED BY <2>3, <2>4
  <1>5. Holding(n)
    <2>1. n \in S
      <3> HIDE DEF S
      <3> QED BY <1>1, <1>3, <1>4, Induction
    <2> QED BY <1>1, <2>1
  <1>6. \A k \in events : k <= n
    BY <1>1
  <1> QED BY <1>5, <1>6 DEF done, n

\* What the events of a payload do to the channel.
LEMMA Taking ==
  ASSUME Types, InOK(In), NEW events, events \subseteq Posted, Takes(events),
         UNCHANGED <<config, shape>>, gone \subseteq gone'
  PROVE  /\ InOK(In)'
         /\ \A k \in Ids : Met(In, k) => Met(In, k)'
         /\ \A k \in events : Wanted(k) => Met(In, k)'
  <1> DEFINE out == Processed(events)[Len(shape)]
  <1>1. /\ InOK(out)
        /\ \A k \in Ids : Met(In, k) => Met(out, k)
        /\ \A k \in events : Wanted(k) => Met(out, k)
    BY ProcessedAll
  <1>2. /\ seen' = out.seen /\ buffer' = out.buffer /\ timer' = out.timer
        /\ again' = out.again /\ inbound' = out.inbound /\ times' = out.times
    BY DEF Takes
  <1> HIDE DEF out
  <1>3. /\ In'.seen = out.seen /\ In'.buffer = out.buffer /\ In'.timer = out.timer
        /\ In'.again = out.again /\ In'.times = out.times
    BY <1>2 DEF In
  <1>4. Whole(In)'
    BY DEF Whole, In, InFields
  <1>5. /\ Posted' = Posted
        /\ \A k : /\ Allowed(k)' <=> Allowed(k)
                  /\ Wanted(k)' <=> Wanted(k)
                  /\ InSession(k)' <=> InSession(k)
    BY SameLooks
  <1>6. \A k : /\ Has(In, k)' <=> Has(out, k)
               /\ Knows(In, k)' <=> Knows(out, k)
               /\ Met(out, k) => Met(In, k)'
    BY <1>3 DEF Has, Knows, Met
  <1>7. InOK(In)'
    BY <1>1, <1>3, <1>4, <1>5, <1>6 DEF InOK
  <1> QED BY <1>1, <1>6, <1>7

LEMMA InTypes ==
  ASSUME Types, InOK(In)', UNCHANGED <<config, service>>,
         handling' \in [Ids -> Nat], \A k \in Ids : handling'[k] > 0 => k \in Posted
  PROVE  Types'
  <1>1. /\ In'.seen = seen' /\ In'.buffer = buffer' /\ In'.timer = timer' /\ In'.times = times'
    BY DEF In
  <1>2. \A k : (Knows(In, k)' <=> Known(k)') /\ (Has(In, k)' <=> InBuffer(k)')
    BY <1>1 DEF Knows, Known, Has, InBuffer
  <1>3. Posted' = Posted
    BY DEF Posted
  <1> QED BY <1>1, <1>2, <1>3 DEF Types, InOK

LEMMA InSame ==
  ASSUME InOK(In), UNCHANGED <<config, shape, seen, buffer, timer, again, times>>, gone \subseteq gone'
  PROVE  InOK(In)' /\ \A k \in Ids : Met(In, k) => Met(In, k)'
  <1>1. /\ In'.seen = In.seen /\ In'.buffer = In.buffer /\ In'.timer = In.timer
        /\ In'.again = In.again /\ In'.times = In.times
    BY DEF In
  <1>2. Whole(In)'
    BY DEF Whole, In, InFields
  <1>3. /\ Posted' = Posted
        /\ \A k : /\ Allowed(k)' <=> Allowed(k)
                  /\ Wanted(k)' <=> Wanted(k)
                  /\ InSession(k)' <=> InSession(k)
    BY SameLooks
  <1>4. \A k : /\ Has(In, k)' <=> Has(In, k)
               /\ Knows(In, k)' <=> Knows(In, k)
               /\ Met(In, k) => Met(In, k)'
    BY <1>1 DEF Has, Knows, Met
  <1> QED BY <1>1, <1>2, <1>3, <1>4 DEF InOK

\* The marks there are at the start, and those below one that is right.
LEMMA Marks ==
  ASSUME Types
  PROVE  /\ ReadUpTo(-1)
         /\ \A c : ReadUpTo(c) => ReadUpTo(AtLeast(c, 0))
         /\ \A c, d : ReadUpTo(c) /\ d \in -1..Len(shape) /\ d <= c => ReadUpTo(d)
  <1>1. Len(shape) \in Nat /\ Posted = 1..Len(shape)
    BY IdTypes
  <1>2. ReadUpTo(-1)
    BY <1>1 DEF ReadUpTo
  <1>3. ASSUME NEW c, ReadUpTo(c) PROVE ReadUpTo(AtLeast(c, 0))
    <2>1. c \in -1..Len(shape)
      BY <1>3 DEF ReadUpTo
    <2>2. CASE c = -1
      <3>1. AtLeast(c, 0) = 0
        BY <2>2 DEF AtLeast
      <3>2. 0 \in -1..Len(shape) /\ \A m \in Posted : ~(m <= 0)
        BY <1>1
      <3> QED BY <3>1, <3>2 DEF ReadUpTo
    <2>3. CASE c # -1
      <3>1. AtLeast(c, 0) = c
        BY <2>1, <2>3, <1>1 DEF AtLeast
      <3> QED BY <1>3, <3>1
    <2> QED BY <2>2, <2>3
  <1>4. ASSUME NEW c, NEW d, ReadUpTo(c), d \in -1..Len(shape), d <= c PROVE ReadUpTo(d)
    <2>1. c \in Int /\ d \in Int /\ \A m \in Posted : m \in Int
      BY <1>1, <1>4 DEF ReadUpTo
    <2>2. \A m \in Posted : m <= d => m <= c
      BY <1>4, <2>1
    <2> QED BY <1>4, <2>2 DEF ReadUpTo
  <1> QED BY <1>2, <1>3, <1>4

\* A payload that brings what is missing up to `upto'.
LEMMA Payload ==
  ASSUME Types, MochatOK, UNCHANGED <<config, shape>>,
         NEW upto \in -1..Len(shape), NEW events, events \subseteq Posted, NEW pc \in -1..Len(shape),
         pc <= upto, \A m \in events : m <= upto,
         \A m \in Posted : InSession(m) /\ Wanted(m) /\ m <= upto => Met(In, m) \/ m \in events,
         HandleWatchPayload(events, pc)
  PROVE  /\ InOK(In)' /\ \A k \in Ids : Met(In, k) => Met(In, k)'
         /\ ReadUpTo(upto)' /\ ReadUpTo(cursor)'
  <1>1. Len(shape) \in Nat /\ Posted = 1..Len(shape) /\ Posted \subseteq Ids
    BY IdTypes
  <1>2. /\ InOK(In)' /\ \A k \in Ids : Met(In, k) => Met(In, k)'
        /\ \A k \in events : Wanted(k) => Met(In, k)'
        /\ \E c \in -1..Len(shape) : c <= upto /\ MarkSessionCursor(c)
    <2>1. CASE cold
      <3>1. /\ gone' = gone \union {m \in events : ~Contains(seen, m)} /\ MarkSessionCursor(pc)
            /\ UNCHANGED <<seen, buffer, timer, again, inbound, times>>
        BY <2>1 DEF HandleWatchPayload
      <3>2. InOK(In) /\ gone \subseteq gone'
        BY <3>1 DEF MochatOK
      <3>3. InOK(In)' /\ \A k \in Ids : Met(In, k) => Met(In, k)'
        BY <3>1, <3>2, InSame
      <3>4. ASSUME NEW k \in events, Wanted(k) PROVE Met(In, k)'
        <4>1. CASE Contains(seen, k)
          <5>1. Knows(In, k)
            <6>1. seen \in Seq(Ids)
              BY DEF Types
            <6> QED BY <4>1, <6>1 DEF Knows, Contains, In
          <5>2. k \in Ids /\ Met(In, k)
            BY <1>1, <3>2, <3>4, <5>1 DEF InOK
          <5> QED BY <3>3, <5>2
        <4>2. CASE ~Contains(seen, k)
          BY <3>1, <4>2 DEF Met
        <4> QED BY <4>1, <4>2
      <3> QED BY <3>1, <3>3, <3>4
    <2>2. CASE ~cold
      <3> DEFINE top == IF events = {} THEN -1 ELSE Max(events)
                 c == AtLeast(pc, top)
      <3>1. /\ MarkSessionCursor(c) /\ Takes(events) /\ gone' = gone
        BY <2>2 DEF HandleWatchPayload
      <3>2. top \in -1..Len(shape) /\ top <= upto
        <4>1. CASE events = {}
          BY <1>1, <4>1
        <4>2. CASE events # {}
          <5>1. events \in SUBSET (0..Len(shape))
            BY <1>1
          <5>2. \E x \in events : \A y \in events : x >= y
            BY <1>1, <4>2, <5>1, Largest
          <5>3. Max(events) \in events
            BY <5>2 DEF Max
          <5>4. Max(events) \in -1..Len(shape) /\ Max(events) <= upto
            <6>1. \A x \in events : x \in 1..Len(shape) /\ x <= upto
              BY <1>1
            <6>2. \A x \in 1..Len(shape) : x \in -1..Len(shape)
              BY <1>1
            <6> QED BY <5>3, <6>1, <6>2
          <5> QED BY <4>2, <5>4
        <4> QED BY <4>1, <4>2
      <3> HIDE DEF top
      <3>3. c \in -1..Len(shape) /\ c <= upto
        BY <3>2 DEF AtLeast
      <3>4. InOK(In)
        BY DEF MochatOK
      <3> HIDE DEF c
      <3> QED BY <3>1, <3>3, <3>4, Taking
    <2> QED BY <2>1, <2>2
  <1>3. ReadUpTo(upto)'
    <2>1. ASSUME NEW m \in Posted, InSession(m), Wanted(m), m <= upto PROVE Met(In, m)'
      BY <1>1, <1>2, <2>1
    <2> QED BY <2>1, SameLooks DEF ReadUpTo
  <1>4. ReadUpTo(cursor)'
    <2>1. PICK c \in -1..Len(shape) : c <= upto /\ MarkSessionCursor(c)
      BY <1>2
    <2>2. cursor' = cursor \/ cursor' = c
      BY <2>1 DEF MarkSessionCursor
    <2>3. ReadUpTo(cursor)
      BY DEF MochatOK
    <2>4. \A m \in Posted : m <= c => m <= upto
      BY <1>1, <2>1
    <2>5. CASE cursor' = cursor
      <3>1. \A m \in Posted : InSession(m) /\ Wanted(m) /\ m <= cursor => Met(In, m)'
        BY <1>1, <1>2, <2>3 DEF ReadUpTo
      <3>2. cursor \in -1..Len(shape)
        BY <2>3 DEF ReadUpTo
      <3> QED BY <2>5, <3>1, <3>2, SameLooks DEF ReadUpTo
    <2>6. CASE cursor' = c
      <3>1. \A m \in Posted : InSession(m) /\ Wanted(m) /\ m <= c => Met(In, m)'
        BY <1>1, <1>2, <2>4
      <3> QED BY <2>1, <2>6, <3>1, SameLooks DEF ReadUpTo
    <2> QED BY <2>2, <2>5, <2>6
  <1> QED BY <1>2, <1>3, <1>4

\* Every step of Mochat but a crash: the marks are old ones, or such as the
\* payload justifies.
LEMMA MochatKept ==
  ASSUME Types, MochatOK, UNCHANGED <<config, service>>,
         handling' \in [Ids -> Nat], \A k \in Ids : handling'[k] > 0 => k \in Posted,
         InOK(In)', \A k \in Ids : Met(In, k) => Met(In, k)',
         cursor' \in {cursor, saved} \/ ReadUpTo(cursor)',
         saved' \in {saved, cursor},
         subscribed' \in {subscribed, -1, AtLeast(cursor, 0), AtLeast(saved, 0)} \/ ReadUpTo(subscribed)',
         asked' \in {asked, -1, AtLeast(cursor, 0)}
  PROVE  Types' /\ MochatOK'
  <1>1. Types'
    BY InTypes
  <1>2. /\ ReadUpTo(cursor) /\ ReadUpTo(saved) /\ ReadUpTo(subscribed) /\ ReadUpTo(asked)
        /\ ReadUpTo(-1) /\ ReadUpTo(AtLeast(cursor, 0)) /\ ReadUpTo(AtLeast(saved, 0))
    BY Marks DEF MochatOK
  <1>3. Len(shape') = Len(shape) /\ Posted' = Posted /\ Posted \subseteq Ids
    BY IdTypes DEF Posted
  <1>4. ASSUME NEW c, ReadUpTo(c)
        PROVE  /\ c \in -1..Len(shape')
               /\ \A m \in Posted' : InSession(m)' /\ Wanted(m)' /\ m <= c => Met(In, m)'
    BY <1>3, <1>4, SameLooks DEF ReadUpTo
  <1>5. ReadUpTo(cursor)'
    BY <1>2, <1>4 DEF ReadUpTo
  <1>6. ReadUpTo(saved)'
    BY <1>2, <1>4 DEF ReadUpTo
  <1>7. ReadUpTo(subscribed)'
    BY <1>2, <1>4 DEF ReadUpTo
  <1>8. ReadUpTo(asked)'
    BY <1>2, <1>4 DEF ReadUpTo
  <1> QED BY <1>1, <1>5, <1>6, <1>7, <1>8 DEF MochatOK

\* The steps that take nothing in.
LEMMA MochatQuiet ==
  ASSUME Types, MochatOK, UNCHANGED <<config, service, intake, ghosts>>,
         cursor' \in {cursor, saved}, saved' \in {saved, cursor},
         subscribed' \in {subscribed, -1, AtLeast(cursor, 0), AtLeast(saved, 0)},
         asked' \in {asked, -1, AtLeast(cursor, 0)}
  PROVE  Types' /\ MochatOK'
  <1>1. InOK(In)' /\ \A k \in Ids : Met(In, k) => Met(In, k)'
    BY InSame DEF MochatOK
  <1>2. handling' \in [Ids -> Nat] /\ \A k \in Ids : handling'[k] > 0 => k \in Posted
    BY DEF Types
  <1> QED BY <1>1, <1>2, MochatKept

\* The steps that take one message or some of the panel in, without a cursor.
LEMMA MochatTakes ==
  ASSUME Types, MochatOK, UNCHANGED <<config, service, gone, cursor, saved, subscribed, asked>>,
         handling' \in [Ids -> Nat], \A k \in Ids : handling'[k] > 0 => k \in Posted,
         \/ \E events \in SUBSET Posted : Takes(events)
         \/ UNCHANGED <<seen, buffer, timer, again, inbound, times>>
  PROVE  Types' /\ MochatOK'
  <1>1. InOK(In)' /\ \A k \in Ids : Met(In, k) => Met(In, k)'
    <2>1. InOK(In) /\ gone \subseteq gone'
      BY DEF MochatOK
    <2>2. CASE \E events \in SUBSET Posted : Takes(events)
      BY <2>1, <2>2, Taking
    <2>3. CASE UNCHANGED <<seen, buffer, timer, again, inbound, times>>
      BY <2>1, <2>3, InSame
    <2> QED BY <2>2, <2>3
  <1> QED BY <1>1, MochatKept

\* Several events of the session up to `upto', after what lo has brought.
LEMMA SincePayload ==
  ASSUME Types, MochatOK, UNCHANGED <<config, shape>>, NEW lo, ReadUpTo(lo),
         NEW upto \in lo..Len(shape), HandleWatchPayload(Since(lo, upto), upto)
  PROVE  /\ InOK(In)' /\ \A k \in Ids : Met(In, k) => Met(In, k)'
         /\ ReadUpTo(upto)' /\ ReadUpTo(cursor)'
  <1>1. Len(shape) \in Nat /\ Posted = 1..Len(shape) /\ lo \in -1..Len(shape)
    BY IdTypes DEF ReadUpTo
  <1>2. upto \in -1..Len(shape) /\ upto <= upto
    BY <1>1
  <1>3. /\ Since(lo, upto) \subseteq Posted /\ \A m \in Since(lo, upto) : m <= upto
        /\ \A m \in Posted : InSession(m) /\ Wanted(m) /\ m <= upto => Met(In, m) \/ m \in Since(lo, upto)
    BY <1>1 DEF Since, ReadUpTo
  <1> QED BY <1>2, <1>3, Payload

LEMMA HandlingKept ==
  ASSUME Types, UNCHANGED handling
  PROVE  handling' \in [Ids -> Nat] /\ \A k \in Ids : handling'[k] > 0 => k \in Posted
  BY DEF Types

LEMMA MochatStep ==
  ASSUME Types, MochatOK, MochatNext
  PROVE  Types' /\ MochatOK'
  <1>1. CASE \E socket \in BOOLEAN : MochatStart(socket)
    <2>1. /\ UNCHANGED <<config, service, intake, ghosts, saved, asked>> /\ cursor' = saved
          /\ subscribed' \in {subscribed, AtLeast(saved, 0)}
      BY <1>1 DEF MochatStart
    <2> QED BY <2>1, MochatQuiet
  <1>2. CASE MochatReconnect
    <2>1. /\ UNCHANGED <<config, service, intake, ghosts, cursor, saved, asked>>
          /\ subscribed' = AtLeast(cursor, 0)
      BY <1>2 DEF MochatReconnect
    <2> QED BY <2>1, MochatQuiet
  <1>3. CASE MochatSubscribed
    <2>1. /\ UNCHANGED <<config, service, handling, saved>> /\ asked' \in {asked, -1}
          /\ \/ \E upto \in subscribed..Len(shape) :
                  subscribed' = upto /\ HandleWatchPayload(Since(subscribed, upto), upto)
             \/ UNCHANGED <<subscribed, cursor, gone, seen, buffer, timer, again, inbound, times>>
      BY <1>3 DEF MochatSubscribed, Ready, FallbackOff, FallbackOn
    <2>2. CASE UNCHANGED <<subscribed, cursor, gone, seen, buffer, timer, again, inbound, times>>
      BY <2>1, <2>2, MochatQuiet
    <2>3. ASSUME NEW upto \in subscribed..Len(shape), subscribed' = upto,
                 HandleWatchPayload(Since(subscribed, upto), upto)
          PROVE  Types' /\ MochatOK'
      <3>1. ReadUpTo(subscribed)
        BY DEF MochatOK
      <3>2. /\ InOK(In)' /\ \A k \in Ids : Met(In, k) => Met(In, k)'
            /\ ReadUpTo(upto)' /\ ReadUpTo(cursor)'
        BY <2>1, <2>3, <3>1, SincePayload
      <3>3. ReadUpTo(subscribed)'
        BY <2>3, <3>2 DEF ReadUpTo
      <3> QED BY <2>1, <3>2, <3>3, HandlingKept, MochatKept
    <2> QED BY <2>1, <2>2, <2>3
  <1>4. CASE MochatSubscribeFails \/ MochatRefreshed
    <2>1. UNCHANGED <<config, service, intake, ghosts, cursor, saved, subscribed>> /\ asked' \in {asked, -1}
      BY <1>4 DEF MochatSubscribeFails, MochatRefreshed, Ready, FallbackOff, FallbackOn
    <2> QED BY <2>1, MochatQuiet
  <1>5. CASE MochatDisconnect
    <2>1. /\ UNCHANGED <<config, service, intake, ghosts, cursor, saved, asked>> /\ subscribed' = -1
      BY <1>5 DEF MochatDisconnect, FallbackOn
    <2> QED BY <2>1, MochatQuiet
  <1>6. ASSUME NEW m \in Ids, MochatSessionEvent(m) PROVE Types' /\ MochatOK'
    <2>1. /\ UNCHANGED <<config, service, handling, saved, asked>> /\ m \in Posted /\ InSession(m)
          /\ \A k \in 1..(m - 1) : InSession(k) => k <= subscribed
          /\ subscribed' = AtLeast(subscribed, m)
      BY <1>6 DEF MochatSessionEvent, Pushed
    <2>2. PICK pc \in {-1, m} : HandleWatchPayload({m}, pc)
      BY <1>6 DEF MochatSessionEvent
    <2>3. /\ Len(shape) \in Nat /\ Posted = 1..Len(shape) /\ m \in -1..Len(shape) /\ m >= 1
          /\ subscribed \in -1..Len(shape)
      BY <2>1, IdTypes DEF MochatOK, ReadUpTo
    <2>4. /\ pc \in -1..Len(shape) /\ pc <= m
      BY <2>2, <2>3
    <2>5. ASSUME NEW k \in Posted, InSession(k), Wanted(k), k <= m PROVE Met(In, k) \/ k \in {m}
      <3>1. CASE k = m
        BY <3>1
      <3>2. CASE k # m
        <4>1. k \in 1..(m - 1)
          BY <2>3, <2>5, <3>2
        <4> QED BY <2>1, <2>5, <4>1 DEF MochatOK, ReadUpTo
      <3> QED BY <3>1, <3>2
    <2>6. /\ InOK(In)' /\ \A k \in Ids : Met(In, k) => Met(In, k)'
          /\ ReadUpTo(m)' /\ ReadUpTo(cursor)'
      <3>1. {m} \subseteq Posted /\ \A k \in {m} : k <= m
        BY <2>1, <2>3
      <3> QED BY <2>1, <2>2, <2>3, <2>4, <2>5, <3>1, Payload
    <2>7. subscribed' = subscribed \/ ReadUpTo(subscribed)'
      <3>1. subscribed' = subscribed \/ subscribed' = m
        BY <2>1 DEF AtLeast
      <3> QED BY <2>6, <3>1 DEF ReadUpTo
    <2> QED BY <2>1, <2>6, <2>7, HandlingKept, MochatKept
  <1>7. ASSUME NEW m \in Ids, MochatPanelEvent(m) PROVE Types' /\ MochatOK'
    <2>1. /\ UNCHANGED <<config, service, handling, gone, cursor, saved, subscribed, asked>>
          /\ {m} \in SUBSET Posted /\ Takes({m})
      BY <1>7 DEF MochatPanelEvent, Pushed
    <2> QED BY <2>1, HandlingKept, MochatTakes
  <1>8. ASSUME NEW m \in Ids, MochatInbox(m) PROVE Types' /\ MochatOK'
    <2>1. /\ UNCHANGED <<config, service, gone, cursor, saved, subscribed, asked>>
          /\ m \in Posted /\ {m} \in SUBSET Posted
          /\ \/ Takes({m}) /\ UNCHANGED handling
             \/ Enters(m) /\ UNCHANGED <<seen, buffer, timer, again, inbound, times>>
      BY <1>8 DEF MochatInbox, Pushed
    <2>2. handling' \in [Ids -> Nat] /\ \A k \in Ids : handling'[k] > 0 => k \in Posted
      <3>1. handling \in [Ids -> Nat] /\ \A k \in Ids : handling[k] > 0 => k \in Posted
        BY DEF Types
      <3>2. CASE Enters(m)
        <4>1. handling' = [handling EXCEPT ![m] = @ + 1]
          BY <3>2 DEF Enters
        <4> QED BY <2>1, <3>1, <4>1
      <3>3. CASE UNCHANGED handling
        BY <3>1, <3>3
      <3> QED BY <2>1, <3>2, <3>3
    <2> QED BY <2>1, <2>2, MochatTakes
  <1>9. ASSUME NEW m \in Ids, NEW found \in BOOLEAN, MochatLookedUp(m, found) PROVE Types' /\ MochatOK'
    <2>1. /\ UNCHANGED <<config, service, gone, cursor, saved, subscribed, asked>>
          /\ handling[m] > 0 /\ Leaves(m)
          /\ Takes({m}) \/ UNCHANGED <<seen, buffer, timer, again, inbound, times>>
      BY <1>9 DEF MochatLookedUp
    <2>2. m \in Posted /\ {m} \in SUBSET Posted
      BY <2>1 DEF Types
    <2>3. handling' \in [Ids -> Nat] /\ \A k \in Ids : handling'[k] > 0 => k \in Posted
      BY <2>1 DEF Leaves, Types
    <2> QED BY <2>1, <2>2, <2>3, MochatTakes
  <1>10. CASE MochatWatch
    <2>1. UNCHANGED <<config, service, intake, ghosts, cursor, saved, subscribed>> /\ asked' = AtLeast(cursor, 0)
      BY <1>10 DEF MochatWatch
    <2> QED BY <2>1, MochatQuiet
  <1>11. CASE MochatWatched
    <2>1. /\ UNCHANGED <<config, service, handling, saved, subscribed>> /\ asked' = -1
          /\ \E upto \in asked..Len(shape) : HandleWatchPayload(Since(asked, upto), upto)
      BY <1>11 DEF MochatWatched
    <2>2. ReadUpTo(asked)
      BY DEF MochatOK
    <2>3. InOK(In)' /\ (\A k \in Ids : Met(In, k) => Met(In, k)') /\ ReadUpTo(cursor)'
      BY <2>1, <2>2, SincePayload
    <2> QED BY <2>1, <2>3, HandlingKept, MochatKept
  <1>12. CASE MochatWatchFails
    <2>1. UNCHANGED <<config, service, intake, ghosts, cursor, saved, subscribed>> /\ asked' = -1
      BY <1>12 DEF MochatWatchFails
    <2> QED BY <2>1, MochatQuiet
  <1>13. CASE MochatPoll
    <2>1. /\ UNCHANGED <<config, service, handling, gone, cursor, saved, subscribed, asked>>
          /\ \E events \in SUBSET Posted : Takes(events)
      BY <1>13 DEF MochatPoll
    <2> QED BY <2>1, HandlingKept, MochatTakes
  <1>14. CASE MochatFlush
    <2>1. /\ UNCHANGED <<config, service, seen, handling, gone, again, cursor, saved, subscribed, asked>>
          /\ timer /\ timer' = FALSE /\ buffer' = <<>> /\ Publish(buffer)
      BY <1>14 DEF MochatFlush
    <2>2. /\ buffer \in Seq(Ids) /\ buffer # <<>> /\ times \in [Ids -> 0..2]
          /\ Len(buffer) \in DOMAIN buffer /\ buffer[Len(buffer)] \in Ids
      BY <2>1 DEF Types
    <2>3. /\ In.buffer = buffer /\ In.seen = seen /\ In.times = times /\ In.again = again
          /\ In'.buffer = <<>> /\ In'.seen = seen /\ In'.times = times' /\ In'.again = again
          /\ In'.timer = FALSE
      BY <2>1 DEF In
    <2>4. \A k : Has(In, k) <=> InBuffer(k)
      BY <2>3 DEF Has, InBuffer
    <2>5. Allowed(buffer[Len(buffer)])
      BY <2>2, <2>4 DEF MochatOK, InOK, InBuffer
    <2>6. /\ times' \in [Ids -> 0..2]
          /\ \A k \in Ids :
               /\ ~InBuffer(k) => times'[k] = times[k]
               /\ InBuffer(k) => times'[k] > 0
               /\ times[k] = 0 /\ Unique(buffer, k) => times'[k] <= 1
      BY <2>1, <2>2, <2>5, PublishAll
    <2>7. \A k : ~Has(In, k)' /\ (Knows(In, k)' <=> Knows(In, k))
      BY <2>3 DEF Has, Knows
    <2>8. \A k \in Ids : Met(In, k) => Met(In, k)'
      BY <2>1, <2>3, <2>4, <2>6 DEF Met
    <2>9. Whole(In)'
      BY DEF Whole, In, InFields
    <2>10. /\ Posted' = Posted
           /\ \A k : (Allowed(k)' <=> Allowed(k)) /\ (Wanted(k)' <=> Wanted(k)) /\ (InSession(k)' <=> InSession(k))
      BY <2>1, SameLooks
    <2>11. ASSUME NEW k \in Ids
           PROVE  /\ Knows(In, k) => k \in Posted
                  /\ k \notin again => times'[k] <= 1 /\ (times'[k] > 0 => Knows(In, k))
                  /\ Knows(In, k) /\ Wanted(k) => Met(In, k)'
      <3>1. /\ Knows(In, k) => k \in Posted
            /\ k \notin again => /\ InBuffer(k) => Knows(In, k) /\ times[k] = 0 /\ Unique(buffer, k)
                                 /\ times[k] <= 1
                                 /\ times[k] > 0 => Knows(In, k)
            /\ Knows(In, k) /\ Wanted(k) => Met(In, k)
        BY <2>3, <2>4 DEF MochatOK, InOK
      <3> QED BY <2>6, <2>8, <3>1
    <2>12. InOK(In)'
      <3>1. <<>> \in Seq(Ids) /\ seen \in Seq(Ids)
        BY DEF Types
      <3> QED BY <2>3, <2>6, <2>7, <2>9, <2>10, <2>11, <3>1 DEF InOK
    <2> QED BY <2>1, <2>8, <2>12, HandlingKept, MochatKept
  <1>15. CASE MochatSave
    <2>1. UNCHANGED <<config, service, intake, ghosts, cursor, subscribed, asked>> /\ saved' = cursor
      BY <1>15 DEF MochatSave
    <2> QED BY <2>1, MochatQuiet
  <1>16. CASE MochatSend
    <2>1. UNCHANGED <<config, service, intake, ghosts, cursor, saved, subscribed, asked>>
      BY <1>16 DEF MochatSend, TextSend
    <2> QED BY <2>1, MochatQuiet
  <1>17. CASE MochatCrash
    <2>1. /\ UNCHANGED <<config, service, saved>>
          /\ gone' = gone \union ToSet(buffer) \union {m \in Ids : handling[m] + times[m] > 0}
          /\ times' = [m \in Ids |-> 0] /\ handling' = [m \in Ids |-> 0]
          /\ seen' = <<>> /\ buffer' = <<>> /\ timer' = FALSE
          /\ cursor' = -1 /\ subscribed' = -1 /\ asked' = -1
      BY <1>17 DEF MochatCrash
    <2>2. /\ In'.buffer = <<>> /\ In'.seen = <<>> /\ In'.timer = FALSE /\ In'.times = times'
          /\ In.buffer = buffer /\ In.times = times
      BY <2>1 DEF In
    <2>3. /\ times' \in [Ids -> 0..2] /\ handling' \in [Ids -> Nat] /\ <<>> \in Seq(Ids)
          /\ \A k \in Ids : times'[k] = 0 /\ handling'[k] = 0
      BY <2>1
    <2>4. \A k : ~Has(In, k)' /\ ~Knows(In, k)'
      BY <2>2 DEF Has, Knows
    <2>5. Whole(In)'
      BY DEF Whole, In, InFields
    <2>6. InOK(In)'
      <3>1. In'.seen \in Seq(Ids) /\ In'.buffer \in Seq(Ids) /\ In'.times \in [Ids -> 0..2]
            /\ In'.timer \in BOOLEAN /\ (In'.timer <=> In'.buffer # <<>>)
        BY <2>2, <2>3
      <3>2. \A k \in Ids : In'.times[k] = 0
        BY <2>2, <2>3
      <3> QED BY <2>4, <2>5, <3>1, <3>2 DEF InOK
    <2>7. ASSUME NEW k \in Ids, Met(In, k) PROVE Met(In, k)'
      <3>1. CASE times[k] > 0
        <4>1. handling[k] + times[k] > 0
          BY <3>1, CountTypes
        <4> QED BY <2>1, <4>1 DEF Met
      <3>2. CASE Has(In, k)
        BY <2>1, <2>2, <3>2 DEF Met, Has, ToSet
      <3>3. CASE k \in gone
        BY <2>1, <3>3 DEF Met
      <3> QED BY <2>2, <2>7, <3>1, <3>2, <3>3 DEF Met
    <2>8. ReadUpTo(cursor)'
      <3>1. Len(shape) \in Nat /\ Posted = 1..Len(shape)
        BY IdTypes
      <3> QED BY <2>1, <3>1 DEF ReadUpTo, Posted
    <2>9. \A k \in Ids : handling'[k] > 0 => k \in Posted
      BY <2>3
    <2> QED BY <2>1, <2>3, <2>6, <2>7, <2>8, <2>9, MochatKept
  <1> QED BY <1>1, <1>2, <1>3, <1>4, <1>5, <1>6, <1>7, <1>8, <1>9, <1>10, <1>11, <1>12, <1>13,
      <1>14, <1>15, <1>16, <1>17 DEF MochatNext

LEMMA MochatPosted ==
  ASSUME Types, MochatOK, UNCHANGED mochatVars, NEW s \in Shapes, Post(s)
  PROVE  MochatOK'
  <1>1. UNCHANGED <<config, left, intake, inbound, ghosts>> /\ In' = In
    BY DEF Post, In
  <1>2. PICK new \in Ids : new \notin Posted /\ Posted' = Posted \union {new} /\ new = Len(shape')
                           /\ Len(shape') = Len(shape) + 1
    BY Posting
  <1>3. \A k : /\ Has(In, k)' <=> Has(In, k)
               /\ Knows(In, k)' <=> Knows(In, k)
               /\ Met(In, k)' <=> Met(In, k)
    BY <1>1 DEF Has, Knows, Met
  <1>4. \A k \in Posted : /\ Allowed(k)' <=> Allowed(k)
                          /\ Wanted(k)' <=> Wanted(k)
                          /\ InSession(k)' <=> InSession(k)
    BY Posting
  <1>5. InOK(In)'
    <2>1. Whole(In)'
      BY DEF Whole, In, InFields
    <2>2. ASSUME NEW k \in Ids
          PROVE  /\ Has(In, k) => k \in Posted' /\ Allowed(k)' /\ ~InSession(k)'
                 /\ Knows(In, k) => k \in Posted'
                 /\ Knows(In, k) /\ Wanted(k)' => Met(In, k)
      BY <1>2, <1>4 DEF MochatOK, InOK
    <2> QED BY <1>1, <1>3, <2>1, <2>2 DEF MochatOK, InOK
  <1>6. Len(shape) \in Nat /\ Posted = 1..Len(shape)
    BY IdTypes
  <1>7. ASSUME NEW c, ReadUpTo(c)
        PROVE  /\ c \in -1..Len(shape')
               /\ \A m \in Posted' : InSession(m)' /\ Wanted(m)' /\ m <= c => Met(In, m)'
    <2>1. c \in -1..Len(shape) /\ ~(new <= c)
      BY <1>2, <1>6, <1>7 DEF ReadUpTo
    <2>2. c \in -1..Len(shape')
      BY <1>2, <1>6, <2>1
    <2> QED BY <1>2, <1>3, <1>4, <1>7, <2>1, <2>2 DEF ReadUpTo
  <1> QED BY <1>1, <1>5, <1>7 DEF MochatOK, ReadUpTo

LEMMA MochatStopped ==
  ASSUME Types, MochatOK, MochatStop
  PROVE  MochatOK'
  <1>1. /\ Stopped({}) /\ subscribed' = -1 /\ asked' = -1 /\ saved' = cursor /\ UNCHANGED <<cursor, left>>
    BY DEF MochatStop, FallbackOff, Stopped
  <1>2. /\ UNCHANGED <<config, service, seen, times, again>> /\ buffer' = <<>> /\ timer' = FALSE
        /\ gone \subseteq gone' /\ \A k \in Ids : handling'[k] = 0
    BY <1>1, Stopping DEF Stopped
  <1>3. \A k \in Ids : InBuffer(k) => k \in gone'
    BY <1>1, Stopping DEF Underway
  <1>4. /\ In'.buffer = <<>> /\ In'.seen = In.seen /\ In'.timer = FALSE /\ In'.times = In.times
        /\ In'.again = In.again /\ In.buffer = buffer
    BY <1>2 DEF In
  <1>5. \A k : /\ ~Has(In, k)' /\ (Knows(In, k)' <=> Knows(In, k)) /\ (Has(In, k) <=> InBuffer(k))
    BY <1>4 DEF Has, Knows, InBuffer
  <1>6. \A k \in Ids : Met(In, k) => Met(In, k)'
    BY <1>2, <1>3, <1>4, <1>5 DEF Met
  <1>7. /\ Posted' = Posted
        /\ \A k : (Allowed(k)' <=> Allowed(k)) /\ (Wanted(k)' <=> Wanted(k)) /\ (InSession(k)' <=> InSession(k))
    BY <1>2, SameLooks
  <1>8. InOK(In)'
    <2>1. Whole(In)' /\ <<>> \in Seq(Ids)
      BY DEF Whole, In, InFields
    <2> QED BY <1>4, <1>5, <1>6, <1>7, <2>1 DEF MochatOK, InOK
  <1>9. handling' \in [Ids -> Nat] /\ \A k \in Ids : handling'[k] > 0 => k \in Posted
    BY <1>1, Stopping
  <1> QED BY <1>1, <1>2, <1>6, <1>8, <1>9, MochatKept

-----------------------------------------------------------------------------
(* All channels together *)

\* A step of the agent, the dispatcher or the manager takes nothing in.
LEMMA ChannelSame ==
  ASSUME Types, ChannelOK, UNCHANGED <<config, service, intake, ghosts, mailVars, mochatVars, pushVars>>
  PROVE  Types' /\ ChannelOK'
  <1>1. UNCHANGED enabled
    OBVIOUS
  <1>2. Types'
    BY DEF Types, Known, InBuffer, Posted
  <1>3. enabled \in Typists => OnceOK'
    BY OnceSame DEF ChannelOK
  <1>4. ASSUME enabled = "email" PROVE MailOK'
    <2>1. MailOK
      BY <1>4 DEF ChannelOK
    <2>2. todo' \subseteq Posted
      BY <2>1 DEF MailOK
    <2> QED BY <2>1, <2>2, MailSame
  <1>5. ASSUME enabled = "mochat" PROVE MochatOK'
    BY <1>5, MochatQuiet DEF ChannelOK
  <1>6. SlackOK => SlackOK'
    BY DEF SlackOK, Given, Allowed, Wanted, Posted
  <1>7. DingOK => DingOK'
    BY DEF DingOK, Given, Allowed, Wanted, Posted
  <1>8. CacheOK => CacheOK'
    BY CacheSame
  <1> QED BY <1>1, <1>2, <1>3, <1>4, <1>5, <1>6, <1>7, <1>8 DEF ChannelOK

LEMMA ChannelPosted ==
  ASSUME Types, ChannelOK, UNCHANGED <<mailVars, mochatVars, pushVars>>, NEW s \in Shapes, Post(s)
  PROVE  Types' /\ ChannelOK'
  <1>1. UNCHANGED enabled
    BY DEF Post
  <1>2. Types'
    BY Posting
  <1> QED BY <1>1, <1>2, OncePosted, MailPosted, MochatPosted, SlackPosted, DingPosted, CachePosted
      DEF ChannelOK

LEMMA PushChannel ==
  ASSUME PushNext
  PROVE  enabled \in {"feishu", "qq", "whatsapp", "dingtalk", "slack"} /\ UNCHANGED enabled
  BY DEF PushNext, FeishuUp, DingTalkUp, SlackUp, QQUp, WhatsAppUp, PushUp, PushLost, Forwards,
     FeishuEvent, FeishuFails, QQMessage, BridgeMessage, DingTalkEvent, SlackMessage, SlackMention,
     FeishuSend, DingTalkSend, SlackSend, QQSend, WhatsAppSend, TextSend, PushFrame, CachedEvent

LEMMA ChannelStep ==
  ASSUME Types, ChannelOK, [Next]_vars
  PROVE  Types' /\ ChannelOK'
  <1>1. CASE Core
    <2>1. UNCHANGED <<mailVars, mochatVars, pushVars>>
      BY <1>1 DEF Core
    <2>2. \/ \E s \in Shapes : Post(s)
          \/ UNCHANGED <<config, service, intake, ghosts>>
      BY <1>1 DEF Core, BusNext, Answer, NoAnswer, Turn, Dispatch, StartFails, StopAll
    <2> QED BY <2>1, <2>2, ChannelPosted, ChannelSame
  <1>2. CASE Plain
    <2>1. CASE enabled = "telegram" /\ TelegramNext
      <3>1. UNCHANGED enabled
        BY <2>1 DEF TelegramNext, TelegramUp, TelegramText, TelegramCommand, TelegramMedia,
           TelegramDownloaded, TelegramFlush, TelegramSend
      <3> QED BY <2>1, <3>1, TelegramStep DEF ChannelOK, Typists
    <2>2. CASE enabled = "discord" /\ DiscordNext
      <3>1. UNCHANGED enabled
        BY <2>2 DEF DiscordNext, DiscordReady, DiscordReconnect, DiscordText, DiscordMedia,
           DiscordDownloaded, DiscordSend
      <3> QED BY <2>2, <3>1, DiscordStep DEF ChannelOK, Typists
    <2>3. CASE enabled = "matrix" /\ MatrixNext
      <3>1. UNCHANGED enabled
        BY <2>3 DEF MatrixNext, MatrixUp, MatrixSyncFails, MatrixIgnore, MatrixText, MatrixMedia,
           MatrixFetched, MatrixFails, MatrixForward, MatrixSend, MatrixUntyped
      <3> QED BY <2>3, <3>1, MatrixStep DEF ChannelOK, Typists
    <2> QED BY <1>2, <2>1, <2>2, <2>3 DEF Plain
  <1>3. CASE Email
    <2>1. enabled = "email" /\ MailNext
      BY <1>3 DEF Email
    <2>2. UNCHANGED enabled
      BY <2>1 DEF MailNext, MailUp, MailSearch, MailFetch, MailSkip, MailBreaks, MailPublish, MailSend
    <2> QED BY <2>1, <2>2, MailStep DEF ChannelOK, Typists
  <1>4. CASE Panels
    <2>1. enabled = "mochat" /\ MochatNext
      BY <1>4 DEF Panels
    <2>2. UNCHANGED enabled
      BY <2>1 DEF MochatNext, MochatStart, MochatReconnect, MochatSubscribed, MochatSubscribeFails,
         MochatRefreshed, MochatDisconnect, MochatSessionEvent, MochatPanelEvent, MochatInbox,
         MochatLookedUp, MochatWatch, MochatWatched, MochatWatchFails, MochatPoll, MochatFlush,
         MochatSave, MochatCrash, MochatSend, TextSend
    <2> QED BY <2>1, <2>2, MochatStep DEF ChannelOK, Typists
  <1>5. CASE Push
    <2>1. PushNext
      BY <1>5 DEF Push
    <2>2. enabled \in {"feishu", "qq", "whatsapp", "dingtalk", "slack"} /\ UNCHANGED enabled
      BY <2>1, PushChannel
    <2>3. CASE enabled = "slack"
      BY <2>1, <2>2, <2>3, SlackStep DEF ChannelOK, Typists
    <2>4. CASE enabled = "dingtalk"
      BY <2>1, <2>2, <2>4, DingStep DEF ChannelOK, Typists
    <2>5. CASE enabled \in {"feishu", "qq", "whatsapp"}
      BY <2>1, <2>2, <2>5, CacheStep DEF ChannelOK, Typists
    <2> QED BY <2>2, <2>3, <2>4, <2>5
  <1>6. CASE Stop
    <2>1. CASE enabled = "email" /\ MailStop
      <3>1. Types' /\ UNCHANGED enabled
        BY <2>1, Stopping DEF MailStop
      <3>2. MailOK
        BY <2>1 DEF ChannelOK
      <3> QED BY <2>1, <3>1, <3>2, MailStopped DEF ChannelOK, Typists
    <2>2. CASE enabled = "mochat" /\ MochatStop
      <3>1. Types' /\ UNCHANGED enabled
        BY <2>2, Stopping DEF MochatStop
      <3>2. MochatOK
        BY <2>2 DEF ChannelOK
      <3> QED BY <2>2, <3>1, <3>2, MochatStopped DEF ChannelOK, Typists
    <2>3. CASE /\ TelegramStop \/ DiscordStop \/ MatrixStop \/ PushStop
               /\ UNCHANGED <<mailVars, mochatVars, pushVars>>
      <3>1. /\ Stopped({}) /\ UNCHANGED pushVars
            /\ enabled \in {"telegram", "discord", "matrix", "feishu", "dingtalk", "slack", "qq", "whatsapp"}
        BY <2>3 DEF TelegramStop, DiscordStop, MatrixStop, PushStop, FeishuStop, DingTalkStop,
           SlackStop, QQStop, WhatsAppStop, PlainStop
      <3>2. Types' /\ UNCHANGED enabled
        BY <3>1, Stopping
      <3> QED BY <3>1, <3>2, OnceStopped, SlackStopped, DingStopped, CacheStopped DEF ChannelOK, Typists
    <2> QED BY <1>6, <2>1, <2>2, <2>3 DEF Stop
  <1>7. CASE Ended \/ UNCHANGED vars
    BY <1>7, ChannelSame DEF Ended, vars
  <1> QED BY <1>1, <1>2, <1>3, <1>4, <1>5, <1>6, <1>7 DEF Next

LEMMA ChannelInit ==
  ASSUME Init
  PROVE  Types /\ ChannelOK
  <1>1. /\ shape = <<>> /\ left = [m \in Ids |-> IF enabled \in Once THEN 1 ELSE Copies]
        /\ seen = <<>> /\ handling = [m \in Ids |-> 0] /\ times = [m \in Ids |-> 0]
        /\ buffer = <<>> /\ timer = FALSE /\ gone = {} /\ again = {}
        /\ poll = "sleep" /\ todo = {} /\ fetched = <<>> /\ paired = {}
        /\ cursor = -1 /\ saved = -1 /\ subscribed = -1 /\ asked = -1
    BY DEF Init, BusInit, MailInit, MochatInit, PushInit
  <1>2. Copies \in Nat /\ IsFiniteSet(Ids) /\ Cardinality(Ids) \in Nat
    BY BusAssumption, FS_CardinalityType
  <1>3. /\ <<>> \in Seq(Ids) /\ <<>> \in Seq(Shapes) /\ Len(shape) = 0 /\ Posted = {}
        /\ \A m : ~Known(m) /\ ~InBuffer(m)
    BY <1>1 DEF Known, InBuffer, Posted
  <1>4. \A m \in Ids : handling[m] = 0 /\ times[m] = 0
    BY <1>1
  <1>5. Types
    <2>1. /\ left \in [Ids -> Nat] /\ handling \in [Ids -> Nat] /\ times \in [Ids -> 0..2]
      BY <1>1, <1>2
    <2>2. timer \in BOOLEAN /\ (timer <=> buffer # <<>>)
      BY <1>1
    <2>3. seen \in Seq(Ids) /\ buffer \in Seq(Ids) /\ shape \in Seq(Shapes) /\ Len(shape) <= Cardinality(Ids)
      BY <1>1, <1>2, <1>3
    <2> QED BY <1>3, <1>4, <2>1, <2>2, <2>3 DEF Types
  <1>6. enabled \in Typists => OnceOK
    BY <1>1, <1>3, <1>4 DEF OnceOK, Typists, Once, Underway
  <1>7. enabled = "email" => MailOK
    BY <1>1, <1>3, <1>4 DEF MailOK, Once, Fetched
  <1>8. enabled = "mochat" => MochatOK
    <2>1. /\ In.seen = <<>> /\ In.buffer = <<>> /\ In.timer = FALSE /\ In.times = times
      BY <1>1 DEF In
    <2>2. Whole(In)
      BY DEF Whole, In, InFields
    <2>3. \A m : ~Has(In, m) /\ ~Knows(In, m)
      BY <2>1 DEF Has, Knows
    <2>4. /\ In.seen \in Seq(Ids) /\ In.buffer \in Seq(Ids) /\ In.times \in [Ids -> 0..2]
          /\ In.timer \in BOOLEAN /\ (In.timer <=> In.buffer # <<>>)
          /\ \A m \in Ids : In.times[m] = 0
      <3>1. times \in [Ids -> 0..2]
        BY <1>1
      <3> QED BY <1>1, <1>3, <1>4, <2>1, <3>1
    <2>5. InOK(In)
      BY <2>2, <2>3, <2>4 DEF InOK
    <2> QED BY <1>1, <1>3, <2>5 DEF MochatOK, ReadUpTo
  <1>9. enabled \notin Once => SlackOK /\ DingOK /\ CacheOK
    BY <1>1, <1>2, <1>3, <1>4 DEF SlackOK, DingOK, CacheOK, Given
  <1> QED BY <1>5, <1>6, <1>7, <1>8, <1>9 DEF ChannelOK, Typists, Once

LEMMA ChannelInvariant == Spec => [](Types /\ ChannelOK)
  <1>1. Init => Types /\ ChannelOK
    BY ChannelInit
  <1>2. Types /\ ChannelOK /\ [Next]_vars => Types' /\ ChannelOK'
    BY ChannelStep
  <1> QED BY <1>1, <1>2, PTL DEF Spec

LEMMA BufferInHand ==
  ASSUME Types, NEW m, InBuffer(m)
  PROVE  InHand(m)
  <1>1. buffer \in Seq(Ids) /\ (timer <=> buffer # <<>>)
    BY DEF Types
  <1>2. buffer # <<>> /\ Contains(buffer, m)
    BY <1>1 DEF InBuffer, Contains
  <1> QED BY <1>1, <1>2 DEF InHand

LEMMA Handed ==
  ASSUME Types, ChannelOK, NEW m \in Posted, Taken(m), Wanted(m)
  PROVE  times[m] > 0 \/ InHand(m) \/ m \in gone
  <1>1. m \in Ids /\ Posted \subseteq Ids
    BY IdTypes
  <1>2. left[m] \in Nat /\ Copies \in Nat \ {0}
    BY <1>1, CountTypes, BusAssumption
  <1>3. InBuffer(m) => InHand(m)
    BY BufferInHand
  <1>4. handling[m] > 0 \/ m \in Fetched => InHand(m)
    BY DEF InHand
  <1>5. CASE enabled \in Typists
    <2>1. left[m] = 0
      BY <1>5 DEF Taken, Typists, Once
    <2>2. times[m] > 0 \/ Underway(m) \/ m \in gone
      BY <1>1, <1>5, <2>1 DEF ChannelOK, OnceOK
    <2> QED BY <1>3, <1>4, <2>2 DEF Underway
  <1>6. CASE enabled = "email"
    <2>1. left[m] = 0 \/ Known(m)
      BY <1>6 DEF Taken
    <2>2. times[m] > 0 \/ m \in Fetched \/ m \in gone
      BY <1>1, <1>6, <2>1 DEF ChannelOK, MailOK
    <2> QED BY <1>4, <2>2
  <1>7. CASE enabled = "mochat"
    <2>1. MochatOK
      BY <1>7 DEF ChannelOK
    <2>2. (InSession(m) => m <= cursor) /\ (~InSession(m) => Known(m))
      BY <1>7 DEF Taken, Once
    <2>3. In.seen = seen /\ In.buffer = buffer /\ In.times = times
      BY DEF In
    <2>4. Known(m) <=> Knows(In, m)
      BY <2>3 DEF Known, Knows
    <2>5. Met(In, m)
      BY <1>1, <2>1, <2>2, <2>4 DEF MochatOK, ReadUpTo, InOK
    <2>6. times[m] > 0 \/ InBuffer(m) \/ m \in gone
      BY <2>3, <2>5 DEF Met, Has, InBuffer
    <2> QED BY <1>3, <2>6
  <1>8. CASE enabled = "slack"
    <2>1. IF shape[m].mention THEN m \in paired ELSE left[m] < Copies
      BY <1>8 DEF Taken, Once
    <2>2. Given(m)
      BY <1>1, <1>8, <2>1 DEF ChannelOK, SlackOK
    <2> QED BY <1>4, <2>2 DEF Given
  <1>9. CASE enabled \notin Typists \union {"email", "mochat", "slack"}
    <2>1. left[m] < Copies
      BY <1>9 DEF Taken, Once, Typists
    <2>2. Given(m)
      BY <1>1, <1>9, <2>1 DEF ChannelOK, DingOK, CacheOK
    <2> QED BY <1>4, <2>2 DEF Given
  <1> QED BY <1>5, <1>6, <1>7, <1>8, <1>9

\* Whatever the channel, its policy and the order of deliveries, downloads,
\* failures and restarts, what the service, the mailbox or the saved cursor
\* regards as read is on the bus, in hand, or was given up by a step that says
\* so (the handlers of the ten channels, Mochat's cursor and its file).
THEOREM NothingLost == Spec => []Accounted
  <1>1. Types /\ ChannelOK => Accounted
    BY Handed DEF Accounted
  <1> QED BY <1>1, ChannelInvariant, PTL

LEMMA Single ==
  ASSUME Types, ChannelOK, NEW m \in Posted, m \notin again
  PROVE  times[m] <= 1
  <1>1. m \in Ids /\ Posted \subseteq Ids
    BY IdTypes
  <1>2. times[m] \in Nat /\ handling[m] \in Nat
    BY <1>1, CountTypes
  <1>3. CASE enabled \in Typists
    BY <1>1, <1>3 DEF ChannelOK, OnceOK
  <1>4. CASE enabled = "email"
    BY <1>1, <1>4 DEF ChannelOK, MailOK
  <1>5. CASE enabled = "mochat"
    <2>1. In.times = times /\ In.again = again
      BY DEF In
    <2>2. InOK(In)
      BY <1>5 DEF ChannelOK, MochatOK
    <2> QED BY <1>1, <2>1, <2>2 DEF InOK
  <1>6. CASE enabled = "slack"
    <2>1. handling[m] + times[m] <= 1
      BY <1>1, <1>2, <1>6 DEF ChannelOK, SlackOK
    <2> QED BY <1>2, <2>1
  <1>7. CASE enabled \notin Typists \union {"email", "mochat", "slack"}
    <2>1. handling[m] + times[m] <= 1 \/ times[m] = 0
      BY <1>1, <1>2, <1>7 DEF ChannelOK, DingOK, CacheOK
    <2> QED BY <1>2, <2>1
  <1> QED BY <1>3, <1>4, <1>5, <1>6, <1>7

\* However often and over however many ways a service delivers a message, it
\* is published once, unless the channel has forgotten its id or never had a
\* means to recognise it (the caches of ids, the uids of the mailbox, Mochat's
\* events, the pair of events of Slack).
THEOREM OneTurnEach == Spec => []AtMostOnce
  <1>1. ASSUME Types, ChannelOK, NEW m \in Posted, times[m] > 1 PROVE m \in again
    <2>1. m \in Ids
      BY <1>1, IdTypes
    <2>2. times[m] \in Nat
      BY <1>1, <2>1, CountTypes
    <2> QED BY <1>1, <2>2, Single
  <1>2. Types /\ ChannelOK => AtMostOnce
    BY <1>1 DEF AtMostOnce
  <1> QED BY <1>2, ChannelInvariant, PTL

-----------------------------------------------------------------------------
(* Typing                                                                   *)

\* A handler that goes on, publishes or holds back keeps every chat justified.
LEMMA TypingTaken ==
  ASSUME Types, TypingOK, enabled \in Typists, UNCHANGED <<config, stage, shape, sends>>,
         inbound' = inbound \/ \E batch : OneChat(batch) /\ inbound' = Append(inbound, batch),
         \A c \in typing' : c \in typing \/ Justified(c)', silent \intersect typing' \subseteq silent',
         enabled # "matrix" => \A k \in Posted : Underway(k) => Underway(k)' \/ Justified(Chat(k))'
  PROVE  TypingOK'
  <1>1. Posted' = Posted /\ \A k : Chat(k)' = Chat(k) /\ (Allowed(k)' <=> Allowed(k))
    BY SameLooks
  <1>2. inbound \in Seq(Seq(Ids)) /\ \A i \in 1..Len(inbound) : OneChat(inbound[i])
    BY DEF TypingOK
  <1>3. \A b : OneChat(b) => OneChat(b)'
    BY <1>1 DEF OneChat
  <1>4. /\ inbound' \in Seq(Seq(Ids)) /\ \A i \in 1..Len(inbound') : OneChat(inbound'[i])
        /\ Len(inbound) <= Len(inbound')
        /\ \A i \in 1..Len(inbound) : inbound'[i] = inbound[i]
    <2>1. CASE inbound' = inbound
      BY <1>2, <2>1
    <2>2. ASSUME NEW b, OneChat(b), inbound' = Append(inbound, b)
          PROVE  <1>4!:
      <3>1. b \in Seq(Ids) /\ Len(inbound') = Len(inbound) + 1 /\ Len(inbound) \in Nat
        BY <1>2, <2>2 DEF OneChat
      <3>2. \A i \in 1..Len(inbound') : inbound'[i] = IF i <= Len(inbound) THEN inbound[i] ELSE b
        BY <1>2, <2>2, <3>1
      <3>3. inbound' \in Seq(Seq(Ids))
        BY <1>2, <2>2, <3>1
      <3> QED BY <1>2, <2>2, <3>1, <3>2, <3>3
    <2> QED BY <2>1, <2>2
  <1>5. ASSUME NEW c \in typing', Justified(c) PROVE Justified(c)'
    <2>1. ASSUME NEW i \in 1..Len(inbound), Chat(inbound[i][1]) = c PROVE Justified(c)'
      <3>1. i \in 1..Len(inbound') /\ inbound'[i] = inbound[i]
        BY <1>2, <1>4
      <3>2. Chat(inbound[i][1])' = c
        BY <1>1, <2>1, <3>1
      <3> QED BY <3>1, <3>2 DEF Justified
    <2>2. ASSUME NEW m \in Posted, Chat(m) = c, Underway(m), enabled # "matrix" PROVE Justified(c)'
      <3>1. Underway(m)' \/ Justified(Chat(m))'
        BY <2>2
      <3>2. Chat(m)' = c /\ m \in Posted' /\ enabled' # "matrix"
        BY <1>1, <2>2
      <3>3. ASSUME Justified(Chat(m))' PROVE Justified(c)'
        BY <3>2, <3>3 DEF Justified, Waits
      <3> QED BY <3>1, <3>2, <3>3 DEF Justified
    <2>3. Waits(c) => Waits(c)'
      BY DEF Waits
    <2> QED BY <1>1, <1>5, <2>1, <2>2, <2>3 DEF Justified
  <1>6. stage = "running" => \A c \in typing' : Justified(c)'
    BY <1>5 DEF TypingOK
  <1> QED BY <1>3, <1>4, <1>6 DEF TypingOK

\* A step of send() or of the dispatcher that shows no typing.
LEMMA TypingSends ==
  ASSUME Types, TypingOK, UNCHANGED <<config, shape, intake, inbound>>,
         stage' = "running" => stage = "running", typing' \subseteq typing,
         silent \intersect typing' \subseteq silent',
         stage' = "running" =>
           \A c \in typing' :
             \/ enabled # "telegram" /\ disp.phase = "send" /\ ~disp.msg.progress /\ disp.msg.chat = c
             \/ Waits(c)
             => \/ enabled # "telegram" /\ disp'.phase = "send" /\ ~disp'.msg.progress /\ disp'.msg.chat = c
                \/ Waits(c)'
  PROVE  TypingOK'
  <1>1. Posted' = Posted /\ \A k : Chat(k)' = Chat(k) /\ (Allowed(k)' <=> Allowed(k))
    BY SameLooks
  <1>2. \A b : OneChat(b)' <=> OneChat(b)
    BY <1>1 DEF OneChat
  <1>3. \A k : Underway(k)' <=> Underway(k)
    BY DEF Underway, InBuffer
  <1>4. ASSUME stage' = "running", NEW c \in typing' PROVE Justified(c)'
    <2>1. Justified(c)
      BY <1>4 DEF TypingOK
    <2> QED BY <1>1, <1>3, <1>4, <2>1 DEF Justified
  <1> QED BY <1>2, <1>4 DEF TypingOK

\* What TelegramForward, DiscordForward and MatrixForward have in common.
LEMMA TypingPublished ==
  ASSUME Types, TypingOK, enabled \in Typists, UNCHANGED <<config, stage, shape, buffer, sends>>,
         NEW m \in Posted, Publish(<<m>>), typing' \subseteq typing \union {Chat(m)},
         Allowed(m) \/ enabled = "telegram", silent \intersect typing' \subseteq silent',
         handling' = handling \/ Leaves(m)
  PROVE  TypingOK'
  <1>1. Posted' = Posted /\ \A k : Chat(k)' = Chat(k) /\ (Allowed(k)' <=> Allowed(k))
    BY SameLooks
  <1>2. m \in Ids /\ times \in [Ids -> 0..2] /\ handling \in [Ids -> Nat] /\ Posted \subseteq Ids
    BY IdTypes DEF Types
  <1>3. inbound \in Seq(Seq(Ids))
    BY DEF TypingOK
  <1>4. OneChat(<<m>>)
    BY <1>2 DEF OneChat
  <1>5. inbound' = inbound \/ inbound' = Append(inbound, <<m>>)
    BY DEF Publish
  <1>6. Justified(Chat(m))'
    <2>1. CASE Allowed(m)
      <3>1. inbound' = Append(inbound, <<m>>)
        BY <2>1, <1>2, PublishOne
      <3>2. Len(inbound) \in Nat /\ Len(inbound') = Len(inbound) + 1 /\ inbound'[Len(inbound) + 1] = <<m>>
        BY <1>2, <1>3, <3>1
      <3>3. inbound'[Len(inbound) + 1][1] = m /\ Chat(m)' = Chat(m)
        BY <1>1, <3>2
      <3> QED BY <3>2, <3>3, <1>1 DEF Justified
    <2>2. CASE ~Allowed(m)
      BY <1>1, <2>2 DEF Justified
    <2> QED BY <2>1, <2>2
  <1>7. \A k \in Posted : Underway(k) => Underway(k)' \/ k = m
    BY <1>2 DEF Underway, InBuffer, Leaves
  <1>8. \A k \in Posted : Underway(k) => Underway(k)' \/ Justified(Chat(k))'
    BY <1>1, <1>6, <1>7
  <1>9. \A c \in typing' : c \in typing \/ Justified(c)'
    BY <1>1, <1>6
  <1> QED BY <1>4, <1>5, <1>8, <1>9, TypingTaken

LEMMA StillSending ==
  ASSUME Ordered, SendsPiece
  PROVE  \/ disp' = Idle
         \/ disp' = [disp EXCEPT !.phase = "untype"] /\ disp'.phase = "untype"
         \/ disp'.phase = "send" /\ disp'.msg = disp.msg
  <1>1. /\ disp.phase = "send" /\ disp.msg \in Out /\ disp.at \in Nat /\ disp.try \in Nat
        /\ disp = [phase |-> disp.phase, msg |-> disp.msg, at |-> disp.at, try |-> disp.try]
    BY DEF Ordered, SendsPiece, Sending
  <1> DEFINE p(at, try) == [phase |-> "send", msg |-> disp.msg, at |-> at, try |-> try]
  <1>2. \/ disp' = Idle
        \/ disp' = p(disp.at + 1, 1)
        \/ disp' = p(disp.at, disp.try + 1)
        \/ disp' = [disp EXCEPT !.phase = "untype"]
    BY <1>1 DEF SendsPiece
  <1>3. CASE disp' = p(disp.at + 1, 1) \/ disp' = p(disp.at, disp.try + 1)
    BY <1>3
  <1>4. CASE disp' = [disp EXCEPT !.phase = "untype"]
    BY <1>1, <1>4
  <1> QED BY <1>2, <1>3, <1>4

LEMMA TelegramTyping ==
  ASSUME Types, OnceOK, Ordered, TypingOK, enabled = "telegram", TelegramNext, Ending
  PROVE  TypingOK'
  <1>1. silent \intersect typing' \subseteq silent' /\ enabled \in Typists /\ Posted \subseteq Ids /\ handling \in [Ids -> Nat] /\ buffer \in Seq(Ids)
    BY IdTypes DEF Typists, Types, Ending
  <1>2. CASE TelegramUp
    BY <1>1, <1>2, TypingTaken DEF TelegramUp, FreshStart, Underway, InBuffer
  <1>3. CASE TelegramSend
    BY <1>1, <1>3, TypingSends DEF TelegramSend, Waits
  <1>4. ASSUME NEW m \in Ids, TelegramText(m) \/ TelegramCommand(m) PROVE TypingOK'
    <2>1. /\ m \in Posted /\ Publish(<<m>>) /\ typing' \subseteq typing \union {Chat(m)}
          /\ UNCHANGED <<config, stage, shape, buffer, sends, handling>>
      BY <1>4 DEF TelegramText, TelegramCommand, TelegramForward, Deliver
    <2> QED BY <1>1, <2>1, TypingPublished
  <1>5. ASSUME NEW m \in Ids, TelegramMedia(m) PROVE TypingOK'
    <2>1. /\ UNCHANGED <<config, stage, shape, sends, inbound, typing, buffer>>
          /\ handling' = [handling EXCEPT ![m] = @ + 1]
      BY <1>5 DEF TelegramMedia, Deliver, Enters
    <2>2. \A k \in Posted : Underway(k) => Underway(k)'
      BY <1>1, <2>1 DEF Underway, InBuffer
    <2> QED BY <1>1, <2>1, <2>2, TypingTaken
  <1>6. ASSUME NEW m \in Ids, NEW album \in BOOLEAN, TelegramDownloaded(m, album) PROVE TypingOK'
    <2>1. /\ UNCHANGED <<config, stage, shape, sends>> /\ Leaves(m) /\ m \in Posted
          /\ typing' \subseteq typing \union {Chat(m)}
      BY <1>6 DEF TelegramDownloaded, TelegramForward, Types
    <2>2. CASE ~album
      BY <1>1, <1>6, <2>1, <2>2, TypingPublished DEF TelegramDownloaded, TelegramForward
    <2>3. CASE album
      <3>1. UNCHANGED inbound /\ buffer' = Append(buffer, m)
        BY <1>6, <2>3 DEF TelegramDownloaded, TelegramForward
      <3>2. \A k : InBuffer(k)' <=> InBuffer(k) \/ k = m
        <4>1. m \in Ids /\ buffer \in Seq(Ids)
          BY <1>1, <2>1
        <4>2. \A k : Holds(buffer', k) <=> Holds(buffer, k) \/ k = m
          BY <3>1, <4>1, Appended
        <4> QED BY <4>2 DEF InBuffer, Holds
      <3>3. \A k \in Posted : Underway(k) => Underway(k)'
        BY <1>1, <2>1, <3>2 DEF Underway, Leaves
      <3>4. Justified(Chat(m))'
        <4>1. Posted' = Posted /\ Chat(m)' = Chat(m) /\ Underway(m)' /\ enabled' # "matrix"
          BY <2>1, <3>2, SameLooks DEF Underway
        <4> QED BY <2>1, <4>1 DEF Justified
      <3>5. \A c \in typing' : c \in typing \/ Justified(c)'
        <4>1. ASSUME NEW c, c = Chat(m) PROVE Justified(c)'
          BY <2>1, <3>4, <4>1, SameLooks DEF Justified, Waits
        <4> QED BY <2>1, <4>1
      <3> QED BY <1>1, <2>1, <3>1, <3>3, <3>5, TypingTaken
    <2> QED BY <2>2, <2>3
  <1>7. CASE TelegramFlush
    <2>1. /\ UNCHANGED <<config, stage, shape, sends, typing, handling>> /\ buffer' = <<>>
          /\ Publish(buffer) /\ timer
      BY <1>7 DEF TelegramFlush
    <2>2. /\ Posted' = Posted
          /\ \A k : Chat(k)' = Chat(k) /\ (Allowed(k)' <=> Allowed(k))
      BY <2>1, SameLooks
    <2>3. buffer # <<>> /\ Len(buffer) \in Nat /\ Len(buffer) >= 1 /\ DOMAIN buffer = 1..Len(buffer)
      BY <1>1, <2>1 DEF Types
    <2>4. /\ \A i \in 1..Len(buffer) : buffer[i] \in Posted
          /\ \A i, j \in 1..Len(buffer) : /\ Chat(buffer[i]) = Chat(buffer[j])
                                          /\ shape[buffer[i]].from = shape[buffer[j]].from
      <3>1. \A i \in 1..Len(buffer) : buffer[i] \in Ids /\ InBuffer(buffer[i])
        BY <1>1, <2>3 DEF InBuffer
      <3>2. \A i \in 1..Len(buffer) : buffer[i] \in Posted
        BY <3>1 DEF Types
      <3> QED BY <2>3, <3>2 DEF OnceOK
    <2>5. OneChat(buffer)
      BY <1>1, <2>3, <2>4 DEF OneChat
    <2>6. inbound' = inbound \/ inbound' = Append(inbound, buffer)
      BY <2>1 DEF Publish
    <2>7. ASSUME NEW k \in Posted, InBuffer(k) PROVE Justified(Chat(k))'
      <3>1. PICK i \in 1..Len(buffer) : buffer[i] = k
        BY <2>3, <2>7 DEF InBuffer
      <3>2. 1 \in 1..Len(buffer) /\ Len(buffer) \in 1..Len(buffer)
        BY <2>3
      <3>3. CASE Allowed(buffer[Len(buffer)])
        <4>1. inbound' = Append(inbound, buffer) /\ inbound \in Seq(Seq(Ids))
          BY <1>1, <2>1, <3>3 DEF Publish, TypingOK
        <4>2. /\ Len(inbound) \in Nat /\ Len(inbound') = Len(inbound) + 1
              /\ inbound'[Len(inbound) + 1] = buffer
          BY <1>1, <4>1
        <4>3. PICK first \in Posted : first = buffer[1] /\ Chat(first) = Chat(k)
          BY <2>4, <3>1, <3>2
        <4>4. inbound'[Len(inbound) + 1][1] = first /\ Len(inbound) + 1 \in 1..Len(inbound')
          BY <4>2, <4>3
        <4>5. Chat(first)' = Chat(k) /\ Chat(k)' = Chat(k)
          BY <2>2, <4>3
        <4>6. \E n \in 1..Len(inbound') : Chat(inbound[n][1])' = Chat(k)
          BY <4>4, <4>5
        <4> QED BY <4>5, <4>6 DEF Justified
      <3>4. CASE ~Allowed(buffer[Len(buffer)])
        <4>1. shape[k].from = shape[buffer[Len(buffer)]].from
          BY <2>4, <3>1, <3>2
        <4>2. ~Allowed(k)
          BY <3>4, <4>1 DEF Allowed
        <4> QED BY <2>1, <2>2, <4>2 DEF Justified
      <3> QED BY <3>3, <3>4
    <2>8. \A k \in Posted : Underway(k) => Underway(k)' \/ Justified(Chat(k))'
      <3>1. \A k \in Posted : handling[k] > 0 => Underway(k)'
        BY <2>1 DEF Underway
      <3>2. \A k : Chat(k)' = Chat(k)
        BY <2>2
      <3> QED BY <2>7, <3>1, <3>2 DEF Underway
    <2> QED BY <1>1, <2>1, <2>5, <2>6, <2>8, TypingTaken
  <1> QED BY <1>2, <1>3, <1>4, <1>5, <1>6, <1>7 DEF TelegramNext

LEMMA DiscordTyping ==
  ASSUME Types, OnceOK, Ordered, TypingOK, enabled = "discord", DiscordNext, Ending
  PROVE  TypingOK'
  <1>1. silent \intersect typing' \subseteq silent' /\ enabled \in Typists /\ Posted \subseteq Ids /\ handling \in [Ids -> Nat]
    BY IdTypes DEF Typists, Types, Ending
  <1>2. CASE DiscordReady \/ DiscordReconnect
    BY <1>1, <1>2, TypingTaken DEF DiscordReady, DiscordReconnect, FreshStart, Underway, InBuffer
  <1>3. CASE DiscordSend
    <2>1. /\ UNCHANGED <<config, stage, shape, intake, inbound, outbox>> /\ disp.phase = "send"
          /\ typing' = IF disp' = Idle THEN typing \ {disp.msg.chat} ELSE typing
      BY <1>3 DEF DiscordSend, Sending
    <2>2. disp' = Idle \/ (disp'.phase = "send" /\ disp'.msg = disp.msg)
      <3> DEFINE plan == MediaFirst(disp.msg)
      <3>1. \/ SendOn(plan, 3) \/ SendOrAbort(plan, 3)
        BY <1>3 DEF DiscordSend
      <3>2. disp' = Idle \/ disp'.phase # "untype"
        <4> DEFINE p(at, try) == [phase |-> "send", msg |-> disp.msg, at |-> at, try |-> try]
        <4>1. /\ disp.phase = "send" /\ disp.msg \in Out /\ disp.at \in Nat /\ disp.try \in Nat
              /\ disp = [phase |-> disp.phase, msg |-> disp.msg, at |-> disp.at, try |-> disp.try]
          BY <2>1 DEF Ordered
        <4>2. disp' \in {Idle, [disp EXCEPT !.at = @ + 1, !.try = 1], [disp EXCEPT !.try = @ + 1]}
          BY <3>1 DEF SendOn, SendOrAbort, NextPiece, NextTry
        <4>3. disp' = Idle \/ disp' = p(disp.at + 1, 1) \/ disp' = p(disp.at, disp.try + 1)
          BY <4>1, <4>2
        <4> QED BY <4>3
      <3>3. SendsPiece
        BY <1>3, <2>1, <3>1, RequestMoves DEF DiscordSend, Sending
      <3> QED BY <3>2, <3>3, StillSending
    <2> QED BY <1>1, <2>1, <2>2, TypingSends DEF Waits
  <1>4. ASSUME NEW m \in Ids, DiscordText(m) PROVE TypingOK'
    <2>1. m \in Posted /\ UNCHANGED <<config, stage, shape, buffer, sends, handling>>
      BY <1>4 DEF DiscordText, Deliver
    <2>2. CASE DiscordWants(m)
      BY <1>1, <1>4, <2>1, <2>2, TypingPublished DEF DiscordText, DiscordForward, DiscordWants
    <2>3. CASE ~DiscordWants(m)
      BY <1>1, <1>4, <2>1, <2>3, TypingTaken DEF DiscordText, Underway, InBuffer
    <2> QED BY <2>2, <2>3
  <1>5. ASSUME NEW m \in Ids, DiscordMedia(m) PROVE TypingOK'
    <2>1. /\ UNCHANGED <<config, stage, shape, sends, inbound, typing, buffer>>
          /\ handling' = [handling EXCEPT ![m] = @ + 1]
      BY <1>5 DEF DiscordMedia, Deliver, Enters
    <2>2. \A k \in Posted : Underway(k) => Underway(k)'
      BY <1>1, <2>1 DEF Underway, InBuffer
    <2> QED BY <1>1, <2>1, <2>2, TypingTaken
  <1>6. ASSUME NEW m \in Ids, DiscordDownloaded(m) PROVE TypingOK'
    <2>1. /\ UNCHANGED <<config, stage, shape, buffer, sends>> /\ Leaves(m) /\ Publish(<<m>>)
          /\ typing' = typing \union {Chat(m)} /\ m \in Posted /\ Allowed(m)
      BY <1>1, <1>6 DEF DiscordDownloaded, DiscordForward, Types, OnceOK
    <2> QED BY <1>1, <2>1, TypingPublished
  <1> QED BY <1>2, <1>3, <1>4, <1>5, <1>6 DEF DiscordNext

LEMMA MatrixTyping ==
  ASSUME Types, OnceOK, Ordered, TypingOK, enabled = "matrix", MatrixNext, Ending
  PROVE  TypingOK'
  <1>1. silent \intersect typing' \subseteq silent' /\ enabled \in Typists /\ Posted \subseteq Ids /\ handling \in [Ids -> Nat]
    BY IdTypes DEF Typists, Types, Ending
  <1>2. CASE MatrixUp \/ MatrixSyncFails
    BY <1>1, <1>2, TypingTaken DEF MatrixUp, MatrixSyncFails, Underway, InBuffer
  <1>3. CASE MatrixSend
    <2>1. /\ UNCHANGED <<config, stage, shape, intake, inbound, outbox>> /\ disp.phase = "send"
          /\ typing' = IF disp'.phase # "send" /\ ~disp.msg.progress THEN typing \ {disp.msg.chat} ELSE typing
          /\ disp' = Idle \/ disp'.phase = "untype" \/ (disp'.phase = "send" /\ disp'.msg = disp.msg)
      <3>1. SendsPiece
        BY <1>3 DEF MatrixSend, SendsPiece, Request, NextPiece, Sending
      <3> QED BY <1>3, <3>1, StillSending DEF MatrixSend, Sending
    <2>2. disp'.phase # "send" \/ (disp'.phase = "send" /\ disp'.msg = disp.msg)
      BY <2>1 DEF Idle
    <2> QED BY <1>1, <2>1, <2>2, TypingSends DEF Waits
  <1>4. CASE MatrixUntyped
    BY <1>1, <1>4, TypingSends DEF MatrixUntyped, Waits
  <1>5. ASSUME NEW m \in Ids, MatrixIgnore(m) PROVE TypingOK'
    BY <1>1, <1>5, TypingTaken DEF MatrixIgnore, Deliver, Underway, InBuffer
  <1>6. ASSUME NEW m \in Ids, MatrixText(m) \/ MatrixMedia(m) \/ MatrixFetched(m) \/ MatrixFails(m)
        PROVE  TypingOK'
    <2>1. UNCHANGED <<config, stage, shape, sends, inbound>> /\ typing' \subseteq typing
      BY <1>1, <1>6 DEF MatrixText, MatrixMedia, MatrixFetched, MatrixFails, Deliver, Announces
    <2> QED BY <1>1, <2>1, TypingTaken
  <1>7. ASSUME NEW m \in Ids, MatrixForward(m) PROVE TypingOK'
    <2>1. /\ UNCHANGED <<config, stage, shape, buffer, sends>> /\ Leaves(m) /\ Publish(<<m>>)
          /\ typing' = typing \union {Chat(m)} /\ m \in Posted /\ Allowed(m)
      BY <1>1, <1>7 DEF MatrixForward, Announcing, Types, OnceOK
    <2> QED BY <1>1, <2>1, TypingPublished
  <1> QED BY <1>2, <1>3, <1>4, <1>5, <1>6, <1>7 DEF MatrixNext

\* A turn takes the first batch: who wrote it is answered, or left in silence.
LEMMA TypingTurn ==
  ASSUME Types, Ordered, TypingOK, enabled \in Typists, NEW says \in Seq(Out), Turn(says),
         NEW who, who = Asking,
         \A c \in silent : c \in silent' \/ (c = who /\ Waits(c)'),
         who \in typing => who \in silent' \/ Waits(who)'
  PROVE  TypingOK'
  <1> DEFINE batch == Head(inbound)
  <1>1. /\ UNCHANGED <<config, stage, shape, intake, typing, disp>> /\ inbound # <<>>
        /\ inbound' = Tail(inbound) /\ outbox' = outbox \o says
    BY DEF Turn
  <1>2. /\ inbound \in Seq(Seq(Ids)) /\ outbox \in Seq(Out)
        /\ \A i \in 1..Len(inbound) : OneChat(inbound[i])
    BY DEF TypingOK, Ordered
  <1>3. Posted' = Posted /\ \A k : Chat(k)' = Chat(k) /\ (Allowed(k)' <=> Allowed(k))
    BY <1>1, SameLooks
  <1>4. /\ inbound' \in Seq(Seq(Ids)) /\ Len(inbound) \in Nat /\ Len(inbound') = Len(inbound) - 1
        /\ \A i \in 1..Len(inbound') : inbound'[i] = inbound[i + 1] /\ i + 1 \in 1..Len(inbound)
    BY <1>1, <1>2
  <1>5. \A c : Waits(c) => Waits(c)'
    <2>1. /\ Len(outbox) \in Nat /\ Len(says) \in Nat /\ Len(outbox') = Len(outbox) + Len(says)
          /\ \A i \in 1..Len(outbox') : i <= Len(outbox) => outbox'[i] = outbox[i]
      BY <1>1, <1>2, ConcatProperties
    <2>2. \A i \in 1..Len(outbox) : i \in 1..Len(outbox') /\ outbox'[i] = outbox[i]
      BY <2>1
    <2> QED BY <2>2 DEF Waits
  <1>6. Chat(inbound[1][1]) = who
    <2>1. batch = inbound[1] /\ OneChat(inbound[1])
      BY <1>1, <1>2, <1>4
    <2>2. batch \in Seq(Ids) /\ batch # <<>> /\ Len(batch) \in 1..Len(batch)
      BY <2>1 DEF OneChat
    <2> QED BY <2>1, <2>2 DEF OneChat, Asking
  <1>7. \A b : OneChat(b) <=> OneChat(b)'
    BY <1>3 DEF OneChat
  <1> HIDE DEF batch
  <1>8. ASSUME NEW c \in typing, Justified(c) PROVE Justified(c)'
    <2>1. ASSUME NEW i \in 1..Len(inbound), Chat(inbound[i][1]) = c PROVE Justified(c)'
      <3>1. CASE i = 1
        BY <1>6, <2>1, <3>1 DEF Justified
      <3>2. CASE i # 1
        <4>1. i - 1 \in 1..Len(inbound') /\ inbound'[i - 1] = inbound[i]
          BY <1>4, <3>2
        <4>2. Chat(inbound[i - 1][1])' = c
          BY <1>3, <2>1, <4>1
        <4> QED BY <4>1, <4>2 DEF Justified
      <3> QED BY <3>1, <3>2
    <2>2. ASSUME NEW k \in Posted, Chat(k) = c, Underway(k), enabled # "matrix" PROVE Justified(c)'
      <3>1. Underway(k)' /\ enabled' # "matrix"
        BY <1>1, <2>2 DEF Underway, InBuffer
      <3> QED BY <1>3, <2>2, <3>1 DEF Justified
    <2>3. ASSUME c \in silent PROVE Justified(c)'
      BY <2>3 DEF Justified
    <2> QED BY <1>1, <1>3, <1>5, <1>8, <2>1, <2>2, <2>3 DEF Justified
  <1> QED BY <1>1, <1>2, <1>4, <1>7, <1>8 DEF TypingOK

\* The last thing a turn says is among what waits.
LEMMA SaidLast ==
  ASSUME Ordered, NEW says \in Seq(Out), says # <<>>, outbox' = outbox \o says,
         NEW c, ~says[Len(says)].progress, says[Len(says)].chat = c
  PROVE  Waits(c)'
  <1>1. outbox \in Seq(Out) /\ Len(says) \in Nat /\ Len(says) >= 1
    BY DEF Ordered
  <1>2. /\ Len(outbox') = Len(outbox) + Len(says) /\ Len(outbox) \in Nat
        /\ \A i \in 1..(Len(outbox) + Len(says)) :
             outbox'[i] = IF i <= Len(outbox) THEN outbox[i] ELSE says[i - Len(outbox)]
    BY <1>1, ConcatProperties
  <1>3. /\ Len(outbox) + Len(says) \in 1..(Len(outbox) + Len(says))
        /\ ~(Len(outbox) + Len(says) <= Len(outbox))
        /\ (Len(outbox) + Len(says)) - Len(outbox) = Len(says)
    BY <1>1, <1>2
  <1>4. Len(outbox') \in 1..Len(outbox') /\ outbox'[Len(outbox')] = says[Len(says)]
    BY <1>2, <1>3
  <1> QED BY <1>4 DEF Waits

LEMMA TypingAnswered ==
  ASSUME Types, Ordered, TypingOK, enabled \in Typists,
         NEW a \in Answers, NEW tell \in BOOLEAN, Answer(a, tell)
  PROVE  TypingOK'
  <1>1. NextNumber \in Nat
    BY NextNumberFollows
  <1> DEFINE note == Note(NextNumber)
             later == Final(NextNumber + 1, a)
             first == Final(NextNumber, a)
             says == IF tell THEN <<note, later>> ELSE <<first>>
  <1>2. /\ note \in Out
        /\ later \in Out /\ ~later.progress /\ later.chat = Asking
        /\ first \in Out /\ ~first.progress /\ first.chat = Asking
    BY <1>1, SayTypes
  <1>3. Turn(says) /\ silent' = silent \ {Asking}
    BY DEF Answer
  <1>4. outbox' = outbox \o says
    BY <1>3 DEF Turn
  <1> HIDE DEF note, later, first
  <1>5. says \in Seq(Out) /\ says # <<>> /\ ~says[Len(says)].progress /\ says[Len(says)].chat = Asking
    <2>1. CASE tell
      BY <1>2, <2>1
    <2>2. CASE ~tell
      BY <1>2, <2>2
    <2> QED BY <2>1, <2>2
  <1> HIDE DEF says
  <1>6. PICK who : who = Asking
    OBVIOUS
  <1>7. Waits(who)'
    BY <1>4, <1>5, <1>6, SaidLast
  <1> QED BY <1>3, <1>5, <1>6, <1>7, TypingTurn

LEMMA TypingNotAnswered ==
  ASSUME Types, Ordered, TypingOK, enabled \in Typists, NEW tell \in BOOLEAN, NoAnswer(tell)
  PROVE  TypingOK'
  <1>1. NextNumber \in Nat
    BY NextNumberFollows
  <1> DEFINE note == Note(NextNumber)
             says == IF tell THEN <<note>> ELSE <<>>
  <1>2. note \in Out
    <2>1. Asking \in Chats
      BY ChatType DEF Asking
    <2> QED BY <1>1, <2>1 DEF Note, Out
  <1>3. Turn(says) /\ silent' = silent \union ({Asking} \intersect typing)
    BY DEF NoAnswer
  <1> HIDE DEF note
  <1>4. says \in Seq(Out)
    BY <1>2
  <1> HIDE DEF says
  <1>5. PICK who : who = Asking
    OBVIOUS
  <1> QED BY <1>3, <1>4, <1>5, TypingTurn

LEMMA TypingDispatched ==
  ASSUME Types, Ordered, TypingOK, NEW sendProgress \in BOOLEAN, Dispatch(sendProgress)
  PROVE  TypingOK'
  <1> DEFINE o == Head(outbox)
  <1>1. /\ UNCHANGED <<config, stage, shape, intake, inbound>> /\ disp = Idle /\ outbox # <<>>
        /\ outbox' = Tail(outbox) /\ silent' = silent \intersect typing'
        /\ typing' = IF enabled = "telegram" /\ ~o.progress THEN typing \ {o.chat} ELSE typing
        /\ ~o.progress => disp'.phase = "send" /\ disp'.msg = o
    BY DEF Dispatch, Ending
  <1>2. outbox \in Seq(Out) /\ Len(outbox) \in Nat
    BY DEF Ordered
  <1>3. o = outbox[1] /\ 1 \in 1..Len(outbox) /\ Len(outbox') = Len(outbox) - 1
    BY <1>1, <1>2
  <1>4. \A i \in 2..Len(outbox) : i - 1 \in 1..Len(outbox') /\ outbox'[i - 1] = outbox[i]
    BY <1>1, <1>2
  <1> HIDE DEF o
  <1>5. ASSUME NEW c \in typing', NEW i \in 1..Len(outbox), ~outbox[i].progress, outbox[i].chat = c
        PROVE  \/ enabled # "telegram" /\ disp'.phase = "send" /\ ~disp'.msg.progress /\ disp'.msg.chat = c
               \/ Waits(c)'
    <2>1. CASE i = 1
      BY <1>1, <1>3, <1>5, <2>1
    <2>2. CASE i # 1
      <3>1. i \in 2..Len(outbox)
        BY <1>2, <2>2
      <3> QED BY <1>4, <1>5, <3>1 DEF Waits
    <2> QED BY <2>1, <2>2
  <1>6. disp.phase # "send"
    BY <1>1 DEF Idle
  <1> QED BY <1>1, <1>5, <1>6, TypingSends DEF Waits

LEMMA TypingPosted ==
  ASSUME Types, TypingOK, NEW s \in Shapes, Post(s)
  PROVE  TypingOK'
  <1>1. UNCHANGED <<config, stage, intake, typing, inbound, sends, silent>>
    BY DEF Post
  <1>2. /\ Posted \subseteq Posted'
        /\ \A k \in Posted : Chat(k)' = Chat(k) /\ (Allowed(k)' <=> Allowed(k)) /\ (Underway(k)' <=> Underway(k))
    BY Posting
  <1>3. \A b : OneChat(b) => OneChat(b)'
    <2> SUFFICES ASSUME NEW b, OneChat(b) PROVE OneChat(b)'
      OBVIOUS
    <2>1. 1 \in 1..Len(b)
      BY DEF OneChat
    <2> QED BY <1>2, <2>1 DEF OneChat
  <1>4. ASSUME enabled \in Typists, NEW c, Justified(c) PROVE Justified(c)'
    <2>1. ASSUME NEW i \in 1..Len(inbound), Chat(inbound[i][1]) = c PROVE Justified(c)'
      <3>1. OneChat(inbound[i])
        BY <1>4, <2>1 DEF TypingOK
      <3>2. inbound[i][1] \in Posted
        BY <3>1 DEF OneChat
      <3>3. Chat(inbound[i][1])' = c
        BY <1>1, <1>2, <2>1, <3>2
      <3> QED BY <1>1, <3>3 DEF Justified
    <2> QED BY <1>1, <1>2, <1>4, <2>1 DEF Justified, Waits
  <1> QED BY <1>1, <1>3, <1>4 DEF TypingOK, Typists

\* The channels that show no typing.
LEMMA TypingElsewhere ==
  ASSUME TypingOK, enabled \notin Typists, UNCHANGED enabled, typing' \in {typing, {}}
  PROVE  TypingOK'
  BY DEF TypingOK

LEMMA TypingStep ==
  ASSUME Types, ChannelOK, Ordered, TypingOK, [Next]_vars
  PROVE  TypingOK'
  <1>1. CASE Core
    <2>1. ASSUME NEW a \in Answers, NEW tell \in BOOLEAN, Answer(a, tell) PROVE TypingOK'
      <3>1. CASE enabled \in Typists
        BY <2>1, <3>1, TypingAnswered
      <3>2. CASE enabled \notin Typists
        BY <2>1, <3>2, TypingElsewhere DEF Answer, Turn
      <3> QED BY <3>1, <3>2
    <2>2. CASE StartFails \/ StopAll
      <3>1. /\ UNCHANGED <<config, shape, intake, inbound, typing, outbox, silent>>
            /\ stage' = "running" => UNCHANGED <<stage, disp>>
        BY <2>2 DEF StartFails, StopAll
      <3> QED BY <3>1, TypingSends DEF Waits
    <2>3. ASSUME NEW tell \in BOOLEAN, NoAnswer(tell) PROVE TypingOK'
      <3>1. CASE enabled \in Typists
        BY <2>3, <3>1, TypingNotAnswered
      <3>2. CASE enabled \notin Typists
        BY <2>3, <3>2, TypingElsewhere DEF NoAnswer, Turn
      <3> QED BY <3>1, <3>2
    <2> QED BY <1>1, <2>1, <2>2, <2>3, TypingPosted, TypingDispatched DEF Core, BusNext
  <1>2. CASE Plain
    BY <1>2, TelegramTyping, DiscordTyping, MatrixTyping DEF Plain, ChannelOK, Typists
  <1>3. CASE Email
    <2>1. enabled = "email" /\ UNCHANGED <<enabled, typing>>
      BY <1>3 DEF Email, MailNext, MailUp, MailSearch, MailFetch, MailSkip, MailBreaks, MailPublish, MailSend
    <2> QED BY <2>1, TypingElsewhere DEF Typists
  <1>4. CASE Panels
    <2>1. enabled = "mochat" /\ UNCHANGED <<enabled, typing>>
      BY <1>4 DEF Panels, MochatNext, MochatStart, MochatReconnect, MochatSubscribed, MochatSubscribeFails,
         MochatRefreshed, MochatDisconnect, MochatSessionEvent, MochatPanelEvent, MochatInbox,
         MochatLookedUp, MochatWatch, MochatWatched, MochatWatchFails, MochatPoll, MochatFlush,
         MochatSave, MochatCrash, MochatSend, TextSend
    <2> QED BY <2>1, TypingElsewhere DEF Typists
  <1>5. CASE Push
    <2>1. PushNext /\ enabled \notin Typists /\ UNCHANGED enabled
      BY <1>5, PushChannel DEF Push, Typists
    <2>2. UNCHANGED typing
      BY <2>1 DEF PushNext, FeishuUp, DingTalkUp, SlackUp, QQUp, WhatsAppUp, PushUp, PushLost, Forwards,
         FeishuEvent, FeishuFails, QQMessage, BridgeMessage, DingTalkEvent, SlackMessage, SlackMention,
         FeishuSend, DingTalkSend, SlackSend, QQSend, WhatsAppSend, TextSend, PushFrame, CachedEvent
    <2> QED BY <2>1, <2>2, TypingElsewhere
  <1>6. CASE Stop
    <2>1. /\ UNCHANGED <<enabled, shape, inbound>> /\ typing' = {}
      BY <1>6 DEF Stop, MailStop, MochatStop, TelegramStop, DiscordStop, MatrixStop, PushStop,
         FeishuStop, DingTalkStop, SlackStop, QQStop, WhatsAppStop, PlainStop, Stopped
    <2> QED BY <2>1 DEF TypingOK, OneChat, Posted, Chat
  <1>7. CASE Ended \/ UNCHANGED vars
    <2>1. UNCHANGED <<config, shape, intake, inbound, typing, outbox, stage, disp, silent>>
      BY <1>7 DEF Ended, vars
    <2> QED BY <2>1, TypingSends DEF Waits
  <1> QED BY <1>1, <1>2, <1>3, <1>4, <1>5, <1>6, <1>7 DEF Next

LEMMA Reasons ==
  ASSUME Types, Ordered, TypingOK, stage = "running", NEW c \in typing
  PROVE  \/ \E i \in DOMAIN inbound : \E m \in ToSet(inbound[i]) : Chat(m) = c
         \/ \E i \in DOMAIN outbox : outbox[i].chat = c
         \/ disp.phase = "send" /\ disp.msg.chat = c
         \/ \E m \in Posted : Chat(m) = c /\ InHand(m)
         \/ enabled = "telegram" /\ \E m \in Posted : Chat(m) = c /\ ~Allowed(m)
         \/ c \in silent
  <1>1. /\ inbound \in Seq(Seq(Ids)) /\ outbox \in Seq(Out) /\ Justified(c)
        /\ \A i \in 1..Len(inbound) : OneChat(inbound[i])
    BY DEF TypingOK, Ordered
  <1>2. ASSUME NEW i \in 1..Len(inbound), Chat(inbound[i][1]) = c
        PROVE  i \in DOMAIN inbound /\ \E m \in ToSet(inbound[i]) : Chat(m) = c
    <2>1. inbound[i] \in Seq(Ids) /\ inbound[i] # <<>>
      BY <1>1, <1>2 DEF OneChat
    <2>2. 1 \in DOMAIN inbound[i]
      BY <2>1
    <2>3. inbound[i][1] \in ToSet(inbound[i])
      BY <2>2 DEF ToSet
    <2> QED BY <1>1, <1>2, <2>3
  <1>3. \A m : Underway(m) => InHand(m)
    BY BufferInHand DEF Underway, InHand
  <1>4. DOMAIN outbox = 1..Len(outbox)
    BY <1>1
  <1> QED BY <1>1, <1>2, <1>3, <1>4 DEF Justified, Waits

\* Where a chat is shown typing, a message of it is on its way through the
\* gateway, whatever fails, repeats or is denied, in every channel that shows
\* it (_start_typing, _stop_typing and send() of telegram.py, discord.py and
\* matrix.py).
THEOREM TypingForAReason == Spec => []TypingJustified
  <1>1. Init => Ordered /\ Types /\ ChannelOK /\ TypingOK
    <2> SUFFICES ASSUME Init PROVE Ordered /\ Types /\ ChannelOK /\ TypingOK
      OBVIOUS
    <2>1. inbound = <<>> /\ typing = {}
      BY DEF Init, BusInit
    <2>2. inbound \in Seq(Seq(Ids)) /\ Len(inbound) = 0
      BY <2>1
    <2> QED BY <2>1, <2>2, ChannelInit, OrderedInit DEF TypingOK
  <1>2. /\ Ordered /\ Types /\ ChannelOK /\ TypingOK /\ [Next]_vars
        => (Ordered /\ Types /\ ChannelOK /\ TypingOK)'
    BY ChannelStep, OrderedStep, TypingStep
  <1>3. Ordered /\ Types /\ ChannelOK /\ TypingOK => TypingJustified
    BY Reasons DEF TypingJustified, TypingOK
  <1> QED BY <1>1, <1>2, <1>3, PTL DEF Spec
=============================================================================
