-------------------------------- MODULE Mail --------------------------------
(***************************************************************************)
(* channels/email.py.  A thread searches the mailbox for unseen messages,  *)
(* fetches them one by one and hands all of them to the loop at the end;   *)
(* an exception on the way leaves those it had already ticked off.         *)
(* left[m] = 1 says that m is unseen in the mailbox.                       *)
(***************************************************************************)
EXTENDS ChannelBus

VARIABLES
  mailbox,    \* the options mark_seen and auto_reply_enabled
  poll,       \* "sleep" between two polls, "fetch" in one
  todo,       \* uids the search found and the thread has not looked at
  fetched     \* the list _fetch_messages will return

mailVars == <<mailbox, poll, todo, fetched>>
Fetched == {fetched[i] : i \in DOMAIN fetched}

MailInit ==
  /\ mailbox \in IF enabled = "email" THEN [markSeen : BOOLEAN, autoReply : BOOLEAN]
                 ELSE [markSeen : {TRUE}, autoReply : {TRUE}]
  /\ poll = "sleep" /\ todo = {} /\ fetched = <<>>

MailUp ==
  /\ ConnectUp
  /\ UNCHANGED <<config, stage, service, intake, typing, inbound, sends, ghosts, mailVars>>

\* login, select, search
MailSearch ==
  /\ conn = "up" /\ poll = "sleep" /\ Len(inbound) < Backlog
  /\ poll' = "fetch"
  /\ todo' = {m \in Posted : left[m] > 0}
  /\ UNCHANGED <<busVars, mailbox, fetched>>

\* The set of uids loses an arbitrary half when it is full.
TickOff(m) ==
  IF Len(seen) < SeenMax THEN seen' = Append(seen, m) /\ UNCHANGED again
  ELSE LET all == {seen[i] : i \in DOMAIN seen} \union {m}
       IN  \E kept \in [1..(Cardinality(all) - Cardinality(all) \div 2) -> all] :
             /\ \A i, j \in DOMAIN kept : i # j => kept[i] # kept[j]
             /\ seen' = kept
             /\ again' = again \union (all \ {kept[i] : i \in DOMAIN kept})

MarkSeen(m) == left' = IF mailbox.markSeen THEN [left EXCEPT ![m] = 0] ELSE left

\* The server lists the uids in ascending order.
NextUid(m) == m \in todo /\ \A k \in todo : m <= k

MailFetch(m) ==
  /\ poll = "fetch" /\ NextUid(m)
  /\ todo' = todo \ {m}
  /\ IF Known(m) THEN UNCHANGED <<left, seen, again, fetched>>
     ELSE fetched' = Append(fetched, m) /\ TickOff(m) /\ MarkSeen(m)
  /\ UNCHANGED <<config, stage, conn, shape, handling, buffer, timer, typing, inbound,
                 sends, times, gone, mailbox, poll>>

\* FETCH answers with something else than OK.
MailSkip(m) ==
  /\ poll = "fetch" /\ NextUid(m)
  /\ todo' = todo \ {m}
  /\ UNCHANGED <<busVars, mailbox, poll, fetched>>

\* The connection breaks before a message is read, or when \Seen is stored.
MailBreaks ==
  /\ poll = "fetch"
  /\ poll' = "sleep" /\ todo' = {} /\ fetched' = <<>>
  /\ \/ gone' = gone \union Fetched /\ UNCHANGED <<left, seen, again>>
     \/ \E m \in todo :
          /\ NextUid(m) /\ ~Known(m) /\ mailbox.markSeen
          /\ gone' = gone \union Fetched \union {m}
          /\ TickOff(m)
          /\ left' \in {left, [left EXCEPT ![m] = 0]}
  /\ UNCHANGED <<config, stage, conn, shape, handling, buffer, timer, typing, inbound,
                 sends, times, mailbox>>

\* The loop publishes the whole list without a pause.
MailPublish ==
  LET ok == SelectSeq(fetched, Allowed)
  IN  /\ poll = "fetch" /\ todo = {}
      /\ poll' = "sleep" /\ fetched' = <<>>
      /\ inbound' = inbound \o [i \in DOMAIN ok |-> <<ok[i]>>]
      /\ times' = [m \in Ids |-> Counted(times[m],
                     Cardinality({i \in DOMAIN fetched : fetched[i] = m /\ Allowed(m)}))]
      /\ UNCHANGED <<config, stage, conn, service, intake, typing, sends, gone, again, mailbox, todo>>

\* send: the text only, and no reply of its own if auto_reply_enabled is off
\* and a subject is known.  _smtp_send runs in a thread.
MailSend ==
  /\ Sending
  /\ \/ ~mailbox.autoReply /\ Drop
     \/ SendOrAbort(<<"text">>, 1)
  /\ UNCHANGED <<config, stage, conn, service, intake, typing, inbound, outbox, ghosts, mailVars>>

MailStop ==
  /\ Stopped(Fetched)
  /\ poll' = "sleep" /\ todo' = {} /\ fetched' = <<>>
  /\ UNCHANGED mailbox

MailNext ==
  \/ MailUp \/ MailSearch
  \/ \E m \in Ids : MailFetch(m) \/ MailSkip(m)
  \/ MailBreaks \/ MailPublish \/ MailSend
=============================================================================
