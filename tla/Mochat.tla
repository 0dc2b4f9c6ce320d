------------------------------- MODULE Mochat -------------------------------
(***************************************************************************)
(* channels/mochat.py.  Events come over a websocket, or from workers that *)
(* poll when the socket is not subscribed.  A cursor, saved to a file      *)
(* after a pause, says how far a session has been read; a session without  *)
(* one is cold, and its first payload only sets the cursor.  Panels have   *)
(* no cursor: their workers read the latest messages again and again.      *)
(*                                                                         *)
(* One session (the messages outside groups) and one panel; the sequence   *)
(* number of a message is the message.  The panel and the session are      *)
(* known from the start, and the handler of one connection ends before the *)
(* socket is connected again.                                              *)
(***************************************************************************)
EXTENDS ChannelBus, SequencesExt

CONSTANTS
  PollLimit,  \* messages of a panel that one poll returns
  Crashes     \* how often the process dies

ASSUME MochatAssumption == PollLimit \in 1..SeenMax /\ Crashes \in Nat

VARIABLES
  discover,   \* auto discovery: connect() refreshes the targets at its end
  cursor,     \* _session_cursor of the session, -1 if absent
  saved,      \* session_cursors.json
  saving,     \* _cursor_save_task
  cold,       \* the session is in _cold_sessions
  hook,       \* the connect handler: "none", "call" (subscribe), "refresh"
  subscribed, \* up to where the socket has been told of the session
  ready,      \* _ws_ready
  fallback,   \* _fallback_mode, with its workers
  asked,      \* the cursor the watch worker waits with, -1 if it does not
  crashes

mochatVars == <<discover, cursor, saved, saving, cold, hook, subscribed, ready,
                fallback, asked, crashes>>
cursorVars == <<cursor, saved, saving, cold>>
wsVars == <<hook, subscribed, ready, fallback, asked>>

AtLeast(a, b) == IF a < b THEN b ELSE a
InSession(m) == ~shape[m].group
Since(c, upto) == {m \in Posted : InSession(m) /\ c < m /\ m <= upto}

MochatInit ==
  /\ discover \in (IF enabled = "mochat" THEN BOOLEAN ELSE {FALSE})
  /\ cursor = -1 /\ saved = -1 /\ saving = FALSE /\ cold = FALSE
  /\ hook = "none" /\ subscribed = -1 /\ ready = FALSE /\ fallback = FALSE
  /\ asked = -1 /\ crashes = 0

-----------------------------------------------------------------------------
(* Events *)

In == [seen |-> seen, buffer |-> buffer, timer |-> timer, again |-> again,
       inbound |-> inbound, times |-> times]

Sends(in, batch) ==
  [in EXCEPT !.inbound = Append(@, batch),
             !.times = [m \in Ids |-> Counted(@[m], IF Contains(batch, m) THEN 1 ELSE 0)]]

\* Mutant: what is held back is not remembered.
MutProcessInboundEvent(in, m) ==
  LET kept == [in EXCEPT !.seen = Append(@, m)]
  IN  IF ~Allowed(m) \/ Contains(in.seen, m) THEN in
      ELSE IF InSession(m) \/ policy = "open" THEN Sends(kept, <<m>>)
      ELSE IF policy = "mention" THEN IF shape[m].mention THEN Sends(kept, <<m>>) ELSE kept
      ELSE IF shape[m].mention
           THEN Sends([kept EXCEPT !.buffer = <<>>, !.timer = FALSE], Append(in.buffer, m))
           ELSE [in EXCEPT !.buffer = Append(@, m), !.timer = TRUE]

\* _remember_message_id: the cache of ids belongs to one session or panel, and
\* loses its oldest id when it is full.
RememberMessageId(in, m) ==
  LET mine == {i \in DOMAIN in.seen : InSession(in.seen[i]) = InSession(m)}
  IN  IF Cardinality(mine) < SeenMax THEN [in EXCEPT !.seen = Append(@, m)]
      ELSE [in EXCEPT !.seen = Append(RemoveAt(@, Min(mine)), m),
                      !.again = @ \union {in.seen[Min(mine)]}]

\* _process_inbound_event, and the delay of panels.
ProcessInboundEvent(in, m) ==
  LET kept == RememberMessageId(in, m)
  IN  IF ~Allowed(m) \/ Contains(in.seen, m) THEN in
      ELSE IF InSession(m) \/ policy = "open" THEN Sends(kept, <<m>>)
      ELSE IF policy = "mention" THEN IF shape[m].mention THEN Sends(kept, <<m>>) ELSE kept
      ELSE IF shape[m].mention
           THEN Sends([kept EXCEPT !.buffer = <<>>, !.timer = FALSE], Append(in.buffer, m))
           ELSE [kept EXCEPT !.buffer = Append(@, m), !.timer = TRUE]

\* Events are handled in the order of their sequence numbers: all up to k.
Processed(events) ==
  LET done[k \in 0..Len(shape)] ==
        IF k = 0 THEN In
        ELSE IF k \in events THEN ProcessInboundEvent(done[k - 1], k)
        ELSE done[k - 1]
  IN  done
Takes(events) ==
  LET out == Processed(events)[Len(shape)]
  IN  /\ seen' = out.seen /\ buffer' = out.buffer /\ timer' = out.timer
      /\ again' = out.again /\ inbound' = out.inbound /\ times' = out.times

\* Mutant: the cursor is set to the next message.
MutMarkSessionCursor(c) ==
  /\ cursor' = IF c >= AtLeast(cursor, 0) THEN c + 1 ELSE cursor
  /\ saving' = (saving \/ c >= AtLeast(cursor, 0))
\* _mark_session_cursor
MarkSessionCursor(c) ==
  /\ cursor' = IF c >= AtLeast(cursor, 0) THEN c ELSE cursor
  /\ saving' = (saving \/ c >= AtLeast(cursor, 0))

\* _handle_watch_payload, for the session: pc is the cursor in the payload,
\* -1 without one.  The lock is never contended: nothing in it awaits.
HandleWatchPayload(events, pc) ==
  IF cold
  THEN /\ cold' = FALSE
       /\ MarkSessionCursor(pc)
       /\ gone' = gone \union {m \in events : ~Contains(seen, m)}
       /\ UNCHANGED <<seen, buffer, timer, again, inbound, times>>
  ELSE /\ MarkSessionCursor(AtLeast(pc, IF events = {} THEN -1 ELSE Max(events)))
       /\ Takes(events)
       /\ UNCHANGED <<cold, gone>>

-----------------------------------------------------------------------------
(* Start, socket and subscription *)

\* _ensure_fallback_workers, _stop_fallback_workers
FallbackOn == fallback' = TRUE /\ UNCHANGED asked
FallbackOff == fallback' = FALSE /\ asked' = -1
\* The end of connect().
Ready(ok) ==
  /\ hook' = "none" /\ ready' = ok
  /\ IF ok THEN FallbackOff ELSE FallbackOn

\* start: load the cursors, try the socket.  Without one there are only the
\* workers, for good.
MochatStart(socket) ==
  /\ conn = "down" /\ hook = "none" /\ ~fallback /\ ~ready /\ stage = "running"
  /\ cursor' = saved /\ cold' = (saved = -1)
  /\ IF socket THEN conn' = "up" /\ hook' = "call" /\ subscribed' = AtLeast(saved, 0) /\ UNCHANGED fallback
     ELSE conn' = "dead" /\ fallback' = TRUE /\ UNCHANGED <<hook, subscribed>>
  /\ UNCHANGED <<config, stage, service, intake, typing, inbound, sends, ghosts,
                 discover, saved, saving, ready, asked, crashes>>

\* connect, after a disconnect
MochatReconnect ==
  /\ conn = "down" /\ hook = "none" /\ (fallback \/ ready) /\ stage = "running"
  /\ conn' = "up" /\ ready' = FALSE
  /\ hook' = "call" /\ subscribed' = AtLeast(cursor, 0)
  /\ cold' = (cold \/ cursor = -1)
  /\ UNCHANGED <<config, stage, service, intake, typing, inbound, sends, ghosts,
                 discover, cursor, saved, saving, fallback, asked, crashes>>

\* The acknowledgement brings what came after the cursor, or nothing.
MochatSubscribed ==
  /\ hook = "call" /\ conn = "up"
  /\ \/ \E upto \in subscribed..Len(shape) :
           subscribed' = upto /\ HandleWatchPayload(Since(subscribed, upto), upto)
     \/ UNCHANGED <<subscribed, cursor, saving, cold, gone, seen, buffer, timer, again, inbound, times>>
  /\ IF discover THEN hook' = "refresh" /\ UNCHANGED <<ready, fallback, asked>>
     ELSE Ready(TRUE)
  /\ UNCHANGED <<config, stage, conn, service, handling, typing, sends, discover, saved, crashes>>
MochatSubscribeFails ==
  /\ hook = "call" /\ Ready(FALSE)
  /\ UNCHANGED <<busVars, discover, cursorVars, subscribed, crashes>>
\* _refresh_targets has ended: the result of the subscription counts.
MochatRefreshed ==
  /\ hook = "refresh" /\ Ready(TRUE)
  /\ UNCHANGED <<busVars, discover, cursorVars, subscribed, crashes>>

MochatDisconnect ==
  /\ ConnectionLost /\ ready' = FALSE /\ FallbackOn
  /\ subscribed' = -1
  /\ UNCHANGED <<config, stage, service, intake, typing, inbound, sends, ghosts,
                 discover, cursorVars, hook, crashes>>

-----------------------------------------------------------------------------
(* What comes in: the service may push a message any number of times *)

Pushed(m) ==
  /\ conn = "up" /\ m \in Posted /\ Len(inbound) < Backlog
  /\ UNCHANGED service

\* claw.session.events, in order and perhaps again; the payload need not say
\* a cursor.
MochatSessionEvent(m) ==
  /\ Pushed(m) /\ InSession(m)
  /\ \A k \in 1..(m - 1) : InSession(k) => k <= subscribed
  /\ subscribed' = AtLeast(subscribed, m)
  /\ \E pc \in {-1, m} : HandleWatchPayload({m}, pc)
  /\ UNCHANGED <<config, stage, conn, handling, typing, sends, discover, saved,
                 hook, ready, fallback, asked, crashes>>

\* claw.panel.events and notify:chat.message.add
MochatPanelEvent(m) ==
  /\ Pushed(m) /\ ~InSession(m) /\ Takes({m})
  /\ UNCHANGED <<config, stage, conn, handling, typing, sends, gone, mochatVars>>

\* notify:chat.inbox.append, for which the session may have to be looked up
MochatInbox(m) ==
  /\ Pushed(m) /\ InSession(m)
  /\ \/ Takes({m}) /\ UNCHANGED handling
     \/ handling[m] = 0 /\ Enters(m) /\ UNCHANGED <<seen, buffer, timer, again, inbound, times>>
  /\ UNCHANGED <<config, stage, conn, typing, sends, gone, mochatVars>>
MochatLookedUp(m, found) ==
  /\ handling[m] > 0 /\ Leaves(m)
  /\ IF found THEN Takes({m}) ELSE UNCHANGED <<seen, buffer, timer, again, inbound, times>>
  /\ UNCHANGED <<config, stage, conn, service, typing, sends, gone, mochatVars>>

\* _session_watch_worker: a request, and its answer or failure.
MochatWatch ==
  /\ fallback /\ asked = -1
  /\ asked' = AtLeast(cursor, 0)
  /\ UNCHANGED <<busVars, discover, cursorVars, hook, subscribed, ready, fallback, crashes>>
MochatWatched ==
  /\ asked >= 0 /\ asked' = -1
  /\ \E upto \in asked..Len(shape) : HandleWatchPayload(Since(asked, upto), upto)
  /\ UNCHANGED <<config, stage, conn, service, handling, typing, sends,
                 discover, saved, hook, subscribed, ready, fallback, crashes>>
MochatWatchFails ==
  /\ asked >= 0 /\ asked' = -1
  /\ UNCHANGED <<busVars, discover, cursorVars, hook, subscribed, ready, fallback, crashes>>

\* _panel_poll_worker: the latest messages, oldest first.
MochatPoll ==
  LET all == {m \in Posted : ~InSession(m)}
  IN  /\ fallback /\ all # {} /\ Len(inbound) < Backlog
      /\ Takes({m \in all : Cardinality({k \in all : k > m}) < PollLimit})
      /\ UNCHANGED <<config, stage, conn, service, handling, typing, sends, gone, mochatVars>>

\* _delay_flush_after
MochatFlush ==
  /\ timer /\ timer' = FALSE /\ buffer' = <<>>
  /\ Publish(buffer)
  /\ UNCHANGED <<config, stage, conn, service, seen, handling, typing, sends, gone, again, mochatVars>>

\* _save_cursor_debounced
MochatSave ==
  /\ saving /\ saving' = FALSE /\ saved' = cursor
  /\ UNCHANGED <<busVars, discover, cursor, cold, wsVars, crashes>>

-----------------------------------------------------------------------------
(* Sending, stopping and crashing *)

MochatSend == TextSend("mochat") /\ UNCHANGED mochatVars

MochatStop ==
  /\ Stopped({})
  /\ hook' = "none" /\ subscribed' = -1 /\ ready' = FALSE /\ FallbackOff
  /\ saving' = FALSE /\ saved' = cursor
  /\ UNCHANGED <<discover, cursor, cold, crashes>>

\* The process dies; what is in memory is lost, the cursor file stays.  The
\* count of publications begins anew.
MochatCrash ==
  /\ crashes < Crashes /\ crashes' = crashes + 1
  /\ stage = "running" /\ conn # "down" /\ conn' = "down"
  /\ gone' = gone \union ToSet(buffer) \union {m \in Ids : handling[m] + times[m] > 0}
  /\ again' = Posted /\ times' = [m \in Ids |-> 0]
  /\ seen' = <<>> /\ handling' = [m \in Ids |-> 0] /\ buffer' = <<>> /\ timer' = FALSE
  /\ inbound' = <<>> /\ outbox' = <<>> /\ disp' = Idle
  /\ cursor' = -1 /\ saving' = FALSE /\ cold' = FALSE
  /\ hook' = "none" /\ subscribed' = -1 /\ ready' = FALSE /\ fallback' = FALSE /\ asked' = -1
  /\ UNCHANGED <<config, stage, service, typing, last, discover, saved>>

MochatNext ==
  \/ \E socket \in BOOLEAN : MochatStart(socket)
  \/ MochatReconnect \/ MochatSubscribed \/ MochatSubscribeFails \/ MochatRefreshed
  \/ MochatDisconnect
  \/ \E m \in Ids : \/ MochatSessionEvent(m) \/ MochatPanelEvent(m) \/ MochatInbox(m)
                    \/ \E found \in BOOLEAN : MochatLookedUp(m, found)
  \/ MochatWatch \/ MochatWatched \/ MochatWatchFails \/ MochatPoll
  \/ MochatFlush \/ MochatSave \/ MochatCrash \/ MochatSend
=============================================================================
