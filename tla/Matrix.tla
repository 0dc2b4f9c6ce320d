------------------------------- MODULE Matrix -------------------------------
(***************************************************************************)
(* channels/matrix.py.  The sync loop calls one callback at a time.  A     *)
(* callback fetches an attachment, replaces the typing task of the room    *)
(* and publishes; the end of an answer awaits the typing task it cancels.  *)
(***************************************************************************)
EXTENDS ChannelBus

\* start() returns after it has created the sync task; the sync loop starts
\* over after an error and knows by a token what it has not yet seen.
MatrixUp ==
  /\ ConnectUp
  /\ UNCHANGED <<config, stage, service, intake, typing, inbound, sends, ghosts>>
MatrixSyncFails ==
  /\ ~Handling /\ ConnectionLost
  /\ UNCHANGED <<config, stage, service, intake, typing, inbound, sends, ghosts>>

MatrixWants(m) ==
  /\ Allowed(m)
  /\ shape[m].group => policy = "open" \/ shape[m].mention

\* _start_typing_keepalive ends the old task and awaits the service.
Fetching(m) == handling[m] = 2
Announcing(m) == handling[m] = 1
Announces(m) == typing' = typing \ {Chat(m)}

MatrixIgnore(m) ==
  /\ ~Handling /\ Deliver(m) /\ ~MatrixWants(m)
  /\ UNCHANGED <<config, stage, conn, intake, typing, inbound, sends, ghosts>>

\* _on_message
MatrixText(m) ==
  /\ ~Handling /\ Deliver(m) /\ MatrixWants(m) /\ ~shape[m].media
  /\ Announces(m)
  /\ handling' = [handling EXCEPT ![m] = 1]
  /\ UNCHANGED <<config, stage, conn, seen, buffer, timer, inbound, sends, ghosts>>

\* _on_media_message.  The answer to the download may be an error, of which
\* a marker tells; an exception leaves the callback and ends the sync, whose
\* token has moved on by then.
MatrixMedia(m) ==
  /\ ~Handling /\ Deliver(m) /\ MatrixWants(m) /\ shape[m].media
  /\ handling' = [handling EXCEPT ![m] = 2]
  /\ UNCHANGED <<config, stage, conn, seen, buffer, timer, typing, inbound, sends, ghosts>>
MatrixFetched(m) ==
  /\ Fetching(m) /\ Leaves(m) /\ Announces(m)
  /\ UNCHANGED <<config, stage, conn, service, seen, buffer, timer, inbound, sends, ghosts>>
MatrixFails(m) ==
  /\ Fetching(m)
  /\ handling' = [handling EXCEPT ![m] = 0] /\ gone' = gone \union {m}
  /\ conn' = "down"
  /\ UNCHANGED <<config, stage, service, seen, buffer, timer, typing, inbound, sends, times, again>>

\* The new typing task and the message.
MatrixForward(m) ==
  /\ Announcing(m) /\ Leaves(m)
  /\ typing' = typing \union {Chat(m)}
  /\ Publish(<<m>>)
  /\ UNCHANGED <<config, stage, conn, service, seen, buffer, timer, sends, gone, again>>

\* send: one request for each file, one for the text with the failures; the
\* end of a final answer cancels the typing task of the room and awaits it.
MatrixSend ==
  LET o    == disp.msg
      plan == MediaFirst([o EXCEPT !.text = 1])
      end  == IF ~o.progress /\ o.chat \in typing THEN [disp EXCEPT !.phase = "untype"] ELSE Idle
  IN  /\ Sending
      /\ \E taken \in BOOLEAN : Request(taken)
      /\ NextPiece(plan, end)
      /\ typing' = IF disp'.phase # "send" /\ ~o.progress THEN typing \ {o.chat} ELSE typing
      /\ UNCHANGED <<config, stage, conn, service, intake, inbound, outbox, ghosts>>
MatrixUntyped ==
  /\ disp.phase = "untype"
  /\ disp' = Idle
  /\ UNCHANGED <<config, stage, conn, service, intake, typing, inbound, outbox, last, ghosts>>

MatrixStop == PlainStop("matrix")

MatrixNext ==
  \/ MatrixUp
  \/ MatrixSyncFails
  \/ \E m \in Ids : \/ MatrixIgnore(m) \/ MatrixText(m) \/ MatrixMedia(m)
                    \/ MatrixFetched(m) \/ MatrixFails(m) \/ MatrixForward(m)
  \/ MatrixSend
  \/ MatrixUntyped
=============================================================================
