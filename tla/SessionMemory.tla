---------------------------- MODULE SessionMemory ----------------------------
(***************************************************************************)
(* Conversation sessions and their consolidation into long-term memory:    *)
(* the session side of AgentLoop._process_message (agent/loop.py),         *)
(* MemoryStore.consolidate (agent/memory.py) and the session files         *)
(* (session/manager.py).                                                   *)
(*                                                                         *)
(* A turn of a bus session runs under the global processing lock, a turn   *)
(* of a direct session (a cron job, the heartbeat) does not. A turn may    *)
(* start a background consolidation of its session, and /new archives the  *)
(* session and clears it; both call the model under the session's own      *)
(* consolidation lock, and the turns of the session go on meanwhile.       *)
(*                                                                         *)
(* The messages of a session are numbered from 1 over its whole life:      *)
(* base + 1 .. total are the ones it still holds, and the code's           *)
(* last_consolidated is lc - base. Appending and saving happen without an  *)
(* await in between, so that the file holds the messages of the session    *)
(* and only its last_consolidated may be behind (savedLc).                 *)
(***************************************************************************)
EXTENDS Naturals

CONSTANTS Sessions,   \* session keys
          Direct,     \* those that process_direct serves without the lock
          Turns,      \* identities of concurrent calls of _process_message
          Tasks,      \* identities of concurrent background consolidations
          Nobody,     \* a lock nobody holds, a call for no session
          Window,     \* memory_window
          MaxMsgs,    \* bound: messages a turn appends
          MaxTotal,   \* bound: messages of each session over its life
          MaxFacts,   \* bound: consolidations that change MEMORY.md
          MaxNew,     \* bound: /new commands
          MaxCrashes  \* bound: crashes of the process

ASSUME SessionAssumption ==
  /\ Direct \subseteq Sessions
  /\ Turns \cap Tasks = {} /\ Nobody \notin Turns \cup Tasks \cup Sessions
  /\ Window \in Nat /\ MaxMsgs \in Nat /\ MaxTotal \in [Sessions -> Nat]
  /\ MaxFacts \in Nat /\ MaxNew \in Nat /\ MaxCrashes \in Nat

VARIABLES
  total,         \* the messages the session ever had
  base,          \* those that a /new has cleared
  lc,            \* base + last_consolidated
  savedLc,       \* base + last_consolidated in the session's file
  consolidating, \* _consolidating
  lock,          \* the consolidation lock of each session
  turn,          \* the calls of _process_message
  task,          \* the background consolidations
  memory,        \* MEMORY.md, as the set of facts it holds
  author,        \* the session whose consolidation wrote MEMORY.md last
  facts,         \* the facts that the model has found so far
  summarised,    \* the messages that a history entry was written for
  redo,          \* a summary was written but the session may not know it
  news, crashes  \* how many so far

session == <<total, base, lc, savedLc>>
files   == <<memory, author, facts, summarised, redo>>
bounds  == <<news, crashes>>
vars    == <<session, consolidating, lock, turn, task, files, bounds>>

\* One call of consolidate: the messages from + 1 .. upto and the MEMORY.md it
\* was given. A task remembers the session object it was created for.
Calls  == [phase : {"idle", "run", "wait", "call"}, s : Sessions \cup {Nobody}, of : Nat,
           from : Nat, upto : Nat, seen : SUBSET Nat]

NoCall == [phase |-> "idle", s |-> Nobody, of |-> 0, from |-> 0, upto |-> 0, seen |-> {}]

Call(p, s, from, upto, seen) ==
  [phase |-> p, s |-> s, of |-> base[s], from |-> from, upto |-> upto, seen |-> seen]

Keep == Window \div 2

\* The bus turns that are not over, i.e. the processing lock is taken.
BusBusy == {t \in Turns : turn[t].phase # "idle" /\ turn[t].s \notin Direct}
Serving(s) == {t \in Turns : turn[t].phase # "idle" /\ turn[t].s = s}

\* The slice messages[last_consolidated:-keep_count] holds something.
HasOld(s) == Keep > 0 /\ total[s] - base[s] > Keep /\ lc[s] < total[s] - Keep

\* The lock is not given back.
MutRelease(s) == lock

Release(s) == [lock EXCEPT ![s] = Nobody]
EndOf(t)   == [turn EXCEPT ![t] = NoCall]
-----------------------------------------------------------------------------
Init ==
  /\ total = [s \in Sessions |-> 0] /\ base = [s \in Sessions |-> 0]
  /\ lc = [s \in Sessions |-> 0] /\ savedLc = [s \in Sessions |-> 0]
  /\ consolidating = {}
  /\ lock = [s \in Sessions |-> Nobody]
  /\ turn = [t \in Turns |-> NoCall] /\ task = [k \in Tasks |-> NoCall]
  /\ memory = {} /\ author = Nobody /\ facts = 0
  /\ summarised = [s \in Sessions |-> {}]
  /\ redo = {}
  /\ news = 0 /\ crashes = 0

\* A turn starts a background consolidation when enough messages are not
\* consolidated and none is known to be in progress.
MaybeConsolidate(s) ==
  IF (total[s] - lc[s]) >= Window /\ s \notin consolidating
  THEN /\ consolidating' = consolidating \cup {s}
       /\ \E k \in Tasks : /\ task[k].phase = "idle"
                           /\ task' = [task EXCEPT ![k] = Call("wait", s, 0, 0, {})]
  ELSE UNCHANGED <<consolidating, task>>

\* A turn of a bus session waits for the processing lock; the caller of
\* process_direct runs one turn of its session at a time.
MayStart(s) == IF s \in Direct THEN Serving(s) = {} ELSE BusBusy = {}

\* _process_message for a user message.
StartTurn(t, s) ==
  /\ turn[t].phase = "idle" /\ MayStart(s)
  /\ MaybeConsolidate(s)
  /\ turn' = [turn EXCEPT ![t] = Call("run", s, 0, 0, {})]
  /\ UNCHANGED <<session, lock, files, bounds>>

\* _process_message for a system message, which starts no consolidation.
StartSystemTurn(t, s) ==
  /\ turn[t].phase = "idle" /\ s \notin Direct /\ MayStart(s)
  /\ turn' = [turn EXCEPT ![t] = Call("run", s, 0, 0, {})]
  /\ UNCHANGED <<session, consolidating, lock, task, files, bounds>>

\* The turn ends: its messages, none if an embodied or onboarding handler
\* answered, are appended and the session is saved.
EndTurn(t, n) ==
  LET s == turn[t].s
  IN /\ turn[t].phase = "run" /\ total[s] + n <= MaxTotal[s]
     /\ total' = [total EXCEPT ![s] = @ + n]
     /\ savedLc' = [savedLc EXCEPT ![s] = lc[s]]
     /\ turn' = EndOf(t)
     /\ UNCHANGED <<base, lc, consolidating, lock, task, files, bounds>>

\* The turn raises or is cancelled by /stop: nothing is appended or saved.
AbortTurn(t) ==
  /\ turn[t].phase = "run"
  /\ turn' = EndOf(t)
  /\ UNCHANGED <<session, consolidating, lock, task, files, bounds>>

-----------------------------------------------------------------------------
(* The background consolidation.                                           *)

\* The task ends, whatever came out of it.
EndTask(k) ==
  /\ task' = [task EXCEPT ![k] = NoCall]
  /\ consolidating' = consolidating \ {task[k].s}

\* A second consolidation of the session does not wait for the first.
MutTaskBegin(k) ==
  LET s == task[k].s
  IN /\ task[k].phase = "wait"
     /\ task[k].of = base[s] /\ HasOld(s)
     /\ task' = [task EXCEPT ![k] = Call("call", s, lc[s], total[s] - Keep, memory)]
     /\ lock' = [lock EXCEPT ![s] = k]
     /\ UNCHANGED <<session, consolidating, turn, files, bounds>>

\* The lock is free: the task reads the slice and MEMORY.md and calls the model.
TaskBegin(k) ==
  LET s == task[k].s
  IN /\ task[k].phase = "wait" /\ lock[s] = Nobody
     /\ task[k].of = base[s] /\ HasOld(s)
     /\ task' = [task EXCEPT ![k] = Call("call", s, lc[s], total[s] - Keep, memory)]
     /\ lock' = [lock EXCEPT ![s] = k]
     /\ UNCHANGED <<session, consolidating, turn, files, bounds>>

\* There is nothing to consolidate, or the session object was cleared.
TaskNothing(k) ==
  LET s == task[k].s
  IN /\ task[k].phase = "wait" /\ lock[s] = Nobody
     /\ ~(task[k].of = base[s] /\ HasOld(s))
     /\ EndTask(k)
     /\ UNCHANGED <<session, lock, turn, files, bounds>>

\* The files after a successful call c: the entry is appended to HISTORY.md,
\* and MEMORY.md is replaced by what the model made of the memory it was given,
\* unless that is the same.
WriteFiles(c) ==
  /\ summarised' = [summarised EXCEPT ![c.s] = @ \cup (c.from + 1)..c.upto]
  /\ redo' = redo
  /\ \/ UNCHANGED <<memory, author, facts>>
     \/ /\ facts < MaxFacts
        /\ facts' = facts + 1 /\ memory' = c.seen \cup {facts + 1}
        /\ author' = c.s

\* The offset is not moved.
MutTaskDone(k) ==
  LET c == task[k]
  IN /\ c.phase = "call"
     /\ WriteFiles(c)
     /\ lock' = Release(c.s) /\ EndTask(k)
     /\ UNCHANGED <<session, turn, bounds>>

\* The model answered with save_memory. The offset moves to what the session
\* has now, less the messages to keep.
TaskDone(k) ==
  LET c == task[k]
  IN /\ c.phase = "call"
     /\ WriteFiles(c)
     /\ lc' = [lc EXCEPT ![c.s] = total[c.s] - Keep]
     /\ lock' = Release(c.s) /\ EndTask(k)
     /\ UNCHANGED <<total, base, savedLc, turn, bounds>>

\* The call raised, or the answer was of no use.
TaskFails(k) ==
  /\ task[k].phase = "call"
  /\ lock' = Release(task[k].s) /\ EndTask(k)
  /\ UNCHANGED <<session, turn, files, bounds>>

\* The history entry was appended, but what followed raised.
TaskHalfDone(k) ==
  LET c == task[k]
  IN /\ c.phase = "call"
     /\ summarised' = [summarised EXCEPT ![c.s] = @ \cup (c.from + 1)..c.upto]
     /\ redo' = redo \cup {c.s}
     /\ lock' = Release(c.s) /\ EndTask(k)
     /\ UNCHANGED <<session, turn, memory, author, facts, bounds>>

-----------------------------------------------------------------------------
(* /new                                                                    *)

NewBegin(t, s) ==
  /\ turn[t].phase = "idle" /\ MayStart(s) /\ news < MaxNew
  /\ news' = news + 1
  /\ consolidating' = consolidating \cup {s}
  /\ turn' = [turn EXCEPT ![t] = Call("wait", s, 0, 0, {})]
  /\ UNCHANGED <<session, lock, task, files, crashes>>

\* The lock is free: what is not consolidated is given to the model.
NewSnapshot(t) ==
  LET s == turn[t].s
  IN /\ turn[t].phase = "wait" /\ lock[s] = Nobody /\ lc[s] < total[s]
     /\ turn' = [turn EXCEPT ![t] = Call("call", s, lc[s], total[s], memory)]
     /\ lock' = [lock EXCEPT ![s] = t]
     /\ UNCHANGED <<session, consolidating, task, files, bounds>>

\* clear, save, invalidate.
Clear(s) ==
  /\ base' = [base EXCEPT ![s] = total[s]]
  /\ lc' = [lc EXCEPT ![s] = total[s]]
  /\ savedLc' = [savedLc EXCEPT ![s] = total[s]]
  /\ total' = total

\* There is nothing to archive.
NewNothing(t) ==
  LET s == turn[t].s
  IN /\ turn[t].phase = "wait" /\ lock[s] = Nobody /\ lc[s] >= total[s]
     /\ Clear(s)
     /\ consolidating' = consolidating \ {s} /\ turn' = EndOf(t)
     /\ UNCHANGED <<lock, task, files, bounds>>

\* The archive is written, and the session cleared.
NewDone(t) ==
  LET c == turn[t]
  IN /\ c.phase = "call"
     /\ WriteFiles(c) /\ Clear(c.s)
     /\ lock' = Release(c.s)
     /\ consolidating' = consolidating \ {c.s} /\ turn' = EndOf(t)
     /\ UNCHANGED <<task, bounds>>

\* The archive failed, or /stop cancelled the call: the session is not cleared.
NewFails(t) ==
  LET c == turn[t]
  IN /\ c.phase = "call"
     /\ lock' = Release(c.s)
     /\ consolidating' = consolidating \ {c.s} /\ turn' = EndOf(t)
     /\ UNCHANGED <<session, task, files, bounds>>

\* The history entry was appended, but what followed raised.
NewHalfDone(t) ==
  LET c == turn[t]
  IN /\ c.phase = "call"
     /\ summarised' = [summarised EXCEPT ![c.s] = @ \cup (c.from + 1)..c.upto]
     /\ redo' = redo \cup {c.s}
     /\ lock' = Release(c.s)
     /\ consolidating' = consolidating \ {c.s} /\ turn' = EndOf(t)
     /\ UNCHANGED <<session, task, memory, author, facts, bounds>>

\* /stop cancels a /new that waits for the lock. The session is no longer marked,
\* even if a consolidation of it is running.
NewCancelled(t) ==
  /\ turn[t].phase = "wait"
  /\ consolidating' = consolidating \ {turn[t].s} /\ turn' = EndOf(t)
  /\ UNCHANGED <<session, lock, task, files, bounds>>

-----------------------------------------------------------------------------
\* The process dies and is started again: the sessions are read from their
\* files, the locks, the marks and the tasks are gone.
Crash ==
  /\ crashes < MaxCrashes
  /\ crashes' = crashes + 1
  /\ lc' = savedLc
  /\ consolidating' = {} /\ lock' = [s \in Sessions |-> Nobody]
  /\ turn' = [t \in Turns |-> NoCall]
  /\ task' = [k \in Tasks |-> NoCall]
  /\ redo' = redo \cup {s \in Sessions : savedLc[s] # lc[s]}
  /\ UNCHANGED <<total, base, savedLc, memory, author, facts, summarised, news>>

TurnStep(t) ==
  \/ \E n \in 0..MaxMsgs : EndTurn(t, n)
  \/ AbortTurn(t)
TaskStep(k) == TaskBegin(k) \/ TaskNothing(k) \/ TaskDone(k) \/ TaskFails(k) \/ TaskHalfDone(k)
NewStep(t) ==
  NewSnapshot(t) \/ NewNothing(t) \/ NewDone(t) \/ NewFails(t) \/ NewHalfDone(t)

Next ==
  \/ \E t \in Turns, s \in Sessions : StartTurn(t, s) \/ StartSystemTurn(t, s) \/ NewBegin(t, s)
  \/ \E t \in Turns : TurnStep(t) \/ NewStep(t) \/ NewCancelled(t)
  \/ \E k \in Tasks : TaskStep(k)
  \/ Crash

Spec == Init /\ [][Next]_vars

\* Every call of the model returns or raises, and the event loop runs what can
\* run. The lock is granted in the order of the requests, so that a request is
\* granted if the lock keeps becoming free.
Fairness ==
  /\ \A k \in Tasks : SF_vars(TaskStep(k))
  /\ \A t \in Turns : SF_vars(TurnStep(t) \/ NewStep(t))

FairSpec == Spec /\ Fairness
-----------------------------------------------------------------------------
(* Properties.                                                             *)

(* The type of every variable.                                             *)
TypeOK ==
  /\ total \in [Sessions -> Nat] /\ base \in [Sessions -> Nat]
  /\ lc \in [Sessions -> Nat] /\ savedLc \in [Sessions -> Nat]
  /\ consolidating \subseteq Sessions
  /\ lock \in [Sessions -> Turns \cup Tasks \cup {Nobody}]
  /\ turn \in [Turns -> Calls] /\ task \in [Tasks -> Calls]
  /\ memory \subseteq Nat /\ author \in Sessions \cup {Nobody} /\ facts \in Nat
  /\ summarised \in [Sessions -> SUBSET Nat]
  /\ redo \subseteq Sessions
  /\ news \in Nat /\ crashes \in Nat

\* The calls of the model that are in progress for a session.
Calling(s) == {turn[t] : t \in {u \in Turns : turn[u].phase = "call" /\ turn[u].s = s}}
       \cup {task[k] : k \in {u \in Tasks : task[u].phase = "call" /\ task[u].s = s}}

(* The offset stays within the messages of the session, in memory and in   *)
(* the file, through every overlap of turns, consolidations, /new and      *)
(* crashes.                                                                 *)
OffsetWithin ==
  \A s \in Sessions : /\ base[s] <= savedLc[s] /\ savedLc[s] <= lc[s] /\ lc[s] <= total[s]
                      /\ \A c \in Calling(s) : c.from = lc[s] /\ c.upto <= total[s]

(* No message is given to the model twice: a consolidation in progress has  *)
(* only messages that no history entry covers, unless an earlier one wrote  *)
(* its entry and then failed or crashed.                                    *)
NoDoubleSummary ==
  \A s \in Sessions \ redo : \A c \in Calling(s) : (c.from + 1)..c.upto \cap summarised[s] = {}

(* /new clears a session only when every message that was not consolidated  *)
(* is in an entry of HISTORY.md.                                            *)
NewArchives ==
  [][\A s \in Sessions : base'[s] # base[s] => (lc[s] + 1)..total[s] \subseteq summarised'[s]]_vars

(* A lock that is held is held by a call of the model in progress.          *)
LockJustified ==
  \A s \in Sessions :
    \/ lock[s] = Nobody
    \/ lock[s] \in Tasks /\ task[lock[s]].phase = "call" /\ task[lock[s]].s = s
    \/ lock[s] \in Turns /\ turn[lock[s]].phase = "call" /\ turn[lock[s]].s = s

(* The sessions share MEMORY.md, and a consolidation reads it before the    *)
(* model call and writes it after. A write that drops a fact (one that was  *)
(* not there when the call read the file) comes from another session than   *)
(* the write before it: however the turns, the background consolidations    *)
(* and the /new of one session overlap, they drop nothing of each other.    *)
MemoryKept == [][memory \subseteq memory' \/ author \notin {Nobody, author'}]_vars

(* /new is answered in the end, though it holds the processing lock while   *)
(* it waits for a consolidation.                                            *)
NewAnswered == \A t \in Turns : (turn[t].phase = "wait") ~> (turn[t].phase = "idle")

(* What is below the offset has been consolidated to the files.             *)
OffsetSummarised == \A s \in Sessions : (base[s] + 1)..lc[s] \subseteq summarised[s]
=============================================================================
