---------------------------- MODULE SessionProofs ----------------------------
(***************************************************************************)
(* What holds of sessions and their consolidation for every number of      *)
(* sessions, turns and tasks and every window. The inductive invariant     *)
(* adds to the properties that at most one turn serves a session (through  *)
(* the processing lock or the caller of process_direct), that a call of    *)
(* the model holds the lock of its session, and that a call covers         *)
(* messages from the offset up to the part it has to leave.                *)
(***************************************************************************)
EXTENDS SessionMemory, TLAPS

Busy(t) == turn[t].phase # "idle"

\* A call or a turn that is not idle is one of a session.
SessionsKnown ==
  /\ \A t \in Turns : Busy(t) => turn[t].s \in Sessions
  /\ \A k \in Tasks : task[k].phase # "idle" => task[k].s \in Sessions

TurnsApart ==
  \A t, u \in Turns :
    t # u /\ Busy(t) /\ Busy(u) =>
      turn[t].s # turn[u].s /\ (turn[t].s \in Direct \/ turn[u].s \in Direct)

CallsLocked ==
  /\ \A t \in Turns : turn[t].phase = "call" => lock[turn[t].s] = t
  /\ \A k \in Tasks : task[k].phase = "call" => lock[task[k].s] = k

Offsets ==
  \A s \in Sessions : base[s] <= savedLc[s] /\ savedLc[s] <= lc[s] /\ lc[s] <= total[s]

CallsWithin ==
  /\ \A t \in Turns : turn[t].phase = "call" =>
       turn[t].from = lc[turn[t].s] /\ turn[t].upto = total[turn[t].s]
  /\ \A k \in Tasks : task[k].phase = "call" =>
       task[k].from = lc[task[k].s] /\ task[k].from <= task[k].upto
         /\ task[k].upto + Keep <= total[task[k].s]

IInv == TypeOK /\ SessionsKnown /\ TurnsApart /\ CallsLocked /\ Offsets /\ CallsWithin /\ LockJustified

-----------------------------------------------------------------------------
(* The number of messages to keep is a number.                              *)
LEMMA KeepType == Keep \in Nat
  BY SessionAssumption DEF Keep

(* A call that has not started is well-typed.                               *)
LEMMA NoCallType == NoCall \in Calls
  BY DEF NoCall, Calls

(* A call with well-typed parts is well-typed.                               *)
LEMMA CallType ==
  ASSUME NEW p \in {"idle", "run", "wait", "call"}, NEW r \in Sessions \cup {Nobody},
         NEW o \in Nat, NEW f \in Nat, NEW u \in Nat, NEW m \in SUBSET Nat
  PROVE  [phase |-> p, s |-> r, of |-> o, from |-> f, upto |-> u, seen |-> m] \in Calls
  BY DEF Calls

(* The invariant holds initially.                                           *)
LEMMA InitInv == Init => IInv
  <1> SUFFICES ASSUME Init PROVE IInv
    OBVIOUS
  <1>1. TypeOK
    BY NoCallType DEF Init, TypeOK
  <1>2. SessionsKnown /\ TurnsApart /\ CallsLocked /\ CallsWithin
    BY DEF Init, SessionsKnown, TurnsApart, CallsLocked, CallsWithin, NoCall, Busy
  <1>3. Offsets /\ LockJustified
    BY DEF Init, Offsets, LockJustified
  <1> QED
    BY <1>1, <1>2, <1>3 DEF IInv

(* What begins a call for a known session is well-typed.                     *)
LEMMA CallIn ==
  ASSUME IInv, NEW p \in {"idle", "run", "wait", "call"}, NEW s \in Sessions,
         NEW f \in Nat, NEW u \in Nat, NEW m \in SUBSET Nat
  PROVE  /\ Call(p, s, f, u, m) \in Calls
         /\ Call(p, s, f, u, m).phase = p /\ Call(p, s, f, u, m).s = s
         /\ Call(p, s, f, u, m).from = f /\ Call(p, s, f, u, m).upto = u
         /\ Call(p, s, f, u, m).of = base[s]
  BY CallType DEF IInv, TypeOK, Call

(* ... and so is one that has not read its session yet.                       *)
LEMMA FreshCall ==
  ASSUME IInv, NEW p \in {"run", "wait"}, NEW s \in Sessions
  PROVE  Call(p, s, 0, 0, {}) \in Calls /\ Call(p, s, 0, 0, {}).phase = p /\ Call(p, s, 0, 0, {}).s = s
  <1>1. p \in {"idle", "run", "wait", "call"}
    OBVIOUS
  <1>2. 0 \in Nat /\ {} \in SUBSET Nat
    OBVIOUS
  <1> QED
    BY <1>1, <1>2, CallIn

(* A turn begins only when nobody else serves its session.                  *)
LEMMA BeginTurn ==
  ASSUME IInv, NEW t \in Turns, NEW s \in Sessions, NEW p \in {"run", "wait"},
         turn[t].phase = "idle", MayStart(s),
         turn' = [turn EXCEPT ![t] = Call(p, s, 0, 0, {})],
         UNCHANGED <<session, lock, memory, author, summarised, redo, facts>>,
         consolidating' \subseteq Sessions, news' \in Nat, crashes' \in Nat,
         task' \in [Tasks -> Calls],
         \A k \in Tasks : \/ task'[k] = task[k]
                          \/ task[k].phase = "idle" /\ task'[k].phase = "wait" /\ task'[k].s \in Sessions
  PROVE  IInv'
  <1>1. Call(p, s, 0, 0, {}) \in Calls /\ Call(p, s, 0, 0, {}).phase = p /\ Call(p, s, 0, 0, {}).s = s
    BY FreshCall
  <1> USE DEF IInv, session
  <1>2. /\ turn' \in [Turns -> Calls] /\ turn'[t].phase = p /\ turn'[t].s = s
        /\ \A u \in Turns : u # t => turn'[u] = turn[u]
    BY <1>1 DEF TypeOK
  <1>3. TypeOK'
    <2>1. UNCHANGED <<total, base, lc, savedLc, lock, memory, author, facts, summarised, redo>>
      OBVIOUS
    <2> QED
      BY <1>2, <2>1 DEF TypeOK
  <1>4. SessionsKnown'
    BY <1>2 DEF SessionsKnown, Busy
  <1>5. TurnsApart'
    <2>1. \A u \in Turns : u # t /\ Busy(u) => turn[u].s # s /\ (turn[u].s \in Direct \/ s \in Direct)
      BY DEF MayStart, Serving, BusBusy, Busy
    <2> QED
      BY <1>2, <2>1 DEF TurnsApart, Busy
  <1>6. CallsLocked' /\ CallsWithin'
    BY <1>2 DEF CallsLocked, CallsWithin
  <1>7. Offsets'
    BY DEF Offsets
  <1>8. LockJustified'
    BY <1>2 DEF LockJustified, TypeOK
  <1> QED
    BY <1>3, <1>4, <1>5, <1>6, <1>7, <1>8

(* What ends a call or a wait leaves nothing behind that the invariant is    *)
(* about.                                                                   *)
LEMMA EndOfShape ==
  ASSUME IInv, NEW t \in Turns, turn' = EndOf(t)
  PROVE  /\ turn' \in [Turns -> Calls] /\ turn'[t] = NoCall
         /\ \A u \in Turns : u # t => turn'[u] = turn[u]
  BY NoCallType DEF IInv, TypeOK, EndOf

LEMMA EndTaskShape ==
  ASSUME IInv, NEW k \in Tasks, EndTask(k)
  PROVE  /\ task' \in [Tasks -> Calls] /\ task'[k] = NoCall
         /\ \A u \in Tasks : u # k => task'[u] = task[u]
         /\ consolidating' \subseteq Sessions
  BY NoCallType DEF IInv, TypeOK, EndTask

(* Giving back the lock of a session touches no other lock.                  *)
LEMMA ReleaseShape ==
  ASSUME IInv, NEW s \in Sessions, lock' = Release(s)
  PROVE  /\ lock' \in [Sessions -> Turns \cup Tasks \cup {Nobody}]
         /\ lock'[s] = Nobody /\ \A r \in Sessions : r # s => lock'[r] = lock[r]
  BY DEF IInv, TypeOK, Release

(* Two calls of the model, of whatever kind, are for different sessions.     *)
LEMMA CallsApart ==
  ASSUME IInv
  PROVE  /\ \A t \in Turns, k \in Tasks : turn[t].phase = "call" /\ task[k].phase = "call"
              => turn[t].s # task[k].s
         /\ \A t, u \in Turns : turn[t].phase = "call" /\ turn[u].phase = "call" /\ t # u
              => turn[t].s # turn[u].s
         /\ \A j, k \in Tasks : task[j].phase = "call" /\ task[k].phase = "call" /\ j # k
              => task[j].s # task[k].s
  BY SessionAssumption DEF IInv, CallsLocked

-----------------------------------------------------------------------------
(* Every step keeps the invariant: first the turns, ...                     *)
LEMMA TurnSteps ==
  ASSUME IInv, NEW t \in Turns, TurnStep(t)
  PROVE  IInv'
  <1> USE DEF IInv, session, files, bounds
  <1>1. turn' = EndOf(t) /\ turn[t].phase = "run"
    BY DEF TurnStep, EndTurn, AbortTurn
  <1>2. /\ turn' \in [Turns -> Calls] /\ turn'[t] = NoCall
        /\ \A u \in Turns : u # t => turn'[u] = turn[u]
    BY <1>1, EndOfShape
  <1>3. turn[t].s \in Sessions
    BY <1>1 DEF SessionsKnown, Busy
  <1>4. CASE AbortTurn(t)
    <2>1. UNCHANGED <<total, base, lc, savedLc, consolidating, lock, task, memory, author, facts, summarised, redo, news, crashes>>
      BY <1>4 DEF AbortTurn
    <2>2. TypeOK'
      BY <1>2, <2>1 DEF TypeOK
    <2>3. SessionsKnown' /\ TurnsApart' /\ CallsLocked' /\ CallsWithin'
      BY <1>2, <2>1 DEF SessionsKnown, TurnsApart, CallsLocked, CallsWithin, Busy, NoCall
    <2>4. Offsets' /\ LockJustified'
      BY <1>1, <1>2, <2>1 DEF Offsets, LockJustified
    <2> QED
      BY <2>2, <2>3, <2>4
  <1>5. ASSUME NEW n \in 0..MaxMsgs, EndTurn(t, n) PROVE IInv'
    <2> DEFINE s == turn[t].s
    <2>1. /\ UNCHANGED <<base, lc, consolidating, lock, task, memory, author, facts, summarised, redo, news, crashes>>
          /\ total' = [total EXCEPT ![s] = @ + n] /\ savedLc' = [savedLc EXCEPT ![s] = lc[s]]
      BY <1>5 DEF EndTurn
    <2>2. n \in Nat /\ s \in Sessions
      BY <1>3, SessionAssumption
    <2>3. /\ total' \in [Sessions -> Nat] /\ savedLc' \in [Sessions -> Nat]
          /\ \A r \in Sessions : total[r] <= total'[r] /\ (r # s => total'[r] = total[r])
          /\ \A r \in Sessions : savedLc'[r] = IF r = s THEN lc[r] ELSE savedLc[r]
      BY <2>1, <2>2 DEF TypeOK
    <2> HIDE DEF s
    <2>4. TypeOK'
      BY <1>2, <2>1, <2>3 DEF TypeOK
    <2>5. SessionsKnown' /\ TurnsApart' /\ CallsLocked'
      BY <1>2, <2>1 DEF SessionsKnown, TurnsApart, CallsLocked, Busy, NoCall
    <2>6. Offsets'
      BY <2>1, <2>3 DEF Offsets, TypeOK
    <2>7. LockJustified'
      BY <1>1, <1>2, <2>1 DEF LockJustified
    <2>8. ASSUME NEW u \in Turns, turn'[u].phase = "call"
          PROVE  turn'[u].from = lc'[turn'[u].s] /\ turn'[u].upto = total'[turn'[u].s]
      <3>1. u # t /\ turn'[u] = turn[u]
        BY <1>2, <2>8 DEF NoCall
      <3>2. turn[u].s # s /\ turn[u].s \in Sessions
        BY <1>1, <2>8, <3>1 DEF TurnsApart, Busy, SessionsKnown, s
      <3> QED
        BY <2>1, <2>3, <2>8, <3>1, <3>2 DEF CallsWithin
    <2>9. ASSUME NEW k \in Tasks, task'[k].phase = "call"
          PROVE  /\ task'[k].from = lc'[task'[k].s] /\ task'[k].from <= task'[k].upto
                 /\ task'[k].upto + Keep <= total'[task'[k].s]
      <3>1. task[k].s \in Sessions /\ task[k] \in Calls
        BY <2>1, <2>9 DEF SessionsKnown, TypeOK
      <3>2. task[k].upto \in Nat /\ total[task[k].s] \in Nat /\ total'[task[k].s] \in Nat
        BY <2>3, <3>1 DEF Calls, TypeOK
      <3> QED
        BY <2>1, <2>3, <2>9, <3>1, <3>2, KeepType DEF CallsWithin
    <2>10. CallsWithin'
      BY <2>8, <2>9 DEF CallsWithin
    <2> QED
      BY <2>4, <2>5, <2>6, <2>7, <2>10
  <1> QED
    BY <1>4, <1>5 DEF TurnStep

(* ... the turns that begin, ...                                             *)
LEMMA BeginSteps ==
  ASSUME IInv, NEW t \in Turns, NEW s \in Sessions,
         StartTurn(t, s) \/ StartSystemTurn(t, s) \/ NewBegin(t, s)
  PROVE  IInv'
  <1>w. /\ Call("wait", s, 0, 0, {}) \in Calls /\ Call("wait", s, 0, 0, {}).phase = "wait"
        /\ Call("wait", s, 0, 0, {}).s = s
    BY FreshCall
  <1> USE DEF IInv, session, files, bounds
  <1>0. TypeOK
    OBVIOUS
  <1>1. CASE StartTurn(t, s)
    <2>1. CASE UNCHANGED <<consolidating, task>>
      BY <1>0, <1>1, <2>1, BeginTurn DEF StartTurn, TypeOK
    <2>2. ASSUME NEW k \in Tasks, task[k].phase = "idle",
                 task' = [task EXCEPT ![k] = Call("wait", s, 0, 0, {})],
                 consolidating' = consolidating \cup {s}
          PROVE  IInv'
      <3>2. /\ task' \in [Tasks -> Calls]
            /\ \A j \in Tasks : \/ task'[j] = task[j]
                                \/ task[j].phase = "idle" /\ task'[j].phase = "wait" /\ task'[j].s \in Sessions
        BY <1>0, <1>w, <2>2 DEF TypeOK
      <3>3. /\ consolidating' \subseteq Sessions /\ news' \in Nat /\ crashes' \in Nat
            /\ UNCHANGED <<session, lock, memory, author, summarised, redo, facts>>
        BY <1>0, <1>1, <2>2 DEF StartTurn, TypeOK
      <3>4. /\ turn[t].phase = "idle" /\ MayStart(s)
            /\ turn' = [turn EXCEPT ![t] = Call("run", s, 0, 0, {})]
        BY <1>1 DEF StartTurn
      <3> QED
        BY <3>2, <3>3, <3>4, BeginTurn
    <2> QED
      BY <1>1, <2>1, <2>2 DEF StartTurn, MaybeConsolidate
  <1>2. CASE StartSystemTurn(t, s)
    BY <1>0, <1>2, BeginTurn DEF StartSystemTurn, TypeOK
  <1>3. CASE NewBegin(t, s)
    <2>1. /\ consolidating' \subseteq Sessions /\ news' \in Nat /\ crashes' \in Nat
          /\ UNCHANGED <<session, lock, memory, author, summarised, redo, facts, task>>
      BY <1>0, <1>3 DEF NewBegin, TypeOK
    <2>2. /\ turn[t].phase = "idle" /\ MayStart(s)
          /\ turn' = [turn EXCEPT ![t] = Call("wait", s, 0, 0, {})]
      BY <1>3 DEF NewBegin
    <2>3. task \in [Tasks -> Calls]
      BY <1>0 DEF TypeOK
    <2> QED
      BY <2>1, <2>2, <2>3, BeginTurn
  <1> QED
    BY <1>1, <1>2, <1>3

(* A step that only begins a call under the free lock of its session.        *)
LEMMA LockedCall ==
  ASSUME IInv, NEW s \in Sessions, lock[s] = Nobody,
         NEW x \in Turns \cup Tasks, lock' = [lock EXCEPT ![s] = x],
         UNCHANGED <<session, consolidating, files, bounds>>
  PROVE  /\ Offsets'
         /\ lock' \in [Sessions -> Turns \cup Tasks \cup {Nobody}]
         /\ lock'[s] = x /\ \A r \in Sessions : r # s => lock'[r] = lock[r]
         /\ \A t \in Turns : turn[t].phase = "call" => turn[t].s # s
         /\ \A k \in Tasks : task[k].phase = "call" => task[k].s # s
  BY SessionAssumption DEF IInv, TypeOK, Offsets, session, CallsLocked

(* ... the background consolidations ...                                     *)
LEMMA TaskStarts ==
  ASSUME IInv, NEW k \in Tasks, TaskBegin(k)
  PROVE  IInv'
  <1> USE DEF IInv
  <1> DEFINE s == task[k].s
             c == Call("call", s, lc[s], total[s] - Keep, memory)
  <1>0. TypeOK
    OBVIOUS
  <1>1. /\ task[k].phase = "wait" /\ lock[s] = Nobody /\ HasOld(s)
        /\ task' = [task EXCEPT ![k] = c] /\ lock' = [lock EXCEPT ![s] = k]
        /\ UNCHANGED <<session, consolidating, turn, files, bounds>>
    BY DEF TaskBegin
  <1>2. s \in Sessions
    BY <1>1 DEF SessionsKnown
  <1>3. /\ total[s] \in Nat /\ lc[s] \in Nat /\ base[s] \in Nat /\ memory \in SUBSET Nat
        /\ base[s] <= lc[s] /\ lc[s] <= total[s]
    BY <1>2 DEF TypeOK, Offsets
  <1>4. /\ total[s] - Keep \in Nat /\ lc[s] <= total[s] - Keep
        /\ (total[s] - Keep) + Keep <= total[s]
    BY <1>1, <1>3, KeepType DEF HasOld
  <1>5. /\ c \in Calls /\ c.phase = "call" /\ c.s = s /\ c.from = lc[s] /\ c.upto = total[s] - Keep
    BY <1>2, <1>3, <1>4, CallIn
  <1> HIDE DEF c, s
  <1>6. /\ task' \in [Tasks -> Calls] /\ task'[k] = c /\ \A j \in Tasks : j # k => task'[j] = task[j]
    BY <1>1, <1>5 DEF TypeOK
  <1>7. /\ Offsets'
        /\ lock' \in [Sessions -> Turns \cup Tasks \cup {Nobody}]
        /\ lock'[s] = k /\ \A r \in Sessions : r # s => lock'[r] = lock[r]
        /\ \A t \in Turns : turn[t].phase = "call" => turn[t].s # s
        /\ \A j \in Tasks : task[j].phase = "call" => task[j].s # s
    BY <1>1, <1>2, LockedCall
  <1>8. UNCHANGED <<total, base, lc, savedLc, consolidating, turn, memory, author, facts, summarised, redo, news, crashes>>
    BY <1>1 DEF session, files, bounds
  <1>9. TypeOK'
    BY <1>0, <1>6, <1>7, <1>8 DEF TypeOK
  <1>10. SessionsKnown' /\ TurnsApart'
    BY <1>2, <1>5, <1>6, <1>8 DEF SessionsKnown, TurnsApart, Busy
  <1>11. CallsLocked'
    BY <1>5, <1>6, <1>7, <1>8 DEF CallsLocked, SessionsKnown, Busy
  <1>12. CallsWithin'
    BY <1>4, <1>5, <1>6, <1>8 DEF CallsWithin
  <1>13. LockJustified'
    BY <1>1, <1>5, <1>6, <1>7, <1>8, SessionAssumption DEF LockJustified
  <1> QED
    BY <1>7, <1>9, <1>10, <1>11, <1>12, <1>13

(* What a call writes to the files keeps their types, and covers its         *)
(* messages.                                                                 *)
LEMMA WriteFilesType ==
  ASSUME IInv, NEW c \in Calls, c.s \in Sessions, WriteFiles(c)
  PROVE  /\ memory' \subseteq Nat /\ author' \in Sessions \cup {Nobody} /\ facts' \in Nat /\ redo' \subseteq Sessions
         /\ summarised' \in [Sessions -> SUBSET Nat]
         /\ (c.from + 1)..c.upto \subseteq summarised'[c.s]
  <1>1. c.from \in Nat /\ c.upto \in Nat /\ c.seen \subseteq Nat
    BY DEF Calls
  <1>2. (c.from + 1)..c.upto \subseteq Nat
    BY <1>1
  <1>3. summarised' = [summarised EXCEPT ![c.s] = @ \cup (c.from + 1)..c.upto] /\ redo' = redo
    BY DEF WriteFiles
  <1>4. memory' \subseteq Nat /\ author' \in Sessions \cup {Nobody} /\ facts' \in Nat
    <2>1. memory \subseteq Nat /\ author \in Sessions \cup {Nobody} /\ facts \in Nat
      BY DEF IInv, TypeOK
    <2>2. CASE UNCHANGED <<memory, author, facts>>
      BY <2>1, <2>2
    <2>3. CASE facts' = facts + 1 /\ memory' = c.seen \cup {facts + 1} /\ author' = c.s
      BY <1>1, <2>1, <2>3
    <2> QED
      BY <2>2, <2>3 DEF WriteFiles
  <1>5. summarised \in [Sessions -> SUBSET Nat] /\ redo \subseteq Sessions
    BY DEF IInv, TypeOK
  <1> QED
    BY <1>2, <1>3, <1>4, <1>5

(* A task that ends, with the lock of its session free: what remains to be   *)
(* shown is about the files and the offset of the session.                   *)
LEMMA TaskEnds ==
  ASSUME IInv, NEW k \in Tasks, EndTask(k), task[k].phase \in {"wait", "call"},
         \/ task[k].phase = "wait" /\ UNCHANGED lock
         \/ task[k].phase = "call" /\ lock' = Release(task[k].s),
         UNCHANGED <<total, base, savedLc, turn, bounds>>,
         memory' \subseteq Nat, author' \in Sessions \cup {Nobody}, facts' \in Nat, redo' \subseteq Sessions,
         summarised' \in [Sessions -> SUBSET Nat],
         lc' \in [Sessions -> Nat],
         \A r \in Sessions : lc'[r] # lc[r] => task[k].phase = "call" /\ r = task[k].s,
         \A r \in Sessions : lc[r] <= lc'[r] /\ lc'[r] <= total[r]
  PROVE  IInv'
  <1> USE DEF IInv
  <1> DEFINE s == task[k].s
  <1>0. TypeOK
    OBVIOUS
  <1>1. /\ task' \in [Tasks -> Calls] /\ task'[k] = NoCall
        /\ \A u \in Tasks : u # k => task'[u] = task[u]
        /\ consolidating' \subseteq Sessions
    BY EndTaskShape
  <1>2. s \in Sessions
    BY DEF SessionsKnown
  <1>3. /\ lock' \in [Sessions -> Turns \cup Tasks \cup {Nobody}]
        /\ \A r \in Sessions : r # s => lock'[r] = lock[r]
        /\ lock' = lock \/ (task[k].phase = "call" /\ lock'[s] = Nobody)
    BY <1>0, <1>2, ReleaseShape DEF TypeOK
  <1>4. /\ task[k].phase = "call" => \A t \in Turns : turn[t].phase = "call" => turn[t].s # s
        /\ task[k].phase = "call" => \A j \in Tasks : task[j].phase = "call" /\ j # k => task[j].s # s
    BY CallsApart
  <1>5. TypeOK'
    BY <1>0, <1>1, <1>3 DEF TypeOK, bounds
  <1>6. SessionsKnown' /\ TurnsApart'
    BY <1>1 DEF SessionsKnown, TurnsApart, Busy, NoCall
  <1>7. CallsLocked'
    BY <1>1, <1>2, <1>3, <1>4 DEF CallsLocked, SessionsKnown, NoCall, Busy
  <1>8. Offsets'
    BY <1>0 DEF Offsets, TypeOK
  <1>9. CallsWithin'
    BY <1>1, <1>2, <1>4 DEF CallsWithin, SessionsKnown, NoCall, Busy
  <1>10. LockJustified'
    <2> SUFFICES ASSUME NEW r \in Sessions, lock'[r] # Nobody
                 PROVE  \/ lock'[r] \in Tasks /\ task'[lock'[r]].phase = "call" /\ task'[lock'[r]].s = r
                        \/ lock'[r] \in Turns /\ turn[lock'[r]].phase = "call" /\ turn[lock'[r]].s = r
      BY DEF LockJustified
    <2>1. lock'[r] = lock[r]
      BY <1>2, <1>3
    <2>2. lock[r] # k
      <3> SUFFICES ASSUME lock[r] = k PROVE FALSE
        OBVIOUS
      <3>1. task[k].phase = "call" /\ s = r
        BY <2>1, SessionAssumption DEF LockJustified
      <3>2. lock'[s] = Nobody
        BY <1>2, <3>1, ReleaseShape
      <3> QED
        BY <3>1, <3>2
    <2> QED
      BY <1>1, <2>1, <2>2, SessionAssumption DEF LockJustified
  <1> QED
    BY <1>5, <1>6, <1>7, <1>8, <1>9, <1>10

(* ... and how they end, ...                                                 *)
LEMMA TaskSteps ==
  ASSUME IInv, NEW k \in Tasks, TaskStep(k)
  PROVE  IInv'
  <1> USE DEF session, files, bounds
  <1> DEFINE c == task[k]
  <1>0. TypeOK /\ Offsets /\ CallsWithin /\ c \in Calls /\ (c.phase # "idle" => c.s \in Sessions)
    BY DEF IInv, TypeOK, SessionsKnown
  <1>1. \A r \in Sessions : lc[r] \in Nat /\ total[r] \in Nat /\ lc[r] <= total[r]
    BY <1>0 DEF TypeOK, Offsets
  <1>2. CASE TaskNothing(k)
    BY <1>0, <1>1, <1>2, TaskEnds DEF TaskNothing, TypeOK
  <1>3. CASE TaskFails(k)
    BY <1>0, <1>1, <1>3, TaskEnds DEF TaskFails, TypeOK
  <1>4. CASE TaskHalfDone(k)
    <2>1. c.from \in Nat /\ c.upto \in Nat /\ c.s \in Sessions
      BY <1>0, <1>4 DEF Calls, TaskHalfDone
    <2>2. (c.from + 1)..c.upto \subseteq Nat
      BY <2>1
    <2>3. summarised' \in [Sessions -> SUBSET Nat] /\ redo' \subseteq Sessions
      BY <1>0, <1>4, <2>1, <2>2 DEF TaskHalfDone, TypeOK
    <2> QED
      BY <1>0, <1>1, <1>4, <2>3, TaskEnds DEF TaskHalfDone, TypeOK
  <1>5. CASE TaskDone(k)
    <2>1. c.phase = "call" /\ c.s \in Sessions /\ WriteFiles(c) /\ lc' = [lc EXCEPT ![c.s] = total[c.s] - Keep]
      BY <1>0, <1>5 DEF TaskDone
    <2>2. c.from = lc[c.s] /\ c.from <= c.upto /\ c.upto + Keep <= total[c.s] /\ c.upto \in Nat
      BY <1>0, <2>1 DEF CallsWithin, Calls
    <2>3. total[c.s] - Keep \in Nat /\ lc[c.s] <= total[c.s] - Keep /\ total[c.s] - Keep <= total[c.s]
      BY <1>1, <2>1, <2>2, KeepType
    <2> HIDE DEF c
    <2>4. /\ lc' \in [Sessions -> Nat] /\ \A r \in Sessions : lc'[r] # lc[r] => r = c.s
          /\ \A r \in Sessions : lc[r] <= lc'[r] /\ lc'[r] <= total[r]
      BY <1>0, <1>1, <2>1, <2>3 DEF TypeOK
    <2>5. /\ memory' \subseteq Nat /\ author' \in Sessions \cup {Nobody} /\ facts' \in Nat /\ redo' \subseteq Sessions
          /\ summarised' \in [Sessions -> SUBSET Nat]
      BY <1>0, <2>1, WriteFilesType
    <2>6. /\ EndTask(k) /\ lock' = Release(c.s) /\ UNCHANGED <<total, base, savedLc, turn, bounds>>
      BY <1>5 DEF TaskDone, c
    <2> QED
      BY <2>1, <2>4, <2>5, <2>6, TaskEnds DEF c
  <1>6. CASE TaskBegin(k)
    BY <1>6, TaskStarts
  <1> QED
    BY <1>2, <1>3, <1>4, <1>5, <1>6 DEF TaskStep

(* ... and /new.                                                             *)
LEMMA NewStarts ==
  ASSUME IInv, NEW t \in Turns, NewSnapshot(t)
  PROVE  IInv'
  <1> USE DEF IInv
  <1> DEFINE s == turn[t].s
             c == Call("call", s, lc[s], total[s], memory)
  <1>0. TypeOK
    OBVIOUS
  <1>1. /\ turn[t].phase = "wait" /\ lock[s] = Nobody
        /\ turn' = [turn EXCEPT ![t] = c] /\ lock' = [lock EXCEPT ![s] = t]
        /\ UNCHANGED <<session, consolidating, task, files, bounds>>
    BY DEF NewSnapshot
  <1>2. s \in Sessions
    BY <1>1 DEF SessionsKnown, Busy
  <1>3. total[s] \in Nat /\ lc[s] \in Nat /\ memory \in SUBSET Nat
    BY <1>2 DEF TypeOK
  <1>4. /\ c \in Calls /\ c.phase = "call" /\ c.s = s /\ c.from = lc[s] /\ c.upto = total[s]
    BY <1>2, <1>3, CallIn
  <1> HIDE DEF c, s
  <1>5. /\ turn' \in [Turns -> Calls] /\ turn'[t] = c /\ \A u \in Turns : u # t => turn'[u] = turn[u]
    BY <1>1, <1>4 DEF TypeOK
  <1>6. /\ Offsets'
        /\ lock' \in [Sessions -> Turns \cup Tasks \cup {Nobody}]
        /\ lock'[s] = t /\ \A r \in Sessions : r # s => lock'[r] = lock[r]
        /\ \A u \in Turns : turn[u].phase = "call" => turn[u].s # s
        /\ \A j \in Tasks : task[j].phase = "call" => task[j].s # s
    BY <1>1, <1>2, LockedCall
  <1>7. UNCHANGED <<total, base, lc, savedLc, consolidating, task, memory, author, facts, summarised, redo, news, crashes>>
    BY <1>1 DEF session, files, bounds
  <1>8. TypeOK'
    BY <1>0, <1>5, <1>6, <1>7 DEF TypeOK
  <1>9. SessionsKnown'
    BY <1>2, <1>4, <1>5, <1>7 DEF SessionsKnown, Busy
  <1>10. TurnsApart'
    <2>1. \A u \in Turns : Busy(u)' <=> Busy(u)
      BY <1>1, <1>4, <1>5 DEF Busy
    <2>2. \A u \in Turns : turn'[u].s = turn[u].s
      BY <1>4, <1>5 DEF s
    <2> QED
      BY <2>1, <2>2 DEF TurnsApart
  <1>11. CallsLocked'
    BY <1>4, <1>5, <1>6, <1>7 DEF CallsLocked, SessionsKnown, Busy
  <1>12. CallsWithin'
    BY <1>4, <1>5, <1>7 DEF CallsWithin
  <1>13. LockJustified'
    BY <1>1, <1>4, <1>5, <1>6, <1>7, SessionAssumption DEF LockJustified
  <1> QED
    BY <1>6, <1>8, <1>9, <1>10, <1>11, <1>12, <1>13

(* A /new that ends, with the session cleared or left as it was.             *)
LEMMA NewEnds ==
  ASSUME IInv, NEW t \in Turns, turn' = EndOf(t), turn[t].phase \in {"wait", "call"},
         \/ turn[t].phase = "wait" /\ UNCHANGED lock
         \/ turn[t].phase = "call" /\ lock' = Release(turn[t].s),
         \/ UNCHANGED session
         \/ Clear(turn[t].s) /\ (turn[t].phase = "wait" => lock[turn[t].s] = Nobody),
         consolidating' \subseteq Sessions, UNCHANGED <<task, bounds>>,
         memory' \subseteq Nat, author' \in Sessions \cup {Nobody}, facts' \in Nat, redo' \subseteq Sessions,
         summarised' \in [Sessions -> SUBSET Nat]
  PROVE  IInv'
  <1> USE DEF IInv, session
  <1> DEFINE s == turn[t].s
  <1>0. TypeOK
    OBVIOUS
  <1>1. /\ turn' \in [Turns -> Calls] /\ turn'[t] = NoCall
        /\ \A u \in Turns : u # t => turn'[u] = turn[u]
    BY EndOfShape
  <1>2. s \in Sessions
    BY DEF SessionsKnown, Busy
  <1>3. /\ lock' \in [Sessions -> Turns \cup Tasks \cup {Nobody}]
        /\ \A r \in Sessions : r # s => lock'[r] = lock[r]
        /\ lock' = lock \/ (turn[t].phase = "call" /\ lock'[s] = Nobody)
    BY <1>0, <1>2, ReleaseShape DEF TypeOK
  <1>4. /\ turn[t].phase = "call" => \A k \in Tasks : task[k].phase = "call" => task[k].s # s
        /\ turn[t].phase = "call" => \A u \in Turns : turn[u].phase = "call" /\ u # t => turn[u].s # s
    BY CallsApart
  <1>5. /\ total' = total /\ lc' \in [Sessions -> Nat] /\ base' \in [Sessions -> Nat] /\ savedLc' \in [Sessions -> Nat]
        /\ \A r \in Sessions : r # s => base'[r] = base[r] /\ lc'[r] = lc[r] /\ savedLc'[r] = savedLc[r]
        /\ \/ base'[s] = base[s] /\ lc'[s] = lc[s] /\ savedLc'[s] = savedLc[s]
           \/ base'[s] = total[s] /\ lc'[s] = total[s] /\ savedLc'[s] = total[s]
    BY <1>0, <1>2 DEF TypeOK, Clear
  <1>6. TypeOK'
    BY <1>0, <1>1, <1>3, <1>5 DEF TypeOK, bounds
  <1>7. SessionsKnown' /\ TurnsApart'
    BY <1>1 DEF SessionsKnown, TurnsApart, Busy, NoCall
  <1>8. CallsLocked'
    BY <1>1, <1>2, <1>3, <1>4 DEF CallsLocked, SessionsKnown, NoCall, Busy
  <1>9. Offsets'
    BY <1>0, <1>5 DEF Offsets, TypeOK
  <1>10. CallsWithin'
    <2>1. \A k \in Tasks : task[k].phase = "call" /\ task[k].s = s => lc'[s] = lc[s]
      BY <1>2, <1>4, <1>5, SessionAssumption DEF CallsLocked
    <2>2. \A u \in Turns : turn[u].phase = "call" /\ u # t => turn[u].s # s
      BY <1>1 DEF TurnsApart, Busy
    <2>3. \A u \in Turns : turn'[u].phase = "call" => u # t /\ turn[u].phase = "call" /\ turn[u].s \in Sessions
      BY <1>1 DEF NoCall, SessionsKnown, Busy
    <2>4. \A u \in Turns : turn'[u].phase = "call" =>
             turn'[u].from = lc'[turn'[u].s] /\ turn'[u].upto = total'[turn'[u].s]
      BY <1>1, <1>5, <2>2, <2>3 DEF CallsWithin
    <2>5. \A k \in Tasks : task[k].phase = "call" => lc'[task[k].s] = lc[task[k].s]
      BY <1>5, <2>1 DEF SessionsKnown
    <2> QED
      BY <1>5, <2>4, <2>5 DEF CallsWithin
  <1>11. LockJustified'
    <2> SUFFICES ASSUME NEW r \in Sessions, lock'[r] # Nobody
                 PROVE  \/ lock'[r] \in Tasks /\ task[lock'[r]].phase = "call" /\ task[lock'[r]].s = r
                        \/ lock'[r] \in Turns /\ turn'[lock'[r]].phase = "call" /\ turn'[lock'[r]].s = r
      BY DEF LockJustified
    <2>1. lock'[r] = lock[r]
      BY <1>2, <1>3
    <2>2. lock[r] # t
      <3> SUFFICES ASSUME lock[r] = t PROVE FALSE
        OBVIOUS
      <3>1. turn[t].phase = "call" /\ s = r
        BY <2>1, SessionAssumption DEF LockJustified
      <3>2. lock'[s] = Nobody
        BY <1>2, <3>1, ReleaseShape
      <3> QED
        BY <3>1, <3>2
    <2> QED
      BY <1>1, <2>1, <2>2, SessionAssumption DEF LockJustified
  <1> QED
    BY <1>6, <1>7, <1>8, <1>9, <1>10, <1>11

LEMMA NewSteps ==
  ASSUME IInv, NEW t \in Turns, NewStep(t) \/ NewCancelled(t)
  PROVE  IInv'
  <1> USE DEF files, bounds
  <1> DEFINE c == turn[t]
  <1>0. TypeOK /\ c \in Calls /\ (c.phase # "idle" => c.s \in Sessions)
    BY DEF IInv, TypeOK, SessionsKnown, Busy
  <1>1. CASE NewSnapshot(t)
    BY <1>1, NewStarts
  <1>2. CASE NewNothing(t)
    BY <1>0, <1>2, NewEnds DEF NewNothing, TypeOK
  <1>3. CASE NewCancelled(t)
    BY <1>0, <1>3, NewEnds DEF NewCancelled, TypeOK
  <1>4. CASE NewFails(t)
    BY <1>0, <1>4, NewEnds DEF NewFails, TypeOK
  <1>5. CASE NewHalfDone(t)
    <2>1. c.from \in Nat /\ c.upto \in Nat /\ c.s \in Sessions
      BY <1>0, <1>5 DEF Calls, NewHalfDone
    <2>2. (c.from + 1)..c.upto \subseteq Nat
      BY <2>1
    <2>3. summarised' \in [Sessions -> SUBSET Nat] /\ redo' \subseteq Sessions
      BY <1>0, <1>5, <2>1, <2>2 DEF NewHalfDone, TypeOK
    <2> QED
      BY <1>0, <1>5, <2>3, NewEnds DEF NewHalfDone, TypeOK
  <1>6. CASE NewDone(t)
    <2>1. c.phase = "call" /\ c.s \in Sessions /\ WriteFiles(c)
      BY <1>0, <1>6 DEF NewDone
    <2> HIDE DEF c
    <2>2. /\ memory' \subseteq Nat /\ author' \in Sessions \cup {Nobody} /\ facts' \in Nat /\ redo' \subseteq Sessions
          /\ summarised' \in [Sessions -> SUBSET Nat]
      BY <1>0, <2>1, WriteFilesType
    <2>3. /\ turn' = EndOf(t) /\ lock' = Release(c.s) /\ Clear(c.s)
          /\ consolidating' \subseteq Sessions /\ UNCHANGED <<task, bounds>>
      BY <1>0, <1>6 DEF NewDone, TypeOK, c
    <2> QED
      BY <2>1, <2>2, <2>3, NewEnds DEF c
  <1> QED
    BY <1>1, <1>2, <1>3, <1>4, <1>5, <1>6 DEF NewStep

(* A crash leaves the messages and the offset that was saved.                *)
LEMMA CrashStep ==
  ASSUME IInv, Crash
  PROVE  IInv'
  <1> USE DEF IInv
  <1>1. TypeOK'
    BY NoCallType DEF Crash, TypeOK
  <1>2. SessionsKnown' /\ TurnsApart' /\ CallsLocked' /\ CallsWithin'
    BY DEF Crash, SessionsKnown, TurnsApart, CallsLocked, CallsWithin, NoCall, Busy
  <1>3. Offsets' /\ LockJustified'
    BY DEF Crash, Offsets, LockJustified, TypeOK
  <1> QED
    BY <1>1, <1>2, <1>3

LEMMA NextInv == IInv /\ [Next]_vars => IInv'
  <1> SUFFICES ASSUME IInv, [Next]_vars PROVE IInv'
    OBVIOUS
  <1>1. CASE UNCHANGED vars
    BY <1>1 DEF IInv, vars, session, files, bounds, TypeOK, SessionsKnown, TurnsApart, CallsLocked,
       Offsets, CallsWithin, LockJustified, Busy
  <1> QED
    BY <1>1, BeginSteps, TurnSteps, TaskSteps, NewSteps, CrashStep DEF Next

-----------------------------------------------------------------------------
(* Type correctness of sessions and consolidation.                           *)
THEOREM SessionType == Spec => []TypeOK
  <1>1. IInv => TypeOK
    BY DEF IInv
  <1> QED
    BY <1>1, InitInv, NextInv, PTL DEF Spec

(* The offset of every session stays within its messages, and every call of  *)
(* the model covers messages from the offset on.                             *)
THEOREM SessionOffsetWithin == Spec => []OffsetWithin
  <1>1. IInv => OffsetWithin
    <2> SUFFICES ASSUME IInv, NEW s \in Sessions, NEW c \in Calling(s)
                 PROVE  c.from = lc[s] /\ c.upto <= total[s]
      BY DEF IInv, Offsets, OffsetWithin
    <2>1. CASE \E t \in Turns : turn[t].phase = "call" /\ turn[t].s = s /\ c = turn[t]
      BY <2>1 DEF IInv, CallsWithin, TypeOK
    <2>2. CASE \E k \in Tasks : task[k].phase = "call" /\ task[k].s = s /\ c = task[k]
      <3> PICK k \in Tasks : task[k].phase = "call" /\ task[k].s = s /\ c = task[k]
        BY <2>2
      <3>1. task[k].upto \in Nat /\ total[s] \in Nat
        BY DEF IInv, TypeOK, Calls
      <3> QED
        BY <3>1, KeepType DEF IInv, CallsWithin
    <2> QED
      BY <2>1, <2>2 DEF Calling
  <1> QED
    BY <1>1, InitInv, NextInv, PTL DEF Spec

(* A lock that is held is held by a call in progress, so that it will be     *)
(* given back.                                                               *)
THEOREM SessionLockJustified == Spec => []LockJustified
  <1>1. IInv => LockJustified
    BY DEF IInv
  <1> QED
    BY <1>1, InitInv, NextInv, PTL DEF Spec

(* /new clears a session only when all that was not consolidated is in the   *)
(* history: the turns of the session are kept out while it archives.         *)
THEOREM SessionNewArchives == Spec => NewArchives
  <1>1. ASSUME IInv, [Next]_vars
        PROVE  [\A s \in Sessions :
                  base'[s] # base[s] => (lc[s] + 1)..total[s] \subseteq summarised'[s]]_vars
    <2> SUFFICES ASSUME NEW s \in Sessions, base'[s] # base[s], ~UNCHANGED vars
                 PROVE  (lc[s] + 1)..total[s] \subseteq summarised'[s]
      OBVIOUS
    <2> USE DEF session, files, bounds
    <2>1. base' # base
      OBVIOUS
    <2>2. PICK t \in Turns : NewNothing(t) \/ NewDone(t)
      BY <1>1, <2>1 DEF Next, StartTurn, StartSystemTurn, NewBegin, TurnStep, EndTurn, AbortTurn,
         TaskStep, TaskBegin, TaskNothing, TaskDone, TaskFails, TaskHalfDone, NewStep, NewSnapshot,
         NewFails, NewHalfDone, NewCancelled, Crash
    <2>3. Clear(turn[t].s) /\ turn[t].phase # "idle"
      BY <2>2 DEF NewNothing, NewDone
    <2>4. turn[t].s = s
      BY <1>1, <2>3 DEF Clear, IInv, TypeOK
    <2>5. CASE NewNothing(t)
      <3>1. lc[s] \in Nat /\ total[s] \in Nat /\ lc[s] >= total[s]
        BY <1>1, <2>4, <2>5 DEF NewNothing, IInv, TypeOK
      <3> QED
        BY <3>1
    <2>6. CASE NewDone(t)
      <3>1. turn[t].from = lc[s] /\ turn[t].upto = total[s] /\ WriteFiles(turn[t])
        BY <1>1, <2>4, <2>6 DEF NewDone, IInv, CallsWithin
      <3>2. (turn[t].from + 1)..turn[t].upto \subseteq summarised'[turn[t].s]
        BY <1>1, <2>4, <3>1, WriteFilesType DEF IInv, TypeOK
      <3> QED
        BY <2>4, <3>1, <3>2
    <2> QED
      BY <2>2, <2>5, <2>6
  <1> QED
    BY <1>1, InitInv, NextInv, PTL DEF Spec, NewArchives

-----------------------------------------------------------------------------
(* What the history covers lies below the offset, unless a summary was       *)
(* written whose call failed afterwards or whose offset a crash has lost.    *)
Written == \A s \in Sessions \ redo : \A m \in summarised[s] : m <= lc[s]

(* A step that writes no summary keeps that if no offset moves back unnoticed. *)
LEMMA NothingWritten ==
  ASSUME Written, IInv, summarised' = summarised, redo \subseteq redo', lc' \in [Sessions -> Nat],
         \A s \in Sessions \ redo' : lc[s] <= lc'[s]
  PROVE  Written'
  BY DEF Written, IInv, TypeOK

(* A summary whose offset moves with it lies below the new offset.           *)
LEMMA SummaryWritten ==
  ASSUME Written, IInv, NEW c \in Calls, c.s \in Sessions, WriteFiles(c),
         lc' \in [Sessions -> Nat], c.upto <= lc'[c.s], \A s \in Sessions : lc[s] <= lc'[s]
  PROVE  Written'
  <1>1. /\ summarised' = [summarised EXCEPT ![c.s] = @ \cup (c.from + 1)..c.upto] /\ redo' = redo
        /\ c.from \in Nat /\ c.upto \in Nat
    BY DEF WriteFiles, Calls
  <1>2. summarised \in [Sessions -> SUBSET Nat] /\ lc \in [Sessions -> Nat]
    BY DEF IInv, TypeOK
  <1> SUFFICES ASSUME NEW s \in Sessions \ redo, NEW m \in summarised'[s] PROVE m <= lc'[s]
    BY <1>1 DEF Written
  <1>3. CASE m \in summarised[s]
    BY <1>2, <1>3 DEF Written
  <1>4. CASE s = c.s /\ m \in (c.from + 1)..c.upto
    BY <1>1, <1>4
  <1> QED
    BY <1>1, <1>2, <1>3, <1>4

(* A summary whose call fails afterwards leaves a mark.                      *)
LEMMA HalfWritten ==
  ASSUME Written, IInv, NEW c \in Calls, c.s \in Sessions, UNCHANGED lc,
         summarised' = [summarised EXCEPT ![c.s] = @ \cup (c.from + 1)..c.upto],
         redo' = redo \cup {c.s}
  PROVE  Written'
  BY DEF Written, IInv, TypeOK

LEMMA WrittenStep == IInv /\ Written /\ [Next]_vars => Written'
  <1> SUFFICES ASSUME IInv, Written, [Next]_vars PROVE Written'
    OBVIOUS
  <1> USE DEF session, files, bounds
  <1>a. /\ TypeOK /\ lc \in [Sessions -> Nat] /\ total \in [Sessions -> Nat]
        /\ savedLc \in [Sessions -> Nat] /\ Offsets /\ CallsWithin
    BY DEF IInv, TypeOK
  <1>1. ASSUME UNCHANGED <<summarised, redo, lc>> PROVE Written'
    BY <1>1 DEF Written
  <1>2. ASSUME NEW t \in Turns, NEW s \in Sessions,
               StartTurn(t, s) \/ StartSystemTurn(t, s) \/ NewBegin(t, s)
        PROVE  Written'
    BY <1>1, <1>2 DEF StartTurn, StartSystemTurn, NewBegin
  <1>3. ASSUME NEW t \in Turns, TurnStep(t) PROVE Written'
    BY <1>1, <1>3 DEF TurnStep, EndTurn, AbortTurn
  <1>4. ASSUME NEW t \in Turns, NewStep(t) \/ NewCancelled(t) PROVE Written'
    <2>1. turn[t] \in Calls /\ (turn[t].phase # "idle" => turn[t].s \in Sessions)
      BY <1>a DEF IInv, TypeOK, SessionsKnown, Busy
    <2>2. CASE NewSnapshot(t) \/ NewFails(t) \/ NewCancelled(t)
      BY <1>1, <2>2 DEF NewSnapshot, NewFails, NewCancelled
    <2>3. ASSUME turn[t].s \in Sessions, Clear(turn[t].s)
          PROVE  /\ lc' \in [Sessions -> Nat] /\ \A s \in Sessions : lc[s] <= lc'[s]
                 /\ lc'[turn[t].s] = total[turn[t].s]
      BY <1>a, <2>3 DEF Clear, Offsets
    <2>4. CASE NewNothing(t)
      BY <2>1, <2>3, <2>4, NothingWritten DEF NewNothing
    <2>5. CASE NewHalfDone(t)
      BY <2>1, <2>5, HalfWritten DEF NewHalfDone
    <2>6. CASE NewDone(t)
      <3>1. turn[t].phase = "call" /\ WriteFiles(turn[t]) /\ Clear(turn[t].s)
        BY <2>6 DEF NewDone
      <3>2. turn[t].s \in Sessions /\ turn[t].upto = total[turn[t].s]
        BY <1>a, <2>1, <3>1 DEF CallsWithin
      <3>3. total[turn[t].s] \in Nat
        BY <1>a, <3>2
      <3> QED
        BY <2>1, <2>3, <3>1, <3>2, <3>3, SummaryWritten
    <2> QED
      BY <1>4, <2>2, <2>4, <2>5, <2>6 DEF NewStep
  <1>5. ASSUME NEW k \in Tasks, TaskStep(k) PROVE Written'
    <2>1. task[k] \in Calls /\ (task[k].phase # "idle" => task[k].s \in Sessions)
      BY <1>a DEF IInv, TypeOK, SessionsKnown
    <2>2. CASE TaskBegin(k) \/ TaskNothing(k) \/ TaskFails(k)
      BY <1>1, <2>2 DEF TaskBegin, TaskNothing, TaskFails
    <2>3. CASE TaskHalfDone(k)
      BY <2>1, <2>3, HalfWritten DEF TaskHalfDone
    <2>4. CASE TaskDone(k)
      <3> DEFINE c == task[k]
      <3>1. c.phase = "call" /\ WriteFiles(c) /\ lc' = [lc EXCEPT ![c.s] = total[c.s] - Keep]
        BY <2>4 DEF TaskDone
      <3>2. c \in Calls /\ c.s \in Sessions /\ c.upto \in Nat
        BY <2>1, <3>1 DEF Calls
      <3>3. c.from = lc[c.s] /\ c.from <= c.upto /\ c.upto + Keep <= total[c.s]
        BY <1>a, <3>1 DEF CallsWithin
      <3>4. total[c.s] \in Nat /\ lc[c.s] \in Nat
        BY <1>a, <3>2
      <3>5. total[c.s] - Keep \in Nat /\ c.upto <= total[c.s] - Keep /\ lc[c.s] <= total[c.s] - Keep
        BY <3>2, <3>3, <3>4, KeepType
      <3> HIDE DEF c
      <3>6. /\ lc' \in [Sessions -> Nat] /\ c.upto <= lc'[c.s]
            /\ \A s \in Sessions : lc[s] <= lc'[s]
        BY <1>a, <3>1, <3>2, <3>5
      <3> QED
        BY <3>1, <3>2, <3>6, SummaryWritten
    <2> QED
      BY <1>5, <2>2, <2>3, <2>4 DEF TaskStep
  <1>6. CASE Crash
    <2>1. /\ lc' = savedLc /\ summarised' = summarised
          /\ redo' = redo \cup {s \in Sessions : savedLc[s] # lc[s]}
      BY <1>6 DEF Crash
    <2> QED
      BY <1>a, <2>1, NothingWritten
  <1>7. CASE UNCHANGED vars
    BY <1>1, <1>7 DEF vars
  <1> QED
    BY <1>2, <1>3, <1>4, <1>5, <1>6, <1>7 DEF Next

(* No message is given to the model for a second summary, whatever turns,    *)
(* consolidations, commands and crashes come between (agent/memory.py).      *)
THEOREM SessionNoDoubleSummary == Spec => []NoDoubleSummary
  <1>1. Init => Written
    BY DEF Init, Written
  <1>2. IInv /\ Written => NoDoubleSummary
    <2> SUFFICES ASSUME IInv, Written, NEW s \in Sessions \ redo, NEW c \in Calling(s)
                 PROVE  (c.from + 1)..c.upto \cap summarised[s] = {}
      BY DEF NoDoubleSummary
    <2>1. c.from = lc[s] /\ c.upto \in Nat
      BY DEF Calling, IInv, CallsWithin, TypeOK, Calls
    <2>2. lc[s] \in Nat /\ \A m \in summarised[s] : m \in Nat /\ m <= lc[s]
      BY DEF Written, IInv, TypeOK
    <2> QED
      BY <2>1, <2>2
  <1> QED
    BY <1>1, <1>2, InitInv, NextInv, WrittenStep, PTL DEF Spec

-----------------------------------------------------------------------------
(* A call of the model for the session that wrote MEMORY.md last has been    *)
(* given the memory as it is: the lock of the session kept every other call  *)
(* of it away, and no other session has written since.                       *)
SeenIsMemory ==
  /\ author = Nobody => memory = {}
  /\ \A t \in Turns : turn[t].phase = "call" /\ turn[t].s = author => turn[t].seen = memory
  /\ \A k \in Tasks : task[k].phase = "call" /\ task[k].s = author => task[k].seen = memory

\* What MemoryKept says of one step.
Keeps == memory \subseteq memory' \/ author \notin {Nobody, author'}

(* What the session that wrote last writes to MEMORY.md is all that was      *)
(* there, and perhaps more.                                                  *)
LEMMA MemoryGrows ==
  ASSUME NEW c, SeenIsMemory, c.s = author => c.seen = memory, WriteFiles(c)
  PROVE  /\ Keeps
         /\ UNCHANGED <<memory, author>> \/ author' = c.s
  BY DEF WriteFiles, Keeps, SeenIsMemory

LEMMA SeenStep == IInv /\ SeenIsMemory /\ [Next]_vars => SeenIsMemory' /\ Keeps
  <1> SUFFICES ASSUME IInv, SeenIsMemory, [Next]_vars
               PROVE  SeenIsMemory' /\ Keeps
    OBVIOUS
  <1> USE DEF session, files, bounds
  <1>a. turn \in [Turns -> Calls] /\ task \in [Tasks -> Calls]
    BY DEF IInv, TypeOK
  <1>b. /\ \A t \in Turns : turn[t].phase = "call" => turn[t].s \in Sessions
        /\ \A k \in Tasks : task[k].phase = "call" => task[k].s \in Sessions
    BY DEF IInv, SessionsKnown, Busy
  <1>1. ASSUME UNCHANGED <<memory, author>>,
               \A t \in Turns : turn'[t].phase = "call" => turn'[t] = turn[t] \/ turn'[t].seen = memory,
               \A k \in Tasks : task'[k].phase = "call" => task'[k] = task[k] \/ task'[k].seen = memory
        PROVE  SeenIsMemory' /\ Keeps
    BY <1>1 DEF SeenIsMemory, Keeps
  <1>2. ASSUME NEW t \in Turns, NEW s \in Sessions,
               StartTurn(t, s) \/ StartSystemTurn(t, s) \/ NewBegin(t, s)
        PROVE  SeenIsMemory' /\ Keeps
    BY <1>1, <1>2, <1>a DEF StartTurn, StartSystemTurn, NewBegin, MaybeConsolidate, Call
  <1>3. ASSUME NEW t \in Turns, turn' = EndOf(t), UNCHANGED <<task, memory, author>>
        PROVE  SeenIsMemory' /\ Keeps
    BY <1>1, <1>3, <1>a DEF EndOf, NoCall
  <1>4. ASSUME NEW k \in Tasks, EndTask(k), UNCHANGED <<turn, memory, author>>
        PROVE  SeenIsMemory' /\ Keeps
    BY <1>1, <1>4, <1>a DEF EndTask, NoCall
  <1>5. ASSUME NEW t \in Turns, NewSnapshot(t) PROVE SeenIsMemory' /\ Keeps
    BY <1>1, <1>5, <1>a DEF NewSnapshot, Call
  <1>6. ASSUME NEW k \in Tasks, TaskBegin(k) PROVE SeenIsMemory' /\ Keeps
    BY <1>1, <1>6, <1>a DEF TaskBegin, Call
  <1>7. ASSUME NEW t \in Turns, NewDone(t) PROVE SeenIsMemory' /\ Keeps
    <2>1. turn[t].phase = "call" /\ WriteFiles(turn[t]) /\ turn' = EndOf(t) /\ task' = task
      BY <1>7 DEF NewDone
    <2>2. Keeps /\ (UNCHANGED <<memory, author>> \/ author' = turn[t].s)
      BY <2>1, MemoryGrows DEF SeenIsMemory
    <2>3. /\ \A u \in Turns : turn'[u].phase = "call" =>
                turn'[u] = turn[u] /\ turn[u].phase = "call" /\ turn[u].s # turn[t].s
          /\ \A k \in Tasks : task'[k].phase = "call" => task'[k] = task[k] /\ task[k].s # turn[t].s
      BY <2>1, <1>a, CallsApart DEF EndOf, NoCall
    <2>4. CASE UNCHANGED <<memory, author>>
      BY <2>2, <2>3, <2>4, <1>1
    <2>5. CASE author' = turn[t].s
      <3>1. author' # Nobody
        BY <2>1, <2>5, <1>b, SessionAssumption
      <3> QED
        BY <2>2, <2>3, <2>5, <3>1 DEF SeenIsMemory
    <2> QED
      BY <2>2, <2>4, <2>5
  <1>8. ASSUME NEW k \in Tasks, TaskDone(k) PROVE SeenIsMemory' /\ Keeps
    <2>1. task[k].phase = "call" /\ WriteFiles(task[k]) /\ EndTask(k) /\ turn' = turn
      BY <1>8 DEF TaskDone
    <2>2. Keeps /\ (UNCHANGED <<memory, author>> \/ author' = task[k].s)
      BY <2>1, MemoryGrows DEF SeenIsMemory
    <2>3. /\ \A t \in Turns : turn'[t].phase = "call" => turn'[t] = turn[t] /\ turn[t].s # task[k].s
          /\ \A j \in Tasks : task'[j].phase = "call" =>
                task'[j] = task[j] /\ task[j].phase = "call" /\ task[j].s # task[k].s
      BY <2>1, <1>a, CallsApart DEF EndTask, NoCall
    <2>4. CASE UNCHANGED <<memory, author>>
      BY <2>2, <2>3, <2>4, <1>1
    <2>5. CASE author' = task[k].s
      <3>1. author' # Nobody
        BY <2>1, <2>5, <1>b, SessionAssumption
      <3> QED
        BY <2>2, <2>3, <2>5, <3>1 DEF SeenIsMemory
    <2> QED
      BY <2>2, <2>4, <2>5
  <1>9. ASSUME NEW t \in Turns, TurnStep(t) \/ NewStep(t) \/ NewCancelled(t)
        PROVE  SeenIsMemory' /\ Keeps
    BY <1>3, <1>5, <1>7, <1>9 DEF TurnStep, EndTurn, AbortTurn, NewStep, NewNothing, NewFails,
       NewHalfDone, NewCancelled
  <1>10. ASSUME NEW k \in Tasks, TaskStep(k) PROVE SeenIsMemory' /\ Keeps
    BY <1>4, <1>6, <1>8, <1>10 DEF TaskStep, TaskNothing, TaskFails, TaskHalfDone
  <1>11. CASE Crash
    BY <1>1, <1>11 DEF Crash, NoCall
  <1>12. CASE UNCHANGED vars
    BY <1>1, <1>12 DEF vars
  <1> QED
    BY <1>2, <1>9, <1>10, <1>11, <1>12 DEF Next

(* A write that drops a fact from MEMORY.md comes from another session than  *)
(* the write before it: what one session does, however many turns and        *)
(* consolidations of it overlap, drops nothing (agent/memory.py).            *)
THEOREM SessionMemoryKept == Spec => MemoryKept
  <1>1. Init => SeenIsMemory
    BY DEF Init, SeenIsMemory, NoCall
  <1>2. IInv /\ SeenIsMemory /\ [Next]_vars => SeenIsMemory'
    BY SeenStep
  <1>3. IInv /\ SeenIsMemory /\ [Next]_vars => [Keeps]_vars
    BY SeenStep
  <1>4. [Keeps]_vars => [memory \subseteq memory' \/ author \notin {Nobody, author'}]_vars
    BY DEF Keeps
  <1> QED
    BY <1>1, <1>2, <1>3, <1>4, InitInv, NextInv, PTL DEF Spec, MemoryKept
=============================================================================
