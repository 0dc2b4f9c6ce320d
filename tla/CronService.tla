----------------------------- MODULE CronService -----------------------------
(***************************************************************************)
(* The cron service of the gateway (roboclaw/cron/service.py): a job store *)
(* kept in memory and in jobs.json, one asyncio timer task that runs the   *)
(* jobs that are due, agent turns of the same process that add, list and   *)
(* remove jobs while a job may be running, and a second process (the       *)
(* interactive agent) that edits jobs.json under the gateway's feet.       *)
(*                                                                         *)
(* An action is the code between two awaits: the only await inside the     *)
(* timer's task is the call of on_job, so a tick either ends the batch at  *)
(* once or stops at the start of a job (TimerFires), and the end of a job  *)
(* runs up to the start of the next one or to the end of the batch.        *)
(*                                                                         *)
(* Times are natural numbers, and 0 stands for None, as in the code, which *)
(* tests next_run_at_ms by its truth value.                                *)
(***************************************************************************)
EXTENDS Naturals

CONSTANTS Jobs,       \* the job ids that may ever be created
          AtTime,     \* AtTime[j] # 0: j is a one-shot job for that time
          Every,      \* the interval of the recurring jobs
          Keep,       \* the one-shot jobs added without delete_after_run
          NoJob,      \* no job is running
          MaxClock,   \* bound: the last instant of a behaviour
          MaxEdits,   \* bound: calls of the cron tool inside the gateway
          MaxExternal \* bound: edits of jobs.json by another process

ASSUME CronAssumption ==
  /\ AtTime \in [Jobs -> Nat]
  /\ Every \in Nat \ {0}
  /\ Keep \subseteq Jobs
  /\ NoJob \notin Jobs
  /\ MaxClock \in Nat /\ MaxEdits \in Nat /\ MaxExternal \in Nat

VARIABLES
  clock,     \* time.time(), in the unit of the schedules
  up,        \* the gateway has started the service (_running)
  mem,       \* _store.jobs: the jobs held in memory, by id
  disk,      \* jobs.json
  stale,     \* the file's mtime differs from _last_mtime
  timer,     \* _timer_task: absent, asleep until .at, or running a batch
  current,   \* the job whose on_job is awaited
  pending,   \* the rest of due_jobs
  orphan,    \* the jobs of the batch are objects of a replaced store
  created,   \* ids already used
  edits,     \* calls of the cron tool so far
  external,  \* edits by the other process so far
  starts,    \* how often on_job was called, by job
  lastStart, \* when it was called last (0: never)
  removed,   \* jobs removed by the gateway's own cron tool
  disturbed, \* the cron tool was called while a batch was running
  extOff     \* jobs the other process disabled while no batch was running

store   == <<mem, disk, stale>>
batch   == <<current, pending, orphan>>
history == <<starts, lastStart, removed, disturbed, extOff>>
bounds  == <<created, edits, external>>
vars    == <<clock, up, store, timer, batch, bounds, history>>

Timers == [phase : {"none", "sleep", "batch"}, at : Nat]
Idle   == [phase |-> "none", at |-> 0]
JobRec == [enabled : BOOLEAN, next : Nat]

IsAt(j) == AtTime[j] # 0

-----------------------------------------------------------------------------
(* Helpers of the service. A definition whose name starts with Mut is a     *)
(* plausible mistake in the one that follows it, kept to show that the      *)
(* properties below would notice.                                           *)

\* A time that is just passing still counts as the next run.
MutComputeNextRun(j, t) ==
  IF IsAt(j) THEN IF AtTime[j] >= t THEN AtTime[j] ELSE 0 ELSE t + Every

\* _compute_next_run: a one-shot time that has passed has no next run, a
\* recurring job runs one interval after the moment of the computation.
ComputeNextRun(j, t) ==
  IF IsAt(j) THEN IF AtTime[j] > t THEN AtTime[j] ELSE 0 ELSE t + Every

\* _load_store: the file is read again whenever its mtime is not the one of
\* the service's last save. Reading does not record the mtime.
LoadStore == IF stale THEN disk ELSE mem

NoJobs == [j \in {} |-> 0]
Without(jobs, j) == [i \in DOMAIN jobs \ {j} |-> jobs[i]]
With(jobs, j, rec) == [i \in DOMAIN jobs \cup {j} |-> IF i = j THEN rec ELSE jobs[i]]

\* The jobs _get_next_wake_ms looks at, and their times.
Armed(jobs)  == {j \in DOMAIN jobs : jobs[j].enabled /\ jobs[j].next # 0}
Wakes(jobs)  == {jobs[j].next : j \in Armed(jobs)}
Due(jobs, t) == {j \in Armed(jobs) : jobs[j].next <= t}

\* _recompute_next_runs
RecomputeNextRuns(jobs, t) ==
  [j \in DOMAIN jobs |->
     IF jobs[j].enabled THEN [jobs[j] EXCEPT !.next = ComputeNextRun(j, t)]
                        ELSE jobs[j]]

\* _save_store
SaveStore(jobs) == mem' = jobs /\ disk' = jobs /\ stale' = FALSE

\* Only the future counts: a job that is overdue does not wake the service.
MutArmTimer(jobs) ==
  LET future == {t \in Wakes(jobs) : t > clock}
  IN /\ \/ future = {} /\ timer' = Idle
        \/ \E t \in future : /\ \A u \in future : t <= u
                             /\ timer' = [phase |-> "sleep", at |-> t]
     /\ current' = NoJob /\ pending' = {} /\ orphan' = FALSE

\* _arm_timer: whatever the timer task is doing is cancelled, a batch with the
\* job it awaits included, and a new task sleeps until the earliest next run.
ArmTimer(jobs) ==
  /\ \/ Wakes(jobs) = {} /\ timer' = Idle
     \/ \E t \in Wakes(jobs) : /\ \A u \in Wakes(jobs) : t <= u
                               /\ timer' = [phase |-> "sleep", at |-> t]
  /\ current' = NoJob /\ pending' = {} /\ orphan' = FALSE

\* _execute_job up to the await of on_job.
BeginJob(j) ==
  /\ current' = j
  /\ starts' = [starts EXCEPT ![j] = @ + 1]
  /\ lastStart' = [lastStart EXCEPT ![j] = clock]
  /\ UNCHANGED <<removed, disturbed, extOff>>

\* The next run is counted from the time this one was due.
MutEndJob(j) ==
  IF IsAt(j) /\ j \notin Keep THEN Without(mem, j)
  ELSE IF orphan THEN mem
  ELSE IF IsAt(j) THEN [mem EXCEPT ![j] = [enabled |-> FALSE, next |-> 0]]
  ELSE [mem EXCEPT ![j].next = @ + Every]

\* What _execute_job does to the store after on_job returned or raised. A
\* deletion filters the current store by id; every other update goes to the job
\* object, which is no longer in the store if the store was replaced meanwhile.
EndJob(j) ==
  IF IsAt(j) /\ j \notin Keep THEN Without(mem, j)
  ELSE IF orphan THEN mem
  ELSE IF IsAt(j) THEN [mem EXCEPT ![j] = [enabled |-> FALSE, next |-> 0]]
  ELSE [mem EXCEPT ![j].next = ComputeNextRun(j, clock)]
\* A call of the cron tool, from a turn of the gateway's agent.
ToolCall ==
  /\ up /\ edits < MaxEdits
  /\ edits' = edits + 1
  /\ disturbed' = (disturbed \/ timer.phase = "batch")
-----------------------------------------------------------------------------
Init ==
  /\ clock = 1
  /\ up = FALSE
  /\ mem = NoJobs /\ disk = NoJobs /\ stale = FALSE
  /\ timer = Idle
  /\ current = NoJob /\ pending = {} /\ orphan = FALSE
  /\ created = {} /\ edits = 0 /\ external = 0
  /\ starts = [j \in Jobs |-> 0] /\ lastStart = [j \in Jobs |-> 0]
  /\ removed = {} /\ disturbed = FALSE /\ extOff = {}

\* start(): load, recompute every next run from now, save, arm.
Start ==
  /\ ~up
  /\ up' = TRUE
  /\ LET jobs == RecomputeNextRuns(disk, clock)
     IN SaveStore(jobs) /\ ArmTimer(jobs)
  /\ UNCHANGED <<clock, bounds, history>>

\* stop() at shutdown, or the end of the process: the timer task is cancelled
\* and the memory is gone without being saved.
Halt ==
  /\ up
  /\ up' = FALSE
  /\ mem' = NoJobs /\ timer' = Idle
  /\ current' = NoJob /\ pending' = {} /\ orphan' = FALSE
  /\ UNCHANGED <<clock, disk, stale, bounds, history>>

\* tick() and _on_timer when nothing is due: the store is saved and the timer
\* armed again.
TimerFiresIdle ==
  /\ up /\ timer.phase = "sleep" /\ timer.at <= clock
  /\ Due(LoadStore, clock) = {}
  /\ SaveStore(LoadStore) /\ ArmTimer(LoadStore)
  /\ UNCHANGED <<clock, up, bounds, history>>

\* tick() and _on_timer when jobs are due: the first one starts.
TimerFires ==
  /\ up /\ timer.phase = "sleep" /\ timer.at <= clock
  /\ \E j \in Due(LoadStore, clock) :
       /\ BeginJob(j)
       /\ pending' = Due(LoadStore, clock) \ {j}
  /\ mem' = LoadStore
  /\ timer' = [timer EXCEPT !.phase = "batch"]
  /\ orphan' = FALSE
  /\ UNCHANGED <<clock, up, disk, stale, bounds>>

\* on_job returned or raised, and another job of the batch follows.
JobDoneNext ==
  /\ up /\ timer.phase = "batch" /\ pending # {}
  /\ mem' = EndJob(current)
  /\ \E j \in pending : BeginJob(j) /\ pending' = pending \ {j}
  /\ UNCHANGED <<clock, up, disk, stale, timer, orphan, bounds>>

\* The batch ends without a save.
MutJobDoneLast ==
  /\ up /\ timer.phase = "batch" /\ pending = {}
  /\ mem' = EndJob(current) /\ UNCHANGED <<disk, stale>>
  /\ ArmTimer(EndJob(current))
  /\ UNCHANGED <<clock, up, bounds, history>>

\* on_job returned or raised, and the batch is over: save and arm.
JobDoneLast ==
  /\ up /\ timer.phase = "batch" /\ pending = {}
  /\ SaveStore(EndJob(current)) /\ ArmTimer(EndJob(current))
  /\ UNCHANGED <<clock, up, bounds, history>>

\* add_job, called by the cron tool of an agent turn of the gateway.
AddJob(j) ==
  /\ ToolCall
  /\ j \notin created /\ created' = created \cup {j}
  /\ LET jobs == With(LoadStore, j, [enabled |-> TRUE, next |-> ComputeNextRun(j, clock)])
     IN SaveStore(jobs) /\ ArmTimer(jobs)
  /\ UNCHANGED <<clock, up, external, starts, lastStart, removed, extOff>>

\* remove_job, called by the cron tool, for a job the store holds.
RemoveJob(j) ==
  /\ ToolCall
  /\ j \in DOMAIN LoadStore
  /\ SaveStore(Without(LoadStore, j)) /\ ArmTimer(Without(LoadStore, j))
  /\ removed' = removed \cup {j}
  /\ UNCHANGED <<clock, up, created, external, starts, lastStart, extOff>>

\* list_jobs, status, remove_job of an unknown id and add_job of a refused
\* schedule: a stale store is replaced, and the timer is not armed.
ListJobs ==
  /\ ToolCall /\ stale
  /\ mem' = disk /\ orphan' = (timer.phase = "batch")
  /\ UNCHANGED <<clock, up, disk, stale, timer, current, pending, created, external,
                 starts, lastStart, removed, extOff>>

\* Another process adds a job to jobs.json, ...
ExternalAdd(j) ==
  /\ external < MaxExternal /\ j \notin created
  /\ created' = created \cup {j} /\ external' = external + 1
  /\ disk' = With(disk, j, [enabled |-> TRUE, next |-> ComputeNextRun(j, clock)])
  /\ stale' = up
  /\ UNCHANGED <<clock, up, mem, timer, batch, edits, history>>

\* ... enables or disables one (enable_job), ...
ExternalEnable(j, on) ==
  /\ external < MaxExternal /\ j \in DOMAIN disk
  /\ external' = external + 1
  /\ disk' = [disk EXCEPT ![j] =
                [enabled |-> on, next |-> IF on THEN ComputeNextRun(j, clock) ELSE 0]]
  /\ stale' = up
  /\ extOff' = IF on THEN extOff \ {j}
               ELSE IF timer.phase = "batch" THEN extOff ELSE extOff \cup {j}
  /\ UNCHANGED <<clock, up, mem, timer, batch, created, edits,
                 starts, lastStart, removed, disturbed>>

\* ... or removes one.
ExternalRemove(j) ==
  /\ external < MaxExternal /\ j \in DOMAIN disk
  /\ external' = external + 1
  /\ disk' = Without(disk, j)
  /\ stale' = up
  /\ UNCHANGED <<clock, up, mem, timer, batch, created, edits, history>>

Tick ==
  /\ clock < MaxClock
  /\ clock' = clock + 1
  /\ UNCHANGED <<up, store, timer, batch, bounds, history>>

Next ==
  \/ Start \/ Halt \/ Tick
  \/ TimerFiresIdle \/ TimerFires \/ JobDoneNext \/ JobDoneLast
  \/ ListJobs
  \/ \E j \in Jobs : AddJob(j) \/ RemoveJob(j) \/ ExternalAdd(j) \/ ExternalRemove(j)
  \/ \E j \in Jobs, on \in BOOLEAN : ExternalEnable(j, on)

Spec == Init /\ [][Next]_vars

\* The event loop runs every task that can run, on_job returns or raises, time
\* passes, and a gateway that is down is started again.
Fairness ==
  /\ WF_vars(Tick) /\ WF_vars(Start)
  /\ WF_vars(TimerFiresIdle) /\ WF_vars(TimerFires)
  /\ WF_vars(JobDoneNext) /\ WF_vars(JobDoneLast)

FairSpec == Spec /\ Fairness
-----------------------------------------------------------------------------
(* Properties.                                                             *)

IsStore(jobs) == DOMAIN jobs \subseteq Jobs /\ jobs \in [DOMAIN jobs -> JobRec]

(* The type of every variable, and what ties the batch to the timer.       *)
TypeOK ==
  /\ clock \in Nat /\ up \in BOOLEAN /\ stale \in BOOLEAN
  /\ IsStore(mem) /\ IsStore(disk)
  /\ timer \in Timers
  /\ current \in Jobs \cup {NoJob} /\ pending \subseteq Jobs /\ orphan \in BOOLEAN
  /\ created \subseteq Jobs /\ edits \in Nat /\ external \in Nat
  /\ starts \in [Jobs -> Nat] /\ lastStart \in [Jobs -> Nat]
  /\ removed \subseteq Jobs /\ disturbed \in BOOLEAN /\ extOff \subseteq Jobs

(* No armed job is forgotten: while the service runs and its store is the   *)
(* one it saved, the timer is asleep until a time no later than the job's,  *)
(* or a batch is running that will arm it again. It fails if any path from  *)
(* a change of the store misses _arm_timer.                                 *)
TimerCovers ==
  up /\ ~stale =>
    \A j \in Armed(mem) :
      \/ timer.phase = "batch"
      \/ timer.phase = "sleep" /\ timer.at <= mem[j].next

(* A crash of the gateway between two ticks loses nothing: what the service *)
(* holds is what is in jobs.json, unless somebody else has written it.      *)
DiskInSync == up /\ ~stale /\ timer.phase # "batch" => disk = mem

(* A job the cron tool has removed is never started again, though the batch *)
(* that is running was computed before the removal.                         *)
RemovedStaysRemoved == [][\A j \in removed : starts'[j] = starts[j]]_vars

(* A one-shot job is started at most once, whatever crashes and restarts of *)
(* the gateway and edits of the file come between: only a call of the cron  *)
(* tool in the middle of a batch may make the service start a job again.    *)
OneShotUnlessDisturbed == \A j \in Jobs : IsAt(j) /\ ~disturbed => starts[j] <= 1

(* Two starts of a recurring job are at least an interval apart, however    *)
(* late the timer was and however long the previous run took, with the same *)
(* exception.                                                               *)
EverySpacing ==
  [][\A j \in Jobs : (~IsAt(j) /\ ~disturbed /\ starts[j] > 0 /\ starts'[j] # starts[j])
                       => clock >= lastStart[j] + Every]_vars

(* A job that the other process has disabled while the service slept is not *)
(* started any more. (A disable that is written while a batch runs is lost: *)
(* the end of the batch saves the store the batch began with.)              *)
ExternalDisableHonoured == [][\A j \in extOff : starts'[j] = starts[j]]_vars

(* A one-shot job that is armed is done with in the end, or the gateway     *)
(* goes down or somebody else writes jobs.json: additions and removals of   *)
(* other jobs cancel the timer and the batch, and each of them has to leave *)
(* the job to a later tick.                                                 *)
OneShotDone ==
  \A j \in Jobs : (IsAt(j) /\ up /\ ~stale /\ j \in Armed(mem))
                    ~> (~up \/ stale \/ j \notin Armed(mem))
=============================================================================
