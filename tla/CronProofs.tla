------------------------------ MODULE CronProofs ------------------------------
(***************************************************************************)
(* What holds of the cron service for every set of jobs, every schedule    *)
(* and every number of edits and crashes. The inductive invariant adds to  *)
(* the type the facts that the service relies on without checking: during  *)
(* a batch the job that runs and those that wait are distinct and, unless  *)
(* the store was replaced, in the store; an id is never used twice.        *)
(***************************************************************************)
EXTENDS CronService, TLAPS

BatchInv ==
  timer.phase = "batch" =>
    /\ current \in Jobs
    /\ ~orphan => current \in DOMAIN mem /\ pending \subseteq DOMAIN mem /\ current \notin pending

IdsInv ==
  /\ DOMAIN mem \subseteq created /\ DOMAIN disk \subseteq created
  /\ removed \subseteq created
  /\ removed \cap (DOMAIN mem \cup DOMAIN disk \cup pending) = {}

IInv == TypeOK /\ BatchInv /\ IdsInv /\ TimerCovers /\ DiskInSync

-----------------------------------------------------------------------------
(* The helpers of the service keep the shape of a store.                   *)

(* The next run of a job is a time or None.                                 *)
LEMMA NextRunType == ASSUME NEW j \in Jobs, NEW t \in Nat
                     PROVE  ComputeNextRun(j, t) \in Nat
  BY CronAssumption DEF ComputeNextRun, IsAt

(* Deleting a job from a store leaves a store without it.                   *)
LEMMA WithoutType == ASSUME NEW jobs, IsStore(jobs), NEW j
                     PROVE  IsStore(Without(jobs, j)) /\ DOMAIN Without(jobs, j) = DOMAIN jobs \ {j}
  BY DEF IsStore, Without

(* Adding a job to a store leaves a store with it.                          *)
LEMMA WithType == ASSUME NEW jobs, IsStore(jobs), NEW j \in Jobs, NEW r \in JobRec
                  PROVE  IsStore(With(jobs, j, r)) /\ DOMAIN With(jobs, j, r) = DOMAIN jobs \cup {j}
  BY DEF IsStore, With

(* Recomputing the next runs keeps the jobs.                                *)
LEMMA RecomputeType == ASSUME NEW jobs, IsStore(jobs), NEW t \in Nat
                       PROVE  IsStore(RecomputeNextRuns(jobs, t)) /\ DOMAIN RecomputeNextRuns(jobs, t) = DOMAIN jobs
  BY NextRunType DEF IsStore, RecomputeNextRuns, JobRec

(* After _arm_timer no batch runs and the timer covers every armed job of   *)
(* the store it was armed for.                                              *)
LEMMA ArmCovers ==
  ASSUME NEW jobs, IsStore(jobs), ArmTimer(jobs)
  PROVE  /\ timer' \in Timers /\ timer'.phase # "batch"
         /\ \A j \in Armed(jobs) : timer'.phase = "sleep" /\ timer'.at <= jobs[j].next
         /\ current' = NoJob /\ pending' = {} /\ orphan' = FALSE
  <1>1. Wakes(jobs) \subseteq Nat
    BY DEF Wakes, Armed, IsStore, JobRec
  <1>2. \A j \in Armed(jobs) : jobs[j].next \in Wakes(jobs)
    BY DEF Wakes
  <1> QED
    BY <1>1, <1>2 DEF ArmTimer, Timers, Idle

(* The store the service works on is a store of known jobs.                 *)
LEMMA LoadStoreType == ASSUME IInv
                       PROVE  /\ IsStore(LoadStore) /\ DOMAIN LoadStore \subseteq created
                              /\ removed \cap DOMAIN LoadStore = {}
  BY DEF IInv, TypeOK, IdsInv, LoadStore

(* The end of a job leaves a store, without the job or with its new state.  *)
LEMMA EndJobType ==
  ASSUME IInv, timer.phase = "batch"
  PROVE  /\ IsStore(EndJob(current)) /\ DOMAIN EndJob(current) \subseteq DOMAIN mem
         /\ ~orphan => pending \subseteq DOMAIN EndJob(current)
  <1> USE DEF IInv, TypeOK, BatchInv
  <1>1. CASE IsAt(current) /\ current \notin Keep
    BY <1>1, WithoutType DEF EndJob
  <1>2. CASE ~(IsAt(current) /\ current \notin Keep) /\ orphan
    BY <1>2 DEF EndJob
  <1>3. CASE IsAt(current) /\ current \in Keep /\ ~orphan
    BY <1>3 DEF EndJob, IsStore, JobRec
  <1>4. CASE ~IsAt(current) /\ ~orphan
    <2>1. ComputeNextRun(current, clock) \in Nat
      BY NextRunType
    <2> QED
      BY <1>4, <2>1 DEF EndJob, IsStore, JobRec
  <1> QED
    BY <1>1, <1>2, <1>3, <1>4

(* Saving a store and arming the timer for it restores the invariant.       *)
LEMMA SaveAndArm ==
  ASSUME IInv, NEW jobs, IsStore(jobs), SaveStore(jobs), ArmTimer(jobs),
         clock' \in Nat, up' \in BOOLEAN,
         created' \subseteq Jobs, edits' \in Nat, external' \in Nat,
         starts' \in [Jobs -> Nat], lastStart' \in [Jobs -> Nat],
         removed' \subseteq created', disturbed' \in BOOLEAN, extOff' \subseteq Jobs,
         DOMAIN jobs \subseteq created', removed' \cap DOMAIN jobs = {}
  PROVE  IInv'
  <1>1. /\ timer' \in Timers /\ timer'.phase # "batch"
        /\ \A j \in Armed(jobs) : timer'.phase = "sleep" /\ timer'.at <= jobs[j].next
        /\ current' = NoJob /\ pending' = {} /\ orphan' = FALSE
    BY ArmCovers
  <1>2. mem' = jobs /\ disk' = jobs /\ stale' = FALSE
    BY DEF SaveStore
  <1>3. TypeOK' /\ BatchInv' /\ IdsInv'
    BY <1>1, <1>2 DEF TypeOK, BatchInv, IdsInv
  <1>4. TimerCovers'
    BY <1>1, <1>2 DEF TimerCovers, Armed
  <1>5. DiskInSync'
    BY <1>2 DEF DiskInSync
  <1> QED
    BY <1>3, <1>4, <1>5 DEF IInv

-----------------------------------------------------------------------------
(* The invariant holds initially.                                           *)
LEMMA InitInv == Init => IInv
  <1> SUFFICES ASSUME Init PROVE IInv
    OBVIOUS
  <1>1. IsStore(NoJobs) /\ DOMAIN NoJobs = {}
    BY DEF IsStore, NoJobs
  <1>2. TypeOK
    BY <1>1 DEF Init, TypeOK, Timers, Idle
  <1> QED
    BY <1>1, <1>2 DEF Init, IInv, BatchInv, IdsInv, TimerCovers, DiskInSync, Idle

(* Every step of the service and of its surroundings keeps the invariant.   *)
LEMMA NextInv == IInv /\ [Next]_vars => IInv'
  <1> SUFFICES ASSUME IInv, [Next]_vars PROVE IInv'
    OBVIOUS
  <1> USE DEF store, batch, history, bounds
  <1>a. TypeOK /\ BatchInv /\ IdsInv /\ TimerCovers /\ DiskInSync
    BY DEF IInv
  <1>b. IsStore(LoadStore) /\ DOMAIN LoadStore \subseteq created /\ removed \cap DOMAIN LoadStore = {}
    BY LoadStoreType
  <1>1. CASE Start
    <2> DEFINE jobs == RecomputeNextRuns(disk, clock)
    <2>1. IsStore(jobs) /\ DOMAIN jobs = DOMAIN disk
      BY <1>a, RecomputeType DEF TypeOK
    <2>2. SaveStore(jobs) /\ ArmTimer(jobs)
      BY <1>1 DEF Start
    <2> HIDE DEF jobs
    <2> QED
      BY <1>1, <1>a, <2>1, <2>2, SaveAndArm DEF Start, TypeOK, IdsInv
  <1>2. CASE Halt
    <2>1. IsStore(NoJobs) /\ DOMAIN NoJobs = {}
      BY DEF IsStore, NoJobs
    <2>2. TypeOK'
      BY <1>2, <1>a, <2>1 DEF Halt, TypeOK, Timers, Idle
    <2> QED
      BY <1>2, <1>a, <2>1, <2>2 DEF Halt, IInv, BatchInv, IdsInv, TimerCovers, DiskInSync, Idle
  <1>3. CASE Tick
    BY <1>3, <1>a DEF Tick, IInv, TypeOK, BatchInv, IdsInv, TimerCovers, DiskInSync, Armed
  <1>4. CASE TimerFiresIdle
    BY <1>4, <1>a, <1>b, SaveAndArm DEF TimerFiresIdle, TypeOK, IdsInv
  <1>5. CASE TimerFires
    <2> PICK j \in Due(LoadStore, clock) : BeginJob(j) /\ pending' = Due(LoadStore, clock) \ {j}
      BY <1>5 DEF TimerFires
    <2>1. Due(LoadStore, clock) \subseteq DOMAIN LoadStore
      BY DEF Due, Armed
    <2>2. j \in Jobs /\ DOMAIN LoadStore \subseteq Jobs
      BY <2>1, <1>b DEF IsStore
    <2>3. starts' \in [Jobs -> Nat] /\ lastStart' \in [Jobs -> Nat] /\ current' = j
      BY <1>a, <2>2 DEF BeginJob, TypeOK
    <2>4. timer' \in Timers /\ timer'.phase = "batch"
      BY <1>5, <1>a DEF TimerFires, TypeOK, Timers
    <2>5. TypeOK'
      BY <1>5, <1>a, <1>b, <2>1, <2>2, <2>3, <2>4 DEF TimerFires, TypeOK, BeginJob
    <2>6. BatchInv' /\ TimerCovers' /\ DiskInSync'
      BY <1>5, <2>1, <2>2, <2>3, <2>4 DEF TimerFires, BatchInv, TimerCovers, DiskInSync
    <2>7. IdsInv'
      BY <1>5, <1>a, <1>b, <2>1 DEF TimerFires, IdsInv, BeginJob
    <2> QED
      BY <2>5, <2>6, <2>7 DEF IInv
  <1>6. CASE JobDoneNext
    <2> PICK j \in pending : BeginJob(j) /\ pending' = pending \ {j}
      BY <1>6 DEF JobDoneNext
    <2>1. /\ IsStore(EndJob(current)) /\ DOMAIN EndJob(current) \subseteq DOMAIN mem
          /\ ~orphan => pending \subseteq DOMAIN EndJob(current)
      BY <1>6, EndJobType DEF JobDoneNext
    <2>2. mem' = EndJob(current) /\ timer' = timer /\ timer.phase = "batch" /\ orphan' = orphan
      BY <1>6 DEF JobDoneNext
    <2>3. starts' \in [Jobs -> Nat] /\ lastStart' \in [Jobs -> Nat] /\ current' = j /\ j \in Jobs
      BY <1>a DEF BeginJob, TypeOK
    <2>4. TypeOK'
      BY <1>6, <1>a, <2>1, <2>2, <2>3 DEF JobDoneNext, TypeOK, BeginJob
    <2>5. BatchInv' /\ TimerCovers' /\ DiskInSync'
      BY <2>1, <2>2, <2>3 DEF BatchInv, TimerCovers, DiskInSync
    <2>6. IdsInv'
      BY <1>6, <1>a, <2>1, <2>2 DEF JobDoneNext, IdsInv, BeginJob
    <2> QED
      BY <2>4, <2>5, <2>6 DEF IInv
  <1>7. CASE JobDoneLast
    <2>1. IsStore(EndJob(current)) /\ DOMAIN EndJob(current) \subseteq DOMAIN mem
      BY <1>7, EndJobType DEF JobDoneLast
    <2> QED
      BY <1>7, <1>a, <2>1, SaveAndArm DEF JobDoneLast, TypeOK, IdsInv
  <1>8. CASE ListJobs
    <2>1. TypeOK'
      BY <1>8, <1>a DEF ListJobs, ToolCall, TypeOK
    <2>2. BatchInv' /\ IdsInv'
      BY <1>8, <1>a DEF ListJobs, ToolCall, BatchInv, IdsInv
    <2>3. TimerCovers' /\ DiskInSync'
      BY <1>8 DEF ListJobs, ToolCall, TimerCovers, DiskInSync
    <2> QED
      BY <2>1, <2>2, <2>3 DEF IInv
  <1>9. ASSUME NEW j \in Jobs, AddJob(j) PROVE IInv'
    <2> DEFINE rec  == [enabled |-> TRUE, next |-> ComputeNextRun(j, clock)]
               jobs == With(LoadStore, j, rec)
    <2>1. rec \in JobRec
      BY <1>a, NextRunType DEF TypeOK, JobRec
    <2>2. IsStore(jobs) /\ DOMAIN jobs = DOMAIN LoadStore \cup {j}
      BY <1>b, <2>1, WithType
    <2>3. SaveStore(jobs) /\ ArmTimer(jobs)
      BY <1>9 DEF AddJob
    <2> HIDE DEF jobs
    <2> QED
      BY <1>9, <1>a, <1>b, <2>2, <2>3, SaveAndArm DEF AddJob, ToolCall, TypeOK, IdsInv
  <1>10. ASSUME NEW j \in Jobs, RemoveJob(j) PROVE IInv'
    <2> DEFINE jobs == Without(LoadStore, j)
    <2>1. IsStore(jobs) /\ DOMAIN jobs = DOMAIN LoadStore \ {j}
      BY <1>b, WithoutType
    <2>2. SaveStore(jobs) /\ ArmTimer(jobs) /\ j \in DOMAIN LoadStore
      BY <1>10 DEF RemoveJob
    <2> HIDE DEF jobs
    <2> QED
      BY <1>10, <1>a, <1>b, <2>1, <2>2, SaveAndArm DEF RemoveJob, ToolCall, TypeOK, IdsInv
  <1>11. ASSUME NEW j \in Jobs, ExternalAdd(j) PROVE IInv'
    <2> DEFINE rec  == [enabled |-> TRUE, next |-> ComputeNextRun(j, clock)]
    <2>1. rec \in JobRec
      BY <1>a, NextRunType DEF TypeOK, JobRec
    <2>2. disk' = With(disk, j, rec)
      BY <1>11 DEF ExternalAdd
    <2>3. IsStore(disk') /\ DOMAIN disk' = DOMAIN disk \cup {j}
      BY <1>a, <2>1, <2>2, WithType DEF TypeOK
    <2>4. TypeOK'
      BY <1>11, <1>a, <2>3 DEF ExternalAdd, TypeOK
    <2>5. BatchInv' /\ TimerCovers' /\ DiskInSync'
      BY <1>11, <1>a DEF ExternalAdd, BatchInv, TimerCovers, DiskInSync, Armed
    <2>6. IdsInv'
      BY <1>11, <1>a, <2>3 DEF ExternalAdd, IdsInv
    <2> QED
      BY <2>4, <2>5, <2>6 DEF IInv
  <1>12. ASSUME NEW j \in Jobs, ExternalRemove(j) PROVE IInv'
    <2>1. IsStore(disk') /\ DOMAIN disk' = DOMAIN disk \ {j}
      BY <1>12, <1>a, WithoutType DEF ExternalRemove, TypeOK
    <2> QED
      BY <1>12, <1>a, <2>1 DEF ExternalRemove, IInv, TypeOK, BatchInv, IdsInv, TimerCovers, DiskInSync
  <1>13. ASSUME NEW j \in Jobs, NEW on \in BOOLEAN, ExternalEnable(j, on) PROVE IInv'
    <2>1. ComputeNextRun(j, clock) \in Nat
      BY <1>a, NextRunType DEF TypeOK
    <2>2. IsStore(disk') /\ DOMAIN disk' = DOMAIN disk
      BY <1>13, <1>a, <2>1 DEF ExternalEnable, TypeOK, IsStore, JobRec
    <2> QED
      BY <1>13, <1>a, <2>2 DEF ExternalEnable, IInv, TypeOK, BatchInv, IdsInv, TimerCovers, DiskInSync
  <1>14. CASE UNCHANGED vars
    BY <1>14, <1>a DEF vars, IInv, TypeOK, BatchInv, IdsInv, TimerCovers, DiskInSync, Armed
  <1> QED
    BY <1>1, <1>2, <1>3, <1>4, <1>5, <1>6, <1>7, <1>8, <1>9, <1>10, <1>11, <1>12, <1>13, <1>14 DEF Next

-----------------------------------------------------------------------------
(* Type correctness of the service.                                         *)
THEOREM CronType == Spec => []TypeOK
  <1>1. IInv => TypeOK
    BY DEF IInv
  <1> QED
    BY <1>1, InitInv, NextInv, PTL DEF Spec

(* No armed job is ever left without a timer: _arm_timer follows every      *)
(* change the service makes to its store.                                   *)
THEOREM CronTimerCovers == Spec => []TimerCovers
  <1>1. IInv => TimerCovers
    BY DEF IInv
  <1> QED
    BY <1>1, InitInv, NextInv, PTL DEF Spec

(* Outside a batch the file is what the service holds, so that a crash      *)
(* loses no job and no schedule.                                            *)
THEOREM CronDiskInSync == Spec => []DiskInSync
  <1>1. IInv => DiskInSync
    BY DEF IInv
  <1> QED
    BY <1>1, InitInv, NextInv, PTL DEF Spec

(* A removed job is never started again.                                    *)
THEOREM CronRemovedStaysRemoved == Spec => RemovedStaysRemoved
  <1>1. ASSUME IInv, [Next]_vars
        PROVE  [\A j \in removed : starts'[j] = starts[j]]_vars
    <2> SUFFICES ASSUME NEW k \in removed, ~UNCHANGED vars PROVE starts'[k] = starts[k]
      OBVIOUS
    <2> USE DEF history, bounds, store, batch
    <2>1. \A j : BeginJob(j) /\ j # k => starts'[k] = starts[k]
      BY <1>1 DEF BeginJob, IInv, TypeOK, IdsInv
    <2>2. CASE TimerFires
      BY <1>1, <2>1, <2>2, LoadStoreType DEF TimerFires, Due, Armed
    <2>3. CASE JobDoneNext
      BY <1>1, <2>1, <2>3 DEF JobDoneNext, IInv, IdsInv
    <2>4. CASE Start \/ Halt \/ Tick \/ TimerFiresIdle \/ JobDoneLast \/ ListJobs
      BY <2>4 DEF Start, Halt, Tick, TimerFiresIdle, JobDoneLast, ListJobs
    <2>5. CASE \E j \in Jobs : AddJob(j) \/ RemoveJob(j) \/ ExternalAdd(j) \/ ExternalRemove(j)
      BY <2>5 DEF AddJob, RemoveJob, ExternalAdd, ExternalRemove
    <2>6. CASE \E j \in Jobs, on \in BOOLEAN : ExternalEnable(j, on)
      BY <2>6 DEF ExternalEnable
    <2> QED
      BY <1>1, <2>2, <2>3, <2>4, <2>5, <2>6 DEF Next
  <1> QED
    BY <1>1, InitInv, NextInv, PTL DEF Spec, RemovedStaysRemoved

-----------------------------------------------------------------------------
(* What a job that the other process has disabled looks like: disabled in    *)
(* the file, and also in memory unless the service is going to read the file *)
(* before it looks at its jobs again; and not in the batch. A service that   *)
(* is down holds no jobs, and only a batch has jobs that are pending.        *)
OffInv ==
  /\ ~up => DOMAIN mem = {}
  /\ timer.phase # "batch" => pending = {}
  /\ extOff \subseteq created
  /\ \A j \in extOff :
       /\ j \in DOMAIN disk => ~disk[j].enabled
       /\ j \in DOMAIN mem /\ (~stale \/ timer.phase = "batch") => ~mem[j].enabled
       /\ j \notin pending

(* A store in which the disabled jobs are disabled stays so when it is       *)
(* saved and the timer armed.                                                *)
LEMMA SaveKeepsOff ==
  ASSUME OffInv, NEW jobs, SaveStore(jobs), ArmTimer(jobs),
         up', extOff' = extOff, created \subseteq created',
         \A j \in extOff : j \in DOMAIN jobs => ~jobs[j].enabled
  PROVE  OffInv'
  BY DEF OffInv, SaveStore, ArmTimer

(* Reading the store does not enable a disabled job, and starting a batch    *)
(* does not pick one.                                                        *)
LEMMA LoadKeepsOff ==
  ASSUME IInv, OffInv, timer.phase # "batch" \/ stale, NEW k \in extOff
  PROVE  /\ k \in DOMAIN LoadStore => ~LoadStore[k].enabled
         /\ k \notin Due(LoadStore, clock)
  BY DEF OffInv, LoadStore, Due, Armed

(* The end of a job enables no job.                                          *)
LEMMA EndKeepsOff ==
  ASSUME IInv, OffInv, timer.phase = "batch", NEW k \in extOff, k \in DOMAIN EndJob(current)
  PROVE  ~EndJob(current)[k].enabled
  <1>1. k \in DOMAIN mem => ~mem[k].enabled
    BY DEF OffInv
  <1>2. IsStore(mem)
    BY DEF IInv, TypeOK
  <1> QED
    BY <1>1, <1>2 DEF EndJob, Without, IsStore, JobRec

(* Every step keeps what the disabled jobs look like.                        *)
LEMMA OffStep == IInv /\ OffInv /\ [Next]_vars => OffInv'
  <1> SUFFICES ASSUME IInv, OffInv, [Next]_vars PROVE OffInv'
    OBVIOUS
  <1> USE DEF store, batch, history, bounds
  <1>a. /\ TypeOK /\ BatchInv /\ IdsInv
        /\ IsStore(mem) /\ IsStore(disk)
    BY DEF IInv, TypeOK
  <1>b. ASSUME timer.phase # "batch" \/ stale, NEW k \in extOff
        PROVE  /\ k \in DOMAIN LoadStore => ~LoadStore[k].enabled
               /\ k \notin Due(LoadStore, clock)
    BY <1>b, LoadKeepsOff
  <1>c. ASSUME NEW k \in extOff PROVE k \in DOMAIN LoadStore => ~LoadStore[k].enabled
    BY <1>b DEF OffInv, LoadStore
  <1>1. CASE Start
    <2> DEFINE jobs == RecomputeNextRuns(disk, clock)
    <2>1. SaveStore(jobs) /\ ArmTimer(jobs) /\ up' /\ extOff' = extOff /\ created' = created
      BY <1>1 DEF Start
    <2>2. \A k \in extOff : k \in DOMAIN jobs => ~jobs[k].enabled
      BY DEF RecomputeNextRuns, OffInv
    <2> HIDE DEF jobs
    <2> QED
      BY <2>1, <2>2, SaveKeepsOff
  <1>2. CASE Halt \/ Tick
    BY <1>2 DEF Halt, Tick, OffInv, NoJobs, Idle
  <1>3. CASE TimerFiresIdle
    BY <1>3, <1>c, SaveKeepsOff DEF TimerFiresIdle
  <1>4. CASE TimerFires
    <2>1. \A k \in extOff : k \notin Due(LoadStore, clock)
      BY <1>4, <1>b DEF TimerFires
    <2>2. extOff' = extOff
      BY <1>4 DEF TimerFires, BeginJob
    <2> QED
      BY <1>4, <1>c, <2>1, <2>2 DEF TimerFires, OffInv
  <1>5. CASE JobDoneNext
    <2>1. \A k \in extOff : k \in DOMAIN EndJob(current) => ~EndJob(current)[k].enabled
      BY <1>5, EndKeepsOff DEF JobDoneNext
    <2>2. extOff' = extOff
      BY <1>5 DEF JobDoneNext, BeginJob
    <2> QED
      BY <1>5, <2>1, <2>2 DEF JobDoneNext, OffInv
  <1>6. CASE JobDoneLast
    <2>1. \A k \in extOff : k \in DOMAIN EndJob(current) => ~EndJob(current)[k].enabled
      BY <1>6, EndKeepsOff DEF JobDoneLast
    <2> QED
      BY <1>6, <2>1, SaveKeepsOff DEF JobDoneLast
  <1>7. CASE ListJobs
    BY <1>7 DEF ListJobs, ToolCall, OffInv
  <1>8. ASSUME NEW j \in Jobs, AddJob(j) PROVE OffInv'
    <2> DEFINE jobs == With(LoadStore, j, [enabled |-> TRUE, next |-> ComputeNextRun(j, clock)])
    <2>1. SaveStore(jobs) /\ ArmTimer(jobs) /\ up' /\ extOff' = extOff /\ created \subseteq created'
      BY <1>8 DEF AddJob, ToolCall
    <2>2. \A k \in extOff : k \in DOMAIN jobs => ~jobs[k].enabled
      BY <1>8, <1>c DEF AddJob, With, OffInv
    <2> HIDE DEF jobs
    <2> QED
      BY <2>1, <2>2, SaveKeepsOff
  <1>9. ASSUME NEW j \in Jobs, RemoveJob(j) PROVE OffInv'
    <2> DEFINE jobs == Without(LoadStore, j)
    <2>1. SaveStore(jobs) /\ ArmTimer(jobs) /\ up' /\ extOff' = extOff /\ created' = created
      BY <1>9 DEF RemoveJob, ToolCall
    <2>2. \A k \in extOff : k \in DOMAIN jobs => ~jobs[k].enabled
      BY <1>c DEF Without
    <2> HIDE DEF jobs
    <2> QED
      BY <2>1, <2>2, SaveKeepsOff
  <1>10. ASSUME NEW j \in Jobs, ExternalAdd(j) PROVE OffInv'
    <2>1. \A k \in extOff : k # j
      BY <1>10 DEF ExternalAdd, OffInv
    <2>2. \A k \in extOff : k \in DOMAIN disk' => ~disk'[k].enabled
      BY <1>10, <2>1 DEF ExternalAdd, With, OffInv
    <2> QED
      BY <1>10, <2>2 DEF ExternalAdd, OffInv
  <1>11. ASSUME NEW j \in Jobs, ExternalRemove(j) PROVE OffInv'
    BY <1>11 DEF ExternalRemove, Without, OffInv
  <1>12. ASSUME NEW j \in Jobs, NEW on \in BOOLEAN, ExternalEnable(j, on) PROVE OffInv'
    BY <1>12, <1>a DEF ExternalEnable, OffInv, IsStore, JobRec, IdsInv
  <1>13. CASE UNCHANGED vars
    BY <1>13 DEF vars, OffInv
  <1> QED
    BY <1>1, <1>2, <1>3, <1>4, <1>5, <1>6, <1>7, <1>8, <1>9, <1>10, <1>11, <1>12, <1>13 DEF Next

(* A job that the other process disabled while the service slept is not      *)
(* started again until it is enabled again.                                  *)
THEOREM CronDisableHonoured == Spec => ExternalDisableHonoured
  <1>1. Init => OffInv
    BY DEF Init, OffInv, NoJobs, Idle
  <1>2. ASSUME IInv, OffInv, [Next]_vars
        PROVE  [\A j \in extOff : starts'[j] = starts[j]]_vars
    <2> SUFFICES ASSUME NEW k \in extOff, ~UNCHANGED vars PROVE starts'[k] = starts[k]
      OBVIOUS
    <2> USE DEF history, bounds, store, batch
    <2>1. \A j : BeginJob(j) /\ j # k => starts'[k] = starts[k]
      BY <1>2 DEF BeginJob, IInv, TypeOK
    <2>2. CASE TimerFires
      BY <1>2, <2>1, <2>2, LoadKeepsOff DEF TimerFires
    <2>3. CASE JobDoneNext
      BY <1>2, <2>1, <2>3 DEF JobDoneNext, OffInv
    <2>4. CASE Start \/ Halt \/ Tick \/ TimerFiresIdle \/ JobDoneLast \/ ListJobs
      BY <2>4 DEF Start, Halt, Tick, TimerFiresIdle, JobDoneLast, ListJobs
    <2>5. CASE \E j \in Jobs : AddJob(j) \/ RemoveJob(j) \/ ExternalAdd(j) \/ ExternalRemove(j)
      BY <2>5 DEF AddJob, RemoveJob, ExternalAdd, ExternalRemove
    <2>6. CASE \E j \in Jobs, on \in BOOLEAN : ExternalEnable(j, on)
      BY <2>6 DEF ExternalEnable
    <2> QED
      BY <1>2, <2>2, <2>3, <2>4, <2>5, <2>6 DEF Next
  <1> QED
    BY <1>1, <1>2, InitInv, NextInv, OffStep, PTL DEF Spec, ExternalDisableHonoured

-----------------------------------------------------------------------------
(* What keeps a job that was started from being started again too soon. It   *)
(* is in the store with no next run, or with one an interval after its last  *)
(* start; a one-shot job that was started is due no more. During a batch     *)
(* this holds of every job but the one that runs, and jobs.json is not up    *)
(* to date; while the service is down nothing is needed, for its start       *)
(* computes every next run anew.                                             *)
Rested(j, rec) ==
  starts[j] > 0 /\ rec.enabled /\ rec.next # 0
    => ~IsAt(j) /\ lastStart[j] + Every <= rec.next

\* The next run of a one-shot job is its time, or it has none.
AtItsTime(j, rec) == IsAt(j) => rec.next \in {0, AtTime[j]}

SpacedInv ==
  /\ \A j \in DOMAIN mem : AtItsTime(j, mem[j])
  /\ \A j \in DOMAIN disk : AtItsTime(j, disk[j])
  /\ \A j \in Jobs : starts[j] > 0 => lastStart[j] <= clock /\ (IsAt(j) => AtTime[j] <= clock)
  /\ timer.phase = "batch" => \A j \in pending : IsAt(j) => AtTime[j] <= clock
  /\ ~disturbed =>
       /\ ~orphan
       /\ \A j \in Jobs : IsAt(j) => starts[j] <= 1
       /\ up => \A j \in DOMAIN mem : (timer.phase = "batch" /\ j = current) \/ Rested(j, mem[j])
       /\ up /\ timer.phase # "batch" => \A j \in DOMAIN disk : Rested(j, disk[j])
       /\ timer.phase = "batch" =>
            \A j \in pending : /\ IsAt(j) => starts[j] = 0
                               /\ starts[j] > 0 => lastStart[j] + Every <= clock

(* The next run that is computed for a job suits it, whenever that is.       *)
LEMMA NextRunRested ==
  ASSUME IInv, SpacedInv, NEW j \in Jobs, NEW rec, rec.next \in {0, ComputeNextRun(j, clock)}
  PROVE  Rested(j, rec) /\ AtItsTime(j, rec)
  <1>1. /\ clock \in Nat /\ starts[j] \in Nat /\ lastStart[j] \in Nat
        /\ AtTime[j] \in Nat /\ Every \in Nat
    BY CronAssumption DEF IInv, TypeOK
  <1>2. starts[j] > 0 => lastStart[j] <= clock /\ (IsAt(j) => AtTime[j] <= clock)
    BY DEF SpacedInv
  <1>3. AtItsTime(j, rec)
    BY DEF AtItsTime, ComputeNextRun
  <1>4. Rested(j, rec)
    BY <1>1, <1>2 DEF Rested, ComputeNextRun
  <1> QED
    BY <1>3, <1>4

(* What holds of both copies of the store holds of the one that is loaded.   *)
LEMMA LoadRested ==
  ASSUME SpacedInv, NEW j \in DOMAIN LoadStore
  PROVE  /\ AtItsTime(j, LoadStore[j])
         /\ ~disturbed /\ up /\ timer.phase # "batch" => Rested(j, LoadStore[j])
  BY DEF SpacedInv, LoadStore

(* A store whose jobs have rested stays so when it is saved.                 *)
LEMMA SavedRested ==
  ASSUME IInv, SpacedInv, NEW jobs, SaveStore(jobs), ArmTimer(jobs),
         UNCHANGED <<clock, starts, lastStart>>, disturbed => disturbed',
         \A j \in DOMAIN jobs : AtItsTime(j, jobs[j]) /\ (~disturbed' => Rested(j, jobs[j]))
  PROVE  SpacedInv'
  <1>1. mem' = jobs /\ disk' = jobs /\ pending' = {} /\ orphan' = FALSE /\ timer'.phase # "batch"
    BY DEF SaveStore, ArmTimer, Idle
  <1> QED
    BY <1>1 DEF SpacedInv, Rested, AtItsTime
(* When a job ends, every job in the store has rested, that one included.    *)
LEMMA EndRested ==
  ASSUME IInv, SpacedInv, up, timer.phase = "batch", NEW j \in DOMAIN EndJob(current)
  PROVE  AtItsTime(j, EndJob(current)[j]) /\ (~disturbed => Rested(j, EndJob(current)[j]))
  <1>1. /\ current \in Jobs /\ IsStore(mem) /\ DOMAIN mem \subseteq Jobs
        /\ ~orphan => current \in DOMAIN mem
    BY DEF IInv, TypeOK, BatchInv, IsStore
  <1>2. \A i \in DOMAIN mem : /\ AtItsTime(i, mem[i])
                              /\ ~disturbed /\ i # current => Rested(i, mem[i])
    BY DEF SpacedInv
  <1>3. ~disturbed => ~orphan
    BY DEF SpacedInv
  <1>4. CASE IsAt(current) /\ current \notin Keep
    BY <1>2, <1>4 DEF EndJob, Without
  <1>5. CASE ~(IsAt(current) /\ current \notin Keep) /\ orphan
    BY <1>2, <1>3, <1>5 DEF EndJob
  <1>6. CASE IsAt(current) /\ current \in Keep /\ ~orphan
    <2>1. EndJob(current) = [mem EXCEPT ![current] = [enabled |-> FALSE, next |-> 0]]
      BY <1>6 DEF EndJob
    <2>2. CASE j = current
      BY <1>1, <1>6, <2>1, <2>2 DEF Rested, AtItsTime
    <2>3. CASE j # current
      BY <1>1, <1>2, <2>1, <2>3
    <2> QED
      BY <2>2, <2>3
  <1>7. CASE ~IsAt(current) /\ ~orphan
    <2> DEFINE rec == EndJob(current)[current]
    <2>1. EndJob(current) = [mem EXCEPT ![current].next = ComputeNextRun(current, clock)]
      BY <1>7 DEF EndJob
    <2>2. mem[current] \in JobRec
      BY <1>1, <1>7 DEF IsStore
    <2>3. rec.next = ComputeNextRun(current, clock)
      BY <1>1, <1>7, <2>1, <2>2 DEF JobRec
    <2> HIDE DEF rec
    <2>4. Rested(current, rec) /\ AtItsTime(current, rec)
      BY <1>1, <2>3, NextRunRested
    <2>5. CASE j = current
      BY <2>4, <2>5 DEF rec
    <2>6. CASE j # current
      BY <1>1, <1>2, <2>1, <2>6
    <2> QED
      BY <2>5, <2>6
  <1> QED
    BY <1>4, <1>5, <1>6, <1>7

(* A job that is due, or waits in a batch, may start.                        *)
LEMMA DueMayStart ==
  ASSUME IInv, SpacedInv, up, timer.phase # "batch", NEW j \in Due(LoadStore, clock)
  PROVE  /\ IsAt(j) => AtTime[j] <= clock
         /\ ~disturbed => /\ IsAt(j) => starts[j] = 0
                          /\ starts[j] > 0 => lastStart[j] + Every <= clock
  <1>1. j \in DOMAIN LoadStore /\ LoadStore[j].enabled /\ LoadStore[j].next # 0 /\ LoadStore[j].next <= clock
    BY DEF Due, Armed
  <1>2. j \in Jobs /\ LoadStore[j].next \in Nat
    BY <1>1, LoadStoreType DEF IsStore, JobRec
  <1>3. AtItsTime(j, LoadStore[j]) /\ (~disturbed => Rested(j, LoadStore[j]))
    BY <1>1, LoadRested
  <1>4. /\ clock \in Nat /\ starts[j] \in Nat /\ lastStart[j] \in Nat
        /\ AtTime[j] \in Nat /\ Every \in Nat
    BY <1>2, CronAssumption DEF IInv, TypeOK
  <1> QED
    BY <1>1, <1>2, <1>3, <1>4 DEF Rested, AtItsTime

(* A batch goes on with a job that may start.                                *)
LEMMA BeginSpaced ==
  ASSUME IInv, SpacedInv, NEW j \in Jobs, BeginJob(j), UNCHANGED <<clock, disk>>, timer'.phase = "batch",
         ~disturbed => ~orphan', DOMAIN mem' \subseteq Jobs,
         \A i \in pending' \cup {j} : i \in Jobs /\ (IsAt(i) => AtTime[i] <= clock),
         \A i \in DOMAIN mem' : AtItsTime(i, mem'[i]) /\ (~disturbed /\ i # j => Rested(i, mem'[i])),
         ~disturbed => \A i \in pending' \cup {j} :
                          /\ IsAt(i) => starts[i] = 0
                          /\ starts[i] > 0 => lastStart[i] + Every <= clock,
         j \notin pending' \/ disturbed
  PROVE  SpacedInv'
  <1>1. /\ starts \in [Jobs -> Nat] /\ lastStart \in [Jobs -> Nat] /\ clock \in Nat
    BY DEF IInv, TypeOK
  <1>2. /\ current' = j /\ starts' = [starts EXCEPT ![j] = @ + 1]
        /\ lastStart' = [lastStart EXCEPT ![j] = clock] /\ disturbed' = disturbed
    BY DEF BeginJob
  <1>3. \A i \in Jobs : /\ i # j => starts'[i] = starts[i] /\ lastStart'[i] = lastStart[i]
                        /\ i = j => starts'[i] = starts[i] + 1 /\ lastStart'[i] = clock
    BY <1>1, <1>2
  <1>4. \A i \in Jobs : starts'[i] > 0 => lastStart'[i] <= clock' /\ (IsAt(i) => AtTime[i] <= clock')
    BY <1>1, <1>3 DEF SpacedInv
  <1>5. /\ \A i \in DOMAIN mem' : AtItsTime(i, mem'[i])
        /\ \A i \in DOMAIN disk' : AtItsTime(i, disk'[i])
    BY DEF SpacedInv
  <1>6. ASSUME ~disturbed, NEW i \in Jobs, IsAt(i) PROVE starts'[i] <= 1
    BY <1>1, <1>3, <1>6 DEF SpacedInv
  <1>7. ASSUME ~disturbed, NEW i \in DOMAIN mem', i # j PROVE Rested(i, mem[i])'
    BY <1>3, <1>7 DEF Rested
  <1>8. ASSUME ~disturbed, NEW i \in pending'
        PROVE  /\ IsAt(i) => starts'[i] = 0
               /\ starts'[i] > 0 => lastStart'[i] + Every <= clock'
    BY <1>3, <1>8
  <1> QED
    BY <1>2, <1>4, <1>5, <1>6, <1>7, <1>8 DEF SpacedInv, AtItsTime
(* Every step keeps the jobs that were started at rest.                      *)
LEMMA SpacedStep == IInv /\ IInv' /\ SpacedInv /\ [Next]_vars => SpacedInv'
  <1> SUFFICES ASSUME IInv, IInv', SpacedInv, [Next]_vars PROVE SpacedInv'
    OBVIOUS
  <1> USE DEF store, batch, history, bounds
  <1>a. /\ TypeOK /\ BatchInv /\ IsStore(mem) /\ IsStore(disk)
        /\ DOMAIN mem \subseteq Jobs /\ DOMAIN disk \subseteq Jobs /\ DOMAIN mem' \subseteq Jobs
    BY DEF IInv, TypeOK, IsStore
  <1>b. IsStore(LoadStore) /\ DOMAIN LoadStore \subseteq Jobs
    BY LoadStoreType DEF IsStore
  <1>1. CASE Start
    <2> DEFINE jobs == RecomputeNextRuns(disk, clock)
    <2>1. SaveStore(jobs) /\ ArmTimer(jobs) /\ UNCHANGED <<clock, starts, lastStart, disturbed>>
      BY <1>1 DEF Start
    <2>2. ASSUME NEW j \in DOMAIN jobs PROVE AtItsTime(j, jobs[j]) /\ Rested(j, jobs[j])
      <3>1. j \in DOMAIN disk /\ j \in Jobs /\ disk[j] \in JobRec
        BY <1>a DEF RecomputeNextRuns, IsStore
      <3>2. CASE disk[j].enabled
        <4>1. jobs[j].next = ComputeNextRun(j, clock)
          BY <3>1, <3>2 DEF RecomputeNextRuns, JobRec
        <4> QED
          BY <3>1, <4>1, NextRunRested
      <3>3. CASE ~disk[j].enabled
        <4>1. jobs[j] = disk[j]
          BY <3>1, <3>3 DEF RecomputeNextRuns
        <4> QED
          BY <3>1, <3>3, <4>1 DEF SpacedInv, Rested
      <3> QED
        BY <3>2, <3>3
    <2> HIDE DEF jobs
    <2> QED
      BY <2>1, <2>2, SavedRested
  <1>2. CASE Halt
    BY <1>2 DEF Halt, NoJobs, Idle, SpacedInv, AtItsTime, Rested
  <1>3. CASE Tick
    <2>1. clock' = clock + 1 /\ UNCHANGED <<up, mem, disk, timer, current, pending, orphan, starts, lastStart, disturbed>>
      BY <1>3 DEF Tick
    <2>2. /\ clock \in Nat /\ \A j \in Jobs : AtTime[j] \in Nat /\ starts[j] \in Nat /\ lastStart[j] \in Nat
          /\ Every \in Nat /\ pending \subseteq Jobs
      BY <1>a, CronAssumption DEF TypeOK
    <2>3. \A j \in Jobs : starts[j] > 0 => lastStart[j] <= clock' /\ (IsAt(j) => AtTime[j] <= clock')
      BY <2>1, <2>2 DEF SpacedInv
    <2>4. ASSUME ~disturbed, timer.phase = "batch", NEW j \in pending
          PROVE  /\ IsAt(j) => starts[j] = 0
                 /\ starts[j] > 0 => lastStart[j] + Every <= clock'
      BY <2>1, <2>2, <2>4 DEF SpacedInv
    <2>5. timer.phase = "batch" => \A j \in pending : IsAt(j) => AtTime[j] <= clock'
      BY <2>1, <2>2 DEF SpacedInv
    <2> QED
      BY <2>1, <2>3, <2>4, <2>5 DEF SpacedInv, AtItsTime, Rested
  <1>4. CASE TimerFiresIdle
    <2>1. /\ SaveStore(LoadStore) /\ ArmTimer(LoadStore) /\ up /\ timer.phase # "batch"
          /\ UNCHANGED <<clock, starts, lastStart, disturbed>>
      BY <1>4 DEF TimerFiresIdle
    <2> QED
      BY <2>1, LoadRested, SavedRested
  <1>5. CASE TimerFires
    <2>1. /\ up /\ timer.phase # "batch" /\ timer'.phase = "batch" /\ mem' = LoadStore /\ orphan' = FALSE
          /\ UNCHANGED <<clock, disk>>
      BY <1>5, <1>a DEF TimerFires, TypeOK, Timers
    <2>2. PICK j \in Due(LoadStore, clock) : BeginJob(j) /\ pending' = Due(LoadStore, clock) \ {j}
      BY <1>5 DEF TimerFires
    <2>3. Due(LoadStore, clock) \subseteq Jobs
      BY <1>b DEF Due, Armed
    <2>4. \A i \in Due(LoadStore, clock) :
             /\ IsAt(i) => AtTime[i] <= clock
             /\ ~disturbed => /\ IsAt(i) => starts[i] = 0
                              /\ starts[i] > 0 => lastStart[i] + Every <= clock
      BY <2>1, DueMayStart
    <2> QED
      BY <1>a, <2>1, <2>2, <2>3, <2>4, LoadRested, BeginSpaced
  <1>6. CASE JobDoneNext
    <2>1. /\ up /\ timer.phase = "batch" /\ mem' = EndJob(current)
          /\ UNCHANGED <<clock, disk, timer, orphan>>
      BY <1>6 DEF JobDoneNext
    <2>2. PICK j \in pending : BeginJob(j) /\ pending' = pending \ {j}
      BY <1>6 DEF JobDoneNext
    <2>3. pending \subseteq Jobs /\ (~disturbed => ~orphan)
      BY <1>a DEF TypeOK, SpacedInv
    <2>4. \A i \in pending :
             /\ IsAt(i) => AtTime[i] <= clock
             /\ ~disturbed => /\ IsAt(i) => starts[i] = 0
                              /\ starts[i] > 0 => lastStart[i] + Every <= clock
      BY <2>1 DEF SpacedInv
    <2> QED
      BY <1>a, <2>1, <2>2, <2>3, <2>4, EndRested, BeginSpaced
  <1>7. CASE JobDoneLast
    <2>1. /\ SaveStore(EndJob(current)) /\ ArmTimer(EndJob(current)) /\ up /\ timer.phase = "batch"
          /\ UNCHANGED <<clock, starts, lastStart, disturbed>>
      BY <1>7 DEF JobDoneLast
    <2> QED
      BY <2>1, EndRested, SavedRested
  <1>8. CASE ListJobs
    <2>1. /\ mem' = disk /\ orphan' = (timer.phase = "batch") /\ disturbed' = (disturbed \/ timer.phase = "batch")
          /\ UNCHANGED <<clock, up, disk, timer, current, pending, starts, lastStart>>
      BY <1>8 DEF ListJobs, ToolCall
    <2> QED
      BY <2>1 DEF SpacedInv, AtItsTime, Rested
  <1>9. ASSUME NEW j \in Jobs, AddJob(j) PROVE SpacedInv'
    <2> DEFINE rec  == [enabled |-> TRUE, next |-> ComputeNextRun(j, clock)]
               jobs == With(LoadStore, j, rec)
    <2>1. /\ SaveStore(jobs) /\ ArmTimer(jobs) /\ UNCHANGED <<clock, starts, lastStart>> /\ up
          /\ disturbed' = (disturbed \/ timer.phase = "batch")
      BY <1>9 DEF AddJob, ToolCall
    <2>2. Rested(j, rec) /\ AtItsTime(j, rec)
      BY NextRunRested
    <2>3. ASSUME NEW i \in DOMAIN jobs PROVE AtItsTime(i, jobs[i]) /\ (~disturbed' => Rested(i, jobs[i]))
      <3> HIDE DEF rec
      <3>1. CASE i = j
        BY <2>2, <2>3, <3>1 DEF With
      <3>2. CASE i # j
        <4>1. i \in DOMAIN LoadStore /\ jobs[i] = LoadStore[i]
          BY <2>3, <3>2 DEF With
        <4> QED
          BY <2>1, <4>1, LoadRested
      <3> QED
        BY <3>1, <3>2
    <2> HIDE DEF jobs
    <2> QED
      BY <2>1, <2>3, SavedRested
  <1>10. ASSUME NEW j \in Jobs, RemoveJob(j) PROVE SpacedInv'
    <2> DEFINE jobs == Without(LoadStore, j)
    <2>1. /\ SaveStore(jobs) /\ ArmTimer(jobs) /\ UNCHANGED <<clock, starts, lastStart>> /\ up
          /\ disturbed' = (disturbed \/ timer.phase = "batch")
      BY <1>10 DEF RemoveJob, ToolCall
    <2>2. ASSUME NEW i \in DOMAIN jobs PROVE AtItsTime(i, jobs[i]) /\ (~disturbed' => Rested(i, jobs[i]))
      <3>1. i \in DOMAIN LoadStore /\ jobs[i] = LoadStore[i]
        BY <2>2 DEF Without
      <3> QED
        BY <2>1, <3>1, LoadRested
    <2> HIDE DEF jobs
    <2> QED
      BY <2>1, <2>2, SavedRested
  <1>c. ASSUME UNCHANGED <<clock, up, mem, timer, current, pending, orphan, starts, lastStart, disturbed>>,
               \A j \in DOMAIN disk' : AtItsTime(j, disk'[j]) /\
                  (Rested(j, disk'[j]) \/ (j \in DOMAIN disk /\ disk'[j] = disk[j]))
        PROVE  SpacedInv'
    BY <1>c DEF SpacedInv, AtItsTime, Rested
  <1>11. ASSUME NEW j \in Jobs, ExternalAdd(j) PROVE SpacedInv'
    <2> DEFINE rec == [enabled |-> TRUE, next |-> ComputeNextRun(j, clock)]
    <2>1. /\ disk' = With(disk, j, rec)
          /\ UNCHANGED <<clock, up, mem, timer, current, pending, orphan, starts, lastStart, disturbed>>
      BY <1>11 DEF ExternalAdd
    <2>2. Rested(j, rec) /\ AtItsTime(j, rec)
      BY NextRunRested
    <2> HIDE DEF rec
    <2>3. \A i \in DOMAIN disk' : AtItsTime(i, disk'[i]) /\
                  (Rested(i, disk'[i]) \/ (i \in DOMAIN disk /\ disk'[i] = disk[i]))
      BY <2>1, <2>2 DEF With, SpacedInv
    <2> QED
      BY <1>c, <2>1, <2>3
  <1>12. ASSUME NEW j \in Jobs, ExternalRemove(j) PROVE SpacedInv'
    <2>1. /\ disk' = Without(disk, j)
          /\ UNCHANGED <<clock, up, mem, timer, current, pending, orphan, starts, lastStart, disturbed>>
      BY <1>12 DEF ExternalRemove
    <2> QED
      BY <1>c, <2>1 DEF Without, SpacedInv
  <1>13. ASSUME NEW j \in Jobs, NEW on \in BOOLEAN, ExternalEnable(j, on) PROVE SpacedInv'
    <2> DEFINE rec == [enabled |-> on, next |-> IF on THEN ComputeNextRun(j, clock) ELSE 0]
    <2>1. /\ disk' = [disk EXCEPT ![j] = rec] /\ j \in DOMAIN disk
          /\ UNCHANGED <<clock, up, mem, timer, current, pending, orphan, starts, lastStart, disturbed>>
      BY <1>13 DEF ExternalEnable
    <2>2. Rested(j, rec) /\ AtItsTime(j, rec)
      BY NextRunRested
    <2> HIDE DEF rec
    <2>3. \A i \in DOMAIN disk' : AtItsTime(i, disk'[i]) /\
                  (Rested(i, disk'[i]) \/ (i \in DOMAIN disk /\ disk'[i] = disk[i]))
      BY <1>a, <2>1, <2>2 DEF IsStore, SpacedInv
    <2> QED
      BY <1>c, <2>1, <2>3
  <1>14. CASE UNCHANGED vars
    BY <1>14, <1>c DEF vars, SpacedInv
  <1> QED
    BY <1>1, <1>2, <1>3, <1>4, <1>5, <1>6, <1>7, <1>8, <1>9, <1>10, <1>11, <1>12, <1>13, <1>14 DEF Next

LEMMA SpacedInit == Init => SpacedInv
  BY DEF Init, SpacedInv, NoJobs, Idle

(* A one-shot job is started once, whatever crashes of the gateway and edits *)
(* of jobs.json come between, unless the cron tool was called in the middle  *)
(* of a batch (_execute_job, _compute_next_run).                             *)
THEOREM CronOneShot == Spec => []OneShotUnlessDisturbed
  <1>1. SpacedInv => OneShotUnlessDisturbed
    BY DEF SpacedInv, OneShotUnlessDisturbed
  <1> QED
    BY <1>1, InitInv, NextInv, SpacedInit, SpacedStep, PTL DEF Spec

(* Two starts of a recurring job are an interval apart, with the same        *)
(* exception.                                                                *)
THEOREM CronSpacing == Spec => EverySpacing
  <1>1. ASSUME IInv, SpacedInv, [Next]_vars
        PROVE  [\A j \in Jobs : (~IsAt(j) /\ ~disturbed /\ starts[j] > 0 /\ starts'[j] # starts[j])
                                  => clock >= lastStart[j] + Every]_vars
    <2> SUFFICES ASSUME NEW k \in Jobs, ~disturbed, starts[k] > 0, starts'[k] # starts[k], ~UNCHANGED vars
                 PROVE  lastStart[k] + Every <= clock
      <3>1. clock \in Nat /\ Every \in Nat /\ \A j \in Jobs : lastStart[j] \in Nat
        BY <1>1, CronAssumption DEF IInv, TypeOK
      <3> QED
        BY <3>1
    <2> USE DEF history, bounds, store, batch
    <2>1. \A j : BeginJob(j) => j = k
      BY <1>1 DEF BeginJob, IInv, TypeOK
    <2>2. CASE TimerFires
      BY <1>1, <2>1, <2>2, DueMayStart DEF TimerFires
    <2>3. CASE JobDoneNext
      BY <1>1, <2>1, <2>3 DEF JobDoneNext, SpacedInv
    <2>4. CASE Start \/ Halt \/ Tick \/ TimerFiresIdle \/ JobDoneLast \/ ListJobs
      BY <2>4 DEF Start, Halt, Tick, TimerFiresIdle, JobDoneLast, ListJobs
    <2>5. CASE \E j \in Jobs : AddJob(j) \/ RemoveJob(j) \/ ExternalAdd(j) \/ ExternalRemove(j)
      BY <2>5 DEF AddJob, RemoveJob, ExternalAdd, ExternalRemove
    <2>6. CASE \E j \in Jobs, on \in BOOLEAN : ExternalEnable(j, on)
      BY <2>6 DEF ExternalEnable
    <2> QED
      BY <1>1, <2>2, <2>3, <2>4, <2>5, <2>6 DEF Next
  <1> QED
    BY <1>1, InitInv, NextInv, SpacedInit, SpacedStep, PTL DEF Spec, EverySpacing
=============================================================================
