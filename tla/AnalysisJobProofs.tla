------------------------- MODULE AnalysisJobProofs -------------------------
(***************************************************************************)
(* Theorems about AnalysisJob, for any uploads, retries and workers, any   *)
(* limits, and any kinds and number of faults and lapses.                  *)
(***************************************************************************)
EXTENDS AnalysisJob, TLAPS

-----------------------------------------------------------------------------
(* Why                                                                     *)

Working(w) == worker[w] # Idle

(* A delivery has its task to itself while it runs.                        *)
HoldsTask(w) ==
  Working(w) =>
    /\ tasks[worker[w].task].state = "pending"
    /\ \A v \in Workers : Working(v) /\ worker[v].task = worker[w].task => v = w

(* A request makes its task in its last step.                              *)
TasksNew ==
  /\ \A u \in Uploads : upload[u] \notin Ended => tasks[u].state = "none"
  /\ \A r \in Retries : retry[r] \notin Ended => tasks[r].state = "none"

(* Before the first upload has created the job nothing is under way.       *)
JobFirst ==
  job = NoJob =>
    /\ \A r \in Requests : tasks[r].state = "none"
    /\ \A u \in Uploads : upload[u] \in {"idle", "refused"}
    /\ \A r \in Retries : retry[r] = "idle"

(* A worker marks READY only what it knows to have a draft.                *)
ReadyKnown == \A w \in Workers : WorkerAt(w, "ready") => drafted

(* As long as no lease lapsed, nothing wrote over a lease and nothing      *)
(* failed, the lease excludes a second worker.                             *)
Analyzing(w) == worker[w].pc \in {"read", "find", "reserve", "extract", "create", "ready", "failing"}
LeaseExcludes ==
  taken = 0 /\ faults = 0 =>
    \A w \in Workers : Analyzing(w) => Leased /\ \A v \in Workers : Analyzing(v) => v = w

(* An unsettled job has a task that its worker is not about to acknowledge *)
(* with the artifact gone, or a request that will still make one.          *)
Carried(r) ==
  tasks[r].state = "pending" /\ \A w \in Workers : Working(w) /\ worker[w].task = r => ~WorkerAt(w, "remove")
JobFollowed ==
  Unsettled =>
    \/ \E r \in Requests : Carried(r)
    \/ \E u \in Uploads : upload[u] \notin {"idle"} \cup Ended
    \/ \E r \in Retries : retry[r] \in {"write", "schedule"}
    \/ Abandoned

AnalysisInvariant ==
  /\ AnalysisTypeOK
  /\ \A w \in Workers : HoldsTask(w)
  /\ TasksNew
  /\ JobFirst
  /\ ReadyHasDraft
  /\ ReadyKnown
  /\ LeaseExcludes
  /\ JobFollowed

-----------------------------------------------------------------------------
(* At first nothing is stored and nobody works.                            *)
LEMMA InitInvariant == Init => AnalysisInvariant
PROOF
  <1> SUFFICES ASSUME Init PROVE AnalysisInvariant
    OBVIOUS
  <1>1. AnalysisTypeOK
    <2>1. 0 \in 0..MaxCalls /\ 0 \in 0..MaxFaults /\ MaxDeliveries \in 0..MaxDeliveries
      BY AnalysisAssumption
    <2> QED
      BY <2>1 DEF Init, AnalysisTypeOK
  <1>2. \A w \in Workers : ~Working(w) /\ worker[w].pc = "idle"
    BY DEF Init, Idle, Working
  <1>3. TasksNew /\ JobFirst
    BY DEF Init, TasksNew, JobFirst, Requests
  <1>4. ReadyHasDraft /\ JobFollowed
    BY DEF Init, NoJob, ReadyHasDraft, JobFollowed, Unsettled
  <1>5. (\A w \in Workers : HoldsTask(w)) /\ ReadyKnown /\ LeaseExcludes
    BY <1>2 DEF HoldsTask, ReadyKnown, LeaseExcludes, WorkerAt, Analyzing
  <1> QED
    BY <1>1, <1>3, <1>4, <1>5 DEF AnalysisInvariant

-----------------------------------------------------------------------------
(* What a step of a worker does to its own delivery                        *)

(* A working delivery has a request's task, and the job it works on.       *)
LEMMA WorkerHas ==
  ASSUME AnalysisInvariant, NEW w \in Workers, Working(w)
  PROVE  /\ worker[w].task \in Requests
         /\ worker[w].pc # "idle"
         /\ job \in Job
PROOF
  <1>1. worker[w].task \in Requests /\ worker[w].pc # "idle"
    BY DEF AnalysisInvariant, AnalysisTypeOK, Working
  <1>2. tasks[worker[w].task].state = "pending"
    BY DEF AnalysisInvariant, HoldsTask
  <1>3. job # NoJob
    BY <1>1, <1>2 DEF AnalysisInvariant, JobFirst
  <1> QED
    BY <1>1, <1>3 DEF AnalysisInvariant, AnalysisTypeOK

LEMMA AtWork ==
  ASSUME NEW w \in Workers, NEW pc, pc # "idle", WorkerAt(w, pc)
  PROVE  Working(w)
PROOF
  BY DEF WorkerAt, Working, Idle

Pcs == {"start", "read", "find", "reserve", "extract", "create", "ready", "remove", "failing"}
TaskType == [state: {"none", "pending", "done", "dropped"}, left: 0..MaxDeliveries]
WorkerType == [pc: Pcs, task: Requests] \cup {Idle}

(* It goes on with its task ...                                            *)
LEMMA GoesOn ==
  ASSUME AnalysisInvariant, NEW w \in Workers, Working(w), NEW pc \in Pcs, WorkerGoto(w, pc)
  PROVE  /\ worker' \in [Workers -> WorkerType]
         /\ worker'[w].pc = pc /\ worker'[w].task = worker[w].task /\ worker'[w] # Idle
         /\ \A v \in Workers : v # w => worker'[v] = worker[v]
         /\ tasks' = tasks
PROOF
  <1>1. worker \in [Workers -> WorkerType]
    BY DEF AnalysisInvariant, AnalysisTypeOK, WorkerType, Pcs
  <1>2. worker[w] \in [pc: Pcs, task: Requests]
    BY <1>1 DEF Working, WorkerType
  <1>3. worker' = [worker EXCEPT ![w] = [worker[w] EXCEPT !.pc = pc]] /\ tasks' = tasks
    BY DEF WorkerGoto
  <1>4. [worker[w] EXCEPT !.pc = pc] \in [pc: Pcs, task: Requests]
    BY <1>2
  <1>5. [worker[w] EXCEPT !.pc = pc].pc = pc /\ [worker[w] EXCEPT !.pc = pc].task = worker[w].task
    BY <1>2
  <1>6. worker'[w] = [worker[w] EXCEPT !.pc = pc]
    BY <1>1, <1>3
  <1>7. worker'[w] # Idle
    BY <1>4, <1>6 DEF Idle, Pcs
  <1>8. worker' \in [Workers -> WorkerType] /\ \A v \in Workers : v # w => worker'[v] = worker[v]
    BY <1>1, <1>3, <1>4 DEF WorkerType
  <1> QED
    BY <1>3, <1>5, <1>6, <1>7, <1>8

(* ... or ends the delivery, which only changes the state of its task.     *)
LEMMA Ends ==
  ASSUME AnalysisInvariant, NEW w \in Workers, Working(w), Ack(w) \/ Nack(w)
  PROVE  /\ worker' \in [Workers -> WorkerType]
         /\ worker'[w] = Idle
         /\ \A v \in Workers : v # w => worker'[v] = worker[v]
         /\ tasks' \in [Requests -> TaskType]
         /\ \A r \in Requests : r # worker[w].task => tasks'[r] = tasks[r]
         /\ tasks'[worker[w].task].state # "none"
         /\ Nack(w) => tasks'[worker[w].task].state \in {"pending", "dropped"}
PROOF
  <1> DEFINE own == worker[w].task
  <1>1. own \in Requests /\ tasks[own].state = "pending"
    BY WorkerHas DEF AnalysisInvariant, HoldsTask
  <1>2. tasks \in [Requests -> TaskType] /\ worker \in [Workers -> WorkerType]
    BY DEF AnalysisInvariant, AnalysisTypeOK, TaskType, WorkerType, Pcs
  <1>3. worker' = [worker EXCEPT ![w] = Idle]
    BY DEF Ack, Nack
  <1>4. \E s \in {"pending", "done", "dropped"} :
          /\ tasks' = [tasks EXCEPT ![own].state = s]
          /\ Nack(w) => s \in {"pending", "dropped"}
    <2>1. CASE Nack(w)
      BY <1>1, <2>1 DEF Nack
    <2>2. CASE Ack(w) /\ ~Nack(w)
      BY <2>2 DEF Ack
    <2> QED
      BY <2>1, <2>2
  <1>5. PICK s \in {"pending", "done", "dropped"} :
          /\ tasks' = [tasks EXCEPT ![own].state = s]
          /\ Nack(w) => s \in {"pending", "dropped"}
    BY <1>4
  <1>6. tasks' \in [Requests -> TaskType] /\ tasks'[own].state = s
    BY <1>1, <1>2, <1>5 DEF TaskType
  <1>7. \A r \in Requests : r # own => tasks'[r] = tasks[r]
    BY <1>2, <1>5
  <1>8. worker' \in [Workers -> WorkerType] /\ worker'[w] = Idle
        /\ \A v \in Workers : v # w => worker'[v] = worker[v]
    BY <1>2, <1>3 DEF WorkerType
  <1> QED
    BY <1>5, <1>6, <1>7, <1>8

(* Either way every delivery still has its task to itself, and no request  *)
(* that has yet to make its task sees one.                                 *)
Steps(w) == (\E pc \in Pcs : WorkerGoto(w, pc)) \/ Ack(w) \/ Nack(w)

LEMMA TasksKept ==
  ASSUME AnalysisInvariant, NEW w \in Workers, Working(w), Steps(w), UNCHANGED <<upload, retry>>
  PROVE  /\ worker' \in [Workers -> WorkerType]
         /\ tasks' \in [Requests -> TaskType]
         /\ \A v \in Workers : HoldsTask(v)'
         /\ TasksNew'
PROOF
  <1>1. /\ worker' \in [Workers -> WorkerType]
        /\ tasks' \in [Requests -> TaskType]
        /\ \A v \in Workers : v # w => worker'[v] = worker[v]
        /\ \A r \in Requests : r # worker[w].task => tasks'[r] = tasks[r]
        /\ tasks'[worker[w].task].state # "none"
        /\ \/ worker'[w] = Idle
           \/ worker'[w].task = worker[w].task /\ worker'[w] # Idle /\ tasks' = tasks
    <2>0. tasks \in [Requests -> TaskType] /\ tasks[worker[w].task].state = "pending"
      BY DEF AnalysisInvariant, AnalysisTypeOK, TaskType, HoldsTask
    <2>1. CASE \E pc \in Pcs : WorkerGoto(w, pc)
      BY <2>0, <2>1, GoesOn
    <2>2. CASE Ack(w) \/ Nack(w)
      BY <2>2, Ends
    <2> QED
      BY <2>1, <2>2 DEF Steps
  <1>2. worker[w].task \in Requests
    BY WorkerHas
  <1>3. \A v \in Workers : HoldsTask(v)
    BY DEF AnalysisInvariant
  <1>4. ASSUME NEW v \in Workers PROVE HoldsTask(v)'
    <2>1. CASE worker'[w] = Idle
      <3>1. ASSUME Working(v)' PROVE v # w /\ worker'[v] = worker[v] /\ Working(v) /\ worker[v].task # worker[w].task
        BY <1>1, <1>3, <2>1, <3>1 DEF Working, HoldsTask
      <3>2. ASSUME Working(v)' PROVE worker[v].task \in Requests
        BY <3>1, <3>2, WorkerHas
      <3>3. ASSUME Working(v)' PROVE tasks'[worker'[v].task].state = "pending"
        BY <1>1, <1>3, <3>1, <3>2, <3>3 DEF HoldsTask
      <3>4. ASSUME Working(v)', NEW x \in Workers, Working(x)', worker'[x].task = worker'[v].task PROVE x = v
        BY <1>1, <1>3, <2>1, <3>1, <3>4 DEF Working, HoldsTask
      <3> QED
        BY <3>3, <3>4 DEF HoldsTask
    <2>2. CASE worker'[w].task = worker[w].task /\ worker'[w] # Idle /\ tasks' = tasks
      <3>1. \A x \in Workers : (worker'[x] # Idle <=> worker[x] # Idle) /\ worker'[x].task = worker[x].task
        BY <1>1, <2>2 DEF Working
      <3> QED
        BY <1>3, <2>2, <3>1 DEF HoldsTask, Working
    <2> QED
      BY <1>1, <2>1, <2>2
  <1>5. TasksNew'
    <2>1. \A r \in Requests : tasks[r].state = "none" => tasks'[r].state = "none"
      <3>1. tasks[worker[w].task].state = "pending"
        BY DEF AnalysisInvariant, HoldsTask
      <3> QED
        BY <1>1, <3>1
    <2> QED
      BY <2>1 DEF AnalysisInvariant, TasksNew, Requests
  <1> QED
    BY <1>1, <1>4, <1>5

(* A delivery that goes on, short of its removal of the artifact, follows  *)
(* the job; one that fails leaves its task to the queue, or abandons it.   *)
LEMMA FollowedByGoing ==
  ASSUME AnalysisInvariant, NEW w \in Workers, Working(w), NEW pc \in Pcs, pc # "remove", WorkerGoto(w, pc)
  PROVE  JobFollowed'
PROOF
  <1>0. PICK own \in Requests : own = worker[w].task
    BY WorkerHas
  <1>1. tasks[own].state = "pending"
    BY <1>0 DEF AnalysisInvariant, HoldsTask
  <1>2. /\ worker'[w].pc = pc /\ worker'[w].task = own /\ worker'[w] # Idle
        /\ \A v \in Workers : v # w => worker'[v] = worker[v]
        /\ tasks' = tasks
    BY <1>0, GoesOn
  <1>3. \A v \in Workers : worker'[v] # Idle /\ worker'[v].task = own => v = w
    BY <1>0, <1>2 DEF AnalysisInvariant, HoldsTask, Working
  <1>4. Carried(own)'
    BY <1>1, <1>2, <1>3 DEF Carried, Working, WorkerAt
  <1> QED
    BY <1>4 DEF JobFollowed, Requests

LEMMA FollowedByNack ==
  ASSUME AnalysisInvariant, NEW w \in Workers, Working(w), Nack(w)
  PROVE  JobFollowed'
PROOF
  <1>0. PICK own \in Requests : own = worker[w].task
    BY WorkerHas
  <1>2. /\ worker'[w] = Idle
        /\ \A v \in Workers : v # w => worker'[v] = worker[v]
        /\ tasks'[own].state \in {"pending", "dropped"}
    BY <1>0, Ends
  <1>3. \A v \in Workers : ~(worker'[v] # Idle /\ worker'[v].task = own)
    BY <1>0, <1>2 DEF AnalysisInvariant, HoldsTask, Working
  <1>4. CASE tasks'[own].state = "pending"
    <2>1. Carried(own)'
      BY <1>3, <1>4 DEF Carried, Working
    <2> QED
      BY <2>1 DEF JobFollowed, Requests
  <1>5. CASE tasks'[own].state = "dropped"
    <2>1. Abandoned'
      BY <1>5 DEF Abandoned, Requests
    <2> QED
      BY <2>1 DEF JobFollowed
  <1> QED
    BY <1>2, <1>4, <1>5

(* After a fault nothing is claimed of the lease.                          *)
LEMMA Faulted ==
  ASSUME AnalysisInvariant, NEW f, Fault(f)
  PROVE  faults' \in 0..MaxFaults /\ LeaseExcludes'
PROOF
  <1>1. faults \in 0..MaxFaults /\ MaxFaults \in Nat
    BY AnalysisAssumption DEF AnalysisInvariant, AnalysisTypeOK
  <1>2. faults' = faults + 1 /\ faults < MaxFaults
    BY DEF Fault
  <1>3. faults' \in 0..MaxFaults /\ faults' # 0
    BY <1>1, <1>2
  <1> QED
    BY <1>3 DEF LeaseExcludes

(* Who analyzes already may go on; who ends does not disturb the others.   *)
LEMMA LeaseGoesOn ==
  ASSUME AnalysisInvariant, NEW w \in Workers, Working(w), Steps(w), UNCHANGED <<job, taken, faults>>,
         Analyzing(w) \/ ~Analyzing(w)'
  PROVE  LeaseExcludes'
PROOF
  <1>1. \A v \in Workers : v # w => worker'[v] = worker[v]
    BY GoesOn, Ends DEF Steps
  <1>2. \A v \in Workers : Analyzing(v)' => Analyzing(v)
    BY <1>1 DEF Analyzing
  <1> QED
    BY <1>2 DEF AnalysisInvariant, LeaseExcludes, Leased

(* Who gives up the lease was the only one to analyze.                     *)
LEMMA LeaseGivenUp ==
  ASSUME AnalysisInvariant, NEW w \in Workers, Working(w), Steps(w), UNCHANGED <<taken, faults>>,
         Analyzing(w), ~Analyzing(w)'
  PROVE  LeaseExcludes'
PROOF
  <1>1. \A v \in Workers : v # w => worker'[v] = worker[v]
    BY GoesOn, Ends DEF Steps
  <1>2. \A v \in Workers : Analyzing(v)' => Analyzing(v) /\ v # w
    BY <1>1 DEF Analyzing
  <1> QED
    BY <1>2 DEF AnalysisInvariant, LeaseExcludes

(* What is left to show of a step of a worker.                             *)
LEMMA WorkerStepKeeps ==
  ASSUME AnalysisInvariant, NEW w \in Workers, Working(w), Steps(w), UNCHANGED <<upload, retry>>,
         job' \in Job, artifact' \in BOOLEAN, drafted' \in BOOLEAN, calls' \in 0..MaxCalls,
         taken' \in Nat, faults' \in 0..MaxFaults,
         ReadyHasDraft', ReadyKnown', LeaseExcludes', JobFollowed'
  PROVE  AnalysisInvariant'
PROOF
  <1>1. /\ worker' \in [Workers -> WorkerType]
        /\ tasks' \in [Requests -> TaskType]
        /\ \A v \in Workers : HoldsTask(v)'
        /\ TasksNew'
    BY TasksKept
  <1>2. upload' = upload /\ retry' = retry
    OBVIOUS
  <1>3. AnalysisTypeOK'
    BY <1>1, <1>2 DEF AnalysisInvariant, AnalysisTypeOK, WorkerType, TaskType, Pcs
  <1>4. JobFirst'
    BY DEF JobFirst, Job, NoJob
  <1> QED
    BY <1>1, <1>3, <1>4 DEF AnalysisInvariant

(* Nobody comes to "ready" but the worker that knows the draft.            *)
LEMMA ReadyStaysKnown ==
  ASSUME AnalysisInvariant, NEW w \in Workers, Working(w), Steps(w), drafted => drafted',
         worker'[w].pc = "ready" => drafted'
  PROVE  ReadyKnown'
PROOF
  <1>1. \A v \in Workers : v # w => worker'[v] = worker[v]
    BY GoesOn, Ends DEF Steps
  <1> QED
    BY <1>1 DEF AnalysisInvariant, ReadyKnown, WorkerAt

(* A call that leaves the job alone and moves on: all steps but four.      *)
LEMMA WorkerMovesOn ==
  ASSUME AnalysisInvariant, NEW w \in Workers, Working(w), NEW pc \in Pcs, WorkerGoto(w, pc), pc # "remove",
         UNCHANGED <<job, upload, retry, taken>>,
         artifact' \in BOOLEAN, drafted' \in BOOLEAN, calls' \in 0..MaxCalls,
         drafted => drafted', pc = "ready" => drafted',
         (faults' = faults /\ Analyzing(w)) \/ \E f : Fault(f)
  PROVE  AnalysisInvariant'
PROOF
  <1>1. Steps(w)
    BY DEF Steps
  <1>2. job \in Job /\ taken \in Nat /\ faults \in 0..MaxFaults
    BY WorkerHas DEF AnalysisInvariant, AnalysisTypeOK
  <1>3. faults' \in 0..MaxFaults /\ LeaseExcludes'
    <2>1. CASE faults' = faults /\ Analyzing(w)
      BY <1>1, <1>2, <2>1, LeaseGoesOn
    <2>2. CASE \E f : Fault(f)
      BY <2>2, Faulted
    <2> QED
      BY <2>1, <2>2
  <1>4. JobFollowed'
    BY FollowedByGoing
  <1>5. worker'[w].pc = pc
    BY GoesOn
  <1>6. ReadyKnown'
    BY <1>1, <1>5, ReadyStaysKnown
  <1>7. ReadyHasDraft'
    BY DEF AnalysisInvariant, ReadyHasDraft
  <1>8. job' \in Job /\ taken' \in Nat /\ UNCHANGED <<upload, retry>>
    BY <1>2
  <1> QED
    BY <1>1, <1>3, <1>4, <1>6, <1>7, <1>8, WorkerStepKeeps

(* A delivery that fails without a word to the job.                        *)
LEMMA WorkerGivesUp ==
  ASSUME AnalysisInvariant, NEW w \in Workers, Working(w), Nack(w),
         UNCHANGED <<job, artifact, drafted, calls, upload, retry, taken>>,
         UNCHANGED faults \/ \E f : Fault(f)
  PROVE  AnalysisInvariant'
PROOF
  <1>1. Steps(w)
    BY DEF Steps
  <1>2. job \in Job /\ taken \in Nat /\ faults \in 0..MaxFaults /\ artifact \in BOOLEAN
        /\ drafted \in BOOLEAN /\ calls \in 0..MaxCalls
    BY WorkerHas DEF AnalysisInvariant, AnalysisTypeOK
  <1>3. worker'[w] = Idle /\ JobFollowed'
    BY Ends, FollowedByNack
  <1>4. worker'[w].pc = "idle" /\ ~Analyzing(w)'
    BY <1>3 DEF Idle, Analyzing
  <1>5. faults' \in 0..MaxFaults /\ LeaseExcludes'
    <2>1. CASE UNCHANGED faults
      BY <1>1, <1>2, <1>4, <2>1, LeaseGoesOn
    <2>2. CASE \E f : Fault(f)
      BY <2>2, Faulted
    <2> QED
      BY <2>1, <2>2
  <1>6. ReadyKnown' /\ ReadyHasDraft'
    BY <1>1, <1>4, ReadyStaysKnown DEF AnalysisInvariant, ReadyHasDraft
  <1> QED
    BY <1>1, <1>2, <1>3, <1>5, <1>6, WorkerStepKeeps

-----------------------------------------------------------------------------
(* The steps of a worker                                                   *)

LEMMA StartInvariant ==
  ASSUME AnalysisInvariant, NEW w \in Workers, Start(w)
  PROVE  AnalysisInvariant'
PROOF
  <1>1. Working(w)
    BY AtWork DEF Start
  <1>2. /\ job \in Job /\ taken \in Nat /\ faults \in 0..MaxFaults /\ artifact \in BOOLEAN
        /\ drafted \in BOOLEAN /\ calls \in 0..MaxCalls /\ MaxAttempts \in Nat
    BY <1>1, WorkerHas, AnalysisAssumption DEF AnalysisInvariant, AnalysisTypeOK
  <1>3. /\ UNCHANGED <<artifact, drafted, calls, upload, retry, taken>>
        /\ ~Analyzing(w)
    BY DEF Start, WorkerAt, Analyzing
  <1>4. CASE Throws(w) /\ UNCHANGED job
    BY <1>1, <1>2, <1>3, <1>4, WorkerMovesOn DEF Throws, Pcs
  <1>5. CASE UNCHANGED <<job, faults>> /\ job.status \in {"READY", "FAILED"} /\ Ack(w)
    <2>1. Steps(w)
      BY <1>5 DEF Steps
    <2>2. worker'[w].pc = "idle" /\ ~Analyzing(w)'
      BY <1>1, <1>5, Ends DEF Idle, Analyzing
    <2>3. LeaseExcludes'
      BY <1>1, <1>3, <1>5, <2>1, <2>2, LeaseGoesOn
    <2>4. ReadyKnown' /\ ReadyHasDraft'
      BY <1>1, <1>3, <1>5, <2>1, <2>2, ReadyStaysKnown DEF AnalysisInvariant, ReadyHasDraft
    <2>5. JobFollowed'
      BY <1>5 DEF JobFollowed, Unsettled
    <2> QED
      BY <1>1, <1>2, <1>3, <1>5, <2>1, <2>3, <2>4, <2>5, WorkerStepKeeps
  <1>6. CASE UNCHANGED <<job, faults>> /\ Nack(w)
    BY <1>1, <1>3, <1>6, WorkerGivesUp
  <1>7. CASE UNCHANGED faults /\ ~Leased /\ Ack(w) /\ job' = [job EXCEPT !.status = "FAILED", !.lease = FALSE]
    <2>1. Steps(w)
      BY <1>7 DEF Steps
    <2>2. job' \in Job /\ job'.status = "FAILED"
      BY <1>2, <1>7 DEF Job
    <2>3. worker'[w].pc = "idle" /\ ~Analyzing(w)'
      BY <1>1, <1>7, Ends DEF Idle, Analyzing
    <2>4. \A v \in Workers : v # w => worker'[v] = worker[v]
      BY <1>1, <1>7, Ends
    <2>5. LeaseExcludes'
      BY <1>3, <1>7, <2>3, <2>4 DEF AnalysisInvariant, LeaseExcludes, Analyzing
    <2>6. ReadyKnown' /\ ReadyHasDraft'
      BY <1>1, <1>3, <2>1, <2>2, <2>3, ReadyStaysKnown DEF ReadyHasDraft
    <2>7. JobFollowed'
      BY <2>2 DEF JobFollowed, Unsettled
    <2> QED
      BY <1>1, <1>2, <1>3, <1>7, <2>1, <2>2, <2>5, <2>6, <2>7, WorkerStepKeeps
  <1>8. CASE UNCHANGED faults /\ ~Leased /\ job.attempts < MaxAttempts /\ job' = Started /\ WorkerGoto(w, "read")
    <2>1. Steps(w)
      BY <1>8 DEF Steps, Pcs
    <2>2. job.attempts \in 0..MaxAttempts
      BY <1>2 DEF Job
    <2>3. job' \in Job /\ job'.status = "ANALYZING" /\ Leased'
      BY <1>2, <1>8, <2>2 DEF Job, Started, Leased
    <2>4. worker'[w].pc = "read" /\ \A v \in Workers : v # w => worker'[v] = worker[v]
      BY <1>1, <1>8, GoesOn DEF Pcs
    <2>5. LeaseExcludes'
      BY <1>3, <1>8, <2>3, <2>4 DEF AnalysisInvariant, LeaseExcludes, Analyzing
    <2>6. ReadyKnown' /\ ReadyHasDraft'
      BY <1>1, <1>3, <2>1, <2>3, <2>4, ReadyStaysKnown DEF ReadyHasDraft
    <2>7. JobFollowed'
      BY <1>1, <1>8, FollowedByGoing DEF Pcs
    <2> QED
      BY <1>1, <1>2, <1>3, <1>8, <2>1, <2>3, <2>5, <2>6, <2>7, WorkerStepKeeps
  <1>9. \/ Throws(w) /\ UNCHANGED job
        \/ UNCHANGED <<job, faults>> /\ job.status \in {"READY", "FAILED"} /\ Ack(w)
        \/ UNCHANGED <<job, faults>> /\ Nack(w)
        \/ UNCHANGED faults /\ ~Leased /\ Ack(w) /\ job' = [job EXCEPT !.status = "FAILED", !.lease = FALSE]
        \/ UNCHANGED faults /\ ~Leased /\ job.attempts < MaxAttempts /\ job' = Started /\ WorkerGoto(w, "read")
    <2>1. job.attempts \in 0..MaxAttempts
      BY <1>2 DEF Job
    <2>2. CASE job.status \in {"READY", "FAILED"}
      <3>1. ~Leased
        BY <2>2 DEF Leased
      <3> QED
        BY <2>2, <3>1 DEF Start
    <2>3. CASE job.status \notin {"READY", "FAILED"} /\ Leased
      BY <2>3 DEF Start, Busy
    <2>4. CASE job.status \notin {"READY", "FAILED"} /\ ~Leased /\ job.attempts >= MaxAttempts
      BY <2>4 DEF Start
    <2>5. CASE job.status \notin {"READY", "FAILED"} /\ ~Leased /\ ~(job.attempts >= MaxAttempts)
      <3>1. job.attempts < MaxAttempts
        BY <1>2, <2>1, <2>5
      <3> QED
        BY <2>5, <3>1 DEF Start
    <2> QED
      BY <2>2, <2>3, <2>4, <2>5
  <1> QED
    BY <1>4, <1>5, <1>6, <1>7, <1>8, <1>9

LEMMA ReadArtifactInvariant ==
  ASSUME AnalysisInvariant, NEW w \in Workers, ReadArtifact(w)
  PROVE  AnalysisInvariant'
PROOF
  <1>1. Working(w) /\ Analyzing(w)
    BY AtWork DEF ReadArtifact, WorkerAt, Analyzing
  <1>2. artifact' \in BOOLEAN /\ drafted' \in BOOLEAN /\ calls' \in 0..MaxCalls /\ drafted' = drafted
        /\ UNCHANGED <<job, upload, retry, taken>>
    BY DEF AnalysisInvariant, AnalysisTypeOK, ReadArtifact
  <1>3. \E pc \in {"find", "failing"} : WorkerGoto(w, pc) /\ (UNCHANGED faults \/ \E f : Fault(f))
    BY DEF ReadArtifact, Throws
  <1>4. PICK pc \in {"find", "failing"} : WorkerGoto(w, pc) /\ (UNCHANGED faults \/ \E f : Fault(f))
    BY <1>3
  <1>5. pc \in Pcs /\ pc # "remove" /\ (pc = "ready" => drafted')
    BY <1>4 DEF Pcs
  <1> QED
    BY <1>1, <1>2, <1>4, <1>5, WorkerMovesOn

LEMMA FindDraftInvariant ==
  ASSUME AnalysisInvariant, NEW w \in Workers, FindDraft(w)
  PROVE  AnalysisInvariant'
PROOF
  <1>1. Working(w) /\ Analyzing(w)
    BY AtWork DEF FindDraft, WorkerAt, Analyzing
  <1>2. artifact' \in BOOLEAN /\ drafted' \in BOOLEAN /\ calls' \in 0..MaxCalls /\ drafted' = drafted
        /\ UNCHANGED <<job, upload, retry, taken>> /\ faults' = faults
    BY DEF AnalysisInvariant, AnalysisTypeOK, FindDraft
  <1>3. CASE drafted
    BY <1>1, <1>2, <1>3, WorkerMovesOn DEF FindDraft, Pcs
  <1>4. CASE ~drafted
    BY <1>1, <1>2, <1>4, WorkerMovesOn DEF FindDraft, Pcs
  <1> QED
    BY <1>3, <1>4

LEMMA ReserveCallInvariant ==
  ASSUME AnalysisInvariant, NEW w \in Workers, ReserveCall(w)
  PROVE  AnalysisInvariant'
PROOF
  <1>1. Working(w) /\ Analyzing(w)
    BY AtWork DEF ReserveCall, WorkerAt, Analyzing
  <1>2. artifact' \in BOOLEAN /\ drafted' \in BOOLEAN /\ drafted' = drafted
        /\ UNCHANGED <<job, upload, retry, taken>> /\ faults' = faults
    BY DEF AnalysisInvariant, AnalysisTypeOK, ReserveCall
  <1>3. calls \in 0..MaxCalls /\ MaxCalls \in Nat
    BY AnalysisAssumption DEF AnalysisInvariant, AnalysisTypeOK
  <1>4. calls' \in 0..MaxCalls
    BY <1>3 DEF ReserveCall
  <1>5. CASE WorkerGoto(w, "extract")
    BY <1>1, <1>2, <1>4, <1>5, WorkerMovesOn DEF Pcs
  <1>6. CASE WorkerGoto(w, "failing")
    BY <1>1, <1>2, <1>4, <1>6, WorkerMovesOn DEF Pcs
  <1> QED
    BY <1>5, <1>6 DEF ReserveCall

LEMMA ExtractInvariant ==
  ASSUME AnalysisInvariant, NEW w \in Workers, Extract(w)
  PROVE  AnalysisInvariant'
PROOF
  <1>1. Working(w) /\ Analyzing(w)
    BY AtWork DEF Extract, WorkerAt, Analyzing
  <1>2. artifact' \in BOOLEAN /\ drafted' \in BOOLEAN /\ calls' \in 0..MaxCalls /\ drafted' = drafted
        /\ UNCHANGED <<job, upload, retry, taken>> /\ faults' = faults
    BY DEF AnalysisInvariant, AnalysisTypeOK, Extract
  <1>3. CASE WorkerGoto(w, "create")
    BY <1>1, <1>2, <1>3, WorkerMovesOn DEF Pcs
  <1>4. CASE WorkerGoto(w, "failing")
    BY <1>1, <1>2, <1>4, WorkerMovesOn DEF Pcs
  <1> QED
    BY <1>3, <1>4 DEF Extract

LEMMA CreateDraftInvariant ==
  ASSUME AnalysisInvariant, NEW w \in Workers, CreateDraft(w)
  PROVE  AnalysisInvariant'
PROOF
  <1>1. Working(w) /\ Analyzing(w)
    BY AtWork DEF CreateDraft, WorkerAt, Analyzing
  <1>2. artifact' \in BOOLEAN /\ calls' \in 0..MaxCalls /\ UNCHANGED <<job, upload, retry, taken>>
    BY DEF AnalysisInvariant, AnalysisTypeOK, CreateDraft
  <1>3. drafted' \in BOOLEAN /\ (drafted => drafted')
    <2>1. drafted \in BOOLEAN
      BY DEF AnalysisInvariant, AnalysisTypeOK
    <2>2. drafted' = TRUE \/ drafted' = drafted
      BY DEF CreateDraft
    <2> QED
      BY <2>1, <2>2
  <1>4. UNCHANGED faults \/ \E f : Fault(f)
    BY DEF CreateDraft, Throws
  <1>5. CASE WorkerGoto(w, "ready") /\ drafted'
    BY <1>1, <1>2, <1>3, <1>4, <1>5, WorkerMovesOn DEF Pcs
  <1>6. CASE WorkerGoto(w, "failing")
    BY <1>1, <1>2, <1>3, <1>4, <1>6, WorkerMovesOn DEF Pcs
  <1> QED
    BY <1>5, <1>6 DEF CreateDraft, Throws

LEMMA MarkReadyInvariant ==
  ASSUME AnalysisInvariant, NEW w \in Workers, MarkReady(w)
  PROVE  AnalysisInvariant'
PROOF
  <1>1. Working(w) /\ Analyzing(w)
    BY AtWork DEF MarkReady, WorkerAt, Analyzing
  <1>2. /\ job \in Job /\ taken \in Nat /\ faults \in 0..MaxFaults /\ artifact \in BOOLEAN
        /\ drafted \in BOOLEAN /\ calls \in 0..MaxCalls
    BY <1>1, WorkerHas DEF AnalysisInvariant, AnalysisTypeOK
  <1>3. UNCHANGED <<artifact, drafted, calls, upload, retry, taken>> /\ drafted
    BY DEF MarkReady, AnalysisInvariant, ReadyKnown
  <1>4. CASE UNCHANGED job /\ Throws(w)
    BY <1>1, <1>2, <1>3, <1>4, WorkerMovesOn DEF Throws, Pcs
  <1>5. ASSUME job' = [job EXCEPT !.status = "READY", !.lease = FALSE], NEW pc \in {"remove", "failing"},
               WorkerGoto(w, pc), IF pc = "remove" THEN UNCHANGED faults ELSE Fault("lostAck")
        PROVE  AnalysisInvariant'
    <2>1. Steps(w)
      BY <1>5 DEF Steps, Pcs
    <2>2. job' \in Job /\ job'.status = "READY"
      BY <1>2, <1>5 DEF Job
    <2>3. worker'[w].pc = pc
      BY <1>1, <1>5, GoesOn DEF Pcs
    <2>4. LeaseExcludes' /\ faults' \in 0..MaxFaults
      <3>1. CASE pc = "remove"
        <4>1. ~Analyzing(w)'
          BY <2>3, <3>1 DEF Analyzing
        <4> QED
          BY <1>1, <1>2, <1>3, <1>5, <2>1, <3>1, <4>1, LeaseGivenUp
      <3>2. CASE pc = "failing"
        BY <1>2, <1>5, <3>2, AnalysisAssumption DEF Fault, LeaseExcludes
      <3> QED
        BY <3>1, <3>2
    <2>5. ReadyKnown' /\ ReadyHasDraft'
      BY <1>1, <1>3, <1>5, <2>1, <2>3, ReadyStaysKnown DEF ReadyHasDraft
    <2>6. JobFollowed'
      BY <2>2 DEF JobFollowed, Unsettled
    <2> QED
      BY <1>1, <1>2, <1>3, <1>5, <2>1, <2>2, <2>4, <2>5, <2>6, WorkerStepKeeps
  <1> QED
    BY <1>4, <1>5 DEF MarkReady

(* The task that is acknowledged was carrying nothing any more.            *)
LEMMA RemoveArtifactInvariant ==
  ASSUME AnalysisInvariant, NEW w \in Workers, RemoveArtifact(w)
  PROVE  AnalysisInvariant'
PROOF
  <1>1. Working(w)
    BY AtWork DEF RemoveArtifact
  <1>2. /\ job \in Job /\ taken \in Nat /\ faults \in 0..MaxFaults /\ artifact \in BOOLEAN
        /\ drafted \in BOOLEAN /\ calls \in 0..MaxCalls
    BY <1>1, WorkerHas DEF AnalysisInvariant, AnalysisTypeOK
  <1>3. UNCHANGED <<job, drafted, calls, upload, retry, taken>> /\ artifact' \in BOOLEAN /\ Ack(w)
    BY <1>2 DEF RemoveArtifact
  <1>4. Steps(w)
    BY <1>3 DEF Steps
  <1>5. /\ worker'[w] = Idle
        /\ \A v \in Workers : v # w => worker'[v] = worker[v]
        /\ \A r \in Requests : r # worker[w].task => tasks'[r] = tasks[r]
    BY <1>1, <1>3, Ends
  <1>6. worker'[w].pc = "idle" /\ ~Analyzing(w)'
    BY <1>5 DEF Idle, Analyzing
  <1>7. faults' \in 0..MaxFaults /\ LeaseExcludes'
    <2>1. CASE UNCHANGED faults
      BY <1>1, <1>2, <1>3, <1>4, <1>6, <2>1, LeaseGoesOn
    <2>2. CASE \E f : Fault(f)
      BY <2>2, Faulted
    <2> QED
      BY <2>1, <2>2 DEF RemoveArtifact
  <1>8. ReadyKnown' /\ ReadyHasDraft'
    BY <1>1, <1>3, <1>4, <1>6, ReadyStaysKnown DEF AnalysisInvariant, ReadyHasDraft
  <1>9. JobFollowed'
    <2>1. ASSUME NEW r \in Requests, Carried(r) PROVE Carried(r)'
      <3>1. r # worker[w].task
        BY <1>1, <2>1 DEF Carried, RemoveArtifact
      <3>2. tasks'[r] = tasks[r] /\ tasks[r].state = "pending"
        BY <1>5, <2>1, <3>1 DEF Carried
      <3>3. \A v \in Workers : Working(v)' /\ worker'[v].task = r => ~(worker'[v].pc = "remove")
        BY <1>5, <2>1 DEF Carried, Working, WorkerAt
      <3> QED
        BY <3>2, <3>3 DEF Carried, WorkerAt
    <2>2. Abandoned => Abandoned'
      <3>1. tasks[worker[w].task].state = "pending"
        BY <1>1 DEF AnalysisInvariant, HoldsTask
      <3> QED
        BY <1>3, <1>5, <3>1 DEF Abandoned
    <2> QED
      BY <1>3, <2>1, <2>2 DEF AnalysisInvariant, JobFollowed, Unsettled
  <1> QED
    BY <1>1, <1>2, <1>3, <1>4, <1>7, <1>8, <1>9, WorkerStepKeeps

LEMMA AttemptFailedInvariant ==
  ASSUME AnalysisInvariant, NEW w \in Workers, AttemptFailed(w)
  PROVE  AnalysisInvariant'
PROOF
  <1>1. Working(w) /\ Analyzing(w)
    BY AtWork DEF AttemptFailed, WorkerAt, Analyzing
  <1>2. /\ job \in Job /\ taken \in Nat /\ faults \in 0..MaxFaults /\ artifact \in BOOLEAN
        /\ drafted \in BOOLEAN /\ calls \in 0..MaxCalls
    BY <1>1, WorkerHas DEF AnalysisInvariant, AnalysisTypeOK
  <1>3. UNCHANGED <<artifact, drafted, calls, upload, retry, taken>>
    BY DEF AttemptFailed
  <1>4. CASE UNCHANGED job /\ Fault("storeError") /\ Nack(w)
    BY <1>1, <1>3, <1>4, WorkerGivesUp
  <1>5. ASSUME NEW s \in {"FAILED", "QUEUED"}, job' = [job EXCEPT !.status = s, !.lease = FALSE],
               IF s = "FAILED" THEN Ack(w) ELSE Nack(w), UNCHANGED faults
        PROVE  AnalysisInvariant'
    <2>1. Steps(w)
      BY <1>5 DEF Steps
    <2>2. job' \in Job /\ job'.status = s
      BY <1>2, <1>5 DEF Job
    <2>3. worker'[w].pc = "idle" /\ ~Analyzing(w)'
      BY <1>1, <1>5, Ends DEF Idle, Analyzing
    <2>4. LeaseExcludes'
      BY <1>1, <1>3, <1>5, <2>1, <2>3, LeaseGivenUp
    <2>5. ReadyKnown' /\ ReadyHasDraft'
      BY <1>1, <1>3, <2>1, <2>2, <2>3, ReadyStaysKnown DEF ReadyHasDraft
    <2>6. JobFollowed'
      <3>1. CASE s = "FAILED"
        BY <2>2, <3>1 DEF JobFollowed, Unsettled
      <3>2. CASE s = "QUEUED"
        BY <1>1, <1>5, <3>2, FollowedByNack
      <3> QED
        BY <3>1, <3>2
    <2> QED
      BY <1>1, <1>2, <1>3, <1>5, <2>1, <2>2, <2>4, <2>5, <2>6, WorkerStepKeeps
  <1> QED
    BY <1>4, <1>5 DEF AttemptFailed

LEMMA CrashWorkerInvariant ==
  ASSUME AnalysisInvariant, NEW w \in Workers, CrashWorker(w)
  PROVE  AnalysisInvariant'
PROOF
  BY WorkerGivesUp DEF CrashWorker, Working

-----------------------------------------------------------------------------
(* The queue and the lease                                                 *)

(* A task is delivered to a worker that is idle, and to no second one.     *)
LEMMA DeliverInvariant ==
  ASSUME AnalysisInvariant, NEW w \in Workers, NEW r \in Requests, Deliver(w, r)
  PROVE  AnalysisInvariant'
PROOF
  <1>1. /\ tasks \in [Requests -> TaskType] /\ worker \in [Workers -> WorkerType]
        /\ tasks[r].left \in 0..MaxDeliveries /\ MaxDeliveries \in Nat
    BY AnalysisAssumption DEF AnalysisInvariant, AnalysisTypeOK, TaskType, WorkerType, Pcs
  <1>2. UNCHANGED <<job, artifact, drafted, calls, upload, retry, taken, faults>>
    BY DEF Deliver
  <1>3. /\ tasks[r].state = "pending"
        /\ tasks' \in [Requests -> TaskType]
        /\ \A q \in Requests : tasks'[q].state = tasks[q].state
    <2>1. tasks[r].left - 1 \in 0..MaxDeliveries
      BY <1>1 DEF Deliver
    <2> QED
      BY <1>1, <2>1 DEF Deliver, TaskType
  <1>4. /\ worker' \in [Workers -> WorkerType]
        /\ worker'[w] = [pc |-> "start", task |-> r] /\ worker'[w] # Idle
        /\ \A v \in Workers : v # w => worker'[v] = worker[v]
    BY <1>1 DEF Deliver, WorkerType, Pcs, Idle
  <1>5. \A v \in Workers : worker[v].task # r
    BY DEF Deliver
  <1>6. AnalysisTypeOK'
    BY <1>2, <1>3, <1>4 DEF AnalysisInvariant, AnalysisTypeOK, WorkerType, TaskType, Pcs
  <1>7. ASSUME NEW v \in Workers PROVE HoldsTask(v)'
    <2>1. CASE v = w
      BY <1>3, <1>4, <1>5, <2>1 DEF HoldsTask, Working
    <2>2. CASE v # w
      <3>1. worker'[v] = worker[v] /\ worker'[w].task # worker'[v].task
        BY <1>4, <1>5, <2>2
      <3>2. Working(v) => worker[v].task \in Requests
        BY WorkerHas
      <3>3. \A x \in Workers : Working(x)' /\ worker'[x].task = worker'[v].task => worker'[x] = worker[x]
        BY <1>4, <3>1
      <3> QED
        BY <1>3, <3>1, <3>2, <3>3 DEF AnalysisInvariant, HoldsTask, Working
    <2> QED
      BY <2>1, <2>2
  <1>8. TasksNew'
    BY <1>2, <1>3 DEF AnalysisInvariant, TasksNew, Requests
  <1>9. JobFirst'
    BY <1>2, <1>3 DEF AnalysisInvariant, JobFirst
  <1>10. ReadyHasDraft' /\ ReadyKnown'
    BY <1>2, <1>4 DEF AnalysisInvariant, ReadyHasDraft, ReadyKnown, WorkerAt
  <1>11. LeaseExcludes'
    <2>1. \A v \in Workers : Analyzing(v)' => Analyzing(v)
      BY <1>4 DEF Analyzing
    <2> QED
      BY <1>2, <2>1 DEF AnalysisInvariant, LeaseExcludes, Leased
  <1>12. JobFollowed'
    <2>1. ASSUME NEW q \in Requests, Carried(q) PROVE Carried(q)'
      <3>1. \A v \in Workers : worker'[v].pc = "remove" => worker'[v] = worker[v]
        BY <1>4
      <3> QED
        BY <1>3, <2>1, <3>1 DEF Carried, Working, WorkerAt
    <2>2. Abandoned => Abandoned'
      BY <1>2, <1>3 DEF Abandoned
    <2> QED
      BY <1>2, <2>1, <2>2 DEF AnalysisInvariant, JobFollowed, Unsettled
  <1> QED
    BY <1>6, <1>7, <1>8, <1>9, <1>10, <1>11, <1>12 DEF AnalysisInvariant

LEMMA LapseInvariant ==
  ASSUME AnalysisInvariant, Lapse
  PROVE  AnalysisInvariant'
PROOF
  <1>1. job \in Job /\ taken \in Nat
    BY DEF AnalysisInvariant, AnalysisTypeOK, Lapse, Leased, NoJob
  <1>2. UNCHANGED <<artifact, drafted, calls, tasks, upload, retry, worker, faults>>
    BY DEF Lapse
  <1>3. job' \in Job /\ job'.status = job.status /\ taken' \in Nat /\ taken' # 0
    <2>1. job' \in Job /\ job'.status = job.status
      BY <1>1 DEF Lapse, Job
    <2>2. taken' \in Nat /\ taken' # 0
      BY <1>1 DEF Lapse
    <2> QED
      BY <2>1, <2>2
  <1>4. AnalysisTypeOK'
    BY <1>2, <1>3 DEF AnalysisInvariant, AnalysisTypeOK
  <1>5. (\A w \in Workers : HoldsTask(w)') /\ TasksNew' /\ ReadyKnown'
    BY <1>2 DEF AnalysisInvariant, HoldsTask, Working, TasksNew, ReadyKnown, WorkerAt
  <1>6. JobFirst' /\ ReadyHasDraft' /\ LeaseExcludes'
    BY <1>2, <1>3 DEF AnalysisInvariant, JobFirst, Job, NoJob, ReadyHasDraft, LeaseExcludes
  <1>7. JobFollowed'
    BY <1>2, <1>3 DEF AnalysisInvariant, JobFollowed, Unsettled, Carried, Working, WorkerAt, Abandoned
  <1> QED
    BY <1>4, <1>5, <1>6, <1>7 DEF AnalysisInvariant

-----------------------------------------------------------------------------
(* The steps of an upload and of a retry, which leave the workers alone    *)

(* What is left to show of one that makes no task.                         *)
LEMMA RequestStepKeeps ==
  ASSUME AnalysisInvariant, UNCHANGED <<drafted, calls, tasks, worker>>,
         artifact' \in BOOLEAN, faults' \in 0..MaxFaults, taken' \in Nat, job' \in Job \cup {NoJob},
         upload' \in [Uploads -> {"idle", "budget", "terminal", "save", "schedule"} \cup Ended],
         retry' \in [Retries -> {"idle", "write", "schedule"} \cup Ended],
         \A u \in Uploads : upload'[u] \notin Ended => upload[u] \notin Ended,
         \A r \in Retries : retry'[r] \notin Ended => retry[r] \notin Ended,
         JobFirst', ReadyHasDraft', LeaseExcludes', JobFollowed'
  PROVE  AnalysisInvariant'
PROOF
  <1>1. AnalysisTypeOK'
    BY DEF AnalysisInvariant, AnalysisTypeOK, Ended
  <1>2. (\A w \in Workers : HoldsTask(w)') /\ ReadyKnown'
    BY DEF AnalysisInvariant, HoldsTask, Working, ReadyKnown, WorkerAt
  <1>3. TasksNew'
    BY DEF AnalysisInvariant, TasksNew, Ended
  <1> QED
    BY <1>1, <1>2, <1>3 DEF AnalysisInvariant

(* A step that writes no job and changes no lease.                         *)
LEMMA LeaseUntouched ==
  ASSUME AnalysisInvariant, UNCHANGED <<worker, taken>>, UNCHANGED job \/ job = NoJob \/ ~Leased,
         UNCHANGED faults \/ \E f : Fault(f)
  PROVE  faults' \in 0..MaxFaults /\ LeaseExcludes'
PROOF
  <1>0. \A w \in Workers : Analyzing(w)' => Analyzing(w)
    BY DEF Analyzing
  <1>1. CASE UNCHANGED faults
    <2>1. faults' \in 0..MaxFaults
      BY <1>1 DEF AnalysisInvariant, AnalysisTypeOK
    <2>2. CASE UNCHANGED job
      BY <1>0, <1>1, <2>1, <2>2 DEF AnalysisInvariant, LeaseExcludes, Leased
    <2>3. CASE job = NoJob \/ ~Leased
      <3>1. ~Leased
        BY <2>3 DEF Leased, NoJob
      <3> QED
        BY <1>0, <1>1, <2>1, <3>1 DEF AnalysisInvariant, LeaseExcludes
    <2> QED
      BY <2>1, <2>2, <2>3
  <1>2. CASE \E f : Fault(f)
    BY <1>2, Faulted
  <1> QED
    BY <1>1, <1>2

(* A blind write counts itself when it hits a worker that holds the lease. *)
LEMMA LeaseCounted ==
  ASSUME AnalysisInvariant, UNCHANGED <<worker, faults>>, Taken
  PROVE  taken' \in Nat /\ faults' \in 0..MaxFaults /\ LeaseExcludes'
PROOF
  <1>1. taken \in Nat /\ faults \in 0..MaxFaults
    BY DEF AnalysisInvariant, AnalysisTypeOK
  <1>2. CASE Leased
    <2>1. taken' \in Nat /\ taken' # 0
      BY <1>1, <1>2 DEF Taken
    <2> QED
      BY <1>1, <2>1 DEF LeaseExcludes
  <1>3. CASE ~Leased
    <2>1. taken' = taken
      BY <1>1, <1>3 DEF Taken
    <2> QED
      BY <1>1, <1>3, <2>1 DEF AnalysisInvariant, LeaseExcludes, Analyzing
  <1> QED
    BY <1>2, <1>3

(* The job is not yet created only while no upload is past its first step. *)
LEMMA UploadHasJob ==
  ASSUME AnalysisInvariant, NEW u \in Uploads, upload[u] \notin {"idle", "refused"}
  PROVE  job \in Job
PROOF
  BY DEF AnalysisInvariant, AnalysisTypeOK, JobFirst

LEMMA RetryHasJob ==
  ASSUME AnalysisInvariant, NEW r \in Retries, retry[r] # "idle"
  PROVE  job \in Job
PROOF
  BY DEF AnalysisInvariant, AnalysisTypeOK, JobFirst

(* An upload that moves within its request.                                *)
UploadPcs == {"budget", "terminal", "save", "schedule"} \cup Ended

LEMMA UploadMoves ==
  ASSUME AnalysisInvariant, NEW u \in Uploads, NEW pc \in UploadPcs, UploadGoto(u, pc), upload[u] \notin Ended
  PROVE  /\ upload' \in [Uploads -> {"idle", "budget", "terminal", "save", "schedule"} \cup Ended]
         /\ upload'[u] = pc
         /\ \A v \in Uploads : v # u => upload'[v] = upload[v]
         /\ \A v \in Uploads : upload'[v] \notin Ended => upload[v] \notin Ended
PROOF
  <1>1. upload \in [Uploads -> {"idle", "budget", "terminal", "save", "schedule"} \cup Ended]
    BY DEF AnalysisInvariant, AnalysisTypeOK
  <1>2. upload' = [upload EXCEPT ![u] = pc]
    BY DEF UploadGoto
  <1> QED
    BY <1>1, <1>2 DEF UploadPcs

LEMMA RetryMoves ==
  ASSUME AnalysisInvariant, NEW r \in Retries, NEW pc \in {"write", "schedule"} \cup Ended, RetryGoto(r, pc),
         retry[r] \notin Ended
  PROVE  /\ retry' \in [Retries -> {"idle", "write", "schedule"} \cup Ended]
         /\ retry'[r] = pc
         /\ \A q \in Retries : q # r => retry'[q] = retry[q]
         /\ \A q \in Retries : retry'[q] \notin Ended => retry[q] \notin Ended
PROOF
  <1>1. retry \in [Retries -> {"idle", "write", "schedule"} \cup Ended]
    BY DEF AnalysisInvariant, AnalysisTypeOK
  <1>2. retry' = [retry EXCEPT ![r] = pc]
    BY DEF RetryGoto
  <1> QED
    BY <1>1, <1>2

(* While the tasks stand, an unsettled job stays followed through a step   *)
(* of a request that goes on, or is refused, or ends an analyzed job.      *)
LEMMA FollowedByUpload ==
  ASSUME AnalysisInvariant, NEW u \in Uploads, UNCHANGED <<tasks, worker, retry>>,
         \A v \in Uploads : v # u => upload'[v] = upload[v],
         upload[u] # "refused",
         upload'[u] \notin {"idle", "answered"}
  PROVE  JobFollowed'
PROOF
  <1>1. CASE upload'[u] = "refused"
    BY <1>1 DEF JobFollowed, Abandoned
  <1>2. CASE upload'[u] # "refused"
    BY <1>2 DEF JobFollowed, Ended
  <1> QED
    BY <1>1, <1>2

LEMMA FreshJob == [NoJob EXCEPT !.status = "QUEUED"] \in Job
PROOF
  <1>1. 0 \in 0..MaxAttempts
    BY AnalysisAssumption
  <1>2. NoJob \in [status: {"none"}, attempts: {0}, lease: BOOLEAN]
    BY DEF NoJob
  <1>3. ASSUME NEW j \in [status: {"none"}, attempts: {0}, lease: BOOLEAN]
        PROVE  [j EXCEPT !.status = "QUEUED"] \in Job
    BY <1>1 DEF Job
  <1> QED
    BY <1>2, <1>3

LEMMA CreateOrGetInvariant ==
  ASSUME AnalysisInvariant, NEW u \in Uploads, CreateOrGet(u)
  PROVE  AnalysisInvariant'
PROOF
  <1>1. UNCHANGED <<artifact, drafted, calls, tasks, retry, worker, taken>> /\ upload[u] = "idle"
    BY DEF CreateOrGet, UploadAt
  <1>2. artifact' \in BOOLEAN /\ taken' \in Nat /\ job \in Job \cup {NoJob}
        /\ retry' \in [Retries -> {"idle", "write", "schedule"} \cup Ended]
    BY <1>1 DEF AnalysisInvariant, AnalysisTypeOK
  <1>3. \A r \in Retries : retry'[r] \notin Ended => retry[r] \notin Ended
    BY <1>1
  <1>4. upload[u] \notin Ended
    BY <1>1 DEF Ended
  <1>5. CASE job = NoJob /\ job' = [NoJob EXCEPT !.status = "QUEUED"] /\ UploadGoto(u, "budget") /\ UNCHANGED faults
    <2>1. job' \in Job
      BY <1>5, FreshJob
    <2>2. job' # NoJob /\ job'.status = "QUEUED"
      <3>1. job'.status = "QUEUED"
        BY <1>5 DEF NoJob
      <3> QED
        BY <3>1 DEF NoJob
    <2>3. /\ upload' \in [Uploads -> {"idle", "budget", "terminal", "save", "schedule"} \cup Ended]
          /\ upload'[u] = "budget"
          /\ \A v \in Uploads : v # u => upload'[v] = upload[v]
          /\ \A v \in Uploads : upload'[v] \notin Ended => upload[v] \notin Ended
      BY <1>4, <1>5, UploadMoves DEF UploadPcs
    <2>4. faults' \in 0..MaxFaults /\ LeaseExcludes'
      BY <1>1, <1>5, LeaseUntouched
    <2>5. JobFollowed'
      BY <1>1, <2>3, FollowedByUpload
    <2>6. JobFirst' /\ ReadyHasDraft'
      BY <2>2 DEF JobFirst, ReadyHasDraft
    <2> QED
      BY <1>1, <1>2, <1>3, <2>1, <2>3, <2>4, <2>5, <2>6, RequestStepKeeps
  <1>6. CASE job # NoJob /\ UNCHANGED <<job, faults>> /\ \E pc \in {"answered", "save"} :
               UploadGoto(u, pc) /\ (pc = "answered" => job.status = "READY")
    <2>1. PICK pc \in {"answered", "save"} : UploadGoto(u, pc) /\ (pc = "answered" => job.status = "READY")
      BY <1>6
    <2>2. pc \in UploadPcs
      BY <2>1 DEF UploadPcs, Ended
    <2>3. /\ upload' \in [Uploads -> {"idle", "budget", "terminal", "save", "schedule"} \cup Ended]
          /\ upload'[u] = pc
          /\ \A v \in Uploads : v # u => upload'[v] = upload[v]
          /\ \A v \in Uploads : upload'[v] \notin Ended => upload[v] \notin Ended
      BY <1>4, <2>1, <2>2, UploadMoves
    <2>4. faults' \in 0..MaxFaults /\ LeaseExcludes'
      BY <1>1, <1>6, LeaseUntouched
    <2>5. JobFollowed'
      <3>1. CASE pc = "answered"
        BY <1>6, <2>1, <3>1 DEF JobFollowed, Unsettled
      <3>2. CASE pc = "save"
        BY <1>1, <2>3, <3>2, FollowedByUpload
      <3> QED
        BY <3>1, <3>2
    <2>6. JobFirst' /\ ReadyHasDraft' /\ job' \in Job \cup {NoJob}
      BY <1>1, <1>2, <1>6 DEF AnalysisInvariant, JobFirst, ReadyHasDraft
    <2> QED
      BY <1>1, <1>2, <1>3, <2>3, <2>4, <2>5, <2>6, RequestStepKeeps
  <1>7. CASE UNCHANGED job /\ Fault("storeError") /\ UploadGoto(u, "refused")
    <2>1. /\ upload' \in [Uploads -> {"idle", "budget", "terminal", "save", "schedule"} \cup Ended]
          /\ upload'[u] = "refused"
          /\ \A v \in Uploads : v # u => upload'[v] = upload[v]
          /\ \A v \in Uploads : upload'[v] \notin Ended => upload[v] \notin Ended
      BY <1>4, <1>7, UploadMoves DEF UploadPcs, Ended
    <2>2. faults' \in 0..MaxFaults /\ LeaseExcludes'
      BY <1>1, <1>7, LeaseUntouched
    <2>3. JobFollowed'
      BY <1>1, <2>1, FollowedByUpload
    <2>4. JobFirst' /\ ReadyHasDraft' /\ job' \in Job \cup {NoJob}
      BY <1>1, <1>2, <1>7, <2>1 DEF AnalysisInvariant, JobFirst, ReadyHasDraft
    <2> QED
      BY <1>1, <1>2, <1>3, <2>1, <2>2, <2>3, <2>4, RequestStepKeeps
  <1>8. ASSUME job # NoJob, UNCHANGED <<job, faults>>,
               UploadGoto(u, IF job.status = "READY" THEN "answered" ELSE "save")
        PROVE  \E pc \in {"answered", "save"} : UploadGoto(u, pc) /\ (pc = "answered" => job.status = "READY")
    <2>1. CASE job.status = "READY"
      BY <1>8, <2>1
    <2>2. CASE job.status # "READY"
      BY <1>8, <2>2
    <2> QED
      BY <2>1, <2>2
  <1> QED
    BY <1>5, <1>6, <1>7, <1>8 DEF CreateOrGet

(* An upload that writes nothing to the job.                               *)
LEMMA UploadLeavesJob ==
  ASSUME AnalysisInvariant, NEW u \in Uploads, upload[u] \notin {"idle"} \cup Ended,
         NEW pc \in {"terminal", "save", "schedule", "refused"}, UploadGoto(u, pc),
         UNCHANGED <<job, drafted, calls, tasks, retry, worker, taken>>, artifact' \in BOOLEAN,
         UNCHANGED faults \/ \E f : Fault(f)
  PROVE  AnalysisInvariant'
PROOF
  <1>1. taken' \in Nat /\ job \in Job /\ retry' \in [Retries -> {"idle", "write", "schedule"} \cup Ended]
    BY UploadHasJob DEF AnalysisInvariant, AnalysisTypeOK, Ended
  <1>2. pc \in UploadPcs /\ upload[u] \notin Ended /\ pc \notin {"idle", "answered"} /\ upload[u] # "refused"
    BY DEF UploadPcs, Ended
  <1>3. /\ upload' \in [Uploads -> {"idle", "budget", "terminal", "save", "schedule"} \cup Ended]
        /\ upload'[u] = pc
        /\ \A v \in Uploads : v # u => upload'[v] = upload[v]
        /\ \A v \in Uploads : upload'[v] \notin Ended => upload[v] \notin Ended
    BY <1>2, UploadMoves
  <1>4. faults' \in 0..MaxFaults /\ LeaseExcludes'
    BY LeaseUntouched
  <1>5. JobFollowed'
    BY <1>2, <1>3, FollowedByUpload
  <1>6. JobFirst' /\ ReadyHasDraft' /\ job' \in Job \cup {NoJob}
    BY <1>1 DEF AnalysisInvariant, JobFirst, ReadyHasDraft, Job, NoJob
  <1>7. \A r \in Retries : retry'[r] \notin Ended => retry[r] \notin Ended
    OBVIOUS
  <1> QED
    BY <1>1, <1>3, <1>4, <1>5, <1>6, <1>7, RequestStepKeeps

LEMMA ConsumeBudgetInvariant ==
  ASSUME AnalysisInvariant, NEW u \in Uploads, ConsumeBudget(u)
  PROVE  AnalysisInvariant'
PROOF
  <1>1. upload[u] \notin {"idle"} \cup Ended /\ artifact' \in BOOLEAN
        /\ UNCHANGED <<job, drafted, calls, tasks, retry, worker, taken, faults>>
    BY DEF ConsumeBudget, UploadAt, Ended, AnalysisInvariant, AnalysisTypeOK
  <1>2. PICK pc \in {"terminal", "save"} : UploadGoto(u, pc)
    BY DEF ConsumeBudget
  <1> QED
    BY <1>1, <1>2, UploadLeavesJob

LEMMA SaveArtifactInvariant ==
  ASSUME AnalysisInvariant, NEW u \in Uploads, SaveArtifact(u)
  PROVE  AnalysisInvariant'
PROOF
  <1>1. upload[u] \notin {"idle"} \cup Ended
    BY DEF SaveArtifact, UploadAt, Ended
  <1>2. artifact' \in BOOLEAN
    BY DEF SaveArtifact, AnalysisInvariant, AnalysisTypeOK
  <1>3. UNCHANGED <<job, drafted, calls, tasks, retry, worker, taken>>
    BY DEF SaveArtifact
  <1>4. PICK pc \in {"schedule", "refused"} : UploadGoto(u, pc) /\ (UNCHANGED faults \/ \E f : Fault(f))
    BY DEF SaveArtifact
  <1> QED
    BY <1>1, <1>2, <1>3, <1>4, UploadLeavesJob

LEMMA TerminalFailureInvariant ==
  ASSUME AnalysisInvariant, NEW u \in Uploads, TerminalFailure(u)
  PROVE  AnalysisInvariant'
PROOF
  <1>1. upload[u] \notin {"idle"} \cup Ended /\ UploadGoto(u, "refused")
        /\ UNCHANGED <<artifact, drafted, calls, tasks, retry, worker>>
    BY DEF TerminalFailure, UploadAt, Ended
  <1>2. artifact' \in BOOLEAN /\ job \in Job /\ retry' \in [Retries -> {"idle", "write", "schedule"} \cup Ended]
    BY <1>1, UploadHasJob DEF AnalysisInvariant, AnalysisTypeOK, Ended
  <1>3. CASE UNCHANGED <<job, taken>> /\ Fault("storeError")
    BY <1>1, <1>2, <1>3, UploadLeavesJob
  <1>4. CASE job' = [job EXCEPT !.status = "FAILED", !.lease = FALSE] /\ Taken /\ UNCHANGED faults
    <2>1. job' \in Job /\ job'.status = "FAILED"
      BY <1>2, <1>4 DEF Job
    <2>2. /\ upload' \in [Uploads -> {"idle", "budget", "terminal", "save", "schedule"} \cup Ended]
          /\ \A v \in Uploads : upload'[v] \notin Ended => upload[v] \notin Ended
      BY <1>1, UploadMoves DEF UploadPcs, Ended
    <2>3. taken' \in Nat /\ faults' \in 0..MaxFaults /\ LeaseExcludes'
      BY <1>1, <1>4, LeaseCounted
    <2>4. JobFirst' /\ ReadyHasDraft' /\ JobFollowed'
      BY <2>1 DEF JobFirst, ReadyHasDraft, JobFollowed, Unsettled, Job, NoJob
    <2>5. \A r \in Retries : retry'[r] \notin Ended => retry[r] \notin Ended
      BY <1>1
    <2> QED
      BY <1>1, <1>2, <2>1, <2>2, <2>3, <2>4, <2>5, RequestStepKeeps
  <1> QED
    BY <1>3, <1>4 DEF TerminalFailure

-----------------------------------------------------------------------------
(* A retry                                                                 *)

LEMMA RetryReadInvariant ==
  ASSUME AnalysisInvariant, NEW r \in Retries, RetryRead(r)
  PROVE  AnalysisInvariant'
PROOF
  <1>1. UNCHANGED <<job, artifact, drafted, calls, tasks, upload, worker, taken, faults>>
        /\ retry[r] = "idle" /\ job # NoJob
    BY DEF RetryRead, RetryAt
  <1>2. artifact' \in BOOLEAN /\ taken' \in Nat /\ job' \in Job \cup {NoJob}
        /\ upload' \in [Uploads -> {"idle", "budget", "terminal", "save", "schedule"} \cup Ended]
    BY <1>1 DEF AnalysisInvariant, AnalysisTypeOK
  <1>3. PICK pc \in {"write", "schedule", "answered"} : RetryGoto(r, pc)
    BY DEF RetryRead
  <1>4. /\ retry' \in [Retries -> {"idle", "write", "schedule"} \cup Ended]
        /\ \A q \in Retries : q # r => retry'[q] = retry[q]
        /\ \A q \in Retries : retry'[q] \notin Ended => retry[q] \notin Ended
    BY <1>1, <1>3, RetryMoves DEF Ended
  <1>5. faults' \in 0..MaxFaults /\ LeaseExcludes'
    BY <1>1, LeaseUntouched
  <1>6. JobFirst' /\ ReadyHasDraft'
    BY <1>1 DEF AnalysisInvariant, JobFirst, ReadyHasDraft
  <1>7. JobFollowed'
    <2>1. \A q \in Requests : Carried(q) => Carried(q)'
      BY <1>1 DEF Carried, Working, WorkerAt
    <2>2. Abandoned => Abandoned'
      BY <1>1, <1>4 DEF Abandoned
    <2>3. \A q \in Retries : retry[q] \in {"write", "schedule"} => retry'[q] \in {"write", "schedule"}
      BY <1>1, <1>4
    <2> QED
      BY <1>1, <2>1, <2>2, <2>3 DEF AnalysisInvariant, JobFollowed, Unsettled
  <1>8. \A v \in Uploads : upload'[v] \notin Ended => upload[v] \notin Ended
    BY <1>1
  <1> QED
    BY <1>1, <1>2, <1>4, <1>5, <1>6, <1>7, <1>8, RequestStepKeeps

LEMMA RetryWriteInvariant ==
  ASSUME AnalysisInvariant, NEW r \in Retries, RetryWrite(r)
  PROVE  AnalysisInvariant'
PROOF
  <1>1. UNCHANGED <<artifact, drafted, calls, tasks, upload, worker>> /\ retry[r] = "write"
    BY DEF RetryWrite, RetryAt
  <1>2. artifact' \in BOOLEAN /\ job \in Job
        /\ upload' \in [Uploads -> {"idle", "budget", "terminal", "save", "schedule"} \cup Ended]
    BY <1>1, RetryHasJob DEF AnalysisInvariant, AnalysisTypeOK
  <1>3. retry[r] \notin Ended
    BY <1>1 DEF Ended
  <1>4. \A v \in Uploads : upload'[v] \notin Ended => upload[v] \notin Ended
    BY <1>1
  <1>5. CASE job' = [NoJob EXCEPT !.status = "QUEUED"] /\ Taken /\ UNCHANGED faults /\ RetryGoto(r, "schedule")
    <2>1. job' \in Job
      BY <1>5, FreshJob
    <2>2. job'.status = "QUEUED"
      BY <1>5 DEF NoJob
    <2>3. /\ retry' \in [Retries -> {"idle", "write", "schedule"} \cup Ended]
          /\ retry'[r] = "schedule"
          /\ \A q \in Retries : retry'[q] \notin Ended => retry[q] \notin Ended
      BY <1>3, <1>5, RetryMoves
    <2>4. taken' \in Nat /\ faults' \in 0..MaxFaults /\ LeaseExcludes'
      BY <1>1, <1>5, LeaseCounted
    <2>5. JobFirst' /\ ReadyHasDraft' /\ JobFollowed'
      BY <2>1, <2>2, <2>3 DEF JobFirst, ReadyHasDraft, JobFollowed, Job, NoJob
    <2> QED
      BY <1>1, <1>2, <1>4, <2>1, <2>3, <2>4, <2>5, RequestStepKeeps
  <1>6. CASE UNCHANGED <<job, taken>> /\ Fault("storeError") /\ RetryGoto(r, "refused")
    <2>1. /\ retry' \in [Retries -> {"idle", "write", "schedule"} \cup Ended]
          /\ retry'[r] = "refused"
          /\ \A q \in Retries : retry'[q] \notin Ended => retry[q] \notin Ended
      BY <1>3, <1>6, RetryMoves DEF Ended
    <2>2. taken' \in Nat
      BY <1>6 DEF AnalysisInvariant, AnalysisTypeOK
    <2>3. faults' \in 0..MaxFaults /\ LeaseExcludes'
      BY <1>1, <1>6, LeaseUntouched
    <2>4. JobFollowed'
      BY <2>1 DEF JobFollowed, Abandoned
    <2>5. JobFirst' /\ ReadyHasDraft' /\ job' \in Job \cup {NoJob}
      BY <1>1, <1>2, <1>6 DEF AnalysisInvariant, JobFirst, ReadyHasDraft, Job, NoJob
    <2> QED
      BY <1>1, <1>2, <1>4, <2>1, <2>2, <2>3, <2>4, <2>5, RequestStepKeeps
  <1> QED
    BY <1>5, <1>6 DEF RetryWrite

-----------------------------------------------------------------------------
(* A task is made by its request, in the step that answers.                *)

(* The new task is pending, and nobody has it.                             *)
LEMMA TaskIsNew ==
  ASSUME AnalysisInvariant, NEW r \in Requests, TaskMade(r), UNCHANGED worker, tasks[r].state = "none"
  PROVE  /\ tasks' \in [Requests -> TaskType]
         /\ \A q \in Requests : q # r => tasks'[q] = tasks[q]
         /\ \A w \in Workers : HoldsTask(w)'
         /\ Carried(r)'
PROOF
  <1>1. tasks \in [Requests -> TaskType]
    BY DEF AnalysisInvariant, AnalysisTypeOK, TaskType
  <1>2. tasks' \in [Requests -> TaskType] /\ tasks'[r].state = "pending"
        /\ \A q \in Requests : q # r => tasks'[q] = tasks[q]
    BY <1>1 DEF TaskMade, TaskType
  <1>3. \A w \in Workers : Working(w) => worker[w].task \in Requests /\ worker[w].task # r
    BY WorkerHas DEF AnalysisInvariant, HoldsTask
  <1>4. \A w \in Workers : HoldsTask(w)'
    BY <1>2, <1>3 DEF AnalysisInvariant, HoldsTask, Working
  <1>5. Carried(r)'
    BY <1>2, <1>3 DEF Carried, Working
  <1> QED
    BY <1>2, <1>4, <1>5

LEMMA ScheduleUploadInvariant ==
  ASSUME AnalysisInvariant, NEW u \in Uploads, ScheduleUpload(u)
  PROVE  AnalysisInvariant'
PROOF
  <1>1. UNCHANGED <<job, artifact, drafted, calls, retry, worker, taken>> /\ upload[u] = "schedule"
    BY DEF ScheduleUpload, UploadAt
  <1>2. upload[u] \notin {"idle"} \cup Ended /\ artifact' \in BOOLEAN /\ job \in Job
    BY <1>1, UploadHasJob DEF Ended, AnalysisInvariant, AnalysisTypeOK
  <1>3. CASE UNCHANGED tasks /\ Fault("dispatch") /\ UploadGoto(u, "refused")
    BY <1>1, <1>2, <1>3, UploadLeavesJob
  <1>4. CASE TaskMade(u) /\ UNCHANGED faults /\ UploadGoto(u, "answered")
    <2>1. u \in Requests /\ tasks[u].state = "none"
      BY <1>2 DEF Requests, AnalysisInvariant, TasksNew
    <2>2. /\ tasks' \in [Requests -> TaskType]
          /\ \A q \in Requests : q # u => tasks'[q] = tasks[q]
          /\ \A w \in Workers : HoldsTask(w)'
          /\ Carried(u)'
      BY <1>1, <1>4, <2>1, TaskIsNew
    <2>3. /\ upload' \in [Uploads -> {"idle", "budget", "terminal", "save", "schedule"} \cup Ended]
          /\ upload'[u] = "answered"
          /\ \A v \in Uploads : upload'[v] \notin Ended => upload[v] \notin Ended
      BY <1>2, <1>4, UploadMoves DEF UploadPcs, Ended
    <2>4. faults' \in 0..MaxFaults /\ LeaseExcludes'
      BY <1>1, <1>4, LeaseUntouched
    <2>5. AnalysisTypeOK'
      BY <1>1, <2>2, <2>3, <2>4 DEF AnalysisInvariant, AnalysisTypeOK, TaskType
    <2>6. TasksNew'
      <3>1. \A v \in Uploads : upload'[v] \notin Ended => v # u
        BY <2>3 DEF Ended
      <3>2. \A r \in Retries : r # u
        BY AnalysisAssumption
      <3> QED
        BY <1>1, <2>2, <2>3, <3>1, <3>2 DEF AnalysisInvariant, TasksNew, Requests
    <2>7. JobFirst' /\ ReadyHasDraft' /\ ReadyKnown'
      BY <1>1, <1>2 DEF AnalysisInvariant, JobFirst, ReadyHasDraft, ReadyKnown, WorkerAt, Job, NoJob
    <2>8. JobFollowed'
      BY <2>1, <2>2 DEF JobFollowed, Requests
    <2> QED
      BY <2>2, <2>4, <2>5, <2>6, <2>7, <2>8 DEF AnalysisInvariant
  <1> QED
    BY <1>3, <1>4 DEF ScheduleUpload

LEMMA RetryScheduleInvariant ==
  ASSUME AnalysisInvariant, NEW r \in Retries, RetrySchedule(r)
  PROVE  AnalysisInvariant'
PROOF
  <1>1. UNCHANGED <<job, artifact, drafted, calls, upload, worker, taken>> /\ retry[r] = "schedule"
    BY DEF RetrySchedule, RetryAt
  <1>2. artifact' \in BOOLEAN /\ job \in Job /\ taken' \in Nat
        /\ upload' \in [Uploads -> {"idle", "budget", "terminal", "save", "schedule"} \cup Ended]
    BY <1>1, RetryHasJob DEF AnalysisInvariant, AnalysisTypeOK
  <1>3. retry[r] \notin Ended
    BY <1>1 DEF Ended
  <1>4. JobFirst' /\ ReadyHasDraft' /\ ReadyKnown' /\ job' \in Job \cup {NoJob}
    BY <1>1, <1>2 DEF AnalysisInvariant, JobFirst, ReadyHasDraft, ReadyKnown, WorkerAt, Job, NoJob
  <1>5. CASE UNCHANGED tasks /\ Fault("dispatch") /\ RetryGoto(r, "refused")
    <2>1. /\ retry' \in [Retries -> {"idle", "write", "schedule"} \cup Ended]
          /\ retry'[r] = "refused"
          /\ \A q \in Retries : retry'[q] \notin Ended => retry[q] \notin Ended
      BY <1>3, <1>5, RetryMoves DEF Ended
    <2>2. faults' \in 0..MaxFaults /\ LeaseExcludes'
      BY <1>1, <1>5, LeaseUntouched
    <2>3. JobFollowed'
      BY <2>1 DEF JobFollowed, Abandoned
    <2>4. \A v \in Uploads : upload'[v] \notin Ended => upload[v] \notin Ended
      BY <1>1
    <2> QED
      BY <1>1, <1>2, <1>4, <1>5, <2>1, <2>2, <2>3, <2>4, RequestStepKeeps
  <1>6. CASE TaskMade(r) /\ UNCHANGED faults /\ RetryGoto(r, "answered")
    <2>1. r \in Requests /\ tasks[r].state = "none"
      BY <1>3 DEF Requests, AnalysisInvariant, TasksNew
    <2>2. /\ tasks' \in [Requests -> TaskType]
          /\ \A q \in Requests : q # r => tasks'[q] = tasks[q]
          /\ \A w \in Workers : HoldsTask(w)'
          /\ Carried(r)'
      BY <1>1, <1>6, <2>1, TaskIsNew
    <2>3. /\ retry' \in [Retries -> {"idle", "write", "schedule"} \cup Ended]
          /\ retry'[r] = "answered"
          /\ \A q \in Retries : retry'[q] \notin Ended => retry[q] \notin Ended
      BY <1>3, <1>6, RetryMoves DEF Ended
    <2>4. faults' \in 0..MaxFaults /\ LeaseExcludes'
      BY <1>1, <1>6, LeaseUntouched
    <2>5. AnalysisTypeOK'
      BY <1>1, <2>2, <2>3, <2>4 DEF AnalysisInvariant, AnalysisTypeOK, TaskType
    <2>6. TasksNew'
      <3>1. \A q \in Retries : retry'[q] \notin Ended => q # r
        BY <2>3 DEF Ended
      <3>2. \A v \in Uploads : v # r
        BY AnalysisAssumption
      <3> QED
        BY <1>1, <2>2, <2>3, <3>1, <3>2 DEF AnalysisInvariant, TasksNew, Requests
    <2>7. JobFollowed'
      BY <2>1, <2>2 DEF JobFollowed, Requests
    <2> QED
      BY <1>4, <2>2, <2>4, <2>5, <2>6, <2>7 DEF AnalysisInvariant
  <1> QED
    BY <1>5, <1>6 DEF RetrySchedule

-----------------------------------------------------------------------------
(* The theorems                                                            *)

LEMMA NextInvariant == AnalysisInvariant /\ [Next]_vars => AnalysisInvariant'
PROOF
  <1> SUFFICES ASSUME AnalysisInvariant, [Next]_vars PROVE AnalysisInvariant'
    OBVIOUS
  <1>1. ASSUME NEW u \in Uploads, UploadStep(u) PROVE AnalysisInvariant'
    BY <1>1, CreateOrGetInvariant, ConsumeBudgetInvariant, TerminalFailureInvariant, SaveArtifactInvariant,
       ScheduleUploadInvariant DEF UploadStep
  <1>2. ASSUME NEW r \in Retries, RetryStep(r) PROVE AnalysisInvariant'
    BY <1>2, RetryReadInvariant, RetryWriteInvariant, RetryScheduleInvariant DEF RetryStep
  <1>3. ASSUME NEW w \in Workers, WorkerStep(w) PROVE AnalysisInvariant'
    BY <1>3, StartInvariant, ReadArtifactInvariant, FindDraftInvariant, ReserveCallInvariant, ExtractInvariant,
       CreateDraftInvariant, MarkReadyInvariant, RemoveArtifactInvariant, AttemptFailedInvariant DEF WorkerStep
  <1>4. ASSUME NEW w \in Workers, CrashWorker(w) PROVE AnalysisInvariant'
    BY <1>4, CrashWorkerInvariant
  <1>5. ASSUME NEW w \in Workers, NEW r \in Requests, Deliver(w, r) PROVE AnalysisInvariant'
    BY <1>5, DeliverInvariant
  <1>6. CASE Lapse
    BY <1>6, LapseInvariant
  <1>7. CASE UNCHANGED vars
    BY <1>7 DEF AnalysisInvariant, AnalysisTypeOK, HoldsTask, Working, TasksNew, JobFirst, ReadyHasDraft,
       ReadyKnown, WorkerAt, LeaseExcludes, Leased, Analyzing, JobFollowed, Unsettled, Carried, Abandoned, vars
  <1> QED
    BY <1>1, <1>2, <1>3, <1>4, <1>5, <1>6, <1>7 DEF Next

(* AnalysisInvariant holds in every state of an analysis.                  *)
THEOREM AnalysisInvariantHolds == Spec => []AnalysisInvariant
PROOF
  BY InitInvariant, NextInvariant, PTL DEF Spec

(* The documents, the queue and the requests have their types: attempts    *)
(* stay within MaxAttempts, model calls within MaxCalls and deliveries     *)
(* within MaxDeliveries, however often the job is retried or taken over.   *)
THEOREM AnalysisTyped == Spec => []AnalysisTypeOK
PROOF
  <1>1. AnalysisInvariant => AnalysisTypeOK
    BY DEF AnalysisInvariant
  <1> QED
    BY <1>1, AnalysisInvariantHolds, PTL

(* A job shown as READY has the draft it names, although markReady merges  *)
(* its status blindly.                                                     *)
THEOREM ReadyHasDraftHolds == Spec => []ReadyHasDraft
PROOF
  <1>1. AnalysisInvariant => ReadyHasDraft
    BY DEF AnalysisInvariant
  <1> QED
    BY <1>1, AnalysisInvariantHolds, PTL

(* A job that is queued or being analyzed always has a task or a request   *)
(* under way, or something has visibly given up on it.                     *)
THEOREM JobNotLostHolds == Spec => []JobNotLost
PROOF
  <1>1. AnalysisInvariant => JobNotLost
    BY DEF AnalysisInvariant, JobFollowed, JobNotLost, UnderWay, Carried
  <1> QED
    BY <1>1, AnalysisInvariantHolds, PTL

(* A READY job loses that status only to a write that does not look at it: *)
(* of a worker that fails after a lapse, a takeover or a fault, of a retry *)
(* that read FAILED, or of an upload refused by the budget.                *)
LEMMA ReadyKeptByStep ==
  AnalysisInvariant /\ [Next]_vars => [job.status = "READY" /\ job'.status # "READY" => Overtaken]_job
PROOF
  <1> SUFFICES ASSUME AnalysisInvariant, [Next]_vars, job.status = "READY", job'.status # "READY" PROVE Overtaken
    OBVIOUS
  <1>0. job \in Job /\ ~Leased /\ job # NoJob
    BY DEF AnalysisInvariant, AnalysisTypeOK, NoJob, Leased
  <1>1. ASSUME NEW u \in Uploads, UploadStep(u) PROVE Overtaken
    <2>1. CASE TerminalFailure(u)
      BY <2>1 DEF TerminalFailure, Overtaken
    <2>2. CASE CreateOrGet(u)
      BY <1>0, <2>2 DEF CreateOrGet
    <2>3. CASE ConsumeBudget(u) \/ SaveArtifact(u) \/ ScheduleUpload(u)
      BY <2>3 DEF ConsumeBudget, SaveArtifact, ScheduleUpload
    <2> QED
      BY <1>1, <2>1, <2>2, <2>3 DEF UploadStep
  <1>2. ASSUME NEW r \in Retries, RetryStep(r) PROVE Overtaken
    <2>1. CASE RetryWrite(r)
      BY <2>1 DEF RetryWrite, Overtaken
    <2>2. CASE RetryRead(r) \/ RetrySchedule(r)
      BY <2>2 DEF RetryRead, RetrySchedule
    <2> QED
      BY <1>2, <2>1, <2>2 DEF RetryStep
  <1>3. ASSUME NEW w \in Workers, WorkerStep(w) PROVE Overtaken
    <2>1. CASE AttemptFailed(w)
      <3>1. WorkerAt(w, "failing") /\ Analyzing(w)
        BY <2>1 DEF AttemptFailed, WorkerAt, Analyzing
      <3>2. taken + faults > 0
        <4>1. ~(taken = 0 /\ faults = 0)
          BY <1>0, <3>1 DEF AnalysisInvariant, LeaseExcludes
        <4>2. taken \in Nat /\ faults \in Nat
          BY AnalysisAssumption DEF AnalysisInvariant, AnalysisTypeOK
        <4> QED
          BY <4>1, <4>2
      <3> QED
        BY <3>1, <3>2 DEF Overtaken
    <2>2. CASE MarkReady(w)
      BY <1>0, <2>2 DEF MarkReady, Job
    <2>3. CASE Start(w)
      BY <1>0, <2>3 DEF Start
    <2>4. CASE ReadArtifact(w) \/ FindDraft(w) \/ ReserveCall(w) \/ Extract(w) \/ CreateDraft(w) \/ RemoveArtifact(w)
      BY <2>4 DEF ReadArtifact, FindDraft, ReserveCall, Extract, CreateDraft, RemoveArtifact
    <2> QED
      BY <1>3, <2>1, <2>2, <2>3, <2>4 DEF WorkerStep
  <1>4. ASSUME NEW w \in Workers, CrashWorker(w) PROVE Overtaken
    BY <1>4 DEF CrashWorker
  <1>5. ASSUME NEW w \in Workers, NEW r \in Requests, Deliver(w, r) PROVE Overtaken
    BY <1>5 DEF Deliver
  <1>6. CASE Lapse
    BY <1>0, <1>6 DEF Lapse
  <1>7. CASE UNCHANGED vars
    BY <1>7 DEF vars
  <1> QED
    BY <1>1, <1>2, <1>3, <1>4, <1>5, <1>6, <1>7 DEF Next

(* A READY job is taken back only in three ways: by the failure of a       *)
(* worker that outlived its lease or lost a call, by a retry that read it  *)
(* as FAILED, or by an upload whose budget was refused.                    *)
THEOREM ReadyKeptHolds == Spec => ReadyKept
PROOF
  BY ReadyKeptByStep, AnalysisInvariantHolds, PTL DEF Spec, ReadyKept
=============================================================================
