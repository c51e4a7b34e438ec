---------------------------- MODULE AnalysisJob ----------------------------
(***************************************************************************)
(* The analysis of one uploaded promise, from the upload to the draft the  *)
(* owner reviews: handleAnalysisIntake, handleAnalysisWorker,              *)
(* handleAnalysisRetry over FirestoreAnalysisStore, the private artifact,  *)
(* the intake store and the Cloud Tasks queue.                             *)
(*                                                                         *)
(* There is one job, that of the first upload: analysisDedupe sends every  *)
(* later upload of the same bytes to it.  A worker holds it by a lease of  *)
(* 90 s while the route may run for 120 s, and no write but start looks at *)
(* the lease.  One action per awaited call; the stage, which only the page *)
(* shows, and the telemetry are left out.  The draft is not deleted here:  *)
(* that is the subject of PlanApproval.                                    *)
(***************************************************************************)
EXTENDS Naturals

CONSTANTS
  Uploads,         \* intake requests with the same bytes
  Retries,         \* retry requests of the owner
  Workers,         \* concurrent deliveries
  MaxAttempts,     \* starts before the job fails (3)
  MaxCalls,        \* model calls per artifact (4)
  MaxDeliveries,   \* attempts the queue makes with a task (5)
  MaxLapses,       \* leases that run out: bounds the model
  Faults,
  MaxFaults        \* bounds the model

ASSUME AnalysisAssumption ==
  /\ Uploads \cap Retries = {}
  /\ {MaxAttempts, MaxCalls, MaxDeliveries} \subseteq Nat \ {0}
  /\ {MaxLapses, MaxFaults} \subseteq Nat

VARIABLES
  job,             \* analysisJobs of the job
  artifact,        \* the uploaded bytes are in the bucket
  drafted,         \* the draft and its intakeDedupe entry exist
  calls,           \* modelUsage: callCount of the artifact
  tasks,           \* the Cloud Tasks task each request makes
  upload, retry,   \* where each request stands
  worker,          \* what each delivery is doing
  taken,           \* times the job was taken from a worker that holds it
  faults

vars == <<job, artifact, drafted, calls, tasks, upload, retry, worker, taken, faults>>

-----------------------------------------------------------------------------
NoJob == [status |-> "none", attempts |-> 0, lease |-> FALSE]
Job == [status: {"QUEUED", "ANALYZING", "READY", "FAILED"}, attempts: 0..MaxAttempts,
        lease: BOOLEAN]

Requests == Uploads \cup Retries
Ended == {"answered", "refused"}
Idle == [pc |-> "idle", task |-> "none"]

AnalysisTypeOK ==
  /\ job \in Job \cup {NoJob}
  /\ artifact \in BOOLEAN /\ drafted \in BOOLEAN
  /\ calls \in 0..MaxCalls
  /\ tasks \in [Requests -> [state: {"none", "pending", "done", "dropped"}, left: 0..MaxDeliveries]]
  /\ upload \in [Uploads -> {"idle", "budget", "terminal", "save", "schedule"} \cup Ended]
  /\ retry \in [Retries -> {"idle", "write", "schedule"} \cup Ended]
  /\ worker \in [Workers ->
       [pc: {"start", "read", "find", "reserve", "extract", "create", "ready", "remove", "failing"},
        task: Requests] \cup {Idle}]
  /\ taken \in Nat /\ faults \in 0..MaxFaults

Init ==
  /\ job = NoJob
  /\ artifact = FALSE /\ drafted = FALSE /\ calls = 0
  /\ tasks = [r \in Requests |-> [state |-> "none", left |-> MaxDeliveries]]
  /\ upload = [u \in Uploads |-> "idle"]
  /\ retry = [r \in Retries |-> "idle"]
  /\ worker = [w \in Workers |-> Idle]
  /\ taken = 0 /\ faults = 0

Fault(f) == f \in Faults /\ faults < MaxFaults /\ faults' = faults + 1

-----------------------------------------------------------------------------
(* createTask: the request's own clock names the task.                     *)
TaskMade(r) == tasks' = [tasks EXCEPT ![r].state = "pending"]

Ack(w) ==
  /\ tasks' = [tasks EXCEPT ![worker[w].task].state = "done"]
  /\ worker' = [worker EXCEPT ![w] = Idle]
(* An error answer: the queue delivers the task again, while it has        *)
(* attempts left.                                                          *)
Nack(w) ==
  /\ tasks' = [tasks EXCEPT ![worker[w].task].state = IF @ = "pending" /\ tasks[worker[w].task].left = 0
                                                        THEN "dropped" ELSE @]
  /\ worker' = [worker EXCEPT ![w] = Idle]

Deliver(w, r) ==
  /\ worker[w] = Idle
  /\ tasks[r].state = "pending" /\ tasks[r].left > 0
  /\ \A v \in Workers : worker[v].task # r
  /\ tasks' = [tasks EXCEPT ![r].left = @ - 1]
  /\ worker' = [worker EXCEPT ![w] = [pc |-> "start", task |-> r]]
  /\ UNCHANGED <<job, artifact, drafted, calls, upload, retry, taken, faults>>

(* A worker holds the job by its lease.                                    *)
LeasedNever == FALSE                           \* mutant of Leased
Leased == job.status = "ANALYZING" /\ job.lease

(* A write that looks at nothing may find a worker at work.                *)
Taken == taken' = taken + (IF Leased THEN 1 ELSE 0)

-----------------------------------------------------------------------------
(* handleAnalysisIntake                                                    *)
UploadAt(u, pc) == upload[u] = pc
UploadGoto(u, pc) == upload' = [upload EXCEPT ![u] = pc]

(* createOrGet: the job is created, or the first one is found; a READY one *)
(* has nothing left to do.                                                 *)
CreateOrGet(u) ==
  /\ UploadAt(u, "idle")
  /\ \/ /\ IF job = NoJob
             THEN job' = [NoJob EXCEPT !.status = "QUEUED"] /\ UploadGoto(u, "budget")
             ELSE UNCHANGED job /\ UploadGoto(u, IF job.status = "READY" THEN "answered" ELSE "save")
        /\ UNCHANGED faults
     \/ UNCHANGED job /\ Fault("storeError") /\ UploadGoto(u, "refused")
  /\ UNCHANGED <<artifact, drafted, calls, tasks, retry, worker, taken>>

(* consumeBudget: the daily limit of the owner, or the call, may refuse.   *)
ConsumeBudget(u) ==
  /\ UploadAt(u, "budget")
  /\ \/ UploadGoto(u, "save")
     \/ UploadGoto(u, "terminal")
  /\ UNCHANGED <<job, artifact, drafted, calls, tasks, retry, worker, taken, faults>>

(* markTerminalFailure merges the status whatever the job is by then.      *)
TerminalFailure(u) ==
  /\ UploadAt(u, "terminal")
  /\ \/ job' = [job EXCEPT !.status = "FAILED", !.lease = FALSE] /\ Taken /\ UNCHANGED faults
     \/ UNCHANGED <<job, taken>> /\ Fault("storeError")
  /\ UploadGoto(u, "refused")
  /\ UNCHANGED <<artifact, drafted, calls, tasks, retry, worker>>

SaveArtifact(u) ==
  /\ UploadAt(u, "save")
  /\ \/ artifact' = TRUE /\ UNCHANGED faults /\ UploadGoto(u, "schedule")
     \/ UNCHANGED artifact /\ Fault("storeError") /\ UploadGoto(u, "refused")
  /\ UNCHANGED <<job, drafted, calls, tasks, retry, worker, taken>>

ScheduleUpload(u) ==
  /\ UploadAt(u, "schedule")
  /\ \/ TaskMade(u) /\ UNCHANGED faults /\ UploadGoto(u, "answered")
     \/ UNCHANGED tasks /\ Fault("dispatch") /\ UploadGoto(u, "refused")
  /\ UNCHANGED <<job, artifact, drafted, calls, retry, worker, taken>>

-----------------------------------------------------------------------------
(* handleAnalysisRetry: retryOwned reads the job and, when it has failed,  *)
(* merges a fresh one without looking again.  A QUEUED job is scheduled.   *)
RetryAt(r, pc) == retry[r] = pc
RetryGoto(r, pc) == retry' = [retry EXCEPT ![r] = pc]

RetryRead(r) ==
  /\ RetryAt(r, "idle") /\ job # NoJob
  /\ RetryGoto(r, CASE job.status = "FAILED" -> "write"
                    [] job.status = "QUEUED" -> "schedule"
                    [] OTHER -> "answered")
  /\ UNCHANGED <<job, artifact, drafted, calls, tasks, upload, worker, taken, faults>>

RetryWrite(r) ==
  /\ RetryAt(r, "write")
  /\ \/ job' = [NoJob EXCEPT !.status = "QUEUED"] /\ Taken /\ UNCHANGED faults /\ RetryGoto(r, "schedule")
     \/ UNCHANGED <<job, taken>> /\ Fault("storeError") /\ RetryGoto(r, "refused")
  /\ UNCHANGED <<artifact, drafted, calls, tasks, upload, worker>>

RetrySchedule(r) ==
  /\ RetryAt(r, "schedule")
  /\ \/ TaskMade(r) /\ UNCHANGED faults /\ RetryGoto(r, "answered")
     \/ UNCHANGED tasks /\ Fault("dispatch") /\ RetryGoto(r, "refused")
  /\ UNCHANGED <<job, artifact, drafted, calls, upload, worker, taken>>

-----------------------------------------------------------------------------
(* handleAnalysisWorker.  Whatever a call throws leads to                  *)
(* markAttemptFailed.                                                      *)
WorkerAt(w, pc) == worker[w].pc = pc
WorkerGoto(w, pc) == worker' = [worker EXCEPT ![w].pc = pc] /\ UNCHANGED tasks
ThrowsIgnored(w) == Fault("storeError") /\ WorkerGoto(w, "ready")  \* mutant of Throws
Throws(w) == Fault("storeError") /\ WorkerGoto(w, "failing")

StartedMisspelt == [status |-> "RUNNING", attempts |-> job.attempts + 1, lease |-> TRUE]  \* mutant of Started
Started == [status |-> "ANALYZING", attempts |-> job.attempts + 1, lease |-> TRUE]

(* BUSY is answered 503, so that the queue tries again after the lease.    *)
AckBusy(w) == Ack(w)                           \* mutant of Busy
Busy(w) == Nack(w)

Start(w) ==
  /\ WorkerAt(w, "start")
  /\ \/ /\ UNCHANGED faults
        /\ CASE job.status \in {"READY", "FAILED"} -> UNCHANGED job /\ Ack(w)
             [] Leased -> UNCHANGED job /\ Busy(w)
             [] job.status \notin {"READY", "FAILED"} /\ ~Leased /\ job.attempts >= MaxAttempts ->
                  job' = [job EXCEPT !.status = "FAILED", !.lease = FALSE] /\ Ack(w)
             [] OTHER -> job' = Started /\ WorkerGoto(w, "read")
     \/ UNCHANGED job /\ Throws(w)
  /\ UNCHANGED <<artifact, drafted, calls, upload, retry, taken>>

ReadArtifact(w) ==
  /\ WorkerAt(w, "read")
  /\ \/ WorkerGoto(w, IF artifact THEN "find" ELSE "failing") /\ UNCHANGED faults
     \/ Throws(w)
  /\ UNCHANGED <<job, artifact, drafted, calls, upload, retry, taken>>

(* IntakeService.intake: findByDedupeKey, then the extraction.             *)
FindDraft(w) ==
  /\ WorkerAt(w, "find")
  /\ WorkerGoto(w, IF drafted THEN "ready" ELSE "reserve")
  /\ UNCHANGED <<job, artifact, drafted, calls, upload, retry, taken, faults>>

ReserveCall(w) ==
  /\ WorkerAt(w, "reserve")
  /\ IF calls < MaxCalls
       THEN calls' = calls + 1 /\ WorkerGoto(w, "extract")
       ELSE UNCHANGED calls /\ WorkerGoto(w, "failing")
  /\ UNCHANGED <<job, artifact, drafted, upload, retry, taken, faults>>

(* The model and the records of its outcome succeed, or throw.             *)
Extract(w) ==
  /\ WorkerAt(w, "extract")
  /\ WorkerGoto(w, "create") \/ WorkerGoto(w, "failing")
  /\ UNCHANGED <<job, artifact, drafted, calls, upload, retry, taken, faults>>

(* createDraft: DUPLICATE_INTAKE_RACE when another worker was faster.      *)
CreateDraft(w) ==
  /\ WorkerAt(w, "create")
  /\ \/ /\ drafted' = TRUE
        /\ WorkerGoto(w, IF drafted THEN "failing" ELSE "ready")
        /\ UNCHANGED faults
     \/ UNCHANGED drafted /\ Throws(w)
     \/ drafted' = TRUE /\ Fault("lostAck") /\ WorkerGoto(w, "failing")
  /\ UNCHANGED <<job, artifact, calls, upload, retry, taken>>

(* markReady merges the status whatever the job is by then.  When only its *)
(* answer is lost, the attempt fails over the mark it made.                *)
MarkReady(w) ==
  LET marked == job' = [job EXCEPT !.status = "READY", !.lease = FALSE] IN
  /\ WorkerAt(w, "ready")
  /\ \/ marked /\ UNCHANGED faults /\ WorkerGoto(w, "remove")
     \/ UNCHANGED job /\ Throws(w)
     \/ marked /\ Fault("lostAck") /\ WorkerGoto(w, "failing")
  /\ UNCHANGED <<artifact, drafted, calls, upload, retry, taken>>

(* The artifact is deleted; an error of that is ignored.                   *)
RemoveArtifact(w) ==
  /\ WorkerAt(w, "remove")
  /\ \/ artifact' = FALSE /\ UNCHANGED faults
     \/ UNCHANGED artifact /\ Fault("storeError")
  /\ Ack(w)
  /\ UNCHANGED <<job, drafted, calls, upload, retry, taken>>

(* markAttemptFailed: FAILED after the last attempt, else QUEUED, whatever *)
(* the status was.  When it throws too the delivery fails.                 *)
AttemptFailed(w) ==
  LET terminal == job.attempts >= MaxAttempts IN
  /\ WorkerAt(w, "failing")
  /\ \/ /\ job' = [job EXCEPT !.status = IF terminal THEN "FAILED" ELSE "QUEUED", !.lease = FALSE]
        /\ IF terminal THEN Ack(w) ELSE Nack(w)
        /\ UNCHANGED faults
     \/ UNCHANGED job /\ Fault("storeError") /\ Nack(w)
  /\ UNCHANGED <<artifact, drafted, calls, upload, retry, taken>>

-----------------------------------------------------------------------------
(* Time and failures                                                       *)

(* 90 s pass since the start.                                              *)
Lapse ==
  /\ Leased /\ taken < MaxLapses
  /\ job' = [job EXCEPT !.lease = FALSE]
  /\ taken' = taken + 1
  /\ UNCHANGED <<artifact, drafted, calls, tasks, upload, retry, worker, faults>>

(* The worker's process stops: the delivery has failed.                    *)
CrashWorker(w) ==
  /\ worker[w] # Idle
  /\ Fault("crash")
  /\ Nack(w)
  /\ UNCHANGED <<job, artifact, drafted, calls, upload, retry, taken>>

UploadStep(u) ==
  \/ CreateOrGet(u) \/ ConsumeBudget(u) \/ TerminalFailure(u) \/ SaveArtifact(u) \/ ScheduleUpload(u)
RetryStep(r) == RetryRead(r) \/ RetryWrite(r) \/ RetrySchedule(r)
WorkerStep(w) ==
  \/ Start(w) \/ ReadArtifact(w) \/ FindDraft(w) \/ ReserveCall(w) \/ Extract(w) \/ CreateDraft(w)
  \/ MarkReady(w) \/ RemoveArtifact(w) \/ AttemptFailed(w)

Next ==
  \/ \E u \in Uploads : UploadStep(u)
  \/ \E r \in Retries : RetryStep(r)
  \/ \E w \in Workers : WorkerStep(w) \/ CrashWorker(w) \/ \E r \in Requests : Deliver(w, r)
  \/ Lapse

Spec == Init /\ [][Next]_vars

-----------------------------------------------------------------------------
(* Safety                                                                  *)

(* The owner is shown "ready" only for a case that has its draft, although *)
(* the mark is merged blindly, by any of the workers, in any order.        *)
ReadyHasDraft == job.status = "READY" => drafted

(* A job that is not settled is not forgotten: a task or a request is      *)
(* under way for it, even while a worker that holds it is dead.  The       *)
(* exceptions are a request that was refused before it scheduled, and a    *)
(* task that used all its attempts.                                        *)
Unsettled == job.status \in {"QUEUED", "ANALYZING"}
UnderWay ==
  \/ \E r \in Requests : tasks[r].state = "pending"
  \/ \E u \in Uploads : upload[u] \notin {"idle"} \cup Ended
  \/ \E r \in Retries : retry[r] \in {"write", "schedule"}
Abandoned ==
  \/ \E r \in Requests : tasks[r].state = "dropped"
  \/ \E u \in Uploads : upload[u] = "refused"
  \/ \E r \in Retries : retry[r] = "refused"
JobNotLost == Unsettled => UnderWay \/ Abandoned

(* A finished analysis is taken back only in three ways, each a write that *)
(* does not look at what it replaces: a worker that outlived its lease or  *)
(* lost a call fails, a retry goes on from a job it read as FAILED, and an *)
(* upload whose budget was refused marks the job that another one saved.   *)
Overtaken ==
  \/ taken + faults > 0 /\ \E w \in Workers : WorkerAt(w, "failing")
  \/ \E r \in Retries : RetryAt(r, "write")
  \/ \E u \in Uploads : UploadAt(u, "terminal")
ReadyKept == [][job.status = "READY" /\ job'.status # "READY" => Overtaken]_job
=============================================================================
