---------------------------- MODULE MissionStore ----------------------------
(***************************************************************************)
(* What the actors of one mission share: the missionRuns document and its  *)
(* wakeIntents in Firestore, the Cloud Tasks queue, the clock, and the     *)
(* count of faults that have happened; and the two protocols they all use, *)
(* compareAndSet and scheduleMission.  The modules that model an actor     *)
(* (MissionRunner, InboundService) EXTEND this one.                        *)
(*                                                                         *)
(* Time is kept as three facts, because the code only ever compares "now"  *)
(* with three instants: nextWakeAt ?? dueAt (wakeDue), updatedAt + 5 min   *)
(* (idleLong) and boundary.expiresAt (expired).  A document has one wake   *)
(* time per version, so an intent and a task are named by the version.     *)
(***************************************************************************)
EXTENDS Naturals

CONSTANTS
  Versions,        \* versions the mission document may reach: bounds the model
  MaxDeliveries,   \* retryConfig.maxAttempts of the queue
  Faults,          \* the kinds of fault, and "expiry", that may happen
  MaxFaults        \* how many of them in one behaviour: bounds the model

ASSUME VersionsAssumption == Versions \subseteq Nat \ {0} /\ 1 \in Versions
ASSUME DeliveryAssumption == MaxDeliveries \in Nat \ {0}
ASSUME FaultAssumption == MaxFaults \in Nat

VARIABLES
  mission,      \* missionRuns/{missionId}
  wakeDue,      \* now >= nextWakeAt ?? dueAt
  idleLong,     \* now - updatedAt > 5 minutes
  expired,      \* now >= boundary.expiresAt
  intents,      \* wakeIntents, by expectedVersion: the status
  tasks,        \* Cloud Tasks, by task name: "inFlight" is deleted, too, after that answer
  deliveries,   \* how often the queue has dispatched each task
  routed,       \* messageThreads maps the reply address to the mission
  raised,       \* interventions and notifications on record, by kind
  faults        \* faults so far

storeVars == <<mission, wakeDue, idleLong, intents>>
queueVars == <<tasks, deliveries>>
clockVars == <<wakeDue, idleLong, expired>>
sharedVars == <<storeVars, expired, queueVars, routed, raised, faults>>

-----------------------------------------------------------------------------
Runnable == {"READY", "WAITING_RETRY", "WAITING_EXTERNAL"}
InProgress == {"RUNNING", "VERIFYING"}
Terminal == {"DONE", "CANCELLED", "EXPIRED", "FAILED"}
State == Runnable \cup InProgress \cup Terminal \cup {"NEEDS_ATTENTION"}

(* actionOrdinal, attemptCount ?? 0, nextWakeAt present, boundary.revokedAt *)
Mission == [state: State, version: Versions, ordinal: Nat \ {0},
            attempts: Nat, hasWake: BOOLEAN, revoked: BOOLEAN]

Notice == {"ACTION_BUDGET_EXHAUSTED", "RECOVERY_EXHAUSTED", "MISSION_FAILED",
           "UNEXPECTED_SENDER", "PROPOSAL_CHANGE", "EVIDENCE_CONFLICT",
           "EMAIL_ROUTE_UNAVAILABLE", "NEEDS_ATTENTION", "MISSION_COMPLETED"}

(* The worker hashes the whole WakeIntent into the task name; the stale    *)
(* branch and the reconciler hash the four plain fields: two names.  A     *)
(* RESUME sent twice may hash the time of its second request: a third.     *)
Task == [version: Versions, name: {"intent", "plain", "resume"}]

(* The run document FirestoreIntakeStore.replace writes on approval.       *)
ApprovedMission ==
  [state |-> "READY", version |-> 1, ordinal |-> 1, attempts |-> 0,
   hasWake |-> FALSE, revoked |-> FALSE]

(* Approval persists the intent of version 1 with the document, then       *)
(* schedules it: it may have stopped before or after either write.         *)
StoreInit ==
  /\ mission = ApprovedMission
  /\ wakeDue \in BOOLEAN
  /\ idleLong = FALSE
  /\ expired = FALSE
  /\ \E dispatched, created \in BOOLEAN :
       /\ dispatched => created
       /\ intents = [v \in Versions |->
            IF v # 1 THEN "none" ELSE IF dispatched THEN "DISPATCHED" ELSE "PENDING"]
       /\ tasks = [t \in Task |->
            IF created /\ t = [version |-> 1, name |-> "intent"]
              THEN "queued" ELSE "unused"]
  /\ deliveries = [t \in Task |-> 0]
  /\ routed = FALSE
  /\ raised = {}
  /\ faults = 0

StoreTypeOK ==
  /\ mission \in Mission
  /\ wakeDue \in BOOLEAN /\ idleLong \in BOOLEAN /\ expired \in BOOLEAN
  /\ intents \in [Versions -> {"none", "PENDING", "DISPATCHED", "HOLLOW"}]
  /\ tasks \in [Task -> {"unused", "queued", "deleted", "inFlight"}]
  /\ deliveries \in [Task -> 0..MaxDeliveries]
  /\ routed \in BOOLEAN
  /\ raised \subseteq Notice
  /\ faults \in 0..MaxFaults

-----------------------------------------------------------------------------
(* A fault of kind f happens in this step, within the bound.               *)
Fault(f) == f \in Faults /\ faults < MaxFaults /\ faults' = faults + 1

VersionIgnored(expectedVersion) == TRUE  \* mutant of VersionMatches
VersionMatches(expectedVersion) == mission.version = expectedVersion

(* compareAndSet: the version check, the document, the wake intent, all in *)
(* one transaction.  wake: whether the transaction persists an intent for  *)
(* the new version, whose nextWakeAt then lies in the future.              *)
CompareAndSet(expectedVersion, next, wake) ==
  /\ VersionMatches(expectedVersion)
  /\ next.version \in Versions
  /\ mission' = next
  /\ idleLong' = FALSE
  /\ wakeDue' = (wakeDue /\ ~wake)
  /\ intents' = IF wake THEN [intents EXCEPT ![next.version] = "PENDING"] ELSE intents

(* One such transaction: it commits, it finds another version, it fails,   *)
(* or it commits and the answer is lost.  committed and failed are what    *)
(* the caller does next.                                                   *)
Transact(expectedVersion, next, wake, committed, failed) ==
  \/ CompareAndSet(expectedVersion, next, wake) /\ UNCHANGED faults /\ committed
  \/ ~VersionMatches(expectedVersion) /\ UNCHANGED <<storeVars, faults>> /\ failed
  \/ UNCHANGED storeVars /\ Fault("storeError") /\ failed
  \/ CompareAndSet(expectedVersion, next, wake) /\ Fault("lostAck") /\ failed

-----------------------------------------------------------------------------
(* scheduleMission of the DurableWakeScheduler: create the task, then mark *)
(* the intent; when either throws, mark the intent PENDING and rethrow.    *)

(* createTask: a name that was ever used answers ALREADY_EXISTS, which     *)
(* counts as success.                                                      *)
CreateTask(t) ==
  tasks' = [tasks EXCEPT ![t] = IF @ = "unused" THEN "queued" ELSE @]

(* Both marks merge into the document of the intent.  Where no transaction *)
(* persisted one (VERIFYING carries a wake of an older version), they      *)
(* create a document without mission, version and time, which the cron     *)
(* cannot dispatch whatever its status.                                    *)
MarkIntent(v, status) ==
  intents' = [intents EXCEPT ![v] = IF @ \in {"none", "HOLLOW"} THEN "HOLLOW" ELSE status]

ScheduleTask(t, created, failed) ==
  /\ \/ CreateTask(t) /\ UNCHANGED faults /\ created
     \/ (CreateTask(t) \/ UNCHANGED tasks) /\ Fault("dispatch") /\ failed
  /\ UNCHANGED <<storeVars, expired, deliveries, routed, raised>>

RecordDispatchedUnmarked(t, marked, failed) ==  \* mutant of RecordDispatched
  /\ UNCHANGED <<intents, faults>> /\ marked
  /\ UNCHANGED <<mission, clockVars, queueVars, routed, raised>>

RecordDispatched(t, marked, failed) ==
  /\ \/ MarkIntent(t.version, "DISPATCHED") /\ UNCHANGED faults /\ marked
     \/ UNCHANGED intents /\ Fault("storeError") /\ failed
     \/ MarkIntent(t.version, "DISPATCHED") /\ Fault("lostAck") /\ failed
  /\ UNCHANGED <<mission, clockVars, queueVars, routed, raised>>

RecordFailed(t, rethrown) ==
  /\ \/ MarkIntent(t.version, "PENDING") /\ UNCHANGED faults
     \/ UNCHANGED intents /\ Fault("storeError")
  /\ rethrown
  /\ UNCHANGED <<mission, clockVars, queueVars, routed, raised>>

-----------------------------------------------------------------------------
(* The clock passes one of the three instants.  idleLong is only ever read *)
(* in RUNNING and VERIFYING; "expiry" says whether the approval may end.   *)
WakeTimeArrives ==
  /\ ~wakeDue /\ wakeDue' = TRUE
  /\ UNCHANGED <<mission, idleLong, expired, intents, queueVars, routed, raised, faults>>

FiveMinutesPass ==
  /\ mission.state \in InProgress
  /\ ~idleLong /\ idleLong' = TRUE
  /\ UNCHANGED <<mission, wakeDue, expired, intents, queueVars, routed, raised, faults>>

BoundaryExpires ==
  /\ "expiry" \in Faults
  /\ ~expired /\ expired' = TRUE
  /\ UNCHANGED <<storeVars, queueVars, routed, raised, faults>>

Tick == WakeTimeArrives \/ FiveMinutesPass \/ BoundaryExpires
=============================================================================
