--------------------------- MODULE MissionRunner ---------------------------
(***************************************************************************)
(* The task worker: MissionRunner.run, the ExecutionBroker it calls, the   *)
(* DurableWakeScheduler it dispatches through, and the wake reconciler.    *)
(*                                                                         *)
(* A worker is one HTTP request from Cloud Tasks.  It reads the document   *)
(* once (item), then takes one step per awaited call; everything between   *)
(* two awaits is part of the earlier step.  Any step may be the last one:  *)
(* the process may stop, and the queue then delivers the task again.       *)
(***************************************************************************)
EXTENDS MissionStore

CONSTANTS
  Workers,          \* concurrent requests: maxConcurrentDispatches of the queue
  Reconcilers,      \* cron requests that re-dispatch PENDING intents
  MaxLogicalSends,  \* plan.maxLogicalSends ?? 3
  MaxAttempts       \* maxAttempts of the runner, 5 in the worker route

ASSUME RunnerAssumption ==
  /\ Reconcilers \cap Workers = {}
  /\ MaxLogicalSends \in Nat \ {0}
  /\ MaxAttempts \in Nat \ {0}

VARIABLES
  records,          \* capabilityRecords, by action ordinal
  accepted,         \* how often the provider accepted a call for each ordinal
  worker            \* the request each worker is serving

runnerVars == <<records, accepted, worker>>
vars == <<sharedVars, runnerVars>>

(* The idempotency key hashes mission, plan version, action type and       *)
(* ordinal; of these only the ordinal varies within an approved mission.   *)
Ordinals == 1 .. MaxLogicalSends + 1

Actors == Workers \cup Reconcilers

(* Where the request stands: the call it is about to make.                 *)
Brokering == {"budget", "call", "succeed", "markUnknown", "fail"}
Answering == {"ack", "inFlight"}
PC == Brokering \cup Answering \cup
      {"idle", "reserve", "casSuccess", "casRetry", "casDenied", "casBudget",
       "casStuck", "create", "mark", "markFailed", "raiseBudget",
       "raiseRecovery", "notifyFailed"}

NoTask == [version |-> 0, name |-> "none"]

(* task: the delivered task; item: the document as read; target: the wake  *)
(* to dispatch.                                                            *)
Idle == [pc |-> "idle", task |-> NoTask, item |-> ApprovedMission, target |-> NoTask]

Request == [pc: PC, task: Task \cup {NoTask}, item: Mission, target: Task \cup {NoTask}]

TypeOK ==
  /\ StoreTypeOK
  /\ records \in [Ordinals -> {"none", "RESERVED", "UNKNOWN", "SUCCEEDED"}]
  /\ accepted \in [Ordinals -> Nat]
  /\ worker \in [Actors -> Request]

RunnerInit ==
  /\ records = [k \in Ordinals |-> "none"]
  /\ accepted = [k \in Ordinals |-> 0]
  /\ worker = [w \in Actors |-> Idle]

Init == StoreInit /\ RunnerInit

-----------------------------------------------------------------------------
At(w, pc) == worker[w].pc = pc
Goto(w, pc) == worker' = [worker EXCEPT ![w].pc = pc]

(* From here on the request reads only the wake, then only its task.       *)
Dispatch(w, t) ==
  worker' = [worker EXCEPT ![w] = [Idle EXCEPT !.pc = "create", !.task = worker[w].task, !.target = t]]
Finish(w) ==
  worker' = [worker EXCEPT ![w] = [Idle EXCEPT !.pc = "ack", !.task = worker[w].task]]
FinishInFlight(w) ==
  worker' = [worker EXCEPT ![w] = [Idle EXCEPT !.pc = "inFlight", !.task = worker[w].task]]

(* The request ends without a 2xx answer: the task stays in the queue.     *)
Release(w) == worker' = [worker EXCEPT ![w] = Idle]

Intent(v) == [version |-> v, name |-> "intent"]
Plain(v) == [version |-> v, name |-> "plain"]

-----------------------------------------------------------------------------
(* Delivery: the queue dispatches a task, the worker reads the document    *)
(* and runs to its first await.  A queue may deliver a task a second time  *)
(* while the first request runs, and clocks may differ: both are faults.   *)

Held(t) == \E w \in Workers : worker[w].task = t
OnTime(t) == t.version = mission.version => wakeDue

Receive(t) ==
  /\ tasks[t] = "queued"
  /\ deliveries[t] < MaxDeliveries
  /\ deliveries' = [deliveries EXCEPT ![t] = @ + 1]
  /\ \/ OnTime(t) /\ ~Held(t) /\ UNCHANGED faults
     \/ OnTime(t) /\ Held(t) /\ Fault("redeliver")
     \/ ~OnTime(t) /\ ~Held(t) /\ Fault("skew")
  /\ UNCHANGED <<storeVars, expired, tasks, routed, raised, records, accepted>>

Begin(w, t, request) ==
  /\ At(w, "idle")
  /\ Receive(t)
  /\ worker' = [worker EXCEPT ![w] = [request EXCEPT !.task = t]]

ReadDocument(pc) == [Idle EXCEPT !.pc = pc, !.item = mission]

IsStuck == mission.state \in InProgress /\ idleLong
IsStale(t) ==
  \/ mission.version # t.version
  \/ mission.state \notin Runnable /\ ~IsStuck

(* A stale task re-dispatches the wake of the document it found, if that   *)
(* still waits for one, and is answered 200 either way.                    *)
DeliverStale(w, t) ==
  /\ IsStale(t)
  /\ IF (mission.state \in Runnable \/ IsStuck) /\ mission.hasWake
       THEN Begin(w, t, [Idle EXCEPT !.pc = "create", !.target = Plain(mission.version)])
       ELSE Begin(w, t, [Idle EXCEPT !.pc = "ack"])

DeliverStuck(w, t) ==
  /\ ~IsStale(t) /\ IsStuck
  /\ Begin(w, t, ReadDocument("casStuck"))

(* NOT_DUE is answered 503: the worker is free, the task stays.            *)
DeliverEarlyAnswered(w, t) ==  \* mutant of DeliverEarly: answers 200
  /\ ~IsStale(t) /\ ~IsStuck /\ ~wakeDue
  /\ Begin(w, t, [Idle EXCEPT !.pc = "ack"])

DeliverEarly(w, t) ==
  /\ ~IsStale(t) /\ ~IsStuck /\ ~wakeDue
  /\ At(w, "idle")
  /\ Receive(t)
  /\ UNCHANGED worker

(* The send budget is checked on the document, then the boundary by        *)
(* validateCapabilityExecution on the document and the clock just read.    *)
BudgetSpentLate == mission.ordinal > MaxLogicalSends + 1  \* mutant of BudgetSpent
BudgetSpent == mission.ordinal > MaxLogicalSends

DeliverDue(w, t) ==
  /\ ~IsStale(t) /\ ~IsStuck /\ wakeDue
  /\ IF BudgetSpent THEN Begin(w, t, ReadDocument("casBudget"))
     ELSE IF expired \/ mission.revoked THEN Begin(w, t, ReadDocument("casDenied"))
     ELSE Begin(w, t, ReadDocument("reserve"))

Deliver(w, t) ==
  DeliverStale(w, t) \/ DeliverStuck(w, t) \/ DeliverEarly(w, t) \/ DeliverDue(w, t)

-----------------------------------------------------------------------------
(* ExecutionBroker.execute                                                 *)

brokerUnchanged == UNCHANGED <<storeVars, expired, queueVars, raised>>

FreeUnlessFinished(k) == records[k] # "SUCCEEDED"   \* mutants of Free
FreeUnlessReserved(k) == records[k] # "RESERVED"
Free(k) == records[k] = "none"

FinishedOnceReserved(k) == records[k] # "none"      \* mutants of Finished
FinishedForgotten(k) == FALSE
Finished(k) == records[k] = "SUCCEEDED"

(* reserve: a finished action returns its receipt, an unfinished one ends  *)
(* the request with ACTION_IN_FLIGHT, answered 200.                        *)
Reserve(w) ==
  LET k == worker[w].item.ordinal
      reserving == IF Free(k) THEN [records EXCEPT ![k] = "RESERVED"] ELSE records
  IN
  /\ At(w, "reserve")
  /\ \/ /\ records' = reserving
        /\ \/ Free(k) /\ Goto(w, "budget")
           \/ Finished(k) /\ Goto(w, "casSuccess")
           \/ ~Free(k) /\ ~Finished(k) /\ FinishInFlight(w)
        /\ UNCHANGED faults
     \/ Fault("storeError") /\ UNCHANGED records /\ Goto(w, "casRetry")
     \/ Fault("lostAck") /\ records' = reserving /\ Goto(w, "casRetry")
  /\ UNCHANGED accepted
  /\ UNCHANGED routed /\ brokerUnchanged

(* reserveExternalSend: the daily budget of the owner may be used up.      *)
ReserveBudget(w) ==
  /\ At(w, "budget")
  /\ \/ UNCHANGED faults /\ Goto(w, "call")
     \/ Fault("sendBudget") /\ Goto(w, "fail")
  /\ UNCHANGED <<records, accepted>>
  /\ UNCHANGED routed /\ brokerUnchanged

(* adapter.execute: accepted with a receipt; refused; no answer (a timeout *)
(* or a 5xx, CapabilityOutcomeUnknownError), accepted or not; accepted but *)
(* answered with a body the adapter rejects with a plain Error.            *)
CallProvider(w) ==
  LET k == worker[w].item.ordinal
      accept == accepted' = [accepted EXCEPT ![k] = @ + 1]
  IN
  /\ At(w, "call")
  /\ \/ accept /\ UNCHANGED faults /\ Goto(w, "succeed")
     \/ UNCHANGED accepted /\ Fault("refused") /\ Goto(w, "fail")
     \/ (accept \/ UNCHANGED accepted) /\ Fault("noAnswer") /\ Goto(w, "markUnknown")
     \/ accept /\ Fault("malformed") /\ Goto(w, "fail")
  /\ UNCHANGED records
  /\ UNCHANGED routed /\ brokerUnchanged

(* store.succeed writes the record and the reply route in one batch.  It   *)
(* sits inside the try block: when it throws, written or not, the catch    *)
(* block goes on to store.fail.                                            *)
Succeed(w) ==
  LET recorded == /\ records' = [records EXCEPT ![worker[w].item.ordinal] = "SUCCEEDED"]
                  /\ routed' = TRUE
  IN
  /\ At(w, "succeed")
  /\ \/ recorded /\ UNCHANGED faults /\ Goto(w, "casSuccess")
     \/ UNCHANGED <<records, routed>> /\ Fault("storeError") /\ Goto(w, "fail")
     \/ recorded /\ Fault("lostAck") /\ Goto(w, "fail")
  /\ UNCHANGED accepted
  /\ brokerUnchanged

(* The catch block: both branches throw on to the runner's catch block.    *)
SettleRecord(w, status) ==
  /\ \/ /\ records' = [records EXCEPT ![worker[w].item.ordinal] = status]
        /\ UNCHANGED faults
     \/ UNCHANGED records /\ Fault("storeError")
  /\ Goto(w, "casRetry")
  /\ UNCHANGED accepted
  /\ UNCHANGED routed /\ brokerUnchanged

MarkUnknownFree(w) == At(w, "markUnknown") /\ SettleRecord(w, "none")  \* mutant of MarkUnknown
MarkUnknown(w) == At(w, "markUnknown") /\ SettleRecord(w, "UNKNOWN")

Fail(w) == At(w, "fail") /\ SettleRecord(w, "none")

Broker(w) ==
  \/ Reserve(w) \/ ReserveBudget(w) \/ CallProvider(w)
  \/ Succeed(w) \/ MarkUnknown(w) \/ Fail(w)

-----------------------------------------------------------------------------
(* MissionRunner.run publishes what happened by compareAndSet, as a new    *)
(* version of the document it read.                                        *)

AdvancedInPlace(item) ==  \* mutant of Advanced
  [item EXCEPT !.state = "WAITING_EXTERNAL", !.ordinal = @ + 1, !.attempts = 0, !.hasWake = TRUE]

Advanced(item) ==
  [item EXCEPT !.state = "WAITING_EXTERNAL", !.version = @ + 1, !.ordinal = @ + 1,
     !.attempts = 0, !.hasWake = TRUE]

Retrying(item) ==
  [item EXCEPT !.state = "WAITING_RETRY", !.version = @ + 1, !.attempts = @ + 1, !.hasWake = TRUE]

RecoveryExhausted(item) ==
  [item EXCEPT !.state = "NEEDS_ATTENTION", !.version = @ + 1, !.attempts = @ + 1]

Denied(item) == [item EXCEPT !.state = "FAILED", !.version = @ + 1]

BudgetExhausted(item) ==
  [item EXCEPT !.state = "NEEDS_ATTENTION", !.version = @ + 1, !.hasWake = FALSE]

Recovered(item) ==
  [item EXCEPT !.state = IF @ = "VERIFYING" THEN "WAITING_EXTERNAL" ELSE "WAITING_RETRY",
     !.version = @ + 1, !.hasWake = TRUE]

Publish(w, next, wake, committed, failed) ==
  /\ Transact(worker[w].item.version, next, wake, committed, failed)
  /\ UNCHANGED <<expired, queueVars, routed, raised, records, accepted>>

DispatchWakeAhead(w) == Dispatch(w, Intent(worker[w].item.version + 2))  \* mutant of DispatchWake
DispatchWake(w) == Dispatch(w, Intent(worker[w].item.version + 1))

(* The receipt is in hand.  This compareAndSet is inside the try block, so *)
(* its failure is handled as a failed attempt.                             *)
PublishSuccess(w) ==
  /\ At(w, "casSuccess")
  /\ Publish(w, Advanced(worker[w].item), TRUE, DispatchWake(w), Goto(w, "casRetry"))

RetriesExhausted(w) == worker[w].item.attempts + 1 >= MaxAttempts

PublishRetry(w) ==
  /\ At(w, "casRetry")
  /\ ~RetriesExhausted(w)
  /\ Publish(w, Retrying(worker[w].item), TRUE, DispatchWake(w), Release(w))

PublishRecoveryExhausted(w) ==
  /\ At(w, "casRetry")
  /\ RetriesExhausted(w)
  /\ Publish(w, RecoveryExhausted(worker[w].item), FALSE, Goto(w, "raiseRecovery"), Release(w))

(* The denial is first recorded as telemetry; when that fails, the error   *)
(* thrown is not ACTION_DENIED and counts as a failed attempt.             *)
PublishDenied(w) ==
  /\ At(w, "casDenied")
  /\ \/ Publish(w, Denied(worker[w].item), FALSE, Goto(w, "notifyFailed"), Release(w))
     \/ /\ Fault("storeError") /\ Goto(w, "casRetry")
        /\ UNCHANGED <<storeVars, expired, queueVars, routed, raised, records, accepted>>

PublishBudgetExhausted(w) ==
  /\ At(w, "casBudget")
  /\ Publish(w, BudgetExhausted(worker[w].item), FALSE, Goto(w, "raiseBudget"), Release(w))

(* A mission left in RUNNING or VERIFYING for five minutes goes back to    *)
(* waiting.                                                                *)
PublishRecovered(w) ==
  /\ At(w, "casStuck")
  /\ Publish(w, Recovered(worker[w].item), TRUE, DispatchWake(w), Release(w))

(* After the transition that halts the mission, in calls of their own.     *)
Raise(w) ==
  /\ \E notice \in {<<"raiseBudget", "ACTION_BUDGET_EXHAUSTED">>,
                    <<"raiseRecovery", "RECOVERY_EXHAUSTED">>,
                    <<"notifyFailed", "MISSION_FAILED">>} :
       /\ At(w, notice[1])
       /\ \/ raised' = raised \cup {notice[2]} /\ UNCHANGED faults /\ Finish(w)
          \/ UNCHANGED raised /\ Fault("storeError") /\ Release(w)
          \/ raised' = raised \cup {notice[2]} /\ Fault("lostAck") /\ Release(w)
  /\ UNCHANGED <<storeVars, expired, queueVars, routed, records, accepted>>

Run(w) ==
  \/ PublishSuccess(w) \/ PublishRetry(w) \/ PublishRecoveryExhausted(w)
  \/ PublishDenied(w) \/ PublishBudgetExhausted(w) \/ PublishRecovered(w)
  \/ Raise(w)

-----------------------------------------------------------------------------
(* DurableWakeScheduler.scheduleMission, for a worker or the reconciler.   *)

CreateWake(w) ==
  /\ At(w, "create")
  /\ ScheduleTask(worker[w].target, Goto(w, "mark"), Goto(w, "markFailed"))
  /\ UNCHANGED <<records, accepted>>

MarkDispatched(w) ==
  /\ At(w, "mark")
  /\ RecordDispatched(worker[w].target, Finish(w), Goto(w, "markFailed"))
  /\ UNCHANGED <<records, accepted>>

(* The error is rethrown: the task is answered 500.                        *)
MarkFailed(w) ==
  /\ At(w, "markFailed")
  /\ RecordFailed(worker[w].target, Release(w))
  /\ UNCHANGED <<records, accepted>>

(* The request is answered 200 and the queue deletes the task; the answer  *)
(* says whether it found its action in flight.                             *)
Acknowledge(w) ==
  /\ worker[w].pc \in Answering
  /\ tasks' = [t \in Task |-> IF t # worker[w].task THEN tasks[t]
                              ELSE IF At(w, "ack") THEN "deleted" ELSE "inFlight"]
  /\ Release(w)
  /\ UNCHANGED <<storeVars, expired, deliveries, routed, raised, faults, records, accepted>>

Schedule(w) == CreateWake(w) \/ MarkDispatched(w) \/ MarkFailed(w) \/ Acknowledge(w)

(* verifyOutcome: the cron lists the PENDING intents and dispatches each.  *)
Reconcile(r, v) ==
  /\ At(r, "idle")
  /\ intents[v] = "PENDING"
  /\ Dispatch(r, Plain(v))
  /\ UNCHANGED <<sharedVars, records, accepted>>

(* The process serving a request stops.                                    *)
Crash(w) ==
  /\ ~At(w, "idle")
  /\ Fault("crash")
  /\ Release(w)
  /\ UNCHANGED <<storeVars, expired, queueVars, routed, raised, records, accepted>>

(* A reader of the inbound queue moves the mission to VERIFYING and is not *)
(* heard of again: the only way into an in-progress state.  FollowThrough  *)
(* has the readers themselves in place of this step.                       *)
ReplyStarts ==
  /\ routed
  /\ mission.state \in {"RUNNING", "WAITING_EXTERNAL"}
  /\ CompareAndSet(mission.version, [mission EXCEPT !.state = "VERIFYING", !.version = @ + 1], FALSE)
  /\ Fault("reply")
  /\ UNCHANGED <<expired, queueVars, routed, raised, runnerVars>>

-----------------------------------------------------------------------------
Step(w) == Broker(w) \/ Run(w) \/ Schedule(w)

Next ==
  \/ \E w \in Workers, t \in Task : Deliver(w, t)
  \/ \E w \in Actors : Step(w) \/ Crash(w)
  \/ \E r \in Reconcilers, v \in Versions : Reconcile(r, v)
  \/ ReplyStarts
  \/ Tick /\ UNCHANGED runnerVars

Spec == Init /\ [][Next]_vars

(* A request that runs takes its next step; the queue dispatches what is   *)
(* due; the cron keeps running; time passes.  Faults are never due, and    *)
(* neither is the end of the approval.                                     *)
Fairness ==
  /\ \A w \in Actors : WF_vars(Step(w))
  /\ \A w \in Workers : WF_vars(\E t \in Task : Deliver(w, t))
  /\ \A r \in Reconcilers : WF_vars(\E v \in Versions : Reconcile(r, v))
  /\ WF_vars(WakeTimeArrives /\ UNCHANGED runnerVars)

FairSpec == Spec /\ Fairness

-----------------------------------------------------------------------------
(* Safety                                                                  *)

InBroker(w) == worker[w].pc \in Brokering
Ordinal(w) == worker[w].item.ordinal

(* At most one request at a time is between reserving an action and        *)
(* recording its result, and while it is the reservation exists: the       *)
(* transaction in reserve and the delete in fail never open the action to  *)
(* a second caller.                                                        *)
ExclusiveReservation ==
  \A w \in Actors : InBroker(w) =>
    /\ records[Ordinal(w)] # "none"
    /\ \A x \in Actors : InBroker(x) /\ Ordinal(x) = Ordinal(w) => x = w

(* The mission's ordinal only ever counts actions the provider accepted: a *)
(* duplicate in flight, a timeout or a lost race never skips a follow-up.  *)
OrdinalBacked ==
  \A k \in Ordinals : k < mission.ordinal => accepted[k] > 0

(* However tasks are repeated, the provider accepts no action beyond the   *)
(* approved number of sends.                                               *)
SendsWithinBudget ==
  \A k \in Ordinals : accepted[k] > 0 => k <= MaxLogicalSends

(* A mission that waits for a wake has one coming: a PENDING intent the    *)
(* cron will dispatch, or a task of its version in the queue or being      *)
(* served.  It loses its wake in two ways only: the queue has used up the  *)
(* attempts of such a task, or such a task was answered 200 because its    *)
(* action was in flight: the mission then depends on the request that      *)
(* reserved the action, which may be gone or may fail.                     *)
Serving(t) == \E w \in Workers : worker[w].task = t /\ worker[w].pc \notin Answering

WakeTask(t) == Serving(t) \/ (tasks[t] = "queued" /\ deliveries[t] < MaxDeliveries /\ ~Held(t))

AttemptsSpent(t) == tasks[t] = "queued" /\ deliveries[t] = MaxDeliveries

AnsweredInFlight(t) ==
  tasks[t] = "inFlight" \/ \E w \in Workers : worker[w].task = t /\ At(w, "inFlight")

WakeOrAbandoned ==
  mission.state \in Runnable =>
    \/ intents[mission.version] = "PENDING"
    \/ \E t \in Task :
         /\ t.version = mission.version
         /\ WakeTask(t) \/ AttemptsSpent(t) \/ AnsweredInFlight(t)

(* While every error the adapter reports as plain means "not accepted" and *)
(* the store answers, a logical action is accepted by the provider at most *)
(* once: crashes, timeouts and repeated deliveries never send it twice.    *)
AcceptedOnce == \A k \in Ordinals : accepted[k] <= 1

(* The broker's comment: an action the provider accepted keeps its         *)
(* reservation, so that it is not retried blindly.                         *)
AcceptanceRemembered ==
  \A k \in Ordinals : accepted[k] > 0 =>
    \/ records[k] # "none"
    \/ \E w \in Workers : InBroker(w) /\ Ordinal(w) = k

(* No request calls the provider for an action the mission has moved past. *)
NoLateCall ==
  [][\A k \in Ordinals : accepted'[k] # accepted[k] => mission.ordinal = k]_vars

(* The runner implements the ledger of logical actions.                    *)
Ledger == INSTANCE ActionLedger WITH
  next <- mission.ordinal, done <- {k \in Ordinals : accepted[k] > 0}
ImplementsLedger == Ledger!Spec

-----------------------------------------------------------------------------
(* Why: the facts about the requests in progress that make the properties  *)
(* above inductive.                                                        *)

(* What a request has read is the current document or an older version of  *)
(* it, and the ordinal never went back since.                              *)
SnapshotsCurrent ==
  /\ mission.version = 1 => mission = ApprovedMission
  /\ \A w \in Actors :
       /\ worker[w].item.version <= mission.version
       /\ worker[w].item.version = mission.version => worker[w].item = mission
       /\ Ordinal(w) <= mission.ordinal

(* A receipt, on record or in hand, stands for an acceptance.              *)
ReceiptsBacked ==
  /\ \A k \in Ordinals : records[k] = "SUCCEEDED" => accepted[k] > 0
  /\ \A w \in Actors : worker[w].pc \in {"succeed", "casSuccess"} => accepted[Ordinal(w)] > 0

(* A request that may still send read an ordinal within the budget.        *)
Live == Brokering \cup {"reserve", "casSuccess"}
RequestsWithinBudget ==
  /\ mission.ordinal \in Ordinals
  /\ \A w \in Actors : worker[w].pc \in Live => Ordinal(w) <= MaxLogicalSends

(* When no answer of a committed write is lost, a request inside the       *)
(* broker holds the reservation itself, and the record of every action the *)
(* mission has moved past is final.                                        *)
RecordsSettled ==
  /\ \A w \in Actors : InBroker(w) => records[Ordinal(w)] = "RESERVED"
  /\ \A w \in Actors : At(w, "casSuccess") => records[Ordinal(w)] = "SUCCEEDED"
  /\ \A k \in Ordinals : k < mission.ordinal => records[k] = "SUCCEEDED"

(* When moreover the store answers and an error means "not accepted", an   *)
(* action that a request may still send, or that none reserves, is unsent. *)
UnsentUntilCalled ==
  /\ \A k \in Ordinals : records[k] = "none" => accepted[k] = 0
  /\ \A w \in Actors : worker[w].pc \in {"budget", "call", "fail"} => accepted[Ordinal(w)] = 0
  /\ AcceptedOnce

(* Of the wake: no task and no intent is ahead of the document; a version  *)
(* that waits has an intent, is marked DISPATCHED only with a task on      *)
(* record, and that task is deleted only as in flight.                     *)
WakesOnRecord ==
  /\ \A t \in Task : tasks[t] # "unused" => t.version <= mission.version
  /\ \A v \in Versions : intents[v] # "none" => v <= mission.version
  /\ \A v \in Versions : intents[v] = "DISPATCHED" =>
       \E t \in Task : t.version = v /\ tasks[t] # "unused"
  /\ mission.state \in Runnable =>
       /\ intents[mission.version] \in {"PENDING", "DISPATCHED"}
       /\ \A t \in Task : t.version = mission.version => tasks[t] # "deleted"

(* A request works on the version of its task, marks a wake it has         *)
(* created, and ends its task only when the mission has moved past it.     *)
Working == Live \cup {"casRetry", "casDenied", "casBudget", "casStuck"}
Dispatching == {"create", "mark", "markFailed"}
Concluding == Dispatching \cup {"idle", "raiseBudget", "raiseRecovery", "notifyFailed", "ack"}
KeepsWake(request) ==
  /\ request.task.version <= mission.version
  /\ request.pc \in Dispatching => request.target \in Task /\ request.target.version <= mission.version
  /\ request.pc = "mark" => tasks[request.target] # "unused"
  /\ request.pc \in Working => request.item.version = request.task.version
  /\ request.pc \in Concluding =>
       request.task.version < mission.version \/ mission.state \notin Runnable

WakeInvariant == WakesOnRecord /\ \A w \in Actors : KeepsWake(worker[w])

RunnerInvariant ==
  /\ SnapshotsCurrent
  /\ ReceiptsBacked
  /\ RequestsWithinBudget
  /\ ExclusiveReservation
  /\ OrdinalBacked
  /\ SendsWithinBudget

-----------------------------------------------------------------------------
(* Liveness                                                                *)

(* The record of the mission's next action tells every later attempt that  *)
(* the action is in flight, and no request is left that could settle it.   *)
ActionHeld ==
  /\ records[mission.ordinal] \in {"RESERVED", "UNKNOWN"}
  /\ ~\E w \in Workers : InBroker(w) /\ Ordinal(w) = mission.ordinal

(* A runnable mission eventually leaves the runnable states, whatever      *)
(* single fault it meets, except that an action left RESERVED, or UNKNOWN  *)
(* after a provider timeout, holds it: ACTION_IN_FLIGHT is answered 200    *)
(* without a wake, although the architecture document says that the        *)
(* runtime recovers from timeouts and interrupted actions.                 *)
MissionSettles ==
  mission.state \in Runnable ~> (mission.state \notin Runnable \/ ActionHeld)

(* Every intent that is PENDING is eventually dispatched.                  *)
IntentsDispatched ==
  \A v \in Versions : intents[v] = "PENDING" ~> intents[v] # "PENDING"
=============================================================================
