------------------------ MODULE MissionRunnerProofs ------------------------
(***************************************************************************)
(* Theorems about MissionRunner, for any number of workers and             *)
(* reconcilers, any bounds and any kinds of fault.                         *)
(***************************************************************************)
EXTENDS MissionRunner, TLAPS

-----------------------------------------------------------------------------
(* Type correctness                                                        *)

(* The document an approval writes is well typed.                          *)
LEMMA ApprovedTyped == ApprovedMission \in Mission
PROOF
  BY VersionsAssumption DEF ApprovedMission, Mission, State, Runnable

LEMMA IdleTyped == Idle \in Request
PROOF
  BY ApprovedTyped DEF Idle, Request, PC

(* Every initial state is well typed.                                      *)
LEMMA InitTyped == Init => TypeOK
PROOF
  <1> SUFFICES ASSUME Init PROVE TypeOK
    OBVIOUS
  <1>1. mission \in Mission /\ wakeDue \in BOOLEAN /\ idleLong \in BOOLEAN /\ expired \in BOOLEAN
    BY ApprovedTyped DEF Init, StoreInit
  <1>2. intents \in [Versions -> {"none", "PENDING", "DISPATCHED", "HOLLOW"}]
    BY DEF Init, StoreInit
  <1>3. tasks \in [Task -> {"unused", "queued", "deleted", "inFlight"}]
    BY DEF Init, StoreInit
  <1>4. deliveries \in [Task -> 0..MaxDeliveries]
    BY DeliveryAssumption DEF Init, StoreInit
  <1>5. routed \in BOOLEAN /\ raised \subseteq Notice
    BY DEF Init, StoreInit
  <1>8. faults \in 0..MaxFaults
    BY FaultAssumption DEF Init, StoreInit
  <1>6. records \in [Ordinals -> {"none", "RESERVED", "UNKNOWN", "SUCCEEDED"}]
        /\ accepted \in [Ordinals -> Nat]
    BY DEF Init, RunnerInit
  <1>7. worker \in [Actors -> Request]
    BY IdleTyped DEF Init, RunnerInit
  <1> QED
    BY <1>1, <1>2, <1>3, <1>4, <1>5, <1>6, <1>7, <1>8 DEF TypeOK, StoreTypeOK
-----------------------------------------------------------------------------
(* How a request moves on: each of the four ways leaves it well typed and  *)
(* touches no other request.                                               *)

LEMMA GotoTyped ==
  ASSUME worker \in [Actors -> Request], NEW w \in Actors, NEW pc \in PC, Goto(w, pc)
  PROVE  worker' \in [Actors -> Request]
PROOF
  BY DEF Goto, Request

LEMMA DispatchTyped ==
  ASSUME worker \in [Actors -> Request], NEW w \in Actors, NEW t \in Task, Dispatch(w, t)
  PROVE  worker' \in [Actors -> Request]
PROOF
  BY IdleTyped DEF Dispatch, Idle, Request, PC

LEMMA FinishTyped ==
  ASSUME worker \in [Actors -> Request], NEW w \in Actors, Finish(w) \/ FinishInFlight(w)
  PROVE  worker' \in [Actors -> Request]
PROOF
  <1>1. ASSUME NEW t \in Task \cup {NoTask}, NEW pc \in Answering
        PROVE  [Idle EXCEPT !.pc = pc, !.task = t] \in Request
    BY IdleTyped DEF Idle, Request, PC
  <1>2. worker[w].task \in Task \cup {NoTask}
    BY DEF Request
  <1>3. \E pc \in Answering : worker' = [worker EXCEPT ![w] = [Idle EXCEPT !.pc = pc, !.task = worker[w].task]]
    BY DEF Finish, FinishInFlight, Answering
  <1> QED
    BY <1>1, <1>2, <1>3

LEMMA ReleaseTyped ==
  ASSUME worker \in [Actors -> Request], NEW w \in Actors, Release(w)
  PROVE  worker' \in [Actors -> Request]
PROOF
  BY IdleTyped DEF Release

(* A fault stays within the bound.                                         *)
LEMMA FaultTyped ==
  ASSUME faults \in 0..MaxFaults, NEW f, Fault(f)
  PROVE  faults' \in 0..MaxFaults
PROOF
  BY FaultAssumption DEF Fault

(* A committed compareAndSet leaves the document and the outbox well typed.*)
LEMMA CommitTyped ==
  ASSUME StoreTypeOK, NEW v, NEW next, NEW wake \in BOOLEAN,
         next.version \in Versions => next \in Mission,
         CompareAndSet(v, next, wake)
  PROVE  /\ mission' \in Mission
         /\ wakeDue' \in BOOLEAN /\ idleLong' \in BOOLEAN
         /\ intents' \in [Versions -> {"none", "PENDING", "DISPATCHED", "HOLLOW"}]
PROOF
  BY DEF CompareAndSet, VersionMatches, StoreTypeOK

-----------------------------------------------------------------------------
(* Every action preserves the type invariant.                              *)

LEMMA ReceiveTyped ==
  ASSUME TypeOK, NEW t \in Task, Receive(t), worker' \in [Actors -> Request]
  PROVE  TypeOK'
PROOF
  <1>1. faults' \in 0..MaxFaults
    BY FaultTyped DEF Receive, TypeOK, StoreTypeOK
  <1>2. deliveries' \in [Task -> 0..MaxDeliveries]
    BY DeliveryAssumption DEF Receive, TypeOK, StoreTypeOK
  <1> QED
    BY <1>1, <1>2 DEF Receive, TypeOK, StoreTypeOK, storeVars

LEMMA BeginTyped ==
  ASSUME TypeOK, NEW w \in Actors, NEW t \in Task, NEW request \in Request,
         Begin(w, t, request)
  PROVE  TypeOK'
PROOF
  <1>1. [request EXCEPT !.task = t] \in Request
    BY DEF Request
  <1>2. worker' \in [Actors -> Request]
    BY <1>1 DEF Begin, TypeOK
  <1> QED
    BY <1>2, ReceiveTyped DEF Begin

LEMMA DeliverTyped ==
  ASSUME TypeOK, NEW w \in Actors, NEW t \in Task, Deliver(w, t)
  PROVE  TypeOK'
PROOF
  <1>1. CASE DeliverStale(w, t)
    <2>1. Plain(mission.version) \in Task
      BY DEF Plain, Task, TypeOK, StoreTypeOK, Mission
    <2>2. /\ [Idle EXCEPT !.pc = "create", !.target = Plain(mission.version)] \in Request
          /\ [Idle EXCEPT !.pc = "ack"] \in Request
      BY <2>1, IdleTyped DEF Idle, Request, PC, Answering
    <2> QED
      BY <1>1, <2>2, BeginTyped DEF DeliverStale
  <1>2. ASSUME NEW pc \in PC PROVE ReadDocument(pc) \in Request
    BY IdleTyped DEF ReadDocument, Idle, Request, TypeOK, StoreTypeOK
  <1>3. CASE DeliverStuck(w, t)
    BY <1>2, <1>3, BeginTyped DEF DeliverStuck, PC
  <1>4. CASE DeliverEarly(w, t)
    BY <1>4, ReceiveTyped DEF DeliverEarly, TypeOK
  <1>5. CASE DeliverDue(w, t)
    <2>1. \E pc \in PC : Begin(w, t, ReadDocument(pc))
      BY <1>5 DEF DeliverDue, PC
    <2> QED
      BY <2>1, <1>2, BeginTyped
  <1> QED
    BY <1>1, <1>3, <1>4, <1>5 DEF Deliver

(* An action of the broker reads and writes the record of its own ordinal. *)
LEMMA BrokerTyped ==
  ASSUME TypeOK, NEW w \in Actors, Broker(w)
  PROVE  TypeOK'
PROOF
  <1> USE DEF TypeOK, StoreTypeOK
  <1> DEFINE Unfaulted == faults' \in 0..MaxFaults
             Unmoved == UNCHANGED <<mission, wakeDue, idleLong, intents, expired, tasks, deliveries, raised>>
             Moved == worker' \in [Actors -> Request]
             Recorded == records' \in [Ordinals -> {"none", "RESERVED", "UNKNOWN", "SUCCEEDED"}]
             Counted == accepted' \in [Ordinals -> Nat]
  <1>1. SUFFICES Unmoved /\ Unfaulted /\ Moved /\ Recorded /\ Counted /\ routed' \in BOOLEAN
    OBVIOUS
  <1>2. Unmoved
    BY DEF Broker, Reserve, Free, Finished, ReserveBudget, CallProvider, Succeed, MarkUnknown, Fail, SettleRecord,
           brokerUnchanged, storeVars, queueVars
  <1>3. Unfaulted
    BY FaultTyped DEF Broker, Reserve, Free, Finished, ReserveBudget, CallProvider, Succeed, MarkUnknown, Fail, SettleRecord
  <1>4. routed' \in BOOLEAN
    BY DEF Broker, Reserve, Free, Finished, ReserveBudget, CallProvider, Succeed, MarkUnknown, Fail, SettleRecord
  <1>5. Recorded
    BY DEF Broker, Reserve, Free, Finished, ReserveBudget, CallProvider, Succeed, MarkUnknown, Fail, SettleRecord
  <1>6. Counted
    BY DEF Broker, Reserve, Free, Finished, ReserveBudget, CallProvider, Succeed, MarkUnknown, Fail, SettleRecord
  <1>7. Moved
    <2>1. FinishInFlight(w) \/ \E pc \in PC : Goto(w, pc)
      BY DEF Broker, Reserve, Free, Finished, ReserveBudget, CallProvider, Succeed, MarkUnknown, Fail, SettleRecord, PC, Brokering
    <2> QED
      BY <2>1, FinishTyped, GotoTyped
  <1> QED
    BY <1>2, <1>3, <1>4, <1>5, <1>6, <1>7

(* The documents the runner publishes: one version on, and well typed.     *)
Published(item) ==
  {Advanced(item), Retrying(item), RecoveryExhausted(item), Denied(item),
   BudgetExhausted(item), Recovered(item)}

LEMMA PublishedTyped ==
  ASSUME NEW item \in Mission, NEW next \in Published(item)
  PROVE  /\ next.version = item.version + 1
         /\ next.version \in Versions => next \in Mission
         /\ next.ordinal \in {item.ordinal, item.ordinal + 1}
PROOF
  <1>0. item.ordinal + 1 \in Nat \ {0} /\ item.attempts + 1 \in Nat
    BY DEF Mission
  <1>1. /\ Advanced(item).version = item.version + 1
        /\ item.version + 1 \in Versions => Advanced(item) \in Mission
        /\ Advanced(item).ordinal \in {item.ordinal, item.ordinal + 1}
    BY <1>0 DEF Advanced, Mission, State, Runnable
  <1>2. /\ Retrying(item).version = item.version + 1
        /\ item.version + 1 \in Versions => Retrying(item) \in Mission
        /\ Retrying(item).ordinal \in {item.ordinal, item.ordinal + 1}
    BY <1>0 DEF Retrying, Mission, State, Runnable
  <1>3. /\ RecoveryExhausted(item).version = item.version + 1
        /\ item.version + 1 \in Versions => RecoveryExhausted(item) \in Mission
        /\ RecoveryExhausted(item).ordinal \in {item.ordinal, item.ordinal + 1}
    BY <1>0 DEF RecoveryExhausted, Mission, State
  <1>4. /\ Denied(item).version = item.version + 1
        /\ item.version + 1 \in Versions => Denied(item) \in Mission
        /\ Denied(item).ordinal \in {item.ordinal, item.ordinal + 1}
    BY DEF Denied, Mission, State, Terminal
  <1>5. /\ BudgetExhausted(item).version = item.version + 1
        /\ item.version + 1 \in Versions => BudgetExhausted(item) \in Mission
        /\ BudgetExhausted(item).ordinal \in {item.ordinal, item.ordinal + 1}
    BY DEF BudgetExhausted, Mission, State
  <1>6. /\ Recovered(item).version = item.version + 1
        /\ item.version + 1 \in Versions => Recovered(item) \in Mission
        /\ Recovered(item).ordinal \in {item.ordinal, item.ordinal + 1}
    BY DEF Recovered, Mission, State, Runnable
  <1> QED
    BY <1>1, <1>2, <1>3, <1>4, <1>5, <1>6 DEF Published

(* A step of the runner's own transactions commits one of those documents  *)
(* over the version the request read, or changes nothing; then the request *)
(* dispatches the new version's wake, moves on or ends.                    *)
Halting == {"casRetry", "raiseRecovery", "notifyFailed", "raiseBudget"}

MovesOn(w) ==
  \/ Release(w) \/ Finish(w) \/ \E pc \in Halting : Goto(w, pc)
  \/ DispatchWake(w) /\ worker[w].item.version + 1 \in Versions

Commits(w) ==
  \E next \in Published(worker[w].item), wake \in BOOLEAN :
    /\ CompareAndSet(worker[w].item.version, next, wake)
    /\ At(w, "casSuccess") \/ next.ordinal = worker[w].item.ordinal

LEMMA RunEffect ==
  ASSUME TypeOK, NEW w \in Actors, Run(w)
  PROVE  /\ UNCHANGED storeVars \/ Commits(w)
         /\ MovesOn(w)
         /\ UNCHANGED faults \/ \E f : Fault(f)
         /\ raised' \subseteq raised \cup Notice
         /\ UNCHANGED <<expired, queueVars, routed, records, accepted>>
PROOF
  <1> DEFINE item == worker[w].item
             Effect == /\ UNCHANGED storeVars \/ Commits(w)
                       /\ MovesOn(w)
                       /\ UNCHANGED faults \/ \E f : Fault(f)
                       /\ raised' \subseteq raised \cup Notice
                       /\ UNCHANGED <<expired, queueVars, routed, records, accepted>>
  <1>0. item \in Mission
    BY DEF TypeOK, Request
  <1>1. CASE PublishSuccess(w)
    <2>1. UNCHANGED storeVars \/ Commits(w)
      <3>1. UNCHANGED storeVars \/ CompareAndSet(item.version, Advanced(item), TRUE)
        BY <1>1 DEF PublishSuccess, Publish, Transact
      <3> QED
        BY <1>1, <3>1 DEF PublishSuccess, Commits, Published
    <2>2. MovesOn(w)
      <3>1. \/ Goto(w, "casRetry")
            \/ DispatchWake(w) /\ Advanced(item).version \in Versions
        BY <1>1 DEF PublishSuccess, Publish, Transact, CompareAndSet, VersionMatches
      <3> QED
        BY <3>1, <1>0, PublishedTyped DEF MovesOn, Published, Halting
    <2>3. UNCHANGED faults \/ \E f : Fault(f)
      BY <1>1 DEF PublishSuccess, Publish, Transact
    <2> QED
      BY <1>1, <2>1, <2>2, <2>3 DEF PublishSuccess, Publish
  <1>2. CASE PublishRetry(w)
    <2>1. UNCHANGED storeVars \/ Commits(w)
      <3>1. UNCHANGED storeVars \/ CompareAndSet(item.version, Retrying(item), TRUE)
        BY <1>2 DEF PublishRetry, Publish, Transact
      <3>2. Retrying(item).ordinal = item.ordinal
        BY <1>0 DEF Retrying, Mission
      <3> QED
        BY <3>1, <3>2 DEF Commits, Published
    <2>2. MovesOn(w)
      <3>1. Release(w) \/ (DispatchWake(w) /\ Retrying(item).version \in Versions)
        BY <1>2 DEF PublishRetry, Publish, Transact, CompareAndSet, VersionMatches
      <3> QED
        BY <3>1, <1>0, PublishedTyped DEF MovesOn, Published
    <2>3. UNCHANGED faults \/ \E f : Fault(f)
      BY <1>2 DEF PublishRetry, Publish, Transact
    <2> QED
      BY <1>2, <2>1, <2>2, <2>3 DEF PublishRetry, Publish
  <1>3. CASE PublishRecoveryExhausted(w)
    <2>1. UNCHANGED storeVars \/ Commits(w)
      <3>1. UNCHANGED storeVars \/ CompareAndSet(item.version, RecoveryExhausted(item), FALSE)
        BY <1>3 DEF PublishRecoveryExhausted, Publish, Transact
      <3>2. RecoveryExhausted(item).ordinal = item.ordinal
        BY <1>0 DEF RecoveryExhausted, Mission
      <3> QED
        BY <3>1, <3>2 DEF Commits, Published
    <2>2. MovesOn(w)
      BY <1>3 DEF PublishRecoveryExhausted, Publish, Transact, MovesOn, Halting
    <2>3. UNCHANGED faults \/ \E f : Fault(f)
      BY <1>3 DEF PublishRecoveryExhausted, Publish, Transact
    <2> QED
      BY <1>3, <2>1, <2>2, <2>3 DEF PublishRecoveryExhausted, Publish
  <1>4. CASE PublishDenied(w)
    <2>1. UNCHANGED storeVars \/ Commits(w)
      <3>1. UNCHANGED storeVars \/ CompareAndSet(item.version, Denied(item), FALSE)
        BY <1>4 DEF PublishDenied, Publish, Transact
      <3>2. Denied(item).ordinal = item.ordinal
        BY <1>0 DEF Denied, Mission
      <3> QED
        BY <3>1, <3>2 DEF Commits, Published
    <2>2. MovesOn(w)
      BY <1>4 DEF PublishDenied, Publish, Transact, MovesOn, Halting
    <2>3. UNCHANGED faults \/ \E f : Fault(f)
      BY <1>4 DEF PublishDenied, Publish, Transact
    <2> QED
      BY <1>4, <2>1, <2>2, <2>3 DEF PublishDenied, Publish
  <1>5. CASE PublishBudgetExhausted(w)
    <2>1. UNCHANGED storeVars \/ Commits(w)
      <3>1. UNCHANGED storeVars \/ CompareAndSet(item.version, BudgetExhausted(item), FALSE)
        BY <1>5 DEF PublishBudgetExhausted, Publish, Transact
      <3>2. BudgetExhausted(item).ordinal = item.ordinal
        BY <1>0 DEF BudgetExhausted, Mission
      <3> QED
        BY <3>1, <3>2 DEF Commits, Published
    <2>2. MovesOn(w)
      BY <1>5 DEF PublishBudgetExhausted, Publish, Transact, MovesOn, Halting
    <2>3. UNCHANGED faults \/ \E f : Fault(f)
      BY <1>5 DEF PublishBudgetExhausted, Publish, Transact
    <2> QED
      BY <1>5, <2>1, <2>2, <2>3 DEF PublishBudgetExhausted, Publish
  <1>6. CASE PublishRecovered(w)
    <2>1. UNCHANGED storeVars \/ Commits(w)
      <3>1. UNCHANGED storeVars \/ CompareAndSet(item.version, Recovered(item), TRUE)
        BY <1>6 DEF PublishRecovered, Publish, Transact
      <3>2. Recovered(item).ordinal = item.ordinal
        BY <1>0 DEF Recovered, Mission
      <3> QED
        BY <3>1, <3>2 DEF Commits, Published
    <2>2. MovesOn(w)
      <3>1. Release(w) \/ (DispatchWake(w) /\ Recovered(item).version \in Versions)
        BY <1>6 DEF PublishRecovered, Publish, Transact, CompareAndSet, VersionMatches
      <3> QED
        BY <3>1, <1>0, PublishedTyped DEF MovesOn, Published
    <2>3. UNCHANGED faults \/ \E f : Fault(f)
      BY <1>6 DEF PublishRecovered, Publish, Transact
    <2> QED
      BY <1>6, <2>1, <2>2, <2>3 DEF PublishRecovered, Publish
  <1>7. CASE Raise(w)
    <2>1. Finish(w) \/ Release(w)
      BY <1>7 DEF Raise
    <2>2. UNCHANGED faults \/ \E f : Fault(f)
      BY <1>7 DEF Raise
    <2>3. raised' \subseteq raised \cup Notice
      BY <1>7 DEF Raise, Notice
    <2> QED
      BY <1>7, <2>1, <2>2, <2>3 DEF Raise, MovesOn
  <1> QED
    BY <1>1, <1>2, <1>3, <1>4, <1>5, <1>6, <1>7 DEF Run

LEMMA MovesOnTyped ==
  ASSUME TypeOK, NEW w \in Actors, MovesOn(w)
  PROVE  worker' \in [Actors -> Request]
PROOF
  <1>1. CASE Release(w) \/ Finish(w)
    BY <1>1, ReleaseTyped, FinishTyped DEF TypeOK
  <1>2. CASE \E pc \in Halting : Goto(w, pc)
    BY <1>2, GotoTyped DEF TypeOK, Halting, PC
  <1>3. CASE DispatchWake(w) /\ worker[w].item.version + 1 \in Versions
    <2>1. Intent(worker[w].item.version + 1) \in Task
      BY <1>3 DEF Intent, Task
    <2> QED
      BY <1>3, <2>1, DispatchTyped DEF DispatchWake, TypeOK
  <1> QED
    BY <1>1, <1>2, <1>3 DEF MovesOn

LEMMA RunTyped ==
  ASSUME TypeOK, NEW w \in Actors, Run(w)
  PROVE  TypeOK'
PROOF
  <1>1. /\ mission' \in Mission
        /\ wakeDue' \in BOOLEAN /\ idleLong' \in BOOLEAN
        /\ intents' \in [Versions -> {"none", "PENDING", "DISPATCHED", "HOLLOW"}]
    <2>1. CASE UNCHANGED storeVars
      BY <2>1 DEF storeVars, TypeOK, StoreTypeOK
    <2>2. CASE Commits(w)
      <3>1. PICK next \in Published(worker[w].item), wake \in BOOLEAN :
              CompareAndSet(worker[w].item.version, next, wake)
        BY <2>2 DEF Commits
      <3>2. next.version \in Versions => next \in Mission
        BY PublishedTyped DEF TypeOK, Request
      <3> QED
        BY <3>1, <3>2, CommitTyped DEF TypeOK
    <2> QED
      BY <2>1, <2>2, RunEffect
  <1>2. worker' \in [Actors -> Request]
    BY RunEffect, MovesOnTyped
  <1>3. faults' \in 0..MaxFaults
    BY RunEffect, FaultTyped DEF TypeOK, StoreTypeOK
  <1>4. raised' \subseteq Notice
    BY RunEffect DEF TypeOK, StoreTypeOK
  <1> QED
    BY <1>1, <1>2, <1>3, <1>4, RunEffect DEF TypeOK, StoreTypeOK, queueVars

(* Dispatching a wake changes only the queue, its intent and the request.  *)
LEMMA ScheduleEffect ==
  ASSUME TypeOK, NEW w \in Actors, Schedule(w)
  PROVE  /\ tasks' \in [Task -> {"unused", "queued", "deleted", "inFlight"}]
         /\ intents' \in [Versions -> {"none", "PENDING", "DISPATCHED", "HOLLOW"}]
         /\ Release(w) \/ Finish(w) \/ \E pc \in {"mark", "markFailed"} : Goto(w, pc)
         /\ UNCHANGED faults \/ \E f : Fault(f)
         /\ UNCHANGED <<mission, clockVars, deliveries, routed, raised, records, accepted>>
PROOF
  <1>1. CASE CreateWake(w)
    BY <1>1 DEF CreateWake, ScheduleTask, CreateTask, TypeOK, StoreTypeOK, storeVars, clockVars
  <1>2. CASE MarkDispatched(w)
    BY <1>2 DEF MarkDispatched, RecordDispatched, MarkIntent, TypeOK, StoreTypeOK, clockVars, queueVars
  <1>3. CASE MarkFailed(w)
    BY <1>3 DEF MarkFailed, RecordFailed, MarkIntent, TypeOK, StoreTypeOK, clockVars, queueVars
  <1>4. CASE Acknowledge(w)
    BY <1>4 DEF Acknowledge, TypeOK, StoreTypeOK, storeVars, clockVars
  <1> QED
    BY <1>1, <1>2, <1>3, <1>4 DEF Schedule

LEMMA ScheduleTyped ==
  ASSUME TypeOK, NEW w \in Actors, Schedule(w)
  PROVE  TypeOK'
PROOF
  <1>1. worker' \in [Actors -> Request]
    BY ScheduleEffect, ReleaseTyped, FinishTyped, GotoTyped DEF TypeOK, PC
  <1>2. faults' \in 0..MaxFaults
    BY ScheduleEffect, FaultTyped DEF TypeOK, StoreTypeOK
  <1> QED
    BY <1>1, <1>2, ScheduleEffect DEF TypeOK, StoreTypeOK, clockVars

LEMMA NextTyped == TypeOK /\ [Next]_vars => TypeOK'
PROOF
  <1> SUFFICES ASSUME TypeOK, [Next]_vars PROVE TypeOK'
    OBVIOUS
  <1>1. ASSUME NEW w \in Workers, NEW t \in Task, Deliver(w, t) PROVE TypeOK'
    BY <1>1, DeliverTyped DEF Actors
  <1>2. ASSUME NEW w \in Actors, Step(w) PROVE TypeOK'
    BY <1>2, BrokerTyped, RunTyped, ScheduleTyped DEF Step
  <1>3. ASSUME NEW w \in Actors, Crash(w) PROVE TypeOK'
    <2>1. worker' \in [Actors -> Request]
      BY <1>3, ReleaseTyped DEF Crash, TypeOK
    <2>2. faults' \in 0..MaxFaults
      BY <1>3, FaultTyped DEF Crash, TypeOK, StoreTypeOK
    <2> QED
      BY <1>3, <2>1, <2>2 DEF Crash, TypeOK, StoreTypeOK, storeVars, queueVars
  <1>4. ASSUME NEW r \in Reconcilers, NEW v \in Versions, Reconcile(r, v) PROVE TypeOK'
    <2>1. Plain(v) \in Task
      BY DEF Plain, Task
    <2>2. worker' \in [Actors -> Request]
      BY <1>4, <2>1, DispatchTyped DEF Reconcile, TypeOK, Actors
    <2> QED
      BY <1>4, <2>2 DEF Reconcile, TypeOK, StoreTypeOK, sharedVars, storeVars, queueVars
  <1>5. CASE Tick /\ UNCHANGED runnerVars
    BY <1>5 DEF Tick, WakeTimeArrives, FiveMinutesPass, BoundaryExpires, runnerVars, storeVars,
                queueVars, TypeOK, StoreTypeOK
  <1>6. CASE UNCHANGED vars
    BY <1>6 DEF vars, sharedVars, storeVars, queueVars, runnerVars, TypeOK, StoreTypeOK
  <1>7. CASE ReplyStarts
    <2> DEFINE next == [mission EXCEPT !.state = "VERIFYING", !.version = @ + 1]
    <2>1. next.version \in Versions => next \in Mission
      BY DEF TypeOK, StoreTypeOK, Mission, State, InProgress
    <2>2. /\ mission' \in Mission
          /\ wakeDue' \in BOOLEAN /\ idleLong' \in BOOLEAN
          /\ intents' \in [Versions -> {"none", "PENDING", "DISPATCHED", "HOLLOW"}]
      BY <1>7, <2>1, CommitTyped DEF ReplyStarts, TypeOK
    <2>3. faults' \in 0..MaxFaults
      BY <1>7, FaultTyped DEF ReplyStarts, TypeOK, StoreTypeOK
    <2> QED
      BY <1>7, <2>2, <2>3 DEF ReplyStarts, TypeOK, StoreTypeOK, queueVars, runnerVars
  <1> QED
    BY <1>1, <1>2, <1>3, <1>4, <1>5, <1>6, <1>7 DEF Next

(* The runner's state is always well typed: no version, ordinal, record,   *)
(* delivery count or snapshot leaves its range.                            *)
THEOREM TypeCorrect == Spec => []TypeOK
PROOF
  <1> QED
    BY InitTyped, NextTyped, PTL DEF Spec

-----------------------------------------------------------------------------
(* The shapes of a step, as far as the invariants care.                    *)

(* Each request stays, rests, or goes on with what it read but not to a    *)
(* step that may send.                                                     *)
Calms ==
  \A x \in Actors :
    \/ worker'[x] = worker[x]
    \/ worker'[x].item \in {worker[x].item, ApprovedMission} /\ worker'[x].pc \notin Live

LEMMA RestCalms ==
  ASSUME TypeOK, NEW w \in Actors,
         Release(w) \/ Finish(w) \/ FinishInFlight(w) \/ \E t \in Task : Dispatch(w, t)
  PROVE  Calms
PROOF
  <1> DEFINE Rested(r) == r.item = ApprovedMission /\ r.pc \notin Live
  <1>1. Rested(Idle)
    BY DEF Idle, Live, Brokering
  <1>2. ASSUME NEW t, NEW pc \in Answering PROVE Rested([Idle EXCEPT !.pc = pc, !.task = t])
    BY DEF Idle, Live, Brokering, Answering
  <1>3. ASSUME NEW s, NEW t PROVE Rested([Idle EXCEPT !.pc = "create", !.task = s, !.target = t])
    BY DEF Idle, Live, Brokering
  <1>4. \E r : Rested(r) /\ worker' = [worker EXCEPT ![w] = r]
    BY <1>1, <1>2, <1>3 DEF Release, Finish, FinishInFlight, Dispatch, Answering
  <1> QED
    BY <1>4 DEF Calms, TypeOK

LEMMA GotoCalms ==
  ASSUME TypeOK, NEW w \in Actors, NEW pc, pc \notin Live, Goto(w, pc)
  PROVE  Calms
PROOF
  BY DEF Calms, Goto, TypeOK, Request

(* A reply gives the document a version of its own and leaves the ordinal. *)
Verifies ==
  mission'.version = mission.version + 1 /\ mission'.ordinal = mission.ordinal

(* Transactions, dispatches, crashes and time: no record and no acceptance *)
(* changes, and the document only by a commit.                             *)
LEMMA QuietStep ==
  ASSUME TypeOK,
         \/ \E w \in Actors : Run(w) \/ Schedule(w) \/ Crash(w)
         \/ \E r \in Reconcilers, v \in Versions : Reconcile(r, v)
         \/ ReplyStarts
         \/ Tick /\ UNCHANGED runnerVars
         \/ UNCHANGED vars
  PROVE  /\ Calms
         /\ UNCHANGED <<records, accepted>>
         /\ UNCHANGED mission \/ Verifies \/ \E w \in Actors : Commits(w)
PROOF
  <1>1. ASSUME NEW w \in Actors, Run(w)
        PROVE  /\ Calms
               /\ UNCHANGED <<records, accepted>>
               /\ UNCHANGED mission \/ Commits(w)
    <2>1. CASE Release(w) \/ Finish(w)
      BY <2>1, <1>1, RunEffect, RestCalms DEF storeVars
    <2>2. CASE \E pc \in Halting : Goto(w, pc)
      BY <2>2, <1>1, RunEffect, GotoCalms DEF storeVars, Halting, Live, Brokering
    <2>3. CASE DispatchWake(w) /\ worker[w].item.version + 1 \in Versions
      <3>1. \E t \in Task : Dispatch(w, t)
        BY <2>3 DEF DispatchWake, Intent, Task
      <3> QED
        BY <3>1, <1>1, RunEffect, RestCalms DEF storeVars
    <2> QED
      BY <1>1, <2>1, <2>2, <2>3, RunEffect DEF MovesOn
  <1>2. ASSUME NEW w \in Actors, Schedule(w)
        PROVE  Calms /\ UNCHANGED <<records, accepted, mission>>
    <2>1. CASE Release(w) \/ Finish(w)
      BY <2>1, <1>2, ScheduleEffect, RestCalms
    <2>2. CASE \E pc \in {"mark", "markFailed"} : Goto(w, pc)
      BY <2>2, <1>2, ScheduleEffect, GotoCalms DEF Live, Brokering
    <2> QED
      BY <1>2, <2>1, <2>2, ScheduleEffect
  <1>3. ASSUME NEW w \in Actors, Crash(w)
        PROVE  Calms /\ UNCHANGED <<records, accepted, mission>>
    BY <1>3, RestCalms DEF Crash, storeVars
  <1>4. ASSUME NEW r \in Reconcilers, NEW v \in Versions, Reconcile(r, v)
        PROVE  Calms /\ UNCHANGED <<records, accepted, mission>>
    <2>1. Plain(v) \in Task
      BY DEF Plain, Task
    <2> QED
      BY <1>4, <2>1, RestCalms DEF Reconcile, sharedVars, storeVars, Actors
  <1>5. CASE Tick /\ UNCHANGED runnerVars
    BY <1>5 DEF Tick, WakeTimeArrives, FiveMinutesPass, BoundaryExpires, storeVars, runnerVars, Calms
  <1>6. CASE UNCHANGED vars
    BY <1>6 DEF vars, sharedVars, storeVars, runnerVars, Calms
  <1>7. CASE ReplyStarts
    <2>1. Verifies
      BY <1>7 DEF ReplyStarts, CompareAndSet, Verifies, TypeOK, StoreTypeOK, Mission
    <2> QED
      BY <1>7, <2>1 DEF ReplyStarts, runnerVars, Calms
  <1> QED
    BY <1>1, <1>2, <1>3, <1>4, <1>5, <1>6, <1>7

(* A delivery only reads: the new request holds the current document and   *)
(* may send only within the budget.                                        *)
LEMMA DeliverStep ==
  ASSUME TypeOK, NEW w \in Workers, NEW t \in Task, Deliver(w, t)
  PROVE  /\ UNCHANGED <<mission, records, accepted>>
         /\ \A x \in Actors :
              \/ worker'[x] = worker[x]
              \/ worker'[x].item = ApprovedMission /\ worker'[x].pc \notin Live
              \/ /\ worker'[x].item = mission
                 /\ worker'[x].pc \in Live =>
                      worker'[x].pc = "reserve" /\ mission.ordinal <= MaxLogicalSends
PROOF
  <1> DEFINE Fresh(r) ==
        \/ r.item = ApprovedMission /\ r.pc \notin Live
        \/ /\ r.item = mission
           /\ r.pc \in Live => r.pc = "reserve" /\ mission.ordinal <= MaxLogicalSends
  <1>1. UNCHANGED <<mission, records, accepted>>
    BY DEF Deliver, DeliverStale, DeliverStuck, DeliverEarly, DeliverDue, Begin, Receive, storeVars
  <1>2. ASSUME NEW v PROVE Fresh([[Idle EXCEPT !.pc = "create", !.target = Plain(v)] EXCEPT !.task = t])
    BY DEF Idle, Live, Brokering
  <1>3. Fresh([[Idle EXCEPT !.pc = "ack"] EXCEPT !.task = t])
    BY DEF Idle, Live, Brokering
  <1>4. ASSUME NEW pc, pc \in Live => pc = "reserve" /\ mission.ordinal <= MaxLogicalSends
        PROVE  Fresh([ReadDocument(pc) EXCEPT !.task = t])
    <2>1. /\ [ReadDocument(pc) EXCEPT !.task = t].item = mission
          /\ [ReadDocument(pc) EXCEPT !.task = t].pc = pc
      BY DEF ReadDocument, Idle
    <2> QED
      BY <1>4, <2>1
  <1>5. mission.ordinal \in Nat
    BY DEF TypeOK, StoreTypeOK, Mission
  <1>6. worker' = worker \/ \E r : Fresh(r) /\ worker' = [worker EXCEPT ![w] = r]
    <2>1. CASE DeliverStale(w, t)
      BY <2>1, <1>2, <1>3 DEF DeliverStale, Begin
    <2>2. CASE DeliverStuck(w, t)
      <3>1. "casStuck" \notin Live
        BY DEF Live, Brokering
      <3> QED
        BY <2>2, <3>1, <1>4 DEF DeliverStuck, Begin
    <2>3. CASE DeliverEarly(w, t)
      BY <2>3 DEF DeliverEarly
    <2>4. CASE DeliverDue(w, t)
      <3>1. "casBudget" \notin Live /\ "casDenied" \notin Live
        BY DEF Live, Brokering
      <3>2. mission.ordinal > MaxLogicalSends \/ mission.ordinal <= MaxLogicalSends
        BY <1>5, RunnerAssumption
      <3> QED
        BY <2>4, <3>1, <3>2, <1>4 DEF DeliverDue, BudgetSpent, Begin
    <2> QED
      BY <2>1, <2>2, <2>3, <2>4 DEF Deliver
  <1> QED
    BY <1>1, <1>6 DEF TypeOK

-----------------------------------------------------------------------------
(* The invariant that explains the runner's safety: what holds initially.  *)
LEMMA InitInvariant == Init => RunnerInvariant
PROOF
  <1> SUFFICES ASSUME Init PROVE RunnerInvariant
    OBVIOUS
  <1>1. /\ mission = ApprovedMission
        /\ \A w \in Actors : worker[w] = Idle
        /\ \A k \in Ordinals : records[k] = "none" /\ accepted[k] = 0
    BY DEF Init, StoreInit, RunnerInit
  <1>2. Idle.item = ApprovedMission /\ Idle.pc = "idle"
    BY DEF Idle
  <1>3. SnapshotsCurrent
    BY <1>1, <1>2 DEF SnapshotsCurrent, Ordinal, ApprovedMission
  <1>4. ReceiptsBacked
    BY <1>1, <1>2 DEF ReceiptsBacked
  <1>5. RequestsWithinBudget
    BY <1>1, <1>2, RunnerAssumption
       DEF RequestsWithinBudget, Live, Brokering, Ordinals, ApprovedMission
  <1>6. ExclusiveReservation
    BY <1>1, <1>2 DEF ExclusiveReservation, InBroker, Brokering
  <1>7. OrdinalBacked /\ SendsWithinBudget
    BY <1>1 DEF OrdinalBacked, SendsWithinBudget, Ordinals, ApprovedMission
  <1> QED
    BY <1>3, <1>4, <1>5, <1>6, <1>7 DEF RunnerInvariant

(* How the document may move in one step: not at all, or to its next       *)
(* version, whose ordinal is one higher only if the action of the old one  *)
(* was accepted and within the budget.                                     *)
Moves ==
  \/ UNCHANGED mission
  \/ /\ mission'.version = mission.version + 1
     /\ \/ mission'.ordinal = mission.ordinal
        \/ /\ mission'.ordinal = mission.ordinal + 1
           /\ accepted[mission.ordinal] > 0
           /\ mission.ordinal <= MaxLogicalSends

LEMMA CommitMoves ==
  ASSUME TypeOK, RunnerInvariant, NEW w \in Actors, Commits(w)
  PROVE  Moves
PROOF
  <1>1. PICK next \in Published(worker[w].item), wake \in BOOLEAN :
          /\ CompareAndSet(worker[w].item.version, next, wake)
          /\ At(w, "casSuccess") \/ next.ordinal = worker[w].item.ordinal
    BY DEF Commits
  <1>2. mission' = next /\ worker[w].item = mission
    BY <1>1 DEF CompareAndSet, VersionMatches, RunnerInvariant, SnapshotsCurrent
  <1>3. /\ next.version = mission.version + 1
        /\ next.ordinal \in {mission.ordinal, mission.ordinal + 1}
    BY <1>2, PublishedTyped DEF TypeOK, StoreTypeOK
  <1>4. CASE At(w, "casSuccess")
    BY <1>2, <1>3, <1>4
       DEF Moves, At, RunnerInvariant, ReceiptsBacked, RequestsWithinBudget, Live, Ordinal
  <1>5. CASE next.ordinal = worker[w].item.ordinal
    BY <1>2, <1>3, <1>5 DEF Moves
  <1> QED
    BY <1>1, <1>4, <1>5

(* Snapshots stay current as long as requests only keep what they read,    *)
(* read the current document, or forget it.                                *)
LEMMA SnapshotsKept ==
  ASSUME TypeOK, TypeOK', SnapshotsCurrent, Moves,
         \A x \in Actors : worker'[x].item \in {worker[x].item, ApprovedMission, mission}
  PROVE  SnapshotsCurrent'
PROOF
  <1>1. /\ mission.version \in Nat \ {0} /\ mission.ordinal \in Nat \ {0}
        /\ mission'.version \in Nat /\ mission'.ordinal \in Nat
    BY VersionsAssumption DEF TypeOK, StoreTypeOK, Mission
  <1>2. ASSUME NEW x \in Actors
        PROVE  worker[x].item.version \in Nat /\ Ordinal(x) \in Nat
    BY VersionsAssumption DEF TypeOK, Request, Mission, Ordinal
  <1>3. ApprovedMission.version = 1 /\ ApprovedMission.ordinal = 1
    BY DEF ApprovedMission
  <1>4. ASSUME NEW x \in Actors
        PROVE  /\ worker'[x].item.version <= mission.version
               /\ worker'[x].item.version = mission.version => worker'[x].item = mission
               /\ worker'[x].item.ordinal <= mission.ordinal
    BY <1>1, <1>2, <1>3 DEF SnapshotsCurrent, Ordinal
  <1>5. ASSUME NEW x \in Actors
        PROVE  worker'[x].item.version \in Nat /\ worker'[x].item.ordinal \in Nat
    BY VersionsAssumption DEF TypeOK, Request, Mission
  <1>6. CASE UNCHANGED mission
    BY <1>4, <1>6 DEF SnapshotsCurrent, Ordinal
  <1>7. CASE /\ mission'.version = mission.version + 1
             /\ mission'.ordinal \in {mission.ordinal, mission.ordinal + 1}
    BY <1>1, <1>4, <1>5, <1>7 DEF SnapshotsCurrent, Ordinal
  <1> QED
    BY <1>6, <1>7 DEF Moves

-----------------------------------------------------------------------------
(* Transactions, dispatches, crashes and time preserve the invariant.      *)
LEMMA QuietInvariant ==
  ASSUME TypeOK, TypeOK', RunnerInvariant, Calms, Moves, UNCHANGED <<records, accepted>>
  PROVE  RunnerInvariant'
PROOF
  <1>1. SnapshotsCurrent'
    BY SnapshotsKept DEF Calms, RunnerInvariant
  <1>2. ASSUME NEW x \in Actors, worker'[x].pc \in Live
        PROVE  worker'[x] = worker[x]
    BY <1>2 DEF Calms
  <1>3. ReceiptsBacked'
    BY <1>2 DEF RunnerInvariant, ReceiptsBacked, Ordinal, Live, Brokering
  <1>4. RequestsWithinBudget'
    <2>1. mission'.ordinal \in Ordinals
      BY RunnerAssumption DEF Moves, RunnerInvariant, RequestsWithinBudget, Ordinals, TypeOK,
                              StoreTypeOK, Mission
    <2> QED
      BY <1>2, <2>1 DEF RunnerInvariant, RequestsWithinBudget, Ordinal
  <1>5. ExclusiveReservation'
    BY <1>2 DEF RunnerInvariant, ExclusiveReservation, InBroker, Ordinal, Live
  <1>6. OrdinalBacked'
    <2>1. mission.ordinal \in Nat
      BY DEF TypeOK, StoreTypeOK, Mission
    <2>2. \A k \in Ordinals : k < mission'.ordinal => k < mission.ordinal \/ accepted[k] > 0
      BY <2>1 DEF Moves, Ordinals
    <2> QED
      BY <2>2 DEF RunnerInvariant, OrdinalBacked
  <1>7. SendsWithinBudget'
    BY DEF RunnerInvariant, SendsWithinBudget
  <1> QED
    BY <1>1, <1>3, <1>4, <1>5, <1>6, <1>7 DEF RunnerInvariant

(* So does a delivery.                                                     *)
LEMMA DeliverInvariant ==
  ASSUME TypeOK, TypeOK', RunnerInvariant, NEW w \in Workers, NEW t \in Task, Deliver(w, t)
  PROVE  RunnerInvariant'
PROOF
  <1>1. UNCHANGED <<mission, records, accepted>>
    BY DeliverStep
  <1>2. ASSUME NEW x \in Actors
        PROVE  \/ worker'[x] = worker[x]
               \/ worker'[x].item = ApprovedMission /\ worker'[x].pc \notin Live
               \/ /\ worker'[x].item = mission
                  /\ worker'[x].pc \in Live =>
                       worker'[x].pc = "reserve" /\ mission.ordinal <= MaxLogicalSends
    BY DeliverStep
  <1>3. SnapshotsCurrent'
    BY <1>1, <1>2, SnapshotsKept DEF Moves, RunnerInvariant
  <1>4. ASSUME NEW x \in Actors, worker'[x].pc \in Brokering \cup {"casSuccess"}
        PROVE  worker'[x] = worker[x]
    BY <1>2, <1>4 DEF Live, Brokering
  <1>5. ReceiptsBacked'
    BY <1>1, <1>4 DEF RunnerInvariant, ReceiptsBacked, Ordinal, Brokering
  <1>6. RequestsWithinBudget'
    BY <1>1, <1>2 DEF RunnerInvariant, RequestsWithinBudget, Ordinal
  <1>7. ExclusiveReservation'
    BY <1>1, <1>4 DEF RunnerInvariant, ExclusiveReservation, InBroker, Ordinal
  <1>8. OrdinalBacked' /\ SendsWithinBudget'
    BY <1>1 DEF RunnerInvariant, OrdinalBacked, SendsWithinBudget
  <1> QED
    BY <1>3, <1>5, <1>6, <1>7, <1>8 DEF RunnerInvariant

(* A request that may still send names an action within the budget.        *)
LEMMA LiveOrdinal ==
  ASSUME TypeOK, RunnerInvariant, NEW x \in Actors, worker[x].pc \in Live
  PROVE  Ordinal(x) \in Ordinals
PROOF
  <1>1. Ordinal(x) \in Nat \ {0}
    BY DEF TypeOK, Request, Mission, Ordinal
  <1> QED
    BY <1>1, RunnerAssumption DEF RunnerInvariant, RequestsWithinBudget, Ordinals

(* A step of the broker: only the record and the count of the request's    *)
(* own action change, and a count only grows.                              *)
LEMMA BrokerStep ==
  ASSUME TypeOK, RunnerInvariant, NEW w \in Actors, Broker(w)
  PROVE  /\ UNCHANGED mission
         /\ worker[w].pc \in Live /\ Ordinal(w) \in Ordinals
         /\ FinishInFlight(w) \/ \E pc \in PC : Goto(w, pc)
         /\ \A k \in Ordinals :
              /\ k # Ordinal(w) => records'[k] = records[k] /\ accepted'[k] = accepted[k]
              /\ accepted[k] > 0 => accepted'[k] > 0
PROOF
  <1>1. UNCHANGED mission
    BY DEF Broker, Reserve, Free, Finished, ReserveBudget, CallProvider, Succeed, MarkUnknown, Fail, SettleRecord,
           brokerUnchanged, storeVars
  <1>2. worker[w].pc \in Live
    BY DEF Broker, Reserve, Free, Finished, ReserveBudget, CallProvider, Succeed, MarkUnknown, Fail, SettleRecord, At, Live,
           Brokering
  <1>3. Ordinal(w) \in Ordinals
    BY <1>2, LiveOrdinal
  <1>4. FinishInFlight(w) \/ \E pc \in PC : Goto(w, pc)
    BY DEF Broker, Reserve, Free, Finished, ReserveBudget, CallProvider, Succeed, MarkUnknown, Fail, SettleRecord, PC, Brokering
  <1>5. ASSUME NEW k \in Ordinals, k # Ordinal(w)
        PROVE  records'[k] = records[k] /\ accepted'[k] = accepted[k]
    BY <1>5 DEF Broker, Reserve, Free, Finished, ReserveBudget, CallProvider, Succeed, MarkUnknown, Fail, SettleRecord, TypeOK,
                Ordinal
  <1>6. ASSUME NEW k \in Ordinals, accepted[k] > 0
        PROVE  accepted'[k] > 0
    <2>1. accepted[k] \in Nat
      BY DEF TypeOK
    <2> QED
      BY <1>6, <2>1 DEF Broker, Reserve, Free, Finished, ReserveBudget, CallProvider, Succeed, MarkUnknown, Fail, SettleRecord,
                        TypeOK
  <1> QED
    BY <1>1, <1>2, <1>3, <1>4, <1>5, <1>6

(* Where a step of the broker leaves its request, and the record of its    *)
(* action: a request enters the broker only by reserving a free action,    *)
(* and the reservation exists as long as it is inside.                     *)
LEMMA BrokerRequest ==
  ASSUME TypeOK, RunnerInvariant, NEW w \in Actors, Broker(w)
  PROVE  LET k == Ordinal(w) IN
         /\ worker'[w].item = worker[w].item \/ worker'[w].item = ApprovedMission
         /\ worker'[w].pc \in Live => worker'[w].item = worker[w].item
         /\ worker'[w].pc \in {"succeed", "casSuccess"} => accepted'[k] > 0
         /\ records'[k] = "SUCCEEDED" => accepted'[k] > 0
         /\ worker'[w].pc \in Brokering => records'[k] # "none"
         /\ worker'[w].pc \in Brokering /\ ~InBroker(w) => records[k] = "none"
         /\ ~InBroker(w) /\ records[k] # "none" => records'[k] # "none"
PROOF
  <1> DEFINE k == Ordinal(w)
             A(pc) == worker'[w].pc = pc /\ worker'[w].item = worker[w].item
  <1>1. k \in Ordinals /\ k = worker[w].item.ordinal
    BY BrokerStep DEF Ordinal
  <1>2. ASSUME NEW pc \in PC, Goto(w, pc) PROVE A(pc)
    BY <1>2 DEF Goto, TypeOK, Request
  <1>3. ASSUME FinishInFlight(w) PROVE worker'[w].pc \notin Live /\ worker'[w].item = ApprovedMission
    BY <1>3 DEF FinishInFlight, Idle, TypeOK, Live, Brokering
  <1>4. accepted[k] \in Nat
    BY <1>1 DEF TypeOK
  <1>5. records[k] = "SUCCEEDED" => accepted[k] > 0
    BY <1>1 DEF RunnerInvariant, ReceiptsBacked
  <1>6. worker[w].pc \in {"succeed", "casSuccess"} => accepted[k] > 0
    BY DEF RunnerInvariant, ReceiptsBacked
  <1>7. InBroker(w) => records[k] # "none"
    BY DEF RunnerInvariant, ExclusiveReservation
  <1> HIDE DEF k
  <1>8. CASE Reserve(w)
    <2>1. ~InBroker(w)
      BY <1>8 DEF Reserve, Free, Finished, At, InBroker, Brokering
    <2>2. records'[k] = records[k] \/ (records[k] = "none" /\ records'[k] = "RESERVED")
      BY <1>1, <1>8 DEF Reserve, Free, Finished, TypeOK
    <2>3. \/ A("budget") /\ records[k] = "none" /\ records'[k] = "RESERVED"
          \/ A("casSuccess") /\ records[k] = "SUCCEEDED"
          \/ worker'[w].pc \notin Live /\ worker'[w].item = ApprovedMission
          \/ A("casRetry")
      BY <1>1, <1>2, <1>3, <1>8 DEF Reserve, Free, Finished, TypeOK, PC, Brokering
    <2>4. accepted'[k] = accepted[k]
      BY <1>8 DEF Reserve, Free, Finished
    <2> QED
      BY <2>1, <2>2, <2>3, <2>4, <1>4, <1>5 DEF k, Live, Brokering
  <1>9. CASE ReserveBudget(w)
    <2>1. A("call") \/ A("fail")
      BY <1>2, <1>9 DEF ReserveBudget, PC, Brokering
    <2>2. InBroker(w) /\ UNCHANGED <<records, accepted>>
      BY <1>9 DEF ReserveBudget, At, InBroker, Brokering
    <2> QED
      BY <2>1, <2>2, <1>5, <1>7 DEF k
  <1>10. CASE CallProvider(w)
    <2>1. \/ A("succeed") /\ accepted'[k] = accepted[k] + 1
          \/ A("fail") \/ A("markUnknown")
      BY <1>1, <1>2, <1>10 DEF CallProvider, PC, Brokering, TypeOK
    <2>2. InBroker(w) /\ UNCHANGED records
      BY <1>10 DEF CallProvider, At, InBroker, Brokering
    <2>3. accepted[k] > 0 => accepted'[k] > 0
      BY <1>1, BrokerStep
    <2> QED
      BY <2>1, <2>2, <2>3, <1>4, <1>5, <1>7 DEF k
  <1>11. CASE Succeed(w)
    <2>1. A("casSuccess") \/ A("fail")
      BY <1>2, <1>11 DEF Succeed, PC, Brokering
    <2>2. InBroker(w) /\ accepted[k] > 0 /\ UNCHANGED accepted
      BY <1>6, <1>11 DEF Succeed, At, InBroker, Brokering
    <2>3. records'[k] # "none"
      BY <1>1, <1>7, <1>11, <2>2 DEF Succeed, TypeOK
    <2> QED
      BY <2>1, <2>2, <2>3 DEF k
  <1>12. CASE MarkUnknown(w) \/ Fail(w)
    <2>1. A("casRetry")
      BY <1>2, <1>12 DEF MarkUnknown, Fail, SettleRecord, PC
    <2>2. InBroker(w) /\ UNCHANGED accepted
      BY <1>12 DEF MarkUnknown, Fail, SettleRecord, At, InBroker, Brokering
    <2>3. records'[k] \in {records[k], "UNKNOWN", "none"}
      BY <1>1, <1>12 DEF MarkUnknown, Fail, SettleRecord, TypeOK
    <2> QED
      BY <2>1, <2>2, <2>3, <1>5 DEF k, Live, Brokering
  <1> QED
    BY <1>8, <1>9, <1>10, <1>11, <1>12 DEF Broker

(* And so does a step of the broker preserve the invariant.                *)
LEMMA BrokerInvariant ==
  ASSUME TypeOK, TypeOK', RunnerInvariant, NEW w \in Actors, Broker(w)
  PROVE  RunnerInvariant'
PROOF
  <1> DEFINE k == Ordinal(w)
  <1>1. UNCHANGED mission /\ k \in Ordinals /\ worker[w].pc \in Live
    BY BrokerStep
  <1>2. \A x \in Actors : x # w => worker'[x] = worker[x]
    BY BrokerStep DEF Goto, FinishInFlight, TypeOK
  <1>3. \A j \in Ordinals :
          /\ j # k => records'[j] = records[j] /\ accepted'[j] = accepted[j]
          /\ accepted[j] > 0 => accepted'[j] > 0
    BY BrokerStep
  <1>4. /\ worker'[w].item = worker[w].item \/ worker'[w].item = ApprovedMission
        /\ worker'[w].pc \in Live => worker'[w].item = worker[w].item
        /\ worker'[w].pc \in {"succeed", "casSuccess"} => accepted'[k] > 0
        /\ records'[k] = "SUCCEEDED" => accepted'[k] > 0
        /\ worker'[w].pc \in Brokering => records'[k] # "none"
        /\ worker'[w].pc \in Brokering /\ ~InBroker(w) => records[k] = "none"
        /\ ~InBroker(w) /\ records[k] # "none" => records'[k] # "none"
    BY BrokerRequest
  <1>5. ASSUME NEW x \in Actors, worker[x].pc \in Live
        PROVE  Ordinal(x) \in Ordinals
    BY <1>5, LiveOrdinal
  <1>6. SnapshotsCurrent'
    BY <1>1, <1>2, <1>4, SnapshotsKept DEF Moves, RunnerInvariant
  <1>7. ReceiptsBacked'
    <2>1. \A j \in Ordinals : records'[j] = "SUCCEEDED" => accepted'[j] > 0
      BY <1>3, <1>4 DEF RunnerInvariant, ReceiptsBacked
    <2>2. ASSUME NEW x \in Actors, worker'[x].pc \in {"succeed", "casSuccess"}
          PROVE  accepted'[worker'[x].item.ordinal] > 0
      <3>1. CASE x = w
        BY <3>1, <2>2, <1>4 DEF Ordinal, Live, Brokering
      <3>2. CASE x # w
        BY <3>2, <2>2, <1>2, <1>3, <1>5 DEF RunnerInvariant, ReceiptsBacked, Ordinal, Live, Brokering
      <3> QED
        BY <3>1, <3>2
    <2> QED
      BY <2>1, <2>2 DEF ReceiptsBacked, Ordinal
  <1>8. RequestsWithinBudget'
    BY <1>1, <1>2, <1>4 DEF RunnerInvariant, RequestsWithinBudget, Ordinal
  <1>9. ExclusiveReservation'
    <2> SUFFICES ASSUME NEW x \in Actors, worker'[x].pc \in Brokering
                 PROVE  /\ records'[worker'[x].item.ordinal] # "none"
                        /\ \A y \in Actors : /\ worker'[y].pc \in Brokering
                                              /\ worker'[y].item.ordinal = worker'[x].item.ordinal
                                              => y = x
      BY DEF ExclusiveReservation, InBroker, Ordinal
    <2>1. ASSUME NEW y \in Actors, worker'[y].pc \in Brokering
          PROVE  /\ worker'[y].item = worker[y].item
                 /\ y # w => InBroker(y)
                 /\ y = w => worker[y].item.ordinal = k
      BY <2>1, <1>2, <1>4 DEF InBroker, Live, Ordinal
    <2>2. ASSUME NEW y \in Actors, y # w, InBroker(y), Ordinal(y) = k
          PROVE  ~InBroker(w) /\ records[k] # "none"
      BY <2>2 DEF RunnerInvariant, ExclusiveReservation
    <2>3. records'[worker'[x].item.ordinal] # "none"
      <3>1. CASE x = w
        BY <3>1, <2>1, <1>4
      <3>2. CASE x # w /\ Ordinal(x) = k
        BY <3>2, <2>1, <2>2, <1>4 DEF Ordinal
      <3>3. CASE x # w /\ Ordinal(x) # k
        <4>1. InBroker(x) /\ Ordinal(x) \in Ordinals
          BY <3>3, <2>1, <1>5 DEF InBroker, Live
        <4> QED
          BY <3>3, <4>1, <2>1, <1>3 DEF RunnerInvariant, ExclusiveReservation, Ordinal
      <3> QED
        BY <3>1, <3>2, <3>3
    <2>4. ASSUME NEW y \in Actors, worker'[y].pc \in Brokering,
                 worker'[y].item.ordinal = worker'[x].item.ordinal, y # x
          PROVE  FALSE
      <3>1. CASE x # w /\ y # w
        BY <3>1, <2>1, <2>4 DEF RunnerInvariant, ExclusiveReservation, Ordinal
      <3>2. CASE x = w
        BY <3>2, <2>1, <2>2, <2>4, <1>4 DEF Ordinal
      <3>3. CASE y = w
        BY <3>3, <2>1, <2>2, <2>4, <1>4 DEF Ordinal
      <3> QED
        BY <3>1, <3>2, <3>3
    <2> QED
      BY <2>3, <2>4
  <1>10. OrdinalBacked'
    BY <1>1, <1>3 DEF RunnerInvariant, OrdinalBacked
  <1>11. SendsWithinBudget'
    <2>1. k <= MaxLogicalSends
      BY <1>1 DEF RunnerInvariant, RequestsWithinBudget
    <2> QED
      BY <2>1, <1>3 DEF RunnerInvariant, SendsWithinBudget
  <1> QED
    BY <1>6, <1>7, <1>8, <1>9, <1>10, <1>11 DEF RunnerInvariant

LEMMA NextInvariant == TypeOK /\ TypeOK' /\ RunnerInvariant /\ [Next]_vars => RunnerInvariant'
PROOF
  <1> SUFFICES ASSUME TypeOK, TypeOK', RunnerInvariant, [Next]_vars PROVE RunnerInvariant'
    OBVIOUS
  <1>1. ASSUME NEW w \in Workers, NEW t \in Task, Deliver(w, t) PROVE RunnerInvariant'
    BY <1>1, DeliverInvariant
  <1>2. ASSUME NEW w \in Actors, Broker(w) PROVE RunnerInvariant'
    BY <1>2, BrokerInvariant
  <1>3. CASE \/ \E w \in Actors : Run(w) \/ Schedule(w) \/ Crash(w)
             \/ \E r \in Reconcilers, v \in Versions : Reconcile(r, v)
             \/ ReplyStarts
             \/ Tick /\ UNCHANGED runnerVars
             \/ UNCHANGED vars
    <2>1. Calms /\ UNCHANGED <<records, accepted>>
      BY <1>3, QuietStep
    <2>2. Moves
      BY <1>3, QuietStep, CommitMoves DEF Moves, Verifies
    <2> QED
      BY <2>1, <2>2, QuietInvariant
  <1> QED
    BY <1>1, <1>2, <1>3 DEF Next, Step

(* RunnerInvariant holds in every reachable state.                         *)
THEOREM InvariantCorrect == Spec => []RunnerInvariant
PROOF
  <1> QED
    BY InitInvariant, NextInvariant, TypeCorrect, PTL DEF Spec

(* However tasks are repeated, requests crash and calls fail, at most one  *)
(* request at a time is between reserving an action and recording its      *)
(* result.                                                                 *)
THEOREM ExclusiveReservationHolds == Spec => []ExclusiveReservation
PROOF
  <1>1. RunnerInvariant => ExclusiveReservation
    BY DEF RunnerInvariant
  <1> QED
    BY <1>1, InvariantCorrect, PTL

(* The ordinal never moves past an action that was not accepted: no        *)
(* follow-up is ever skipped.                                              *)
THEOREM OrdinalBackedHolds == Spec => []OrdinalBacked
PROOF
  <1>1. RunnerInvariant => OrdinalBacked
    BY DEF RunnerInvariant
  <1> QED
    BY <1>1, InvariantCorrect, PTL

(* No action beyond the approved number of sends is ever accepted.         *)
THEOREM SendsWithinBudgetHolds == Spec => []SendsWithinBudget
PROOF
  <1>1. RunnerInvariant => SendsWithinBudget
    BY DEF RunnerInvariant
  <1> QED
    BY <1>1, InvariantCorrect, PTL

-----------------------------------------------------------------------------
(* A worker reads the document of an active mission only, and moves it     *)
(* from an active state only: a request that meets a mission that is over  *)
(* or halted ends at once.                                                 *)
Active == Runnable \cup InProgress
ActiveItems == \A w \in Actors : worker[w].item.state \in Active

Works ==
  \/ UNCHANGED mission
  \/ /\ mission'.version = mission.version + 1
     /\ mission.state \in Active /\ mission'.state # "DONE"
     /\ mission'.revoked = mission.revoked

LEMMA PublishedOpen ==
  ASSUME NEW item \in Mission, NEW next \in Published(item)
  PROVE  next.state # "DONE" /\ next.state # "VERIFYING" /\ next.revoked = item.revoked
PROOF
  <1>1. /\ Advanced(item).state = "WAITING_EXTERNAL" /\ Advanced(item).revoked = item.revoked
        /\ Retrying(item).state = "WAITING_RETRY" /\ Retrying(item).revoked = item.revoked
        /\ Denied(item).state = "FAILED" /\ Denied(item).revoked = item.revoked
    BY DEF Mission, Advanced, Retrying, Denied
  <1>2. /\ RecoveryExhausted(item).state = "NEEDS_ATTENTION" /\ RecoveryExhausted(item).revoked = item.revoked
        /\ BudgetExhausted(item).state = "NEEDS_ATTENTION" /\ BudgetExhausted(item).revoked = item.revoked
    BY DEF Mission, RecoveryExhausted, BudgetExhausted
  <1>3. Recovered(item).state \in {"WAITING_EXTERNAL", "WAITING_RETRY"} /\ Recovered(item).revoked = item.revoked
    BY DEF Mission, Recovered
  <1> QED
    BY <1>1, <1>2, <1>3 DEF Published

LEMMA CommitWorks ==
  ASSUME TypeOK, RunnerInvariant, ActiveItems, NEW w \in Actors, Commits(w)
  PROVE  Works
PROOF
  <1>1. worker[w].item \in Mission
    BY DEF TypeOK, Request
  <1>2. PICK next \in Published(worker[w].item), wake \in BOOLEAN :
          CompareAndSet(worker[w].item.version, next, wake)
    BY DEF Commits
  <1>3. mission' = next /\ worker[w].item = mission
    BY <1>2 DEF CompareAndSet, VersionMatches, RunnerInvariant, SnapshotsCurrent
  <1>4. mission.state \in Active
    BY <1>3 DEF ActiveItems
  <1> QED
    BY <1>1, <1>2, <1>3, <1>4, PublishedTyped, PublishedOpen DEF Works

LEMMA NextWorks ==
  ASSUME TypeOK, RunnerInvariant, ActiveItems, Next
  PROVE  Works
PROOF
  <1>1. ASSUME NEW w \in Workers, NEW t \in Task, Deliver(w, t) PROVE Works
    BY <1>1, DeliverStep DEF Works
  <1>2. ASSUME NEW w \in Actors, Broker(w) PROVE Works
    BY <1>2, BrokerStep DEF Works
  <1>3. ASSUME NEW w \in Actors, Run(w) PROVE Works
    BY <1>3, RunEffect, CommitWorks DEF Works, storeVars
  <1>4. ASSUME NEW w \in Actors, Schedule(w) PROVE Works
    BY <1>4, ScheduleEffect DEF Works
  <1>5. CASE ReplyStarts
    <2>1. /\ mission \in Mission /\ mission.state \in Active
          /\ mission' = [mission EXCEPT !.state = "VERIFYING", !.version = @ + 1]
      BY <1>5 DEF ReplyStarts, CompareAndSet, Active, Runnable, InProgress, TypeOK, StoreTypeOK
    <2>2. /\ mission'.version = mission.version + 1 /\ mission'.state = "VERIFYING"
          /\ mission'.revoked = mission.revoked
      BY <2>1 DEF Mission
    <2> QED
      BY <2>1, <2>2 DEF Works
  <1>6. CASE \/ \E w \in Actors : Crash(w)
             \/ \E c \in Reconcilers, v \in Versions : Reconcile(c, v)
             \/ Tick /\ UNCHANGED runnerVars
    BY <1>6 DEF Works, Crash, Reconcile, Tick, WakeTimeArrives, FiveMinutesPass, BoundaryExpires,
                sharedVars, storeVars
  <1> QED
    BY <1>1, <1>2, <1>3, <1>4, <1>5, <1>6 DEF Next, Step

(* Where no reply is abandoned, no step of the workers moves the mission   *)
(* to VERIFYING; and the reply route is only ever added.                   *)
LEMMA NextVerifiesNothing ==
  ASSUME TypeOK, RunnerInvariant, Next, "reply" \notin Faults
  PROVE  /\ UNCHANGED mission \/ mission'.state # "VERIFYING"
         /\ UNCHANGED routed \/ routed'
PROOF
  <1> DEFINE Goal == /\ UNCHANGED mission \/ mission'.state # "VERIFYING"
                     /\ UNCHANGED routed \/ routed'
  <1>1. ASSUME NEW w \in Workers, NEW t \in Task, Deliver(w, t) PROVE Goal
    BY <1>1 DEF Deliver, DeliverStale, DeliverStuck, DeliverEarly, DeliverDue, Begin, Receive, storeVars
  <1>2. ASSUME NEW w \in Actors, Broker(w) PROVE Goal
    <2>1. UNCHANGED mission
      BY <1>2, BrokerStep
    <2>2. UNCHANGED routed \/ routed'
      BY <1>2 DEF Broker, Reserve, Free, Finished, ReserveBudget, CallProvider, Succeed, MarkUnknown, Fail, SettleRecord
    <2> QED
      BY <2>1, <2>2
  <1>3. ASSUME NEW w \in Actors, Run(w) PROVE Goal
    <2>1. UNCHANGED mission \/ mission'.state # "VERIFYING"
      <3>1. CASE Commits(w)
        <4>1. PICK next \in Published(worker[w].item), wake \in BOOLEAN :
                CompareAndSet(worker[w].item.version, next, wake)
          BY <3>1 DEF Commits
        <4>2. worker[w].item \in Mission
          BY DEF TypeOK, Request
        <4> QED
          BY <4>1, <4>2, PublishedOpen DEF CompareAndSet
      <3> QED
        BY <1>3, <3>1, RunEffect DEF storeVars
    <2> QED
      BY <1>3, <2>1, RunEffect
  <1>4. ASSUME NEW w \in Actors, Schedule(w) PROVE Goal
    BY <1>4, ScheduleEffect
  <1>5. ~ReplyStarts
    BY DEF ReplyStarts, Fault
  <1>6. CASE \/ \E w \in Actors : Crash(w)
             \/ \E c \in Reconcilers, v \in Versions : Reconcile(c, v)
             \/ Tick /\ UNCHANGED runnerVars
    BY <1>6 DEF Crash, Reconcile, Tick, WakeTimeArrives, FiveMinutesPass, BoundaryExpires,
                sharedVars, storeVars
  <1> QED
    BY <1>1, <1>2, <1>3, <1>4, <1>5, <1>6 DEF Next, Step

LEMMA NextReads ==
  ASSUME TypeOK, RunnerInvariant, Next
  PROVE  \A x \in Actors :
           \/ worker'[x].item \in {worker[x].item, ApprovedMission}
           \/ worker'[x].item = mission /\ mission.state \in Active
PROOF
  <1> DEFINE Reads(x) == \/ worker'[x].item \in {worker[x].item, ApprovedMission}
                         \/ worker'[x].item = mission /\ mission.state \in Active
  <1> SUFFICES ASSUME NEW x \in Actors PROVE Reads(x)
    OBVIOUS
  <1>1. ASSUME NEW w \in Workers, NEW t \in Task, Deliver(w, t) PROVE Reads(x)
    <2>1. CASE mission.state \in Active
      BY <1>1, <2>1, DeliverStep
    <2>2. CASE mission.state \notin Active
      <3>1. DeliverStale(w, t)
        BY <1>1, <2>2 DEF Deliver, DeliverStuck, DeliverEarly, DeliverDue, IsStale, IsStuck, Active
      <3>2. ASSUME NEW target
            PROVE  [[Idle EXCEPT !.pc = "create", !.target = target] EXCEPT !.task = t].item = ApprovedMission
        BY DEF Idle
      <3>3. [[Idle EXCEPT !.pc = "ack"] EXCEPT !.task = t].item = ApprovedMission
        BY DEF Idle
      <3>4. \E request : request.item = ApprovedMission /\ worker' = [worker EXCEPT ![w] = request]
        BY <3>1, <3>2, <3>3 DEF DeliverStale, Begin
      <3> QED
        BY <3>4 DEF TypeOK
    <2> QED
      BY <2>1, <2>2
  <1>2. ASSUME NEW w \in Actors, Broker(w) PROVE Reads(x)
    <2>1. x = w => Reads(x)
      BY <1>2, BrokerRequest
    <2>2. x # w => worker'[x] = worker[x]
      BY <1>2, BrokerStep DEF TypeOK, FinishInFlight, Goto
    <2> QED
      BY <2>1, <2>2
  <1>3. CASE \/ \E w \in Actors : Run(w) \/ Schedule(w) \/ Crash(w)
             \/ \E c \in Reconcilers, v \in Versions : Reconcile(c, v)
             \/ ReplyStarts
             \/ Tick /\ UNCHANGED runnerVars
    BY <1>3, QuietStep DEF Calms
  <1> QED
    BY <1>1, <1>2, <1>3 DEF Next, Step

LEMMA NextActiveItems ==
  ASSUME TypeOK, RunnerInvariant, ActiveItems, Next
  PROVE  ActiveItems'
PROOF
  <1>1. ApprovedMission.state \in Active
    BY DEF ApprovedMission, Active, Runnable
  <1> QED
    BY <1>1, NextReads DEF ActiveItems

-----------------------------------------------------------------------------
(* Refinement: every step of the runner performs one action of the ledger, *)
(* advances it, or leaves it alone.                                        *)
LEMMA InitLedger == Init => Ledger!Init
PROOF
  BY DEF Init, StoreInit, RunnerInit, ApprovedMission, Ledger!Init

(* A step that only moves the document advances the ledger or stutters.    *)
LEMMA MovesLedger ==
  ASSUME TypeOK, RunnerInvariant, Moves, UNCHANGED accepted
  PROVE  [Ledger!Next]_(Ledger!vars)
PROOF
  <1>1. CASE mission'.ordinal = mission.ordinal
    BY <1>1 DEF Ledger!vars
  <1>2. CASE mission'.ordinal = mission.ordinal + 1 /\ accepted[mission.ordinal] > 0
    BY <1>2 DEF Ledger!Next, Ledger!Advance, RunnerInvariant, RequestsWithinBudget
  <1> QED
    BY <1>1, <1>2 DEF Moves

(* A step of the broker performs the action the mission stands at: a       *)
(* request that is behind can only repeat an action already in the ledger. *)
LEMMA BrokerLedger ==
  ASSUME TypeOK, RunnerInvariant, NEW w \in Actors, Broker(w)
  PROVE  [Ledger!Next]_(Ledger!vars)
PROOF
  <1> DEFINE k == Ordinal(w)
             done == {j \in Ordinals : accepted[j] > 0}
  <1>1. /\ UNCHANGED mission
        /\ k \in Ordinals /\ worker[w].pc \in Live
        /\ \A j \in Ordinals : /\ j # k => accepted'[j] = accepted[j]
                               /\ accepted[j] > 0 => accepted'[j] > 0
    BY BrokerStep
  <1>2. done' = done \/ (k \notin done /\ done' = done \cup {k})
    BY <1>1
  <1>3. k \notin done => mission.ordinal = k
    <2>1. k <= mission.ordinal /\ mission.ordinal \in Nat /\ k \in Nat
      BY <1>1 DEF RunnerInvariant, SnapshotsCurrent, TypeOK, StoreTypeOK, Mission, Ordinals
    <2>2. k \notin done => ~(k < mission.ordinal)
      BY <1>1 DEF RunnerInvariant, OrdinalBacked, TypeOK
    <2> QED
      BY <2>1, <2>2
  <1>4. k <= MaxLogicalSends
    BY <1>1 DEF RunnerInvariant, RequestsWithinBudget
  <1>5. CASE done' = done
    BY <1>1, <1>5 DEF Ledger!vars
  <1>6. CASE k \notin done /\ done' = done \cup {k}
    BY <1>1, <1>3, <1>4, <1>6 DEF Ledger!Next, Ledger!Perform
  <1> QED
    BY <1>2, <1>5, <1>6

LEMMA NextLedger ==
  TypeOK /\ RunnerInvariant /\ [Next]_vars => [Ledger!Next]_(Ledger!vars)
PROOF
  <1> SUFFICES ASSUME TypeOK, RunnerInvariant, [Next]_vars
               PROVE  [Ledger!Next]_(Ledger!vars)
    OBVIOUS
  <1>1. ASSUME NEW w \in Workers, NEW t \in Task, Deliver(w, t)
        PROVE  [Ledger!Next]_(Ledger!vars)
    BY <1>1, DeliverStep, MovesLedger DEF Moves
  <1>2. ASSUME NEW w \in Actors, Broker(w) PROVE [Ledger!Next]_(Ledger!vars)
    BY <1>2, BrokerLedger
  <1>3. CASE \/ \E w \in Actors : Run(w) \/ Schedule(w) \/ Crash(w)
             \/ \E r \in Reconcilers, v \in Versions : Reconcile(r, v)
             \/ ReplyStarts
             \/ Tick /\ UNCHANGED runnerVars
             \/ UNCHANGED vars
    <2>1. UNCHANGED accepted
      BY <1>3, QuietStep
    <2>2. Moves
      BY <1>3, QuietStep, CommitMoves DEF Moves, Verifies
    <2> QED
      BY <2>1, <2>2, MovesLedger
  <1> QED
    BY <1>1, <1>2, <1>3 DEF Next, Step

(* The runner implements the ledger of logical actions: they are performed *)
(* in order, none is skipped and none is beyond the approved number.       *)
THEOREM RunnerImplementsLedger == Spec => ImplementsLedger
PROOF
  <1> QED
    BY InitLedger, NextLedger, TypeCorrect, InvariantCorrect, PTL
       DEF Spec, ImplementsLedger, Ledger!Spec

-----------------------------------------------------------------------------
(* When no answer of a committed write is lost                             *)

(* Only the broker gives a request a receipt, or lets it send.             *)
LEMMA OthersRest ==
  ASSUME TypeOK, RunnerInvariant, [Next]_vars, ~\E w \in Actors : Broker(w)
  PROVE  /\ UNCHANGED <<records, accepted>>
         /\ \A x \in Actors : worker'[x].pc \in Brokering \cup {"casSuccess"} => worker'[x] = worker[x]
         /\ mission'.ordinal = mission.ordinal
            \/ \E w \in Actors : /\ At(w, "casSuccess") /\ Ordinal(w) = mission.ordinal
                                  /\ mission'.ordinal = mission.ordinal + 1
PROOF
  <1>1. ASSUME NEW w \in Workers, NEW t \in Task, Deliver(w, t)
        PROVE  /\ UNCHANGED <<mission, records, accepted>>
               /\ \A x \in Actors : worker'[x].pc \in Brokering \cup {"casSuccess"} => worker'[x] = worker[x]
    BY <1>1, DeliverStep DEF Live, Brokering
  <1>2. CASE \/ \E w \in Actors : Run(w) \/ Schedule(w) \/ Crash(w)
             \/ \E r \in Reconcilers, v \in Versions : Reconcile(r, v)
             \/ ReplyStarts
             \/ Tick /\ UNCHANGED runnerVars
             \/ UNCHANGED vars
    <2>1. /\ Calms
          /\ UNCHANGED <<records, accepted>>
          /\ UNCHANGED mission \/ Verifies \/ \E w \in Actors : Commits(w)
      BY <1>2, QuietStep
    <2>2. ASSUME NEW w \in Actors, Commits(w)
          PROVE  \/ mission'.ordinal = mission.ordinal
                 \/ /\ At(w, "casSuccess") /\ Ordinal(w) = mission.ordinal
                    /\ mission'.ordinal = mission.ordinal + 1
      <3>1. PICK next \in Published(worker[w].item), wake \in BOOLEAN :
              /\ CompareAndSet(worker[w].item.version, next, wake)
              /\ At(w, "casSuccess") \/ next.ordinal = worker[w].item.ordinal
        BY <2>2 DEF Commits
      <3>2. mission' = next /\ worker[w].item = mission
        BY <3>1 DEF CompareAndSet, VersionMatches, RunnerInvariant, SnapshotsCurrent
      <3>3. next.ordinal \in {mission.ordinal, mission.ordinal + 1}
        BY <3>2, PublishedTyped DEF TypeOK, StoreTypeOK
      <3> QED
        BY <3>1, <3>2, <3>3 DEF Ordinal
    <2> QED
      BY <2>1, <2>2 DEF Calms, Live, Verifies
  <1> QED
    BY <1>1, <1>2 DEF Next, Step

(* No step takes an acceptance back.                                       *)
LEMMA NextCounts ==
  ASSUME TypeOK, RunnerInvariant, [Next]_vars
  PROVE  \A k \in Ordinals : accepted[k] > 0 => accepted'[k] > 0
PROOF
  <1>1. CASE ~\E w \in Actors : Broker(w)
    BY <1>1, OthersRest
  <1>2. ASSUME NEW w \in Actors, Broker(w)
        PROVE  \A k \in Ordinals : accepted[k] > 0 => accepted'[k] > 0
    BY <1>2, BrokerStep
  <1> QED
    BY <1>1, <1>2

(* Where a step of the broker leaves the record of its action.             *)
LEMMA BrokerSettles ==
  ASSUME "lostAck" \notin Faults,
         TypeOK, RunnerInvariant, RecordsSettled, NEW w \in Actors, Broker(w)
  PROVE  LET k == Ordinal(w) IN
         /\ records[k] = "SUCCEEDED" => records'[k] = "SUCCEEDED"
         /\ worker'[w].pc \in Brokering => records'[k] = "RESERVED"
         /\ worker'[w].pc = "casSuccess" => records'[k] = "SUCCEEDED"
PROOF
  <1> DEFINE k == Ordinal(w)
             Settles == /\ records[k] = "SUCCEEDED" => records'[k] = "SUCCEEDED"
                        /\ worker'[w].pc \in Brokering => records'[k] = "RESERVED"
                        /\ worker'[w].pc = "casSuccess" => records'[k] = "SUCCEEDED"
  <1>0. SUFFICES Settles
    OBVIOUS
  <1>1. /\ k \in Ordinals /\ k = worker[w].item.ordinal
        /\ records[k] \in {"none", "RESERVED", "UNKNOWN", "SUCCEEDED"}
    BY BrokerStep DEF Ordinal, TypeOK
  <1>2. ASSUME NEW pc, Goto(w, pc) PROVE worker'[w].pc = pc
    BY <1>2 DEF Goto, TypeOK, Request
  <1>3. FinishInFlight(w) => worker'[w].pc = "inFlight"
    BY DEF FinishInFlight, Idle, TypeOK
  <1>4. ~Fault("lostAck")
    BY DEF Fault
  <1>5. InBroker(w) => records[k] = "RESERVED"
    BY DEF RecordsSettled
  <1> HIDE DEF k
  <1>6. CASE Reserve(w)
    <2>1. \/ worker'[w].pc = "budget" /\ records'[k] = "RESERVED" /\ records[k] = "none"
          \/ worker'[w].pc = "casSuccess" /\ records'[k] = "SUCCEEDED"
          \/ worker'[w].pc \in {"inFlight", "casRetry"} /\ records'[k] = records[k]
      BY <1>1, <1>2, <1>3, <1>4, <1>6 DEF Reserve, Free, Finished, TypeOK
    <2> QED
      BY <2>1 DEF Brokering
  <1>7. CASE ReserveBudget(w) \/ CallProvider(w)
    <2>1. InBroker(w) /\ UNCHANGED records
      BY <1>7 DEF ReserveBudget, CallProvider, At, InBroker, Brokering
    <2>2. worker'[w].pc \in Brokering
      BY <1>2, <1>7 DEF ReserveBudget, CallProvider, Brokering
    <2> QED
      BY <2>1, <2>2, <1>5 DEF Brokering
  <1>8. CASE Succeed(w)
    <2>1. InBroker(w)
      BY <1>8 DEF Succeed, At, InBroker, Brokering
    <2>2. \/ worker'[w].pc = "casSuccess" /\ records'[k] = "SUCCEEDED"
          \/ worker'[w].pc = "fail" /\ records'[k] = records[k]
      BY <1>1, <1>2, <1>4, <1>8 DEF Succeed, TypeOK
    <2> QED
      BY <2>1, <2>2, <1>5 DEF Brokering
  <1>9. CASE MarkUnknown(w) \/ Fail(w)
    <2>1. InBroker(w)
      BY <1>9 DEF MarkUnknown, Fail, SettleRecord, At, InBroker, Brokering
    <2>2. worker'[w].pc = "casRetry"
      BY <1>2, <1>9 DEF MarkUnknown, Fail, SettleRecord
    <2> QED
      BY <2>1, <2>2, <1>5 DEF Brokering
  <1> QED
    BY <1>6, <1>7, <1>8, <1>9 DEF Broker

LEMMA NextSettled ==
  ASSUME "lostAck" \notin Faults
  PROVE  TypeOK /\ RunnerInvariant /\ RecordsSettled /\ [Next]_vars => RecordsSettled'
PROOF
  <1> SUFFICES ASSUME TypeOK, RunnerInvariant, RecordsSettled, [Next]_vars
               PROVE  RecordsSettled'
    OBVIOUS
  <1>0. mission.ordinal \in Nat
    BY DEF TypeOK, StoreTypeOK, Mission
  <1>1. CASE ~\E w \in Actors : Broker(w)
    <2>1. /\ UNCHANGED <<records, accepted>>
          /\ \A x \in Actors : worker'[x].pc \in Brokering \cup {"casSuccess"} => worker'[x] = worker[x]
      BY <1>1, OthersRest
    <2>2. \A k \in Ordinals : k < mission'.ordinal => records[k] = "SUCCEEDED"
      <3>1. CASE mission'.ordinal = mission.ordinal
        BY <3>1 DEF RecordsSettled
      <3>2. CASE \E w \in Actors : /\ At(w, "casSuccess") /\ Ordinal(w) = mission.ordinal
                                   /\ mission'.ordinal = mission.ordinal + 1
        <4>1. \A k \in Ordinals : k < mission'.ordinal => k < mission.ordinal \/ k = mission.ordinal
          BY <3>2, <1>0 DEF Ordinals
        <4> QED
          BY <3>2, <4>1 DEF RecordsSettled
      <3> QED
        BY <1>1, <3>1, <3>2, OthersRest
    <2> QED
      BY <2>1, <2>2 DEF RecordsSettled, InBroker, At, Ordinal
  <1>2. ASSUME NEW w \in Actors, Broker(w) PROVE RecordsSettled'
    <2> DEFINE k == Ordinal(w)
    <2>1. /\ UNCHANGED mission
          /\ FinishInFlight(w) \/ \E pc \in PC : Goto(w, pc)
          /\ \A j \in Ordinals : j # k => records'[j] = records[j]
      BY <1>2, BrokerStep
    <2>2. /\ records[k] = "SUCCEEDED" => records'[k] = "SUCCEEDED"
          /\ worker'[w].pc \in Brokering => records'[k] = "RESERVED"
          /\ worker'[w].pc = "casSuccess" => records'[k] = "SUCCEEDED"
      BY <1>2, BrokerSettles
    <2>3. /\ \A x \in Actors : x # w => worker'[x] = worker[x]
          /\ worker'[w].pc \in Brokering \cup {"casSuccess"} => worker'[w].item = worker[w].item
      BY <1>2, <2>1, BrokerRequest DEF Goto, FinishInFlight, TypeOK, Live
    <2>4. ASSUME NEW x \in Actors, x # w, InBroker(x) \/ At(x, "casSuccess")
          PROVE  /\ InBroker(x) => records'[Ordinal(x)] = "RESERVED"
                 /\ At(x, "casSuccess") => records'[Ordinal(x)] = "SUCCEEDED"
      <3>1. Ordinal(x) \in Ordinals
        BY <2>4, LiveOrdinal DEF InBroker, At, Live
      <3>2. CASE Ordinal(x) # k
        BY <2>1, <2>4, <3>1, <3>2 DEF RecordsSettled
      <3>3. CASE Ordinal(x) = k /\ InBroker(x)
        <4>1. records[k] = "RESERVED" /\ ~InBroker(w)
          BY <2>4, <3>3 DEF RecordsSettled, RunnerInvariant, ExclusiveReservation
        <4>2. Reserve(w)
          BY <1>2, <4>1 DEF Broker, ReserveBudget, CallProvider, Succeed, MarkUnknown, Fail, SettleRecord,
                            InBroker, Brokering, At
        <4>3. UNCHANGED records
          BY <4>1, <4>2 DEF Reserve, Free, Finished, Ordinal
        <4>4. ~At(x, "casSuccess")
          BY <3>3 DEF InBroker, At, Brokering
        <4> QED
          BY <3>3, <4>1, <4>3, <4>4
      <3>4. CASE Ordinal(x) = k /\ At(x, "casSuccess")
        BY <2>2, <3>4 DEF RecordsSettled, At, InBroker, Brokering
      <3> QED
        BY <2>4, <3>2, <3>3, <3>4
    <2>5. \A j \in Ordinals : j < mission.ordinal => records'[j] = "SUCCEEDED"
      BY <2>1, <2>2 DEF RecordsSettled
    <2>6. ASSUME NEW x \in Actors
          PROVE  /\ worker'[x].pc \in Brokering => records'[worker'[x].item.ordinal] = "RESERVED"
                 /\ worker'[x].pc = "casSuccess" => records'[worker'[x].item.ordinal] = "SUCCEEDED"
      <3>1. CASE x = w
        BY <2>2, <2>3, <3>1 DEF Ordinal
      <3>2. CASE x # w
        BY <2>3, <2>4, <3>2 DEF Ordinal, InBroker, At
      <3> QED
        BY <3>1, <3>2
    <2> QED
      BY <2>1, <2>5, <2>6 DEF RecordsSettled, InBroker, At, Ordinal
  <1> QED
    BY <1>1, <1>2

LEMMA InitSettled == Init => RecordsSettled
PROOF
  BY DEF Init, StoreInit, RunnerInit, Idle, ApprovedMission, RecordsSettled, InBroker, Brokering,
         At, Ordinals

LEMMA NextNotLate ==
  ASSUME "lostAck" \notin Faults, TypeOK, RunnerInvariant, RecordsSettled, [Next]_vars
  PROVE  \A k \in Ordinals : accepted'[k] # accepted[k] => mission.ordinal = k
PROOF
  <1>1. CASE ~\E w \in Actors : Broker(w)
    BY <1>1, OthersRest
  <1>2. ASSUME NEW w \in Actors, Broker(w), NEW k \in Ordinals, accepted'[k] # accepted[k]
        PROVE  mission.ordinal = k
    <2>1. k = Ordinal(w)
      BY <1>2, BrokerStep
    <2>2. InBroker(w)
      BY <1>2 DEF Broker, Reserve, Free, Finished, ReserveBudget, CallProvider, Succeed, MarkUnknown, Fail, SettleRecord, At,
                  InBroker, Brokering
    <2>3. k <= mission.ordinal /\ ~(k < mission.ordinal)
      BY <2>1, <2>2 DEF RecordsSettled, RunnerInvariant, SnapshotsCurrent
    <2> QED
      BY <2>3 DEF Ordinals, TypeOK, StoreTypeOK, Mission
  <1> QED
    BY <1>1, <1>2

(* As long as no answer of a committed write is lost, no request calls the *)
(* provider for an action the mission has moved past.                      *)
THEOREM NoLateCallHolds ==
  ASSUME "lostAck" \notin Faults
  PROVE  Spec => NoLateCall
PROOF
  <1> DEFINE Late == \A k \in Ordinals : accepted'[k] # accepted[k] => mission.ordinal = k
  <1>1. TypeOK /\ RunnerInvariant /\ RecordsSettled /\ [Next]_vars => [Late]_vars
    BY NextNotLate
  <1>2. Spec => []RecordsSettled
    BY InitSettled, NextSettled, TypeCorrect, InvariantCorrect, PTL DEF Spec
  <1> QED
    BY <1>1, <1>2, TypeCorrect, InvariantCorrect, PTL DEF Spec, NoLateCall

-----------------------------------------------------------------------------
(* When moreover the store answers and an error means "not accepted"       *)

(* Where a step of the broker leaves the count of its action.              *)
LEMMA BrokerOnce ==
  ASSUME Faults \cap {"lostAck", "storeError", "malformed"} = {},
         TypeOK, RunnerInvariant, RecordsSettled, UnsentUntilCalled, NEW w \in Actors, Broker(w)
  PROVE  LET k == Ordinal(w) IN
         /\ accepted'[k] <= 1
         /\ records'[k] = "none" => accepted'[k] = 0
         /\ worker'[w].pc \in {"budget", "call", "fail"} => accepted'[k] = 0
PROOF
  <1> DEFINE k == Ordinal(w)
             Once == /\ accepted'[k] <= 1
                     /\ records'[k] = "none" => accepted'[k] = 0
                     /\ worker'[w].pc \in {"budget", "call", "fail"} => accepted'[k] = 0
  <1>0. SUFFICES Once
    OBVIOUS
  <1>1. k \in Ordinals /\ k = worker[w].item.ordinal
    BY BrokerStep DEF Ordinal
  <1>2. ASSUME NEW pc, Goto(w, pc) PROVE worker'[w].pc = pc
    BY <1>2 DEF Goto, TypeOK, Request
  <1>3. FinishInFlight(w) => worker'[w].pc = "inFlight"
    BY DEF FinishInFlight, Idle, TypeOK
  <1>4. ~Fault("lostAck") /\ ~Fault("storeError") /\ ~Fault("malformed")
    BY DEF Fault
  <1>5. /\ accepted[k] \in Nat /\ accepted[k] <= 1
        /\ records[k] = "none" => accepted[k] = 0
        /\ worker[w].pc \in {"budget", "call", "fail"} => accepted[k] = 0
        /\ InBroker(w) => records[k] = "RESERVED"
    BY <1>1 DEF UnsentUntilCalled, AcceptedOnce, TypeOK, RecordsSettled
  <1> HIDE DEF k
  <1>6. CASE Reserve(w)
    <2>1. /\ \/ worker'[w].pc = "budget" /\ records[k] = "none"
             \/ worker'[w].pc \in {"inFlight", "casSuccess"}
          /\ records'[k] = "none" => records[k] = "none"
          /\ UNCHANGED accepted
      BY <1>1, <1>2, <1>3, <1>4, <1>6 DEF Reserve, Free, Finished, TypeOK
    <2> QED
      BY <2>1, <1>5
  <1>7. CASE ReserveBudget(w)
    BY <1>5, <1>7 DEF ReserveBudget, At
  <1>8. CASE CallProvider(w)
    <2>1. accepted[k] = 0 /\ records[k] = "RESERVED"
      BY <1>5, <1>8 DEF CallProvider, At, InBroker, Brokering
    <2>2. /\ accepted'[k] \in {0, 1} /\ UNCHANGED records
          /\ \/ worker'[w].pc \in {"succeed", "markUnknown"}
             \/ worker'[w].pc = "fail" /\ accepted'[k] = 0
      BY <1>1, <1>2, <1>4, <1>8, <2>1 DEF CallProvider, TypeOK
    <2> QED
      BY <2>1, <2>2
  <1>9. CASE Succeed(w)
    <2>1. worker'[w].pc = "casSuccess" /\ records'[k] = "SUCCEEDED" /\ UNCHANGED accepted
      BY <1>1, <1>2, <1>4, <1>9 DEF Succeed, TypeOK
    <2> QED
      BY <2>1, <1>5
  <1>10. CASE MarkUnknown(w)
    <2>1. worker'[w].pc = "casRetry" /\ records'[k] = "UNKNOWN" /\ UNCHANGED accepted
      BY <1>1, <1>2, <1>4, <1>10 DEF MarkUnknown, SettleRecord, TypeOK
    <2> QED
      BY <2>1, <1>5
  <1>11. CASE Fail(w)
    <2>1. worker'[w].pc = "casRetry" /\ accepted[k] = 0 /\ UNCHANGED accepted
      BY <1>2, <1>5, <1>11 DEF Fail, SettleRecord, At
    <2> QED
      BY <2>1
  <1> QED
    BY <1>6, <1>7, <1>8, <1>9, <1>10, <1>11 DEF Broker

LEMMA NextOnce ==
  ASSUME Faults \cap {"lostAck", "storeError", "malformed"} = {}
  PROVE  TypeOK /\ RunnerInvariant /\ RecordsSettled /\ UnsentUntilCalled /\ [Next]_vars
           => UnsentUntilCalled'
PROOF
  <1> SUFFICES ASSUME TypeOK, RunnerInvariant, RecordsSettled, UnsentUntilCalled, [Next]_vars
               PROVE  UnsentUntilCalled'
    OBVIOUS
  <1>1. CASE ~\E w \in Actors : Broker(w)
    <2>1. /\ UNCHANGED <<records, accepted>>
          /\ \A x \in Actors : worker'[x].pc \in Brokering \cup {"casSuccess"} => worker'[x] = worker[x]
      BY <1>1, OthersRest
    <2> QED
      BY <2>1 DEF UnsentUntilCalled, AcceptedOnce, Ordinal, Brokering
  <1>2. ASSUME NEW w \in Actors, Broker(w) PROVE UnsentUntilCalled'
    <2> DEFINE k == Ordinal(w)
    <2>1. /\ k \in Ordinals
          /\ FinishInFlight(w) \/ \E pc \in PC : Goto(w, pc)
          /\ \A j \in Ordinals : j # k => records'[j] = records[j] /\ accepted'[j] = accepted[j]
      BY <1>2, BrokerStep
    <2>2. /\ accepted'[k] <= 1
          /\ records'[k] = "none" => accepted'[k] = 0
          /\ worker'[w].pc \in {"budget", "call", "fail"} => accepted'[k] = 0
      BY <1>2, BrokerOnce
    <2>3. /\ \A x \in Actors : x # w => worker'[x] = worker[x]
          /\ worker'[w].pc \in Brokering => worker'[w].item = worker[w].item
      BY <1>2, <2>1, BrokerRequest DEF Goto, FinishInFlight, TypeOK, Live
    <2>4. ASSUME NEW x \in Actors, worker'[x].pc \in {"budget", "call", "fail"}
          PROVE  accepted'[worker'[x].item.ordinal] = 0
      <3>1. CASE x = w
        BY <2>2, <2>3, <2>4, <3>1 DEF Ordinal, Brokering
      <3>2. CASE x # w
        <4>1. worker'[x] = worker[x] /\ InBroker(x) /\ accepted[Ordinal(x)] = 0
          BY <2>3, <2>4, <3>2 DEF InBroker, Brokering, UnsentUntilCalled
        <4>2. Ordinal(x) \in Ordinals
          BY <4>1, LiveOrdinal DEF InBroker, Live
        <4>3. CASE Ordinal(x) # k
          BY <2>1, <4>1, <4>2, <4>3 DEF Ordinal
        <4>4. CASE Ordinal(x) = k
          <5>1. ~InBroker(w)
            BY <3>2, <4>1, <4>4 DEF RunnerInvariant, ExclusiveReservation
          <5>2. UNCHANGED accepted
            BY <1>2, <5>1 DEF Broker, Reserve, Free, Finished, ReserveBudget, CallProvider, Succeed, MarkUnknown,
                              Fail, SettleRecord, InBroker, Brokering, At
          <5> QED
            BY <4>1, <5>2 DEF Ordinal
        <4> QED
          BY <4>3, <4>4
      <3> QED
        BY <3>1, <3>2
    <2> QED
      BY <2>1, <2>2, <2>4 DEF UnsentUntilCalled, AcceptedOnce, Ordinal
  <1> QED
    BY <1>1, <1>2

LEMMA InitUnsent == Init => UnsentUntilCalled
PROOF
  BY DEF Init, RunnerInit, Idle, UnsentUntilCalled, AcceptedOnce

(* As long as the store answers and every error the adapter reports as     *)
(* plain means "not accepted", crashes, timeouts, refusals and repeated    *)
(* deliveries never make the provider accept one action twice.             *)
THEOREM AcceptedOnceHolds ==
  ASSUME Faults \cap {"lostAck", "storeError", "malformed"} = {}
  PROVE  Spec => []AcceptedOnce
PROOF
  <1>1. "lostAck" \notin Faults
    OBVIOUS
  <1>2. Spec => []RecordsSettled
    BY <1>1, InitSettled, NextSettled, TypeCorrect, InvariantCorrect, PTL DEF Spec
  <1>3. Spec => []UnsentUntilCalled
    BY <1>2, InitUnsent, NextOnce, TypeCorrect, InvariantCorrect, PTL DEF Spec
  <1>4. UnsentUntilCalled => AcceptedOnce
    BY DEF UnsentUntilCalled
  <1> QED
    BY <1>3, <1>4, PTL

-----------------------------------------------------------------------------
(* The wake.  How the queue, the outbox and the document may move together *)
(* without a waiting mission losing its wake: a commit gives the next      *)
(* version an intent unless it no longer waits; a mark touches no version  *)
(* ahead of the document and says DISPATCHED only where a task was made; a *)
(* task is deleted as answered only when the mission has moved past it.    *)
MarksKept(v) ==
  \/ intents'[v] = intents[v]
  \/ intents'[v] = "HOLLOW" /\ intents[v] \in {"none", "HOLLOW"} /\ v <= mission.version
  \/ intents'[v] = "PENDING" /\ intents[v] # "none"
  \/ /\ intents'[v] = "DISPATCHED" /\ intents[v] # "none"
     /\ \E t \in Task : t.version = v /\ tasks[t] # "unused"

TaskKept(t) ==
  \/ tasks'[t] = tasks[t]
  \/ tasks'[t] \in {"queued", "inFlight"} /\ t.version <= mission.version
  \/ /\ tasks'[t] = "deleted" /\ t.version <= mission.version
     /\ t.version < mission.version \/ mission.state \notin Runnable

CommitsWake ==
  /\ mission'.version = mission.version + 1
  /\ UNCHANGED tasks
  /\ \/ mission'.state \notin Runnable /\ UNCHANGED intents
     \/ intents' = [intents EXCEPT ![mission'.version] = "PENDING"]

WakeMoves ==
  \/ CommitsWake
  \/ UNCHANGED mission /\ (\A v \in Versions : MarksKept(v)) /\ \A t \in Task : TaskKept(t)

LEMMA WakesRecorded ==
  ASSUME StoreTypeOK, StoreTypeOK', WakesOnRecord, WakeMoves
  PROVE  WakesOnRecord'
PROOF
  <1>1. /\ mission.version \in Versions /\ mission'.version \in Versions
        /\ mission.version \in Nat /\ mission'.version \in Nat
        /\ \A v \in Versions : v \in Nat
        /\ \A t \in Task : t.version \in Versions
    BY VersionsAssumption DEF StoreTypeOK, Mission, Task
  <1>2. CASE CommitsWake
    <2>1. /\ mission'.version = mission.version + 1 /\ \A t \in Task : tasks'[t] = tasks[t]
          /\ \A v \in Versions : intents'[v] = intents[v] \/ (v = mission'.version /\ intents'[v] = "PENDING")
          /\ mission'.state \in Runnable => intents'[mission'.version] = "PENDING"
      BY <1>1, <1>2 DEF CommitsWake, StoreTypeOK
    <2>2. \A t \in Task : tasks'[t] # "unused" => t.version < mission'.version
      BY <1>1, <2>1 DEF WakesOnRecord
    <2>3. \A v \in Versions : intents'[v] # "none" => v <= mission'.version
      BY <1>1, <2>1 DEF WakesOnRecord
    <2>4. \A v \in Versions : intents'[v] = "DISPATCHED" =>
            \E t \in Task : t.version = v /\ tasks'[t] # "unused"
      BY <2>1 DEF WakesOnRecord
    <2> QED
      BY <1>1, <2>1, <2>2, <2>3, <2>4 DEF WakesOnRecord
  <1>3. CASE UNCHANGED mission /\ (\A v \in Versions : MarksKept(v)) /\ \A t \in Task : TaskKept(t)
    <2>1. \A t \in Task : tasks'[t] # "unused" => t.version <= mission'.version
      BY <1>3 DEF TaskKept, WakesOnRecord
    <2>2. \A v \in Versions : intents'[v] # "none" => v <= mission'.version
      BY <1>3 DEF MarksKept, WakesOnRecord
    <2>3. \A t \in Task : tasks[t] # "unused" => tasks'[t] # "unused"
      BY <1>3 DEF TaskKept
    <2>4. \A v \in Versions : intents'[v] = "DISPATCHED" =>
            \E t \in Task : t.version = v /\ tasks'[t] # "unused"
      BY <1>3, <2>3 DEF MarksKept, WakesOnRecord
    <2>5. mission'.state \in Runnable => intents'[mission'.version] \in {"PENDING", "DISPATCHED"}
      <3>1. MarksKept(mission.version)
        BY <1>1, <1>3
      <3> QED
        BY <1>3, <3>1 DEF MarksKept, WakesOnRecord
    <2>6. ASSUME mission'.state \in Runnable, NEW t \in Task, t.version = mission'.version
          PROVE  tasks'[t] # "deleted"
      <3>1. TaskKept(t) /\ ~(t.version < mission.version)
        BY <1>1, <1>3, <2>6
      <3> QED
        BY <1>3, <2>6, <3>1 DEF TaskKept, WakesOnRecord
    <2> QED
      BY <2>1, <2>2, <2>4, <2>5, <2>6 DEF WakesOnRecord
  <1> QED
    BY <1>2, <1>3 DEF WakeMoves

LEMMA TaskVersions ==
  ASSUME TypeOK, NEW w \in Actors
  PROVE  worker[w].task.version \in Nat /\ worker[w].item.version \in Nat /\ mission.version \in Nat
PROOF
  <1>1. worker[w].task \in Task \cup {NoTask} /\ worker[w].item \in Mission /\ mission \in Mission
    BY DEF TypeOK, StoreTypeOK, Request
  <1>2. (\A t \in Task : t.version \in Nat) /\ NoTask.version = 0
    <2>1. \A t \in Task : t.version \in Nat
      BY VersionsAssumption DEF Task
    <2>2. NoTask.version = 0
      BY DEF NoTask
    <2> QED
      BY <2>1, <2>2
  <1>3. \A m \in Mission : m.version \in Nat
    BY VersionsAssumption DEF Mission
  <1> QED
    BY <1>1, <1>2, <1>3

(* A request that does not move keeps its part.                            *)
LEMMA RequestKeepsWake ==
  ASSUME TypeOK, StoreTypeOK', WakeMoves, NEW x \in Actors, KeepsWake(worker[x]), worker'[x] = worker[x]
  PROVE  KeepsWake(worker[x])'
PROOF
  <1>1. mission.version \in Nat /\ mission'.version \in Nat
    BY VersionsAssumption DEF TypeOK, StoreTypeOK, Mission
  <1>2. worker[x].task.version \in Nat
    BY TaskVersions
  <1>3. \A t \in Task : t.version \in Nat
    BY VersionsAssumption DEF Task
  <1>4. \A t \in Task : tasks[t] # "unused" => tasks'[t] # "unused"
    BY DEF WakeMoves, CommitsWake, TaskKept
  <1>5. \/ mission'.version = mission.version + 1
        \/ UNCHANGED mission
    BY DEF WakeMoves, CommitsWake
  <1>6. worker[x].task.version <= mission'.version
    BY <1>1, <1>2, <1>5 DEF KeepsWake
  <1>7. worker[x].pc \in Dispatching => worker[x].target \in Task /\ worker[x].target.version <= mission'.version
    BY <1>1, <1>3, <1>5 DEF KeepsWake
  <1>8. worker[x].pc = "mark" => tasks'[worker[x].target] # "unused"
    BY <1>4 DEF KeepsWake, Dispatching
  <1>9. worker[x].pc \in Concluding => worker[x].task.version < mission'.version \/ mission'.state \notin Runnable
    BY <1>1, <1>2, <1>5 DEF KeepsWake
  <1>10. worker[x].pc \in Working => worker[x].item.version = worker[x].task.version
    BY DEF KeepsWake
  <1> QED
    BY <1>6, <1>7, <1>8, <1>9, <1>10 DEF KeepsWake

(* How a request that moves keeps its part: where it ends, it holds no     *)
(* work; where it works on, it does so on the version of its task; where   *)
(* it dispatches, its wake is no newer than the document.                  *)
LEMMA RestKeepsWake ==
  ASSUME TypeOK, TypeOK', NEW w \in Actors,
         \/ Release(w)
         \/ FinishInFlight(w) /\ worker[w].task.version <= mission'.version
         \/ /\ Finish(w) /\ worker[w].task.version <= mission'.version
            /\ worker[w].task.version < mission'.version \/ mission'.state \notin Runnable
  PROVE  KeepsWake(worker[w])'
PROOF
  <1>1. mission'.version \in Nat \ {0}
    BY VersionsAssumption DEF TypeOK, StoreTypeOK, Mission
  <1>2. CASE Release(w)
    <2>1. worker'[w].task.version = 0 /\ worker'[w].pc = "idle"
      BY <1>2 DEF Release, TypeOK, Idle, NoTask
    <2> QED
      BY <1>1, <2>1 DEF KeepsWake, Dispatching, Working, Live, Brokering
  <1>3. CASE FinishInFlight(w) /\ worker[w].task.version <= mission'.version
    <2>1. worker'[w].task = worker[w].task /\ worker'[w].pc = "inFlight"
      BY <1>3 DEF FinishInFlight, TypeOK, Idle
    <2> QED
      BY <1>3, <2>1 DEF KeepsWake, Dispatching, Working, Live, Brokering, Concluding
  <1>4. CASE /\ Finish(w) /\ worker[w].task.version <= mission'.version
             /\ worker[w].task.version < mission'.version \/ mission'.state \notin Runnable
    <2>1. worker'[w].task = worker[w].task /\ worker'[w].pc = "ack"
      BY <1>4 DEF Finish, TypeOK, Idle
    <2> QED
      BY <1>4, <2>1 DEF KeepsWake, Dispatching, Working, Live, Brokering
  <1> QED
    BY <1>2, <1>3, <1>4

LEMMA GotoKeepsWake ==
  ASSUME TypeOK, NEW w \in Actors, NEW pc, pc # "mark", Goto(w, pc),
         worker[w].task.version <= mission'.version,
         \/ pc \in Working \ Dispatching /\ worker[w].item.version = worker[w].task.version
         \/ pc \in Concluding \ Dispatching /\ pc \notin Working
         \/ pc = "markFailed" /\ worker[w].target \in Task /\ worker[w].target.version <= mission'.version,
         pc \in Concluding => worker[w].task.version < mission'.version \/ mission'.state \notin Runnable
  PROVE  KeepsWake(worker[w])'
PROOF
  <1>1. /\ worker'[w].pc = pc /\ worker'[w].task = worker[w].task
        /\ worker'[w].item = worker[w].item /\ worker'[w].target = worker[w].target
    BY DEF Goto, TypeOK, Request
  <1>2. "markFailed" \notin Working
    BY DEF Working, Live, Brokering
  <1> QED
    BY <1>1, <1>2 DEF KeepsWake

LEMMA DispatchKeepsWake ==
  ASSUME TypeOK, NEW w \in Actors, NEW t \in Task, Dispatch(w, t), t.version <= mission'.version,
         worker[w].task.version <= mission'.version,
         worker[w].task.version < mission'.version \/ mission'.state \notin Runnable
  PROVE  KeepsWake(worker[w])'
PROOF
  <1>1. /\ worker'[w].pc = "create" /\ worker'[w].task = worker[w].task /\ worker'[w].target = t
    BY DEF Dispatch, TypeOK, Idle
  <1>2. "create" \notin Working
    BY DEF Working, Live, Brokering
  <1> QED
    BY <1>1, <1>2 DEF KeepsWake

(* What a delivery begins.                                                 *)
LEMMA DeliverKeepsWake ==
  ASSUME TypeOK, WakeInvariant, NEW w \in Workers, NEW t \in Task, Deliver(w, t)
  PROVE  /\ WakeMoves
         /\ \A x \in Actors : x # w => worker'[x] = worker[x]
         /\ worker'[w] = worker[w] \/ KeepsWake(worker[w])'
PROOF
  <1>1. UNCHANGED <<mission, intents, tasks>> /\ tasks[t] = "queued"
    BY DEF Deliver, DeliverStale, DeliverStuck, DeliverEarly, DeliverDue, Begin, Receive, storeVars
  <1>2. t.version <= mission.version /\ t.version \in Nat /\ mission.version \in Nat /\ mission.version \in Versions
    BY <1>1, VersionsAssumption DEF WakeInvariant, WakesOnRecord, Task, TypeOK, StoreTypeOK, Mission
  <1>3. WakeMoves
    BY <1>1 DEF WakeMoves, MarksKept, TaskKept
  <1>4. \A x \in Actors : x # w => worker'[x] = worker[x]
    BY DEF Deliver, DeliverStale, DeliverStuck, DeliverEarly, DeliverDue, Begin, TypeOK
  <1>5. w \in Actors
    BY DEF Actors
  <1>6. CASE DeliverStale(w, t)
    <2>1. t.version < mission.version \/ mission.state \notin Runnable
      BY <1>2, <1>6 DEF DeliverStale, IsStale
    <2> DEFINE Opens(r) == /\ r.task = t
                           /\ r.pc = "ack" \/ (r.pc = "create" /\ r.target = Plain(mission.version))
    <2>2. /\ Opens([[Idle EXCEPT !.pc = "create", !.target = Plain(mission.version)] EXCEPT !.task = t])
          /\ Opens([[Idle EXCEPT !.pc = "ack"] EXCEPT !.task = t])
      BY DEF Idle
    <2>3. Opens(worker'[w])
      <3>1. \E r : Opens(r) /\ worker' = [worker EXCEPT ![w] = r]
        BY <1>6, <2>2 DEF DeliverStale, Begin
      <3> QED
        BY <1>5, <3>1 DEF TypeOK
    <2>4. Plain(mission.version) \in Task /\ Plain(mission.version).version = mission.version
      BY <1>2 DEF Plain, Task
    <2>5. KeepsWake(worker[w])'
      BY <1>1, <1>2, <2>1, <2>3, <2>4 DEF KeepsWake, Dispatching, Working, Live, Brokering
    <2> QED
      BY <1>3, <1>4, <2>5
  <1>7. CASE DeliverEarly(w, t)
    BY <1>3, <1>4, <1>7 DEF DeliverEarly
  <1>8. CASE DeliverStuck(w, t) \/ DeliverDue(w, t)
    <2>1. t.version = mission.version
      BY <1>8 DEF DeliverStuck, DeliverDue, IsStale
    <2>2. ASSUME NEW pc
          PROVE  /\ [ReadDocument(pc) EXCEPT !.task = t].pc = pc
                 /\ [ReadDocument(pc) EXCEPT !.task = t].item = mission
                 /\ [ReadDocument(pc) EXCEPT !.task = t].task = t
      BY DEF ReadDocument, Idle
    <2>3. \E pc \in {"casStuck", "casBudget", "casDenied", "reserve"} :
            worker' = [worker EXCEPT ![w] = [ReadDocument(pc) EXCEPT !.task = t]]
      BY <1>8 DEF DeliverStuck, DeliverDue, Begin
    <2>4. /\ worker'[w].pc \in {"casStuck", "casBudget", "casDenied", "reserve"}
          /\ worker'[w].item = mission /\ worker'[w].task = t
      BY <1>5, <2>2, <2>3 DEF TypeOK
    <2>5. KeepsWake(worker[w])'
      BY <1>1, <1>2, <2>1, <2>4 DEF KeepsWake, Dispatching, Concluding, Working, Live
    <2> QED
      BY <1>3, <1>4, <2>5
  <1> QED
    BY <1>6, <1>7, <1>8 DEF Deliver

(* Where the broker leaves a request: at work, or answering in flight.     *)
LEMMA BrokerGoes ==
  ASSUME NEW w \in Actors, Broker(w)
  PROVE  /\ UNCHANGED <<mission, intents, tasks>>
         /\ worker[w].pc \in Working
         /\ FinishInFlight(w) \/ \E pc \in Working \ (Dispatching \cup Concluding) : Goto(w, pc)
PROOF
  <1>1. UNCHANGED <<mission, intents, tasks>>
    BY DEF Broker, Reserve, Free, Finished, ReserveBudget, CallProvider, Succeed, MarkUnknown, Fail, SettleRecord,
           brokerUnchanged, storeVars, queueVars
  <1>2. worker[w].pc \in Working
    BY DEF Broker, Reserve, ReserveBudget, CallProvider, Succeed, MarkUnknown, Fail, At, Working, Live, Brokering
  <1>3. {"budget", "call", "succeed", "markUnknown", "fail", "casSuccess", "casRetry"}
          \subseteq Working \ (Dispatching \cup Concluding)
    BY DEF Working, Live, Brokering, Dispatching, Concluding
  <1>4. FinishInFlight(w) \/ \E pc \in {"budget", "call", "succeed", "markUnknown", "fail", "casSuccess", "casRetry"} : Goto(w, pc)
    BY DEF Broker, Reserve, Free, Finished, ReserveBudget, CallProvider, Succeed, MarkUnknown, Fail, SettleRecord
  <1> QED
    BY <1>1, <1>2, <1>3, <1>4

(* A document that still waits is committed with its intent.               *)
PublishesWake(w) ==
  \E next \in Published(worker[w].item), wake \in BOOLEAN :
    /\ CompareAndSet(worker[w].item.version, next, wake)
    /\ wake \/ next.state \notin Runnable

Raising == {"raiseBudget", "raiseRecovery", "notifyFailed"}

(* Where a transaction of the runner leaves its request.                   *)
RunGoes(w) ==
  \/ /\ worker[w].pc \in Working /\ UNCHANGED <<mission, intents>>
     /\ Release(w) \/ Goto(w, "casRetry")
  \/ /\ worker[w].pc \in Working /\ PublishesWake(w)
     /\ Release(w) \/ DispatchWake(w) \/ \E pc \in Raising \cup {"casRetry"} : Goto(w, pc)
  \/ /\ worker[w].pc \in Raising /\ UNCHANGED <<mission, intents>>
     /\ Release(w) \/ Finish(w)

LEMMA RunOutcome ==
  ASSUME TypeOK, NEW w \in Actors, Run(w)
  PROVE  UNCHANGED tasks /\ RunGoes(w)
PROOF
  <1> DEFINE item == worker[w].item
  <1>0. item \in Mission
    BY DEF TypeOK, Request
  <1>1. UNCHANGED tasks
    BY DEF Run, PublishSuccess, PublishRetry, PublishRecoveryExhausted, PublishDenied, PublishBudgetExhausted,
           PublishRecovered, Raise, Publish, queueVars
  <1>2. ASSUME NEW next \in Published(item), NEW wake \in BOOLEAN, CompareAndSet(item.version, next, wake),
               wake \/ next.state \notin Runnable
        PROVE  PublishesWake(w)
    BY <1>2 DEF PublishesWake
  <1> HIDE DEF item
  <1>3. CASE PublishSuccess(w)
    <2>1. worker[w].pc \in Working
      BY <1>3 DEF PublishSuccess, At, Working, Live
    <2>2. \/ CompareAndSet(item.version, Advanced(item), TRUE) /\ (DispatchWake(w) \/ Goto(w, "casRetry"))
          \/ UNCHANGED <<mission, intents>> /\ Goto(w, "casRetry")
      BY <1>3 DEF PublishSuccess, Publish, Transact, storeVars, item
    <2>3. Advanced(item) \in Published(item)
      BY DEF Published
    <2> QED
      BY <1>1, <1>2, <2>1, <2>2, <2>3 DEF RunGoes
  <1>4. CASE PublishRetry(w)
    <2>1. worker[w].pc \in Working
      BY <1>4 DEF PublishRetry, At, Working
    <2>2. \/ CompareAndSet(item.version, Retrying(item), TRUE) /\ (DispatchWake(w) \/ Release(w))
          \/ UNCHANGED <<mission, intents>> /\ Release(w)
      BY <1>4 DEF PublishRetry, Publish, Transact, storeVars, item
    <2>3. Retrying(item) \in Published(item)
      BY DEF Published
    <2> QED
      BY <1>1, <1>2, <2>1, <2>2, <2>3 DEF RunGoes
  <1>5. CASE PublishRecoveryExhausted(w)
    <2>1. worker[w].pc \in Working
      BY <1>5 DEF PublishRecoveryExhausted, At, Working
    <2>2. \/ CompareAndSet(item.version, RecoveryExhausted(item), FALSE) /\ (Goto(w, "raiseRecovery") \/ Release(w))
          \/ UNCHANGED <<mission, intents>> /\ Release(w)
      BY <1>5 DEF PublishRecoveryExhausted, Publish, Transact, storeVars, item
    <2>3. RecoveryExhausted(item) \in Published(item) /\ RecoveryExhausted(item).state \notin Runnable
      BY <1>0 DEF Published, RecoveryExhausted, Mission, Runnable
    <2> QED
      BY <1>1, <1>2, <2>1, <2>2, <2>3 DEF RunGoes, Raising
  <1>6. CASE PublishDenied(w)
    <2>1. worker[w].pc \in Working
      BY <1>6 DEF PublishDenied, At, Working
    <2>2. \/ CompareAndSet(item.version, Denied(item), FALSE) /\ (Goto(w, "notifyFailed") \/ Release(w))
          \/ UNCHANGED <<mission, intents>> /\ (Release(w) \/ Goto(w, "casRetry"))
      BY <1>6 DEF PublishDenied, Publish, Transact, storeVars, item
    <2>3. Denied(item) \in Published(item) /\ Denied(item).state \notin Runnable
      BY <1>0 DEF Published, Denied, Mission, Runnable
    <2> QED
      BY <1>1, <1>2, <2>1, <2>2, <2>3 DEF RunGoes, Raising
  <1>7. CASE PublishBudgetExhausted(w)
    <2>1. worker[w].pc \in Working
      BY <1>7 DEF PublishBudgetExhausted, At, Working
    <2>2. \/ CompareAndSet(item.version, BudgetExhausted(item), FALSE) /\ (Goto(w, "raiseBudget") \/ Release(w))
          \/ UNCHANGED <<mission, intents>> /\ Release(w)
      BY <1>7 DEF PublishBudgetExhausted, Publish, Transact, storeVars, item
    <2>3. BudgetExhausted(item) \in Published(item) /\ BudgetExhausted(item).state \notin Runnable
      BY <1>0 DEF Published, BudgetExhausted, Mission, Runnable
    <2> QED
      BY <1>1, <1>2, <2>1, <2>2, <2>3 DEF RunGoes, Raising
  <1>8. CASE PublishRecovered(w)
    <2>1. worker[w].pc \in Working
      BY <1>8 DEF PublishRecovered, At, Working
    <2>2. \/ CompareAndSet(item.version, Recovered(item), TRUE) /\ (DispatchWake(w) \/ Release(w))
          \/ UNCHANGED <<mission, intents>> /\ Release(w)
      BY <1>8 DEF PublishRecovered, Publish, Transact, storeVars, item
    <2>3. Recovered(item) \in Published(item)
      BY DEF Published
    <2> QED
      BY <1>1, <1>2, <2>1, <2>2, <2>3 DEF RunGoes
  <1>9. CASE Raise(w)
    BY <1>1, <1>9 DEF Raise, RunGoes, Raising, At, storeVars
  <1> QED
    BY <1>3, <1>4, <1>5, <1>6, <1>7, <1>8, <1>9 DEF Run

LEMMA PublishedWake ==
  ASSUME TypeOK, WakeInvariant, NEW w \in Actors, worker[w].pc \in Working, PublishesWake(w), UNCHANGED tasks
  PROVE  /\ CommitsWake
         /\ worker[w].item.version = worker[w].task.version
         /\ mission'.version = worker[w].task.version + 1
         /\ mission'.version \in Versions
PROOF
  <1>1. worker[w].item.version = worker[w].task.version
    BY DEF WakeInvariant, KeepsWake
  <1>2. PICK next \in Published(worker[w].item), wake \in BOOLEAN :
          /\ CompareAndSet(worker[w].item.version, next, wake)
          /\ wake \/ next.state \notin Runnable
    BY DEF PublishesWake
  <1>3. next.version = worker[w].item.version + 1
    BY PublishedTyped DEF TypeOK, Request
  <1>4. /\ mission.version = worker[w].item.version /\ mission' = next /\ next.version \in Versions
        /\ intents' = IF wake THEN [intents EXCEPT ![next.version] = "PENDING"] ELSE intents
    BY <1>2 DEF CompareAndSet, VersionMatches
  <1> QED
    BY <1>1, <1>2, <1>3, <1>4 DEF CommitsWake

LEMMA RunKeepsWake ==
  ASSUME TypeOK, TypeOK', WakeInvariant, NEW w \in Actors, Run(w)
  PROVE  WakeMoves /\ KeepsWake(worker[w])'
PROOF
  <1>1. UNCHANGED tasks /\ RunGoes(w)
    BY RunOutcome
  <1>2. worker[w].task.version \in Nat /\ worker[w].task.version <= mission.version /\ KeepsWake(worker[w])
    BY TaskVersions DEF WakeInvariant, KeepsWake
  <1>3. /\ {"casRetry"} \subseteq Working \ (Dispatching \cup Concluding)
        /\ Raising \subseteq Concluding \ (Dispatching \cup Working) /\ "mark" \notin Raising
    BY DEF Working, Live, Brokering, Dispatching, Concluding, Raising
  <1>4. CASE /\ worker[w].pc \in Working /\ UNCHANGED <<mission, intents>>
             /\ Release(w) \/ Goto(w, "casRetry")
    <2>1. WakeMoves
      BY <1>1, <1>4 DEF WakeMoves, MarksKept, TaskKept
    <2>2. worker[w].item.version = worker[w].task.version
      BY <1>2, <1>4 DEF KeepsWake
    <2>3. CASE Release(w)
      BY <2>1, <2>3, RestKeepsWake
    <2>4. CASE Goto(w, "casRetry")
      BY <1>2, <1>3, <1>4, <2>1, <2>2, <2>4, GotoKeepsWake
    <2> QED
      BY <1>4, <2>3, <2>4
  <1>5. CASE /\ worker[w].pc \in Working /\ PublishesWake(w)
             /\ Release(w) \/ DispatchWake(w) \/ \E pc \in Raising \cup {"casRetry"} : Goto(w, pc)
    <2>1. /\ CommitsWake /\ worker[w].item.version = worker[w].task.version
          /\ mission'.version = worker[w].task.version + 1 /\ mission'.version \in Versions
      BY <1>1, <1>5, PublishedWake
    <2>2. WakeMoves
      BY <2>1 DEF WakeMoves
    <2>3. worker[w].task.version < mission'.version /\ worker[w].task.version <= mission'.version
      BY <1>2, <2>1
    <2>4. CASE Release(w)
      BY <2>2, <2>4, RestKeepsWake
    <2>5. CASE DispatchWake(w)
      <3>1. /\ Intent(worker[w].item.version + 1) \in Task
            /\ Intent(worker[w].item.version + 1).version = mission'.version
        BY <2>1 DEF Intent, Task
      <3>2. Intent(worker[w].item.version + 1).version <= mission'.version
        BY <3>1, <2>1, <1>2
      <3>3. Dispatch(w, Intent(worker[w].item.version + 1))
        BY <2>5 DEF DispatchWake
      <3> QED
        BY <2>2, <2>3, <3>1, <3>2, <3>3, DispatchKeepsWake
    <2>6. ASSUME NEW pc \in Raising \cup {"casRetry"}, Goto(w, pc)
          PROVE  KeepsWake(worker[w])'
      BY <1>3, <2>1, <2>3, <2>6, GotoKeepsWake
    <2> QED
      BY <1>5, <2>2, <2>4, <2>5, <2>6
  <1>6. CASE /\ worker[w].pc \in Raising /\ UNCHANGED <<mission, intents>>
             /\ Release(w) \/ Finish(w)
    <2>1. WakeMoves
      BY <1>1, <1>6 DEF WakeMoves, MarksKept, TaskKept
    <2>2. worker[w].task.version < mission.version \/ mission.state \notin Runnable
      BY <1>2, <1>3, <1>6 DEF KeepsWake
    <2> QED
      BY <1>2, <1>6, <2>1, <2>2, RestKeepsWake
  <1> QED
    BY <1>1, <1>4, <1>5, <1>6 DEF RunGoes

(* A mark after a created task, or one that puts a wake back to PENDING.   *)
LEMMA MarkKeeps ==
  ASSUME StoreTypeOK, WakesOnRecord, NEW t \in Task, t.version <= mission.version,
         NEW status \in {"PENDING", "DISPATCHED"}, status = "DISPATCHED" => tasks[t] # "unused",
         MarkIntent(t.version, status)
  PROVE  \A v \in Versions : MarksKept(v)
PROOF
  <1>1. t.version \in Versions
    BY DEF Task
  <1>2. \A v \in Versions : intents'[v] = IF v = t.version
          THEN IF intents[v] \in {"none", "HOLLOW"} THEN "HOLLOW" ELSE status
          ELSE intents[v]
    BY <1>1 DEF MarkIntent, StoreTypeOK
  <1> QED
    BY <1>2 DEF MarksKept

LEMMA CreateKeeps ==
  ASSUME StoreTypeOK, NEW t \in Task, t.version <= mission.version, CreateTask(t)
  PROVE  (\A s \in Task : TaskKept(s)) /\ tasks'[t] # "unused"
PROOF
  BY DEF CreateTask, TaskKept, StoreTypeOK

LEMMA ScheduleKeepsWake ==
  ASSUME TypeOK, TypeOK', WakeInvariant, NEW w \in Actors, Schedule(w)
  PROVE  WakeMoves /\ KeepsWake(worker[w])'
PROOF
  <1>1. UNCHANGED mission
    BY ScheduleEffect
  <1>2. worker[w].task.version \in Nat /\ worker[w].task.version <= mission.version /\ KeepsWake(worker[w])
    BY TaskVersions DEF WakeInvariant, KeepsWake
  <1> DEFINE target == worker[w].target
             Dispatches == /\ target \in Task /\ target.version <= mission.version
                           /\ worker[w].task.version < mission.version \/ mission.state \notin Runnable
  <1>3. worker[w].pc \in Dispatching => Dispatches
    BY <1>2 DEF KeepsWake, Concluding
  <1>4. worker[w].pc = "mark" => tasks[target] # "unused"
    BY <1>2 DEF KeepsWake
  <1>5. StoreTypeOK /\ WakesOnRecord /\ mission.version \in Nat
    BY TaskVersions DEF TypeOK, WakeInvariant
  <1> HIDE DEF target
  <1>6. ASSUME Goto(w, "markFailed"), Dispatches PROVE KeepsWake(worker[w])'
    BY <1>1, <1>2, <1>6, GotoKeepsWake DEF target
  <1>7. ASSUME Finish(w), Dispatches PROVE KeepsWake(worker[w])'
    BY <1>1, <1>2, <1>7, RestKeepsWake
  <1>8. ASSUME UNCHANGED intents PROVE \A v \in Versions : MarksKept(v)
    BY <1>8 DEF MarksKept
  <1>9. ASSUME UNCHANGED tasks PROVE \A t \in Task : TaskKept(t)
    BY <1>9 DEF TaskKept
  <1>10. CASE CreateWake(w)
    <2>1. Dispatches /\ UNCHANGED intents
      BY <1>3, <1>10 DEF CreateWake, At, Dispatching, ScheduleTask, storeVars
    <2>2. \/ CreateTask(target) /\ Goto(w, "mark")
          \/ (CreateTask(target) \/ UNCHANGED tasks) /\ Goto(w, "markFailed")
      BY <1>10 DEF CreateWake, ScheduleTask, target
    <2>3. CreateTask(target) => (\A t \in Task : TaskKept(t)) /\ tasks'[target] # "unused"
      BY <1>5, <2>1, CreateKeeps
    <2>4. WakeMoves
      BY <1>1, <1>8, <1>9, <2>1, <2>2, <2>3 DEF WakeMoves
    <2>5. CASE CreateTask(target) /\ Goto(w, "mark")
      <3>1. /\ worker'[w].pc = "mark" /\ worker'[w].task = worker[w].task /\ worker'[w].target = target
        BY <2>5 DEF Goto, TypeOK, Request, target
      <3>2. "mark" \notin Working
        BY DEF Working, Live, Brokering
      <3> QED
        BY <1>1, <1>2, <2>1, <2>3, <2>4, <2>5, <3>1, <3>2 DEF KeepsWake
    <2> QED
      BY <1>6, <2>1, <2>2, <2>4, <2>5
  <1>11. CASE MarkDispatched(w)
    <2>1. Dispatches /\ UNCHANGED tasks /\ tasks[target] # "unused"
      BY <1>3, <1>4, <1>11 DEF MarkDispatched, At, Dispatching, RecordDispatched, queueVars
    <2>2. MarkIntent(target.version, "DISPATCHED") \/ UNCHANGED intents
      BY <1>11 DEF MarkDispatched, RecordDispatched, target
    <2>3. WakeMoves
      BY <1>1, <1>5, <1>8, <1>9, <2>1, <2>2, MarkKeeps DEF WakeMoves
    <2>4. Finish(w) \/ Goto(w, "markFailed")
      BY <1>11 DEF MarkDispatched, RecordDispatched
    <2> QED
      BY <1>6, <1>7, <2>1, <2>3, <2>4
  <1>12. CASE MarkFailed(w)
    <2>1. Dispatches /\ UNCHANGED tasks
      BY <1>3, <1>12 DEF MarkFailed, At, Dispatching, RecordFailed, queueVars
    <2>2. MarkIntent(target.version, "PENDING") \/ UNCHANGED intents
      BY <1>12 DEF MarkFailed, RecordFailed, target
    <2>3. WakeMoves
      BY <1>1, <1>5, <1>8, <1>9, <2>1, <2>2, MarkKeeps DEF WakeMoves
    <2>4. Release(w)
      BY <1>12 DEF MarkFailed, RecordFailed
    <2> QED
      BY <2>3, <2>4, RestKeepsWake
  <1>13. CASE Acknowledge(w)
    <2>1. UNCHANGED intents /\ Release(w)
      BY <1>13 DEF Acknowledge, storeVars
    <2>2. At(w, "ack") => worker[w].task.version < mission.version \/ mission.state \notin Runnable
      BY <1>2 DEF KeepsWake, At, Concluding
    <2>3. ASSUME NEW t \in Task PROVE TaskKept(t)
      <3>1. CASE t # worker[w].task
        BY <1>13, <3>1 DEF Acknowledge, TaskKept
      <3>2. CASE t = worker[w].task
        <4>1. tasks'[t] = IF At(w, "ack") THEN "deleted" ELSE "inFlight"
          BY <1>13, <3>2 DEF Acknowledge
        <4> QED
          BY <1>2, <2>2, <3>2, <4>1 DEF TaskKept
      <3> QED
        BY <3>1, <3>2
    <2>4. WakeMoves
      BY <1>1, <1>8, <2>1, <2>3 DEF WakeMoves
    <2> QED
      BY <2>1, <2>4, RestKeepsWake
  <1> QED
    BY <1>10, <1>11, <1>12, <1>13 DEF Schedule

(* The invariant survives a step whose own request keeps its part, and a   *)
(* step of somebody else that moves the store as the wake allows.          *)
LEMMA RequestStepKeepsWake ==
  ASSUME TypeOK, TypeOK', WakeInvariant, NEW w \in Actors, WakeMoves,
         \A x \in Actors : x # w => worker'[x] = worker[x],
         worker'[w] = worker[w] \/ KeepsWake(worker[w])'
  PROVE  WakeInvariant'
PROOF
  <1>1. WakesOnRecord'
    BY WakesRecorded DEF TypeOK, WakeInvariant
  <1>2. ASSUME NEW x \in Actors, worker'[x] = worker[x] PROVE KeepsWake(worker[x])'
    BY <1>2, RequestKeepsWake DEF TypeOK, WakeInvariant
  <1> QED
    BY <1>1, <1>2 DEF WakeInvariant

LEMMA OthersKeepWake ==
  ASSUME TypeOK, StoreTypeOK', WakeInvariant, WakeMoves, UNCHANGED worker
  PROVE  WakeInvariant'
PROOF
  <1>1. WakesOnRecord'
    BY WakesRecorded DEF TypeOK, WakeInvariant
  <1>2. ASSUME NEW x \in Actors PROVE KeepsWake(worker[x])'
    BY RequestKeepsWake DEF TypeOK, WakeInvariant
  <1> QED
    BY <1>1, <1>2 DEF WakeInvariant

LEMMA NextKeepsWake ==
  ASSUME TypeOK, TypeOK', WakeInvariant, Next
  PROVE  WakeInvariant' /\ WakeMoves
PROOF
  <1>0. StoreTypeOK /\ StoreTypeOK' /\ WakesOnRecord
    BY DEF TypeOK, WakeInvariant
  <1>1. ASSUME UNCHANGED <<mission, intents, tasks>> PROVE WakeMoves
    BY <1>1 DEF WakeMoves, MarksKept, TaskKept
  <1>2. ASSUME NEW w \in Workers, NEW t \in Task, Deliver(w, t) PROVE WakeInvariant' /\ WakeMoves
    <2>1. w \in Actors
      BY DEF Actors
    <2> QED
      BY <1>2, <2>1, DeliverKeepsWake, RequestStepKeepsWake
  <1>3. ASSUME NEW w \in Actors, Broker(w) PROVE WakeInvariant' /\ WakeMoves
    <2>1. WakeMoves /\ UNCHANGED mission
      BY <1>1, <1>3, BrokerGoes
    <2>2. \A x \in Actors : x # w => worker'[x] = worker[x]
      BY <1>3, BrokerGoes DEF FinishInFlight, Goto, TypeOK
    <2>3. /\ worker[w].task.version <= mission.version
          /\ worker[w].item.version = worker[w].task.version
      BY <1>3, BrokerGoes DEF WakeInvariant, KeepsWake
    <2>4. CASE FinishInFlight(w)
      BY <2>1, <2>2, <2>3, <2>4, RestKeepsWake, RequestStepKeepsWake
    <2>5. ASSUME NEW pc \in Working \ (Dispatching \cup Concluding), Goto(w, pc) PROVE WakeInvariant' /\ WakeMoves
      <3>1. pc # "mark" /\ pc \in Working \ Dispatching /\ pc \notin Concluding
        BY DEF Dispatching
      <3>2. KeepsWake(worker[w])'
        BY <2>1, <2>3, <2>5, <3>1, GotoKeepsWake
      <3> QED
        BY <2>1, <2>2, <3>2, RequestStepKeepsWake
    <2> QED
      BY <1>3, <2>4, <2>5, BrokerGoes
  <1>4. ASSUME NEW w \in Actors, Run(w) PROVE WakeInvariant' /\ WakeMoves
    <2>1. \A x \in Actors : x # w => worker'[x] = worker[x]
      BY <1>4, RunEffect DEF MovesOn, Release, Finish, Goto, DispatchWake, Dispatch, TypeOK
    <2> QED
      BY <1>4, <2>1, RunKeepsWake, RequestStepKeepsWake
  <1>5. ASSUME NEW w \in Actors, Schedule(w) PROVE WakeInvariant' /\ WakeMoves
    <2>1. \A x \in Actors : x # w => worker'[x] = worker[x]
      BY <1>5, ScheduleEffect DEF Release, Finish, Goto, TypeOK
    <2> QED
      BY <1>5, <2>1, ScheduleKeepsWake, RequestStepKeepsWake
  <1>6. ASSUME NEW w \in Actors, Crash(w) PROVE WakeInvariant' /\ WakeMoves
    <2>1. WakeMoves /\ Release(w)
      BY <1>1, <1>6 DEF Crash, storeVars, queueVars
    <2>2. \A x \in Actors : x # w => worker'[x] = worker[x]
      BY <2>1 DEF Release, TypeOK
    <2> QED
      BY <2>1, <2>2, RestKeepsWake, RequestStepKeepsWake
  <1>7. ASSUME NEW c \in Reconcilers, NEW v \in Versions, Reconcile(c, v) PROVE WakeInvariant' /\ WakeMoves
    <2>1. c \in Actors
      BY DEF Actors
    <2>2. /\ WakeMoves /\ UNCHANGED mission
          /\ Dispatch(c, Plain(v)) /\ At(c, "idle") /\ intents[v] = "PENDING"
      BY <1>1, <1>7 DEF Reconcile, sharedVars, storeVars, queueVars
    <2>3. \A x \in Actors : x # c => worker'[x] = worker[x]
      BY <2>2 DEF Dispatch, TypeOK
    <2>4. Plain(v) \in Task /\ Plain(v).version <= mission.version
      BY <1>0, <2>2 DEF Plain, Task, WakesOnRecord
    <2>5. /\ worker[c].task.version <= mission.version
          /\ worker[c].task.version < mission.version \/ mission.state \notin Runnable
      BY <2>1, <2>2 DEF WakeInvariant, KeepsWake, At, Concluding
    <2>6. KeepsWake(worker[c])'
      BY <2>1, <2>2, <2>4, <2>5, DispatchKeepsWake
    <2> QED
      BY <2>1, <2>2, <2>3, <2>6, RequestStepKeepsWake
  <1>8. CASE ReplyStarts
    <2>1. /\ mission \in Mission /\ UNCHANGED <<intents, tasks, worker>>
          /\ mission' = [mission EXCEPT !.state = "VERIFYING", !.version = @ + 1]
      BY <1>0, <1>8 DEF ReplyStarts, CompareAndSet, StoreTypeOK, queueVars, runnerVars
    <2>2. mission'.version = mission.version + 1 /\ mission'.state \notin Runnable
      BY <2>1 DEF Mission, Runnable
    <2>3. WakeMoves
      BY <2>1, <2>2 DEF WakeMoves, CommitsWake
    <2> QED
      BY <1>0, <2>1, <2>3, OthersKeepWake
  <1>9. CASE Tick /\ UNCHANGED runnerVars
    <2>1. UNCHANGED <<mission, intents, tasks, worker>>
      BY <1>9 DEF Tick, WakeTimeArrives, FiveMinutesPass, BoundaryExpires, storeVars, queueVars, runnerVars
    <2> QED
      BY <1>0, <1>1, <2>1, OthersKeepWake
  <1> QED
    BY <1>2, <1>3, <1>4, <1>5, <1>6, <1>7, <1>8, <1>9 DEF Next, Step

LEMMA InitWake == Init => WakeInvariant
PROOF
  <1> SUFFICES ASSUME Init PROVE WakeInvariant
    OBVIOUS
  <1>1. mission.version = 1 /\ \A w \in Actors : worker[w] = Idle
    BY DEF Init, StoreInit, RunnerInit, ApprovedMission
  <1>2. /\ Idle.task.version = 0 /\ Idle.pc = "idle"
    BY DEF Idle, NoTask
  <1>3. ASSUME NEW w \in Actors PROVE KeepsWake(worker[w])
    BY <1>1, <1>2 DEF KeepsWake, Dispatching, Working, Live, Brokering
  <1>4. PICK dispatched, created \in BOOLEAN :
          /\ dispatched => created
          /\ intents = [v \in Versions |->
               IF v # 1 THEN "none" ELSE IF dispatched THEN "DISPATCHED" ELSE "PENDING"]
          /\ tasks = [t \in Task |->
               IF created /\ t = [version |-> 1, name |-> "intent"] THEN "queued" ELSE "unused"]
    BY DEF Init, StoreInit
  <1>5. [version |-> 1, name |-> "intent"] \in Task
    BY VersionsAssumption DEF Task
  <1>6. 1 \in Versions
    BY VersionsAssumption
  <1>7. \A t \in Task : tasks[t] # "unused" => t.version = 1 /\ tasks[t] = "queued"
    BY <1>4
  <1>8. \A v \in Versions : /\ intents[v] # "none" => v = 1
                            /\ intents[v] = "DISPATCHED" => dispatched
    BY <1>4
  <1>9. dispatched => tasks[[version |-> 1, name |-> "intent"]] # "unused"
    BY <1>4, <1>5
  <1>10. intents[1] \in {"PENDING", "DISPATCHED"}
    BY <1>4, <1>6
  <1>11. WakesOnRecord
    <2>1. \A v \in Versions : intents[v] = "DISPATCHED" => \E t \in Task : t.version = v /\ tasks[t] # "unused"
      BY <1>5, <1>8, <1>9
    <2> QED
      BY <1>1, <1>7, <1>8, <1>10, <2>1 DEF WakesOnRecord
  <1> QED
    BY <1>3, <1>11 DEF WakeInvariant

(* What the queue, the outbox and the requests keep of the wake.           *)
THEOREM WakeInvariantHolds == Spec => []WakeInvariant
PROOF
  <1>1. Init => WakeInvariant
    BY InitWake
  <1>2. TypeOK /\ TypeOK' /\ WakeInvariant /\ [Next]_vars => WakeInvariant'
    <2> SUFFICES ASSUME TypeOK, TypeOK', WakeInvariant, [Next]_vars PROVE WakeInvariant'
      OBVIOUS
    <2>1. CASE Next
      BY <2>1, NextKeepsWake
    <2>2. CASE UNCHANGED vars
      <3>1. UNCHANGED <<mission, intents, tasks, worker>>
        BY <2>2 DEF vars, sharedVars, storeVars, queueVars, runnerVars
      <3>2. WakeMoves /\ StoreTypeOK'
        BY <3>1 DEF WakeMoves, MarksKept, TaskKept, TypeOK
      <3> QED
        BY <3>1, <3>2, OthersKeepWake
    <2> QED
      BY <2>1, <2>2
  <1> QED
    BY <1>1, <1>2, TypeCorrect, PTL DEF Spec

LEMMA WakeFollows ==
  ASSUME TypeOK, WakeInvariant
  PROVE  WakeOrAbandoned
PROOF
  <1> SUFFICES ASSUME mission.state \in Runnable, intents[mission.version] # "PENDING"
               PROVE  \E t \in Task : /\ t.version = mission.version
                                      /\ WakeTask(t) \/ AttemptsSpent(t) \/ AnsweredInFlight(t)
    BY DEF WakeOrAbandoned
  <1>1. mission.version \in Versions
    BY DEF TypeOK, StoreTypeOK, Mission
  <1>2. intents[mission.version] = "DISPATCHED"
    BY DEF WakeInvariant, WakesOnRecord
  <1>3. PICK t \in Task : t.version = mission.version /\ tasks[t] # "unused"
    BY <1>1, <1>2 DEF WakeInvariant, WakesOnRecord
  <1>4. tasks[t] \in {"queued", "inFlight"}
    BY <1>3 DEF WakeInvariant, WakesOnRecord, TypeOK, StoreTypeOK
  <1>5. CASE tasks[t] = "inFlight"
    BY <1>3, <1>5 DEF AnsweredInFlight
  <1>6. CASE tasks[t] = "queued" /\ ~Held(t)
    <2>1. deliveries[t] = MaxDeliveries \/ deliveries[t] < MaxDeliveries
      BY DeliveryAssumption DEF TypeOK, StoreTypeOK
    <2> QED
      BY <1>3, <1>6, <2>1 DEF WakeTask, AttemptsSpent
  <1>7. CASE Held(t)
    <2>1. PICK w \in Workers : worker[w].task = t
      BY <1>7 DEF Held
    <2>2. w \in Actors /\ mission.version \in Nat
      BY TaskVersions DEF Actors
    <2>3. worker[w].pc # "ack"
      BY <1>3, <2>1, <2>2 DEF WakeInvariant, KeepsWake, Concluding
    <2> QED
      BY <1>3, <2>1, <2>3 DEF WakeTask, Serving, AnsweredInFlight, At, Answering
  <1> QED
    BY <1>4, <1>5, <1>6, <1>7

(* A waiting mission has a wake coming unless the queue has used up its    *)
(* attempts or the task was answered in flight, however many requests run  *)
(* and whatever fails.                                                     *)
THEOREM WakeOrAbandonedHolds == Spec => []WakeOrAbandoned
PROOF
  <1> QED
    BY WakeFollows, WakeInvariantHolds, TypeCorrect, PTL
=============================================================================
