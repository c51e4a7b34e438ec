# ActionOS: a verification project in TLA+

ActionOS turns a screenshot or a text into an approved plan and then follows it
through: a mission sends a bounded number of messages, waits, retries, reads the
replies, and stops when the outcome is on record or its owner has to decide.
Everything lives in Firestore documents, wakes up through Cloud Tasks, and is moved
by stateless HTTP requests that may run concurrently, fail at any call, and be
delivered again. This directory models that life from the upload to the notice of
completion in TLA+, checks it with TLC, and proves its safety with TLAPS.

Paths below are relative to the repository. `PROJECT.json` maps every definition
to its lines of source, lists the runs, the mutants, the hazards and the findings.

## 1. Inventory

| Component | Where | State it keeps | Operations | What makes it correct |
|---|---|---|---|---|
| Analysis jobs | `packages/persistence/src/analysis-store.ts`, `apps/web/lib/analysis-*.ts`, `artifact-storage.ts` | job, lease, attempts, artifact, model usage | upload, start, read, extract, mark, retry | READY means the draft is there; no job is forgotten |
| Intake and plan generation | `packages/runtime/src/intake-service.ts`, `packages/persistence/src/intake-store.ts` | `intakeDedupe`, `missionDrafts` | `intake`, `buildPlan` | one draft per input; the plan made can be run |
| Plan approval | `packages/runtime/src/plan-service.ts`, `apps/web/lib/plan-controller.ts` | draft, plan versions | revise, select channel, approve, reject, delete | only the version the owner saw is approved, once, and is woken |
| Mission runner | `packages/runtime/src/mission-runner.ts`, `apps/web/lib/task-controller.ts`, `api/internal/tasks/run-mission` | none of its own: one snapshot of `missionRuns/{id}` per request | `run`: stale, stuck, not due, budget, policy, send, retry, halt | actions in order, none skipped, none beyond the budget; a runnable mission settles |
| Execution broker | `packages/runtime/src/capability-broker.ts` | `capabilityRecords` (`IN_FLIGHT`, `outcomeUnknown`, `SUCCEEDED`) | reserve, reserve budget, call, succeed, fail, markUnknown | one reservation per action; an accepted action is not sent twice |
| Capability policy | `packages/domain/src/capability-validator.ts`, `identity.ts` | none | `validateCapabilityExecution` | what was approved is allowed, nothing else |
| Mission store | `packages/persistence/src/runtime-store.ts` | run document, events, evidence, routes | `compareAndSet`, `record`, `recordTransportEvent` | nothing is written over a newer version |
| Wake outbox, task scheduler | `packages/runtime/src/wake-outbox.ts`, `task-scheduler.ts`, `packages/persistence/src/wake-outbox-store.ts` | `wakeIntents`, the queue's tasks | persist with the transition, dispatch, mark, reconcile | a mission that waits has a wake |
| Inbound replies | `packages/runtime/src/inbound-service.ts`, `api/internal/tasks/process-inbound` | the inbound task, the provider event | correlate, check state and sender, start verifying, interpret | a mission in VERIFYING has a reply at work for it |
| Verification | `packages/runtime/src/verification-service.ts`, `packages/domain/src/verifier.ts` | `evidence` | `verifyOutcome` | DONE rests on evidence and is final |
| Mission control | `packages/runtime/src/mission-control.ts`, `packages/persistence/src/retention.ts` | command documents, interventions, tombstones | stop, revoke, expire, reopen, resume, revise, delete | idempotent; what is taken back stays taken back |
| Notifications | `packages/runtime/src/notifications.ts`, `packages/capabilities/src/outbound-email.ts` | notifications, `emailDeliveries` | create, deliver, report, retry | at most three per mission, each emailed once |
| Email webhook | `apps/web/lib/email-webhook-controller.ts` | provider events | reserve, create task, mark | no acknowledged event is lost in silence |
| Merchant callback, sandbox | `apps/web/lib/callback-controller.ts`, `apps/merchant-sandbox` | `callbackDedupe` | reserve, verify, complete, fail | an outcome is acknowledged as done only with its evidence and its notice on record |
| Send budget | `runtime-store.ts` `reserveExternalSend` | counters per recipient, domain, channel and day | reserve | no cap exceeded; a retry consumes nothing |
| Lifecycle reducer | `packages/domain/src/reducer.ts` | a transition table | `reduceMission` | used by tests only |
| Adapters, model flows, web application, observability | `packages/capabilities`, `packages/genkit-flows`, `apps/web` | none that others read | I/O and presentation | which outcomes, extractions and edits they can produce |

How they interact. An upload makes one job per input; a worker under a lease calls
the model and stores a draft with its plan. The owner edits the draft, which makes
new versions of the plan, and approves one of them: one transaction writes the run
document and its first wake intent, and the task is scheduled after it. The queue
delivers the task to the runner; the runner reads the document, calls the broker,
publishes the result with `compareAndSet` (which also persists the next wake
intent) and dispatches that intent. The provider's webhook creates an inbound task;
its reader moves the same document to VERIFYING and then to the state the evidence
decides; a merchant's callback does so directly. Either raises a notice, which is
delivered by email. The owner may at any time take the run back, resume it or
delete everything. The cron re-dispatches intents still PENDING. Nobody holds a
lock: the actors meet only in the version check of a document, the existence check
of a record, the uniqueness of a task name.

The hard behaviours are therefore: a request that stops between two awaited
calls; a call whose effect happened and whose answer is lost; a task delivered
twice, or given up by the queue; a snapshot used long after it was read, in
particular over the owner's command; a lease shorter than the work it protects; a
reply that overtakes the request it answers; a retry whose model answers
differently; an acknowledged message nobody works off; several legal edits that
add up to a plan the policy then denies. `PROJECT.json` "hazards" lists them at
their lines with the properties that watch them.

## 2. Modules

```
MissionStore            document, compareAndSet, wake intents, queue, clock, faults
 +- MissionRunner       worker requests, broker, wake dispatch, reconciler
 |   :  refines ActionLedger    what the runtime promises about actions
 |   +- MissionControl          the owner's commands over the running mission
 +- InboundService      inbound requests, verdict, evidence, bounces
     +- FollowThrough   MissionRunner and InboundService over one document

AnalysisJob             upload, lease, attempts, retry, the draft at the end
PlanTerms               what a plan says, from extraction to the company's answer
PlanApproval            drafts, runs, tombstones of the missions of one input
Notifications           notices, their delivery, the provider's events
 +- MerchantCallback    callbacks, evidence and the notices they raise
```

`MissionRunner`, `MissionControl`, `FollowThrough`, `AnalysisJob`, `PlanTerms`,
`PlanApproval` and `MerchantCallback` each have a module `...Proofs` with their
theorems. `MissionControlProofs` extends `MissionRunnerProofs` and
`FollowThroughProofs` takes an instance of it: both reuse the runner's lemmas for the
steps of its workers.

Each specification that a run checks has an `MC...` module that only adds the symmetry for TLC.

**MissionStore** holds what the actors of one mission share.
* `mission` is `missionRuns/{id}` reduced to what control flow reads: state,
  `version`, `actionOrdinal`, `attemptCount`, whether `nextWakeAt` is set, whether
  the boundary is revoked.
* `CompareAndSet` is the transaction of `runtime-store.ts`: version check,
  document and wake intent together. `Transact` adds the ways such a call can end:
  committed, version conflict, failed, committed with the answer lost.
* `intents` and `tasks` are the outbox and the queue. A document has one wake time
  per version, so both are named by the version. A task has two possible names
  because the worker hashes the whole `WakeIntent`, with its intent id, while the
  stale branch, the reconciler and RESUME hash the four plain fields; a RESUME sent
  again hashes them with a clock reading of its own, which is the third.
* A mark is merged into the intent's document. Where no transaction persisted one
  (VERIFYING carries over the wake time of an older version) the mark creates a
  document without the wake's fields, which the cron lists and cannot dispatch:
  the status `HOLLOW`.
* Time is three booleans, because the code compares "now" with three instants
  only: `nextWakeAt ?? dueAt`, `updatedAt` + 5 minutes, `boundary.expiresAt`.
* A task the queue has deleted is `deleted` or, when the answer was
  `ACTION_IN_FLIGHT`, `inFlight`. The queue does not tell the two apart; the model
  does, because a mission may need the one and never the other.
* `StoreInit` is the state approval leaves: version 1, READY, an intent that may
  not yet have been dispatched or marked.

**MissionRunner** gives every request (`worker[w]`) a program counter that names
the awaited call it is about to make, the delivered task, the snapshot it read
and the wake it will dispatch. One action per awaited call: `Deliver*` for the
branches of `run` up to its first await, the `Broker` actions, the `Publish*`
actions for each `compareAndSet`, `Raise` for what follows a halt, the `Schedule`
actions for `scheduleMission` and the 200 answer, `Reconcile` for the cron,
`Crash` for a request that stops anywhere. `ReplyStarts` is the one step of
another actor, which brings the mission into VERIFYING so that the recovery of a
stuck mission happens; `FollowThrough` has the readers in its place. `accepted[k]`
is not in the code: it counts how often the provider accepted a call for ordinal `k`.

**ActionLedger** is the abstract specification: ordinal by ordinal, perform an
action within the budget, then advance. `MissionRunner` implements it with
`next <- mission.ordinal` and `done <- {k : accepted[k] > 0}`.

**InboundService** is one request of `process-inbound`: a reply, a reply from an
unexpected sender, or a bounce. The model's interpretation is a free choice at
every attempt, since every attempt calls the model anew. The reply route that
`store.succeed` writes is `routed`; a bounce reaches the mission through the
receipt written in the same batch, so `routed` stands for that as well (the run with
a bounce has no `lostAck`, after which the broker could delete that record).

**FollowThrough** interleaves both over the same document, outbox and queue, and
states the properties that need both. A reply or bounce arrives only after the
provider has accepted some message; a stranger's email may arrive any time.

**MissionControl** adds the owner to the runner. A page gives a command under a
fresh idempotency key for the version it shows (`Command`); while it has no answer
it may send it again, even while the first request runs (`CommandAgain`), so one
command is up to `Tries` requests. `Look` is the checks of
`MissionControlService.command` on the document it read, `Transition` the
transaction over the document, the command record, the open interventions and, for
RESUME, the wake intent; `ScheduleResume` dispatches that wake. A request that finds
the command of the other one inside the transaction may have read another clock:
`ScheduleAgain` then makes a task of another name and marks an intent nobody wrote. The
readers and the merchant's callbacks are reduced to what they commit (`ReaderCommits`):
one that finds another version than it read changes nothing, so its transaction is a
step on the current document. A reply is judged from VERIFYING, a callback from RUNNING
and WAITING_EXTERNAL as well.

**PlanApproval** has the missions created one after another from one input: draft,
run, dedupe entry, tombstone, the wake stored with the approval, and concurrent
requests. Every request reads once (`Approve`, `Revise`, `Reject`, `DeleteDraft`,
`Control`) and writes in a transaction that compares only a plan version (`Replace`)
or a run version (`BeginReapproval`, `RequestDeletion`), followed by the calls
outside it (`Dispatch`, `Mark`, `Cleanup`, `Purge`). A plan is its version here.

**PlanTerms** is the other half of a plan: its contents, with the requests of the
review page one at a time. A term is the value extracted, a corrected one, or
absent. `NewPlan` is `buildPlan`, `RevisedPlan` what a save of the contract keeps and
what it rebuilds, `BlockingFields` what an approval waits for, `Authorized` the
policy on the first action, `Confirms` the verdict on a company that confirms
exactly what the message asked for. The approval is two steps, because the
controller checks one read of the draft and the service approves another. Plans do
not expire here: PLAN_EXPIRED only refuses.

**AnalysisJob** has one job, that of all uploads of the same bytes. `Start` takes the
lease, counts the attempt and refuses a job that is BUSY; every later write of a
worker (`MarkReady`, `AttemptFailed`) and of the owner's retry is a blind merge, as in
the code. `Lapse` is the 90 s of the lease passing while the route may run for 120 s.

**Notifications** has the notices of one mission by `dedupeKey`; a notifier is any
process between the creation of a notice and the report of its delivery, and the
provider's event about it goes through webhook, task and
`recordNotificationTransportEvent`. A webhook that arrives while the first one for its event is at
work is acknowledged (`RepeatWebhook`). **MerchantCallback** puts in front of it the
merchant, who repeats one outcome until it is acknowledged under a key of its own
for every attempt, and whose request goes on as the notifier of the same name. An
attempt delivered twice has two answers and each stands alone: `told` is the set of all
answers an attempt ever got, and nothing is taken from it.

Faults are named, enabled by the constant `Faults` and bounded by `MaxFaults`:

| Fault | In the code |
|---|---|
| `crash`, `controlCrash` | the instance stops while it serves a request; a command |
| `storeError` | a Firestore or storage call fails without effect |
| `lostAck` | the call takes effect and throws: the answer is lost, or a later write of the same function (its telemetry) fails |
| `refused`, `noAnswer`, `malformed` | the provider: a 4xx; a timeout or 5xx, accepted or not; a 2xx whose body is not JSON |
| `sendBudget` | `reserveExternalSend` denies |
| `dispatch` | `createTask` throws, the task created or not |
| `redeliver` | the queue delivers a task while it is being served |
| `resend` | a command, a callback or a webhook is sent again while the first is under way |
| `skew` | the queue delivers before the worker's clock says due |
| `interpreter` | the model flow throws |
| `reply` | not a fault: in `MissionRunner` alone, a reader moves the mission to VERIFYING and stops (`ReplyStarts`) |
| `expiry` | not a fault: the approval may end |

Definitions with the comment "mutant of X" are plausible bugs of X, with X's
parameters. They are used by no specification; each property is checked to fail
when X is replaced by its mutant, so that no property holds whatever the code does.

## 3. What TLC checks

| Run | Instance | Properties | States |
|---|---|---|---|
| RunnerSafety | 2 workers, cron, 1 send, all faults and `reply`, one of them at a time | `TypeOK`, `RunnerInvariant`, `ExclusiveReservation`, `WakeOrAbandoned` | 690 000 |
| RunnerLedger | 2 workers, 2 sends, 2 faults out of crash, noAnswer, refused, redeliver, and expiry | `SendsWithinBudget`, `AcceptedOnce`, `ImplementsLedger`, `NoLateCall` | 230 000 |
| RunnerProgress | 1 worker, cron, fairness, any 1 fault but an overlapping delivery | `MissionSettles`, `IntentsDispatched` | 21 500 |
| FollowSafety | 1 worker, 1 reader, a reply and a stranger's email, 2 sends, 1 fault of five kinds | `TypeOK`, `WakeOrAbandoned`, `VerifyingAttended` | 780 000 |
| FollowRace | 1 worker, 2 readers, a reply and a bounce, 1 repeated delivery | `DoneIsEvidenced`, `CompletionFinal`, `HaltHolds` | 1 380 000 |
| ControlSafety | 1 worker, 1 page whose command may run twice, EXPIRE, RESUME, REOPEN, REVISE, 1 fault of five kinds | `ControlTypeOK`, `WakeSurvivesControl`, `RevocationFinal`, `HaltOwned`, `OneSendAfterStop` | 920 000 |
| PlanSafety | 2 missions of one input, 2 requests, 2 plan versions, 1 fault of four kinds | `PlanTypeOK`, `DeletionFinal`, `DedupeBacked`, `ApprovedWoken`, `ApprovesCurrentPlan`, `NeverRestarted` | 480 000 |
| AnalysisSafety | 2 uploads, 1 retry, 2 workers, 2 attempts, 2 model calls, 1 lapse, 1 fault of four kinds | `AnalysisTypeOK`, `ReadyHasDraft`, `JobNotLost`, `ReadyKept` | 220 000 |
| NoticeSafety | 1 callback, 2 requests and another notifier, 2 notices of which 1 fits, 1 fault of six kinds | `CallbackTypeOK`, `OneProviderSend`, `EventKept`, `CompletionNoticed`, `AcknowledgedKept` | 1 430 000 |
| TermsSafety | every extraction with at most 1 uncertain field, 3 edits, both channels | `TermsTypeOK`, `Correctable`, `FailureExplained`, `ApprovalChecked` | 260 000 |
| RunnerForgets, PlanReapproval | | one property each, violated: section 4 | |

What the properties say, beyond their names:
* `WakeOrAbandoned` names the two ways a waiting mission does lose its wake: the queue
  has used up the attempts of its task (`AttemptsSpent`), and its task was answered
  200 because the action was in flight (`AnsweredInFlight`), so that the mission
  depends on the request that reserved the action, which may be gone or may fail.
  These two it does not catch; anything else would be a violation. In particular the re-dispatch that finds both
  task names of a version used, is answered ALREADY_EXISTS and creates nothing is
  harmless but for those two. `WakeSurvivesControl` extends it to missions the owner
  resumes.
* `MissionSettles` is the liveness of the same: a runnable mission retries, advances or
  halts, unless its next action was left in flight by a request that is gone or got no
  answer (`ActionHeld`). That is a loss the code has, after a timeout, a lost answer or
  a crash (section 4); every other single fault is recovered from.
* `VerifyingAttended` is the counterpart for VERIFYING, which schedules no wake: some
  reply is being processed or will be delivered again, or it changed the terms and the
  owner was asked. The exceptions it names are a reply whose task is out of attempts
  (`ReplySpent`) and a mission that the retry of a reply moved to VERIFYING again after
  its insufficient outcome was recorded (`VerifiedAgain`).
* `NoLateCall` is checked without `lostAck`. With it and three workers it fails: a
  lost answer of `succeed` makes `store.fail` delete a record that says SUCCEEDED,
  and a request that slept since before the ordinal advanced may then reserve it.
* `RevocationFinal`: after STOP, REVOKE, EXPIRE or REVISE the mission never runs
  again, not even when a bounce moves an EXPIRED mission to NEEDS_ATTENTION.
  `OneSendAfterStop`: at most the one message whose request had read the document
  before still goes out. `HaltOwned`: a halt ends only by a command given on the
  page of that very halt.
* `ApprovesCurrentPlan` and `NeverRestarted`: whatever approvals, revisions and
  rejections overlap, a run starts on the plan that is current and is never set back
  to its first version. `ApprovedWoken`: an approved run has its stored intent or a
  task. `DeletionFinal`: no request that read the mission before its deletion writes
  it again. `DedupeBacked`: the input names a mission that has a draft, except while
  a deletion is at work or after one was cut short.
* `ReadyHasDraft`, `JobNotLost` and `ReadyKept` are about the blind writes of the
  analysis: a READY job has its draft, an unsettled job has a task or a request
  under way (except after a request was refused or a task ran out of attempts), and
  only three kinds of late write take a READY job back.
* `OneProviderSend`: with no fault the provider accepts the email of a notice once,
  however many requests raise, deliver and retry it, and every further acceptance
  costs a failure. `EventKept`: an event the provider was told we have got its task, or
  its record does not claim so; that it is not lost is not promised, because nobody
  takes up a record that stays RESERVED or FAILED. `AcknowledgedKept`: an attempt
  answered as done left its outcome in evidence; for one answered as under way
  somebody is at work, or has failed, and only another answer says so.
  `CompletionNoticed`: whoever was told an outcome is done was told so after its
  notice was created; a mission that is DONE has its notice, or the request that
  completed it is under way or answered with a failure.
* `Correctable`: one more save of the contract turns any draft under review into a
  plan that parses, is not blocked and is authorized, except for two kinds of draft,
  and from those no save does. `FailureExplained` lists the four ways a mission fails
  for what its plan says. `ApprovalChecked`: what the controller checked on its own
  read of the draft holds of the plan that runs.

Bounds, and why they are enough:
* `Versions` cuts the document's history at version 4 or 5. Three versions cover
  a message and its reply (READY, WAITING_EXTERNAL, VERIFYING, then the verdict as
  the fourth); the fifth adds a retry, a second action or a command. A sixth would let a
  worker of a mission that was halted and resumed read it before another command:
  that history of `OneSendAfterStop` is left to its theorem. A step that would leave the bound is not taken, so the safety runs see a prefix
  of every history; the progress run has enough versions for its one fault, two
  attempts and one send, and its properties would fail if a behaviour were cut at
  the bound.
* `MaxAttempts` is 1 or 2 (5 in the route), `MaxLogicalSends` 1 or 2 (3 by default),
  the attempts and calls of an analysis 2 (3 and 4), the notices that fit 1 (3): the
  last one and one before it occur where a property is about the limit.
* `MaxDeliveries` is 1 to 5 (5 in `queue.yaml`): a retry and the case that the
  queue gives up occur. Two workers and two readers are what
  `maxConcurrentDispatches: 2` allows.
* `MaxVersion` of the callbacks is 2: the one version more is taken by an outcome or
  by somebody else, which is all a request that read the first can meet.
* Two requests of the owner are enough for every pair of a read and a transaction to
  overlap; two missions for an input that is taken again after a deletion. STOP and
  REVOKE write what EXPIRE and REVISE do, but for the name of the end state.
* Three edits of a plan put every kind of edit before and after a change of channel;
  more uncertain fields only block more fields.
* One fault at a time in most runs. A second fault adds mostly the exceptions the
  properties name once more; where a property is about combinations (a crash and a
  repeated delivery) the run has two.
* Workers, readers, requests, missions, pages and uploads are symmetric: no action
  compares them. Symmetry is not used in the liveness run. Deadlock is not checked: a
  mission that is over stops.

Fairness (`FairSpec` of `MissionRunner` and `FollowThrough`): a request that runs
takes its next step, as an event loop does; an idle worker is eventually given a task
that can be delivered, as the queue does; the cron keeps running (`wake-reconciler`
schedule); time passes. Faults and the end of the approval are never due.
`RunnerProgress` has one worker and no `redeliver`, because the code does not progress
with overlapping deliveries: the second is answered that the action is in flight and
its task deleted, then the first fails, and the mission waits forever. Lost races are
therefore a matter of safety here, checked with two workers by `WakeOrAbandoned`.

## 4. Where the code and its documents disagree

Two are runs that TLC finds violated, with a trace.
* **RunnerForgets** the comment at `capability-broker.ts:136` says that a malformed
  success response keeps the reservation. The adapter turns it into a plain
  `Error`, for which the broker deletes the reservation.
* **PlanReapproval** `interventions.ts:66` tells the owner that a correction "requires
  a new plan approval". Every approval creates the event `000001-plan-approved`
  (`intake-store.ts:92`), so the second one can never commit.

The models follow the code in the following as well. No run is made of them; the
properties above name them as exceptions, or the model simply does what the code does.
* *After a timeout, a lost answer or a crash.* `docs/ARCHITECTURE.md:101` says that the
  runtime "can recover from transient failures, timeouts, and interrupted actions by
  simply resuming from the last known state". After a provider timeout the record is
  IN_FLIGHT with `outcomeUnknown` (`UNKNOWN` in the model); the retry that was
  scheduled finds it, is answered ACTION_IN_FLIGHT with 200 and no wake is left, so the
  mission stays in WAITING_RETRY until its owner acts. The same follows a lost answer of
  `reserve` and a request that stops after it. `ActionHeld` and `AnsweredInFlight` name
  the case; with `ActionHeld` taken out of `MissionSettles`, TLC refutes it by each of
  the three faults alone. A reader that stops after its evidence is recorded leaves the mission in VERIFYING: the retry moves it there
  again, finds a duplicate, and schedules no wake. A deletion that stops between its
  tombstone and the cleanup leaves the input naming a mission that is gone.
* *Acknowledged and lost.* A callback attempt delivered twice is told 202 while the
  first delivery is at work (`callback-controller.ts:36`); the first may then find a
  version conflict, delete the entry and answer 409, but the sandbox that heard the 202
  returns (`apps/merchant-sandbox/src/server.ts:61`) and the outcome is in nobody's
  hands. When the process serving the first stops, its entry stays IN_FLIGHT for good. A
  webhook whose task could not be created leaves its event FAILED or RESERVED, and the
  provider's repetition is told 202 as a duplicate.
* *Too early.* `docs/ARCHITECTURE.md:102` says the agent wakes up when a webhook is
  received. A reply processed before the worker has committed WAITING_EXTERNAL is
  answered REJECTED with 200; a provider event that comes before the delivery id is
  stored is UNKNOWN and dropped.
* *Too late.* A retry that asks the model again may announce a completion the evidence
  on record denies. A late ACCEPTED overwrites DELIVERED. `markAttemptFailed`,
  `retryOwned` and `markTerminalFailure` overwrite a READY analysis. A reject that
  read the draft before its approval cancels the draft of a run that goes on, and a
  late revise reopens an approved draft: plan versions alone do not tell. A command
  sent again while the first request runs may be answered VERSION_CONFLICT although
  it was applied.
* *What a plan cannot become.* Money the owner adds is required by the page and
  refused by the policy; a bill credit without both parts of its money is asked for
  them and may not share them, although `intake-service.ts:134` means to "keep the
  promise usable as a general follow-up" and `plan-review.tsx:327` says "Correct any
  detail before delegating"; a replacement whose result is corrected keeps the old
  subject. A plan switched to MANAGED_EMAIL later keeps the intervals and the
  ACCELERATED_DEMO mode of the sandbox it was made for.
* *The sandbox* puts the status of an outcome where the schema does not look
  (`apps/merchant-sandbox/src/server.ts:147`, `packages/contracts/src/index.ts:310`),
  and its callback is answered 422.
* *The list of missions.* `analysis-progress.tsx:164` says "You may leave safely. ...
  return from My follow-ups." `handleMissions` lists runs and the analysis jobs that
  are not READY; a run exists only after the approval, so a promise that waits for it
  is in no list. A cursor becomes CURSOR_INVALID when the mission it names moves. The
  result page stops polling at NEEDS_ATTENTION and after any error.

## 5. What is proved

TLAPS checks the theorems below for any sets of actors, any bounds, any kinds and any
number of faults, from the named assumptions on the constants. Those say what bounds
are numbers and which sets are apart: a cron is not a worker (`FollowAssumption`), an
upload is not a retry (`AnalysisAssumption`), no mission is called "none"
(`PlanAssumption`), the two notices the code raises by name are notices
(`CallbackAssumption`). A theorem that needs more says so in its hypotheses. Every
invariant used was checked by TLC on the instance of a run before it was proved.

| Module | Obligations | Inductive invariant |
|---|---|---|
| `MissionRunnerProofs` | 2121 | `RunnerInvariant`, `WakeInvariant` |
| `FollowThroughProofs` | 2070 | `FollowInvariant`, `FollowWakes`, `FollowAttended` |
| `MissionControlProofs` | 1170 | `ControlInvariant`, `ControlWakes` |
| `PlanApprovalProofs` | 990 | `PlanInvariant` |
| `AnalysisJobProofs` | 1457 | `AnalysisInvariant` |
| `MerchantCallbackProofs` | 1907 | `CallbackInvariant` |
| `PlanTermsProofs` | 647 | `ApprovalInvariant`, `TermsInvariant` |

**MissionRunner.**
* `TypeCorrect`, `InvariantCorrect`: `TypeOK` and `RunnerInvariant` hold always,
  under every kind of fault, and replies at any time.
* `ExclusiveReservationHolds`, `OrdinalBackedHolds`, `SendsWithinBudgetHolds`:
  parts of that invariant that matter by themselves.
* `RunnerImplementsLedger`: every step of the runner is a step of `ActionLedger`
  or a stutter.
* `NoLateCallHolds`, if `lostAck` is not among the faults.
* `AcceptedOnceHolds`, if none of `lostAck`, `storeError`, `malformed` is: crashes,
  timeouts, refusals, denied budgets, repeated deliveries and failing dispatches
  never make the provider accept an action twice.
* `WakeInvariantHolds`, `WakeOrAbandonedHolds`: a waiting mission has its wake, under
  every kind and number of faults.

The argument. `OrdinalBacked` alone is not inductive: a request that publishes
success advances the ordinal on the strength of a receipt it read two calls ago.
`ReceiptsBacked` says a receipt, on record or in hand, stands for an acceptance,
and `SnapshotsCurrent` that a request whose version still matches holds the
current document, so that "ordinal + 1" advances past the very action the receipt
is for. `RequestsWithinBudget` carries the check of `run` to the call made much
later. `ExclusiveReservation` is inductive with the type: a record is created only
where none is, and deleted only by the one request inside the broker.
`NoLateCall` needs `RecordsSettled` (a request in the broker holds a reservation,
what the mission has moved past is SUCCEEDED for good) and `AcceptedOnce` needs
`UnsentUntilCalled` besides. The proof of a step has one lemma per action.

The wake rests on four facts. No intent and no task is ahead of the document, so a
commit gives the new version a fresh intent. An intent says DISPATCHED only where a
task was made (`WakesOnRecord`); a request marks only the wake whose task it made and,
once it has published or found its task stale, the mission has moved past the version
of that task (`KeepsWake`), so the task it acknowledges is not one the mission waits
for. `WakeMoves` says what any step may do to document, outbox and queue. It is shown
once that such a step keeps the two invariants for every request it does not move
(`WakesRecorded`, `RequestKeepsWake`); an action then owes only `WakeMoves` and its own
request, and that holds of the steps of readers and of the owner as well.

`WakeOrAbandoned` once named other exceptions: an action whose reservation no request
holds, and two used names. They held of every run with one fault, but were not
enough to prove it, and TLC then refuted it with two. A repeated delivery is
answered that the action is in flight and its task deleted while the first request is
still in the broker; the first fails, and nothing had gone that the exceptions named.
The property now names that answer itself.

**FollowThrough.** `FollowInvariantHolds` and `FollowTyped`; `DoneIsEvidencedHolds`,
`CompletionFinalHolds`, `HaltHoldsHolds`: what the readers decide is never undone by a
worker with an older snapshot, nor by another reader.
`RunnerSafeAmongReaders` and `FollowImplementsLedger`: the runner's safety and its
refinement survive the readers. The invariant adds to the runner's that a reader whose
version still matches has the current document (`ReadersCurrent`) and a finding that
fits where it stands (`ReadersKnow`). The runner's lemmas speak of `ReplyStarts` as the
one foreign step; here `ActiveItems` says that every snapshot at work is of an active mission, and a
reader's commit is shown to leave every fact about the workers as it was.
`WakeSurvivesReaders`: a verdict and its wake are one transaction, a step of `WakeMoves`;
a reader that dispatches the wake does so for a version it committed and marks it once
its task is made (`VerdictWakes`). `VerifyingAttendedHolds`, if no delivery overlaps
another (no `redeliver`; `reply` is the readers' stand-in and has no place beside them): a
task has at most one reader, so a reader that moved the mission to VERIFYING still has
its reply queued until its evidence is recorded, and whoever moves the mission out of
VERIFYING leaves nothing to attend (`FollowAttended`).

**MissionControl.** `ControlInvariantHolds`, `ControlTyped`; `RevocationFinalHolds`,
`HaltOwnedHolds`, `RunnerSafeUnderControl`, and `OneSendAfterStopHolds` if none of
`lostAck`, `storeError`, `malformed` is among the faults, as for `AcceptedOnce`: a lost
answer or an error that hides an acceptance lets one request repeat the call. The
invariant adds to the runner's what a command may rely on: a revoked mission rests
(`RevokedRests`), a request serves a command of its page (`RequestsServe`), given for no
version yet to come (`CommandsCurrent`), and a RESUME past its checks that still finds
its version finds the authority it was permitted under (`ResumesEntitled`).
`WakeSurvivesControlHolds` needs the same of a RESUME (`ResumeWakes`): the request that
dispatches its wake does so for the version its command made; one that repeats it makes
a task of another name and touches neither the stored intent nor its task
(`ScheduleAgainKeeps`).

**PlanApproval.** `PlanTyped`, `DeletionFinalHolds`, `DedupeBackedHolds`,
`ApprovedWokenHolds`, `ApprovesCurrentPlanHolds`, `NeverRestartedHolds`. Needed besides:
a mission being created belongs to the request that creates it (`CreatesFresh`), an
edit writes for the version of the draft it holds (`EditsWhatItRead`), and the event of
an approval outlives its run (`RunsApproved`): it is the event, not the draft's version,
that keeps a second run from starting.

**AnalysisJob.** `AnalysisTyped`, `ReadyHasDraftHolds`, `JobNotLostHolds`,
`ReadyKeptHolds`. A delivery has its task to itself while it runs (`HoldsTask`), a
request makes its task in its last step (`TasksNew`), and `LeaseExcludes`: as long as no
lease has lapsed and nothing failed, only one worker is past the lease. `JobFollowed` is
`JobNotLost` without the tasks whose worker is about to acknowledge them.

**Notifications and MerchantCallback.** `CallbackTyped`, `OneProviderSendHolds`,
`EventKeptHolds`, `CompletionNoticedHolds`, `AcknowledgedKeptHolds`. `DeliveryOwned`
gives each delivery one owner; `SendsBacked` is its account: a delivery that is free, or
about to be sent or freed, has had a fault for every email accepted. `EventFit` says a
task is made once, by the webhook that reserved the event. `NotifiersKnow` and
`RequestsServed` carry the promise of the request that completed a mission to the notice
its notifier stores; notices are never removed (`Grows`). `AttemptsBacked` says what every
answer an attempt ever got rests on, `CompletionBacked` who owes the notice of a
completion, `RequestsRecorded` that a request past the record has its outcome in evidence.

**PlanTerms** (any channels, any default recipients, any number of uncertain fields and
of edits, from `TermsAssumption`).
* `TermsTyped`: a plan under review has the shape the schema demands.
* `ApprovalCheckedHolds`. Two reads of the draft are enough because versions only
  grow (`Behind`): if the draft still has the version the request names, it is the
  draft the controller checked (`CheckedCurrent`), and a linked identity is never lost
  (`Owned`). `ApprovalInvariant` is their conjunction.
* `CorrectableHolds` and `FailureExplainedHolds` rest on `TermsInvariant`: type and
  subject of the plan come from the extraction for good, while requirement and message
  are rebuilt from the goal; so what a requirement asks for is shared, unless the
  owner added it (`MoneyAdded`), and what the message asks for is what is required,
  but for a subject. `EndsAsJudged` carries the judgement of the last step to the
  state it leads to. The converse part of `Correctable`, that nothing helps in the two
  exceptional cases, is proved from the same facts.

Every invariant and every action property of the passing runs is the statement of a
theorem above. Only model-checked is liveness under fairness (`MissionSettles`,
`IntentsDispatched`), which is out of the prover's reach.

## 6. Abstractions

* `MissionRunner` and what builds on it have one mission and one approved plan.
  Correlation across missions, owners and channels is by document id and has no
  shared state here.
* The idempotency key of an action is its ordinal: mission, plan version and
  action type do not change within an approved plan.
* Message texts, hashes, receipts, telemetry and event documents are left out, but
  for the one event id that collides (`approved` of `PlanApproval`).
* `accepted` counts the calls the provider accepted. Resend receives an
  idempotency key and may itself deduplicate; that is not relied upon.
* `validateCapabilityExecution` is split: what compares the proposal with its plan is
  `Authorized` of `PlanTerms`, what depends on time and on the owner (expiry,
  revocation) is in `MissionRunner`.
* A run is `active` or `over` in `PlanApproval`, `active`, `halted` or `DONE` in
  `MerchantCallback`: what moves it there is the subject of the other modules.
* The checks of the verifier other than that of the status are one reason in
  `MerchantCallback` and a free verdict in `InboundService`; `PlanTerms` has the
  comparison itself for a company that confirms what it was asked.
* The provider, the merchant, the model and the browser are external: the provider
  accepts or not and reports what it likes, the merchant repeats until acknowledged,
  the model answers anything its schema allows, a page sends what its form allows.

## 7. Not modelled

* **User interface.** About 7 600 lines of `apps/web` are pages, components, copy and
  styling (`components/ui`, `app/**/page.tsx`). They keep no state that another part
  reads; the forms that decide what is sent are in `PlanTerms`. For the same reason
  the mapped share of the implementation stays near a fifth: the server's packages
  (`runtime`, `persistence`, the controllers of `apps/web/lib`) are mapped for the
  most part.
* **Scripts, fixtures, evaluation** (`scripts`, `packages/test-fixtures`): not part
  of the running system.
* **Model flows**: prompts, parsing and retries of a language model's answer. Their
  results are free choices within the schema.
* **Send budget**: `reserveExternalSend` checks three counters and an idempotency
  record in one transaction; here it allows or denies (`sendBudget`).
* **Lifecycle reducer**: called by tests only. Its terminal states are
  `MissionStore!Terminal`; the stores leave two of them (`recordTransportEvent`
  halts an EXPIRED or FAILED mission).
* **Telemetry, authentication, signatures, configuration**: no decision depends on
  them but to refuse a request before it changes anything. A failing telemetry write
  is the fault `lostAck` of the transaction before it.

## 8. Plan

All modules planned are written, and every safety property is proved for the component
that states it. What is left is to carry over what has so far been proved of the runner
alone and is only implied for its compositions: `AcceptedOnce` and `NoLateCall` among
readers (`FollowThrough`) and under the owner's commands (`MissionControl`).
