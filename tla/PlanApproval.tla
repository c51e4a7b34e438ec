---------------------------- MODULE PlanApproval ----------------------------
(***************************************************************************)
(* The life of a mission around its run: intake creates the draft, the     *)
(* owner revises, approves, rejects or deletes it (PlanService,            *)
(* FirestoreIntakeStore), takes the run back for a new approval or deletes *)
(* everything (beginReapproval and requestDeletion of the control store).  *)
(*                                                                         *)
(* Every request reads the draft or the run once, outside the transaction  *)
(* that writes; the transaction compares only a version.  The missions are *)
(* those created, one after another, from the same input.                  *)
(*                                                                         *)
(* The page of a request shows what the request reads: an older page is    *)
(* refused there, without effect.  What the mission does while it runs is  *)
(* the subject of MissionRunner; here its document changes version.        *)
(***************************************************************************)
EXTENDS Naturals

CONSTANTS
  Missions,        \* missionIds intake may generate for the input
  Requests,        \* concurrent HTTP requests of the owner and the workers
  MaxVersion,      \* versions of a plan and of a run: bounds the model
  Faults,
  MaxFaults        \* bounds the model

ASSUME PlanAssumption ==
  MaxVersion \in Nat \ {0} /\ MaxFaults \in Nat /\ "none" \notin Missions

VARIABLES
  draft,           \* missionDrafts, by mission
  run,             \* missionRuns, by mission
  approved,        \* missions with the event 000001-plan-approved
  dedupe,          \* intakeDedupe of the input: the mission it names
  tombstones,      \* deletionTombstones
  intent,          \* the wakeIntent stored with the approval, by mission
  tasks,           \* missions with an activation task
  request,         \* what each request is doing
  faults

vars == <<draft, run, approved, dedupe, tombstones, intent, tasks, request, faults>>

-----------------------------------------------------------------------------
(* A plan is named by its version, which its hash includes.  boundary: the *)
(* version the approval names.  Unresolved fields and an expired plan only *)
(* ever refuse an approval before it writes, and are left out.             *)
NoDraft == [state |-> "none", plan |-> 0, boundary |-> 0]
Draft == [state: {"AWAITING_APPROVAL", "READY", "CANCELLED"}, plan: 1..MaxVersion,
          boundary: 0..MaxVersion]

NoRun == [state |-> "none", version |-> 0, plan |-> 0]
Run == [state: {"active", "over", "CANCELLED"}, version: 1..MaxVersion, plan: 1..MaxVersion]

Command == {"approve", "revise", "reject", "deleteDraft", "REVISE", "DELETE"}
Idle == [pc |-> "idle", what |-> "none", mission |-> "none", seen |-> NoDraft,
         expected |-> 0]

PlanTypeOK ==
  /\ draft \in [Missions -> Draft \cup {NoDraft}]
  /\ run \in [Missions -> Run \cup {NoRun}]
  /\ approved \subseteq Missions /\ tombstones \subseteq Missions
  /\ dedupe \in Missions \cup {"none"}
  /\ intent \in [Missions -> {"none", "PENDING", "DISPATCHED"}]
  /\ tasks \subseteq Missions
  /\ request \in [Requests ->
       [pc: {"create", "replace", "schedule", "mark", "delete", "control", "cleanup", "purge"},
        what: Command \cup {"intake"}, mission: Missions, seen: Draft \cup {NoDraft},
        expected: 0..MaxVersion] \cup {Idle}]
  /\ faults \in 0..MaxFaults

Init ==
  /\ draft = [m \in Missions |-> NoDraft]
  /\ run = [m \in Missions |-> NoRun]
  /\ approved = {} /\ tombstones = {}
  /\ dedupe = "none"
  /\ intent = [m \in Missions |-> "none"]
  /\ tasks = {}
  /\ request = [r \in Requests |-> Idle]
  /\ faults = 0

-----------------------------------------------------------------------------
Fault(f) == f \in Faults /\ faults < MaxFaults /\ faults' = faults + 1

At(r, pc) == request[r].pc = pc
Start(r, what, m, pc, expected) ==
  /\ At(r, "idle")
  /\ request' = [request EXCEPT ![r] =
       [pc |-> pc, what |-> what, mission |-> m, seen |-> IF pc = "replace" THEN draft[m] ELSE NoDraft,
        expected |-> expected]]
Goto(r, pc) == request' = [request EXCEPT ![r].pc = pc]
End(r) == request' = [request EXCEPT ![r] = Idle]

documents == <<draft, run, approved, dedupe, tombstones>>
queue == <<intent, tasks>>

(* A transaction commits, fails, or commits and its answer is lost.        *)
Transaction(r, effect, next) ==
  \/ effect /\ next /\ UNCHANGED faults
  \/ UNCHANGED <<documents, intent>> /\ Fault("storeError") /\ End(r)
  \/ effect /\ Fault("lostAck") /\ End(r)
Refused(r) == UNCHANGED <<documents, intent, faults>> /\ End(r)

-----------------------------------------------------------------------------
(* IntakeService.intake: an input whose mission still has its draft is a   *)
(* duplicate.  Otherwise the plan is made and stored under a new mission,  *)
(* unless the input has been registered meanwhile, or still is.            *)
Unused(m) == draft[m] = NoDraft /\ m \notin tombstones /\ m \notin approved /\ run[m] = NoRun
             /\ dedupe # m /\ \A r \in Requests : request[r].mission # m

Intake(r, m) ==
  /\ Unused(m)
  /\ dedupe \in Missions => draft[dedupe] = NoDraft
  /\ Start(r, "intake", m, "create", 0)
  /\ UNCHANGED <<documents, queue, faults>>

CreateDraft(r) ==
  LET m == request[r].mission IN
  /\ At(r, "create")
  /\ IF dedupe = "none"
       THEN Transaction(r,
                /\ draft' = [draft EXCEPT ![m] =
                   [state |-> "AWAITING_APPROVAL", plan |-> 1, boundary |-> 0]]
              /\ dedupe' = m
              /\ UNCHANGED <<run, approved, tombstones, intent>>,
              End(r))
       ELSE Refused(r)
  /\ UNCHANGED tasks

-----------------------------------------------------------------------------
(* PlanService: inspect and the checks on what it read.                    *)

(* approve of the plan on the page.  Approved already, it only dispatches  *)
(* the wake again, for the time it is now.                                 *)
Approve(r, m) ==
  /\ \/ /\ draft[m].state = "READY" /\ draft[m].boundary = draft[m].plan
        /\ Start(r, "approve", m, "schedule", 0)
     \/ /\ draft[m].state = "AWAITING_APPROVAL"
        /\ Start(r, "approve", m, "replace", draft[m].plan)
  /\ UNCHANGED <<documents, queue, faults>>

(* revise and selectChannel: a new version of the plan.                    *)
Revise(r, m) ==
  /\ draft[m].state = "AWAITING_APPROVAL" /\ draft[m].plan < MaxVersion
  /\ Start(r, "revise", m, "replace", draft[m].plan)
  /\ UNCHANGED <<documents, queue, faults>>

(* reject looks at no state.                                               *)
Reject(r, m) ==
  /\ draft[m] # NoDraft
  /\ Start(r, "reject", m, "replace", draft[m].plan)
  /\ UNCHANGED <<documents, queue, faults>>

DeleteDraft(r, m) ==
  /\ draft[m].state \in {"AWAITING_APPROVAL", "CANCELLED"}
  /\ Start(r, "deleteDraft", m, "delete", 0)
  /\ UNCHANGED <<documents, queue, faults>>

(* What the request writes in place of the draft it read.                  *)
ReplacementAhead(r) ==                       \* mutant of Replacement
  LET seen == request[r].seen IN
  CASE request[r].what = "approve" -> [seen EXCEPT !.state = "READY", !.boundary = seen.plan + 1]
    [] request[r].what = "revise" -> [seen EXCEPT !.plan = @ + 1]
    [] request[r].what = "reject" -> [seen EXCEPT !.state = "CANCELLED"]

Replacement(r) ==
  LET seen == request[r].seen IN
  CASE request[r].what = "approve" -> [seen EXCEPT !.state = "READY", !.boundary = seen.plan]
    [] request[r].what = "revise" -> [seen EXCEPT !.plan = @ + 1]
    [] request[r].what = "reject" -> [seen EXCEPT !.state = "CANCELLED"]

(* replace: the draft must exist with the version expected; an approval    *)
(* also writes the run, the wake, and the event that may not exist yet.    *)
PlanCurrentAny(r) == TRUE                    \* mutants of PlanCurrent
PlanCurrentIfPresent(r) ==
  draft[request[r].mission] # NoDraft =>
    draft[request[r].mission].plan = request[r].expected
PlanCurrent(r) ==
  /\ draft[request[r].mission] # NoDraft
  /\ draft[request[r].mission].plan = request[r].expected

EventFreeAlways(m) == TRUE                   \* mutant of EventFree
EventFree(m) == m \notin approved

WithoutWake(m) == intent                     \* mutant of WithWake
WithWake(m) == [intent EXCEPT ![m] = "PENDING"]

Replace(r) ==
  LET m == request[r].mission
      approval == request[r].what = "approve"
      store ==
        /\ draft' = [draft EXCEPT ![m] = Replacement(r)]
        /\ IF approval
             THEN /\ run' = [run EXCEPT ![m] =
                       [state |-> "active", version |-> 1, plan |-> request[r].seen.plan]]
                  /\ approved' = approved \cup {m}
                  /\ intent' = WithWake(m)
             ELSE UNCHANGED <<run, approved, intent>>
        /\ UNCHANGED <<dedupe, tombstones>>
  IN
  /\ At(r, "replace")
  /\ IF PlanCurrent(r) /\ (approval => EventFree(m))
       THEN Transaction(r, store, IF approval THEN Goto(r, "schedule") ELSE End(r))
       ELSE Refused(r)
  /\ UNCHANGED tasks

(* The wake of the approval, or of its repetition: that one is for another *)
(* time, has a task of its own, and marks another intent, which nobody     *)
(* stored.                                                                 *)
Dispatch(r) ==
  LET m == request[r].mission IN
  /\ At(r, "schedule")
  /\ \/ tasks' = tasks \cup {m} /\ UNCHANGED faults /\ Goto(r, "mark")
     \/ UNCHANGED tasks /\ Fault("dispatch") /\ End(r)
  /\ UNCHANGED <<documents, intent>>

Mark(r) ==
  /\ At(r, "mark")
  /\ intent' = IF request[r].seen = NoDraft THEN intent
               ELSE [intent EXCEPT ![request[r].mission] = "DISPATCHED"]
  /\ End(r)
  /\ UNCHANGED <<documents, tasks, faults>>

(* The cron dispatches what is PENDING.                                    *)
Reconcile(m) ==
  /\ intent[m] = "PENDING"
  /\ intent' = [intent EXCEPT ![m] = "DISPATCHED"]
  /\ tasks' = tasks \cup {m}
  /\ UNCHANGED <<documents, request, faults>>

(* The transaction of deleteDraft looks at the owner only.                 *)
RemoveDraft(r) ==
  LET m == request[r].mission IN
  /\ At(r, "delete")
  /\ IF draft[m] = NoDraft THEN Refused(r)
     ELSE Transaction(r,
            /\ draft' = [draft EXCEPT ![m] = NoDraft]
            /\ dedupe' = IF dedupe = m THEN "none" ELSE dedupe
            /\ UNCHANGED <<run, approved, tombstones, intent>>,
            End(r))
  /\ UNCHANGED tasks

-----------------------------------------------------------------------------
(* MissionControlService on the run: REVISE and DELETE.                    *)
Control(r, m, what) ==
  /\ run[m] # NoRun
  /\ what = "REVISE" => run[m].state = "active"
  /\ Start(r, what, m, "control", run[m].version)
  /\ UNCHANGED <<documents, queue, faults>>

RunCurrent(r) == run[request[r].mission].version = request[r].expected

(* beginReapproval: the run is revoked and the draft waits for approval.   *)
BeginReapproval(r) ==
  LET m == request[r].mission IN
  /\ At(r, "control") /\ request[r].what = "REVISE"
  /\ IF RunCurrent(r) /\ draft[m] # NoDraft
       THEN /\ run[m].version < MaxVersion
            /\ Transaction(r,
                 /\ run' = [run EXCEPT ![m].state = "CANCELLED", ![m].version = @ + 1]
                 /\ draft' = [draft EXCEPT ![m].state = "AWAITING_APPROVAL", ![m].boundary = 0]
                 /\ UNCHANGED <<approved, dedupe, tombstones, intent>>,
                 End(r))
       ELSE Refused(r)
  /\ UNCHANGED tasks

(* requestDeletion: the run and the draft go in the transaction that       *)
(* writes the tombstone; the rest after it, in two calls.                  *)
RequestDeletion(r) ==
  LET m == request[r].mission IN
  /\ At(r, "control") /\ request[r].what = "DELETE"
  /\ IF RunCurrent(r)
       THEN Transaction(r,
              /\ run' = [run EXCEPT ![m] = NoRun]
              /\ draft' = [draft EXCEPT ![m] = NoDraft]
              /\ tombstones' = tombstones \cup {m}
              /\ UNCHANGED <<approved, dedupe, intent>>,
              Goto(r, "cleanup"))
       ELSE Refused(r)
  /\ UNCHANGED tasks

KeepingDedupe(m) == dedupe                                 \* mutant of WithoutDedupe
WithoutDedupe(m) == IF dedupe = m THEN "none" ELSE dedupe

Cleanup(r) ==
  LET m == request[r].mission IN
  /\ At(r, "cleanup")
  /\ Transaction(r,
       /\ dedupe' = WithoutDedupe(m)
       /\ UNCHANGED <<draft, run, approved, tombstones, intent>>,
       Goto(r, "purge"))
  /\ UNCHANGED tasks

(* recursiveDelete of the run document and its events.                     *)
Purge(r) ==
  LET m == request[r].mission IN
  /\ At(r, "purge")
  /\ Transaction(r,
       /\ approved' = approved \ {m}
       /\ run' = [run EXCEPT ![m] = NoRun]
       /\ UNCHANGED <<draft, dedupe, tombstones, intent>>,
       End(r))
  /\ UNCHANGED tasks

-----------------------------------------------------------------------------
(* The mission runs: its document moves on.                                *)
RunMoves(m) ==
  /\ run[m].state = "active" /\ run[m].version < MaxVersion
  /\ \E state \in {"active", "over"} :
       run' = [run EXCEPT ![m].state = state, ![m].version = @ + 1]
  /\ UNCHANGED <<draft, approved, dedupe, tombstones, queue, request, faults>>

Crash(r) ==
  /\ ~At(r, "idle")
  /\ Fault("crash")
  /\ End(r)
  /\ UNCHANGED <<documents, queue>>

Step(r) ==
  \/ CreateDraft(r) \/ Replace(r) \/ Dispatch(r) \/ Mark(r) \/ RemoveDraft(r) \/ BeginReapproval(r)
  \/ RequestDeletion(r) \/ Cleanup(r) \/ Purge(r)

Next ==
  \/ \E r \in Requests, m \in Missions :
       \/ Intake(r, m)
       \/ Approve(r, m) \/ Revise(r, m) \/ Reject(r, m) \/ DeleteDraft(r, m)
       \/ \E what \in {"REVISE", "DELETE"} : Control(r, m, what)
  \/ \E r \in Requests : Step(r) \/ Crash(r)
  \/ \E m \in Missions : Reconcile(m) \/ RunMoves(m)

Spec == Init /\ [][Next]_vars

-----------------------------------------------------------------------------
(* Safety                                                                  *)

(* A run starts on the plan that is current when it starts: an approval    *)
(* that lost a race against an edit never starts the plan it replaced.     *)
ApprovesCurrentPlan ==
  [][\A m \in Missions : run[m] = NoRun /\ run'[m] # NoRun =>
       draft[m].plan = run'[m].plan /\ run'[m].plan = draft'[m].boundary]_run

(* A run is started once: however approvals are repeated, raced or come    *)
(* after a revision, no second one sets the run back to its first version. *)
NeverRestarted ==
  [][\A m \in Missions : run[m] # NoRun =>
       run'[m] = NoRun \/ run'[m] = run[m] \/ run'[m].version > run[m].version]_run

(* What is deleted stays deleted: no request that read the mission before  *)
(* writes its draft or its run again.                                      *)
DeletionFinal ==
  \A m \in tombstones : draft[m] = NoDraft /\ run[m] = NoRun

(* The input is registered for a mission that has a draft.  The exceptions *)
(* are a deletion that is still at work and one that a fault cut short:    *)
(* the input then names a mission that is gone, and cannot be taken again. *)
Deleting(m) == \E r \in Requests :
  request[r].mission = m /\ request[r].what = "DELETE" /\ request[r].pc = "cleanup"
DedupeBacked ==
  dedupe \in Missions =>
    \/ draft[dedupe] # NoDraft
    \/ dedupe \in tombstones /\ (Deleting(dedupe) \/ faults > 0)

(* An approved run gets its first wake: the intent is stored with the run, *)
(* and is marked only by the request, or the cron, that made its task.     *)
ApprovedWoken ==
  \A m \in Missions : run[m].state = "active" => intent[m] = "PENDING" \/ m \in tasks

-----------------------------------------------------------------------------
(* What the code tells the owner and does not do.                          *)

(* After REVISE the plan can be approved again: an approval that finds the *)
(* draft it read unchanged and waiting is not refused.                     *)
ReapprovalStarts ==
  [][\A r \in Requests :
       /\ At(r, "replace") /\ request[r].what = "approve"
       /\ draft[request[r].mission] = request[r].seen
       /\ request'[r] = Idle
       => faults' # faults]_vars
=============================================================================
