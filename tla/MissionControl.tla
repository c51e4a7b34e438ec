--------------------------- MODULE MissionControl ---------------------------
(***************************************************************************)
(* The owner's commands over everything that moves the mission by itself:  *)
(* MissionControlService.command and FirestoreMissionControlStore, with    *)
(* the workers of MissionRunner running.  The readers of FollowThrough are *)
(* reduced to their transactions: one that finds another version than it   *)
(* read changes nothing, so each is a step on the current document.        *)
(*                                                                         *)
(* Every page in Pages sends one command at a time, under a fresh          *)
(* idempotency key, for the version it shows.  A page that was already old *)
(* is refused without a trace, so the version is the one current when the  *)
(* command is given.  While it has no answer the command may be sent again *)
(* under its key, even while the first request runs: Tries are the         *)
(* requests of one command.  Deletion is modelled in PlanApproval.         *)
(***************************************************************************)
EXTENDS MissionRunner

CONSTANTS
  Pages,           \* where commands are given
  Tries,           \* requests one command may be sent in
  Controls         \* the actions used

ASSUME ControlAssumption ==
  Controls \subseteq {"STOP", "REVOKE", "EXPIRE", "REOPEN", "RESUME", "REVISE"}

VARIABLES
  resolved,        \* interventions with status RESOLVED
  command,         \* the command of each page, and its missionControlCommands result
  request          \* where each of its requests stands

controlVars == <<resolved, command, request>>
allVars == <<vars, controlVars>>

(* result: the version the command made, 0 while it is not applied.        *)
NoCommand == [action |-> "none", version |-> 0, result |-> 0]

(* Notices that ask the owner a question, and allow some of the commands.  *)
Questions == Notice \ {"NEEDS_ATTENTION", "MISSION_FAILED", "MISSION_COMPLETED"}

ControlTypeOK ==
  /\ TypeOK
  /\ resolved \subseteq Questions \cap raised
  /\ command \in [Pages -> [action: Controls, version: Versions, result: Versions \cup {0}]
                            \cup {NoCommand}]
  /\ request \in [Pages -> [Tries ->
       {"idle", "look", "transact", "create", "mark", "markFailed",
        "createAgain", "markAgain", "reply", "lost"}]]

ControlInit ==
  /\ Init
  /\ resolved = {}
  /\ command = [p \in Pages |-> NoCommand]
  /\ request = [p \in Pages |-> [i \in Tries |-> "idle"]]

-----------------------------------------------------------------------------
RequestAt(p, i, pc) == request[p][i] = pc
RequestGoto(p, i, pc) == request' = [request EXCEPT ![p][i] = pc] /\ UNCHANGED command

(* The page hears the answer; a command of which no request runs is over.  *)
Answered(p, i) ==
  IF \E j \in Tries \ {i} : request[p][j] \notin {"idle", "lost"}
    THEN RequestGoto(p, i, "idle")
    ELSE /\ command' = [command EXCEPT ![p] = NoCommand]
         /\ request' = [request EXCEPT ![p] = [j \in Tries |-> "idle"]]

(* getCommandResult finds nothing under a fresh key.                       *)
Command(p, action) ==
  /\ \A i \in Tries : request[p][i] \in {"idle", "lost"}
  /\ command' = [command EXCEPT ![p] = [action |-> action, version |-> mission.version, result |-> 0]]
  /\ \E i \in Tries :
       request' = [request EXCEPT ![p] = [j \in Tries |-> IF j = i THEN "look" ELSE "idle"]]
  /\ UNCHANGED <<resolved, sharedVars, runnerVars>>

(* Sent again, an applied command is answered with its result, and a       *)
(* RESUME dispatches the wake of that result.                              *)
CommandAgain(p, i) ==
  /\ command[p] # NoCommand
  /\ \/ RequestAt(p, i, "lost") /\ UNCHANGED faults
     \/ RequestAt(p, i, "idle") /\ Fault("resend")
  /\ IF command[p].result = 0 THEN RequestGoto(p, i, "look")
     ELSE IF command[p].action = "RESUME" THEN RequestGoto(p, i, "create")
     ELSE Answered(p, i)
  /\ UNCHANGED <<resolved, storeVars, expired, queueVars, routed, raised, runnerVars>>

(* The checks of command on the document it reads, and for RESUME on the   *)
(* clock of the request.                                                   *)
PermittedAnyBoundary(action) ==  \* mutant of Permitted
  CASE action \in {"STOP", "REVOKE", "EXPIRE"} -> mission.state # "DONE"
    [] action = "REVISE" -> mission.state \notin {"DONE", "CANCELLED", "EXPIRED"}
    [] action = "REOPEN" -> mission.state = "DONE"
    [] action = "RESUME" -> mission.state = "NEEDS_ATTENTION"

Permitted(action) ==
  CASE action \in {"STOP", "REVOKE", "EXPIRE"} -> mission.state # "DONE"
    [] action = "REVISE" -> mission.state \notin {"DONE", "CANCELLED", "EXPIRED"}
    [] action = "REOPEN" -> mission.state = "DONE"
    [] action = "RESUME" -> mission.state = "NEEDS_ATTENTION" /\ ~mission.revoked /\ ~expired

Look(p, i) ==
  /\ RequestAt(p, i, "look")
  /\ IF VersionMatches(command[p].version) /\ Permitted(command[p].action)
       THEN RequestGoto(p, i, "transact")
       ELSE Answered(p, i)
  /\ UNCHANGED <<resolved, sharedVars, runnerVars>>

-----------------------------------------------------------------------------
(* transition and beginReapproval: one transaction over the document, the  *)
(* command, the open interventions and for RESUME the wake intent, due at  *)
(* once.  REVISE leaves the run as STOP does.                              *)
Controlled(action) ==
  [mission EXCEPT
     !.state = CASE action = "REOPEN" -> "NEEDS_ATTENTION"
                 [] action = "RESUME" -> "READY"
                 [] action = "EXPIRE" -> "EXPIRED"
                 [] action \in {"STOP", "REVOKE", "REVISE"} -> "CANCELLED",
     !.version = @ + 1,
     !.hasWake = @ \/ action = "RESUME",
     !.revoked = @ \/ action \notin {"REOPEN", "RESUME"}]

WakesNever(action) == FALSE  \* mutant of Wakes
Wakes(action) == action = "RESUME"

AllResolved == Questions     \* mutant of Resolved
Resolved == raised \cap Questions

Apply(action) ==
  LET next == Controlled(action) IN
  /\ next.version \in Versions
  /\ mission' = next
  /\ idleLong' = FALSE
  /\ wakeDue' = (wakeDue \/ action = "RESUME")
  /\ intents' = IF Wakes(action) THEN [intents EXCEPT ![next.version] = "PENDING"] ELSE intents
  /\ resolved' = Resolved

(* A result already on record is the answer; else the version must match.  *)
(* A RESUME goes on to dispatch the wake of the result; one that finds it  *)
(* here does so for the time on its own clock.                             *)
Applied(p) == command[p].result # 0

Transition(p, i) ==
  LET action == command[p].action
      repeated == IF action = "RESUME"
                    THEN RequestGoto(p, i, "create") \/ RequestGoto(p, i, "createAgain")
                    ELSE Answered(p, i)
      record(pc) ==
        /\ command' = [command EXCEPT ![p].result = mission.version + 1]
        /\ request' = [request EXCEPT ![p][i] = pc]
  IN
  /\ RequestAt(p, i, "transact")
  /\ \/ Applied(p) /\ UNCHANGED <<storeVars, resolved, faults>> /\ repeated
     \/ /\ ~Applied(p) /\ VersionMatches(command[p].version)
        /\ Apply(action)
        /\ \/ record(IF action = "RESUME" THEN "create" ELSE "reply") /\ UNCHANGED faults
           \/ record("lost") /\ Fault("lostAck")
     \/ /\ ~Applied(p) /\ ~VersionMatches(command[p].version)
        /\ UNCHANGED <<storeVars, resolved, faults>> /\ Answered(p, i)
     \/ UNCHANGED <<storeVars, resolved>> /\ Fault("storeError") /\ Answered(p, i)
  /\ UNCHANGED <<expired, queueVars, routed, raised, runnerVars>>

Reply(p, i) ==
  /\ RequestAt(p, i, "reply")
  /\ Answered(p, i)
  /\ UNCHANGED <<resolved, sharedVars, runnerVars>>

(* scheduleMission of the RESUME, with the four plain fields.              *)
ResumeWake(p) == Plain(command[p].result)

ScheduleResume(p, i) ==
  /\ \/ /\ RequestAt(p, i, "create")
        /\ ScheduleTask(ResumeWake(p), RequestGoto(p, i, "mark"), RequestGoto(p, i, "markFailed"))
     \/ /\ RequestAt(p, i, "mark")
        /\ RecordDispatched(ResumeWake(p), Answered(p, i), RequestGoto(p, i, "markFailed"))
     \/ /\ RequestAt(p, i, "markFailed")
        /\ RecordFailed(ResumeWake(p), RequestGoto(p, i, "lost"))
  /\ UNCHANGED <<resolved, runnerVars>>

(* Another clock, another intent: its task has a name of its own, and the  *)
(* marks go to a document that no transaction wrote and nobody reads.      *)
ResumeAgain(p) == [version |-> command[p].result, name |-> "resume"]

ScheduleAgain(p, i) ==
  /\ \/ /\ RequestAt(p, i, "createAgain")
        /\ ScheduleTask(ResumeAgain(p), RequestGoto(p, i, "markAgain"), RequestGoto(p, i, "lost"))
     \/ /\ RequestAt(p, i, "markAgain")
        /\ \/ Answered(p, i) /\ UNCHANGED faults
           \/ RequestGoto(p, i, "lost") /\ Fault("storeError")
        /\ UNCHANGED <<storeVars, expired, queueVars, routed, raised>>
  /\ UNCHANGED <<resolved, runnerVars>>

(* The process serving a command stops.                                    *)
CrashControl(p, i) ==
  /\ request[p][i] \notin {"idle", "lost"}
  /\ Fault("controlCrash")
  /\ RequestGoto(p, i, "lost")
  /\ UNCHANGED <<resolved, storeVars, expired, queueVars, routed, raised, runnerVars>>

RequestStep(p, i) == Look(p, i) \/ Transition(p, i) \/ Reply(p, i) \/ ScheduleResume(p, i)
  \/ ScheduleAgain(p, i)

-----------------------------------------------------------------------------
(* What the readers commit: a reply starts verifying, its verdict or that  *)
(* of a merchant's callback settles the mission, a bounce halts it         *)
(* whatever its state but two.  The wake of an insufficient outcome is     *)
(* left to the cron.                                                       *)
Committed(next, wake, notices) ==
  /\ CompareAndSet(mission.version, next, wake)
  /\ raised' = raised \cup notices
  /\ UNCHANGED <<expired, queueVars, routed, faults, runnerVars, controlVars>>

Replied ==
  /\ routed /\ mission.state \in {"RUNNING", "WAITING_EXTERNAL"}
  /\ Committed([mission EXCEPT !.state = "VERIFYING", !.version = @ + 1], FALSE, {})

Judged(state, notices) ==
  /\ mission.state \in {"RUNNING", "WAITING_EXTERNAL", "VERIFYING"}
  /\ Committed([mission EXCEPT !.state = state, !.version = @ + 1, !.hasWake = state = "WAITING_EXTERNAL"],
       state = "WAITING_EXTERNAL", notices)

Bounced ==
  /\ routed /\ mission.state \notin {"DONE", "CANCELLED"}
  /\ Committed([mission EXCEPT !.state = "NEEDS_ATTENTION", !.version = @ + 1], FALSE,
       {"EMAIL_ROUTE_UNAVAILABLE", "NEEDS_ATTENTION"})

ReaderCommits ==
  \/ Replied
  \/ Judged("DONE", {"MISSION_COMPLETED"})
  \/ Judged("NEEDS_ATTENTION", {"EVIDENCE_CONFLICT", "NEEDS_ATTENTION"})
  \/ Judged("WAITING_EXTERNAL", {})
  \/ Bounced

-----------------------------------------------------------------------------
ControlNext ==
  \/ Next /\ UNCHANGED controlVars
  \/ ReaderCommits
  \/ \E p \in Pages, action \in Controls : Command(p, action)
  \/ \E p \in Pages, i \in Tries : CommandAgain(p, i) \/ RequestStep(p, i) \/ CrashControl(p, i)

ControlSpec == ControlInit /\ [][ControlNext]_allVars

-----------------------------------------------------------------------------
(* Safety                                                                  *)

(* The owner's stop, revocation, expiry or revision is final: whatever the *)
(* workers and readers write from documents they read before it, and even  *)
(* when a bounce reopens the expired mission as NEEDS_ATTENTION, the       *)
(* mission never runs again under the authority that was taken back.       *)
RevocationFinal ==
  [][mission.revoked =>
       mission'.revoked /\ mission'.state \notin Runnable \cup InProgress]_mission

(* Only the owner moves a mission out of NEEDS_ATTENTION, with a command   *)
(* given on the page of exactly that halt: no late worker or reader, and   *)
(* no command given before the halt, ends it.                              *)
HaltOwned ==
  [][mission.state = "NEEDS_ATTENTION" /\ mission'.state # "NEEDS_ATTENTION" =>
       \E p \in Pages, i \in Tries :
         RequestAt(p, i, "transact") /\ command[p].version = mission.version]_mission

(* After the authority is taken back at most one more message goes out:    *)
(* the action whose request had read the document before, once.            *)
OneSendAfterStop ==
  [][mission.revoked =>
       \A k \in Ordinals : accepted'[k] # accepted[k] =>
         k = mission.ordinal /\ accepted'[k] = 1]_accepted

(* A RESUME gives the mission a wake whatever happens to its request: the  *)
(* intent is committed with the state, and a lost answer, a crash or a     *)
(* failed dispatch leaves it PENDING for the cron.                         *)
WakeSurvivesControl == WakeOrAbandoned

=============================================================================
