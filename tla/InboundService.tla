--------------------------- MODULE InboundService ---------------------------
(***************************************************************************)
(* What comes back from outside: the process-inbound task, with            *)
(* InboundService.process and VerificationService.verifyOutcome for a      *)
(* reply, and recordTransportEvent for a bounce.                           *)
(*                                                                         *)
(* A reader is one request of the inbound queue.  It takes one step per    *)
(* awaited call, as a worker of MissionRunner does, and any step may be    *)
(* its last.  The provider event's own status is left out: it is marked    *)
(* PROCESSED or FAILED here but only the webhook reads it.                 *)
(***************************************************************************)
EXTENDS MissionStore

CONSTANTS
  Readers,     \* concurrent requests
  Emails,      \* provider events for the mission
  Strangers,   \* those that are replies from an unexpected sender
  Bounces      \* those that are email.bounced, complained or suppressed

ASSUME InboundAssumption ==
  Strangers \cup Bounces \subseteq Emails /\ Strangers \cap Bounces = {}

VARIABLES
  inbound,            \* the Cloud Task of each email
  inboundDeliveries,  \* how often it has been dispatched
  result,             \* what its processing answered, once it was answered 200
  evidence,           \* missionRuns/{missionId}/evidence, by email: the verdict
  reader              \* the request each reader is serving

inboundVars == <<inbound, inboundDeliveries, result, evidence, reader>>

(* accepted; not accepted for some reason but the status; the status is    *)
(* below the required one.                                                 *)
Verdict == {"accepted", "conflict", "insufficient"}

AcceptingUnread == {"RUNNING", "WAITING_EXTERNAL"}  \* mutant of Accepting
Accepting == {"RUNNING", "WAITING_EXTERNAL", "VERIFYING"}

ReaderPC == {"idle", "casVerifying", "interpret", "read", "record", "notify",
             "raise", "create", "mark", "markFailed", "bounce", "answer"}
Answer == {"REJECTED", "NEEDS_ATTENTION", "INSUFFICIENT", "VERIFIED", "RECORDED"}

NoEmail == "none"
ASSUME EmailAssumption == NoEmail \notin Emails

IdleReader ==
  [pc |-> "idle", email |-> NoEmail, item |-> ApprovedMission, finding |-> "none", answer |-> "none"]

InboundTypeOK ==
  /\ inbound \in [Emails -> {"none", "queued", "deleted"}]
  /\ inboundDeliveries \in [Emails -> 0..MaxDeliveries]
  /\ result \in [Emails -> Answer \cup {"none"}]
  /\ evidence \in [Emails -> Verdict \cup {"none"}]
  /\ reader \in [Readers ->
       [pc: ReaderPC, email: Emails \cup {NoEmail}, item: Mission,
        finding: Verdict \cup {"none", "PROPOSAL_CHANGE", "UNEXPECTED_SENDER"},
        answer: Answer \cup {"none"}]]

InboundInit ==
  /\ inbound = [e \in Emails |-> "none"]
  /\ inboundDeliveries = [e \in Emails |-> 0]
  /\ result = [e \in Emails |-> "none"]
  /\ evidence = [e \in Emails |-> "none"]
  /\ reader = [r \in Readers |-> IdleReader]

-----------------------------------------------------------------------------
ReaderAt(r, pc) == reader[r].pc = pc
ReaderGoto(r, pc) == reader' = [reader EXCEPT ![r].pc = pc]
Respond(r, answer) ==
  reader' = [reader EXCEPT ![r] = [IdleReader EXCEPT !.pc = "answer", !.email = reader[r].email, !.answer = answer]]

(* Answered 500: the task stays in the queue.                              *)
GiveUp(r) == reader' = [reader EXCEPT ![r] = IdleReader]

taskUnchanged == UNCHANGED <<inbound, inboundDeliveries, result>>

-----------------------------------------------------------------------------
(* The webhook was accepted and the task created.                          *)
Arrive(e) ==
  /\ inbound[e] = "none"
  /\ inbound' = [inbound EXCEPT ![e] = "queued"]
  /\ UNCHANGED <<inboundDeliveries, result, evidence, reader, sharedVars>>

HeldEmail(e) == \E r \in Readers : reader[r].email = e

(* The queue dispatches the task; the request resolves the reply route and *)
(* reads the document.  The route is only ever added, so the two reads are *)
(* one step.                                                               *)
ReceiveEmail(e) ==
  /\ inbound[e] = "queued"
  /\ inboundDeliveries[e] < MaxDeliveries
  /\ inboundDeliveries' = [inboundDeliveries EXCEPT ![e] = @ + 1]
  /\ \/ ~HeldEmail(e) /\ UNCHANGED faults
     \/ HeldEmail(e) /\ Fault("redeliver")
  /\ UNCHANGED <<storeVars, expired, queueVars, routed, raised, inbound, result, evidence>>

Serve(r, e, request) ==
  /\ ReaderAt(r, "idle")
  /\ ReceiveEmail(e)
  /\ reader' = [reader EXCEPT ![r] = [request EXCEPT !.email = e]]

(* Without a route, or in a state that accepts no reply, the email is      *)
(* answered 200 and never looked at again.                                 *)
Reject(r, e) ==
  /\ IF e \in Bounces THEN ~routed ELSE ~routed \/ mission.state \notin Accepting
  /\ Serve(r, e, [IdleReader EXCEPT !.pc = "answer", !.answer = "REJECTED"])

AcceptBounce(r, e) ==
  /\ e \in Bounces /\ routed
  /\ Serve(r, e, [IdleReader EXCEPT !.pc = "bounce"])

AcceptStranger(r, e) ==
  /\ e \in Strangers /\ routed /\ mission.state \in Accepting
  /\ Serve(r, e, [IdleReader EXCEPT !.pc = "raise", !.finding = "UNEXPECTED_SENDER"])

AcceptReply(r, e) ==
  /\ e \notin Bounces \cup Strangers /\ routed /\ mission.state \in Accepting
  /\ Serve(r, e, [IdleReader EXCEPT !.item = mission,
       !.pc = IF mission.state = "VERIFYING" THEN "interpret" ELSE "casVerifying"])

ServeEmail(r, e) ==
  Reject(r, e) \/ AcceptBounce(r, e) \/ AcceptStranger(r, e) \/ AcceptReply(r, e)

(* No wake is persisted: nextWakeAt stays the old one.                     *)
StartVerifying(r) ==
  LET item == reader[r].item IN
  /\ ReaderAt(r, "casVerifying")
  /\ Transact(item.version, [item EXCEPT !.state = "VERIFYING", !.version = @ + 1],
       FALSE, ReaderGoto(r, "interpret"), GiveUp(r))
  /\ taskUnchanged
  /\ UNCHANGED <<expired, queueVars, routed, raised, evidence>>

(* The model answers anything, or throws; each attempt asks it anew.       *)
Interpret(r) ==
  /\ ReaderAt(r, "interpret")
  /\ \/ /\ \E verdict \in Verdict :
             reader' = [reader EXCEPT ![r].pc = "read", ![r].item = ApprovedMission, ![r].finding = verdict]
        /\ UNCHANGED faults
     \/ /\ reader' = [reader EXCEPT ![r].pc = "raise", ![r].item = ApprovedMission, ![r].finding = "PROPOSAL_CHANGE"]
        /\ UNCHANGED faults
     \/ Fault("interpreter") /\ GiveUp(r)
  /\ taskUnchanged
  /\ UNCHANGED <<storeVars, expired, queueVars, routed, raised, evidence>>

-----------------------------------------------------------------------------
(* VerificationService.verifyOutcome                                       *)

ReadForVerdict(r) ==
  /\ ReaderAt(r, "read")
  /\ IF mission.state \in Accepting
       THEN reader' = [reader EXCEPT ![r].pc = "record", ![r].item = mission]
       ELSE GiveUp(r)
  /\ taskUnchanged
  /\ UNCHANGED <<sharedVars, evidence>>

(* What record writes: the state the verdict decides, and for an           *)
(* insufficient one the next wake.                                         *)
SettledCompleting(verdict) ==  \* mutant of Settled
  [accepted |-> "DONE", conflict |-> "DONE", insufficient |-> "WAITING_EXTERNAL"][verdict]
SettledMisspelt(verdict) ==    \* mutant of Settled
  [accepted |-> "DONE", conflict |-> "ATTENTION", insufficient |-> "WAITING_EXTERNAL"][verdict]
Settled(verdict) ==
  [accepted |-> "DONE", conflict |-> "NEEDS_ATTENTION", insufficient |-> "WAITING_EXTERNAL"][verdict]

Verified(item, verdict) ==
  [item EXCEPT !.state = Settled(verdict), !.version = @ + 1, !.hasWake = verdict = "insufficient"]

WithoutIntent(verdict) == FALSE  \* mutant of WithIntent
WithIntent(verdict) == verdict = "insufficient"

Recorded(e) == evidence[e] # "none"

(* record writes the evidence, the state and the wake in one transaction.  *)
(* Evidence already on record makes it a duplicate, which moves nothing,   *)
(* schedules nothing, but is notified like the first.                      *)
Record(r) ==
  LET e == reader[r].email
      item == reader[r].item
      verdict == reader[r].finding
      waits == verdict = "insufficient"
  IN
  /\ ReaderAt(r, "record")
  /\ \/ /\ Recorded(e)
        /\ UNCHANGED <<storeVars, faults>>
        /\ IF waits THEN Respond(r, "INSUFFICIENT") ELSE ReaderGoto(r, "notify")
     \/ /\ ~Recorded(e)
        /\ Transact(item.version, Verified(item, verdict), WithIntent(verdict),
             ReaderGoto(r, IF waits THEN "create" ELSE "notify"), GiveUp(r))
  /\ evidence' = IF mission' # mission THEN [evidence EXCEPT ![e] = verdict] ELSE evidence
  /\ taskUnchanged
  /\ UNCHANGED <<expired, queueVars, routed, raised>>

(* createIfAbsent of the notification; its delivery may fail after that.   *)
Notify(r) ==
  LET done == reader[r].finding = "accepted"
      notice == {IF done THEN "MISSION_COMPLETED" ELSE "NEEDS_ATTENTION"}
  IN
  /\ ReaderAt(r, "notify")
  /\ \/ /\ raised' = raised \cup notice
        /\ \/ UNCHANGED faults /\ done /\ Respond(r, "VERIFIED")
           \/ UNCHANGED faults /\ ~done /\ ReaderGoto(r, "raise")
           \/ Fault("lostAck") /\ GiveUp(r)
     \/ Fault("storeError") /\ UNCHANGED raised /\ GiveUp(r)
  /\ taskUnchanged
  /\ UNCHANGED <<storeVars, expired, queueVars, routed, evidence>>

(* The intervention of a conflict; for an unexpected sender or changed     *)
(* terms, the intervention and its notification.                           *)
RaiseIntervention(r) ==
  LET finding == reader[r].finding
      question == IF finding = "conflict" THEN {"EVIDENCE_CONFLICT"}
                  ELSE {finding, "NEEDS_ATTENTION"}
  IN
  /\ ReaderAt(r, "raise")
  /\ \/ /\ raised' = raised \cup question
        /\ \/ /\ Respond(r, IF finding = "conflict" THEN "INSUFFICIENT" ELSE "NEEDS_ATTENTION")
              /\ UNCHANGED faults
           \/ Fault("lostAck") /\ GiveUp(r)
     \/ Fault("storeError") /\ UNCHANGED raised /\ GiveUp(r)
  /\ taskUnchanged
  /\ UNCHANGED <<storeVars, expired, queueVars, routed, evidence>>

-----------------------------------------------------------------------------
(* The wake of an insufficient outcome, dispatched by scheduleMission.     *)
VerdictWake(r) == [version |-> reader[r].item.version + 1, name |-> "intent"]

ScheduleVerdictWake(r) ==
  /\ \/ /\ ReaderAt(r, "create")
        /\ ScheduleTask(VerdictWake(r), ReaderGoto(r, "mark"), ReaderGoto(r, "markFailed"))
     \/ /\ ReaderAt(r, "mark")
        /\ RecordDispatched(VerdictWake(r), Respond(r, "INSUFFICIENT"), ReaderGoto(r, "markFailed"))
     \/ /\ ReaderAt(r, "markFailed")
        /\ RecordFailed(VerdictWake(r), GiveUp(r))
  /\ taskUnchanged
  /\ UNCHANGED evidence

(* recordTransportEvent halts the mission whatever version it is at.       *)
HaltedInPlace(item) == [item EXCEPT !.state = "NEEDS_ATTENTION"]  \* mutant of Halted
Halted(item) == [item EXCEPT !.state = "NEEDS_ATTENTION", !.version = @ + 1]

RecordBounce(r) ==
  LET halts == mission.state \notin {"DONE", "CANCELLED"}
      halt == CompareAndSet(mission.version, Halted(mission), FALSE)
              /\ raised' = raised \cup {"EMAIL_ROUTE_UNAVAILABLE", "NEEDS_ATTENTION"}
  IN
  /\ ReaderAt(r, "bounce")
  /\ \/ halts /\ halt /\ UNCHANGED faults /\ Respond(r, "RECORDED")
     \/ ~halts /\ UNCHANGED <<storeVars, raised, faults>> /\ Respond(r, "RECORDED")
     \/ Fault("storeError") /\ UNCHANGED <<storeVars, raised>> /\ GiveUp(r)
     \/ halts /\ halt /\ Fault("lostAck") /\ GiveUp(r)
  /\ taskUnchanged
  /\ UNCHANGED <<expired, queueVars, routed, evidence>>

(* The event is marked PROCESSED and the task answered 200.                *)
AnswerEmail(r) ==
  LET e == reader[r].email IN
  /\ ReaderAt(r, "answer")
  /\ \/ /\ inbound' = [inbound EXCEPT ![e] = "deleted"]
        /\ result' = [result EXCEPT ![e] = reader[r].answer]
        /\ UNCHANGED faults
     \/ Fault("storeError") /\ UNCHANGED <<inbound, result>>
  /\ GiveUp(r)
  /\ UNCHANGED <<storeVars, expired, queueVars, routed, raised, inboundDeliveries, evidence>>

CrashReader(r) ==
  /\ ~ReaderAt(r, "idle")
  /\ Fault("crash")
  /\ GiveUp(r)
  /\ taskUnchanged
  /\ UNCHANGED <<storeVars, expired, queueVars, routed, raised, evidence>>

ReaderStep(r) ==
  \/ StartVerifying(r) \/ Interpret(r) \/ ReadForVerdict(r) \/ Record(r)
  \/ Notify(r) \/ RaiseIntervention(r) \/ ScheduleVerdictWake(r)
  \/ RecordBounce(r) \/ AnswerEmail(r)
=============================================================================
