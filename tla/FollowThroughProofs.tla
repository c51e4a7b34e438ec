------------------------ MODULE FollowThroughProofs ------------------------
(***************************************************************************)
(* Theorems about FollowThrough: the workers' invariant survives the       *)
(* readers of the inbound queue, and what the readers add to it.  The      *)
(* steps of the workers are those of MissionRunner, whose lemmas are used  *)
(* through an instance of its proofs.                                      *)
(***************************************************************************)
EXTENDS FollowThrough, TLAPS

RP == INSTANCE MissionRunnerProofs

-----------------------------------------------------------------------------
(* Why                                                                     *)

(* Nobody keeps the document of a mission that is over or halted: a worker *)
(* or a reader that reads one ends at once.                                *)
Active == Runnable \cup InProgress
ActiveItems ==
  /\ \A w \in RP!Actors : worker[w].item.state \in Active
  /\ \A r \in Readers : reader[r].item.state \in Active

(* What a reader has read is the current document or an older version.     *)
ReadersCurrent ==
  \A r \in Readers :
    /\ reader[r].item.version <= mission.version
    /\ reader[r].item.version = mission.version => reader[r].item = mission

(* A reader at work has an email, and a finding that fits where it stands. *)
Fits(pc, finding) ==
  /\ pc \in {"read", "record"} => finding \in Verdict
  /\ pc = "notify" => finding \in {"accepted", "conflict"}
  /\ pc = "raise" => finding \in {"conflict", "PROPOSAL_CHANGE", "UNEXPECTED_SENDER"}
Knows(request) ==
  /\ request.pc # "idle" => request.email \in Emails
  /\ Fits(request.pc, request.finding)
ReadersKnow == \A r \in Readers : Knows(reader[r])

FollowInvariant ==
  /\ TypeOK
  /\ RP!RunnerInvariant
  /\ ActiveItems
  /\ ReadersCurrent
  /\ ReadersKnow
  /\ DoneIsEvidenced

-----------------------------------------------------------------------------
(* The two instances of MissionRunner, and this module's own MissionStore, *)
(* define the same.                                                        *)
LEMMA SameRunner ==
  /\ RP!TypeOK <=> Runner!TypeOK
  /\ RP!Init <=> Runner!Init
  /\ RP!Next <=> Runner!Next
PROOF
  BY Zenon
     DEF RP!storeVars, Runner!storeVars, RP!queueVars, Runner!queueVars, RP!clockVars,
         Runner!clockVars, RP!sharedVars, Runner!sharedVars, RP!Runnable, Runner!Runnable,
         RP!InProgress, Runner!InProgress, RP!Terminal, Runner!Terminal, RP!State, Runner!State,
         RP!Mission, Runner!Mission, RP!Notice, Runner!Notice, RP!Task, Runner!Task,
         RP!ApprovedMission, Runner!ApprovedMission, RP!StoreInit, Runner!StoreInit,
         RP!StoreTypeOK, Runner!StoreTypeOK, RP!Fault, Runner!Fault, RP!VersionMatches,
         Runner!VersionMatches, RP!CompareAndSet, Runner!CompareAndSet, RP!Transact,
         Runner!Transact, RP!CreateTask, Runner!CreateTask, RP!MarkIntent, Runner!MarkIntent,
         RP!ScheduleTask, Runner!ScheduleTask, RP!RecordDispatched, Runner!RecordDispatched,
         RP!RecordFailed, Runner!RecordFailed, RP!WakeTimeArrives, Runner!WakeTimeArrives,
         RP!FiveMinutesPass, Runner!FiveMinutesPass, RP!BoundaryExpires, Runner!BoundaryExpires,
         RP!Tick, Runner!Tick, RP!runnerVars, Runner!runnerVars, RP!vars, Runner!vars,
         RP!Ordinals, Runner!Ordinals, RP!Actors, Runner!Actors, RP!Brokering, Runner!Brokering,
         RP!PC, Runner!PC, RP!NoTask, Runner!NoTask, RP!Idle, Runner!Idle, RP!Request,
         Runner!Request, RP!TypeOK, Runner!TypeOK, RP!RunnerInit, Runner!RunnerInit, RP!Init,
         Runner!Init, RP!At, Runner!At, RP!Goto, Runner!Goto, RP!Dispatch, Runner!Dispatch,
         RP!Answering, Runner!Answering, RP!FinishInFlight, Runner!FinishInFlight,
         RP!Finish, Runner!Finish, RP!Release, Runner!Release, RP!Intent, Runner!Intent,
         RP!Plain, Runner!Plain, RP!Held, Runner!Held, RP!OnTime, Runner!OnTime, RP!Receive,
         Runner!Receive, RP!Begin, Runner!Begin, RP!ReadDocument, Runner!ReadDocument,
         RP!IsStuck, Runner!IsStuck, RP!IsStale, Runner!IsStale, RP!DeliverStale,
         Runner!DeliverStale, RP!DeliverStuck, Runner!DeliverStuck, RP!DeliverEarly,
         Runner!DeliverEarly, RP!BudgetSpent, Runner!BudgetSpent, RP!DeliverDue,
         Runner!DeliverDue, RP!Deliver, Runner!Deliver, RP!brokerUnchanged,
         Runner!brokerUnchanged, RP!Free, Runner!Free, RP!Finished, Runner!Finished, RP!Reserve,
         Runner!Reserve, RP!ReserveBudget, Runner!ReserveBudget, RP!CallProvider,
         Runner!CallProvider, RP!Succeed, Runner!Succeed, RP!SettleRecord, Runner!SettleRecord,
         RP!MarkUnknown, Runner!MarkUnknown, RP!Fail, Runner!Fail, RP!Broker, Runner!Broker,
         RP!Advanced, Runner!Advanced, RP!Retrying, Runner!Retrying, RP!RecoveryExhausted,
         Runner!RecoveryExhausted, RP!Denied, Runner!Denied, RP!BudgetExhausted,
         Runner!BudgetExhausted, RP!Recovered, Runner!Recovered, RP!Publish, Runner!Publish,
         RP!DispatchWake, Runner!DispatchWake, RP!PublishSuccess, Runner!PublishSuccess,
         RP!RetriesExhausted, Runner!RetriesExhausted, RP!PublishRetry, Runner!PublishRetry,
         RP!PublishRecoveryExhausted, Runner!PublishRecoveryExhausted, RP!PublishDenied,
         Runner!PublishDenied, RP!PublishBudgetExhausted, Runner!PublishBudgetExhausted,
         RP!PublishRecovered, Runner!PublishRecovered, RP!Raise, Runner!Raise, RP!Run,
         Runner!Run, RP!CreateWake, Runner!CreateWake, RP!MarkDispatched, Runner!MarkDispatched,
         RP!MarkFailed, Runner!MarkFailed, RP!Acknowledge, Runner!Acknowledge, RP!Schedule,
         Runner!Schedule, RP!Reconcile, Runner!Reconcile, RP!Crash, Runner!Crash, RP!ReplyStarts,
         Runner!ReplyStarts, RP!Step, Runner!Step, RP!Next, Runner!Next

LEMMA SameStore ==
  /\ RP!StoreTypeOK <=> StoreTypeOK
  /\ RP!Mission = Mission /\ RP!ApprovedMission = ApprovedMission
  /\ RP!Runnable = Runnable /\ RP!InProgress = InProgress
PROOF
  BY Zenon
     DEF RP!StoreTypeOK, StoreTypeOK, RP!Mission, Mission, RP!State, State, RP!Runnable, Runnable,
         RP!InProgress, InProgress, RP!Terminal, Terminal, RP!Notice, Notice, RP!Task, Task,
         RP!ApprovedMission, ApprovedMission

LEMMA SamePrimed == (RP!TypeOK' <=> Runner!TypeOK') /\ (RP!StoreTypeOK' <=> StoreTypeOK')
PROOF
  <1>1. (RP!TypeOK <=> Runner!TypeOK)'
    BY SameRunner, PTL
  <1>2. (RP!StoreTypeOK <=> StoreTypeOK)'
    BY SameStore, PTL
  <1> QED
    BY <1>1, <1>2

(* What the lemmas of MissionRunner assume of its constants holds here.    *)
LEMMA RunnerAssumed ==
  RP!VersionsAssumption /\ RP!DeliveryAssumption /\ RP!FaultAssumption /\ RP!RunnerAssumption
PROOF
  BY VersionsAssumption, DeliveryAssumption, FaultAssumption, FollowAssumption
     DEF RP!VersionsAssumption, RP!DeliveryAssumption, RP!FaultAssumption, RP!RunnerAssumption

(* The approved document is well typed and active.                         *)
LEMMA Approved ==
  ApprovedMission \in Mission /\ ApprovedMission.version = 1 /\ ApprovedMission.state \in Active
PROOF
  BY VersionsAssumption DEF ApprovedMission, Mission, State, Runnable, Active

-----------------------------------------------------------------------------
(* What a step of a reader does to its request                             *)

ReaderType ==
  [pc: ReaderPC, email: Emails \cup {NoEmail}, item: Mission,
   finding: Verdict \cup {"none", "PROPOSAL_CHANGE", "UNEXPECTED_SENDER"},
   answer: Answer \cup {"none"}]

(* A step keeps the document it read, forgets it, or reads an active one.  *)
ReaderMoves(r) ==
  /\ reader' \in [Readers -> ReaderType]
  /\ \A q \in Readers : q # r => reader'[q] = reader[q]
  /\ \/ reader'[r].item \in {reader[r].item, ApprovedMission}
     \/ reader'[r].item = mission /\ mission.state \in Active
  /\ Knows(reader'[r])

LEMMA ReaderSets ==
  ASSUME reader \in [Readers -> ReaderType], NEW r \in Readers, NEW request \in ReaderType,
         reader' = [reader EXCEPT ![r] = request], Knows(request),
         \/ request.item \in {reader[r].item, ApprovedMission}
         \/ request.item = mission /\ mission.state \in Active
  PROVE  ReaderMoves(r)
PROOF
  <1>1. reader' \in [Readers -> ReaderType]
    OBVIOUS
  <1>2. reader'[r] = request /\ \A q \in Readers : q # r => reader'[q] = reader[q]
    OBVIOUS
  <1> QED
    BY <1>1, <1>2 DEF ReaderMoves

LEMMA IdleReaderTyped == IdleReader \in ReaderType /\ IdleReader.item = ApprovedMission /\ IdleReader.pc = "idle"
PROOF
  BY Approved DEF IdleReader, ReaderType, ReaderPC

LEMMA GiveUpMoves ==
  ASSUME reader \in [Readers -> ReaderType], NEW r \in Readers, GiveUp(r)
  PROVE  ReaderMoves(r)
PROOF
  <1>1. Knows(IdleReader)
    BY IdleReaderTyped DEF Knows, Fits
  <1> QED
    BY <1>1, ReaderSets, IdleReaderTyped DEF GiveUp

LEMMA RespondMoves ==
  ASSUME reader \in [Readers -> ReaderType], NEW r \in Readers, reader[r].email \in Emails,
         NEW answer \in Answer, Respond(r, answer)
  PROVE  ReaderMoves(r)
PROOF
  <1>1. ASSUME NEW e \in Emails
        PROVE  /\ [IdleReader EXCEPT !.pc = "answer", !.email = e, !.answer = answer] \in ReaderType
               /\ [IdleReader EXCEPT !.pc = "answer", !.email = e, !.answer = answer].pc = "answer"
               /\ [IdleReader EXCEPT !.pc = "answer", !.email = e, !.answer = answer].email = e
               /\ [IdleReader EXCEPT !.pc = "answer", !.email = e, !.answer = answer].item = ApprovedMission
    BY Approved DEF IdleReader, ReaderType, ReaderPC
  <1> DEFINE request == [IdleReader EXCEPT !.pc = "answer", !.email = reader[r].email, !.answer = answer]
  <1>2. request \in ReaderType /\ request.pc = "answer" /\ request.email \in Emails /\ request.item = ApprovedMission
    BY <1>1
  <1>3. Knows(request)
    BY <1>2 DEF Knows, Fits
  <1>4. reader' = [reader EXCEPT ![r] = request]
    BY DEF Respond
  <1> HIDE DEF request
  <1> QED
    BY <1>2, <1>3, <1>4, ReaderSets

LEMMA GotoMoves ==
  ASSUME reader \in [Readers -> ReaderType], NEW r \in Readers, reader[r].email \in Emails,
         NEW pc \in ReaderPC, Fits(pc, reader[r].finding), ReaderGoto(r, pc)
  PROVE  ReaderMoves(r)
PROOF
  <1>1. ASSUME NEW old \in ReaderType
        PROVE  /\ [old EXCEPT !.pc = pc] \in ReaderType
               /\ [old EXCEPT !.pc = pc].pc = pc
               /\ [old EXCEPT !.pc = pc].email = old.email
               /\ [old EXCEPT !.pc = pc].item = old.item
               /\ [old EXCEPT !.pc = pc].finding = old.finding
    BY DEF ReaderType
  <1> DEFINE request == [reader[r] EXCEPT !.pc = pc]
  <1>2. /\ request \in ReaderType /\ request.pc = pc /\ request.email \in Emails /\ request.item = reader[r].item
        /\ request.finding = reader[r].finding
    BY <1>1
  <1>3. Knows(request)
    BY <1>2 DEF Knows
  <1>4. reader' = [reader EXCEPT ![r] = request]
    BY DEF ReaderGoto
  <1> HIDE DEF request
  <1> QED
    BY <1>2, <1>3, <1>4, ReaderSets

-----------------------------------------------------------------------------
(* What a step of a reader does to what it shares                          *)

(* The document moves by one version, from an active one, or to a halt of  *)
(* one that is not done.                                                   *)
MissionMoves ==
  \/ UNCHANGED mission
  \/ /\ mission' \in Mission
     /\ mission'.version = mission.version + 1 /\ mission'.ordinal = mission.ordinal
     /\ mission.state \in Active \/ (mission.state # "DONE" /\ mission'.state = "NEEDS_ATTENTION")

LEMMA FaultTyped ==
  ASSUME faults \in 0..MaxFaults, NEW f, Fault(f)
  PROVE  faults' \in 0..MaxFaults
PROOF
  BY FaultAssumption DEF Fault

LEMMA CommitTyped ==
  ASSUME StoreTypeOK, NEW v, NEW next, NEW wake \in BOOLEAN,
         next.version \in Versions => next \in Mission,
         CompareAndSet(v, next, wake)
  PROVE  /\ mission.version = v /\ mission' = next /\ next \in Mission
         /\ wakeDue' \in BOOLEAN /\ idleLong' \in BOOLEAN
         /\ intents' \in [Versions -> {"none", "PENDING", "DISPATCHED", "HOLLOW"}]
PROOF
  BY DEF CompareAndSet, VersionMatches, StoreTypeOK

LEMMA StoreKept ==
  ASSUME StoreTypeOK,
         \/ UNCHANGED storeVars
         \/ \E v, next : \E wake \in BOOLEAN :
              (next.version \in Versions => next \in Mission) /\ CompareAndSet(v, next, wake),
         UNCHANGED faults \/ \E f : Fault(f),
         raised' \subseteq raised \cup Notice,
         UNCHANGED <<expired, queueVars, routed>>
  PROVE  StoreTypeOK'
PROOF
  <1>1. /\ mission' \in Mission /\ wakeDue' \in BOOLEAN /\ idleLong' \in BOOLEAN
        /\ intents' \in [Versions -> {"none", "PENDING", "DISPATCHED", "HOLLOW"}]
    <2>1. CASE UNCHANGED storeVars
      BY <2>1 DEF StoreTypeOK, storeVars
    <2>2. CASE ~UNCHANGED storeVars
      <3>1. PICK v, next : \E wake \in BOOLEAN :
              (next.version \in Versions => next \in Mission) /\ CompareAndSet(v, next, wake)
        BY <2>2
      <3>2. PICK wake \in BOOLEAN : (next.version \in Versions => next \in Mission) /\ CompareAndSet(v, next, wake)
        BY <3>1
      <3> QED
        BY <3>2, CommitTyped
    <2> QED
      BY <2>1, <2>2
  <1>2. faults' \in 0..MaxFaults
    BY FaultTyped DEF StoreTypeOK
  <1>3. raised' \subseteq Notice
    BY DEF StoreTypeOK
  <1> QED
    BY <1>1, <1>2, <1>3 DEF StoreTypeOK, queueVars

(* What is left to show of a step of a reader.                             *)
InboxTyped ==
  /\ inbound \in [Emails -> {"none", "queued", "deleted"}]
  /\ inboundDeliveries \in [Emails -> 0..MaxDeliveries]
  /\ result \in [Emails -> Answer \cup {"none"}]
  /\ evidence \in [Emails -> Verdict \cup {"none"}]

LEMMA ReaderInvariant ==
  ASSUME FollowInvariant, UNCHANGED runnerVars,
         UNCHANGED reader \/ \E r \in Readers : ReaderMoves(r),
         StoreTypeOK', InboxTyped', MissionMoves, DoneIsEvidenced'
  PROVE  FollowInvariant'
PROOF
  <1>1. /\ reader \in [Readers -> ReaderType] /\ StoreTypeOK /\ mission \in Mission /\ RP!TypeOK
        /\ mission.version \in Nat
    BY SameRunner, SameStore, VersionsAssumption
       DEF FollowInvariant, TypeOK, InboundTypeOK, ReaderType, RP!TypeOK, StoreTypeOK, Mission
  <1>2. /\ reader' \in [Readers -> ReaderType]
        /\ \A r \in Readers :
             \/ reader'[r].item \in {reader[r].item, ApprovedMission}
             \/ reader'[r].item = mission /\ mission.state \in Active
    BY <1>1 DEF ReaderMoves
  <1>3. RP!TypeOK'
    <2>1. RP!StoreTypeOK'
      BY SamePrimed
    <2> QED
      BY <1>1, <2>1 DEF RP!TypeOK, runnerVars
  <1>4. TypeOK'
    <2>1. Runner!TypeOK'
      BY <1>3, SamePrimed
    <2>2. InboundTypeOK'
      BY <1>2 DEF InboxTyped, InboundTypeOK, ReaderType
    <2> QED
      BY <2>1, <2>2 DEF TypeOK
  <1>5. RP!RunnerInvariant'
    <2>1. RP!Calms
      BY DEF RP!Calms, runnerVars
    <2>2. RP!Moves
      BY DEF MissionMoves, RP!Moves
    <2>3. UNCHANGED <<records, accepted>>
      BY DEF runnerVars
    <2>4. RP!TypeOK /\ RP!RunnerInvariant
      BY <1>1 DEF FollowInvariant
    <2> QED
      BY <1>3, <2>1, <2>2, <2>3, <2>4, RunnerAssumed, RP!QuietInvariant
  <1>6. ActiveItems'
    BY <1>2, Approved DEF FollowInvariant, ActiveItems, runnerVars
  <1>7. ReadersCurrent'
    <2>0. mission.version \in Nat \ {0}
      BY <1>1, VersionsAssumption DEF Mission
    <2>1. mission.version >= 1 /\ (mission.version = 1 => mission = ApprovedMission)
      BY <2>0, SameStore DEF FollowInvariant, RP!RunnerInvariant, RP!SnapshotsCurrent
    <2>2. ASSUME NEW r \in Readers
          PROVE  /\ reader'[r].item.version \in Nat
                 /\ reader'[r].item.version <= mission.version
                 /\ reader'[r].item.version = mission.version => reader'[r].item = mission
      <3>1. reader'[r].item.version \in Nat
        BY <1>2, VersionsAssumption DEF ReaderType, Mission
      <3> QED
        BY <1>1, <1>2, <2>1, <3>1, Approved DEF FollowInvariant, ReadersCurrent
    <2> QED
      BY <1>1, <2>2 DEF MissionMoves, ReadersCurrent
  <1>8. ReadersKnow'
    BY DEF FollowInvariant, ReadersKnow, ReaderMoves
  <1> QED
    BY <1>4, <1>5, <1>6, <1>7, <1>8 DEF FollowInvariant

ReaderSound(r) ==
  ReaderMoves(r) /\ StoreTypeOK' /\ InboxTyped' /\ MissionMoves /\ DoneIsEvidenced'

LEMMA ReaderHas ==
  ASSUME FollowInvariant, NEW r \in Readers
  PROVE  /\ reader \in [Readers -> ReaderType] /\ reader[r] \in ReaderType
         /\ Knows(reader[r])
         /\ reader[r].item.state \in Active
         /\ StoreTypeOK /\ InboxTyped /\ mission \in Mission
PROOF
  <1>1. reader \in [Readers -> ReaderType] /\ InboxTyped
    BY DEF FollowInvariant, TypeOK, InboundTypeOK, ReaderType, InboxTyped
  <1>2. StoreTypeOK
    <2>1. RP!TypeOK
      BY SameRunner DEF FollowInvariant, TypeOK
    <2> QED
      BY <2>1, SameStore DEF RP!TypeOK
  <1>3. Knows(reader[r]) /\ reader[r].item.state \in Active
    BY DEF FollowInvariant, ReadersKnow, ActiveItems
  <1> QED
    BY <1>1, <1>2, <1>3 DEF StoreTypeOK

(* A step that leaves the document and the evidence alone.                 *)
LEMMA QuietReader ==
  ASSUME FollowInvariant, NEW r \in Readers, ReaderMoves(r), UNCHANGED <<storeVars, expired, queueVars, routed, evidence>>,
         inbound' \in [Emails -> {"none", "queued", "deleted"}],
         inboundDeliveries' \in [Emails -> 0..MaxDeliveries],
         result' \in [Emails -> Answer \cup {"none"}],
         raised' \subseteq raised \cup Notice,
         UNCHANGED faults \/ \E f : Fault(f)
  PROVE  ReaderSound(r)
PROOF
  <1>1. StoreTypeOK'
    BY ReaderHas, StoreKept
  <1>2. InboxTyped'
    BY ReaderHas DEF InboxTyped
  <1>3. MissionMoves /\ DoneIsEvidenced'
    BY DEF MissionMoves, storeVars, FollowInvariant, DoneIsEvidenced
  <1> QED
    BY <1>1, <1>2, <1>3 DEF ReaderSound

-----------------------------------------------------------------------------
(* A delivery reads the document into the new request.                     *)
LEMMA ReceiveEffect ==
  ASSUME FollowInvariant, NEW e \in Emails, ReceiveEmail(e), NEW r \in Readers
  PROVE  /\ UNCHANGED <<storeVars, expired, queueVars, routed, evidence, raised>>
         /\ inbound' \in [Emails -> {"none", "queued", "deleted"}]
         /\ inboundDeliveries' \in [Emails -> 0..MaxDeliveries]
         /\ result' \in [Emails -> Answer \cup {"none"}]
         /\ UNCHANGED faults \/ \E f : Fault(f)
PROOF
  <1>1. InboxTyped
    BY ReaderHas
  <1>2. inboundDeliveries[e] \in 0..MaxDeliveries /\ MaxDeliveries \in Nat
    BY <1>1, DeliveryAssumption DEF InboxTyped
  <1>3. inboundDeliveries[e] + 1 \in 0..MaxDeliveries
    BY <1>2 DEF ReceiveEmail
  <1>4. inboundDeliveries' \in [Emails -> 0..MaxDeliveries]
    BY <1>1, <1>3 DEF ReceiveEmail, InboxTyped
  <1> QED
    BY <1>1, <1>4 DEF ReceiveEmail, InboxTyped

LEMMA ServeSound ==
  ASSUME FollowInvariant, NEW r \in Readers, NEW e \in Emails, NEW request \in ReaderType,
         Fits(request.pc, request.finding),
         request.item = ApprovedMission \/ (request.item = mission /\ mission.state \in Active),
         Serve(r, e, request)
  PROVE  ReaderSound(r)
PROOF
  <1>1. ASSUME NEW x \in Emails
        PROVE  /\ [request EXCEPT !.email = x] \in ReaderType
               /\ [request EXCEPT !.email = x].email = x
               /\ [request EXCEPT !.email = x].pc = request.pc
               /\ [request EXCEPT !.email = x].item = request.item
               /\ [request EXCEPT !.email = x].finding = request.finding
    BY DEF ReaderType
  <1> DEFINE served == [request EXCEPT !.email = e]
  <1>2. /\ served \in ReaderType /\ served.email = e /\ served.pc = request.pc /\ served.item = request.item
        /\ served.finding = request.finding
    BY <1>1
  <1>3. reader' = [reader EXCEPT ![r] = served] /\ ReceiveEmail(e)
    BY DEF Serve
  <1>4. reader \in [Readers -> ReaderType]
    BY ReaderHas
  <1> HIDE DEF served
  <1>5. Knows(served)
    BY <1>2 DEF Knows
  <1>6. ReaderMoves(r)
    BY <1>2, <1>3, <1>4, <1>5, ReaderSets
  <1> QED
    BY <1>3, <1>6, ReceiveEffect, QuietReader

LEMMA ServeEmailSound ==
  ASSUME FollowInvariant, NEW r \in Readers, NEW e \in Emails, ServeEmail(r, e)
  PROVE  ReaderSound(r)
PROOF
  <1>1. CASE Reject(r, e)
    <2> DEFINE request == [IdleReader EXCEPT !.pc = "answer", !.answer = "REJECTED"]
    <2>1. request \in ReaderType /\ request.pc = "answer" /\ request.item = ApprovedMission
      BY Approved DEF IdleReader, ReaderType, ReaderPC, Answer
    <2>2. Fits(request.pc, request.finding)
      BY <2>1 DEF Fits
    <2>3. Serve(r, e, request)
      BY <1>1 DEF Reject
    <2> HIDE DEF request
    <2> QED
      BY <2>1, <2>2, <2>3, ServeSound
  <1>2. CASE AcceptBounce(r, e)
    <2> DEFINE request == [IdleReader EXCEPT !.pc = "bounce"]
    <2>1. request \in ReaderType /\ request.pc = "bounce" /\ request.item = ApprovedMission
      BY Approved DEF IdleReader, ReaderType, ReaderPC
    <2>2. Fits(request.pc, request.finding)
      BY <2>1 DEF Fits
    <2>3. Serve(r, e, request)
      BY <1>2 DEF AcceptBounce
    <2> HIDE DEF request
    <2> QED
      BY <2>1, <2>2, <2>3, ServeSound
  <1>3. CASE AcceptStranger(r, e)
    <2> DEFINE request == [IdleReader EXCEPT !.pc = "raise", !.finding = "UNEXPECTED_SENDER"]
    <2>1. request \in ReaderType /\ request.pc = "raise" /\ request.item = ApprovedMission
          /\ request.finding = "UNEXPECTED_SENDER"
      BY Approved DEF IdleReader, ReaderType, ReaderPC
    <2>2. Fits(request.pc, request.finding)
      BY <2>1 DEF Fits
    <2>3. Serve(r, e, request)
      BY <1>3 DEF AcceptStranger
    <2> HIDE DEF request
    <2> QED
      BY <2>1, <2>2, <2>3, ServeSound
  <1>4. CASE AcceptReply(r, e)
    <2>1. mission \in Mission /\ mission.state \in Active
      BY <1>4, ReaderHas DEF AcceptReply, Accepting, Active, Runnable, InProgress
    <2>2. ASSUME NEW pc \in {"interpret", "casVerifying"}
          PROVE  /\ [IdleReader EXCEPT !.item = mission, !.pc = pc] \in ReaderType
                 /\ [IdleReader EXCEPT !.item = mission, !.pc = pc].pc = pc
                 /\ [IdleReader EXCEPT !.item = mission, !.pc = pc].item = mission
      BY <2>1 DEF IdleReader, ReaderType, ReaderPC
    <2>3. ASSUME NEW pc \in {"interpret", "casVerifying"},
                 Serve(r, e, [IdleReader EXCEPT !.item = mission, !.pc = pc])
          PROVE  ReaderSound(r)
      <3> DEFINE request == [IdleReader EXCEPT !.item = mission, !.pc = pc]
      <3>1. request \in ReaderType /\ request.pc = pc /\ request.item = mission
        BY <2>2
      <3>2. Fits(request.pc, request.finding)
        BY <3>1 DEF Fits
      <3>3. Serve(r, e, request)
        BY <2>3
      <3> HIDE DEF request
      <3> QED
        BY <2>1, <3>1, <3>2, <3>3, ServeSound
    <2>4. CASE mission.state = "VERIFYING"
      BY <1>4, <2>3, <2>4 DEF AcceptReply
    <2>5. CASE mission.state # "VERIFYING"
      BY <1>4, <2>3, <2>5 DEF AcceptReply
    <2> QED
      BY <2>4, <2>5
  <1> QED
    BY <1>1, <1>2, <1>3, <1>4 DEF ServeEmail

-----------------------------------------------------------------------------
(* The transactions of a reader                                            *)

(* A commit over the document the reader read, which is the current one.   *)
LEMMA ReaderCommit ==
  ASSUME FollowInvariant, NEW r \in Readers, NEW next, NEW wake \in BOOLEAN,
         next.version = reader[r].item.version + 1, next.ordinal = reader[r].item.ordinal,
         next.version \in Versions => next \in Mission,
         CompareAndSet(reader[r].item.version, next, wake)
  PROVE  mission' = next /\ MissionMoves
PROOF
  <1>1. mission.version = reader[r].item.version /\ mission' = next /\ next \in Mission
    BY ReaderHas, CommitTyped
  <1>2. reader[r].item = mission
    BY <1>1 DEF FollowInvariant, ReadersCurrent
  <1> QED
    BY <1>1, <1>2, ReaderHas DEF MissionMoves

LEMMA StartVerifyingSound ==
  ASSUME FollowInvariant, NEW r \in Readers, StartVerifying(r)
  PROVE  ReaderSound(r)
PROOF
  <1> DEFINE item == reader[r].item
             next == [item EXCEPT !.state = "VERIFYING", !.version = @ + 1]
  <1>1. /\ reader \in [Readers -> ReaderType] /\ item \in Mission /\ StoreTypeOK /\ InboxTyped
        /\ reader[r].email \in Emails
    BY ReaderHas DEF ReaderType, StartVerifying, ReaderAt, Knows
  <1>2. /\ next.version = item.version + 1 /\ next.ordinal = item.ordinal /\ next.state = "VERIFYING"
        /\ next.version \in Versions => next \in Mission
    BY <1>1 DEF Mission, State, InProgress
  <1>3. /\ UNCHANGED <<expired, queueVars, routed, raised, evidence, inbound, inboundDeliveries, result>>
        /\ UNCHANGED faults \/ \E f : Fault(f)
        /\ UNCHANGED storeVars \/ CompareAndSet(item.version, next, FALSE)
        /\ ReaderGoto(r, "interpret") \/ GiveUp(r)
    BY DEF StartVerifying, Transact, taskUnchanged
  <1> HIDE DEF next
  <1>4. ReaderMoves(r)
    <2>1. Fits("interpret", reader[r].finding) /\ "interpret" \in ReaderPC
      BY DEF Fits, ReaderPC
    <2> QED
      BY <1>1, <1>3, <2>1, GotoMoves, GiveUpMoves
  <1>5. StoreTypeOK'
    <2>1. \/ UNCHANGED storeVars
          \/ \E v, n : \E wake \in BOOLEAN :
               (n.version \in Versions => n \in Mission) /\ CompareAndSet(v, n, wake)
      BY <1>2, <1>3
    <2>2. raised' \subseteq raised \cup Notice
      BY <1>3
    <2> QED
      BY <1>1, <1>3, <2>1, <2>2, StoreKept
  <1>6. MissionMoves /\ DoneIsEvidenced'
    <2>1. CASE UNCHANGED storeVars
      BY <1>3, <2>1 DEF MissionMoves, storeVars, FollowInvariant, DoneIsEvidenced
    <2>2. CASE CompareAndSet(item.version, next, FALSE)
      <3>1. mission' = next /\ MissionMoves
        BY <1>2, <2>2, ReaderCommit
      <3> QED
        BY <1>2, <3>1 DEF DoneIsEvidenced
    <2> QED
      BY <1>3, <2>1, <2>2
  <1>7. InboxTyped'
    BY <1>1, <1>3 DEF InboxTyped
  <1> QED
    BY <1>4, <1>5, <1>6, <1>7 DEF ReaderSound

-----------------------------------------------------------------------------
(* The steps that leave the document alone                                 *)

LEMMA InterpretSound ==
  ASSUME FollowInvariant, NEW r \in Readers, Interpret(r)
  PROVE  ReaderSound(r)
PROOF
  <1>1. /\ reader \in [Readers -> ReaderType] /\ reader[r] \in ReaderType /\ InboxTyped
        /\ reader[r].email \in Emails
    BY ReaderHas DEF ReaderType, Interpret, ReaderAt, Knows
  <1>3. ASSUME NEW pc \in {"read", "raise"}, NEW finding \in Verdict \cup {"PROPOSAL_CHANGE"},
               Fits(pc, finding),
               reader' = [reader EXCEPT ![r].pc = pc, ![r].item = ApprovedMission, ![r].finding = finding]
        PROVE  ReaderMoves(r)
    <2>1. reader' \in [Readers -> ReaderType]
      <3>1. pc \in ReaderPC /\ ApprovedMission \in Mission
        BY Approved DEF ReaderPC
      <3> QED
        BY <1>1, <1>3, <3>1 DEF ReaderType
    <2>2. /\ \A q \in Readers : q # r => reader'[q] = reader[q]
          /\ reader'[r].item = ApprovedMission
          /\ reader'[r].pc = pc /\ reader'[r].finding = finding
          /\ reader'[r].email = reader[r].email
      BY <1>1, <1>3 DEF ReaderType
    <2> QED
      BY <1>1, <1>3, <2>1, <2>2 DEF ReaderMoves, Knows
  <1>4. ReaderMoves(r)
    <2>1. ASSUME NEW verdict \in Verdict PROVE Fits("read", verdict)
      BY DEF Fits
    <2>2. Fits("raise", "PROPOSAL_CHANGE")
      BY DEF Fits
    <2>3. CASE GiveUp(r)
      BY <1>1, <2>3, GiveUpMoves
    <2>4. CASE ~GiveUp(r)
      BY <1>3, <2>1, <2>2, <2>4 DEF Interpret
    <2> QED
      BY <2>3, <2>4
  <1>5. /\ UNCHANGED <<storeVars, expired, queueVars, routed, evidence, raised>>
        /\ UNCHANGED <<inbound, inboundDeliveries, result>>
        /\ UNCHANGED faults \/ \E f : Fault(f)
    BY DEF Interpret, taskUnchanged
  <1> QED
    BY <1>1, <1>4, <1>5, QuietReader DEF InboxTyped

(* The document is read again before the verdict.                          *)
LEMMA ReadForVerdictSound ==
  ASSUME FollowInvariant, NEW r \in Readers, ReadForVerdict(r)
  PROVE  ReaderSound(r)
PROOF
  <1>1. /\ reader \in [Readers -> ReaderType] /\ reader[r] \in ReaderType /\ InboxTyped
        /\ reader[r].email \in Emails /\ mission \in Mission /\ reader[r].finding \in Verdict
    BY ReaderHas DEF ReaderType, ReadForVerdict, ReaderAt, Knows, Fits
  <1>2. ASSUME NEW old \in ReaderType
        PROVE  /\ [old EXCEPT !.pc = "record", !.item = mission] \in ReaderType
               /\ [old EXCEPT !.pc = "record", !.item = mission].pc = "record"
               /\ [old EXCEPT !.pc = "record", !.item = mission].email = old.email
               /\ [old EXCEPT !.pc = "record", !.item = mission].item = mission
               /\ [old EXCEPT !.pc = "record", !.item = mission].finding = old.finding
    BY <1>1 DEF ReaderType, ReaderPC
  <1>3. CASE mission.state \in Accepting
    <2> DEFINE request == [reader[r] EXCEPT !.pc = "record", !.item = mission]
    <2>1. /\ request \in ReaderType /\ request.pc = "record" /\ request.email \in Emails
          /\ request.item = mission /\ request.finding \in Verdict
      BY <1>1, <1>2
    <2>2. reader' = [reader EXCEPT ![r] = request]
      BY <1>1, <1>3 DEF ReaderType, ReadForVerdict
    <2>3. Knows(request) /\ mission.state \in Active
      BY <1>3, <2>1 DEF Knows, Fits, Accepting, Active, Runnable, InProgress
    <2> HIDE DEF request
    <2> QED
      <3>1. ReaderMoves(r)
        BY <1>1, <2>1, <2>2, <2>3, ReaderSets
      <3>2. UNCHANGED <<storeVars, expired, queueVars, routed, evidence, raised, faults, inbound, inboundDeliveries, result>>
        BY DEF ReadForVerdict, taskUnchanged, sharedVars
      <3> QED
        BY <1>1, <3>1, <3>2, QuietReader DEF InboxTyped
  <1>4. CASE mission.state \notin Accepting
    <2>1. ReaderMoves(r)
      BY <1>1, <1>4, GiveUpMoves DEF ReadForVerdict
    <2>2. UNCHANGED <<storeVars, expired, queueVars, routed, evidence, raised, faults, inbound, inboundDeliveries, result>>
      BY DEF ReadForVerdict, taskUnchanged, sharedVars
    <2> QED
      BY <1>1, <2>1, <2>2, QuietReader DEF InboxTyped
  <1> QED
    BY <1>3, <1>4

LEMMA NotifySound ==
  ASSUME FollowInvariant, NEW r \in Readers, Notify(r)
  PROVE  ReaderSound(r)
PROOF
  <1>1. /\ reader \in [Readers -> ReaderType] /\ InboxTyped
        /\ reader[r].email \in Emails /\ reader[r].finding \in {"accepted", "conflict"}
    BY ReaderHas DEF ReaderType, Notify, ReaderAt, Knows, Fits
  <1>2. ReaderMoves(r)
    <2>1. CASE GiveUp(r)
      BY <1>1, <2>1, GiveUpMoves
    <2>2. CASE Respond(r, "VERIFIED")
      BY <1>1, <2>2, RespondMoves DEF Answer
    <2>3. CASE reader[r].finding # "accepted" /\ ReaderGoto(r, "raise")
      <3>1. Fits("raise", reader[r].finding) /\ "raise" \in ReaderPC
        BY <1>1, <2>3 DEF Fits, ReaderPC
      <3> QED
        BY <1>1, <2>3, <3>1, GotoMoves
    <2> QED
      BY <2>1, <2>2, <2>3 DEF Notify
  <1>3. raised' \subseteq raised \cup Notice
    BY DEF Notify, Notice
  <1>4. /\ UNCHANGED <<storeVars, expired, queueVars, routed, evidence>>
        /\ UNCHANGED <<inbound, inboundDeliveries, result>>
        /\ UNCHANGED faults \/ \E f : Fault(f)
    BY DEF Notify, taskUnchanged
  <1> QED
    BY <1>1, <1>2, <1>3, <1>4, QuietReader DEF InboxTyped

LEMMA RaiseInterventionSound ==
  ASSUME FollowInvariant, NEW r \in Readers, RaiseIntervention(r)
  PROVE  ReaderSound(r)
PROOF
  <1>1. /\ reader \in [Readers -> ReaderType] /\ InboxTyped
        /\ reader[r].email \in Emails
        /\ reader[r].finding \in {"conflict", "PROPOSAL_CHANGE", "UNEXPECTED_SENDER"}
    BY ReaderHas DEF ReaderType, RaiseIntervention, ReaderAt, Knows, Fits
  <1>2. ReaderMoves(r)
    <2>1. CASE GiveUp(r)
      BY <1>1, <2>1, GiveUpMoves
    <2>2. CASE Respond(r, "INSUFFICIENT")
      BY <1>1, <2>2, RespondMoves DEF Answer
    <2>3. CASE Respond(r, "NEEDS_ATTENTION")
      BY <1>1, <2>3, RespondMoves DEF Answer
    <2> QED
      BY <2>1, <2>2, <2>3 DEF RaiseIntervention
  <1>3. raised' \subseteq raised \cup Notice
    BY <1>1 DEF RaiseIntervention, Notice
  <1>4. /\ UNCHANGED <<storeVars, expired, queueVars, routed, evidence>>
        /\ UNCHANGED <<inbound, inboundDeliveries, result>>
        /\ UNCHANGED faults \/ \E f : Fault(f)
    BY DEF RaiseIntervention, taskUnchanged
  <1> QED
    BY <1>1, <1>2, <1>3, <1>4, QuietReader DEF InboxTyped

LEMMA AnswerEmailSound ==
  ASSUME FollowInvariant, NEW r \in Readers, AnswerEmail(r)
  PROVE  ReaderSound(r)
PROOF
  <1>1. /\ reader \in [Readers -> ReaderType] /\ InboxTyped
        /\ reader[r].email \in Emails /\ reader[r].answer \in Answer \cup {"none"}
    BY ReaderHas DEF ReaderType, AnswerEmail, ReaderAt, Knows
  <1>2. ReaderMoves(r)
    BY <1>1, GiveUpMoves DEF AnswerEmail
  <1>3. /\ UNCHANGED <<storeVars, expired, queueVars, routed, evidence, raised, inboundDeliveries>>
        /\ UNCHANGED faults \/ \E f : Fault(f)
    BY DEF AnswerEmail
  <1>4. /\ inbound' \in [Emails -> {"none", "queued", "deleted"}]
        /\ result' \in [Emails -> Answer \cup {"none"}]
    BY <1>1 DEF AnswerEmail, InboxTyped
  <1> QED
    BY <1>1, <1>2, <1>3, <1>4, QuietReader DEF InboxTyped

LEMMA CrashReaderSound ==
  ASSUME FollowInvariant, NEW r \in Readers, CrashReader(r)
  PROVE  ReaderSound(r)
PROOF
  <1>1. reader \in [Readers -> ReaderType] /\ InboxTyped
    BY ReaderHas
  <1>2. ReaderMoves(r)
    BY <1>1, GiveUpMoves DEF CrashReader
  <1>3. /\ UNCHANGED <<storeVars, expired, queueVars, routed, evidence, raised, inbound, inboundDeliveries, result>>
        /\ UNCHANGED faults \/ \E f : Fault(f)
    BY DEF CrashReader, taskUnchanged
  <1> QED
    BY <1>1, <1>2, <1>3, QuietReader DEF InboxTyped

(* The wake of a verdict: only the outbox and the queue change.            *)
LEMMA ScheduleVerdictWakeSound ==
  ASSUME FollowInvariant, NEW r \in Readers, ScheduleVerdictWake(r)
  PROVE  ReaderSound(r)
PROOF
  <1>1. /\ reader \in [Readers -> ReaderType] /\ InboxTyped /\ StoreTypeOK
        /\ reader[r].email \in Emails
    BY ReaderHas DEF ReaderType, ScheduleVerdictWake, ReaderAt, Knows
  <1>2. ReaderMoves(r)
    <2>1. CASE GiveUp(r)
      BY <1>1, <2>1, GiveUpMoves
    <2>2. CASE Respond(r, "INSUFFICIENT")
      BY <1>1, <2>2, RespondMoves DEF Answer
    <2>3. CASE \E pc \in {"mark", "markFailed"} : ReaderGoto(r, pc)
      <3>1. PICK pc \in {"mark", "markFailed"} : ReaderGoto(r, pc)
        BY <2>3
      <3>2. Fits(pc, reader[r].finding) /\ pc \in ReaderPC
        BY DEF Fits, ReaderPC
      <3> QED
        BY <1>1, <3>1, <3>2, GotoMoves
    <2> QED
      BY <2>1, <2>2, <2>3 DEF ScheduleVerdictWake, ScheduleTask, RecordDispatched, RecordFailed
  <1>3. StoreTypeOK'
    <2>1. faults' \in 0..MaxFaults
      BY <1>1, FaultTyped DEF ScheduleVerdictWake, ScheduleTask, RecordDispatched, RecordFailed, StoreTypeOK
    <2>2. UNCHANGED <<mission, wakeDue, idleLong, expired, deliveries, routed, raised>>
      BY DEF ScheduleVerdictWake, ScheduleTask, RecordDispatched, RecordFailed, storeVars, clockVars, queueVars
    <2>3. tasks' \in [Task -> {"unused", "queued", "deleted", "inFlight"}]
      BY <1>1 DEF ScheduleVerdictWake, ScheduleTask, RecordDispatched, RecordFailed, CreateTask,
                  StoreTypeOK, queueVars
    <2>4. intents' \in [Versions -> {"none", "PENDING", "DISPATCHED", "HOLLOW"}]
      BY <1>1 DEF ScheduleVerdictWake, ScheduleTask, RecordDispatched, RecordFailed, MarkIntent,
                  StoreTypeOK, storeVars
    <2> QED
      BY <1>1, <2>1, <2>2, <2>3, <2>4 DEF StoreTypeOK
  <1>4. UNCHANGED <<mission, evidence, inbound, inboundDeliveries, result>>
    BY DEF ScheduleVerdictWake, ScheduleTask, RecordDispatched, RecordFailed, storeVars, taskUnchanged
  <1>5. MissionMoves /\ DoneIsEvidenced' /\ InboxTyped'
    BY <1>1, <1>4 DEF MissionMoves, FollowInvariant, DoneIsEvidenced, InboxTyped
  <1> QED
    BY <1>2, <1>3, <1>5 DEF ReaderSound

-----------------------------------------------------------------------------
(* A verdict is recorded with the document it decides, in one transaction. *)

LEMMA VerifiedTyped ==
  ASSUME NEW item \in Mission, NEW verdict \in Verdict
  PROVE  LET next == Verified(item, verdict) IN
         /\ next.version = item.version + 1 /\ next.ordinal = item.ordinal
         /\ next.version \in Versions => next \in Mission
         /\ next.state = "DONE" => verdict = "accepted"
PROOF
  <1>1. Settled(verdict) \in State /\ (Settled(verdict) = "DONE" => verdict = "accepted")
    BY DEF Settled, Verdict, State, Runnable, Terminal
  <1>2. (verdict = "insufficient") \in BOOLEAN
    OBVIOUS
  <1>3. ASSUME NEW state \in State, NEW hasWake \in BOOLEAN
        PROVE  LET next == [item EXCEPT !.state = state, !.version = @ + 1, !.hasWake = hasWake] IN
               /\ next.version = item.version + 1 /\ next.ordinal = item.ordinal
               /\ next.version \in Versions => next \in Mission
               /\ next.state = state
    BY DEF Mission
  <1> QED
    BY <1>1, <1>2, <1>3 DEF Verified

LEMMA RecordSound ==
  ASSUME FollowInvariant, NEW r \in Readers, Record(r)
  PROVE  ReaderSound(r)
PROOF
  <1> DEFINE item == reader[r].item
             e == reader[r].email
             verdict == reader[r].finding
             next == Verified(item, verdict)
             wake == WithIntent(verdict)
  <1>1. /\ reader \in [Readers -> ReaderType] /\ item \in Mission /\ StoreTypeOK /\ InboxTyped
        /\ e \in Emails /\ verdict \in Verdict /\ mission \in Mission
    BY ReaderHas DEF ReaderType, Record, ReaderAt, Knows, Fits
  <1>2. /\ next.version = item.version + 1 /\ next.ordinal = item.ordinal
        /\ next.version \in Versions => next \in Mission
        /\ next.state = "DONE" => verdict = "accepted"
    BY <1>1, VerifiedTyped
  <1>3. wake \in BOOLEAN
    BY DEF WithIntent
  <1>4. /\ UNCHANGED storeVars \/ CompareAndSet(item.version, next, wake)
        /\ UNCHANGED faults \/ \E f : Fault(f)
        /\ evidence' = IF mission' # mission THEN [evidence EXCEPT ![e] = verdict] ELSE evidence
        /\ UNCHANGED <<expired, queueVars, routed, raised, inbound, inboundDeliveries, result>>
    BY DEF Record, Transact, taskUnchanged
  <1>5. ReaderMoves(r)
    <2>1. CASE GiveUp(r)
      BY <1>1, <2>1, GiveUpMoves
    <2>2. CASE Respond(r, "INSUFFICIENT")
      BY <1>1, <2>2, RespondMoves DEF Answer
    <2>3. CASE verdict # "insufficient" /\ ReaderGoto(r, "notify")
      <3>1. Fits("notify", verdict) /\ "notify" \in ReaderPC
        BY <1>1, <2>3 DEF Fits, ReaderPC, Verdict
      <3> QED
        BY <1>1, <2>3, <3>1, GotoMoves
    <2>4. CASE ReaderGoto(r, "create")
      <3>1. Fits("create", verdict) /\ "create" \in ReaderPC
        BY DEF Fits, ReaderPC
      <3> QED
        BY <1>1, <2>4, <3>1, GotoMoves
    <2> QED
      BY <2>1, <2>2, <2>3, <2>4 DEF Record, Transact
  <1> HIDE DEF next, wake
  <1>6. StoreTypeOK'
    <2>1. \/ UNCHANGED storeVars
          \/ \E v, n : \E wakes \in BOOLEAN :
               (n.version \in Versions => n \in Mission) /\ CompareAndSet(v, n, wakes)
      BY <1>2, <1>3, <1>4
    <2>2. raised' \subseteq raised \cup Notice
      BY <1>4
    <2> QED
      BY <1>1, <1>4, <2>1, <2>2, StoreKept
  <1>7. InboxTyped'
    BY <1>1, <1>4 DEF InboxTyped
  <1>8. MissionMoves /\ DoneIsEvidenced'
    <2>1. CASE UNCHANGED storeVars
      BY <1>4, <2>1 DEF MissionMoves, storeVars, FollowInvariant, DoneIsEvidenced
    <2>2. CASE CompareAndSet(item.version, next, wake)
      <3>1. mission' = next /\ MissionMoves
        BY <1>2, <1>3, <2>2, ReaderCommit
      <3>2. mission.version = item.version /\ item.version \in Nat
        BY <1>1, <2>2, VersionsAssumption DEF CompareAndSet, VersionMatches, Mission
      <3>3. mission' # mission
        BY <1>2, <3>1, <3>2
      <3>4. evidence'[e] = verdict
        BY <1>1, <1>4, <3>3 DEF InboxTyped
      <3>5. DoneIsEvidenced'
        BY <1>1, <1>2, <3>1, <3>4 DEF DoneIsEvidenced
      <3> QED
        BY <3>1, <3>5
    <2> QED
      BY <1>4, <2>1, <2>2
  <1> QED
    BY <1>5, <1>6, <1>7, <1>8 DEF ReaderSound

(* A bounce halts the current document, whatever the reader knew.          *)
LEMMA RecordBounceSound ==
  ASSUME FollowInvariant, NEW r \in Readers, RecordBounce(r)
  PROVE  ReaderSound(r)
PROOF
  <1> DEFINE next == Halted(mission)
             Halts == mission.state \notin {"DONE", "CANCELLED"}
                        /\ CompareAndSet(mission.version, next, FALSE)
  <1>1. /\ reader \in [Readers -> ReaderType] /\ StoreTypeOK /\ InboxTyped
        /\ reader[r].email \in Emails /\ mission \in Mission
    BY ReaderHas DEF ReaderType, RecordBounce, ReaderAt, Knows
  <1>2. /\ next.version = mission.version + 1 /\ next.ordinal = mission.ordinal
        /\ next.state = "NEEDS_ATTENTION"
        /\ next.version \in Versions => next \in Mission
    BY <1>1 DEF Halted, Mission, State
  <1>3. /\ UNCHANGED storeVars \/ Halts
        /\ UNCHANGED faults \/ \E f : Fault(f)
        /\ raised' \subseteq raised \cup Notice
        /\ UNCHANGED <<expired, queueVars, routed, evidence, inbound, inboundDeliveries, result>>
    BY DEF RecordBounce, taskUnchanged, Notice
  <1>4. ReaderMoves(r)
    <2>1. CASE GiveUp(r)
      BY <1>1, <2>1, GiveUpMoves
    <2>2. CASE Respond(r, "RECORDED")
      BY <1>1, <2>2, RespondMoves DEF Answer
    <2> QED
      BY <2>1, <2>2 DEF RecordBounce
  <1> HIDE DEF next
  <1>5. StoreTypeOK'
    <2>1. \/ UNCHANGED storeVars
          \/ \E v, n : \E wake \in BOOLEAN :
               (n.version \in Versions => n \in Mission) /\ CompareAndSet(v, n, wake)
      BY <1>2, <1>3
    <2> QED
      BY <1>1, <1>3, <2>1, StoreKept
  <1>6. InboxTyped'
    BY <1>1, <1>3 DEF InboxTyped
  <1>7. MissionMoves /\ DoneIsEvidenced'
    <2>1. CASE UNCHANGED storeVars
      BY <1>3, <2>1 DEF MissionMoves, storeVars, FollowInvariant, DoneIsEvidenced
    <2>2. CASE Halts
      <3>1. mission' = next /\ next \in Mission
        BY <1>1, <1>2, <2>2, CommitTyped
      <3> QED
        BY <1>2, <2>2, <3>1 DEF MissionMoves, DoneIsEvidenced
    <2> QED
      BY <1>3, <2>1, <2>2
  <1> QED
    BY <1>4, <1>5, <1>6, <1>7 DEF ReaderSound

-----------------------------------------------------------------------------
(* Every step of the readers keeps the invariant.                          *)
LEMMA ReaderStepInvariant ==
  ASSUME FollowInvariant, UNCHANGED runnerVars, NEW r \in Readers,
         ReaderStep(r) \/ CrashReader(r) \/ \E e \in Emails : ServeEmail(r, e)
  PROVE  ReaderSound(r) /\ FollowInvariant'
PROOF
  <1>1. ReaderSound(r)
    BY StartVerifyingSound, InterpretSound, ReadForVerdictSound, RecordSound, NotifySound,
       RaiseInterventionSound, ScheduleVerdictWakeSound, RecordBounceSound, AnswerEmailSound,
       CrashReaderSound, ServeEmailSound DEF ReaderStep
  <1> QED
    BY <1>1, ReaderInvariant DEF ReaderSound

LEMMA ArriveInvariant ==
  ASSUME FollowInvariant, UNCHANGED runnerVars, NEW e \in Emails, Arrive(e)
  PROVE  FollowInvariant'
PROOF
  <1>1. UNCHANGED <<reader, sharedVars, evidence>>
    BY DEF Arrive
  <1>2. StoreTypeOK /\ InboxTyped
    <2>1. RP!TypeOK /\ InboxTyped
      BY SameRunner DEF FollowInvariant, TypeOK, InboundTypeOK, InboxTyped
    <2> QED
      BY <2>1, SameStore DEF RP!TypeOK
  <1>3. StoreTypeOK'
    BY <1>1, <1>2 DEF StoreTypeOK, sharedVars, storeVars, queueVars
  <1>4. InboxTyped'
    BY <1>2 DEF Arrive, InboxTyped
  <1>5. MissionMoves /\ DoneIsEvidenced'
    BY <1>1 DEF MissionMoves, FollowInvariant, DoneIsEvidenced, sharedVars, storeVars
  <1> QED
    BY <1>1, <1>3, <1>4, <1>5, ReaderInvariant

-----------------------------------------------------------------------------
(* The steps of the workers                                                *)

LEMMA RunnerKeepsInvariant ==
  ASSUME FollowInvariant, Runner!Next, UNCHANGED inboundVars
  PROVE  FollowInvariant' /\ RP!Works
PROOF
  <1>0. RP!Active = Active
    BY SameStore DEF RP!Active, Active
  <1>1. RP!TypeOK /\ RP!RunnerInvariant /\ RP!Next /\ RP!ActiveItems
    BY <1>0, SameRunner DEF FollowInvariant, TypeOK, ActiveItems, RP!ActiveItems
  <1>2. RP!TypeOK'
    BY <1>1, RunnerAssumed, RP!NextTyped
  <1>3. RP!RunnerInvariant'
    BY <1>1, <1>2, RunnerAssumed, RP!NextInvariant
  <1>4. RP!Works
    BY <1>1, RunnerAssumed, RP!NextWorks
  <1>5. UNCHANGED <<inbound, inboundDeliveries, result, evidence, reader>>
    BY DEF inboundVars
  <1>6. TypeOK'
    <2>1. Runner!TypeOK'
      BY <1>2, SamePrimed
    <2>2. InboundTypeOK'
      BY <1>5 DEF FollowInvariant, TypeOK, InboundTypeOK
    <2> QED
      BY <2>1, <2>2 DEF TypeOK
  <1>7. ActiveItems'
    <2>1. RP!ActiveItems'
      BY <1>1, RunnerAssumed, RP!NextActiveItems
    <2> QED
      BY <1>0, <1>5, <2>1 DEF FollowInvariant, ActiveItems, RP!ActiveItems
  <1>8. ReadersCurrent'
    <2>1. mission.version \in Nat /\ \A r \in Readers : reader[r].item.version \in Nat
      BY VersionsAssumption, <1>1, SameStore
         DEF FollowInvariant, TypeOK, InboundTypeOK, RP!TypeOK, StoreTypeOK, Mission
    <2> QED
      BY <1>4, <1>5, <2>1 DEF FollowInvariant, ReadersCurrent, RP!Works
  <1>9. ReadersKnow' /\ DoneIsEvidenced'
    BY <1>4, <1>5 DEF FollowInvariant, ReadersKnow, DoneIsEvidenced, RP!Works
  <1> QED
    BY <1>3, <1>4, <1>6, <1>7, <1>8, <1>9 DEF FollowInvariant

-----------------------------------------------------------------------------
LEMMA InitFollow == Init => FollowInvariant
PROOF
  <1> SUFFICES ASSUME Init PROVE FollowInvariant
    OBVIOUS
  <1>1. RP!Init
    BY SameRunner DEF Init
  <1>2. RP!TypeOK /\ RP!RunnerInvariant
    BY <1>1, RunnerAssumed, RP!InitTyped, RP!InitInvariant
  <1>3. \A r \in Readers : reader[r] = IdleReader
    BY DEF Init, InboundInit
  <1>4. reader \in [Readers -> ReaderType]
    BY IdleReaderTyped DEF Init, InboundInit
  <1>5. TypeOK
    <2>1. InboundTypeOK
      BY <1>4, DeliveryAssumption DEF Init, InboundInit, InboundTypeOK, ReaderType
    <2> QED
      BY <1>2, <2>1, SameRunner DEF TypeOK
  <1>6. mission = ApprovedMission /\ \A w \in RP!Actors : worker[w].item = ApprovedMission
    BY <1>1, SameStore DEF RP!Init, RP!StoreInit, RP!RunnerInit, RP!Idle
  <1>7. ActiveItems
    BY <1>3, <1>6, IdleReaderTyped, Approved DEF ActiveItems
  <1>8. ReadersCurrent
    BY <1>3, <1>6, IdleReaderTyped, Approved DEF ReadersCurrent
  <1>9. ReadersKnow
    <2>1. Knows(IdleReader)
      BY IdleReaderTyped DEF Knows, Fits
    <2> QED
      BY <1>3, <2>1 DEF ReadersKnow
  <1>10. DoneIsEvidenced
    BY <1>6 DEF DoneIsEvidenced, ApprovedMission
  <1> QED
    BY <1>2, <1>5, <1>7, <1>8, <1>9, <1>10 DEF FollowInvariant

LEMMA NextFollow == FollowInvariant /\ [Next]_vars => FollowInvariant'
PROOF
  <1> SUFFICES ASSUME FollowInvariant, [Next]_vars PROVE FollowInvariant'
    OBVIOUS
  <1>1. CASE Runner!Next /\ UNCHANGED inboundVars
    BY <1>1, RunnerKeepsInvariant
  <1>2. ASSUME UNCHANGED runnerVars, NEW e \in Emails, Arrive(e) PROVE FollowInvariant'
    BY <1>2, ArriveInvariant
  <1>3. ASSUME UNCHANGED runnerVars, NEW r \in Readers, NEW e \in Emails, ServeEmail(r, e) PROVE FollowInvariant'
    BY <1>3, ReaderStepInvariant
  <1>4. ASSUME UNCHANGED runnerVars, NEW r \in Readers, ReaderStep(r) \/ CrashReader(r) PROVE FollowInvariant'
    BY <1>4, ReaderStepInvariant
  <1>5. CASE UNCHANGED vars
    <2>1. /\ UNCHANGED <<reader, inbound, inboundDeliveries, result, evidence, sharedVars>>
          /\ UNCHANGED runnerVars
      BY <1>5 DEF vars, inboundVars
    <2>2. StoreTypeOK /\ InboxTyped
      <3>1. RP!TypeOK /\ InboxTyped
        BY SameRunner DEF FollowInvariant, TypeOK, InboundTypeOK, InboxTyped
      <3> QED
        BY <3>1, SameStore DEF RP!TypeOK
    <2>3. StoreTypeOK' /\ InboxTyped'
      BY <2>1, <2>2 DEF StoreTypeOK, InboxTyped, sharedVars, storeVars, queueVars
    <2>4. MissionMoves /\ DoneIsEvidenced'
      BY <2>1 DEF MissionMoves, FollowInvariant, DoneIsEvidenced, sharedVars, storeVars
    <2> QED
      BY <2>1, <2>3, <2>4, ReaderInvariant
  <1> QED
    BY <1>1, <1>2, <1>3, <1>4, <1>5 DEF Next

(* The invariant, for any number of workers, readers and emails, any       *)
(* bounds and any kinds of fault.                                          *)
THEOREM FollowInvariantHolds == Spec => []FollowInvariant
PROOF
  <1> QED
    BY InitFollow, NextFollow, PTL DEF Spec

(* Every variable keeps its type.                                          *)
THEOREM FollowTyped == Spec => []TypeOK
PROOF
  <1>1. FollowInvariant => TypeOK
    BY DEF FollowInvariant
  <1> QED
    BY <1>1, FollowInvariantHolds, PTL

(* DONE is decided by evidence on record and by nothing else.              *)
THEOREM DoneIsEvidencedHolds == Spec => []DoneIsEvidenced
PROOF
  <1>1. FollowInvariant => DoneIsEvidenced
    BY DEF FollowInvariant
  <1> QED
    BY <1>1, FollowInvariantHolds, PTL

-----------------------------------------------------------------------------
(* What a step may never do                                                *)

(* However it moves, the document leaves an active state, or is halted.    *)
LEMMA NextMoves ==
  ASSUME FollowInvariant, [Next]_vars
  PROVE  \/ UNCHANGED mission
         \/ mission.state \in Active
         \/ mission.state # "DONE" /\ mission'.state = "NEEDS_ATTENTION"
PROOF
  <1>1. CASE Runner!Next /\ UNCHANGED inboundVars
    <2>1. RP!Works /\ RP!Active = Active
      BY <1>1, SameStore, RunnerKeepsInvariant DEF RP!Active, Active
    <2> QED
      BY <2>1 DEF RP!Works
  <1>2. ASSUME UNCHANGED runnerVars, NEW r \in Readers,
               ReaderStep(r) \/ CrashReader(r) \/ \E e \in Emails : ServeEmail(r, e)
        PROVE  MissionMoves
    BY <1>2, ReaderStepInvariant DEF ReaderSound
  <1>3. CASE \/ \E e \in Emails : Arrive(e)
             \/ UNCHANGED vars
    BY <1>3 DEF Arrive, vars, sharedVars, storeVars
  <1> QED
    BY <1>1, <1>2, <1>3 DEF Next, MissionMoves

(* A finished mission stays finished: no snapshot read before the verdict  *)
(* is ever written over it.                                                *)
THEOREM CompletionFinalHolds == Spec => CompletionFinal
PROOF
  <1>1. FollowInvariant /\ [Next]_vars
          => [mission.state = "DONE" => mission'.state = "DONE"]_mission
    BY NextMoves DEF Active, Runnable, InProgress
  <1> QED
    BY <1>1, FollowInvariantHolds, PTL DEF Spec, CompletionFinal

(* A halt holds: only the owner, who is not in this module, ends it.       *)
THEOREM HaltHoldsHolds == Spec => HaltHolds
PROOF
  <1>1. FollowInvariant /\ [Next]_vars
          => [mission.state = "NEEDS_ATTENTION" => mission'.state = "NEEDS_ATTENTION"]_mission
    BY NextMoves DEF Active, Runnable, InProgress
  <1> QED
    BY <1>1, FollowInvariantHolds, PTL DEF Spec, HaltHolds

(* What MissionRunner promises alone it keeps among the readers: one       *)
(* request at a time between reserving an action and recording it, no      *)
(* follow-up skipped, no action beyond the approved number.                *)
THEOREM RunnerSafeAmongReaders ==
  Spec => [](Runner!ExclusiveReservation /\ Runner!OrdinalBacked /\ Runner!SendsWithinBudget)
PROOF
  <1>1. FollowInvariant => RP!ExclusiveReservation /\ RP!OrdinalBacked /\ RP!SendsWithinBudget
    BY DEF FollowInvariant, RP!RunnerInvariant
  <1>2. /\ RP!ExclusiveReservation <=> Runner!ExclusiveReservation
        /\ RP!OrdinalBacked <=> Runner!OrdinalBacked
        /\ RP!SendsWithinBudget <=> Runner!SendsWithinBudget
    BY Zenon DEF RP!ExclusiveReservation, Runner!ExclusiveReservation, RP!OrdinalBacked, Runner!OrdinalBacked,
           RP!SendsWithinBudget, Runner!SendsWithinBudget, RP!Actors, Runner!Actors, RP!Ordinals, Runner!Ordinals,
           RP!InBroker, Runner!InBroker, RP!Brokering, Runner!Brokering, RP!Ordinal, Runner!Ordinal
  <1> QED
    BY <1>1, <1>2, FollowInvariantHolds, PTL

(* A step of the readers leaves the ledger alone or moves only the         *)
(* document, so the composition implements the ledger of MissionRunner.    *)
LEMMA NextFollowLedger ==
  ASSUME FollowInvariant, [Next]_vars
  PROVE  [RP!Ledger!Next]_(RP!Ledger!vars)
PROOF
  <1>1. RP!TypeOK /\ RP!RunnerInvariant
    BY SameRunner DEF FollowInvariant, TypeOK
  <1>2. CASE Runner!Next /\ UNCHANGED inboundVars
    <2>1. RP!Next
      BY <1>2, SameRunner
    <2> QED
      BY <1>1, <2>1, RunnerAssumed, RP!NextLedger
  <1>3. CASE UNCHANGED runnerVars /\ MissionMoves
    <2>1. RP!Moves /\ UNCHANGED accepted
      BY <1>3 DEF MissionMoves, RP!Moves, runnerVars
    <2> QED
      BY <1>1, <2>1, RunnerAssumed, RP!MovesLedger
  <1>4. ASSUME UNCHANGED runnerVars, NEW r \in Readers,
               ReaderStep(r) \/ CrashReader(r) \/ \E e \in Emails : ServeEmail(r, e)
        PROVE  MissionMoves
    BY <1>4, ReaderStepInvariant DEF ReaderSound
  <1>5. ASSUME NEW e \in Emails, Arrive(e) PROVE MissionMoves
    BY <1>5 DEF Arrive, sharedVars, storeVars, MissionMoves
  <1>6. CASE UNCHANGED vars
    BY <1>3, <1>6 DEF vars, sharedVars, storeVars, MissionMoves
  <1> QED
    BY <1>2, <1>3, <1>4, <1>5, <1>6 DEF Next

(* The provider performs the actions in order, skips none and none beyond  *)
(* the approved number, whatever the readers do meanwhile.                 *)
THEOREM FollowImplementsLedger == Spec => RP!ImplementsLedger
PROOF
  <1>1. Init => RP!Ledger!Init
    <2>1. Init => RP!Init
      BY SameRunner DEF Init
    <2> QED
      BY <2>1, RunnerAssumed, RP!InitLedger
  <1>2. FollowInvariant /\ [Next]_vars => [RP!Ledger!Next]_(RP!Ledger!vars)
    BY NextFollowLedger
  <1> QED
    BY <1>1, <1>2, FollowInvariantHolds, PTL DEF Spec, RP!ImplementsLedger, RP!Ledger!Spec

-----------------------------------------------------------------------------
(* The wake, among the readers                                             *)

LEMMA SameWake ==
  /\ RP!WakeOrAbandoned <=> WakeOrAbandoned
  /\ RP!Task = Task
  /\ \A v, status : RP!MarkIntent(v, status) <=> MarkIntent(v, status)
  /\ \A t : RP!CreateTask(t) <=> CreateTask(t)
PROOF
  <1>1. RP!WakeOrAbandoned <=> WakeOrAbandoned
    BY Zenon DEF WakeOrAbandoned, RP!WakeOrAbandoned, Runner!WakeOrAbandoned, RP!Runnable, Runner!Runnable,
       RP!Task, Runner!Task, RP!WakeTask, Runner!WakeTask, RP!Serving, Runner!Serving, RP!Held, Runner!Held,
       RP!AttemptsSpent, Runner!AttemptsSpent, RP!AnsweredInFlight, Runner!AnsweredInFlight,
       RP!Answering, Runner!Answering, RP!At, Runner!At
  <1>2. /\ RP!Task = Task
        /\ \A v, status : RP!MarkIntent(v, status) <=> MarkIntent(v, status)
        /\ \A t : RP!CreateTask(t) <=> CreateTask(t)
    BY Zenon DEF RP!Task, Task, RP!MarkIntent, MarkIntent, RP!CreateTask, CreateTask
  <1> QED
    BY <1>1, <1>2

(* A reader dispatches the wake of a version it committed, and marks it    *)
(* once its task is made.                                                  *)
Dispatching == {"create", "mark", "markFailed"}
Wake(item) == [version |-> item.version + 1, name |-> "intent"]
Carries(request) ==
  request.pc \in Dispatching =>
    /\ request.item.version + 1 <= mission.version
    /\ Wake(request.item) \in Task
    /\ request.pc = "mark" => tasks[Wake(request.item)] # "unused"

VerdictWakes == \A r \in Readers : Carries(reader[r])

FollowWakes == FollowInvariant /\ RP!WakeInvariant /\ VerdictWakes

LEMMA FollowHas ==
  ASSUME FollowInvariant
  PROVE  /\ RP!TypeOK /\ RP!StoreTypeOK /\ StoreTypeOK /\ mission \in Mission /\ mission.version \in Nat
         /\ reader \in [Readers -> ReaderType]
         /\ \A r \in Readers : reader[r].item.version \in Nat
PROOF
  <1>1. RP!TypeOK /\ RP!StoreTypeOK /\ StoreTypeOK
    <2>1. RP!TypeOK
      BY SameRunner DEF FollowInvariant, TypeOK
    <2> QED
      BY <2>1, SameStore DEF RP!TypeOK
  <1>2. reader \in [Readers -> ReaderType]
    BY DEF FollowInvariant, TypeOK, InboundTypeOK, ReaderType
  <1>3. mission \in Mission /\ \A m \in Mission : m.version \in Nat
    BY <1>1, VersionsAssumption DEF StoreTypeOK, Mission
  <1> QED
    BY <1>1, <1>2, <1>3 DEF ReaderType

LEMMA FollowHasNext == FollowInvariant' => RP!StoreTypeOK' /\ mission'.version \in Nat
PROOF
  <1>1. FollowInvariant => RP!StoreTypeOK /\ mission.version \in Nat
    BY FollowHas
  <1>2. (FollowInvariant => RP!StoreTypeOK /\ mission.version \in Nat)'
    BY <1>1, PTL
  <1> QED
    BY <1>2

(* A request that does not move keeps its wake.                            *)
LEMMA RestCarries ==
  ASSUME FollowInvariant, FollowInvariant', RP!WakeMoves, NEW q \in Readers, Carries(reader[q]), reader'[q] = reader[q]
  PROVE  Carries(reader[q])'
PROOF
  <1>1. /\ mission.version \in Nat /\ mission'.version \in Nat /\ reader[q].item.version \in Nat
    BY FollowHas, FollowHasNext
  <1>2. mission.version <= mission'.version
    BY <1>1 DEF RP!WakeMoves, RP!CommitsWake
  <1>3. \A t \in Task : tasks[t] # "unused" => tasks'[t] # "unused"
    BY SameWake DEF RP!WakeMoves, RP!CommitsWake, RP!TaskKept
  <1>4. reader[q].pc \in Dispatching => reader[q].item.version + 1 <= mission'.version
    BY <1>1, <1>2 DEF Carries
  <1> QED
    BY <1>3, <1>4 DEF Carries

(* What is left to show of a step of a reader.                             *)
LEMMA ReaderKeepsWake ==
  ASSUME FollowWakes, FollowInvariant', UNCHANGED worker, RP!WakeMoves,
         \/ UNCHANGED reader
         \/ \E r \in Readers : (\A q \in Readers : q # r => reader'[q] = reader[q]) /\ Carries(reader[r])'
  PROVE  FollowWakes'
PROOF
  <1>1. RP!WakeInvariant'
    BY FollowHas, FollowHasNext, RunnerAssumed, RP!OthersKeepWake DEF FollowWakes
  <1>2. VerdictWakes'
    BY RestCarries DEF FollowWakes, VerdictWakes
  <1> QED
    BY <1>1, <1>2 DEF FollowWakes

(* Where a request that moves stands.                                      *)
LEMMA ReaderStands ==
  ASSUME reader \in [Readers -> ReaderType], NEW r \in Readers
  PROVE  /\ GiveUp(r) => reader'[r].pc = "idle"
         /\ \A answer : Respond(r, answer) => reader'[r].pc = "answer"
         /\ \A pc : ReaderGoto(r, pc) => reader'[r].pc = pc /\ reader'[r].item = reader[r].item
PROOF
  <1>1. GiveUp(r) => reader'[r].pc = "idle"
    BY IdleReaderTyped DEF GiveUp
  <1>2. ASSUME NEW answer, Respond(r, answer) PROVE reader'[r].pc = "answer"
    BY <1>2 DEF Respond, IdleReader
  <1>3. ASSUME NEW pc, ReaderGoto(r, pc) PROVE reader'[r].pc = pc /\ reader'[r].item = reader[r].item
    BY <1>3 DEF ReaderGoto, ReaderType
  <1> QED
    BY <1>1, <1>2, <1>3

LEMMA ServeStands ==
  ASSUME FollowInvariant, NEW r \in Readers, NEW e \in Emails, ServeEmail(r, e)
  PROVE  reader'[r].pc \notin Dispatching
PROOF
  <1>1. reader \in [Readers -> ReaderType]
    BY FollowHas
  <1> DEFINE Opens(request) == request.pc \notin Dispatching
  <1>2. ASSUME NEW pc \in {"bounce", "interpret", "casVerifying"}, NEW item, NEW x
        PROVE  /\ Opens([[IdleReader EXCEPT !.pc = pc] EXCEPT !.email = x])
               /\ Opens([[IdleReader EXCEPT !.item = item, !.pc = pc] EXCEPT !.email = x])
               /\ Opens([[IdleReader EXCEPT !.pc = "answer", !.answer = "REJECTED"] EXCEPT !.email = x])
               /\ Opens([[IdleReader EXCEPT !.pc = "raise", !.finding = "UNEXPECTED_SENDER"] EXCEPT !.email = x])
    BY DEF IdleReader, Dispatching
  <1>3. \E request : reader' = [reader EXCEPT ![r] = request] /\ Opens(request)
    <2>1. CASE Reject(r, e) \/ AcceptBounce(r, e) \/ AcceptStranger(r, e)
      BY <1>2, <2>1 DEF Reject, AcceptBounce, AcceptStranger, Serve
    <2>2. CASE AcceptReply(r, e) /\ mission.state = "VERIFYING"
      BY <1>2, <2>2 DEF AcceptReply, Serve
    <2>3. CASE AcceptReply(r, e) /\ mission.state # "VERIFYING"
      BY <1>2, <2>3 DEF AcceptReply, Serve
    <2> QED
      BY <2>1, <2>2, <2>3 DEF ServeEmail
  <1> QED
    BY <1>1, <1>3

(* The steps that neither commit nor dispatch.                             *)
LEMMA QuietStands ==
  ASSUME FollowInvariant, NEW r \in Readers,
         \/ Interpret(r) \/ ReadForVerdict(r) \/ Notify(r) \/ RaiseIntervention(r)
         \/ AnswerEmail(r) \/ CrashReader(r) \/ \E e \in Emails : ServeEmail(r, e)
  PROVE  UNCHANGED <<mission, intents, tasks>> /\ Carries(reader[r])'
PROOF
  <1>1. reader \in [Readers -> ReaderType]
    BY FollowHas
  <1>2. UNCHANGED <<mission, intents, tasks>>
    BY DEF Interpret, ReadForVerdict, Notify, RaiseIntervention, AnswerEmail, CrashReader, ServeEmail,
           Reject, AcceptBounce, AcceptStranger, AcceptReply, Serve, ReceiveEmail, sharedVars, storeVars, queueVars
  <1>3. ASSUME Interpret(r) PROVE reader'[r].pc \in {"read", "raise", "idle"}
    BY <1>1, <1>3, ReaderStands DEF Interpret, ReaderType
  <1>4. ASSUME ReadForVerdict(r) PROVE reader'[r].pc \in {"record", "idle"}
    BY <1>1, <1>4, ReaderStands DEF ReadForVerdict, ReaderType
  <1>5. ASSUME Notify(r) \/ RaiseIntervention(r) PROVE reader'[r].pc \in {"raise", "answer", "idle"}
    BY <1>1, <1>5, ReaderStands DEF Notify, RaiseIntervention
  <1>6. ASSUME AnswerEmail(r) \/ CrashReader(r) PROVE reader'[r].pc = "idle"
    BY <1>1, <1>6, ReaderStands DEF AnswerEmail, CrashReader
  <1>7. reader'[r].pc \notin Dispatching
    BY <1>3, <1>4, <1>5, <1>6, ServeStands DEF Dispatching
  <1> QED
    BY <1>2, <1>7 DEF Carries

(* A commit: with an intent for the version that waits, or without one for *)
(* a version that does not.                                                *)
LEMMA CommitStands ==
  ASSUME FollowInvariant, NEW next, NEW wake \in BOOLEAN, CompareAndSet(mission.version, next, wake),
         next.version = mission.version + 1, wake \/ next.state \notin Runnable, UNCHANGED tasks
  PROVE  RP!WakeMoves
PROOF
  <1>1. /\ mission' = next
        /\ intents' = IF wake THEN [intents EXCEPT ![next.version] = "PENDING"] ELSE intents
    BY DEF CompareAndSet
  <1> QED
    BY <1>1, SameStore DEF RP!WakeMoves, RP!CommitsWake

LEMMA QuietMoves ==
  ASSUME UNCHANGED <<mission, intents, tasks>>
  PROVE  RP!WakeMoves
PROOF
  BY DEF RP!WakeMoves, RP!MarksKept, RP!TaskKept

LEMMA StartVerifyingStands ==
  ASSUME FollowInvariant, NEW r \in Readers, StartVerifying(r)
  PROVE  RP!WakeMoves /\ Carries(reader[r])'
PROOF
  <1> DEFINE item == reader[r].item
             next == [item EXCEPT !.state = "VERIFYING", !.version = @ + 1]
  <1>1. item \in Mission /\ reader \in [Readers -> ReaderType]
    BY ReaderHas DEF ReaderType
  <1>2. next.version = item.version + 1 /\ next.state \notin Runnable
    BY <1>1 DEF Mission, Runnable
  <1>3. UNCHANGED storeVars \/ CompareAndSet(item.version, next, FALSE)
    BY DEF StartVerifying, Transact
  <1>4. UNCHANGED tasks
    BY DEF StartVerifying, queueVars
  <1> HIDE DEF next
  <1>5. RP!WakeMoves
    <2>1. CASE UNCHANGED storeVars
      BY <1>4, <2>1, QuietMoves DEF storeVars
    <2>2. CASE CompareAndSet(item.version, next, FALSE)
      <3>1. mission.version = item.version
        BY <2>2 DEF CompareAndSet, VersionMatches
      <3> QED
        BY <1>2, <1>4, <2>2, <3>1, CommitStands
    <2> QED
      BY <1>3, <2>1, <2>2
  <1>6. reader'[r].pc \in {"interpret", "idle"}
    BY <1>1, ReaderStands DEF StartVerifying, Transact
  <1> QED
    BY <1>5, <1>6 DEF Carries, Dispatching

(* A verdict that leaves the mission waiting commits the intent with it,   *)
(* and the reader that committed it dispatches the wake.                   *)
LEMMA RecordStands ==
  ASSUME FollowInvariant, NEW r \in Readers, Record(r)
  PROVE  RP!WakeMoves /\ Carries(reader[r])'
PROOF
  <1> DEFINE item == reader[r].item
             verdict == reader[r].finding
             next == Verified(item, verdict)
             wake == WithIntent(verdict)
  <1>1. item \in Mission /\ reader \in [Readers -> ReaderType] /\ verdict \in Verdict
    BY ReaderHas DEF ReaderType, Record, ReaderAt, Knows, Fits
  <1>2. next.version = item.version + 1
    BY <1>1, VerifiedTyped
  <1>3. wake \in BOOLEAN /\ (wake \/ next.state \notin Runnable)
    <2>1. next.state = Settled(verdict)
      BY <1>1 DEF Verified, Mission
    <2> QED
      BY <1>1, <2>1 DEF WithIntent, Settled, Verdict, Runnable
  <1>4. UNCHANGED tasks
    BY DEF Record, queueVars
  <1>5. \/ UNCHANGED storeVars /\ \/ GiveUp(r) \/ Respond(r, "INSUFFICIENT") \/ ReaderGoto(r, "notify")
        \/ /\ CompareAndSet(item.version, next, wake)
           /\ GiveUp(r) \/ ReaderGoto(r, "create") \/ ReaderGoto(r, "notify")
    BY DEF Record, Transact
  <1> HIDE DEF next, wake
  <1>6. CASE UNCHANGED storeVars /\ \/ GiveUp(r) \/ Respond(r, "INSUFFICIENT") \/ ReaderGoto(r, "notify")
    <2>1. RP!WakeMoves
      BY <1>4, <1>6, QuietMoves DEF storeVars
    <2>2. reader'[r].pc \in {"idle", "answer", "notify"}
      BY <1>1, <1>6, ReaderStands
    <2> QED
      BY <2>1, <2>2 DEF Carries, Dispatching
  <1>7. CASE /\ CompareAndSet(item.version, next, wake)
             /\ GiveUp(r) \/ ReaderGoto(r, "create") \/ ReaderGoto(r, "notify")
    <2>1. mission.version = item.version /\ mission' = next /\ next.version \in Versions
      BY <1>7 DEF CompareAndSet, VersionMatches
    <2>2. RP!WakeMoves
      BY <1>2, <1>3, <1>4, <1>7, <2>1, CommitStands
    <2>3. CASE GiveUp(r) \/ ReaderGoto(r, "notify")
      <3>1. reader'[r].pc \in {"idle", "notify"}
        BY <1>1, <2>3, ReaderStands
      <3> QED
        BY <2>2, <3>1 DEF Carries, Dispatching
    <2>4. CASE ReaderGoto(r, "create")
      <3>1. reader'[r].pc = "create" /\ reader'[r].item = item
        BY <1>1, <2>4, ReaderStands
      <3>2. item.version + 1 = mission'.version /\ mission'.version \in Versions
        BY <1>2, <2>1
      <3>3. Wake(item) \in Task
        BY <3>2 DEF Wake, Task
      <3>4. item.version + 1 <= mission'.version
        <4>1. mission'.version \in Nat
          BY <3>2, VersionsAssumption
        <4> QED
          BY <3>2, <4>1
      <3> QED
        BY <2>2, <3>1, <3>3, <3>4 DEF Carries
    <2> QED
      BY <1>7, <2>2, <2>3, <2>4
  <1> QED
    BY <1>5, <1>6, <1>7

LEMMA RecordBounceStands ==
  ASSUME FollowInvariant, NEW r \in Readers, RecordBounce(r)
  PROVE  RP!WakeMoves /\ Carries(reader[r])'
PROOF
  <1> DEFINE next == Halted(mission)
  <1>1. mission \in Mission /\ reader \in [Readers -> ReaderType]
    BY FollowHas
  <1>2. next.version = mission.version + 1 /\ next.state \notin Runnable
    BY <1>1 DEF Halted, Mission, Runnable
  <1>3. UNCHANGED storeVars \/ CompareAndSet(mission.version, next, FALSE)
    BY DEF RecordBounce
  <1>4. UNCHANGED tasks
    BY DEF RecordBounce, queueVars
  <1> HIDE DEF next
  <1>5. RP!WakeMoves
    BY <1>2, <1>3, <1>4, CommitStands, QuietMoves DEF storeVars
  <1>6. reader'[r].pc \in {"answer", "idle"}
    BY <1>1, ReaderStands DEF RecordBounce
  <1> QED
    BY <1>5, <1>6 DEF Carries, Dispatching

(* The dispatch itself: the task is made before the intent is marked.      *)
LEMMA ScheduleVerdictWakeStands ==
  ASSUME FollowWakes, NEW r \in Readers, ScheduleVerdictWake(r)
  PROVE  RP!WakeMoves /\ Carries(reader[r])'
PROOF
  <1> DEFINE t == Wake(reader[r].item)
  <1>1. /\ RP!StoreTypeOK /\ RP!WakesOnRecord /\ reader \in [Readers -> ReaderType]
        /\ mission.version \in Nat
    BY FollowHas DEF FollowWakes, RP!WakeInvariant
  <1>2. UNCHANGED mission
    BY DEF ScheduleVerdictWake, ScheduleTask, RecordDispatched, RecordFailed, storeVars
  <1>3. /\ t \in RP!Task /\ t.version = reader[r].item.version + 1 /\ t.version <= mission.version
        /\ reader[r].pc = "mark" => tasks[t] # "unused"
    <2>1. reader[r].pc \in Dispatching /\ Carries(reader[r])
      BY DEF ScheduleVerdictWake, ReaderAt, Dispatching, FollowWakes, VerdictWakes
    <2>2. t.version = reader[r].item.version + 1
      BY DEF Wake
    <2> QED
      BY <2>1, <2>2, SameWake DEF Carries
  <1>4. VerdictWake(r) = t
    BY DEF VerdictWake, Wake
  <1> HIDE DEF t
  <1>5. ASSUME UNCHANGED intents PROVE \A v \in Versions : RP!MarksKept(v)
    BY <1>5 DEF RP!MarksKept
  <1>6. ASSUME UNCHANGED tasks PROVE \A s \in RP!Task : RP!TaskKept(s)
    BY <1>6 DEF RP!TaskKept
  <1>7. ASSUME reader'[r].item = reader[r].item, reader'[r].pc = "mark" => tasks'[t] # "unused"
        PROVE  Carries(reader[r])'
    BY <1>2, <1>3, <1>7, SameWake DEF Carries, t
  <1>8. ASSUME reader'[r].pc \in {"idle", "answer"} PROVE Carries(reader[r])'
    BY <1>8 DEF Carries, Dispatching
  <1>9. CASE ReaderAt(r, "create")
    <2>1. /\ UNCHANGED intents
          /\ \/ CreateTask(t) /\ ReaderGoto(r, "mark")
             \/ (CreateTask(t) \/ UNCHANGED tasks) /\ ReaderGoto(r, "markFailed")
      BY <1>4, <1>9 DEF ScheduleVerdictWake, ScheduleTask, ReaderAt, storeVars
    <2>2. CreateTask(t) => (\A s \in RP!Task : RP!TaskKept(s)) /\ tasks'[t] # "unused"
      BY <1>1, <1>3, SameWake, RunnerAssumed, RP!CreateKeeps
    <2>3. RP!WakeMoves
      BY <1>2, <1>5, <1>6, <2>1, <2>2 DEF RP!WakeMoves
    <2>4. reader'[r].item = reader[r].item /\ (reader'[r].pc = "mark" => tasks'[t] # "unused")
      BY <1>1, <2>1, <2>2, ReaderStands
    <2> QED
      BY <1>7, <2>3, <2>4
  <1>10. CASE ReaderAt(r, "mark")
    <2>1. /\ UNCHANGED tasks /\ tasks[t] # "unused"
          /\ MarkIntent(t.version, "DISPATCHED") \/ UNCHANGED intents
          /\ Respond(r, "INSUFFICIENT") \/ ReaderGoto(r, "markFailed")
      BY <1>3, <1>4, <1>10 DEF ScheduleVerdictWake, RecordDispatched, ReaderAt, queueVars
    <2>2. MarkIntent(t.version, "DISPATCHED") => \A v \in Versions : RP!MarksKept(v)
      BY <1>1, <1>3, <2>1, SameWake, RunnerAssumed, RP!MarkKeeps
    <2>3. RP!WakeMoves
      BY <1>2, <1>5, <1>6, <2>1, <2>2 DEF RP!WakeMoves
    <2>4. \/ reader'[r].pc = "answer"
          \/ reader'[r].item = reader[r].item /\ reader'[r].pc = "markFailed"
      BY <1>1, <2>1, ReaderStands
    <2> QED
      BY <1>7, <1>8, <2>3, <2>4
  <1>11. CASE ReaderAt(r, "markFailed")
    <2>1. /\ UNCHANGED tasks
          /\ MarkIntent(t.version, "PENDING") \/ UNCHANGED intents
          /\ GiveUp(r)
      BY <1>4, <1>11 DEF ScheduleVerdictWake, RecordFailed, ReaderAt, queueVars
    <2>2. MarkIntent(t.version, "PENDING") => \A v \in Versions : RP!MarksKept(v)
      BY <1>1, <1>3, SameWake, RunnerAssumed, RP!MarkKeeps
    <2>3. RP!WakeMoves
      BY <1>2, <1>5, <1>6, <2>1, <2>2 DEF RP!WakeMoves
    <2>4. reader'[r].pc = "idle"
      BY <1>1, <2>1, ReaderStands
    <2> QED
      BY <1>8, <2>3, <2>4
  <1> QED
    BY <1>9, <1>10, <1>11 DEF ScheduleVerdictWake

LEMMA NextFollowWakes ==
  ASSUME FollowWakes, [Next]_vars
  PROVE  FollowWakes'
PROOF
  <1>1. FollowInvariant /\ FollowInvariant' /\ RP!WakeInvariant
    BY NextFollow DEF FollowWakes
  <1>2. CASE Runner!Next /\ UNCHANGED inboundVars
    <2>1. RP!TypeOK /\ RP!TypeOK' /\ RP!Next
      <3>1. RP!TypeOK /\ RP!Next
        BY <1>1, <1>2, FollowHas, SameRunner
      <3> QED
        BY <3>1, RunnerAssumed, RP!NextTyped
    <2>2. RP!WakeInvariant' /\ RP!WakeMoves
      BY <1>1, <2>1, RunnerAssumed, RP!NextKeepsWake
    <2>3. VerdictWakes'
      <3>1. UNCHANGED reader
        BY <1>2 DEF inboundVars
      <3> QED
        BY <1>1, <2>2, <3>1, RestCarries DEF FollowWakes, VerdictWakes
    <2> QED
      BY <1>1, <2>2, <2>3 DEF FollowWakes
  <1>3. ASSUME UNCHANGED <<reader, worker, mission, intents, tasks>> PROVE FollowWakes'
    BY <1>1, <1>3, QuietMoves, ReaderKeepsWake
  <1>4. CASE (\E e \in Emails : Arrive(e)) /\ UNCHANGED runnerVars
    BY <1>3, <1>4 DEF Arrive, runnerVars, sharedVars, storeVars, queueVars
  <1>5. CASE UNCHANGED vars
    BY <1>3, <1>5 DEF vars, runnerVars, inboundVars, sharedVars, storeVars, queueVars
  <1>6. ASSUME UNCHANGED runnerVars, NEW r \in Readers,
               ReaderStep(r) \/ CrashReader(r) \/ \E e \in Emails : ServeEmail(r, e)
        PROVE  FollowWakes'
    <2>1. UNCHANGED worker /\ \A q \in Readers : q # r => reader'[q] = reader[q]
      BY <1>1, <1>6, ReaderStepInvariant DEF ReaderSound, ReaderMoves, runnerVars
    <2>2. RP!WakeMoves /\ Carries(reader[r])'
      <3>1. CASE \/ Interpret(r) \/ ReadForVerdict(r) \/ Notify(r) \/ RaiseIntervention(r)
                 \/ AnswerEmail(r) \/ CrashReader(r) \/ \E e \in Emails : ServeEmail(r, e)
        BY <1>1, <3>1, QuietStands, QuietMoves
      <3>2. CASE StartVerifying(r) \/ Record(r) \/ RecordBounce(r) \/ ScheduleVerdictWake(r)
        BY <1>1, <3>2, StartVerifyingStands, RecordStands, RecordBounceStands, ScheduleVerdictWakeStands
      <3> QED
        BY <1>6, <3>1, <3>2 DEF ReaderStep
    <2> QED
      BY <1>1, <2>1, <2>2, ReaderKeepsWake
  <1> QED
    BY <1>2, <1>4, <1>5, <1>6 DEF Next

LEMMA InitFollowWakes == Init => FollowWakes
PROOF
  <1> SUFFICES ASSUME Init PROVE FollowWakes
    OBVIOUS
  <1>1. RP!Init
    BY SameRunner DEF Init
  <1>2. RP!WakeInvariant
    BY <1>1, RunnerAssumed, RP!InitWake
  <1>3. VerdictWakes
    BY IdleReaderTyped DEF Init, InboundInit, VerdictWakes, Carries, Dispatching
  <1> QED
    BY <1>2, <1>3, InitFollow DEF FollowWakes

(* A waiting mission has its wake, or lost it in one of the two ways of    *)
(* the runner, however the emails interleave with the workers.             *)
THEOREM WakeSurvivesReaders == Spec => []WakeOrAbandoned
PROOF
  <1>1. Spec => []FollowWakes
    BY InitFollowWakes, NextFollowWakes, PTL DEF Spec
  <1>2. FollowWakes => WakeOrAbandoned
    BY FollowHas, SameWake, RunnerAssumed, RP!WakeFollows DEF FollowWakes
  <1> QED
    BY <1>1, <1>2, PTL

-----------------------------------------------------------------------------
(* A mission in VERIFYING is attended                                      *)

(* A request works for an email whose task is in the queue, at most one    *)
(* for each email while no task is delivered twice at a time; one that is  *)
(* about to verify works for a reply that has a route.                     *)
Verifying == {"casVerifying", "interpret", "read", "record"}
AtWork(r) == reader[r].pc # "idle"

Tended(r) ==
  /\ ~AtWork(r) => reader[r].email = NoEmail
  /\ AtWork(r) =>
       /\ inbound[reader[r].email] = "queued"
       /\ inboundDeliveries[reader[r].email] > 0
  /\ ReaderAt(r, "casVerifying") => reader[r].email \in Replies /\ routed
  /\ reader[r].pc \in Verifying /\ evidence[reader[r].email] # "none"
       => inboundDeliveries[reader[r].email] > 1

OneReader ==
  \A r, q \in Readers : AtWork(r) /\ AtWork(q) /\ reader[r].email = reader[q].email => r = q

EvidenceDelivered == \A e \in Emails : evidence[e] # "none" => inboundDeliveries[e] > 0

AnsweredDeleted == \A e \in Emails : result[e] # "none" => inbound[e] = "deleted"

InboxInvariant == OneReader /\ EvidenceDelivered /\ AnsweredDeleted /\ \A r \in Readers : Tended(r)

(* Evidence that settles the mission leaves it inactive for good.          *)
EvidenceSettles ==
  \A e \in Emails : evidence[e] \in {"accepted", "conflict"} => mission.state \notin Active

VerifyingRouted == mission.state = "VERIFYING" => routed

FollowAttended ==
  /\ FollowInvariant
  /\ InboxInvariant
  /\ EvidenceSettles
  /\ VerifyingRouted
  /\ VerifyingAttended

(* A delivery: the request of an idle reader works for the email.          *)
Delivers(r, e) ==
  /\ ~AtWork(r) /\ inbound[e] = "queued" /\ ~HeldEmail(e)
  /\ inboundDeliveries' = [inboundDeliveries EXCEPT ![e] = @ + 1]
  /\ reader'[r].email = e /\ reader'[r].pc # "idle"
  /\ reader'[r].pc \in Verifying => e \in Replies /\ routed
  /\ UNCHANGED <<storeVars, routed, inbound, result, evidence>>

(* Any other step of a reader: its request goes on with the same email, or *)
(* ends, and only then may the task be deleted; evidence is recorded for   *)
(* that email by a request that is no longer verifying.                    *)
Continues(r) ==
  LET e == reader[r].email IN
  /\ AtWork(r)
  /\ \/ /\ reader'[r] = IdleReader
        /\ \/ UNCHANGED <<inbound, result>>
           \/ /\ inbound' = [inbound EXCEPT ![e] = "deleted"]
              /\ \E answer : result' = [result EXCEPT ![e] = answer]
     \/ /\ UNCHANGED <<inbound, result>> /\ reader'[r].email = e
        /\ reader'[r].pc \notin {"idle", "casVerifying"}
        /\ reader'[r].pc \in Verifying => reader[r].pc \in Verifying
  /\ \/ evidence' = evidence
     \/ \E verdict : evidence' = [evidence EXCEPT ![e] = verdict] /\ reader'[r].pc \notin Verifying
  /\ UNCHANGED <<inboundDeliveries, routed>>

LEMMA InboxKept ==
  ASSUME FollowInvariant, FollowInvariant', InboxInvariant, NEW r \in Readers,
         \A q \in Readers : q # r => reader'[q] = reader[q],
         (\E e \in Emails : Delivers(r, e)) \/ Continues(r)
  PROVE  InboxInvariant'
PROOF
  <1>1. /\ reader \in [Readers -> ReaderType] /\ InboxTyped
        /\ \A q \in Readers : AtWork(q) => reader[q].email \in Emails
    BY ReaderHas DEF Knows, AtWork
  <1>2. /\ \A e \in Emails : inboundDeliveries[e] \in Nat
        /\ \A q \in Readers : (AtWork(q) => reader[q].email \in Emails) /\ Tended(q)
    BY <1>1, DeliveryAssumption DEF InboxTyped, InboxInvariant
  <1>3. ASSUME NEW e \in Emails, Delivers(r, e) PROVE InboxInvariant'
    <2>1. \A q \in Readers : AtWork(q) => reader[q].email # e
      BY <1>3 DEF Delivers, HeldEmail
    <2>2. /\ inboundDeliveries'[e] = inboundDeliveries[e] + 1
          /\ \A x \in Emails : x # e => inboundDeliveries'[x] = inboundDeliveries[x]
          /\ UNCHANGED <<inbound, evidence, routed>>
      BY <1>1, <1>3 DEF Delivers, InboxTyped
    <2>3. OneReader'
      BY <1>3, <2>1 DEF OneReader, AtWork, Delivers, InboxInvariant
    <2>4. EvidenceDelivered'
      BY <1>2, <2>2 DEF EvidenceDelivered, InboxInvariant
    <2>5. Tended(r)'
      <3>1. /\ AtWork(r)' /\ reader'[r].email = e /\ inbound'[e] = "queued"
            /\ ReaderAt(r, "casVerifying")' => e \in Replies /\ routed'
        BY <1>3, <2>2 DEF Delivers, AtWork, ReaderAt, Verifying
      <3>2. inboundDeliveries'[e] > 0 /\ (evidence'[e] # "none" => inboundDeliveries'[e] > 1)
        BY <1>2, <2>2 DEF EvidenceDelivered, InboxInvariant
      <3> QED
        BY <3>1, <3>2 DEF Tended, AtWork, ReaderAt
    <2>6. ASSUME NEW q \in Readers, q # r PROVE Tended(q)'
      BY <1>2, <2>1, <2>2, <2>6 DEF Tended, AtWork, ReaderAt, Verifying
    <2>7. AnsweredDeleted'
      BY <1>3 DEF AnsweredDeleted, InboxInvariant, Delivers
    <2> QED
      BY <2>3, <2>4, <2>5, <2>6, <2>7 DEF InboxInvariant
  <1>4. CASE Continues(r)
    <2> DEFINE e == reader[r].email
    <2>0. /\ e \in Emails /\ Tended(r) /\ AtWork(r)
          /\ \A q \in Readers : q # r /\ AtWork(q) => reader[q].email # e
      BY <1>2, <1>4 DEF Continues, OneReader, InboxInvariant
    <2>1. /\ UNCHANGED <<inboundDeliveries, routed>>
          /\ \A x \in Emails : x # e => inbound'[x] = inbound[x] /\ evidence'[x] = evidence[x]
      BY <1>1, <1>4 DEF Continues, InboxTyped
    <2>2. reader'[r] = IdleReader \/ (inbound' = inbound /\ reader'[r].email = e /\ AtWork(r)')
      BY <1>4 DEF Continues, AtWork
    <2>3. OneReader'
      BY <2>0, <2>2, IdleReaderTyped DEF OneReader, AtWork, InboxInvariant
    <2>4. EvidenceDelivered'
      <3>1. inboundDeliveries[e] > 0
        BY <2>0 DEF Tended
      <3> QED
        BY <2>1, <3>1 DEF EvidenceDelivered, InboxInvariant
    <2>5. Tended(r)'
      <3>1. CASE reader'[r] = IdleReader
        BY <3>1 DEF Tended, AtWork, ReaderAt, IdleReader, Verifying
      <3>2. CASE inbound' = inbound /\ reader'[r].email = e /\ AtWork(r)'
        <4>1. reader'[r].pc # "casVerifying"
          BY <1>4, <3>2 DEF Continues, AtWork, IdleReader
        <4>2. ASSUME reader'[r].pc \in Verifying, evidence'[e] # "none" PROVE inboundDeliveries[e] > 1
          <5>1. reader[r].pc \in Verifying /\ evidence' = evidence
            BY <1>4, <3>2, <4>2 DEF Continues, AtWork, IdleReader
          <5> QED
            BY <2>0, <4>2, <5>1 DEF Tended
        <4> QED
          BY <2>0, <2>1, <3>2, <4>1, <4>2 DEF Tended, ReaderAt
      <3> QED
        BY <2>2, <3>1, <3>2
    <2>6. ASSUME NEW q \in Readers, q # r PROVE Tended(q)'
      BY <1>2, <2>0, <2>1, <2>6 DEF Tended, AtWork, ReaderAt, Verifying
    <2>7. AnsweredDeleted'
      BY <1>1, <1>4, <2>0 DEF AnsweredDeleted, InboxInvariant, Continues, InboxTyped
    <2> QED
      BY <2>3, <2>4, <2>5, <2>6, <2>7 DEF InboxInvariant
  <1> QED
    BY <1>3, <1>4

(* How a reader turns to its next line, answers or gives up.               *)
LEMMA ReaderTurns ==
  ASSUME reader \in [Readers -> ReaderType], NEW r \in Readers
  PROVE  /\ GiveUp(r) => reader'[r] = IdleReader
         /\ \A answer : Respond(r, answer) =>
              /\ reader'[r].email = reader[r].email
              /\ reader'[r].pc = "answer" /\ reader'[r].answer = answer
         /\ \A pc : ReaderGoto(r, pc) => reader'[r].email = reader[r].email /\ reader'[r].pc = pc
PROOF
  <1>1. GiveUp(r) => reader'[r] = IdleReader
    BY DEF GiveUp
  <1>2. ASSUME NEW answer, Respond(r, answer)
        PROVE  /\ reader'[r].email = reader[r].email
               /\ reader'[r].pc = "answer" /\ reader'[r].answer = answer
    <2>1. reader'[r] = [IdleReader EXCEPT !.pc = "answer", !.email = reader[r].email, !.answer = answer]
      BY <1>2 DEF Respond
    <2> QED
      BY <2>1 DEF IdleReader
  <1>3. ASSUME NEW pc, ReaderGoto(r, pc)
        PROVE  reader'[r].email = reader[r].email /\ reader'[r].pc = pc
    <2>1. reader'[r] = [reader[r] EXCEPT !.pc = pc] /\ reader[r] \in ReaderType
      BY <1>3 DEF ReaderGoto
    <2> QED
      BY <2>1 DEF ReaderType
  <1> QED
    BY <1>1, <1>2, <1>3

(* Every step of a reader is of one of the two kinds.                      *)
LEMMA ReaderGoes ==
  ASSUME FollowInvariant, NEW r \in Readers, ReaderStep(r) \/ CrashReader(r)
  PROVE  Continues(r)
PROOF
  <1>1. reader \in [Readers -> ReaderType] /\ reader[r] \in ReaderType
    BY ReaderHas
  <1>2. /\ GiveUp(r) => reader'[r] = IdleReader
        /\ \A answer : Respond(r, answer) => reader'[r].email = reader[r].email /\ reader'[r].pc = "answer"
        /\ \A pc : ReaderGoto(r, pc) => reader'[r].email = reader[r].email /\ reader'[r].pc = pc
    BY <1>1, ReaderTurns
  <1> DEFINE e == reader[r].email
             Goes(pcs) == reader'[r] = IdleReader \/ (reader'[r].email = e /\ reader'[r].pc \in pcs)
             Quiet == UNCHANGED <<inbound, inboundDeliveries, result, evidence, routed>>
  <1>3. ASSUME NEW pcs, Goes(pcs), Quiet, AtWork(r), "idle" \notin pcs, "casVerifying" \notin pcs,
               reader[r].pc \in Verifying \/ \A pc \in Verifying : pc \notin pcs
        PROVE  Continues(r)
    BY <1>3 DEF Continues
  <1>4. CASE StartVerifying(r)
    <2>1. Goes({"interpret"})
      BY <1>2, <1>4 DEF StartVerifying, Transact
    <2> QED
      BY <1>3, <1>4, <2>1 DEF StartVerifying, taskUnchanged, AtWork, ReaderAt, Verifying
  <1>5. CASE Interpret(r)
    <2>1. Goes({"read", "raise"})
      BY <1>1, <1>2, <1>5 DEF Interpret, ReaderType
    <2> QED
      BY <1>3, <1>5, <2>1 DEF Interpret, taskUnchanged, AtWork, ReaderAt, Verifying
  <1>6. CASE ReadForVerdict(r)
    <2>1. Goes({"record"})
      BY <1>1, <1>2, <1>6 DEF ReadForVerdict, ReaderType
    <2> QED
      BY <1>3, <1>6, <2>1 DEF ReadForVerdict, taskUnchanged, AtWork, ReaderAt, Verifying, sharedVars
  <1>7. CASE Record(r)
    <2>1. Goes({"answer", "notify", "create"})
      BY <1>2, <1>7 DEF Record, Transact
    <2>2. reader'[r].pc \notin Verifying
      BY <2>1 DEF Verifying, IdleReader
    <2>3. /\ UNCHANGED <<inbound, inboundDeliveries, result, routed>>
          /\ evidence' = evidence \/ evidence' = [evidence EXCEPT ![e] = reader[r].finding]
      BY <1>7 DEF Record, taskUnchanged
    <2> QED
      BY <1>7, <2>1, <2>2, <2>3 DEF Continues, Record, AtWork, ReaderAt
  <1>8. CASE Notify(r) \/ RaiseIntervention(r)
    <2>1. Goes({"answer", "raise"})
      BY <1>2, <1>8 DEF Notify, RaiseIntervention
    <2>2. Quiet /\ AtWork(r)
      BY <1>8 DEF Notify, RaiseIntervention, taskUnchanged, AtWork, ReaderAt
    <2> QED
      BY <1>3, <2>1, <2>2 DEF Verifying
  <1>9. CASE ScheduleVerdictWake(r)
    <2>1. Goes({"answer", "mark", "markFailed"})
      BY <1>2, <1>9 DEF ScheduleVerdictWake, ScheduleTask, RecordDispatched, RecordFailed
    <2>2. Quiet /\ AtWork(r)
      BY <1>9 DEF ScheduleVerdictWake, ScheduleTask, RecordDispatched, RecordFailed, taskUnchanged, AtWork, ReaderAt
    <2> QED
      BY <1>3, <2>1, <2>2 DEF Verifying
  <1>10. CASE RecordBounce(r)
    <2>1. Goes({"answer"})
      BY <1>2, <1>10 DEF RecordBounce
    <2> QED
      BY <1>3, <1>10, <2>1 DEF RecordBounce, taskUnchanged, AtWork, ReaderAt, Verifying
  <1>11. CASE AnswerEmail(r)
    BY <1>2, <1>11 DEF AnswerEmail, Continues, AtWork, ReaderAt, IdleReader, Verifying
  <1>12. CASE CrashReader(r)
    BY <1>2, <1>12 DEF CrashReader, taskUnchanged, Continues, AtWork, ReaderAt
  <1> QED
    BY <1>4, <1>5, <1>6, <1>7, <1>8, <1>9, <1>10, <1>11, <1>12 DEF ReaderStep

LEMMA ServeDelivers ==
  ASSUME FollowInvariant, InboxInvariant, "redeliver" \notin Faults, NEW r \in Readers, NEW e \in Emails,
         ServeEmail(r, e)
  PROVE  /\ Delivers(r, e)
         /\ e \in Replies /\ routed /\ mission.state = "VERIFYING" => reader'[r].pc = "interpret"
PROOF
  <1>1. reader \in [Readers -> ReaderType]
    BY FollowHas
  <1> DEFINE Opens(request) ==
        /\ request.email = e
        /\ \/ request.pc \in {"answer", "bounce", "raise"}
              /\ ~(e \in Replies /\ routed /\ mission.state = "VERIFYING")
           \/ /\ request.pc = IF mission.state = "VERIFYING" THEN "interpret" ELSE "casVerifying"
              /\ e \in Replies /\ routed
  <1>2. \E request : reader' = [reader EXCEPT ![r] = request] /\ Opens(request)
    <2>1. CASE Reject(r, e)
      <3>1. Opens([[IdleReader EXCEPT !.pc = "answer", !.answer = "REJECTED"] EXCEPT !.email = e])
        BY <2>1 DEF IdleReader, Reject, Replies, Accepting
      <3> QED
        BY <2>1, <3>1 DEF Reject, Serve
    <2>2. CASE AcceptBounce(r, e)
      <3>1. Opens([[IdleReader EXCEPT !.pc = "bounce"] EXCEPT !.email = e])
        BY <2>2 DEF IdleReader, AcceptBounce, Replies
      <3> QED
        BY <2>2, <3>1 DEF AcceptBounce, Serve
    <2>3. CASE AcceptStranger(r, e)
      <3>1. Opens([[IdleReader EXCEPT !.pc = "raise", !.finding = "UNEXPECTED_SENDER"] EXCEPT !.email = e])
        BY <2>3 DEF IdleReader, AcceptStranger, Replies
      <3> QED
        BY <2>3, <3>1 DEF AcceptStranger, Serve
    <2>4. CASE AcceptReply(r, e)
      <3> DEFINE pc == IF mission.state = "VERIFYING" THEN "interpret" ELSE "casVerifying"
      <3>1. /\ [[IdleReader EXCEPT !.item = mission, !.pc = pc] EXCEPT !.email = e].pc = pc
            /\ [[IdleReader EXCEPT !.item = mission, !.pc = pc] EXCEPT !.email = e].email = e
        BY DEF IdleReader
      <3>2. e \in Replies /\ routed
        BY <2>4 DEF AcceptReply, Replies
      <3>3. reader' = [reader EXCEPT ![r] = [[IdleReader EXCEPT !.item = mission, !.pc = pc] EXCEPT !.email = e]]
        BY <2>4 DEF AcceptReply, Serve
      <3> HIDE DEF pc
      <3>4. Opens([[IdleReader EXCEPT !.item = mission, !.pc = pc] EXCEPT !.email = e])
        BY <3>1, <3>2 DEF pc
      <3> QED
        BY <3>3, <3>4
    <2> QED
      BY <2>1, <2>2, <2>3, <2>4 DEF ServeEmail
  <1>3. Opens(reader'[r])
    BY <1>1, <1>2
  <1>4. ReaderAt(r, "idle") /\ ReceiveEmail(e)
    BY DEF ServeEmail, Reject, AcceptBounce, AcceptStranger, AcceptReply, Serve
  <1>5. ~HeldEmail(e)
    BY <1>4 DEF ReceiveEmail, Fault
  <1>6. /\ ~AtWork(r) /\ inbound[e] = "queued"
        /\ inboundDeliveries' = [inboundDeliveries EXCEPT ![e] = @ + 1]
        /\ UNCHANGED <<storeVars, routed, inbound, result, evidence>>
    BY <1>4 DEF ReceiveEmail, AtWork, ReaderAt
  <1> QED
    BY <1>3, <1>5, <1>6 DEF Delivers, Verifying

(* What attends to a mission in VERIFYING, of one reply; and, of a request *)
(* that serves the reply, where it stands then.                            *)
Attends(e) ==
  \/ evidence[e] = "none" /\ (Processing(e) \/ Asked(e) \/ ReplySpent(e))
  \/ VerifiedAgain(e)

Tending(request) ==
  \/ request.pc \in {"interpret", "read", "record"}
  \/ request.pc = "raise" /\ request.finding = "PROPOSAL_CHANGE"
  \/ request.pc = "answer" /\ request.answer = "NEEDS_ATTENTION"

LEMMA TendingAttends ==
  ASSUME InboxInvariant, NEW r \in Readers, AtWork(r), reader[r].email \in Emails,
         Attends(reader[r].email), evidence[reader[r].email] = "none"
  PROVE  Tending(reader[r])
PROOF
  <1> DEFINE e == reader[r].email
  <1>1. HeldEmail(e) /\ result[e] = "none"
    BY DEF HeldEmail, InboxInvariant, Tended, AnsweredDeleted
  <1>2. \A q \in Readers : reader[q].email = e /\ AtWork(q) => q = r
    BY DEF InboxInvariant, OneReader
  <1>3. Processing(e) \/ Asked(e)
    BY <1>1 DEF Attends, ReplySpent, VerifiedAgain
  <1>4. CASE Processing(e)
    BY <1>1, <1>2, <1>4 DEF Processing, AtWork, Tending
  <1>5. CASE Asked(e)
    BY <1>1, <1>2, <1>5 DEF Asked, AtWork, ReaderAt, Tending
  <1> QED
    BY <1>3, <1>4, <1>5

LEMMA InboxFollows == FollowInvariant => InboxTyped
PROOF
  BY DEF FollowInvariant, TypeOK, InboundTypeOK, InboxTyped

(* A reader whose request ended left its task to the queue, or spent.      *)
LEMMA LeftToQueue ==
  ASSUME FollowInvariant', InboxInvariant, InboxInvariant', NEW r \in Readers, AtWork(r),
         \A q \in Readers : q # r => reader'[q] = reader[q],
         reader'[r] = IdleReader, NEW e \in Emails, reader[r].email = e,
         UNCHANGED <<inbound, inboundDeliveries>>
  PROVE  (Processing(e) \/ ReplySpent(e))'
PROOF
  <1>1. reader'[r].email # e
    BY EmailAssumption DEF IdleReader
  <1>2. \A q \in Readers : q # r => reader'[q].email # e
    BY EmailAssumption DEF InboxInvariant, OneReader, Tended
  <1>3. ~HeldEmail(e)'
    BY <1>1, <1>2 DEF HeldEmail
  <1>4. inbound'[e] = "queued"
    BY DEF InboxInvariant, Tended
  <1>5. inboundDeliveries'[e] \in Nat /\ inboundDeliveries'[e] <= MaxDeliveries
    <2>1. InboxTyped'
      BY InboxFollows, PTL
    <2> QED
      BY <2>1, DeliveryAssumption DEF InboxTyped
  <1>6. ASSUME inboundDeliveries'[e] < MaxDeliveries PROVE Processing(e)'
    BY <1>3, <1>4, <1>6 DEF Processing
  <1>7. ASSUME inboundDeliveries'[e] = MaxDeliveries PROVE ReplySpent(e)'
    BY <1>3, <1>4, <1>7 DEF ReplySpent
  <1> QED
    BY <1>5, <1>6, <1>7, DeliveryAssumption

(* A request that tends to its reply goes on tending, or ends and leaves   *)
(* the task, or is answered that the owner has been asked, unless it moves *)
(* the mission.                                                            *)
LEMMA TendingGoes ==
  ASSUME FollowInvariant, NEW r \in Readers, ReaderStep(r) \/ CrashReader(r),
         UNCHANGED mission, reader[r].email \in Emails,
         evidence[reader[r].email] = "none", Tending(reader[r])
  PROVE  \/ Tending(reader'[r]) /\ reader'[r].email = reader[r].email
         \/ reader'[r] = IdleReader /\ UNCHANGED inbound
         \/ result'[reader[r].email] = "NEEDS_ATTENTION"
PROOF
  <1> DEFINE e == reader[r].email
             Goal == \/ Tending(reader'[r]) /\ reader'[r].email = e
                     \/ reader'[r] = IdleReader /\ UNCHANGED inbound
                     \/ result'[e] = "NEEDS_ATTENTION"
  <1>1. /\ reader \in [Readers -> ReaderType] /\ reader[r] \in ReaderType /\ InboxTyped
        /\ mission \in Mission /\ mission.version \in Nat
    BY ReaderHas, FollowHas
  <1>2. /\ GiveUp(r) => reader'[r] = IdleReader
        /\ Respond(r, "NEEDS_ATTENTION") => Tending(reader'[r]) /\ reader'[r].email = e
    BY <1>1, ReaderTurns DEF Answer, Tending
  <1>3. CASE Interpret(r)
    <2>1. GiveUp(r) \/ (reader'[r].pc \in {"read", "raise"} /\ reader'[r].email = e
                        /\ (reader'[r].pc = "raise" => reader'[r].finding = "PROPOSAL_CHANGE"))
      BY <1>1, <1>3 DEF Interpret, ReaderType
    <2> QED
      BY <1>2, <1>3, <2>1 DEF Interpret, taskUnchanged, Tending
  <1>4. CASE ReadForVerdict(r)
    <2>1. GiveUp(r) \/ (reader'[r].pc = "record" /\ reader'[r].email = e)
      BY <1>1, <1>4 DEF ReadForVerdict, ReaderType
    <2> QED
      BY <1>2, <1>4, <2>1 DEF ReadForVerdict, taskUnchanged, Tending
  <1>5. CASE Record(r)
    <2> DEFINE next == Verified(reader[r].item, reader[r].finding)
    <2>1. ~CompareAndSet(reader[r].item.version, next, WithIntent(reader[r].finding))
      <3>1. reader[r].finding \in Verdict /\ reader[r].item \in Mission
        BY <1>1, <1>5, ReaderHas DEF Record, ReaderAt, Knows, Fits, ReaderType
      <3>2. next.version = reader[r].item.version + 1
        BY <3>1, VerifiedTyped
      <3> HIDE DEF next
      <3> QED
        BY <1>1, <3>2 DEF CompareAndSet, VersionMatches
    <2>2. GiveUp(r)
      BY <1>5, <2>1 DEF Record, Recorded, Transact
    <2> QED
      BY <1>2, <1>5, <2>2 DEF Record, taskUnchanged
  <1>6. CASE RaiseIntervention(r)
    <2>1. reader[r].finding = "PROPOSAL_CHANGE"
      BY <1>6 DEF RaiseIntervention, ReaderAt, Tending
    <2>2. GiveUp(r) \/ Respond(r, "NEEDS_ATTENTION")
      BY <1>6, <2>1 DEF RaiseIntervention
    <2> QED
      BY <1>2, <1>6, <2>2 DEF RaiseIntervention, taskUnchanged
  <1>7. CASE AnswerEmail(r)
    <2>1. reader[r].answer = "NEEDS_ATTENTION"
      BY <1>7 DEF AnswerEmail, ReaderAt, Tending
    <2> QED
      BY <1>1, <1>2, <1>7, <2>1 DEF AnswerEmail, InboxTyped
  <1>8. CASE CrashReader(r)
    BY <1>2, <1>8 DEF CrashReader, taskUnchanged
  <1>9. ~(StartVerifying(r) \/ Notify(r) \/ ScheduleVerdictWake(r) \/ RecordBounce(r))
    BY DEF StartVerifying, Notify, ScheduleVerdictWake, RecordBounce, ReaderAt, Tending
  <1> QED
    BY <1>3, <1>4, <1>5, <1>6, <1>7, <1>8, <1>9 DEF ReaderStep

(* The evidence changes only with the document.                            *)
LEMMA EvidenceMoves ==
  ASSUME NEW r \in Readers, UNCHANGED mission,
         ReaderStep(r) \/ CrashReader(r) \/ \E e \in Emails : ServeEmail(r, e)
  PROVE  UNCHANGED evidence
PROOF
  BY DEF ReaderStep, StartVerifying, Interpret, ReadForVerdict, Record, Notify, RaiseIntervention,
         ScheduleVerdictWake, RecordBounce, AnswerEmail, CrashReader, ServeEmail, Reject, AcceptBounce,
         AcceptStranger, AcceptReply, Serve, ReceiveEmail

(* While the mission stays in VERIFYING, what attended to it still does.   *)
LEMMA AttendsKept ==
  ASSUME FollowInvariant, FollowInvariant', InboxInvariant, InboxInvariant', "redeliver" \notin Faults,
         NEW r \in Readers, UNCHANGED mission, mission.state = "VERIFYING", routed,
         ReaderStep(r) \/ CrashReader(r) \/ \E e \in Emails : ServeEmail(r, e),
         \A q \in Readers : q # r => reader'[q] = reader[q],
         NEW x \in Replies, Attends(x)
  PROVE  Attends(x)'
PROOF
  <1>1. /\ UNCHANGED evidence /\ x \in Emails /\ InboxTyped
        /\ \A q \in Readers : AtWork(q) => reader[q].email \in Emails
    BY EvidenceMoves, ReaderHas DEF Replies, Knows, AtWork
  <1>2. ASSUME NEW e \in Emails, ServeEmail(r, e) PROVE Attends(x)'
    <2>1. /\ Delivers(r, e) /\ (e \in Replies /\ routed /\ mission.state = "VERIFYING" => reader'[r].pc = "interpret")
      BY <1>2, ServeDelivers
    <2>2. \A n \in Emails : inboundDeliveries'[n] >= inboundDeliveries[n] /\ inboundDeliveries[n] \in Nat
                            /\ inboundDeliveries'[n] \in Nat
      BY <1>1, <2>1, DeliveryAssumption DEF Delivers, InboxTyped
    <2>3. CASE VerifiedAgain(x)
      BY <1>1, <2>2, <2>3 DEF VerifiedAgain, Attends
    <2>4. CASE x = e /\ evidence[x] = "none"
      BY <1>1, <2>1, <2>4 DEF Delivers, Attends, Processing
    <2>5. CASE x # e /\ evidence[x] = "none"
      <3>1. reader[r].email # x /\ reader'[r].email # x
        BY <1>1, <2>1, <2>5, EmailAssumption DEF Delivers, InboxInvariant, Tended
      <3>2. inboundDeliveries'[x] = inboundDeliveries[x] /\ UNCHANGED <<inbound, result>>
        BY <1>1, <2>1, <2>5 DEF Delivers, InboxTyped
      <3>3. /\ Processing(x) => Processing(x)'
            /\ Asked(x) => Asked(x)'
            /\ ReplySpent(x) => ReplySpent(x)'
        BY <3>1, <3>2 DEF Processing, Asked, ReplySpent, HeldEmail, ReaderAt
      <3> QED
        BY <1>1, <2>5, <3>3 DEF Attends, VerifiedAgain
    <2> QED
      BY <2>3, <2>4, <2>5 DEF Attends
  <1>3. CASE ReaderStep(r) \/ CrashReader(r)
    <2>1. Continues(r)
      BY <1>3, ReaderGoes
    <2>2. CASE VerifiedAgain(x)
      BY <1>1, <2>1, <2>2 DEF VerifiedAgain, Attends, Continues
    <2>3. CASE reader[r].email = x /\ evidence[x] = "none"
      <3>1. AtWork(r) /\ UNCHANGED inboundDeliveries
        BY <2>1 DEF Continues
      <3>2. Tending(reader[r])
        BY <1>1, <2>3, <3>1, TendingAttends
      <3>3. \/ Tending(reader'[r]) /\ reader'[r].email = x
            \/ reader'[r] = IdleReader /\ UNCHANGED inbound
            \/ result'[x] = "NEEDS_ATTENTION"
        BY <1>1, <1>3, <2>3, <3>2, TendingGoes
      <3>4. CASE Tending(reader'[r]) /\ reader'[r].email = x
        BY <1>1, <2>3, <3>4 DEF Attends, Tending, Processing, Asked, ReaderAt
      <3>5. CASE reader'[r] = IdleReader /\ UNCHANGED inbound
        BY <1>1, <2>3, <3>1, <3>5, LeftToQueue DEF Attends
      <3>6. CASE result'[x] = "NEEDS_ATTENTION"
        BY <1>1, <2>3, <3>6 DEF Attends, Asked
      <3> QED
        BY <3>3, <3>4, <3>5, <3>6
    <2>4. CASE reader[r].email # x /\ evidence[x] = "none"
      <3>1. reader'[r].email # x /\ reader[r].email \in Emails
        BY <1>1, <2>1, <2>4, EmailAssumption DEF Continues, IdleReader
      <3>2. inbound'[x] = inbound[x] /\ result'[x] = result[x] /\ UNCHANGED inboundDeliveries
        BY <1>1, <2>1, <2>4 DEF Continues, InboxTyped
      <3>3. /\ Processing(x) => Processing(x)'
            /\ Asked(x) => Asked(x)'
            /\ ReplySpent(x) => ReplySpent(x)'
        BY <2>4, <3>1, <3>2 DEF Processing, Asked, ReplySpent, HeldEmail, ReaderAt
      <3> QED
        BY <1>1, <2>4, <3>3 DEF Attends, VerifiedAgain
    <2> QED
      BY <2>2, <2>3, <2>4 DEF Attends
  <1> QED
    BY <1>2, <1>3

(* Only StartVerifying moves the mission to VERIFYING; its reply attends.  *)
LEMMA VerifyingBegins ==
  ASSUME FollowInvariant, FollowInvariant', InboxInvariant, InboxInvariant', EvidenceSettles,
         NEW r \in Readers, mission' # mission, mission'.state = "VERIFYING",
         ReaderStep(r) \/ CrashReader(r) \/ \E e \in Emails : ServeEmail(r, e),
         \A q \in Readers : q # r => reader'[q] = reader[q]
  PROVE  routed' /\ \E x \in Replies : Attends(x)'
PROOF
  <1> DEFINE item == reader[r].item
             next == [item EXCEPT !.state = "VERIFYING", !.version = @ + 1]
  <1>1. reader \in [Readers -> ReaderType] /\ reader[r] \in ReaderType /\ mission \in Mission /\ item \in Mission
        /\ InboxTyped
    BY ReaderHas DEF ReaderType
  <1>2. ~Record(r)
    <2>1. ASSUME Record(r) PROVE FALSE
      <3>1. reader[r].finding \in Verdict
        BY <2>1, ReaderHas DEF Record, ReaderAt, Knows, Fits
      <3>2. mission' = Verified(item, reader[r].finding)
        BY <2>1 DEF Record, Transact, CompareAndSet, storeVars
      <3>3. mission'.state = Settled(reader[r].finding)
        BY <1>1, <3>2 DEF Verified, Mission
      <3> QED
        BY <3>1, <3>3 DEF Settled, Verdict
    <2> QED
      BY <2>1
  <1>3. ~RecordBounce(r)
    BY <1>1 DEF RecordBounce, CompareAndSet, Halted, storeVars, Mission
  <1>4. StartVerifying(r)
    BY <1>2, <1>3 DEF ReaderStep, Interpret, ReadForVerdict, Notify, RaiseIntervention,
           ScheduleVerdictWake, ScheduleTask, RecordDispatched, RecordFailed, AnswerEmail, CrashReader, ServeEmail,
           Reject, AcceptBounce, AcceptStranger, AcceptReply, Serve, ReceiveEmail, sharedVars, storeVars
  <1>5. /\ CompareAndSet(item.version, next, FALSE)
        /\ GiveUp(r) \/ ReaderGoto(r, "interpret")
        /\ UNCHANGED <<inbound, inboundDeliveries, result, evidence, routed>>
    BY <1>4 DEF StartVerifying, Transact, taskUnchanged, storeVars
  <1>6. mission.state \in Active
    <2>1. mission = item
      BY <1>5 DEF CompareAndSet, VersionMatches, FollowInvariant, ReadersCurrent
    <2> QED
      BY <2>1 DEF FollowInvariant, ActiveItems
  <1>7. PICK e \in Replies : e = reader[r].email
    BY <1>4 DEF StartVerifying, InboxInvariant, Tended
  <1>8. /\ AtWork(r) /\ routed /\ e \in Emails
        /\ evidence[e] # "none" => evidence[e] = "insufficient" /\ inboundDeliveries[e] > 1
    <2>1. AtWork(r) /\ routed /\ e \in Emails /\ (evidence[e] # "none" => inboundDeliveries[e] > 1)
      BY <1>4, <1>7 DEF StartVerifying, AtWork, ReaderAt, InboxInvariant, Tended, Replies, Verifying
    <2>2. evidence[e] \in {"none", "insufficient"}
      BY <1>1, <1>6, <2>1 DEF EvidenceSettles, InboxTyped, Verdict
    <2> QED
      BY <2>1, <2>2
  <1>9. CASE evidence[e] # "none"
    BY <1>5, <1>8, <1>9 DEF Attends, VerifiedAgain
  <1>10. CASE evidence[e] = "none" /\ GiveUp(r)
    <2>1. reader'[r] = IdleReader
      BY <1>1, <1>10 DEF GiveUp
    <2> QED
      BY <1>5, <1>7, <1>8, <1>10, <2>1, LeftToQueue DEF Attends
  <1>11. CASE evidence[e] = "none" /\ ReaderGoto(r, "interpret")
    <2>1. reader'[r].email = e /\ reader'[r].pc = "interpret"
      BY <1>1, <1>7, <1>11, ReaderTurns DEF ReaderPC
    <2>2. Processing(e)'
      BY <2>1 DEF Processing
    <2>3. evidence'[e] = "none"
      BY <1>5, <1>11
    <2> QED
      BY <1>5, <1>8, <2>2, <2>3 DEF Attends
  <1> QED
    BY <1>5, <1>8, <1>9, <1>10, <1>11

LEMMA ReaderSettles ==
  ASSUME FollowInvariant, EvidenceSettles, UNCHANGED runnerVars, NEW r \in Readers,
         ReaderStep(r) \/ CrashReader(r) \/ \E e \in Emails : ServeEmail(r, e)
  PROVE  EvidenceSettles'
PROOF
  <1>1. MissionMoves /\ reader[r] \in ReaderType /\ mission \in Mission /\ InboxTyped
    BY ReaderStepInvariant, ReaderHas DEF ReaderSound
  <1>2. CASE UNCHANGED evidence
    BY <1>1, <1>2 DEF EvidenceSettles, MissionMoves, Active, Runnable, InProgress
  <1>3. CASE evidence' # evidence
    <2>1. Record(r)
      BY <1>3 DEF ReaderStep, StartVerifying, Interpret, ReadForVerdict, Notify, RaiseIntervention,
             ScheduleVerdictWake, RecordBounce, AnswerEmail, CrashReader, ServeEmail, Reject, AcceptBounce,
             AcceptStranger, AcceptReply, Serve, ReceiveEmail
    <2>2. reader[r].finding \in Verdict /\ reader[r].item \in Mission
      BY <1>1, <2>1, ReaderHas DEF Record, ReaderAt, Knows, Fits, ReaderType
    <2>3. /\ mission' = Verified(reader[r].item, reader[r].finding)
          /\ evidence' = [evidence EXCEPT ![reader[r].email] = reader[r].finding]
      BY <1>3, <2>1 DEF Record, Transact, CompareAndSet, storeVars
    <2>4. mission'.state = Settled(reader[r].finding)
      BY <2>2, <2>3 DEF Verified, Mission
    <2>5. ASSUME NEW x \in Emails, evidence'[x] \in {"accepted", "conflict"} PROVE mission'.state \notin Active
      <3>1. CASE x = reader[r].email
        <4>1. evidence'[x] = reader[r].finding
          BY <1>1, <2>3, <3>1 DEF InboxTyped
        <4> QED
          BY <2>4, <2>5, <4>1 DEF Settled, Active, Runnable, InProgress
      <3>2. CASE x # reader[r].email
        <4>1. evidence'[x] = evidence[x]
          BY <1>1, <2>3, <3>2 DEF InboxTyped
        <4> QED
          BY <1>1, <2>5, <4>1 DEF EvidenceSettles, MissionMoves, Active, Runnable, InProgress
      <3> QED
        BY <3>1, <3>2
    <2> QED
      BY <2>5 DEF EvidenceSettles
  <1> QED
    BY <1>2, <1>3

LEMMA AttendedBy == VerifyingAttended <=> (mission.state = "VERIFYING" => \E x \in Replies : Attends(x))
PROOF
  BY DEF VerifyingAttended, Attends

LEMMA NextAttended ==
  ASSUME "redeliver" \notin Faults, "reply" \notin Faults, FollowAttended, [Next]_vars
  PROVE  FollowAttended'
PROOF
  <1>1. FollowInvariant /\ FollowInvariant' /\ InboxTyped
    BY NextFollow DEF FollowAttended, FollowInvariant, TypeOK, InboundTypeOK, InboxTyped
  <1>2. VerifyingAttended <=> (mission.state = "VERIFYING" => \E x \in Replies : Attends(x))
    BY AttendedBy
  <1>3. VerifyingAttended' <=> (mission'.state = "VERIFYING" => \E x \in Replies : Attends(x)')
    <2>1. (VerifyingAttended <=> (mission.state = "VERIFYING" => \E x \in Replies : Attends(x)))'
      BY AttendedBy, PTL
    <2> QED
      BY <2>1
  <1>4. ASSUME UNCHANGED inboundVars, UNCHANGED mission \/ mission'.state # "VERIFYING", UNCHANGED routed \/ routed',
               UNCHANGED mission \/ mission.state \in Active \/ mission'.state = "NEEDS_ATTENTION"
        PROVE  FollowAttended'
    <2>1. InboxInvariant'
      BY <1>4 DEF FollowAttended, InboxInvariant, OneReader, EvidenceDelivered, AnsweredDeleted, Tended, AtWork,
                  ReaderAt, inboundVars
    <2>2. EvidenceSettles'
      BY <1>4 DEF FollowAttended, EvidenceSettles, inboundVars, Active, Runnable, InProgress
    <2>3. VerifyingRouted'
      BY <1>4 DEF FollowAttended, VerifyingRouted
    <2>4. ASSUME mission'.state = "VERIFYING" PROVE \E x \in Replies : Attends(x)'
      <3>1. PICK x \in Replies : Attends(x)
        BY <1>2, <1>4, <2>4 DEF FollowAttended
      <3>2. Attends(x)'
        BY <1>4, <3>1 DEF Attends, Processing, Asked, ReplySpent, VerifiedAgain, HeldEmail, ReaderAt, inboundVars
      <3> QED
        BY <3>2
    <2> QED
      BY <1>1, <1>3, <2>1, <2>2, <2>3, <2>4 DEF FollowAttended
  <1>5. CASE Runner!Next /\ UNCHANGED inboundVars
    <2>1. RP!TypeOK /\ RP!RunnerInvariant /\ RP!Next /\ RP!Works /\ RP!Active = Active
      BY <1>1, <1>5, SameRunner, SameStore, RunnerKeepsInvariant
         DEF FollowInvariant, TypeOK, RP!Active, Active
    <2>2. (UNCHANGED mission \/ mission'.state # "VERIFYING") /\ (UNCHANGED routed \/ routed')
      BY <2>1, RunnerAssumed, RP!NextVerifiesNothing
    <2> QED
      BY <1>4, <1>5, <2>1, <2>2 DEF RP!Works
  <1>6. CASE UNCHANGED vars
    BY <1>4, <1>6 DEF vars, sharedVars, storeVars
  <1>7. ASSUME NEW e \in Emails, Arrive(e) PROVE FollowAttended'
    <2>1. /\ UNCHANGED <<inboundDeliveries, result, evidence, reader, mission, routed>>
          /\ inbound[e] = "none" /\ inbound'[e] = "queued" /\ \A x \in Emails : x # e => inbound'[x] = inbound[x]
      BY <1>1, <1>7 DEF Arrive, sharedVars, storeVars, InboxTyped
    <2>2. \A r \in Readers : AtWork(r) => reader[r].email \in Emails /\ reader[r].email # e
      BY <1>1, <2>1, ReaderHas DEF Knows, AtWork, FollowAttended, InboxInvariant, Tended
    <2>3. InboxInvariant'
      <3>1. ASSUME NEW r \in Readers PROVE Tended(r)'
        BY <2>1, <2>2 DEF FollowAttended, InboxInvariant, Tended, AtWork, ReaderAt, Verifying
      <3> QED
        BY <2>1, <3>1 DEF FollowAttended, InboxInvariant, OneReader, EvidenceDelivered, AnsweredDeleted, AtWork
    <2>4. EvidenceSettles' /\ VerifyingRouted'
      BY <2>1 DEF FollowAttended, EvidenceSettles, VerifyingRouted
    <2>5. ASSUME mission'.state = "VERIFYING" PROVE \E x \in Replies : Attends(x)'
      <3>1. PICK x \in Replies : Attends(x)
        BY <1>2, <2>1, <2>5 DEF FollowAttended
      <3>2. x \in Emails /\ (inbound[x] = "queued" => inbound'[x] = "queued")
        BY <2>1 DEF Replies
      <3>3. Attends(x)'
        BY <2>1, <3>1, <3>2 DEF Attends, Processing, Asked, ReplySpent, VerifiedAgain, HeldEmail, ReaderAt
      <3> QED
        BY <3>3
    <2> QED
      BY <1>1, <1>3, <2>3, <2>4, <2>5 DEF FollowAttended
  <1>8. ASSUME UNCHANGED runnerVars, NEW r \in Readers,
               ReaderStep(r) \/ CrashReader(r) \/ \E e \in Emails : ServeEmail(r, e)
        PROVE  FollowAttended'
    <2>1. \A q \in Readers : q # r => reader'[q] = reader[q]
      BY <1>1, <1>8, ReaderStepInvariant DEF ReaderSound, ReaderMoves
    <2>2. InboxInvariant'
      BY <1>1, <1>8, <2>1, ReaderGoes, ServeDelivers, InboxKept DEF FollowAttended
    <2>3. EvidenceSettles'
      BY <1>1, <1>8, ReaderSettles DEF FollowAttended
    <2>4. CASE UNCHANGED mission
      <3>1. UNCHANGED routed
        BY <1>1, <1>8, ReaderGoes, ServeDelivers DEF Continues, Delivers, FollowAttended
      <3>2. VerifyingRouted'
        BY <2>4, <3>1 DEF FollowAttended, VerifyingRouted
      <3>3. ASSUME mission'.state = "VERIFYING" PROVE \E x \in Replies : Attends(x)'
        <4>1. PICK x \in Replies : Attends(x)
          BY <1>2, <2>4, <3>3 DEF FollowAttended
        <4>2. routed /\ mission.state = "VERIFYING"
          BY <2>4, <3>3 DEF FollowAttended, VerifyingRouted
        <4>3. Attends(x)'
          BY <1>1, <1>8, <2>1, <2>2, <2>4, <4>1, <4>2, AttendsKept DEF FollowAttended
        <4> QED
          BY <4>3
      <3> QED
        BY <1>1, <1>3, <2>2, <2>3, <3>2, <3>3 DEF FollowAttended
    <2>5. CASE mission' # mission
      <3>1. mission'.state = "VERIFYING" => routed' /\ \E x \in Replies : Attends(x)'
        BY <1>1, <1>8, <2>1, <2>2, <2>5, VerifyingBegins DEF FollowAttended
      <3> QED
        BY <1>1, <1>3, <2>2, <2>3, <3>1 DEF FollowAttended, VerifyingRouted
    <2> QED
      BY <2>4, <2>5
  <1> QED
    BY <1>5, <1>6, <1>7, <1>8 DEF Next

LEMMA InitAttended == Init => FollowAttended
PROOF
  <1> SUFFICES ASSUME Init PROVE FollowAttended
    OBVIOUS
  <1>1. FollowInvariant /\ RP!Init
    BY InitFollow, SameRunner DEF Init
  <1>2. mission = ApprovedMission
    BY <1>1, SameStore DEF RP!Init, RP!StoreInit
  <1>3. InboxInvariant
    BY DEF Init, InboundInit, InboxInvariant, OneReader, EvidenceDelivered, AnsweredDeleted, Tended, AtWork,
           ReaderAt, IdleReader, Verifying
  <1>4. EvidenceSettles /\ VerifyingRouted /\ VerifyingAttended
    BY <1>2 DEF Init, InboundInit, EvidenceSettles, VerifyingRouted, VerifyingAttended, ApprovedMission
  <1> QED
    BY <1>1, <1>3, <1>4 DEF FollowAttended

(* A mission in VERIFYING is attended, or left in one of the two ways      *)
(* named, whatever fails: with any number of readers, workers and emails,  *)
(* while the inbound queue delivers a task to one reader at a time.  The   *)
(* readers themselves stand in the place of "reply".                       *)
THEOREM VerifyingAttendedHolds ==
  ASSUME {"redeliver", "reply"} \cap Faults = {}
  PROVE  Spec => []VerifyingAttended
PROOF
  <1>1. "redeliver" \notin Faults /\ "reply" \notin Faults
    OBVIOUS
  <1>2. FollowAttended /\ [Next]_vars => FollowAttended'
    BY <1>1, NextAttended
  <1>3. FollowAttended => VerifyingAttended
    BY DEF FollowAttended
  <1> QED
    BY <1>2, <1>3, InitAttended, PTL DEF Spec
=============================================================================
