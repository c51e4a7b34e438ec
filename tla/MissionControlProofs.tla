------------------------ MODULE MissionControlProofs ------------------------
(***************************************************************************)
(* Theorems about MissionControl: what the owner's commands promise over   *)
(* any number of workers, pages and repeated requests, and that the        *)
(* invariant of MissionRunner survives them.                               *)
(***************************************************************************)
EXTENDS MissionControl, MissionRunnerProofs

-----------------------------------------------------------------------------
(* Why                                                                     *)

CommandType == [action: Controls, version: Versions, result: Versions \cup {0}]
RequestPC == {"idle", "look", "transact", "create", "mark", "markFailed", "createAgain", "markAgain",
              "reply", "lost"}

CommandTyped ==
  /\ command \in [Pages -> CommandType \cup {NoCommand}]
  /\ request \in [Pages -> [Tries -> RequestPC]]

(* A mission whose authority was taken back does not run.                  *)
RevokedRests == mission.revoked => mission.state \notin Active

(* A request serves a command of its page.                                 *)
RequestsServe ==
  \A p \in Pages, i \in Tries : request[p][i] # "idle" => command[p] # NoCommand

(* A command was given for the current version or an older one.            *)
CommandsCurrent ==
  \A p \in Pages : command[p] # NoCommand => command[p].version <= mission.version

(* A RESUME that was permitted and still finds its version finds the       *)
(* authority it was permitted under.                                       *)
ResumesEntitled ==
  \A p \in Pages, i \in Tries :
    /\ request[p][i] = "transact"
    /\ command[p].action = "RESUME"
    /\ command[p].version = mission.version
    => ~mission.revoked

ControlInvariant ==
  /\ ControlTypeOK
  /\ RunnerInvariant
  /\ ActiveItems
  /\ RevokedRests
  /\ RequestsServe
  /\ CommandsCurrent
  /\ ResumesEntitled

-----------------------------------------------------------------------------
(* What a step does to the commands and their requests                     *)

LEMMA TypedCommands == ControlTypeOK => CommandTyped
PROOF
  BY DEF ControlTypeOK, CommandTyped, CommandType, RequestPC

(* It keeps the command of a page, ends it with its requests, or begins    *)
(* one; and a request reaches its transaction only by its checks.          *)
Steers(q) ==
  /\ \A j \in Tries : request'[q][j] # "idle" => command'[q] # NoCommand
  /\ command'[q] # NoCommand =>
       \/ /\ command[q] # NoCommand
          /\ command'[q].action = command[q].action /\ command'[q].version = command[q].version
       \/ /\ UNCHANGED mission /\ command'[q].version = mission.version
          /\ \A j \in Tries : request'[q][j] # "transact"
  /\ \A j \in Tries : request'[q][j] = "transact" =>
       request[q][j] = "transact" \/ (UNCHANGED mission /\ (command'[q].action = "RESUME" => ~mission.revoked))
AllSteer == CommandTyped' /\ \A q \in Pages : Steers(q)

LEMMA GotoPoint ==
  ASSUME request \in [Pages -> [Tries -> RequestPC]], NEW p \in Pages, NEW i \in Tries,
         NEW pc \in RequestPC, request' = [request EXCEPT ![p][i] = pc]
  PROVE  /\ request' \in [Pages -> [Tries -> RequestPC]]
         /\ request'[p][i] = pc
         /\ \A q \in Pages, j \in Tries : q # p \/ j # i => request'[q][j] = request[q][j]
PROOF
  OBVIOUS

LEMMA GotoSteers ==
  ASSUME CommandTyped, RequestsServe, NEW p \in Pages, NEW i \in Tries, NEW pc \in RequestPC,
         command[p] # NoCommand, RequestGoto(p, i, pc),
         pc = "transact" => UNCHANGED mission /\ (command[p].action = "RESUME" => ~mission.revoked)
  PROVE  AllSteer
PROOF
  <1>1. UNCHANGED command /\ request' = [request EXCEPT ![p][i] = pc]
    BY DEF RequestGoto
  <1>2. /\ request' \in [Pages -> [Tries -> RequestPC]]
        /\ request'[p][i] = pc
        /\ \A q \in Pages, j \in Tries : q # p \/ j # i => request'[q][j] = request[q][j]
    BY <1>1, GotoPoint DEF CommandTyped
  <1>3. CommandTyped'
    BY <1>1, <1>2 DEF CommandTyped
  <1>4. ASSUME NEW q \in Pages PROVE Steers(q)
    BY <1>1, <1>2 DEF Steers, RequestsServe
  <1> QED
    BY <1>3, <1>4 DEF AllSteer

LEMMA AnsweredSteers ==
  ASSUME CommandTyped, RequestsServe, NEW p \in Pages, NEW i \in Tries,
         command[p] # NoCommand, Answered(p, i)
  PROVE  AllSteer
PROOF
  <1>1. CASE RequestGoto(p, i, "idle")
    BY <1>1, GotoSteers DEF RequestPC
  <1>2. CASE /\ command' = [command EXCEPT ![p] = NoCommand]
             /\ request' = [request EXCEPT ![p] = [j \in Tries |-> "idle"]]
    <2>1. CommandTyped'
      BY <1>2 DEF CommandTyped, RequestPC
    <2>2. ASSUME NEW q \in Pages PROVE Steers(q)
      <3>1. CASE q = p
        BY <1>2, <3>1 DEF Steers, CommandTyped
      <3>2. CASE q # p
        BY <1>2, <3>2 DEF Steers, CommandTyped, RequestsServe
      <3> QED
        BY <3>1, <3>2
    <2> QED
      BY <2>1, <2>2 DEF AllSteer
  <1> QED
    BY <1>1, <1>2 DEF Answered

LEMMA RestSteers ==
  ASSUME CommandTyped, RequestsServe, UNCHANGED <<command, request>>
  PROVE  AllSteer
PROOF
  BY DEF AllSteer, Steers, CommandTyped, RequestsServe

-----------------------------------------------------------------------------
(* What a step of the owner or of a reader does to the rest                *)

(* The document moves by one version, and never to run without authority.  *)
Steered ==
  \/ UNCHANGED mission
  \/ /\ mission' \in Mission
     /\ mission'.version = mission.version + 1 /\ mission'.ordinal = mission.ordinal
     /\ mission'.revoked => mission'.state \notin Active

StoreSteered ==
  /\ wakeDue' \in BOOLEAN /\ idleLong' \in BOOLEAN
  /\ intents' \in [Versions -> {"none", "PENDING", "DISPATCHED", "HOLLOW"}]
  /\ tasks' \in [Task -> {"unused", "queued", "deleted", "inFlight"}]
  /\ UNCHANGED faults \/ \E f : Fault(f)
  /\ UNCHANGED <<expired, deliveries, routed>>
  /\ raised \subseteq raised' /\ raised' \subseteq raised \cup Notice
  /\ resolved' \subseteq Questions \cap raised'

LEMMA ControlFrame ==
  ASSUME ControlInvariant, UNCHANGED runnerVars, Steered, StoreSteered, AllSteer
  PROVE  ControlInvariant'
PROOF
  <1>1. TypeOK /\ StoreTypeOK /\ mission \in Mission /\ mission.version \in Nat
    BY VersionsAssumption DEF ControlInvariant, ControlTypeOK, TypeOK, StoreTypeOK, Mission
  <1>2. StoreTypeOK'
    <2>1. faults' \in 0..MaxFaults
      BY <1>1, FaultTyped DEF StoreSteered, StoreTypeOK
    <2>2. mission' \in Mission
      BY <1>1 DEF Steered
    <2>3. wakeDue' \in BOOLEAN /\ idleLong' \in BOOLEAN
      BY DEF StoreSteered
    <2> QED
      BY <1>1, <2>1, <2>2, <2>3 DEF StoreSteered, StoreTypeOK
  <1>3. TypeOK'
    BY <1>1, <1>2 DEF TypeOK, runnerVars
  <1>4. ControlTypeOK'
    BY <1>3 DEF ControlTypeOK, StoreSteered, AllSteer, CommandTyped, CommandType, RequestPC
  <1>5. RunnerInvariant'
    <2>1. Calms /\ UNCHANGED <<records, accepted>>
      BY DEF Calms, runnerVars
    <2>2. Moves
      BY DEF Steered, Moves
    <2> QED
      BY <1>1, <1>3, <2>1, <2>2, QuietInvariant DEF ControlInvariant
  <1>6. ActiveItems'
    BY DEF ControlInvariant, ActiveItems, runnerVars
  <1>7. RevokedRests'
    BY DEF ControlInvariant, RevokedRests, Steered
  <1>8. RequestsServe'
    BY DEF AllSteer, Steers, RequestsServe
  <1>9. mission'.version \in Nat /\ mission.version <= mission'.version
        /\ (mission'.version = mission.version => UNCHANGED mission)
    BY <1>1 DEF Steered
  <1>10. \A q \in Pages : command[q] # NoCommand => command[q].version \in Nat /\ command[q].version <= mission.version
    BY TypedCommands, VersionsAssumption DEF ControlInvariant, CommandTyped, CommandType, CommandsCurrent
  <1>11. CommandsCurrent'
    BY <1>1, <1>9, <1>10 DEF AllSteer, Steers, CommandsCurrent
  <1>12. ResumesEntitled'
    <2> SUFFICES ASSUME NEW q \in Pages, NEW j \in Tries, request'[q][j] = "transact",
                        command'[q].action = "RESUME", command'[q].version = mission'.version
                 PROVE  ~mission'.revoked
      BY DEF ResumesEntitled
    <2>1. CASE request[q][j] = "transact"
      <3>1. /\ command'[q] # NoCommand /\ command[q] # NoCommand
            /\ command'[q].action = command[q].action /\ command'[q].version = command[q].version
        <4>1. command'[q] # NoCommand
          BY DEF AllSteer, Steers
        <4> QED
          BY <4>1 DEF AllSteer, Steers
      <3>2. UNCHANGED mission
        BY <1>1, <1>9, <1>10, <3>1
      <3> QED
        BY <2>1, <3>1, <3>2 DEF ControlInvariant, ResumesEntitled
    <2>2. CASE UNCHANGED mission /\ ~mission.revoked
      BY <2>2
    <2> QED
      BY <2>1, <2>2 DEF AllSteer, Steers
  <1> QED
    BY <1>4, <1>5, <1>6, <1>7, <1>8, <1>11, <1>12 DEF ControlInvariant

LEMMA ControlHas ==
  ASSUME ControlInvariant
  PROVE  /\ StoreTypeOK /\ mission \in Mission /\ CommandTyped /\ RequestsServe
         /\ resolved \subseteq Questions \cap raised
PROOF
  BY TypedCommands DEF ControlInvariant, ControlTypeOK, TypeOK, StoreTypeOK

(* A step that leaves the document and the questions alone.                *)
LEMMA QuietControl ==
  ASSUME ControlInvariant, UNCHANGED <<runnerVars, resolved, storeVars, expired, queueVars, routed, raised>>,
         UNCHANGED faults \/ \E f : Fault(f), AllSteer
  PROVE  ControlInvariant' /\ UNCHANGED mission
PROOF
  <1>1. UNCHANGED <<mission, wakeDue, idleLong, intents, tasks, deliveries, runnerVars, resolved, expired, routed, raised>>
    BY DEF storeVars, queueVars
  <1>2. Steered
    BY <1>1 DEF Steered
  <1>3. wakeDue' \in BOOLEAN /\ idleLong' \in BOOLEAN
    BY <1>1, ControlHas DEF StoreTypeOK
  <1>4. StoreSteered
    BY <1>1, <1>3, ControlHas DEF StoreSteered, StoreTypeOK
  <1> QED
    BY <1>1, <1>2, <1>4, ControlFrame

-----------------------------------------------------------------------------
(* The steps of the owner                                                  *)

LEMMA CommandKeeps ==
  ASSUME ControlInvariant, NEW p \in Pages, NEW action \in Controls, Command(p, action)
  PROVE  ControlInvariant' /\ UNCHANGED mission
PROOF
  <1> DEFINE given == [action |-> action, version |-> mission.version, result |-> 0]
  <1>1. /\ command' = [command EXCEPT ![p] = given]
        /\ UNCHANGED <<resolved, sharedVars, runnerVars>>
    BY DEF Command
  <1>2. PICK i \in Tries :
          request' = [request EXCEPT ![p] = [j \in Tries |-> IF j = i THEN "look" ELSE "idle"]]
    BY DEF Command
  <1>3. given \in CommandType /\ given # NoCommand /\ given.version = mission.version
    BY ControlHas, ControlAssumption DEF CommandType, Mission, NoCommand
  <1> HIDE DEF given
  <1>4. UNCHANGED mission
    BY <1>1 DEF sharedVars, storeVars
  <1>5. AllSteer
    <2>1. CommandTyped'
      BY <1>1, <1>2, <1>3, ControlHas DEF CommandTyped, RequestPC
    <2>2. ASSUME NEW q \in Pages PROVE Steers(q)
      <3>1. CASE q = p
        <4>1. command'[q] = given /\ \A j \in Tries : request'[q][j] \in {"look", "idle"}
          BY <1>1, <1>2, <3>1, ControlHas DEF CommandTyped
        <4> QED
          BY <1>3, <1>4, <4>1 DEF Steers
      <3>2. CASE q # p
        <4>1. command'[q] = command[q] /\ request'[q] = request[q]
          BY <1>1, <1>2, <3>2, ControlHas DEF CommandTyped
        <4> QED
          BY <4>1, ControlHas DEF Steers, RequestsServe
      <3> QED
        BY <3>1, <3>2
    <2> QED
      BY <2>1, <2>2 DEF AllSteer
  <1> QED
    BY <1>1, <1>5, QuietControl DEF sharedVars

LEMMA CommandAgainKeeps ==
  ASSUME ControlInvariant, NEW p \in Pages, NEW i \in Tries, CommandAgain(p, i)
  PROVE  ControlInvariant' /\ UNCHANGED mission
PROOF
  <1>1. /\ command[p] # NoCommand
        /\ \/ \E pc \in {"look", "create"} : RequestGoto(p, i, pc)
           \/ Answered(p, i)
        /\ UNCHANGED <<resolved, storeVars, expired, queueVars, routed, raised, runnerVars>>
        /\ UNCHANGED faults \/ \E f : Fault(f)
    BY DEF CommandAgain
  <1>2. AllSteer
    BY <1>1, ControlHas, GotoSteers, AnsweredSteers DEF RequestPC
  <1> QED
    BY <1>1, <1>2, QuietControl

LEMMA LookKeeps ==
  ASSUME ControlInvariant, NEW p \in Pages, NEW i \in Tries, Look(p, i)
  PROVE  ControlInvariant' /\ UNCHANGED mission
PROOF
  <1>1. /\ command[p] # NoCommand
        /\ UNCHANGED <<resolved, sharedVars, runnerVars>>
    BY ControlHas DEF Look, RequestAt, RequestsServe
  <1>2. AllSteer
    <2>1. CASE Answered(p, i)
      BY <1>1, <2>1, ControlHas, AnsweredSteers
    <2>2. CASE ~Answered(p, i)
      <3>1. Permitted(command[p].action) /\ RequestGoto(p, i, "transact")
        BY <2>2 DEF Look
      <3>2. command[p].action = "RESUME" => ~mission.revoked
        BY <3>1 DEF Permitted
      <3>3. UNCHANGED mission /\ "transact" \in RequestPC
        BY <1>1 DEF sharedVars, storeVars, RequestPC
      <3> QED
        BY <1>1, <3>1, <3>2, <3>3, ControlHas, GotoSteers
    <2> QED
      BY <2>1, <2>2
  <1> QED
    BY <1>1, <1>2, QuietControl DEF sharedVars

LEMMA ReplyKeeps ==
  ASSUME ControlInvariant, NEW p \in Pages, NEW i \in Tries, Reply(p, i) \/ CrashControl(p, i)
  PROVE  ControlInvariant' /\ UNCHANGED mission
PROOF
  <1>1. command[p] # NoCommand
    BY ControlHas DEF Reply, CrashControl, RequestAt, RequestsServe
  <1>2. AllSteer
    BY <1>1, ControlHas, GotoSteers, AnsweredSteers DEF Reply, CrashControl, RequestPC
  <1>3. /\ UNCHANGED <<runnerVars, resolved, storeVars, expired, queueVars, routed, raised>>
        /\ UNCHANGED faults \/ \E f : Fault(f)
    BY DEF Reply, CrashControl, sharedVars
  <1> QED
    BY <1>2, <1>3, QuietControl

LEMMA ScheduleResumeKeeps ==
  ASSUME ControlInvariant, NEW p \in Pages, NEW i \in Tries, ScheduleResume(p, i)
  PROVE  ControlInvariant' /\ UNCHANGED mission
PROOF
  <1>1. command[p] # NoCommand
    BY ControlHas DEF ScheduleResume, RequestAt, RequestsServe
  <1>2. AllSteer
    BY <1>1, ControlHas, GotoSteers, AnsweredSteers
       DEF ScheduleResume, ScheduleTask, RecordDispatched, RecordFailed, RequestPC
  <1>3. /\ UNCHANGED <<mission, wakeDue, idleLong, expired, deliveries, routed, raised, resolved, runnerVars>>
        /\ UNCHANGED faults \/ \E f : Fault(f)
    BY DEF ScheduleResume, ScheduleTask, RecordDispatched, RecordFailed, storeVars, clockVars, queueVars
  <1>4. tasks' \in [Task -> {"unused", "queued", "deleted", "inFlight"}]
    BY ControlHas DEF ScheduleResume, ScheduleTask, RecordDispatched, RecordFailed, CreateTask,
                StoreTypeOK, queueVars
  <1>5. intents' \in [Versions -> {"none", "PENDING", "DISPATCHED", "HOLLOW"}]
    BY ControlHas DEF ScheduleResume, ScheduleTask, RecordDispatched, RecordFailed, MarkIntent,
                StoreTypeOK, storeVars
  <1>6. wakeDue' \in BOOLEAN /\ idleLong' \in BOOLEAN
    BY <1>3, ControlHas DEF StoreTypeOK
  <1>7. StoreSteered
    BY <1>3, <1>4, <1>5, <1>6, ControlHas DEF StoreSteered
  <1>8. Steered
    BY <1>3 DEF Steered
  <1> QED
    BY <1>2, <1>3, <1>7, <1>8, ControlFrame

LEMMA ScheduleAgainKeeps ==
  ASSUME ControlInvariant, NEW p \in Pages, NEW i \in Tries, ScheduleAgain(p, i)
  PROVE  ControlInvariant' /\ UNCHANGED mission
PROOF
  <1>1. command[p] # NoCommand
    BY ControlHas DEF ScheduleAgain, RequestAt, RequestsServe
  <1>2. AllSteer
    BY <1>1, ControlHas, GotoSteers, AnsweredSteers DEF ScheduleAgain, ScheduleTask, RequestPC
  <1>3. /\ UNCHANGED <<storeVars, expired, deliveries, routed, raised, resolved, runnerVars>>
        /\ UNCHANGED faults \/ \E f : Fault(f)
    BY DEF ScheduleAgain, ScheduleTask, queueVars
  <1>4. tasks' \in [Task -> {"unused", "queued", "deleted", "inFlight"}]
    BY ControlHas DEF ScheduleAgain, ScheduleTask, CreateTask, StoreTypeOK, queueVars
  <1>5. UNCHANGED <<mission, wakeDue, idleLong, intents>>
    BY <1>3 DEF storeVars
  <1>6. wakeDue' \in BOOLEAN /\ idleLong' \in BOOLEAN
    BY <1>5, ControlHas DEF StoreTypeOK
  <1>7. StoreSteered
    BY <1>3, <1>4, <1>5, <1>6, ControlHas DEF StoreSteered, StoreTypeOK
  <1>8. Steered
    BY <1>5 DEF Steered
  <1> QED
    BY <1>2, <1>3, <1>5, <1>7, <1>8, ControlFrame

(* The document of each command: it runs only after a RESUME, and only a   *)
(* REOPEN or a RESUME leaves the authority there was.                      *)
LEMMA ControlledTyped ==
  ASSUME mission \in Mission, NEW action \in {"STOP", "REVOKE", "EXPIRE", "REOPEN", "RESUME", "REVISE"}
  PROVE  LET next == Controlled(action) IN
         /\ next.version = mission.version + 1 /\ next.ordinal = mission.ordinal
         /\ next.version \in Versions => next \in Mission
         /\ action # "RESUME" => next.state \notin Active
         /\ action = "RESUME" => next.revoked = mission.revoked
         /\ mission.revoked => next.revoked
PROOF
  <1> DEFINE state == CASE action = "REOPEN" -> "NEEDS_ATTENTION"
                        [] action = "RESUME" -> "READY"
                        [] action = "EXPIRE" -> "EXPIRED"
                        [] action \in {"STOP", "REVOKE", "REVISE"} -> "CANCELLED"
             hasWake == mission.hasWake \/ action = "RESUME"
             revoked == mission.revoked \/ action \notin {"REOPEN", "RESUME"}
  <1>1. state \in State /\ (action # "RESUME" => state \notin Active)
    <2>1. CASE action = "REOPEN"
      BY <2>1 DEF State, Active, Runnable, InProgress
    <2>2. CASE action = "RESUME"
      BY <2>2 DEF State, Runnable
    <2>3. CASE action = "EXPIRE"
      BY <2>3 DEF State, Terminal, Active, Runnable, InProgress
    <2>4. CASE action \in {"STOP", "REVOKE", "REVISE"}
      <3>1. state = "CANCELLED"
        BY <2>4
      <3> HIDE DEF state
      <3> QED
        BY <3>1 DEF State, Terminal, Active, Runnable, InProgress
    <2> QED
      BY <2>1, <2>2, <2>3, <2>4
  <1>2. hasWake \in BOOLEAN /\ revoked \in BOOLEAN
    OBVIOUS
  <1>3. (action = "RESUME" => revoked = mission.revoked) /\ (mission.revoked => revoked)
    BY DEF Mission
  <1> DEFINE next == [mission EXCEPT !.state = state, !.version = @ + 1, !.hasWake = hasWake, !.revoked = revoked]
  <1>4. Controlled(action) = next
    BY DEF Controlled, Mission
  <1> HIDE DEF state, hasWake, revoked
  <1>5. /\ next.version = mission.version + 1 /\ next.ordinal = mission.ordinal
        /\ next.version \in Versions => next \in Mission
        /\ next.state = state /\ next.revoked = revoked
    BY <1>1, <1>2 DEF Mission
  <1> HIDE DEF next
  <1> QED
    BY <1>1, <1>3, <1>4, <1>5

(* The transaction of a command: where it moves the document, it is the    *)
(* one current when the command was given.                                 *)
LEMMA TransitionKeeps ==
  ASSUME ControlInvariant, NEW p \in Pages, NEW i \in Tries, Transition(p, i)
  PROVE  /\ ControlInvariant'
         /\ \/ UNCHANGED mission
            \/ /\ RequestAt(p, i, "transact") /\ command[p].version = mission.version
               /\ mission.revoked => mission'.revoked /\ mission'.state \notin Active
PROOF
  <1> DEFINE action == command[p].action
             next == Controlled(action)
             recorded(pc) == /\ command' = [command EXCEPT ![p].result = mission.version + 1]
                             /\ request' = [request EXCEPT ![p][i] = pc]
             applied == /\ VersionMatches(command[p].version) /\ Apply(action)
                        /\ \E pc \in {"create", "reply", "lost"} : recorded(pc)
  <1>1. /\ command[p] # NoCommand /\ command[p] \in CommandType /\ CommandTyped /\ RequestAt(p, i, "transact")
        /\ mission \in Mission
    BY ControlHas DEF Transition, RequestAt, RequestsServe, CommandTyped
  <1>2. action \in {"STOP", "REVOKE", "EXPIRE", "REOPEN", "RESUME", "REVISE"}
    BY <1>1, ControlAssumption DEF CommandType
  <1>3. UNCHANGED <<expired, queueVars, routed, raised, runnerVars>> /\ (UNCHANGED faults \/ \E f : Fault(f))
    BY DEF Transition
  <1>4. CASE /\ UNCHANGED <<storeVars, resolved>>
             /\ (\E pc \in {"create", "createAgain"} : RequestGoto(p, i, pc)) \/ Answered(p, i)
    <2>1. AllSteer
      BY <1>1, <1>4, ControlHas, GotoSteers, AnsweredSteers DEF RequestPC
    <2> QED
      BY <1>3, <1>4, <2>1, QuietControl
  <1>5. CASE applied
    <2>1. /\ next.version = mission.version + 1 /\ next.ordinal = mission.ordinal
          /\ next.version \in Versions => next \in Mission
          /\ action # "RESUME" => next.state \notin Active
          /\ action = "RESUME" => next.revoked = mission.revoked
          /\ mission.revoked => next.revoked
      BY <1>1, <1>2, ControlledTyped
    <2>2. /\ command[p].version = mission.version
          /\ next.version \in Versions /\ mission' = next
          /\ idleLong' = FALSE /\ resolved' = Resolved
          /\ intents' = IF Wakes(action) THEN [intents EXCEPT ![next.version] = "PENDING"] ELSE intents
      BY <1>5 DEF VersionMatches, Apply
    <2>3. wakeDue' \in BOOLEAN
      BY <1>5 DEF Apply
    <2> HIDE DEF next
    <2>4. action = "RESUME" => ~mission.revoked
      BY <1>1, <2>2 DEF ControlInvariant, ResumesEntitled, RequestAt
    <2>5. Steered
      BY <2>1, <2>2, <2>4 DEF Steered
    <2>6. StoreSteered
      <3>1. intents' \in [Versions -> {"none", "PENDING", "DISPATCHED", "HOLLOW"}]
        BY <2>2, ControlHas DEF StoreTypeOK
      <3>2. idleLong' \in BOOLEAN /\ resolved' \subseteq Questions \cap raised'
        BY <1>3, <2>2 DEF Resolved
      <3> QED
        BY <1>3, <2>3, <3>1, <3>2, ControlHas DEF StoreSteered, StoreTypeOK, queueVars
    <2>7. AllSteer
      <3>1. PICK pc \in {"create", "reply", "lost"} : recorded(pc)
        BY <1>5
      <3>2. mission.version + 1 \in Versions
        BY <2>1, <2>2
      <3>3. /\ command' \in [Pages -> CommandType \cup {NoCommand}]
            /\ command'[p] # NoCommand
            /\ command'[p].action = command[p].action /\ command'[p].version = command[p].version
            /\ \A q \in Pages : q # p => command'[q] = command[q]
        <4>1. ASSUME NEW c \in CommandType
              PROVE  /\ [c EXCEPT !.result = mission.version + 1] \in CommandType
                     /\ [c EXCEPT !.result = mission.version + 1].action = c.action
                     /\ [c EXCEPT !.result = mission.version + 1].version = c.version
          BY <3>2 DEF CommandType
        <4>2. \A c \in CommandType : c # NoCommand
          BY ControlAssumption DEF CommandType, NoCommand
        <4>3. /\ \A q \in Pages : q # p => command'[q] = command[q]
              /\ command'[p] = [command[p] EXCEPT !.result = mission.version + 1]
              /\ DOMAIN command' = Pages
              /\ command' = [q \in Pages |-> command'[q]]
          BY <1>1, <3>1 DEF CommandTyped
        <4>4. command'[p] \in CommandType
          BY <1>1, <4>1, <4>3
        <4>5. command' \in [Pages -> CommandType \cup {NoCommand}]
          BY <1>1, <4>3, <4>4 DEF CommandTyped
        <4> QED
          BY <1>1, <4>1, <4>2, <4>3, <4>4, <4>5
      <3>4. /\ request' \in [Pages -> [Tries -> RequestPC]]
            /\ request'[p][i] = pc
            /\ \A q \in Pages, j \in Tries : q # p \/ j # i => request'[q][j] = request[q][j]
        <4>1. pc \in RequestPC /\ request \in [Pages -> [Tries -> RequestPC]]
          BY <1>1 DEF RequestPC, CommandTyped
        <4> QED
          BY <3>1, <4>1, GotoPoint
      <3>5. CommandTyped'
        BY <3>3, <3>4 DEF CommandTyped
      <3>6. ASSUME NEW q \in Pages PROVE Steers(q)
        <4>1. CASE q = p
          BY <1>1, <3>3, <3>4, <4>1 DEF Steers
        <4>2. CASE q # p
          BY <3>3, <3>4, <4>2, ControlHas DEF Steers, RequestsServe
        <4> QED
          BY <4>1, <4>2
      <3> QED
        BY <3>5, <3>6 DEF AllSteer
    <2>8. ControlInvariant'
      BY <1>3, <2>5, <2>6, <2>7, ControlFrame
    <2> QED
      BY <1>1, <2>1, <2>2, <2>4, <2>8
  <1> HIDE DEF next, recorded, applied
  <1>6. \/ /\ UNCHANGED <<storeVars, resolved>>
           /\ (\E pc \in {"create", "createAgain"} : RequestGoto(p, i, pc)) \/ Answered(p, i)
        \/ applied
    BY DEF Transition, applied, recorded
  <1> QED
    BY <1>4, <1>5, <1>6

-----------------------------------------------------------------------------
(* The steps of the readers                                                *)
LEMMA CommittedKeeps ==
  ASSUME ControlInvariant, NEW next, NEW wake \in BOOLEAN, NEW notices \in SUBSET Notice,
         next.version = mission.version + 1, next.ordinal = mission.ordinal,
         next.version \in Versions => next \in Mission,
         next.revoked => next.state \notin Active,
         Committed(next, wake, notices)
  PROVE  ControlInvariant'
PROOF
  <1>1. CompareAndSet(mission.version, next, wake)
    BY DEF Committed
  <1>2. /\ mission' \in Mission
        /\ wakeDue' \in BOOLEAN /\ idleLong' \in BOOLEAN
        /\ intents' \in [Versions -> {"none", "PENDING", "DISPATCHED", "HOLLOW"}]
    BY <1>1, ControlHas, CommitTyped
  <1>3. Steered
    BY <1>1, <1>2 DEF CompareAndSet, Steered
  <1>4. StoreSteered
    BY <1>2, ControlHas DEF Committed, StoreSteered, StoreTypeOK, queueVars, controlVars
  <1>5. AllSteer
    BY ControlHas, RestSteers DEF Committed, controlVars
  <1>6. UNCHANGED runnerVars
    BY DEF Committed
  <1> QED
    BY <1>3, <1>4, <1>5, <1>6, ControlFrame

(* A verdict or a bounce never starts the mission again, a reply starts    *)
(* only one that runs.                                                     *)
LEMMA ReaderCommitsKeeps ==
  ASSUME ControlInvariant, ReaderCommits
  PROVE  /\ ControlInvariant'
         /\ mission.state \in Active \/ mission'.state = "NEEDS_ATTENTION"
         /\ mission.revoked => mission'.revoked /\ mission'.state \notin Active
PROOF
  <1>1. mission \in Mission /\ (mission.revoked => mission.state \notin Active) /\ mission.revoked \in BOOLEAN
    BY ControlHas DEF ControlInvariant, RevokedRests, Mission
  <1>2. ASSUME NEW state \in State, NEW hasWake \in BOOLEAN
        PROVE  LET next == [mission EXCEPT !.state = state, !.version = @ + 1, !.hasWake = hasWake] IN
               /\ next.version = mission.version + 1 /\ next.ordinal = mission.ordinal
               /\ next.version \in Versions => next \in Mission
               /\ next.state = state /\ next.revoked = mission.revoked
    BY <1>1 DEF Mission
  <1>3. ASSUME NEW state \in State
        PROVE  LET next == [mission EXCEPT !.state = state, !.version = @ + 1] IN
               /\ next.version = mission.version + 1 /\ next.ordinal = mission.ordinal
               /\ next.version \in Versions => next \in Mission
               /\ next.state = state /\ next.revoked = mission.revoked
    BY <1>1 DEF Mission
  <1>4. CASE Replied
    <2> DEFINE next == [mission EXCEPT !.state = "VERIFYING", !.version = @ + 1]
    <2>1. Committed(next, FALSE, {}) /\ mission.state \in Active
      BY <1>4 DEF Replied, Active, Runnable, InProgress
    <2>2. /\ next.version = mission.version + 1 /\ next.ordinal = mission.ordinal
          /\ next.version \in Versions => next \in Mission
          /\ next.revoked = mission.revoked
      BY <1>3 DEF State, InProgress
    <2> HIDE DEF next
    <2> QED
      BY <1>1, <2>1, <2>2, CommittedKeeps
  <1>5. ASSUME NEW state \in {"DONE", "NEEDS_ATTENTION", "WAITING_EXTERNAL"}, NEW notices \in SUBSET Notice,
               Judged(state, notices)
        PROVE  ControlInvariant' /\ mission.state \in Active
    <2> DEFINE waits == state = "WAITING_EXTERNAL"
               next == [mission EXCEPT !.state = state, !.version = @ + 1, !.hasWake = waits]
    <2>1. waits \in BOOLEAN /\ state \in State
      BY DEF State, Terminal, Runnable
    <2>2. Committed(next, waits, notices) /\ mission.state \in Active
      BY <1>5 DEF Judged, Active, Runnable, InProgress
    <2> HIDE DEF waits
    <2>3. /\ next.version = mission.version + 1 /\ next.ordinal = mission.ordinal
          /\ next.version \in Versions => next \in Mission
          /\ next.revoked = mission.revoked
      BY <1>2, <2>1
    <2> HIDE DEF next
    <2> QED
      BY <1>1, <2>1, <2>2, <2>3, CommittedKeeps
  <1>6. CASE Bounced
    <2> DEFINE next == [mission EXCEPT !.state = "NEEDS_ATTENTION", !.version = @ + 1]
    <2>1. Committed(next, FALSE, {"EMAIL_ROUTE_UNAVAILABLE", "NEEDS_ATTENTION"}) /\ mission' = next
      BY <1>6 DEF Bounced, Committed, CompareAndSet
    <2>2. /\ next.version = mission.version + 1 /\ next.ordinal = mission.ordinal
          /\ next.version \in Versions => next \in Mission
          /\ next.revoked = mission.revoked /\ next.state = "NEEDS_ATTENTION"
      BY <1>3 DEF State
    <2> HIDE DEF next
    <2>3. "NEEDS_ATTENTION" \notin Active /\ {"EMAIL_ROUTE_UNAVAILABLE", "NEEDS_ATTENTION"} \in SUBSET Notice
      BY DEF Active, Runnable, InProgress, Notice
    <2> QED
      BY <1>1, <2>1, <2>2, <2>3, CommittedKeeps
  <1>7. Replied \/ Bounced \/ \E state \in {"DONE", "NEEDS_ATTENTION", "WAITING_EXTERNAL"},
                                 notices \in SUBSET Notice : Judged(state, notices)
    BY DEF ReaderCommits, Notice
  <1>8. Replied => mission.state \in Active
    BY DEF Replied, Active, Runnable, InProgress
  <1>9. CASE mission.state \in Active
    BY <1>1, <1>4, <1>5, <1>6, <1>7, <1>9
  <1>10. CASE mission.state \notin Active
    <2>1. Bounced /\ ControlInvariant'
      BY <1>5, <1>6, <1>7, <1>8, <1>10
    <2>2. mission' = [mission EXCEPT !.state = "NEEDS_ATTENTION", !.version = @ + 1]
      BY <2>1 DEF Bounced, Committed, CompareAndSet
    <2>3. mission'.state = "NEEDS_ATTENTION" /\ mission'.revoked = mission.revoked
      BY <1>1, <2>2 DEF Mission
    <2> QED
      BY <1>1, <2>1, <2>3 DEF Active, Runnable, InProgress
  <1> QED
    BY <1>9, <1>10

-----------------------------------------------------------------------------
(* The steps of the workers                                                *)

(* No step withdraws a question.                                           *)
LEMMA RaisedGrows ==
  ASSUME TypeOK, Next
  PROVE  raised \subseteq raised'
PROOF
  <1>1. ASSUME NEW w \in Workers, NEW t \in Task, Deliver(w, t) PROVE UNCHANGED raised
    BY <1>1 DEF Deliver, DeliverStale, DeliverStuck, DeliverEarly, DeliverDue, Begin, Receive
  <1>2. ASSUME NEW w \in Actors, Broker(w) PROVE UNCHANGED raised
    BY <1>2 DEF Broker, Reserve, ReserveBudget, CallProvider, Succeed, MarkUnknown, Fail, SettleRecord,
                brokerUnchanged
  <1>3. ASSUME NEW w \in Actors, Run(w) PROVE raised \subseteq raised'
    BY <1>3 DEF Run, PublishSuccess, PublishRetry, PublishRecoveryExhausted, PublishDenied,
                PublishBudgetExhausted, PublishRecovered, Publish, Raise
  <1>4. ASSUME NEW w \in Actors, Schedule(w) PROVE UNCHANGED raised
    BY <1>4, ScheduleEffect
  <1>5. CASE \/ \E w \in Actors : Crash(w)
             \/ \E c \in Reconcilers, v \in Versions : Reconcile(c, v)
             \/ ReplyStarts
             \/ Tick /\ UNCHANGED runnerVars
    BY <1>5 DEF Crash, Reconcile, ReplyStarts, Tick, WakeTimeArrives, FiveMinutesPass, BoundaryExpires, sharedVars
  <1> QED
    BY <1>1, <1>2, <1>3, <1>4, <1>5 DEF Next, Step

LEMMA RunnerKeeps ==
  ASSUME ControlInvariant, Next, UNCHANGED controlVars
  PROVE  ControlInvariant' /\ Works
PROOF
  <1>1. TypeOK /\ RunnerInvariant /\ ActiveItems
    BY DEF ControlInvariant, ControlTypeOK
  <1>2. TypeOK' /\ RunnerInvariant' /\ ActiveItems' /\ Works
    BY <1>1, NextTyped, NextInvariant, NextActiveItems, NextWorks
  <1>3. UNCHANGED <<resolved, command, request>>
    BY DEF controlVars
  <1>4. ControlTypeOK'
    <2>1. resolved' \subseteq Questions \cap raised'
      BY <1>1, <1>3, RaisedGrows, ControlHas
    <2> QED
      BY <1>2, <1>3, <2>1 DEF ControlInvariant, ControlTypeOK
  <1>5. RevokedRests'
    BY <1>2 DEF ControlInvariant, RevokedRests, Works
  <1>6. RequestsServe'
    BY <1>3 DEF ControlInvariant, RequestsServe
  <1>7. /\ mission.version \in Nat
        /\ \A q \in Pages : command[q] # NoCommand => command[q].version \in Nat
    BY ControlHas, VersionsAssumption DEF Mission, CommandTyped, CommandType
  <1>8. CommandsCurrent'
    BY <1>2, <1>3, <1>7 DEF ControlInvariant, CommandsCurrent, Works
  <1>9. ResumesEntitled'
    <2>1. CASE UNCHANGED mission
      BY <1>3, <2>1 DEF ControlInvariant, ResumesEntitled
    <2>2. CASE mission'.version = mission.version + 1
      <3> SUFFICES ASSUME NEW q \in Pages, NEW j \in Tries, request[q][j] = "transact",
                          command[q].version = mission'.version
                   PROVE  FALSE
        BY <1>3 DEF ResumesEntitled
      <3>1. command[q].version <= mission.version /\ command[q].version \in Nat
        BY <1>7 DEF ControlInvariant, CommandsCurrent, RequestsServe
      <3> QED
        BY <1>7, <2>2, <3>1
    <2> QED
      BY <1>2, <2>1, <2>2 DEF Works
  <1> QED
    BY <1>2, <1>4, <1>5, <1>6, <1>8, <1>9 DEF ControlInvariant

LEMMA InitControl == ControlInit => ControlInvariant
PROOF
  <1> SUFFICES ASSUME ControlInit PROVE ControlInvariant
    OBVIOUS
  <1>1. Init /\ mission = ApprovedMission /\ \A w \in Actors : worker[w] = Idle
    BY DEF ControlInit, Init, StoreInit, RunnerInit
  <1>2. TypeOK /\ RunnerInvariant
    BY <1>1, InitTyped, InitInvariant
  <1>3. ControlTypeOK
    BY <1>2 DEF ControlInit, ControlTypeOK
  <1>4. ActiveItems
    BY <1>1 DEF ActiveItems, Idle, ApprovedMission, Active, Runnable
  <1>5. RevokedRests
    BY <1>1 DEF RevokedRests, ApprovedMission
  <1>6. RequestsServe /\ CommandsCurrent /\ ResumesEntitled
    BY DEF ControlInit, RequestsServe, CommandsCurrent, ResumesEntitled
  <1> QED
    BY <1>2, <1>3, <1>4, <1>5, <1>6 DEF ControlInvariant

(* How the document may move: by a worker or a reader from an active       *)
(* state, by a bounce to a halt, by a command given for its version.       *)
CommandMoves ==
  \E p \in Pages, i \in Tries : RequestAt(p, i, "transact") /\ command[p].version = mission.version

LEMMA NextControl ==
  ASSUME ControlInvariant, [ControlNext]_allVars
  PROVE  /\ ControlInvariant'
         /\ \/ UNCHANGED mission
            \/ mission.state \in Active
            \/ mission'.state = "NEEDS_ATTENTION"
            \/ CommandMoves
         /\ \/ UNCHANGED mission
            \/ mission.revoked => mission'.revoked /\ mission'.state \notin Active
PROOF
  <1> DEFINE Kept == /\ ControlInvariant'
                     /\ \/ UNCHANGED mission
                        \/ mission.state \in Active
                        \/ mission'.state = "NEEDS_ATTENTION"
                        \/ CommandMoves
                     /\ \/ UNCHANGED mission
                        \/ mission.revoked => mission'.revoked /\ mission'.state \notin Active
  <1> SUFFICES Kept
    OBVIOUS
  <1>1. CASE Next /\ UNCHANGED controlVars
    <2>1. ControlInvariant' /\ Works
      BY <1>1, RunnerKeeps
    <2>2. mission.revoked => mission.state \notin Active
      BY DEF ControlInvariant, RevokedRests
    <2> QED
      BY <2>1, <2>2 DEF Works
  <1>2. CASE ReaderCommits
    BY <1>2, ReaderCommitsKeeps
  <1>3. ASSUME NEW p \in Pages, NEW action \in Controls, Command(p, action) PROVE Kept
    BY <1>3, CommandKeeps
  <1>4. ASSUME NEW p \in Pages, NEW i \in Tries,
               \/ CommandAgain(p, i) \/ Look(p, i) \/ Reply(p, i) \/ CrashControl(p, i)
               \/ ScheduleResume(p, i) \/ ScheduleAgain(p, i)
        PROVE  Kept
    BY <1>4, CommandAgainKeeps, LookKeeps, ReplyKeeps, ScheduleResumeKeeps, ScheduleAgainKeeps
  <1>5. ASSUME NEW p \in Pages, NEW i \in Tries, Transition(p, i) PROVE Kept
    BY <1>5, TransitionKeeps DEF CommandMoves
  <1>6. CASE UNCHANGED allVars
    <2>1. UNCHANGED <<runnerVars, resolved, command, request, storeVars, expired, queueVars, routed, raised, faults>>
      BY <1>6 DEF allVars, vars, sharedVars, controlVars
    <2>2. AllSteer
      BY <2>1, ControlHas, RestSteers
    <2> QED
      BY <2>1, <2>2, QuietControl
  <1> QED
    BY <1>1, <1>2, <1>3, <1>4, <1>5, <1>6 DEF ControlNext, RequestStep

(* The invariant, for any number of workers, pages and requests.           *)
THEOREM ControlInvariantHolds == ControlSpec => []ControlInvariant
PROOF
  <1>1. ControlInvariant /\ [ControlNext]_allVars => ControlInvariant'
    BY NextControl
  <1> QED
    BY <1>1, InitControl, PTL DEF ControlSpec

(* Every variable keeps its type; a question is resolved only if it was    *)
(* raised.                                                                 *)
THEOREM ControlTyped == ControlSpec => []ControlTypeOK
PROOF
  <1>1. ControlInvariant => ControlTypeOK
    BY DEF ControlInvariant
  <1> QED
    BY <1>1, ControlInvariantHolds, PTL

(* A mission whose authority the owner took back never runs again.         *)
THEOREM RevocationFinalHolds == ControlSpec => RevocationFinal
PROOF
  <1>1. ControlInvariant /\ [ControlNext]_allVars
          => [mission.revoked =>
                mission'.revoked /\ mission'.state \notin Runnable \cup InProgress]_mission
    BY NextControl DEF Active
  <1> QED
    BY <1>1, ControlInvariantHolds, PTL DEF ControlSpec, RevocationFinal

(* Only a command given on the page of exactly this halt ends it.          *)
THEOREM HaltOwnedHolds == ControlSpec => HaltOwned
PROOF
  <1>1. ControlInvariant /\ [ControlNext]_allVars
          => [mission.state = "NEEDS_ATTENTION" /\ mission'.state # "NEEDS_ATTENTION" =>
                \E p \in Pages, i \in Tries :
                  RequestAt(p, i, "transact") /\ command[p].version = mission.version]_mission
    BY NextControl DEF Active, Runnable, InProgress, CommandMoves
  <1> QED
    BY <1>1, ControlInvariantHolds, PTL DEF ControlSpec, HaltOwned

(* However commands and replies interleave with the workers, one request   *)
(* at a time is between reserving an action and recording it, no follow-up *)
(* is skipped and none goes beyond the approved number.                    *)
THEOREM RunnerSafeUnderControl ==
  ControlSpec => [](ExclusiveReservation /\ OrdinalBacked /\ SendsWithinBudget)
PROOF
  <1>1. ControlInvariant => ExclusiveReservation /\ OrdinalBacked /\ SendsWithinBudget
    BY DEF ControlInvariant, RunnerInvariant
  <1> QED
    BY <1>1, ControlInvariantHolds, PTL

-----------------------------------------------------------------------------
(* After the authority is taken back                                       *)

(* A step of the owner or of a reader sends nothing and leaves the ordinal.*)
LEMMA OthersQuiet ==
  ASSUME ControlInvariant, [ControlNext]_allVars, ~(Next /\ UNCHANGED controlVars)
  PROVE  UNCHANGED runnerVars /\ mission'.ordinal = mission.ordinal
PROOF
  <1>1. ControlInvariant'
    BY NextControl
  <1>2. mission \in Mission
    BY ControlHas
  <1>3. CASE ReaderCommits
    <2>1. \/ \E next : Committed(next, FALSE, {}) /\ next = [mission EXCEPT !.state = "VERIFYING", !.version = @ + 1]
          \/ \E state, wake : \E notices :
               Committed([mission EXCEPT !.state = state, !.version = @ + 1, !.hasWake = wake], wake, notices)
          \/ \E notices : Committed([mission EXCEPT !.state = "NEEDS_ATTENTION", !.version = @ + 1], FALSE, notices)
      BY <1>3 DEF ReaderCommits, Replied, Judged, Bounced
    <2> QED
      BY <1>2, <2>1 DEF Committed, CompareAndSet, Mission
  <1>4. CASE \E p \in Pages, i \in Tries : Transition(p, i)
    <2>1. PICK p \in Pages, i \in Tries : Transition(p, i)
      BY <1>4
    <2>2. UNCHANGED runnerVars /\ (UNCHANGED storeVars \/ mission' = Controlled(command[p].action))
      BY <2>1 DEF Transition, Apply
    <2>3. UNCHANGED mission \/ mission'.ordinal = mission.ordinal
      BY <1>2, <2>2 DEF storeVars, Controlled, Mission
    <2> QED
      BY <2>2, <2>3
  <1>5. CASE \/ \E p \in Pages, action \in Controls : Command(p, action)
             \/ \E p \in Pages, i \in Tries : CommandAgain(p, i) \/ Look(p, i) \/ Reply(p, i) \/ ScheduleResume(p, i)
                                               \/ ScheduleAgain(p, i) \/ CrashControl(p, i)
             \/ UNCHANGED allVars
    BY <1>5 DEF Command, CommandAgain, Look, Reply, ScheduleResume, ScheduleAgain, ScheduleTask, RecordDispatched,
                RecordFailed, CrashControl, sharedVars, storeVars, allVars, vars
  <1> QED
    BY <1>3, <1>4, <1>5 DEF ControlNext, RequestStep

(* While the store answers and an error means "not accepted": once the     *)
(* authority is taken back, at most the action of the request that had     *)
(* read the document before still goes out, once.                          *)
THEOREM OneSendAfterStopHolds ==
  ASSUME Faults \cap {"lostAck", "storeError", "malformed"} = {}
  PROVE  ControlSpec => OneSendAfterStop
PROOF
  <1>0. "lostAck" \notin Faults
    OBVIOUS
  <1> DEFINE Sound == ControlInvariant /\ RecordsSettled /\ UnsentUntilCalled
             Once == mission.revoked =>
                       \A k \in Ordinals : accepted'[k] # accepted[k] =>
                         k = mission.ordinal /\ accepted'[k] = 1
  <1>1. ControlInit => Sound
    BY InitControl, InitSettled, InitUnsent DEF ControlInit
  <1>2. ASSUME Sound, [ControlNext]_allVars PROVE Sound' /\ [Once]_accepted
    <2>1. ControlInvariant' /\ TypeOK /\ RunnerInvariant /\ TypeOK'
      BY <1>2, NextControl DEF ControlInvariant, ControlTypeOK
    <2>2. CASE Next /\ UNCHANGED controlVars
      <3>1. RecordsSettled' /\ UnsentUntilCalled'
        BY <1>0, <1>2, <2>1, <2>2, NextSettled, NextOnce
      <3>2. \A k \in Ordinals : accepted'[k] # accepted[k] => mission.ordinal = k
        BY <1>0, <1>2, <2>1, <2>2, NextNotLate
      <3>3. ASSUME NEW k \in Ordinals, accepted'[k] # accepted[k] PROVE accepted'[k] = 1
        <4>1. accepted[k] \in Nat /\ accepted'[k] \in Nat /\ accepted[k] <= 1 /\ accepted'[k] <= 1
          BY <1>2, <2>1, <3>1 DEF TypeOK, UnsentUntilCalled, AcceptedOnce
        <4>2. accepted[k] > 0 => accepted'[k] > 0
          BY <2>1, <2>2, NextCounts
        <4> QED
          BY <3>3, <4>1, <4>2
      <3> QED
        BY <2>1, <3>1, <3>2, <3>3
    <2>3. CASE ~(Next /\ UNCHANGED controlVars)
      <3>1. UNCHANGED <<records, accepted, worker>> /\ mission'.ordinal = mission.ordinal
        BY <1>2, <2>3, OthersQuiet DEF runnerVars
      <3>2. RecordsSettled' /\ UnsentUntilCalled'
        BY <1>2, <3>1 DEF RecordsSettled, UnsentUntilCalled, AcceptedOnce, InBroker, At, Ordinal
      <3> QED
        BY <2>1, <3>1, <3>2
    <2> QED
      BY <2>2, <2>3
  <1>3. ControlSpec => []Sound
    BY <1>1, <1>2, PTL DEF ControlSpec
  <1> HIDE DEF Sound
  <1> QED
    BY <1>2, <1>3, PTL DEF ControlSpec, OneSendAfterStop

-----------------------------------------------------------------------------
(* The wake, under the owner's commands                                    *)

(* A request that dispatches the wake of a RESUME does so for the version  *)
(* the command made, and marks it once its task is made.                   *)
Redispatching == {"create", "mark", "markFailed", "createAgain"}

ResumeWakes ==
  \A p \in Pages :
    /\ command[p].result <= mission.version
    /\ \A i \in Tries :
         /\ request[p][i] \in Redispatching => command[p].result # 0
         /\ request[p][i] = "mark" => tasks[ResumeWake(p)] # "unused"

(* What a step may do to the requests of a page.                           *)
Redispatches(q) ==
  /\ command'[q].result \in {command[q].result, 0, mission'.version}
  /\ \A j \in Tries : request'[q][j] \in Redispatching =>
       /\ command'[q].result # 0
       /\ request'[q][j] = "mark" =>
            \/ request[q][j] = "mark" /\ command'[q].result = command[q].result
            \/ tasks'[Plain(command'[q].result)] # "unused"

AllRedispatch == \A q \in Pages : Redispatches(q)

LEMMA CommandVersions ==
  ASSUME CommandTyped, NEW q \in Pages
  PROVE  /\ command[q].result \in Nat
         /\ command[q].result # 0 => ResumeWake(q) \in Task /\ ResumeWake(q).version = command[q].result
PROOF
  <1>1. command[q].result \in Versions \cup {0}
    <2>1. command[q] \in CommandType \/ command[q] = NoCommand
      BY DEF CommandTyped
    <2> QED
      BY <2>1 DEF CommandType, NoCommand
  <1>2. \A v \in Versions : v \in Nat /\ Plain(v) \in Task /\ Plain(v).version = v
    BY VersionsAssumption DEF Plain, Task
  <1> QED
    BY <1>1, <1>2 DEF ResumeWake

LEMMA ResumeWakesKept ==
  ASSUME ControlInvariant, ControlInvariant', ResumeWakes, WakeMoves, AllRedispatch
  PROVE  ResumeWakes'
PROOF
  <1>1. mission.version \in Nat /\ mission'.version \in Nat /\ mission.version <= mission'.version
    <2>1. mission.version \in Nat /\ mission'.version \in Nat
      BY VersionsAssumption DEF ControlInvariant, ControlTypeOK, TypeOK, StoreTypeOK, Mission
    <2> QED
      BY <2>1 DEF WakeMoves, CommitsWake
  <1>2. \A t \in Task : tasks[t] # "unused" => tasks'[t] # "unused"
    BY DEF WakeMoves, CommitsWake, TaskKept
  <1>3. ASSUME NEW q \in Pages
        PROVE  /\ command'[q].result <= mission'.version
               /\ \A j \in Tries :
                    /\ request'[q][j] \in Redispatching => command'[q].result # 0
                    /\ request'[q][j] = "mark" => tasks'[Plain(command'[q].result)] # "unused"
    <2>1. /\ command[q].result \in Nat
          /\ command[q].result # 0 => Plain(command[q].result) \in Task
      BY CommandVersions, ControlHas DEF ResumeWake
    <2>2. Redispatches(q)
      BY DEF AllRedispatch
    <2>3. command'[q].result <= mission'.version
      BY <1>1, <2>1, <2>2 DEF AllRedispatch, Redispatches, ResumeWakes
    <2>4. ASSUME NEW j \in Tries, request'[q][j] \in Redispatching PROVE command'[q].result # 0
      BY <2>2, <2>4 DEF AllRedispatch, Redispatches
    <2>5. ASSUME NEW j \in Tries, request'[q][j] = "mark" PROVE tasks'[Plain(command'[q].result)] # "unused"
      <3>1. CASE request[q][j] = "mark" /\ command'[q].result = command[q].result
        BY <1>2, <2>1, <3>1 DEF ResumeWakes, ResumeWake, Redispatching
      <3> QED
        BY <2>2, <2>5, <3>1 DEF AllRedispatch, Redispatches, Redispatching
    <2> QED
      BY <2>3, <2>4, <2>5
  <1> QED
    BY <1>3 DEF ResumeWakes, ResumeWake

LEMMA GotoRedispatches ==
  ASSUME CommandTyped, ResumeWakes, NEW p \in Pages, NEW i \in Tries, NEW pc \in RequestPC,
         RequestGoto(p, i, pc), pc \in Redispatching => command[p].result # 0,
         pc = "mark" => tasks'[ResumeWake(p)] # "unused"
  PROVE  AllRedispatch
PROOF
  <1>1. /\ UNCHANGED command
        /\ request'[p][i] = pc
        /\ \A q \in Pages, j \in Tries : q # p \/ j # i => request'[q][j] = request[q][j]
    BY GotoPoint DEF RequestGoto, CommandTyped
  <1>2. ASSUME NEW q \in Pages, NEW j \in Tries, request'[q][j] \in Redispatching
        PROVE  /\ command[q].result # 0
               /\ request'[q][j] = "mark" =>
                    request[q][j] = "mark" \/ tasks'[Plain(command[q].result)] # "unused"
    BY <1>1, <1>2 DEF ResumeWakes, ResumeWake
  <1> QED
    BY <1>1, <1>2 DEF AllRedispatch, Redispatches

LEMMA AnsweredRedispatches ==
  ASSUME CommandTyped, ResumeWakes, NEW p \in Pages, NEW i \in Tries, Answered(p, i)
  PROVE  AllRedispatch
PROOF
  <1>1. CASE RequestGoto(p, i, "idle")
    BY <1>1, GotoRedispatches DEF RequestPC, Redispatching
  <1>2. CASE /\ command' = [command EXCEPT ![p] = NoCommand]
             /\ request' = [request EXCEPT ![p] = [j \in Tries |-> "idle"]]
    <2>1. /\ command'[p].result = 0 /\ \A j \in Tries : request'[p][j] = "idle"
          /\ \A q \in Pages : q # p => command'[q] = command[q] /\ request'[q] = request[q]
      BY <1>2 DEF CommandTyped, NoCommand
    <2> QED
      BY <2>1 DEF AllRedispatch, Redispatches, Redispatching, ResumeWakes
  <1> QED
    BY <1>1, <1>2 DEF Answered

LEMMA RestRedispatches ==
  ASSUME ResumeWakes, UNCHANGED <<command, request>>
  PROVE  AllRedispatch
PROOF
  BY DEF AllRedispatch, Redispatches, ResumeWakes

(* The transaction of a RESUME persists the intent of the version it makes,*)
(* the other commands leave a mission that does not wait.                  *)
LEMMA TransitionWakes ==
  ASSUME ControlInvariant, ControlInvariant', ResumeWakes, NEW p \in Pages, NEW i \in Tries, Transition(p, i)
  PROVE  WakeMoves /\ ResumeWakes'
PROOF
  <1> DEFINE action == command[p].action
             next == Controlled(action)
             recorded(pc) == /\ command' = [command EXCEPT ![p].result = mission.version + 1]
                             /\ request' = [request EXCEPT ![p][i] = pc]
             applied == /\ ~Applied(p) /\ Apply(action)
                        /\ \E pc \in {"create", "reply", "lost"} : recorded(pc)
  <1>1. /\ command[p] # NoCommand /\ command[p] \in CommandType /\ CommandTyped
        /\ mission \in Mission /\ mission.version \in Nat
    BY ControlHas, VersionsAssumption DEF Transition, RequestAt, RequestsServe, CommandTyped, Mission
  <1>2. action \in {"STOP", "REVOKE", "EXPIRE", "REOPEN", "RESUME", "REVISE"}
    BY <1>1, ControlAssumption DEF CommandType
  <1>3. UNCHANGED tasks
    BY DEF Transition, queueVars
  <1>4. CASE /\ UNCHANGED storeVars
             /\ \/ Applied(p) /\ \E pc \in {"create", "createAgain"} : RequestGoto(p, i, pc)
                \/ Answered(p, i)
    <2>1. WakeMoves
      BY <1>3, <1>4 DEF WakeMoves, MarksKept, TaskKept, storeVars
    <2>2. AllRedispatch
      BY <1>1, <1>4, GotoRedispatches, AnsweredRedispatches DEF Applied, RequestPC
    <2> QED
      BY <2>1, <2>2, ResumeWakesKept
  <1>5. CASE applied
    <2>1. /\ next.version = mission.version + 1
          /\ action # "RESUME" => next.state \notin Active
      BY <1>1, <1>2, ControlledTyped
    <2>2. /\ mission' = next
          /\ intents' = IF action = "RESUME" THEN [intents EXCEPT ![next.version] = "PENDING"] ELSE intents
      BY <1>5 DEF Apply, Wakes
    <2> HIDE DEF next
    <2>3. WakeMoves
      BY <1>3, <2>1, <2>2 DEF WakeMoves, CommitsWake, Active
    <2>4. PICK pc \in {"create", "reply", "lost"} : recorded(pc)
      BY <1>5
    <2>5. /\ command'[p].result = mission'.version /\ mission'.version # 0
          /\ \A q \in Pages : q # p => command'[q] = command[q]
      <3>1. \A c \in CommandType : [c EXCEPT !.result = mission.version + 1].result = mission.version + 1
        BY DEF CommandType
      <3>2. /\ \A q \in Pages : q # p => command'[q] = command[q]
            /\ command'[p] = [command[p] EXCEPT !.result = mission.version + 1]
        BY <1>1, <2>4 DEF CommandTyped
      <3> QED
        BY <1>1, <2>1, <2>2, <3>1, <3>2
    <2>6. /\ request'[p][i] = pc
          /\ \A q \in Pages, j \in Tries : q # p \/ j # i => request'[q][j] = request[q][j]
      <3>1. pc \in RequestPC
        BY DEF RequestPC
      <3> QED
        BY <1>1, <2>4, <3>1, GotoPoint DEF CommandTyped
    <2>7. \A j \in Tries : request[p][j] \notin Redispatching
      BY <1>5 DEF Applied, ResumeWakes
    <2>8. ASSUME NEW q \in Pages PROVE Redispatches(q)
      <3>1. CASE q = p
        <4>1. \A j \in Tries : request'[q][j] # "mark"
          BY <2>6, <2>7, <3>1 DEF Redispatching
        <4> QED
          BY <2>5, <3>1, <4>1 DEF AllRedispatch, Redispatches
      <3>2. CASE q # p
        BY <2>5, <2>6, <3>2 DEF AllRedispatch, Redispatches, ResumeWakes
      <3> QED
        BY <3>1, <3>2
    <2> QED
      BY <2>3, <2>8, ResumeWakesKept DEF AllRedispatch
  <1> HIDE DEF next, recorded, applied
  <1>6. \/ /\ UNCHANGED storeVars
           /\ \/ Applied(p) /\ \E pc \in {"create", "createAgain"} : RequestGoto(p, i, pc)
              \/ Answered(p, i)
        \/ applied
    BY DEF Transition, applied, recorded
  <1> QED
    BY <1>4, <1>5, <1>6

LEMMA ScheduleResumeWakes ==
  ASSUME ControlInvariant, ControlInvariant', WakeInvariant, ResumeWakes,
         NEW p \in Pages, NEW i \in Tries, ScheduleResume(p, i)
  PROVE  WakeMoves /\ ResumeWakes'
PROOF
  <1> DEFINE t == ResumeWake(p)
  <1>1. StoreTypeOK /\ CommandTyped /\ WakesOnRecord
    BY ControlHas DEF WakeInvariant
  <1>2. UNCHANGED mission
    BY DEF ScheduleResume, ScheduleTask, RecordDispatched, RecordFailed, storeVars
  <1>3. /\ request[p][i] \in {"create", "mark", "markFailed"}
        /\ t \in Task /\ t.version <= mission.version /\ command[p].result # 0
        /\ request[p][i] = "mark" => tasks[t] # "unused"
    <2>1. request[p][i] \in {"create", "mark", "markFailed"}
      BY DEF ScheduleResume, RequestAt
    <2>2. request[p][i] \in Redispatching
      BY <2>1 DEF Redispatching
    <2> QED
      BY <1>1, <2>1, <2>2, CommandVersions DEF ResumeWakes
  <1> HIDE DEF t
  <1>4. ASSUME UNCHANGED intents PROVE \A v \in Versions : MarksKept(v)
    BY <1>4 DEF MarksKept
  <1>5. ASSUME UNCHANGED tasks PROVE \A s \in Task : TaskKept(s)
    BY <1>5 DEF TaskKept
  <1>6. {"markFailed", "lost", "mark"} \subseteq RequestPC
    BY DEF RequestPC
  <1>7. CASE RequestAt(p, i, "create")
    <2>1. /\ UNCHANGED intents
          /\ \/ CreateTask(t) /\ RequestGoto(p, i, "mark")
             \/ (CreateTask(t) \/ UNCHANGED tasks) /\ RequestGoto(p, i, "markFailed")
      BY <1>7 DEF ScheduleResume, ScheduleTask, RequestAt, storeVars, t
    <2>2. CreateTask(t) => (\A s \in Task : TaskKept(s)) /\ tasks'[t] # "unused"
      BY <1>1, <1>3, CreateKeeps
    <2>3. WakeMoves
      BY <1>2, <1>4, <1>5, <2>1, <2>2 DEF WakeMoves
    <2>4. AllRedispatch
      BY <1>1, <1>3, <1>6, <2>1, <2>2, GotoRedispatches DEF t
    <2> QED
      BY <2>3, <2>4, ResumeWakesKept
  <1>8. CASE RequestAt(p, i, "mark")
    <2>1. /\ UNCHANGED tasks /\ tasks[t] # "unused"
          /\ MarkIntent(t.version, "DISPATCHED") \/ UNCHANGED intents
          /\ Answered(p, i) \/ RequestGoto(p, i, "markFailed")
      BY <1>3, <1>8 DEF ScheduleResume, RecordDispatched, RequestAt, queueVars, t
    <2>2. WakeMoves
      BY <1>1, <1>2, <1>3, <1>4, <1>5, <2>1, MarkKeeps DEF WakeMoves
    <2>3. AllRedispatch
      BY <1>1, <1>3, <1>6, <2>1, GotoRedispatches, AnsweredRedispatches
    <2> QED
      BY <2>2, <2>3, ResumeWakesKept
  <1>9. CASE RequestAt(p, i, "markFailed")
    <2>1. /\ UNCHANGED tasks
          /\ MarkIntent(t.version, "PENDING") \/ UNCHANGED intents
          /\ RequestGoto(p, i, "lost")
      BY <1>9 DEF ScheduleResume, RecordFailed, RequestAt, queueVars, t
    <2>2. WakeMoves
      BY <1>1, <1>2, <1>3, <1>4, <1>5, <2>1, MarkKeeps DEF WakeMoves
    <2>3. AllRedispatch
      BY <1>1, <1>6, <2>1, GotoRedispatches DEF Redispatching
    <2> QED
      BY <2>2, <2>3, ResumeWakesKept
  <1> QED
    BY <1>7, <1>8, <1>9 DEF ScheduleResume

(* Under the name of another clock, it makes one more task of the version  *)
(* the command made.                                                       *)
LEMMA ScheduleAgainWakes ==
  ASSUME ControlInvariant, ControlInvariant', ResumeWakes, NEW p \in Pages, NEW i \in Tries, ScheduleAgain(p, i)
  PROVE  WakeMoves /\ ResumeWakes'
PROOF
  <1>1. StoreTypeOK /\ CommandTyped
    BY ControlHas
  <1>2. UNCHANGED <<mission, intents>>
    BY DEF ScheduleAgain, ScheduleTask, storeVars
  <1>3. \A v \in Versions : MarksKept(v)
    BY <1>2 DEF MarksKept
  <1>4. {"markAgain", "lost"} \subseteq RequestPC \ Redispatching /\ "mark" \notin {"markAgain", "lost"}
    BY DEF RequestPC, Redispatching
  <1>5. \A s \in Task : TaskKept(s)
    <2>1. CASE UNCHANGED tasks
      BY <2>1 DEF TaskKept
    <2>2. CASE RequestAt(p, i, "createAgain") /\ CreateTask(ResumeAgain(p))
      <3>1. command[p].result # 0 /\ command[p].result <= mission.version
        BY <2>2 DEF ResumeWakes, RequestAt, Redispatching
      <3>2. ResumeAgain(p) \in Task /\ ResumeAgain(p).version <= mission.version
        BY <1>1, <3>1, CommandVersions DEF ResumeAgain, ResumeWake, Plain, Task
      <3> QED
        BY <1>1, <2>2, <3>2, CreateKeeps
    <2> QED
      BY <2>1, <2>2 DEF ScheduleAgain, ScheduleTask, queueVars
  <1>6. (\E pc \in {"markAgain", "lost"} : RequestGoto(p, i, pc)) \/ Answered(p, i)
    BY DEF ScheduleAgain, ScheduleTask
  <1>7. AllRedispatch
    BY <1>1, <1>4, <1>6, GotoRedispatches, AnsweredRedispatches
  <1>8. WakeMoves
    BY <1>2, <1>3, <1>5 DEF WakeMoves
  <1> QED
    BY <1>7, <1>8, ResumeWakesKept

(* The other steps of the owner dispatch nothing new and commit nothing.   *)
LEMMA CommandsRedispatch ==
  ASSUME ControlInvariant, ControlInvariant', ResumeWakes, NEW p \in Pages, NEW i \in Tries,
         \/ \E action \in Controls : Command(p, action)
         \/ CommandAgain(p, i) \/ Look(p, i) \/ Reply(p, i) \/ CrashControl(p, i)
  PROVE  WakeMoves /\ ResumeWakes' /\ UNCHANGED worker
PROOF
  <1>1. CommandTyped /\ mission.version \in Nat
    BY ControlHas, VersionsAssumption DEF Mission
  <1>2. UNCHANGED <<mission, intents, tasks, worker>>
    BY DEF Command, CommandAgain, Look, Reply, CrashControl, sharedVars, storeVars, queueVars, runnerVars
  <1>3. WakeMoves
    BY <1>2 DEF WakeMoves, MarksKept, TaskKept
  <1>4. ASSUME NEW action \in Controls, Command(p, action) PROVE AllRedispatch
    <2>1. PICK k \in Tries :
            request' = [request EXCEPT ![p] = [j \in Tries |-> IF j = k THEN "look" ELSE "idle"]]
      BY <1>4 DEF Command
    <2>2. command' = [command EXCEPT ![p] = [action |-> action, version |-> mission.version, result |-> 0]]
      BY <1>4 DEF Command
    <2>3. /\ command'[p].result = 0 /\ \A j \in Tries : request'[p][j] \in {"look", "idle"}
          /\ \A q \in Pages : q # p => command'[q] = command[q] /\ request'[q] = request[q]
      BY <1>1, <2>1, <2>2 DEF CommandTyped
    <2>4. \A j \in Tries : request'[p][j] \notin Redispatching
      BY <2>3 DEF Redispatching
    <2> QED
      BY <2>3, <2>4 DEF AllRedispatch, Redispatches, ResumeWakes
  <1>5. ASSUME CommandAgain(p, i) \/ Look(p, i) \/ Reply(p, i) \/ CrashControl(p, i) PROVE AllRedispatch
    <2>1. \/ \E pc \in {"look", "transact", "lost"} : RequestGoto(p, i, pc)
          \/ command[p].result # 0 /\ RequestGoto(p, i, "create")
          \/ Answered(p, i)
      BY <1>5 DEF CommandAgain, Look, Reply, CrashControl
    <2>2. {"look", "transact", "lost"} \subseteq RequestPC \ Redispatching /\ "create" \in RequestPC /\ "create" # "mark"
      BY DEF RequestPC, Redispatching
    <2>3. ASSUME NEW pc \in {"look", "transact", "lost"}, RequestGoto(p, i, pc)
          PROVE  AllRedispatch
      BY <1>1, <2>2, <2>3, GotoRedispatches DEF Redispatching
    <2>4. command[p].result # 0 /\ RequestGoto(p, i, "create") => AllRedispatch
      BY <1>1, <2>2, GotoRedispatches
    <2>5. Answered(p, i) => AllRedispatch
      BY <1>1, AnsweredRedispatches
    <2> QED
      BY <2>1, <2>3, <2>4, <2>5
  <1>6. AllRedispatch
    BY <1>4, <1>5
  <1> QED
    BY <1>2, <1>3, <1>6, ResumeWakesKept

(* A reader commits an intent with the state that waits for it.            *)
LEMMA ReadersWake ==
  ASSUME ControlInvariant, ControlInvariant', ResumeWakes, ReaderCommits
  PROVE  WakeMoves /\ ResumeWakes' /\ UNCHANGED worker
PROOF
  <1>1. mission \in Mission
    BY ControlHas
  <1>2. ASSUME NEW next, NEW wake \in BOOLEAN, NEW notices, Committed(next, wake, notices),
               next.version = mission.version + 1, wake \/ next.state \notin Runnable
        PROVE  WakeMoves /\ UNCHANGED <<worker, command, request>>
    <2>1. /\ mission' = next /\ UNCHANGED <<tasks, worker, command, request>>
          /\ intents' = IF wake THEN [intents EXCEPT ![next.version] = "PENDING"] ELSE intents
      BY <1>2 DEF Committed, CompareAndSet, queueVars, runnerVars, controlVars
    <2> QED
      BY <1>2, <2>1 DEF WakeMoves, CommitsWake
  <1>3. CASE Replied
    <2> DEFINE next == [mission EXCEPT !.state = "VERIFYING", !.version = @ + 1]
    <2>1. Committed(next, FALSE, {})
      BY <1>3 DEF Replied
    <2>2. next.version = mission.version + 1 /\ next.state \notin Runnable
      BY <1>1 DEF Mission, Runnable
    <2> HIDE DEF next
    <2> QED
      BY <1>2, <2>1, <2>2, RestRedispatches, ResumeWakesKept
  <1>4. CASE Bounced
    <2> DEFINE next == [mission EXCEPT !.state = "NEEDS_ATTENTION", !.version = @ + 1]
    <2>1. Committed(next, FALSE, {"EMAIL_ROUTE_UNAVAILABLE", "NEEDS_ATTENTION"})
      BY <1>4 DEF Bounced
    <2>2. next.version = mission.version + 1 /\ next.state \notin Runnable
      BY <1>1 DEF Mission, Runnable
    <2> HIDE DEF next
    <2> QED
      BY <1>2, <2>1, <2>2, RestRedispatches, ResumeWakesKept
  <1>5. ASSUME NEW state \in {"DONE", "NEEDS_ATTENTION", "WAITING_EXTERNAL"}, NEW notices, Judged(state, notices)
        PROVE  WakeMoves /\ UNCHANGED <<worker, command, request>>
    <2> DEFINE waits == state = "WAITING_EXTERNAL"
               next == [mission EXCEPT !.state = state, !.version = @ + 1, !.hasWake = waits]
    <2>1. waits \in BOOLEAN /\ Committed(next, waits, notices)
      BY <1>5 DEF Judged
    <2>2. next.version = mission.version + 1 /\ next.state = state
      BY <1>1 DEF Mission
    <2>3. waits \/ state \notin Runnable
      BY DEF Runnable
    <2> HIDE DEF next, waits
    <2> QED
      BY <1>2, <2>1, <2>2, <2>3
  <1>6. CASE \E state \in {"DONE", "NEEDS_ATTENTION", "WAITING_EXTERNAL"},
               notices \in SUBSET Notice : Judged(state, notices)
    BY <1>5, <1>6, RestRedispatches, ResumeWakesKept
  <1> QED
    BY <1>3, <1>4, <1>6 DEF ReaderCommits, Notice

ControlWakes == ControlInvariant /\ WakeInvariant /\ ResumeWakes

LEMMA NextControlWakes ==
  ASSUME ControlWakes, [ControlNext]_allVars
  PROVE  ControlWakes'
PROOF
  <1>1. ControlInvariant /\ ControlInvariant' /\ WakeInvariant /\ ResumeWakes
    BY NextControl DEF ControlWakes
  <1>2. TypeOK /\ TypeOK' /\ StoreTypeOK'
    BY <1>1 DEF ControlInvariant, ControlTypeOK, TypeOK
  <1>3. ASSUME WakeMoves, ResumeWakes', UNCHANGED worker PROVE ControlWakes'
    BY <1>1, <1>2, <1>3, OthersKeepWake DEF ControlWakes
  <1>4. CASE Next /\ UNCHANGED controlVars
    <2>1. WakeInvariant' /\ WakeMoves
      BY <1>1, <1>2, <1>4, NextKeepsWake
    <2>2. ResumeWakes'
      BY <1>1, <1>4, <2>1, RestRedispatches, ResumeWakesKept DEF controlVars
    <2> QED
      BY <1>1, <2>1, <2>2 DEF ControlWakes
  <1>5. CASE ReaderCommits
    BY <1>1, <1>3, <1>5, ReadersWake
  <1>6. ASSUME NEW p \in Pages, NEW action \in Controls, Command(p, action) PROVE ControlWakes'
    <2>1. PICK i \in Tries : TRUE
      BY <1>6 DEF Command
    <2> QED
      BY <1>1, <1>3, <1>6, <2>1, CommandsRedispatch
  <1>7. ASSUME NEW p \in Pages, NEW i \in Tries,
               CommandAgain(p, i) \/ Look(p, i) \/ Reply(p, i) \/ CrashControl(p, i)
        PROVE  ControlWakes'
    BY <1>1, <1>3, <1>7, CommandsRedispatch
  <1>8. ASSUME NEW p \in Pages, NEW i \in Tries, Transition(p, i) PROVE ControlWakes'
    BY <1>1, <1>3, <1>8, TransitionWakes DEF Transition, runnerVars
  <1>9. ASSUME NEW p \in Pages, NEW i \in Tries, ScheduleResume(p, i) PROVE ControlWakes'
    BY <1>1, <1>3, <1>9, ScheduleResumeWakes DEF ScheduleResume, runnerVars
  <1>11. ASSUME NEW p \in Pages, NEW i \in Tries, ScheduleAgain(p, i) PROVE ControlWakes'
    BY <1>1, <1>3, <1>11, ScheduleAgainWakes DEF ScheduleAgain, runnerVars
  <1>10. CASE UNCHANGED allVars
    <2>1. UNCHANGED <<mission, intents, tasks, worker, command, request>>
      BY <1>10 DEF allVars, vars, sharedVars, storeVars, queueVars, runnerVars, controlVars
    <2>2. WakeMoves
      BY <2>1 DEF WakeMoves, MarksKept, TaskKept
    <2>3. ResumeWakes'
      BY <1>1, <2>1, <2>2, RestRedispatches, ResumeWakesKept
    <2> QED
      BY <1>3, <2>1, <2>2, <2>3
  <1> QED
    BY <1>4, <1>5, <1>6, <1>7, <1>8, <1>9, <1>10, <1>11 DEF ControlNext, RequestStep

LEMMA InitControlWakes == ControlInit => ControlWakes
PROOF
  <1>1. ControlInit => ResumeWakes
    BY VersionsAssumption DEF ControlInit, Init, StoreInit, ApprovedMission, ResumeWakes, NoCommand, Redispatching
  <1> QED
    BY <1>1, InitControl, InitWake DEF ControlInit, ControlWakes

(* Whatever the owner commands, and wherever a request of it stops, a      *)
(* mission that waits to run has its wake, or lost it in one of the two    *)
(* ways of the runner.                                                     *)
THEOREM WakeSurvivesControlHolds == ControlSpec => []WakeSurvivesControl
PROOF
  <1>1. ControlSpec => []ControlWakes
    BY InitControlWakes, NextControlWakes, PTL DEF ControlSpec
  <1>2. ControlWakes => WakeSurvivesControl
    BY WakeFollows DEF ControlWakes, ControlInvariant, ControlTypeOK, WakeSurvivesControl
  <1> QED
    BY <1>1, <1>2, PTL
=============================================================================
