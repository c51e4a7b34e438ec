-------------------------- MODULE MerchantCallback --------------------------
(***************************************************************************)
(* A merchant's outcome, from its signed callback to the owner's notice:   *)
(* handleMerchantCallback over callbackDedupe, VerificationService over    *)
(* the mission and its evidence, then the notification and its delivery.   *)
(*                                                                         *)
(* The merchant calls back with one outcome until it is acknowledged,      *)
(* signing every attempt anew, so each attempt has a key of its own; the   *)
(* network may deliver one attempt twice, and then each delivery has an    *)
(* answer of its own, which nothing takes back.  A request that recorded   *)
(* its outcome goes on as the notifier of the same name.  What else moves  *)
(* the mission is the subject of MissionRunner and FollowThrough; here it  *)
(* only takes versions.                                                    *)
(***************************************************************************)
EXTENDS Notifications, Sequences

CONSTANTS
  Callbacks,       \* outcomes the merchant reports
  Requests,        \* requests that serve callbacks
  MaxAttempts,     \* attempts of the merchant with one outcome: external
  MaxVersion       \* bounds the model

ASSUME CallbackAssumption ==
  /\ Requests \subseteq Notifiers
  /\ {MaxAttempts, MaxVersion} \subseteq Nat \ {0}
  /\ {"MISSION_COMPLETED", "NEEDS_ATTENTION"} \subseteq Notices

VARIABLES
  outcome,         \* what each callback says
  called,          \* attempts the merchant made with it
  told,            \* history: how the requests of each attempt were answered
  dedupe,          \* callbackDedupe, by outcome and attempt
  mission,         \* missionRuns: state and version
  evidence,        \* outcomes recorded
  request          \* what each request is doing

callbackVars == <<outcome, called, told, dedupe, mission, evidence, request>>
allVars == <<noticeVars, event, faults, callbackVars>>

-----------------------------------------------------------------------------
(* The merchant's body.  field: where it puts the status of the outcome.   *)
Bodies == [field: {"status", "level"}, confirmed: BOOLEAN, matches: BOOLEAN]

(* The schema of an outcome wants its status.                              *)
Parses(body) == body.field = "status"

(* verifyOutcome of the domain.  Every check but that of the status is     *)
(* one: what is asked for, by whom and when.                               *)
Reasons(body) ==
  (IF body.confirmed THEN {} ELSE {"INSUFFICIENT_STATUS"})
    \cup (IF body.matches THEN {} ELSE {"WRONG_OUTCOME"})

Accepted(body) == Reasons(body) = {}
Conflict(body) == ~Accepted(body) /\ "INSUFFICIENT_STATUS" \notin Reasons(body)

NoticeOf(body) == IF Accepted(body) THEN "MISSION_COMPLETED" ELSE "NEEDS_ATTENTION"

-----------------------------------------------------------------------------
NoRequest == [pc |-> "idle", callback |-> "none", attempt |-> 0, seen |-> 0, why |-> "none"]
Keys == Callbacks \X (1..MaxAttempts)

(* 2xx: the outcome is dealt with, or somebody else is at work on it; 409  *)
(* and 5xx; 422.                                                           *)
Acks == {"done", "inFlight"}
Failures == {"again", "invalid"}

CallbackTypeOK ==
  /\ NoticeTypeOK
  /\ outcome \in [Callbacks -> Bodies]
  /\ called \in [Callbacks -> 0..MaxAttempts]
  /\ told \in [Keys -> SUBSET (Acks \cup Failures)]
  /\ dedupe \in [Keys -> {"none", "IN_FLIGHT", "COMPLETED"}]
  /\ mission \in [state: {"active", "halted", "DONE"}, version: 1..MaxVersion]
  /\ evidence \subseteq Callbacks
  /\ \A r \in Requests : request[r] = NoRequest \/
       /\ request[r].pc \in {"reserve", "parse", "get", "record", "raise", "notify", "complete", "fail"}
       /\ <<request[r].callback, request[r].attempt>> \in Keys
       /\ request[r].seen \in 0..MaxVersion

CallbackInit ==
  /\ NoticeInit
  /\ outcome \in [Callbacks -> Bodies]
  /\ called = [c \in Callbacks |-> 0]
  /\ told = [k \in Keys |-> {}]
  /\ dedupe = [k \in Keys |-> "none"]
  /\ mission = [state |-> "active", version |-> 1]
  /\ evidence = {}
  /\ request = [r \in Requests |-> NoRequest]

-----------------------------------------------------------------------------
RequestAt(r, pc) == request[r].pc = pc
RequestGoto(r, pc) == request' = [request EXCEPT ![r].pc = pc]
Key(r) == <<request[r].callback, request[r].attempt>>
Body(r) == outcome[request[r].callback]

Answer(r, what) ==
  /\ told' = [told EXCEPT ![Key(r)] = @ \cup {what}]
  /\ request' = [request EXCEPT ![r] = NoRequest]
(* An error leads to failCallback, and to the answer for it.               *)
Throw(r, why) == request' = [request EXCEPT ![r].pc = "fail", ![r].why = why]

(* The merchant: its next attempt follows an answer to the last one that   *)
(* asks for it.                                                            *)
AsksAgain(c) == called[c] # 0 => "again" \in told[<<c, called[c]>>]

Call(r, c) ==
  /\ RequestAt(r, "idle")
  /\ \E attempt \in 1..MaxAttempts :
       /\ \/ /\ AsksAgain(c) /\ attempt = called[c] + 1
             /\ called' = [called EXCEPT ![c] = attempt] /\ UNCHANGED faults
          \/ attempt = called[c] /\ Fault("resend") /\ UNCHANGED called
       /\ request' = [request EXCEPT ![r] =
            [NoRequest EXCEPT !.pc = "reserve", !.callback = c, !.attempt = attempt]]
  /\ UNCHANGED <<noticeVars, event, outcome, told, dedupe, mission, evidence>>

(* reserveCallback: an attempt on record is acknowledged, done or not.     *)
ReservedDone == "COMPLETED"                       \* mutant of ReservedAs
ReservedAs == "IN_FLIGHT"
Known(r) == dedupe[Key(r)] # "none"

ReserveCallback(r) ==
  /\ RequestAt(r, "reserve")
  /\ \/ /\ UNCHANGED faults
        /\ IF Known(r)
             THEN UNCHANGED dedupe /\ Answer(r, IF dedupe[Key(r)] = "COMPLETED" THEN "done" ELSE "inFlight")
             ELSE dedupe' = [dedupe EXCEPT ![Key(r)] = ReservedAs] /\ RequestGoto(r, "parse") /\ UNCHANGED told
     \/ UNCHANGED dedupe /\ Fault("storeError") /\ Answer(r, "again")
  /\ UNCHANGED <<noticeVars, event, outcome, called, mission, evidence>>

Parse(r) ==
  /\ RequestAt(r, "parse")
  /\ IF Parses(Body(r)) THEN RequestGoto(r, "get") ELSE Throw(r, "invalid")
  /\ UNCHANGED <<noticeVars, event, faults, outcome, called, told, dedupe, mission, evidence>>

(* verifyOutcome reads the mission, judges the outcome and records it for  *)
(* the version it read.                                                    *)
Get(r) ==
  /\ RequestAt(r, "get")
  /\ IF mission.state = "active"
       THEN request' = [request EXCEPT ![r].pc = "record", ![r].seen = mission.version]
       ELSE Throw(r, "again")
  /\ UNCHANGED <<noticeVars, event, faults, outcome, called, told, dedupe, mission, evidence>>

VersionRead(r) == mission.version = request[r].seen

VerdictMisspelt(body) ==                          \* mutant of Verdict
  IF Accepted(body) THEN "COMPLETED" ELSE "active"
Verdict(body) ==
  IF Accepted(body) THEN "DONE" ELSE IF Conflict(body) THEN "halted" ELSE "active"

(* What follows the record: nothing for an insufficient outcome; for a     *)
(* conflict the notification is created, then its question.  The first     *)
(* record and its repetition go on alike.                                  *)
AfterwardsConflict(r) ==                          \* mutant of Afterwards
  IF Conflict(Body(r)) THEN RequestGoto(r, "raise") ELSE RequestGoto(r, "complete")
Afterwards(r) ==
  IF Accepted(Body(r)) \/ Conflict(Body(r)) THEN RequestGoto(r, "raise") ELSE RequestGoto(r, "complete")

Record(r) ==
  LET c == request[r].callback IN
  /\ RequestAt(r, "record")
  /\ \/ /\ c \in evidence
        /\ UNCHANGED <<mission, evidence, faults>> /\ Afterwards(r)
     \/ /\ c \notin evidence /\ VersionRead(r) /\ mission.version < MaxVersion
        /\ mission' = [state |-> Verdict(Body(r)), version |-> request[r].seen + 1]
        /\ evidence' = evidence \cup {c}
        /\ \/ Afterwards(r) /\ UNCHANGED faults
           \/ Throw(r, "invalid") /\ Fault("lostAck")
     \/ /\ c \notin evidence /\ ~VersionRead(r)
        /\ UNCHANGED <<mission, evidence, faults>> /\ Throw(r, "again")
     \/ UNCHANGED <<mission, evidence>> /\ Fault("storeError") /\ Throw(r, "invalid")
  /\ UNCHANGED <<noticeVars, event, outcome, called, told, dedupe>>

(* The request goes on as a notifier, and is told how that ended.          *)
RaiseOutcome(r) ==
  /\ RequestAt(r, "raise") /\ NotifierAt(r, "idle")
  /\ Notify(r, NoticeOf(Body(r)), "create", TRUE)
  /\ RequestGoto(r, "notify")
  /\ UNCHANGED <<notice, delivery, accepted, event, faults, outcome, called, told, dedupe, mission, evidence>>

Notified(r) ==
  /\ RequestAt(r, "notify")
  /\ \/ NotifierAt(r, "ended") /\ RequestGoto(r, "complete")
     \/ NotifierAt(r, "threw") /\ Throw(r, "invalid")
  /\ notifier' = [notifier EXCEPT ![r] = Idle]
  /\ UNCHANGED <<notice, delivery, accepted, event, faults, outcome, called, told, dedupe, mission, evidence>>

CompleteCallback(r) ==
  /\ RequestAt(r, "complete")
  /\ \/ dedupe' = [dedupe EXCEPT ![Key(r)] = "COMPLETED"] /\ UNCHANGED faults /\ Answer(r, "done")
     \/ UNCHANGED <<dedupe, told>> /\ Fault("storeError") /\ Throw(r, "invalid")
  /\ UNCHANGED <<noticeVars, event, outcome, called, mission, evidence>>

(* failCallback forgets the attempt; only a conflict of versions or states *)
(* asks the merchant to come back.  When it fails itself the answer is     *)
(* 500, which asks too.                                                    *)
FailCallback(r) ==
  /\ RequestAt(r, "fail")
  /\ \/ dedupe' = [dedupe EXCEPT ![Key(r)] = "none"] /\ UNCHANGED faults /\ Answer(r, request[r].why)
     \/ UNCHANGED dedupe /\ Fault("storeError") /\ Answer(r, "again")
  /\ UNCHANGED <<noticeVars, event, outcome, called, mission, evidence>>

(* The process stops; the merchant hears 5xx.                              *)
CrashRequest(r) ==
  /\ ~RequestAt(r, "idle") /\ Fault("crash")
  /\ Answer(r, "again")
  /\ notifier' = [notifier EXCEPT ![r] = Idle]
  /\ UNCHANGED <<notice, delivery, accepted, event, outcome, called, dedupe, mission, evidence>>

(* Workers, readers and the owner move the mission.                        *)
MissionMoves ==
  /\ mission.version < MaxVersion
  /\ \/ mission.state = "active" /\ \E state \in {"active", "halted"} :
          mission' = [state |-> state, version |-> mission.version + 1]
     \/ mission.state = "halted" /\ mission' = [state |-> "active", version |-> mission.version + 1]
  /\ UNCHANGED <<noticeVars, event, faults, outcome, called, told, dedupe, evidence, request>>

RequestStep(r) ==
  \/ ReserveCallback(r) \/ Parse(r) \/ Get(r) \/ Record(r) \/ RaiseOutcome(r) \/ Notified(r)
  \/ CompleteCallback(r) \/ FailCallback(r)

(* A notifier of no request ends by itself.                                *)
Rest(n) ==
  /\ notifier[n].pc \in {"ended", "threw"}
  /\ notifier' = [notifier EXCEPT ![n] = Idle]
  /\ UNCHANGED <<notice, delivery, accepted, event, faults>>

NoticeNext ==
  \/ \E n \in Notifiers : NotifierStep(n) /\ UNCHANGED event
  \/ \E n \in Notifiers \ Requests :
       \/ Rest(n) \/ CrashNotifier(n)
       \/ (Raise(n, "NEEDS_ATTENTION") \/ \E k \in Notices : Retry(n, k)) /\ UNCHANGED event
  \/ \E k \in Notices : EventStep(k) \/ CrashEvent(k)

Next ==
  \/ NoticeNext /\ UNCHANGED callbackVars
  \/ \E r \in Requests : RequestStep(r) \/ CrashRequest(r) \/ \E c \in Callbacks : Call(r, c)
  \/ MissionMoves

Spec == CallbackInit /\ [][Next]_allVars
-----------------------------------------------------------------------------
(* Safety                                                                  *)

Failed(k) == told[k] \cap Failures # {}
AtWork(k) == \E r \in Requests : request[r].pc \notin {"idle", "reserve"} /\ Key(r) = k

(* An outcome the merchant was told is dealt with, and that completes the  *)
(* mission or contradicts it, has its notice.  A completed mission has its *)
(* notice as well, or the request that completed it is still under way or  *)
(* failed in between and said so to the merchant, whose next attempt would *)
(* find the mission over: nobody else creates it.                          *)
CompletionNoticed ==
  /\ \A k \in Keys : LET body == outcome[k[1]] IN
       "done" \in told[k] /\ (Accepted(body) \/ Conflict(body)) => Exists(NoticeOf(body))
  /\ mission.state = "DONE" =>
       \/ Exists("MISSION_COMPLETED")
       \/ \E k \in Keys : k[1] \in evidence /\ Accepted(outcome[k[1]]) /\ (AtWork(k) \/ Failed(k))

(* An attempt acknowledged as dealt with left its outcome in evidence.     *)
(* One acknowledged as under way did too, or somebody is at work on it, or *)
(* who was has failed, and only another answer to the attempt says so.     *)
AcknowledgedKept == \A k \in Keys :
  /\ "done" \in told[k] => k[1] \in evidence
  /\ "inFlight" \in told[k] => k[1] \in evidence \/ AtWork(k) \/ Failed(k)
=============================================================================
