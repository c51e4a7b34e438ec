--------------------------- MODULE Notifications ---------------------------
(***************************************************************************)
(* What tells the owner: the notifications of one mission, their delivery  *)
(* by email (NotificationDeliveryService, OutboundEmailAdapter, the        *)
(* emailDeliveries records), the owner's retry, and the events the mail    *)
(* provider posts back through handleEmailWebhook and process-inbound.     *)
(*                                                                         *)
(* A notifier is a process between the creation of a notification and the  *)
(* report of its delivery, one awaited call at a time.  A provider event   *)
(* is one signed message: it is posted until it is acknowledged, reserved  *)
(* under its id and worked off by a task.                                  *)
(***************************************************************************)
EXTENDS Naturals, FiniteSets

CONSTANTS
  Notices,         \* notifications the mission may get, by dedupeKey
  Notifiers,       \* processes that create, deliver and retry them
  MaxNotices,      \* notifications per mission (3)
  MaxTries,        \* delivery attempts after which the owner may not retry (3)
  MaxDeliveries,   \* attempts the queue makes with a task (5)
  Faults,
  MaxFaults        \* bounds the model

ASSUME NoticeAssumption ==
  /\ {MaxNotices, MaxTries, MaxDeliveries} \subseteq Nat \ {0} /\ MaxFaults \in Nat

VARIABLES
  notice,          \* notifications
  delivery,        \* emailDeliveries, one for the key of each notification
  accepted,        \* requests for the email the provider accepted: external
  notifier,        \* what each notifier is doing
  event,           \* providerEvents, and the webhook and the task at work on each
  faults

noticeVars == <<notice, delivery, accepted, notifier>>

-----------------------------------------------------------------------------
NoNotice == [status |-> "none", attempts |-> 0, deliveryId |-> FALSE]
Reported == {"DELIVERED", "BOUNCED"}
Status == {"RECORDED", "ACCEPTED", "FAILED", "UNAVAILABLE"} \cup Reported

(* tries: the attempt this delivery counts as; report: what it reports.    *)
Idle == [pc |-> "idle", notice |-> "none", tries |-> 0, report |-> "none", again |-> FALSE]

(* posted: what the provider says; hook, worker: where they stand.         *)
NoEvent == [posted |-> "none", acked |-> FALSE, status |-> "none", hook |-> "idle",
            left |-> MaxDeliveries, task |-> "none", worker |-> "idle"]

NoticeTypeOK ==
  /\ \A k \in Notices :
       notice[k] \in [status: Status, attempts: Nat, deliveryId: BOOLEAN] \cup {NoNotice}
  /\ delivery \in [Notices -> {"none", "IN_FLIGHT", "COMPLETED"}]
  /\ accepted \in [Notices -> Nat]
  /\ \A n \in Notifiers : notifier[n] = Idle \/
       /\ notifier[n].pc \in {"create", "reserve", "send", "complete", "undo", "report", "ended", "threw"}
       /\ notifier[n].notice \in Notices /\ notifier[n].report \in Status \cup {"none"}
  /\ event \in [Notices ->
       [posted: Reported \cup {"none"}, acked: BOOLEAN,
        status: {"none", "RESERVED", "ENQUEUED", "PROCESSED", "FAILED"},
        hook: {"idle", "reserve", "schedule", "mark", "markFailed"}, left: 0..MaxDeliveries,
        task: {"none", "pending", "done", "dropped"},
        worker: {"idle", "record", "markProcessed", "markFailed"}]]
  /\ faults \in 0..MaxFaults

NoticeInit ==
  /\ notice = [k \in Notices |-> NoNotice]
  /\ delivery = [k \in Notices |-> "none"]
  /\ accepted = [k \in Notices |-> 0]
  /\ notifier = [n \in Notifiers |-> Idle]
  /\ event = [k \in Notices |-> NoEvent]
  /\ faults = 0

Fault(f) == f \in Faults /\ faults < MaxFaults /\ faults' = faults + 1

-----------------------------------------------------------------------------
(* A notifier                                                              *)
NotifierAt(n, pc) == notifier[n].pc = pc
NotifierGoto(n, pc) == notifier' = [notifier EXCEPT ![n].pc = pc]
Report(n, status) == notifier' = [notifier EXCEPT ![n].pc = "report", ![n].report = status]

(* Whoever starts a delivery counts one more than the record it read.      *)
Notify(n, k, pc, again) ==
  notifier' = [notifier EXCEPT ![n] =
    [pc |-> pc, notice |-> k, tries |-> notice[k].attempts + 1, report |-> "none", again |-> again]]

(* InterventionService.raise and MissionNotificationService.notify deliver *)
(* only a notification they created; verifyOutcome delivers any: again.    *)
Raise(n, k) ==
  /\ NotifierAt(n, "idle")
  /\ Notify(n, k, "create", FALSE)
  /\ UNCHANGED <<notice, delivery, accepted, faults>>

(* handleNotificationRetry: read, and judged by what was read.             *)
Retry(n, k) ==
  /\ NotifierAt(n, "idle")
  /\ notice[k].status \in {"FAILED", "UNAVAILABLE"} /\ notice[k].attempts < MaxTries
  /\ Notify(n, k, "reserve", TRUE)
  /\ UNCHANGED <<notice, delivery, accepted, faults>>

(* createIfAbsent: one transaction, with the limit of the mission.         *)
Exists(k) == notice[k] # NoNotice

CreateIfAbsent(n) ==
  LET k == notifier[n].notice IN
  /\ NotifierAt(n, "create")
  /\ \/ /\ UNCHANGED faults
        /\ IF Exists(k)
             THEN UNCHANGED notice /\ Notify(n, k, IF notifier[n].again THEN "reserve" ELSE "ended", TRUE)
             ELSE IF Cardinality({j \in Notices : Exists(j)}) >= MaxNotices
             THEN UNCHANGED notice /\ NotifierGoto(n, "threw")
             ELSE /\ notice' = [notice EXCEPT ![k].status = "RECORDED"]
                  /\ Notify(n, k, "reserve", TRUE)
     \/ UNCHANGED notice /\ Fault("storeError") /\ NotifierGoto(n, "threw")
  /\ UNCHANGED <<delivery, accepted>>

(* deliver, without a recipient or a configured email, and else            *)
(* reserveDelivery in it: a delivery under way throws, one that is         *)
(* completed gives its receipt.                                            *)
ReservedFree(k) == TRUE               \* mutant of Reserved
Reserved(k) == delivery[k] = "none"

Reserve(n) ==
  LET k == notifier[n].notice IN
  /\ NotifierAt(n, "reserve")
  /\ \/ UNCHANGED <<delivery, faults>> /\ Report(n, "UNAVAILABLE")
     \/ /\ UNCHANGED faults
        /\ IF Reserved(k)
             THEN delivery' = [delivery EXCEPT ![k] = "IN_FLIGHT"] /\ NotifierGoto(n, "send")
             ELSE /\ UNCHANGED delivery
                  /\ Report(n, IF delivery[k] = "COMPLETED" THEN "ACCEPTED" ELSE "FAILED")
     \/ UNCHANGED delivery /\ Fault("storeError") /\ Report(n, "FAILED")
  /\ UNCHANGED <<notice, accepted>>

(* The provider accepts or refuses the email, or its answer is lost.       *)
Send(n) ==
  LET k == notifier[n].notice IN
  /\ NotifierAt(n, "send")
  /\ \/ accepted' = [accepted EXCEPT ![k] = @ + 1] /\ UNCHANGED faults /\ NotifierGoto(n, "complete")
     \/ UNCHANGED accepted /\ Fault("refused") /\ NotifierGoto(n, "undo")
     \/ accepted' = [accepted EXCEPT ![k] = @ + 1] /\ Fault("lostAck") /\ NotifierGoto(n, "undo")
  /\ UNCHANGED <<notice, delivery>>

CompleteDelivery(n) ==
  LET k == notifier[n].notice IN
  /\ NotifierAt(n, "complete")
  /\ \/ delivery' = [delivery EXCEPT ![k] = "COMPLETED"] /\ UNCHANGED faults /\ Report(n, "ACCEPTED")
     \/ UNCHANGED delivery /\ Fault("storeError") /\ NotifierGoto(n, "undo")
  /\ UNCHANGED <<notice, accepted>>

(* failDelivery, even of an email that was accepted.                       *)
FailDelivery(n) ==
  LET k == notifier[n].notice IN
  /\ NotifierAt(n, "undo")
  /\ \/ delivery' = [delivery EXCEPT ![k] = "none"] /\ UNCHANGED faults
     \/ UNCHANGED delivery /\ Fault("storeError")
  /\ Report(n, "FAILED")
  /\ UNCHANGED <<notice, accepted>>

(* updateDelivery merges its report over whatever is there.  When that of  *)
(* an accepted email fails, FAILED is reported instead.                    *)
UpdateDelivery(n) ==
  LET k == notifier[n].notice
      report == notifier[n].report
  IN
  /\ NotifierAt(n, "report")
  /\ \/ /\ notice' = [notice EXCEPT ![k].status = report, ![k].attempts = notifier[n].tries,
                                    ![k].deliveryId = @ \/ report = "ACCEPTED"]
        /\ UNCHANGED faults /\ NotifierGoto(n, "ended")
     \/ /\ UNCHANGED notice /\ Fault("storeError")
        /\ IF report = "ACCEPTED" THEN Report(n, "FAILED") ELSE NotifierGoto(n, "threw")
  /\ UNCHANGED <<delivery, accepted>>

NotifierStep(n) ==
  \/ CreateIfAbsent(n) \/ Reserve(n) \/ Send(n) \/ CompleteDelivery(n) \/ FailDelivery(n)
  \/ UpdateDelivery(n)

-----------------------------------------------------------------------------
(* The events of the provider                                              *)
(* The provider knows what became of an email it accepted, and posts it    *)
(* until it is acknowledged.                                               *)
Emit(k) ==
  /\ accepted[k] > 0 /\ event[k].posted = "none"
  /\ \E what \in Reported : event' = [event EXCEPT ![k].posted = what]
  /\ UNCHANGED faults

Webhook(k) ==
  /\ event[k].posted # "none" /\ event[k].hook = "idle"
  /\ \/ ~event[k].acked /\ UNCHANGED faults
     \/ event[k].acked /\ Fault("resend")
  /\ event' = [event EXCEPT ![k].hook = "reserve"]

(* reserveProviderEvent: an event on record is acknowledged, whatever      *)
(* became of it.                                                           *)
EventKnown(k) == event[k].status # "none"

ReserveEvent(k) ==
  /\ event[k].hook = "reserve"
  /\ \/ /\ UNCHANGED faults
        /\ event' = IF EventKnown(k)
                      THEN [event EXCEPT ![k].hook = "idle", ![k].acked = TRUE]
                      ELSE [event EXCEPT ![k].hook = "schedule", ![k].status = "RESERVED"]
     \/ event' = [event EXCEPT ![k].hook = "idle"] /\ Fault("storeError")

(* The same message arrives while its first webhook is at work, which has  *)
(* neither scheduled nor marked it yet: it is acknowledged all the same.   *)
RepeatWebhook(k) ==
  /\ event[k].hook # "idle" /\ EventKnown(k) /\ Fault("resend")
  /\ event' = [event EXCEPT ![k].acked = TRUE]

ScheduleInboundSilent(k) ==           \* mutant of ScheduleInbound
  /\ event[k].hook = "schedule"
  /\ \/ event' = [event EXCEPT ![k].hook = "mark", ![k].task = "pending"] /\ UNCHANGED faults
     \/ event' = [event EXCEPT ![k].hook = "mark"] /\ Fault("dispatch")
ScheduleInbound(k) ==
  /\ event[k].hook = "schedule"
  /\ \/ event' = [event EXCEPT ![k].hook = "mark", ![k].task = "pending"] /\ UNCHANGED faults
     \/ event' = [event EXCEPT ![k].hook = "markFailed"] /\ Fault("dispatch")

(* markProviderEvent of the webhook: it may come after that of the task.   *)
MarkEvent(k) ==
  /\ \/ event[k].hook = "mark" /\ UNCHANGED faults
        /\ event' = [event EXCEPT ![k].hook = "idle", ![k].status = "ENQUEUED", ![k].acked = TRUE]
     \/ event[k].hook = "mark" /\ Fault("storeError")
        /\ event' = [event EXCEPT ![k].hook = "markFailed"]
     \/ event[k].hook = "markFailed" /\ UNCHANGED faults
        /\ event' = [event EXCEPT ![k].hook = "idle", ![k].status = "FAILED"]
     \/ event[k].hook = "markFailed" /\ Fault("storeError")
        /\ event' = [event EXCEPT ![k].hook = "idle"]

(* process-inbound: the task of the event.                                 *)
StartTask(k) ==
  /\ event[k].task = "pending" /\ event[k].worker = "idle"
  /\ event' = [event EXCEPT ![k].worker = "record", ![k].left = @ - 1]
  /\ UNCHANGED faults

TaskFails(k, status) ==
  event' = [event EXCEPT ![k].worker = "idle", ![k].status = status,
                         ![k].task = IF event[k].left = 0 THEN "dropped" ELSE @]

(* recordNotificationTransportEvent finds the notification by the id its   *)
(* delivery stored; before that, the event is UNKNOWN.                     *)
KnownDelivery(k) == notice[k].deliveryId

RecordTransport(k) ==
  /\ event[k].worker = "record"
  /\ \/ /\ notice' = IF KnownDelivery(k)
                       THEN [notice EXCEPT ![k].status = event[k].posted] ELSE notice
        /\ event' = [event EXCEPT ![k].worker = "markProcessed"] /\ UNCHANGED faults
     \/ UNCHANGED notice /\ event' = [event EXCEPT ![k].worker = "markFailed"] /\ Fault("storeError")

MarkTask(k) ==
  \/ event[k].worker = "markProcessed" /\ UNCHANGED faults
     /\ event' = [event EXCEPT ![k].worker = "idle", ![k].status = "PROCESSED", ![k].task = "done"]
  \/ event[k].worker = "markProcessed" /\ Fault("storeError")
     /\ event' = [event EXCEPT ![k].worker = "markFailed"]
  \/ event[k].worker = "markFailed" /\ UNCHANGED faults /\ TaskFails(k, "FAILED")
  \/ event[k].worker = "markFailed" /\ Fault("storeError") /\ TaskFails(k, event[k].status)

EventStep(k) ==
  \/ /\ \/ Emit(k) \/ Webhook(k) \/ RepeatWebhook(k) \/ ReserveEvent(k) \/ ScheduleInbound(k) \/ MarkEvent(k)
        \/ StartTask(k) \/ MarkTask(k)
     /\ UNCHANGED noticeVars
  \/ RecordTransport(k) /\ UNCHANGED <<delivery, accepted, notifier>>

(* A process stops: a notifier, the webhook or the task.                   *)
CrashNotifier(n) ==
  /\ notifier[n] # Idle /\ Fault("crash")
  /\ notifier' = [notifier EXCEPT ![n] = Idle]
  /\ UNCHANGED <<notice, delivery, accepted, event>>
CrashEvent(k) ==
  /\ Fault("crash") /\ UNCHANGED noticeVars
  /\ \/ event[k].hook # "idle" /\ event' = [event EXCEPT ![k].hook = "idle"]
     \/ event[k].worker # "idle" /\ TaskFails(k, event[k].status)
-----------------------------------------------------------------------------
(* Safety                                                                  *)

(* The owner gets a notification by email once: the provider accepts it    *)
(* again only after a failure, however many requests raise, deliver and    *)
(* retry it.                                                               *)
OneProviderSend == \A k \in Notices : accepted[k] <= 1 + faults

(* An event the provider was told we have is not lost in silence: its task *)
(* was created, or the record does not claim it was, however the webhook   *)
(* was repeated or interrupted.  The event itself may be lost: nobody      *)
(* takes up a record that stays RESERVED or FAILED.                        *)
EventKept == \A k \in Notices :
  event[k].acked => event[k].task # "none" \/ event[k].status \in {"RESERVED", "FAILED"}
=============================================================================
