----------------------- MODULE MerchantCallbackProofs -----------------------
(***************************************************************************)
(* Theorems about MerchantCallback, and with it Notifications: for any     *)
(* notifications, notifiers, callbacks and requests, any limits, and any   *)
(* kinds and number of faults.                                             *)
(***************************************************************************)
EXTENDS MerchantCallback, TLAPS

-----------------------------------------------------------------------------
(* Why: notifications and their delivery                                   *)

NoticeType == [status: Status \cup {"none"}, attempts: Nat, deliveryId: BOOLEAN]
NotifierPcs == {"idle", "create", "reserve", "send", "complete", "undo", "report", "ended", "threw"}
NotifierType == [pc: NotifierPcs, notice: Notices \cup {"none"}, tries: Nat,
                 report: Status \cup {"none"}, again: BOOLEAN]

(* A notifier at work has a notification, and a report when it reports.    *)
NotifierFit(x) ==
  /\ x.pc = "idle" => x = Idle
  /\ x.pc # "idle" => x.notice \in Notices
  /\ x.pc = "report" => x.report \in Status

NoticesTyped ==
  /\ notice \in [Notices -> NoticeType]
  /\ \A k \in Notices : notice[k].status = "none" => notice[k] = NoNotice
  /\ delivery \in [Notices -> {"none", "IN_FLIGHT", "COMPLETED"}]
  /\ accepted \in [Notices -> Nat]
  /\ notifier \in [Notifiers -> NotifierType]
  /\ \A n \in Notifiers : NotifierFit(notifier[n])
  /\ faults \in 0..MaxFaults

(* Who reserved a delivery has it to itself until it ends or crashes.      *)
Delivering(n) == notifier[n].pc \in {"send", "complete", "undo"}
DeliveryOwned == \A n \in Notifiers :
  Delivering(n) =>
    /\ delivery[notifier[n].notice] = "IN_FLIGHT"
    /\ \A m \in Notifiers : Delivering(m) /\ notifier[m].notice = notifier[n].notice => m = n

(* A delivery that is free, about to be sent or about to be freed has had  *)
(* a fault for every email the provider accepted.                          *)
SendsBacked ==
  /\ OneProviderSend
  /\ \A k \in Notices : delivery[k] = "none" => accepted[k] <= faults
  /\ \A n \in Notifiers :
       notifier[n].pc \in {"send", "undo"} => accepted[notifier[n].notice] <= faults

(* A notifier past the creation has its notification on record.            *)
NotifiersKnow == \A n \in Notifiers :
  notifier[n].pc \in {"reserve", "send", "complete", "undo", "report", "ended"} =>
    Exists(notifier[n].notice)

NoticeInvariant ==
  /\ NoticesTyped
  /\ DeliveryOwned
  /\ SendsBacked
  /\ NotifiersKnow

-----------------------------------------------------------------------------
(* Why: the events of the provider                                         *)

EventType ==
  [posted: Reported \cup {"none"}, acked: BOOLEAN,
   status: {"none", "RESERVED", "ENQUEUED", "PROCESSED", "FAILED"},
   hook: {"idle", "reserve", "schedule", "mark", "markFailed"}, left: 0..MaxDeliveries,
   task: {"none", "pending", "done", "dropped"},
   worker: {"idle", "record", "markProcessed", "markFailed"}]

(* A task is made once, by the webhook that reserved the event; no record  *)
(* says ENQUEUED or PROCESSED before it is made.                           *)
EventFit(e) ==
  /\ e.hook # "idle" \/ e.task # "none" => e.posted # "none"
  /\ e.hook = "schedule" => e.status = "RESERVED" /\ e.task = "none"
  /\ e.hook = "mark" => e.task # "none"
  /\ e.status = "none" => e.task = "none" /\ ~e.acked
  /\ e.task = "none" => e.left = MaxDeliveries
  /\ e.worker # "idle" => e.task = "pending"
  /\ e.task = "pending" /\ e.worker = "idle" => e.left > 0
  /\ e.status \in {"ENQUEUED", "PROCESSED"} => e.task # "none"

EventInvariant ==
  /\ event \in [Notices -> EventType]
  /\ \A k \in Notices : EventFit(event[k])

-----------------------------------------------------------------------------
(* Why: callbacks                                                          *)

RequestPcs == {"idle", "reserve", "parse", "get", "record", "raise", "notify", "complete", "fail"}
RequestType == [pc: RequestPcs, callback: Callbacks \cup {"none"}, attempt: 0..MaxAttempts,
                seen: 0..MaxVersion, why: {"none", "again", "invalid"}]

RequestFit(x) ==
  /\ x.pc = "idle" => x = NoRequest
  /\ x.pc # "idle" => x.callback \in Callbacks /\ x.attempt \in 1..MaxAttempts
  /\ x.pc = "fail" => x.why \in {"again", "invalid"}

CallbacksTyped ==
  /\ outcome \in [Callbacks -> Bodies]
  /\ called \in [Callbacks -> 0..MaxAttempts]
  /\ told \in [Keys -> SUBSET (Acks \cup Failures)]
  /\ dedupe \in [Keys -> {"none", "IN_FLIGHT", "COMPLETED"}]
  /\ mission \in [state: {"active", "halted", "DONE"}, version: 1..MaxVersion]
  /\ evidence \subseteq Callbacks
  /\ request \in [Requests -> RequestType]
  /\ \A r \in Requests : RequestFit(request[r])

(* An outcome is dealt with when it is in evidence, and announced if it    *)
(* has to be.                                                              *)
Settled(c) ==
  /\ c \in evidence
  /\ Accepted(outcome[c]) \/ Conflict(outcome[c]) => Exists(NoticeOf(outcome[c]))

(* A request past the record has its outcome in evidence, and one about to *)
(* complete its attempt has dealt with it.                                 *)
RequestsRecorded == \A r \in Requests :
  /\ request[r].pc \in {"raise", "notify", "complete"} => request[r].callback \in evidence
  /\ request[r].pc = "complete" => Settled(request[r].callback)

(* What is on record about an attempt, and what its requests were told.    *)
Held(k) == k[1] \in evidence \/ AtWork(k) \/ Failed(k)
AttemptsBacked == \A k \in Keys :
  /\ dedupe[k] = "COMPLETED" \/ "done" \in told[k] => Settled(k[1])
  /\ dedupe[k] = "IN_FLIGHT" \/ "inFlight" \in told[k] => Held(k)

(* A completed mission is announced, or the attempt is known that should.  *)
Promised(k) == k[1] \in evidence /\ Accepted(outcome[k[1]]) /\ (AtWork(k) \/ Failed(k))
CompletionBacked ==
  mission.state = "DONE" => Exists("MISSION_COMPLETED") \/ \E k \in Keys : Promised(k)

(* A request that waits for its notifier is served for its own notice.     *)
RequestsServed == \A r \in Requests :
  request[r].pc = "notify" =>
    notifier[r].pc # "idle" /\ notifier[r].notice = NoticeOf(Body(r))

CallbackInvariant ==
  /\ NoticeInvariant
  /\ EventInvariant
  /\ CallbacksTyped
  /\ RequestsRecorded
  /\ RequestsServed
  /\ AttemptsBacked
  /\ CompletionBacked

-----------------------------------------------------------------------------
(* What the invariants say                                                 *)

(* Their records are the ones the type invariants describe.                *)
LEMMA NoticeTypes == NoticeInvariant /\ EventInvariant => NoticeTypeOK
PROOF
  <1> SUFFICES ASSUME NoticeInvariant, EventInvariant PROVE NoticeTypeOK
    OBVIOUS
  <1>1. ASSUME NEW k \in Notices
        PROVE  notice[k] \in [status: Status, attempts: Nat, deliveryId: BOOLEAN] \cup {NoNotice}
    <2>1. notice[k] \in NoticeType /\ (notice[k].status = "none" => notice[k] = NoNotice)
      BY DEF NoticeInvariant, NoticesTyped
    <2> QED
      BY <2>1 DEF NoticeType
  <1>2. ASSUME NEW n \in Notifiers, notifier[n] # Idle
        PROVE  /\ notifier[n].pc \in {"create", "reserve", "send", "complete", "undo", "report", "ended", "threw"}
               /\ notifier[n].notice \in Notices /\ notifier[n].report \in Status \cup {"none"}
    <2>1. notifier[n] \in NotifierType /\ NotifierFit(notifier[n])
      BY DEF NoticeInvariant, NoticesTyped
    <2> QED
      BY <1>2, <2>1 DEF NotifierType, NotifierPcs, NotifierFit
  <1> QED
    BY <1>1, <1>2 DEF NoticeInvariant, NoticesTyped, EventInvariant, EventType, NoticeTypeOK

LEMMA CallbackTypes == CallbackInvariant => CallbackTypeOK
PROOF
  <1> SUFFICES ASSUME CallbackInvariant PROVE CallbackTypeOK
    OBVIOUS
  <1>1. NoticeTypeOK
    BY NoticeTypes DEF CallbackInvariant
  <1>2. ASSUME NEW r \in Requests, request[r] # NoRequest
        PROVE  /\ request[r].pc \in {"reserve", "parse", "get", "record", "raise", "notify", "complete", "fail"}
               /\ <<request[r].callback, request[r].attempt>> \in Keys
               /\ request[r].seen \in 0..MaxVersion
    <2>1. request[r] \in RequestType /\ RequestFit(request[r])
      BY DEF CallbackInvariant, CallbacksTyped
    <2> QED
      BY <1>2, <2>1 DEF RequestType, RequestPcs, RequestFit, Keys
  <1> QED
    BY <1>1, <1>2 DEF CallbackInvariant, CallbacksTyped, CallbackTypeOK

LEMMA EventsKept == EventInvariant => EventKept
PROOF
  <1> SUFFICES ASSUME EventInvariant, NEW k \in Notices, event[k].acked
               PROVE  event[k].task # "none" \/ event[k].status \in {"RESERVED", "FAILED"}
    BY DEF EventKept
  <1>1. event[k] \in EventType /\ EventFit(event[k])
    BY DEF EventInvariant
  <1> QED
    BY <1>1 DEF EventType, EventFit

LEMMA OutcomesKept == CallbackInvariant => CompletionNoticed /\ AcknowledgedKept
PROOF
  BY DEF CallbackInvariant, AttemptsBacked, CompletionBacked, Settled, Held, Promised, CompletionNoticed,
         AcknowledgedKept, Keys

(* At first nothing happened.                                              *)
LEMMA InitInvariant == CallbackInit => CallbackInvariant
PROOF
  <1> SUFFICES ASSUME CallbackInit PROVE CallbackInvariant
    OBVIOUS
  <1>1. 0 \in 0..MaxFaults /\ 0 \in 0..MaxAttempts /\ 0 \in 0..MaxVersion /\ 1 \in 1..MaxVersion
        /\ MaxDeliveries \in 0..MaxDeliveries /\ MaxDeliveries > 0
    BY NoticeAssumption, CallbackAssumption
  <1>2. Idle \in NotifierType /\ NotifierFit(Idle) /\ Idle.pc = "idle"
    BY DEF NotifierType, NotifierPcs, NotifierFit, Idle
  <1>3. NoNotice \in NoticeType
    BY DEF NoNotice, NoticeType
  <1>4. NoticesTyped
    BY <1>1, <1>2, <1>3 DEF CallbackInit, NoticeInit, NoticesTyped
  <1>7. DeliveryOwned /\ NotifiersKnow /\ SendsBacked
    BY <1>2 DEF CallbackInit, NoticeInit, DeliveryOwned, Delivering, NotifiersKnow, SendsBacked, OneProviderSend
  <1>8. EventInvariant
    <2>1. NoEvent \in EventType /\ EventFit(NoEvent)
      BY <1>1 DEF NoEvent, EventType, EventFit
    <2> QED
      BY <2>1 DEF CallbackInit, NoticeInit, EventInvariant
  <1>9. CallbacksTyped /\ RequestsRecorded /\ RequestsServed /\ AttemptsBacked /\ CompletionBacked
    <2>1. NoRequest \in RequestType /\ RequestFit(NoRequest) /\ NoRequest.pc = "idle"
      BY <1>1 DEF NoRequest, RequestType, RequestPcs, RequestFit
    <2> QED
      BY <1>1, <2>1 DEF CallbackInit, CallbacksTyped, RequestsRecorded, RequestsServed, AttemptsBacked, CompletionBacked
  <1> QED
    BY <1>4, <1>7, <1>8, <1>9 DEF CallbackInvariant, NoticeInvariant

-----------------------------------------------------------------------------
(* The events keep to themselves                                           *)

LEMMA EventStored ==
  ASSUME EventInvariant, NEW k \in Notices, NEW e \in EventType, EventFit(e),
         event' = [event EXCEPT ![k] = e]
  PROVE  EventInvariant'
PROOF
  <1>1. event' \in [Notices -> EventType]
    BY DEF EventInvariant
  <1>2. ASSUME NEW j \in Notices PROVE EventFit(event'[j])
    <2>1. event'[j] = IF j = k THEN e ELSE event[j]
      BY DEF EventInvariant
    <2> QED
      BY <2>1 DEF EventInvariant
  <1> QED
    BY <1>1, <1>2 DEF EventInvariant

(* A delivery of the task that fails leaves it pending, or drops it.       *)
LEMMA TaskFailsKept ==
  ASSUME EventInvariant, NEW k \in Notices, event[k].worker # "idle",
         NEW status \in {"FAILED", event[k].status}, TaskFails(k, status)
  PROVE  EventInvariant'
PROOF
  <1>1. event[k] \in EventType /\ EventFit(event[k]) /\ event \in [Notices -> EventType]
    BY DEF EventInvariant
  <1> DEFINE e == [event[k] EXCEPT !.worker = "idle", !.status = status,
                                   !.task = IF event[k].left = 0 THEN "dropped" ELSE event[k].task]
  <1>2. event' = [event EXCEPT ![k] = e]
    BY <1>1 DEF TaskFails
  <1>3. event[k].left \in Nat
    BY <1>1, NoticeAssumption DEF EventType
  <1>4. e \in EventType
    BY <1>1 DEF EventType
  <1>5. /\ e.hook = event[k].hook /\ e.posted = event[k].posted /\ e.acked = event[k].acked
        /\ e.left = event[k].left /\ e.worker = "idle" /\ e.status = status
        /\ e.task = IF event[k].left = 0 THEN "dropped" ELSE event[k].task
    BY <1>1 DEF EventType
  <1> HIDE DEF e
  <1>6. event[k].task = "pending" /\ event[k].hook # "schedule" /\ event[k].posted # "none" /\ event[k].status # "none"
    BY <1>1 DEF EventFit
  <1>7. EventFit(e)
    BY <1>1, <1>3, <1>5, <1>6 DEF EventFit
  <1> QED
    BY <1>2, <1>4, <1>7, EventStored

(* Each other step stores one record that still fits.                      *)
EventMoves(k) == \E e \in EventType : EventFit(e) /\ event' = [event EXCEPT ![k] = e]

LEMMA WebhookMoves ==
  ASSUME EventInvariant, NEW k \in Notices,
         Emit(k) \/ Webhook(k) \/ RepeatWebhook(k) \/ ReserveEvent(k) \/ ScheduleInbound(k) \/ MarkEvent(k)
  PROVE  EventMoves(k)
PROOF
  <1>0. event[k] \in EventType /\ EventFit(event[k]) /\ event \in [Notices -> EventType]
    BY DEF EventInvariant
  <1>1. CASE Emit(k)
    <2>1. PICK what \in Reported : event' = [event EXCEPT ![k].posted = what]
      BY <1>1 DEF Emit
    <2> DEFINE e == [event[k] EXCEPT !.posted = what]
    <2>2. e \in EventType
      BY <1>0 DEF EventType
    <2>3. EventFit(e)
      BY <1>0 DEF EventType, EventFit, Reported
    <2>4. event' = [event EXCEPT ![k] = e]
      BY <2>1
    <2> QED
      BY <2>2, <2>3, <2>4 DEF EventMoves
  <1>2. CASE Webhook(k)
    <2> DEFINE e == [event[k] EXCEPT !.hook = "reserve"]
    <2>2. e \in EventType
      BY <1>0 DEF EventType
    <2>3. EventFit(e)
      BY <1>0, <1>2 DEF EventType, EventFit, Webhook
    <2>4. event' = [event EXCEPT ![k] = e]
      BY <1>2 DEF Webhook
    <2> QED
      BY <2>2, <2>3, <2>4 DEF EventMoves
  <1>3. CASE ReserveEvent(k)
    <2>0. event[k].hook = "reserve"
      BY <1>3 DEF ReserveEvent
    <2>1. CASE EventKnown(k) /\ event' = [event EXCEPT ![k].hook = "idle", ![k].acked = TRUE]
      <3> DEFINE e == [event[k] EXCEPT !.hook = "idle", !.acked = TRUE]
      <3>2. e \in EventType
        BY <1>0 DEF EventType
      <3>3. EventFit(e)
        BY <1>0, <2>0, <2>1 DEF EventType, EventFit, EventKnown
      <3>4. event' = [event EXCEPT ![k] = e]
        BY <2>1, <1>0
      <3> QED
        BY <3>2, <3>3, <3>4 DEF EventMoves
    <2>2. CASE ~EventKnown(k) /\ event' = [event EXCEPT ![k].hook = "schedule", ![k].status = "RESERVED"]
      <3> DEFINE e == [event[k] EXCEPT !.hook = "schedule", !.status = "RESERVED"]
      <3>2. e \in EventType
        BY <1>0 DEF EventType
      <3>3. EventFit(e)
        BY <1>0, <2>0, <2>2 DEF EventType, EventFit, EventKnown
      <3>4. event' = [event EXCEPT ![k] = e]
        BY <2>2, <1>0
      <3> QED
        BY <3>2, <3>3, <3>4 DEF EventMoves
    <2>3. CASE event' = [event EXCEPT ![k].hook = "idle"]
      <3> DEFINE e == [event[k] EXCEPT !.hook = "idle"]
      <3>2. e \in EventType
        BY <1>0 DEF EventType
      <3>3. EventFit(e)
        BY <1>0 DEF EventType, EventFit
      <3>4. event' = [event EXCEPT ![k] = e]
        BY <2>3
      <3> QED
        BY <3>2, <3>3, <3>4 DEF EventMoves
    <2> QED
      BY <1>3, <2>1, <2>2, <2>3 DEF ReserveEvent
  <1>4. CASE ScheduleInbound(k)
    <2>0. event[k].hook = "schedule"
      BY <1>4 DEF ScheduleInbound
    <2>1. CASE event' = [event EXCEPT ![k].hook = "mark", ![k].task = "pending"]
      <3> DEFINE e == [event[k] EXCEPT !.hook = "mark", !.task = "pending"]
      <3>2. e \in EventType
        BY <1>0 DEF EventType
      <3>3. EventFit(e)
        BY <1>0, <2>0, NoticeAssumption DEF EventType, EventFit
      <3>4. event' = [event EXCEPT ![k] = e]
        BY <2>1, <1>0
      <3> QED
        BY <3>2, <3>3, <3>4 DEF EventMoves
    <2>2. CASE event' = [event EXCEPT ![k].hook = "markFailed"]
      <3> DEFINE e == [event[k] EXCEPT !.hook = "markFailed"]
      <3>2. e \in EventType
        BY <1>0 DEF EventType
      <3>3. EventFit(e)
        BY <1>0, <2>0 DEF EventType, EventFit
      <3>4. event' = [event EXCEPT ![k] = e]
        BY <2>2
      <3> QED
        BY <3>2, <3>3, <3>4 DEF EventMoves
    <2> QED
      BY <1>4, <2>1, <2>2 DEF ScheduleInbound
  <1>5. CASE MarkEvent(k)
    <2>0. event[k].hook \in {"mark", "markFailed"}
      BY <1>5 DEF MarkEvent
    <2>1. CASE event[k].hook = "mark" /\ event' = [event EXCEPT ![k].hook = "idle", ![k].status = "ENQUEUED", ![k].acked = TRUE]
      <3> DEFINE e == [event[k] EXCEPT !.hook = "idle", !.status = "ENQUEUED", !.acked = TRUE]
      <3>2. e \in EventType
        BY <1>0 DEF EventType
      <3>3. EventFit(e)
        BY <1>0, <2>1 DEF EventType, EventFit
      <3>4. event' = [event EXCEPT ![k] = e]
        BY <2>1, <1>0
      <3> QED
        BY <3>2, <3>3, <3>4 DEF EventMoves
    <2>2. CASE event' = [event EXCEPT ![k].hook = "markFailed"] \/ event' = [event EXCEPT ![k].hook = "idle"]
      <3>1. PICK hook \in {"idle", "markFailed"} : event' = [event EXCEPT ![k].hook = hook]
        BY <2>2
      <3> DEFINE e == [event[k] EXCEPT !.hook = hook]
      <3>2. e \in EventType
        BY <1>0 DEF EventType
      <3>3. EventFit(e)
        BY <1>0, <2>0 DEF EventType, EventFit
      <3>4. event' = [event EXCEPT ![k] = e]
        BY <3>1
      <3> QED
        BY <3>2, <3>3, <3>4 DEF EventMoves
    <2>3. CASE event[k].hook = "markFailed" /\ event' = [event EXCEPT ![k].hook = "idle", ![k].status = "FAILED"]
      <3> DEFINE e == [event[k] EXCEPT !.hook = "idle", !.status = "FAILED"]
      <3>2. e \in EventType
        BY <1>0 DEF EventType
      <3>3. EventFit(e)
        BY <1>0, <2>3 DEF EventType, EventFit
      <3>4. event' = [event EXCEPT ![k] = e]
        BY <2>3, <1>0
      <3> QED
        BY <3>2, <3>3, <3>4 DEF EventMoves
    <2> QED
      BY <1>5, <2>1, <2>2, <2>3 DEF MarkEvent
  <1>6. CASE RepeatWebhook(k)
    <2> DEFINE e == [event[k] EXCEPT !.acked = TRUE]
    <2>2. e \in EventType
      BY <1>0 DEF EventType
    <2>3. EventFit(e)
      BY <1>0, <1>6 DEF EventType, EventFit, RepeatWebhook, EventKnown
    <2>4. event' = [event EXCEPT ![k] = e]
      BY <1>6 DEF RepeatWebhook
    <2> QED
      BY <2>2, <2>3, <2>4 DEF EventMoves
  <1> QED
    BY <1>1, <1>2, <1>3, <1>4, <1>5, <1>6

LEMMA TaskMoves ==
  ASSUME EventInvariant, NEW k \in Notices,
         StartTask(k) \/ RecordTransport(k)
  PROVE  EventMoves(k)
PROOF
  <1>0. event[k] \in EventType /\ EventFit(event[k]) /\ event \in [Notices -> EventType]
    BY DEF EventInvariant
  <1>1. CASE StartTask(k)
    <2> DEFINE e == [event[k] EXCEPT !.worker = "record", !.left = event[k].left - 1]
    <2>1. event[k].left \in 0..MaxDeliveries /\ event[k].left > 0 /\ event[k].task = "pending"
      BY <1>0, <1>1 DEF EventType, EventFit, StartTask
    <2>2. event[k].left - 1 \in 0..MaxDeliveries
      BY <2>1, NoticeAssumption
    <2>3. e \in EventType
      BY <1>0, <2>2 DEF EventType
    <2>4. EventFit(e)
      BY <1>0, <2>1 DEF EventType, EventFit
    <2>5. event' = [event EXCEPT ![k] = e]
      BY <1>0, <1>1 DEF StartTask
    <2> QED
      BY <2>3, <2>4, <2>5 DEF EventMoves
  <1>2. CASE RecordTransport(k)
    <2>1. PICK worker \in {"markProcessed", "markFailed"} : event' = [event EXCEPT ![k].worker = worker]
      BY <1>2 DEF RecordTransport
    <2> DEFINE e == [event[k] EXCEPT !.worker = worker]
    <2>2. e \in EventType
      BY <1>0 DEF EventType
    <2>3. EventFit(e)
      BY <1>0, <1>2 DEF EventType, EventFit, RecordTransport
    <2>4. event' = [event EXCEPT ![k] = e]
      BY <2>1
    <2> QED
      BY <2>2, <2>3, <2>4 DEF EventMoves
  <1> QED
    BY <1>1, <1>2

LEMMA MarkTaskKept ==
  ASSUME EventInvariant, NEW k \in Notices, MarkTask(k)
  PROVE  EventInvariant'
PROOF
  <1>0. event[k] \in EventType /\ EventFit(event[k]) /\ event \in [Notices -> EventType]
    BY DEF EventInvariant
  <1>1. CASE event[k].worker = "markProcessed"
             /\ event' = [event EXCEPT ![k].worker = "idle", ![k].status = "PROCESSED", ![k].task = "done"]
    <2> DEFINE e == [event[k] EXCEPT !.worker = "idle", !.status = "PROCESSED", !.task = "done"]
    <2>2. e \in EventType
      BY <1>0 DEF EventType
    <2>3. EventFit(e)
      BY <1>0, <1>1 DEF EventType, EventFit
    <2>4. event' = [event EXCEPT ![k] = e]
      BY <1>1, <1>0
    <2> QED
      BY <2>2, <2>3, <2>4, EventStored
  <1>2. CASE event[k].worker = "markProcessed" /\ event' = [event EXCEPT ![k].worker = "markFailed"]
    <2> DEFINE e == [event[k] EXCEPT !.worker = "markFailed"]
    <2>2. e \in EventType
      BY <1>0 DEF EventType
    <2>3. EventFit(e)
      BY <1>0, <1>2 DEF EventType, EventFit
    <2>4. event' = [event EXCEPT ![k] = e]
      BY <1>2
    <2> QED
      BY <2>2, <2>3, <2>4, EventStored
  <1>3. CASE event[k].worker = "markFailed" /\ \E status \in {"FAILED", event[k].status} : TaskFails(k, status)
    BY <1>3, TaskFailsKept
  <1> QED
    BY <1>1, <1>2, <1>3 DEF MarkTask

LEMMA EventsStep ==
  ASSUME EventInvariant, NEW k \in Notices, EventStep(k) \/ CrashEvent(k)
  PROVE  EventInvariant'
PROOF
  <1>1. ASSUME EventMoves(k) PROVE EventInvariant'
    BY <1>1, EventStored DEF EventMoves
  <1>2. CASE EventStep(k)
    BY <1>1, <1>2, WebhookMoves, TaskMoves, MarkTaskKept DEF EventStep
  <1>3. CASE CrashEvent(k)
    <2>1. CASE event' = [event EXCEPT ![k].hook = "idle"]
      <3>0. event[k] \in EventType /\ EventFit(event[k]) /\ event \in [Notices -> EventType]
        BY DEF EventInvariant
      <3> DEFINE e == [event[k] EXCEPT !.hook = "idle"]
      <3>2. e \in EventType
        BY <3>0 DEF EventType
      <3>3. EventFit(e)
        BY <3>0 DEF EventType, EventFit
      <3>4. event' = [event EXCEPT ![k] = e]
        BY <2>1
      <3> QED
        BY <3>2, <3>3, <3>4, EventStored
    <2>2. CASE event[k].worker # "idle" /\ TaskFails(k, event[k].status)
      BY <2>2, TaskFailsKept
    <2> QED
      BY <1>3, <2>1, <2>2 DEF CrashEvent
  <1> QED
    BY <1>2, <1>3

-----------------------------------------------------------------------------
(* What a step does to its notifier                                        *)

MovesTo(n, pc, k) ==
  /\ notifier' \in [Notifiers -> NotifierType]
  /\ NotifierFit(notifier'[n]) /\ notifier'[n].pc = pc /\ notifier'[n].notice = k
  /\ \A m \in Notifiers : m # n => notifier'[m] = notifier[m]

LEMMA NotifierStored ==
  ASSUME NoticesTyped, NEW n \in Notifiers, NEW x \in NotifierType, NotifierFit(x),
         notifier' = [notifier EXCEPT ![n] = x]
  PROVE  MovesTo(n, x.pc, x.notice)
PROOF
  <1>1. notifier' \in [Notifiers -> NotifierType] /\ notifier'[n] = x
        /\ \A m \in Notifiers : m # n => notifier'[m] = notifier[m]
    BY DEF NoticesTyped
  <1> QED
    BY <1>1 DEF MovesTo

Working == {"create", "reserve", "send", "complete", "undo", "ended", "threw"}

LEMMA GotoMoves ==
  ASSUME NoticesTyped, NEW n \in Notifiers, notifier[n].pc # "idle", NEW pc \in Working, NotifierGoto(n, pc)
  PROVE  MovesTo(n, pc, notifier[n].notice)
PROOF
  <1>1. notifier[n] \in NotifierType /\ NotifierFit(notifier[n])
    BY DEF NoticesTyped
  <1> DEFINE x == [notifier[n] EXCEPT !.pc = pc]
  <1>2. x \in NotifierType /\ x.pc = pc /\ x.notice = notifier[n].notice
    BY <1>1 DEF NotifierType, NotifierPcs, Working
  <1>3. NotifierFit(x)
    BY <1>1, <1>2 DEF NotifierFit, Working
  <1>4. notifier' = [notifier EXCEPT ![n] = x]
    BY DEF NotifierGoto
  <1> HIDE DEF x
  <1>5. MovesTo(n, x.pc, x.notice)
    BY <1>2, <1>3, <1>4, NotifierStored
  <1> QED
    BY <1>2, <1>5

LEMMA ReportMoves ==
  ASSUME NoticesTyped, NEW n \in Notifiers, notifier[n].pc # "idle", NEW status \in Status, Report(n, status)
  PROVE  MovesTo(n, "report", notifier[n].notice)
PROOF
  <1>1. notifier[n] \in NotifierType /\ NotifierFit(notifier[n]) /\ notifier \in [Notifiers -> NotifierType]
    BY DEF NoticesTyped
  <1> DEFINE x == [notifier[n] EXCEPT !.pc = "report", !.report = status]
  <1>2. x \in NotifierType /\ x.pc = "report" /\ x.notice = notifier[n].notice /\ x.report = status
    BY <1>1 DEF NotifierType, NotifierPcs
  <1>3. NotifierFit(x)
    BY <1>1, <1>2 DEF NotifierFit
  <1>4. notifier' = [notifier EXCEPT ![n] = x]
    BY <1>1 DEF Report
  <1> HIDE DEF x
  <1>5. MovesTo(n, x.pc, x.notice)
    BY <1>2, <1>3, <1>4, NotifierStored
  <1> QED
    BY <1>2, <1>5

LEMMA NotifyMoves ==
  ASSUME NoticesTyped, NEW n \in Notifiers, NEW k \in Notices, NEW pc \in Working, NEW again \in BOOLEAN,
         Notify(n, k, pc, again)
  PROVE  MovesTo(n, pc, k)
PROOF
  <1>1. notice[k].attempts + 1 \in Nat
    BY DEF NoticesTyped, NoticeType
  <1> DEFINE x == [pc |-> pc, notice |-> k, tries |-> notice[k].attempts + 1, report |-> "none", again |-> again]
  <1>2. x \in NotifierType
    BY <1>1 DEF NotifierType, NotifierPcs, Working
  <1>3. NotifierFit(x)
    BY DEF NotifierFit, Working
  <1>4. notifier' = [notifier EXCEPT ![n] = x]
    BY DEF Notify
  <1>5. MovesTo(n, x.pc, x.notice)
    BY <1>2, <1>3, <1>4, NotifierStored
  <1> QED
    BY <1>5

LEMMA RestMoves ==
  ASSUME NoticesTyped, NEW n \in Notifiers, notifier' = [notifier EXCEPT ![n] = Idle]
  PROVE  MovesTo(n, "idle", "none")
PROOF
  <1>1. Idle \in NotifierType /\ NotifierFit(Idle) /\ Idle.pc = "idle" /\ Idle.notice = "none"
    BY DEF Idle, NotifierType, NotifierPcs, NotifierFit
  <1>2. MovesTo(n, Idle.pc, Idle.notice)
    BY <1>1, NotifierStored
  <1> QED
    BY <1>1, <1>2

-----------------------------------------------------------------------------
(* What a step does to the notifications: none is ever forgotten           *)

Grows ==
  /\ notice' \in [Notices -> NoticeType]
  /\ \A k \in Notices : notice'[k].status = "none" => notice'[k] = NoNotice
  /\ \A k \in Notices : Exists(k) => Exists(k)'

LEMMA SameGrows ==
  ASSUME NoticeInvariant, UNCHANGED notice
  PROVE  Grows
PROOF
  BY DEF NoticeInvariant, NoticesTyped, Grows, Exists

LEMMA StoredGrows ==
  ASSUME NoticeInvariant, NEW k \in Notices, NEW v \in NoticeType, v.status # "none",
         notice' = [notice EXCEPT ![k] = v]
  PROVE  Grows /\ Exists(k)'
PROOF
  <1>1. \A j \in Notices : notice'[j] = IF j = k THEN v ELSE notice[j]
    BY DEF NoticeInvariant, NoticesTyped
  <1>2. notice' \in [Notices -> NoticeType]
        /\ \A j \in Notices : notice'[j].status = "none" => notice'[j] = NoNotice
    BY <1>1 DEF NoticeInvariant, NoticesTyped
  <1>3. v # NoNotice
    BY DEF NoNotice
  <1>4. Exists(k)' /\ \A j \in Notices : Exists(j)' <=> j = k \/ Exists(j)
    BY <1>1, <1>3 DEF Exists
  <1> QED
    BY <1>2, <1>4 DEF Grows

-----------------------------------------------------------------------------
(* A notifier's step                                                       *)

Past == {"reserve", "send", "complete", "undo", "report", "ended"}

(* What it leaves of the others, and what it has to know itself.           *)
LEMMA MoveKeeps ==
  ASSUME NoticeInvariant, Grows, NEW n \in Notifiers, NEW pc, NEW k, MovesTo(n, pc, k),
         delivery' \in [Notices -> {"none", "IN_FLIGHT", "COMPLETED"}],
         accepted' \in [Notices -> Nat],
         faults' \in 0..MaxFaults, faults <= faults',
         pc \in Past => Exists(k)'
  PROVE  NoticesTyped' /\ NotifiersKnow'
PROOF
  <1>1. ASSUME NEW m \in Notifiers PROVE NotifierFit(notifier'[m])
    <2>1. m = n \/ notifier'[m] = notifier[m]
      BY DEF MovesTo
    <2> QED
      BY <2>1 DEF MovesTo, NoticeInvariant, NoticesTyped
  <1>2. NoticesTyped'
    BY <1>1 DEF Grows, MovesTo, NoticesTyped
  <1>3. ASSUME NEW m \in Notifiers
        PROVE  notifier'[m].pc \in Past => notice'[notifier'[m].notice] # NoNotice
    <2>1. CASE m = n
      <3>1. notifier'[m].pc = pc /\ notifier'[m].notice = k
        BY <2>1 DEF MovesTo
      <3> QED
        BY <3>1 DEF Exists
    <2>2. CASE m # n
      <3>1. notifier'[m] = notifier[m]
        BY <2>2 DEF MovesTo
      <3>2. notifier[m].pc \in Past => notifier[m].notice \in Notices /\ Exists(notifier[m].notice)
        BY DEF NoticeInvariant, NoticesTyped, NotifierFit, NotifiersKnow, Past
      <3>3. notifier[m].pc \in Past => notice'[notifier[m].notice] # NoNotice
        BY <3>2 DEF Grows, Exists
      <3> QED
        BY <3>1, <3>3
    <2> QED
      BY <2>1, <2>2
  <1>4. NotifiersKnow'
    BY <1>3 DEF NotifiersKnow, Past, Exists
  <1> QED
    BY <1>2, <1>4 DEF Grows

(* Away from the delivery ...                                              *)
LEMMA MovesQuietly ==
  ASSUME NoticeInvariant, Grows, NEW n \in Notifiers, NEW pc, NEW k, MovesTo(n, pc, k),
         UNCHANGED <<delivery, accepted>>,
         faults' \in 0..MaxFaults, faults <= faults',
         pc \in Past => Exists(k)',
         pc \notin {"send", "complete", "undo"}
  PROVE  NoticeInvariant'
PROOF
  <1>0. /\ delivery' \in [Notices -> {"none", "IN_FLIGHT", "COMPLETED"}]
        /\ accepted' \in [Notices -> Nat]
        /\ faults \in 0..MaxFaults
    BY DEF NoticeInvariant, NoticesTyped
  <1>1. NoticesTyped' /\ NotifiersKnow'
    BY <1>0, MoveKeeps
  <1>2. \A m \in Notifiers : Delivering(m)' => Delivering(m) /\ notifier'[m] = notifier[m]
    BY DEF MovesTo, Delivering
  <1>3. DeliveryOwned'
    <2> SUFFICES ASSUME NEW m \in Notifiers, Delivering(m)'
                 PROVE  /\ delivery'[notifier'[m].notice] = "IN_FLIGHT"
                        /\ \A l \in Notifiers : Delivering(l)' /\ notifier'[l].notice = notifier'[m].notice => l = m
      BY DEF DeliveryOwned
    <2>1. DeliveryOwned
      BY DEF NoticeInvariant
    <2> QED
      BY <1>2, <2>1 DEF DeliveryOwned
  <1>4. SendsBacked'
    <2>1. ASSUME NEW j \in Notices
          PROVE  accepted'[j] <= 1 + faults' /\ (delivery'[j] = "none" => accepted'[j] <= faults')
      <3>1. accepted[j] \in Nat /\ faults \in Nat /\ faults' \in Nat
        BY <1>0, NoticeAssumption DEF NoticeInvariant, NoticesTyped
      <3>2. accepted[j] <= 1 + faults /\ (delivery[j] = "none" => accepted[j] <= faults)
        BY DEF NoticeInvariant, SendsBacked, OneProviderSend
      <3> QED
        BY <3>1, <3>2
    <2>2. ASSUME NEW m \in Notifiers, notifier'[m].pc \in {"send", "undo"}
          PROVE  accepted'[notifier'[m].notice] <= faults'
      <3>1. Delivering(m)'
        BY <2>2 DEF Delivering
      <3>2. notifier'[m] = notifier[m] /\ notifier[m].pc \in {"send", "undo"}
        BY <1>2, <2>2, <3>1
      <3>3. notifier[m].notice \in Notices
        BY <3>2 DEF NoticeInvariant, NoticesTyped, NotifierFit
      <3>4. accepted[notifier[m].notice] <= faults
        BY <3>2 DEF NoticeInvariant, SendsBacked
      <3>5. accepted[notifier[m].notice] \in Nat /\ faults \in Nat /\ faults' \in Nat
        BY <1>0, <3>3, NoticeAssumption DEF NoticeInvariant, NoticesTyped
      <3> QED
        BY <3>2, <3>4, <3>5
    <2> QED
      BY <2>1, <2>2 DEF SendsBacked, OneProviderSend
  <1> QED
    BY <1>1, <1>3, <1>4 DEF NoticeInvariant

(* ... and with its own: the notifier that is to deliver reserves it free, *)
(* and it alone settles or frees it again.                                 *)
LEMMA MovesDelivering ==
  ASSUME NoticeInvariant, UNCHANGED notice, NEW n \in Notifiers, NEW pc, NEW k \in Notices,
         MovesTo(n, pc, k),
         delivery' \in [Notices -> {"none", "IN_FLIGHT", "COMPLETED"}],
         accepted' \in [Notices -> Nat],
         faults' \in 0..MaxFaults, faults <= faults',
         Exists(k),
         \A j \in Notices : j # k => delivery'[j] = delivery[j] /\ accepted'[j] = accepted[j],
         \A m \in Notifiers : Delivering(m) /\ notifier[m].notice = k => m = n,
         pc \in {"send", "complete", "undo"} => delivery'[k] = "IN_FLIGHT",
         accepted'[k] <= 1 + faults',
         pc \in {"send", "undo"} \/ delivery'[k] = "none" => accepted'[k] <= faults'
  PROVE  NoticeInvariant'
PROOF
  <1>0. faults \in Nat /\ faults' \in Nat
    BY NoticeAssumption DEF NoticeInvariant, NoticesTyped
  <1>1. Grows /\ Exists(k)'
    BY SameGrows DEF Exists
  <1>2. NoticesTyped' /\ NotifiersKnow'
    BY <1>1, MoveKeeps
  <1>3. notifier'[n].pc = pc /\ notifier'[n].notice = k /\ \A m \in Notifiers : m # n => notifier'[m] = notifier[m]
    BY DEF MovesTo
  <1>4. \A m \in Notifiers : m # n /\ Delivering(m)' =>
          Delivering(m) /\ notifier'[m] = notifier[m] /\ notifier[m].notice \in Notices \ {k}
    <2> SUFFICES ASSUME NEW m \in Notifiers, m # n, Delivering(m)'
                 PROVE  Delivering(m) /\ notifier'[m] = notifier[m] /\ notifier[m].notice \in Notices \ {k}
      OBVIOUS
    <2>1. notifier'[m] = notifier[m] /\ Delivering(m)
      BY <1>3 DEF Delivering
    <2>2. notifier[m].notice \in Notices
      BY <2>1 DEF NoticeInvariant, NoticesTyped, NotifierFit, Delivering
    <2> QED
      BY <2>1, <2>2
  <1>5. DeliveryOwned'
    <2> SUFFICES ASSUME NEW m \in Notifiers, Delivering(m)'
                 PROVE  /\ delivery'[notifier'[m].notice] = "IN_FLIGHT"
                        /\ \A l \in Notifiers : Delivering(l)' /\ notifier'[l].notice = notifier'[m].notice => l = m
      BY DEF DeliveryOwned
    <2>1. CASE m = n
      <3>1. notifier'[m].notice = k /\ delivery'[k] = "IN_FLIGHT"
        BY <1>3, <2>1 DEF Delivering
      <3> QED
        BY <1>4, <2>1, <3>1
    <2>2. CASE m # n
      <3>1. Delivering(m) /\ notifier'[m] = notifier[m] /\ notifier[m].notice \in Notices \ {k}
        BY <1>4, <2>2
      <3>2. delivery[notifier[m].notice] = "IN_FLIGHT"
            /\ \A l \in Notifiers : Delivering(l) /\ notifier[l].notice = notifier[m].notice => l = m
        BY <3>1 DEF NoticeInvariant, DeliveryOwned
      <3> QED
        BY <1>3, <1>4, <3>1, <3>2
    <2> QED
      BY <2>1, <2>2
  <1>6. SendsBacked'
    <2>1. ASSUME NEW j \in Notices
          PROVE  accepted'[j] <= 1 + faults' /\ (delivery'[j] = "none" => accepted'[j] <= faults')
      <3>1. CASE j = k
        BY <3>1
      <3>2. CASE j # k
        <4>1. accepted[j] \in Nat /\ accepted'[j] = accepted[j] /\ delivery'[j] = delivery[j]
          BY <3>2 DEF NoticeInvariant, NoticesTyped
        <4>2. accepted[j] <= 1 + faults /\ (delivery[j] = "none" => accepted[j] <= faults)
          BY DEF NoticeInvariant, SendsBacked, OneProviderSend
        <4> QED
          BY <1>0, <4>1, <4>2
      <3> QED
        BY <3>1, <3>2
    <2>2. ASSUME NEW m \in Notifiers, notifier'[m].pc \in {"send", "undo"}
          PROVE  accepted'[notifier'[m].notice] <= faults'
      <3>1. CASE m = n
        BY <1>3, <2>2, <3>1
      <3>2. CASE m # n
        <4>1. Delivering(m)'
          BY <2>2 DEF Delivering
        <4>2. notifier'[m] = notifier[m] /\ notifier[m].notice \in Notices \ {k}
          BY <1>4, <3>2, <4>1
        <4>3. accepted[notifier[m].notice] <= faults /\ accepted[notifier[m].notice] \in Nat
          BY <2>2, <4>2 DEF NoticeInvariant, NoticesTyped, SendsBacked
        <4> QED
          BY <1>0, <4>2, <4>3
      <3> QED
        BY <3>1, <3>2
    <2> QED
      BY <2>1, <2>2 DEF SendsBacked, OneProviderSend
  <1> QED
    BY <1>2, <1>5, <1>6 DEF NoticeInvariant

-----------------------------------------------------------------------------
(* Each operation keeps what is known of the notifications                 *)

(* What is left to show of an operation.  The callbacks rely on this much: *)
(* no notification goes, and no notifier of a request changes its subject. *)
Carries == \A n \in Notifiers :
  notifier[n].pc # "idle" => notifier'[n].pc # "idle" /\ notifier'[n].notice = notifier[n].notice
CountsOn == faults' \in 0..MaxFaults /\ faults <= faults'
NoticesKept == NoticeInvariant' /\ Grows /\ CountsOn

LEMMA NotifierHas ==
  ASSUME NoticeInvariant, NEW n \in Notifiers
  PROVE  /\ notifier[n] \in NotifierType /\ NotifierFit(notifier[n])
         /\ notifier[n].pc # "idle" => notifier[n].notice \in Notices
         /\ notifier[n].pc \in Past => Exists(notifier[n].notice)
         /\ faults \in 0..MaxFaults /\ faults \in Nat
PROOF
  <1>1. notifier[n] \in NotifierType /\ NotifierFit(notifier[n]) /\ faults \in 0..MaxFaults
    BY DEF NoticeInvariant, NoticesTyped
  <1>2. notifier[n].pc \in Past => Exists(notifier[n].notice)
    BY DEF NoticeInvariant, NotifiersKnow, Past
  <1> QED
    BY <1>1, <1>2, NoticeAssumption DEF NotifierFit

LEMMA Counted ==
  ASSUME NoticeInvariant, UNCHANGED faults \/ \E f : Fault(f)
  PROVE  CountsOn
PROOF
  <1>1. faults \in 0..MaxFaults
    BY DEF NoticeInvariant, NoticesTyped
  <1> QED
    BY <1>1, NoticeAssumption DEF CountsOn, Fault

LEMMA MovedCarries ==
  ASSUME NEW n \in Notifiers, NEW pc, MovesTo(n, pc, notifier[n].notice), pc # "idle"
  PROVE  Carries
PROOF
  BY DEF MovesTo, Carries

LEMMA CreateKept ==
  ASSUME NoticeInvariant, NEW n \in Notifiers, CreateIfAbsent(n), NEW k, k = notifier[n].notice
  PROVE  NoticesKept /\ Carries
PROOF
  <1>1. notifier[n].pc = "create" /\ k \in Notices /\ notifier[n] \in NotifierType /\ NoticesTyped
    BY NotifierHas DEF CreateIfAbsent, NotifierAt, NoticeInvariant
  <1>2. UNCHANGED <<delivery, accepted>>
    BY DEF CreateIfAbsent
  <1>3. CountsOn
    BY Counted DEF CreateIfAbsent
  <1>4. CASE UNCHANGED faults /\ Exists(k) /\ UNCHANGED notice
             /\ Notify(n, k, IF notifier[n].again THEN "reserve" ELSE "ended", TRUE)
    <2> DEFINE pc == IF notifier[n].again THEN "reserve" ELSE "ended"
    <2>1. pc \in Working /\ pc \in Past /\ pc # "threw" /\ pc # "idle" /\ pc \notin {"send", "complete", "undo"}
      BY DEF Working, Past
    <2>2. Notify(n, k, pc, TRUE)
      BY <1>4
    <2> HIDE DEF pc
    <2>3. MovesTo(n, pc, k)
      BY <1>1, <2>1, <2>2, NotifyMoves
    <2>4. Grows /\ Exists(k)'
      BY <1>4, SameGrows DEF Exists
    <2>5. NoticeInvariant'
      BY <1>2, <1>3, <2>1, <2>3, <2>4, MovesQuietly DEF CountsOn
    <2> QED
      BY <1>3, <2>1, <2>3, <2>4, <2>5, MovedCarries DEF NoticesKept
  <1>5. CASE UNCHANGED notice /\ NotifierGoto(n, "threw")
    <2>1. MovesTo(n, "threw", k)
      BY <1>1, <1>5, GotoMoves DEF Working
    <2>2. Grows
      BY <1>5, SameGrows
    <2>4. NoticeInvariant'
      BY <1>2, <1>3, <2>1, <2>2, MovesQuietly DEF CountsOn, Past
    <2> QED
      BY <1>3, <2>1, <2>2, <2>4, MovedCarries DEF NoticesKept
  <1>6. CASE UNCHANGED faults /\ ~Exists(k) /\ notice' = [notice EXCEPT ![k].status = "RECORDED"]
             /\ Notify(n, k, "reserve", TRUE)
    <2> DEFINE v == [notice[k] EXCEPT !.status = "RECORDED"]
    <2>1. v \in NoticeType /\ v.status # "none"
      BY <1>1 DEF NoticesTyped, NoticeType, Status
    <2>2. notice' = [notice EXCEPT ![k] = v]
      BY <1>6
    <2> HIDE DEF v
    <2>3. Grows /\ Exists(k)'
      BY <1>1, <2>1, <2>2, StoredGrows
    <2>4. MovesTo(n, "reserve", k)
      BY <1>1, <1>6, NotifyMoves DEF Working
    <2>5. NoticeInvariant'
      BY <1>2, <1>3, <2>3, <2>4, MovesQuietly DEF CountsOn
    <2> QED
      BY <1>3, <2>3, <2>4, <2>5, MovedCarries DEF NoticesKept
  <1> QED
    BY <1>4, <1>5, <1>6 DEF CreateIfAbsent

LEMMA ReserveKept ==
  ASSUME NoticeInvariant, NEW n \in Notifiers, Reserve(n), NEW k, k = notifier[n].notice
  PROVE  NoticesKept /\ Carries
PROOF
  <1>1. notifier[n].pc = "reserve" /\ notifier[n].pc # "idle" /\ k \in Notices /\ NoticesTyped /\ Exists(k)
    BY NotifierHas DEF Reserve, NotifierAt, NoticeInvariant, Past
  <1>2. UNCHANGED <<notice, accepted>>
    BY DEF Reserve
  <1>3. CountsOn
    BY Counted DEF Reserve
  <1>4. Grows /\ Exists(k)'
    BY <1>1, <1>2, SameGrows DEF Exists
  <1>5. CASE UNCHANGED delivery /\ \E status \in Status : Report(n, status)
    <2>1. MovesTo(n, "report", k)
      BY <1>1, <1>5, ReportMoves
    <2>2. NoticeInvariant'
      BY <1>2, <1>3, <1>4, <1>5, <2>1, MovesQuietly DEF CountsOn
    <2> QED
      BY <1>3, <1>4, <2>1, <2>2, MovedCarries DEF NoticesKept
  <1>6. CASE Reserved(k) /\ delivery' = [delivery EXCEPT ![k] = "IN_FLIGHT"] /\ NotifierGoto(n, "send")
    <2>1. MovesTo(n, "send", k)
      BY <1>1, <1>6, GotoMoves DEF Working
    <2>2. delivery' \in [Notices -> {"none", "IN_FLIGHT", "COMPLETED"}] /\ delivery'[k] = "IN_FLIGHT"
          /\ \A j \in Notices : j # k => delivery'[j] = delivery[j]
      BY <1>1, <1>6 DEF NoticesTyped
    <2>3. \A m \in Notifiers : Delivering(m) /\ notifier[m].notice = k => m = n
      BY <1>6 DEF NoticeInvariant, DeliveryOwned, Reserved
    <2>4. accepted[k] <= faults /\ accepted[k] <= 1 + faults /\ accepted[k] \in Nat /\ faults \in Nat
      BY <1>1, <1>6, NotifierHas DEF NoticeInvariant, NoticesTyped, SendsBacked, OneProviderSend, Reserved
    <2>5. faults' \in Nat /\ faults <= faults'
      BY <1>3, NoticeAssumption DEF CountsOn
    <2>6. accepted'[k] <= faults' /\ accepted'[k] <= 1 + faults'
      BY <1>2, <2>4, <2>5
    <2>7. accepted' \in [Notices -> Nat]
      BY <1>1, <1>2 DEF NoticesTyped
    <2>8. NoticeInvariant'
      BY <1>1, <1>2, <1>3, <2>1, <2>2, <2>3, <2>6, <2>7, MovesDelivering DEF CountsOn
    <2> QED
      BY <1>3, <1>4, <2>1, <2>8, MovedCarries DEF NoticesKept
  <1> QED
    BY <1>5, <1>6 DEF Reserve, Status, Reported

(* Who delivers has the delivery to itself, and knows its account.         *)
LEMMA DeliveringHas ==
  ASSUME NoticeInvariant, NEW n \in Notifiers, NEW k, k = notifier[n].notice, Delivering(n)
  PROVE  /\ notifier[n].pc # "idle" /\ k \in Notices /\ Exists(k)
         /\ delivery[k] = "IN_FLIGHT"
         /\ \A m \in Notifiers : Delivering(m) /\ notifier[m].notice = k => m = n
         /\ accepted[k] \in Nat /\ faults \in Nat /\ accepted[k] <= 1 + faults
         /\ notifier[n].pc \in {"send", "undo"} => accepted[k] <= faults
         /\ delivery \in [Notices -> {"none", "IN_FLIGHT", "COMPLETED"}]
         /\ accepted \in [Notices -> Nat]
PROOF
  <1>1. notifier[n].pc # "idle" /\ k \in Notices /\ Exists(k) /\ faults \in Nat
    BY NotifierHas DEF Delivering, Past
  <1>2. delivery \in [Notices -> {"none", "IN_FLIGHT", "COMPLETED"}] /\ accepted \in [Notices -> Nat]
    BY DEF NoticeInvariant, NoticesTyped
  <1>3. delivery[k] = "IN_FLIGHT" /\ \A m \in Notifiers : Delivering(m) /\ notifier[m].notice = k => m = n
    BY DEF NoticeInvariant, DeliveryOwned
  <1>4. accepted[k] <= 1 + faults /\ (notifier[n].pc \in {"send", "undo"} => accepted[k] <= faults)
    BY <1>1 DEF NoticeInvariant, SendsBacked, OneProviderSend
  <1> QED
    BY <1>1, <1>2, <1>3, <1>4

LEMMA SendKept ==
  ASSUME NoticeInvariant, NEW n \in Notifiers, Send(n), NEW k, k = notifier[n].notice
  PROVE  NoticesKept /\ Carries
PROOF
  <1>1. notifier[n].pc = "send" /\ Delivering(n) /\ NoticesTyped /\ UNCHANGED <<notice, delivery>>
    BY DEF Send, NotifierAt, Delivering, NoticeInvariant
  <1>2. /\ notifier[n].pc # "idle" /\ k \in Notices /\ Exists(k)
        /\ delivery[k] = "IN_FLIGHT"
        /\ \A m \in Notifiers : Delivering(m) /\ notifier[m].notice = k => m = n
        /\ accepted[k] \in Nat /\ faults \in Nat /\ accepted[k] <= faults
        /\ delivery \in [Notices -> {"none", "IN_FLIGHT", "COMPLETED"}]
        /\ accepted \in [Notices -> Nat]
    BY <1>1, DeliveringHas
  <1>3. CountsOn /\ faults' \in Nat
    BY Counted, NoticeAssumption DEF Send, CountsOn
  <1>4. Grows
    BY <1>1, SameGrows
  <1>5. PICK pc \in {"complete", "undo"} :
          /\ NotifierGoto(n, pc)
          /\ UNCHANGED accepted \/ accepted' = [accepted EXCEPT ![k] = @ + 1]
          /\ pc = "undo" => faults' = faults + 1
    BY DEF Send, Fault
  <1>6. MovesTo(n, pc, k)
    BY <1>1, <1>2, <1>5, GotoMoves DEF Working
  <1>7. /\ accepted' \in [Notices -> Nat]
        /\ \A j \in Notices : j # k => accepted'[j] = accepted[j]
        /\ accepted'[k] <= accepted[k] + 1 /\ accepted'[k] \in Nat
    BY <1>2, <1>5
  <1>8. accepted'[k] <= 1 + faults' /\ (pc = "undo" => accepted'[k] <= faults')
    BY <1>2, <1>3, <1>5, <1>7 DEF CountsOn
  <1>9. NoticeInvariant'
    BY <1>1, <1>2, <1>3, <1>6, <1>7, <1>8, MovesDelivering DEF CountsOn
  <1> QED
    BY <1>3, <1>4, <1>6, <1>9, MovedCarries DEF NoticesKept

LEMMA CompleteKept ==
  ASSUME NoticeInvariant, NEW n \in Notifiers, CompleteDelivery(n), NEW k, k = notifier[n].notice
  PROVE  NoticesKept /\ Carries
PROOF
  <1>1. notifier[n].pc = "complete" /\ Delivering(n) /\ NoticesTyped /\ UNCHANGED <<notice, accepted>>
    BY DEF CompleteDelivery, NotifierAt, Delivering, NoticeInvariant
  <1>2. /\ notifier[n].pc # "idle" /\ k \in Notices /\ Exists(k)
        /\ delivery[k] = "IN_FLIGHT"
        /\ \A m \in Notifiers : Delivering(m) /\ notifier[m].notice = k => m = n
        /\ accepted[k] \in Nat /\ faults \in Nat /\ accepted[k] <= 1 + faults
        /\ delivery \in [Notices -> {"none", "IN_FLIGHT", "COMPLETED"}]
        /\ accepted \in [Notices -> Nat]
    BY <1>1, DeliveringHas
  <1>3. CountsOn /\ faults' \in Nat
    BY Counted, NoticeAssumption DEF CompleteDelivery, CountsOn
  <1>4. Grows
    BY <1>1, SameGrows
  <1>5. accepted'[k] = accepted[k] /\ accepted'[k] <= 1 + faults' /\ accepted' \in [Notices -> Nat]
    BY <1>1, <1>2, <1>3 DEF CountsOn
  <1>6. CASE delivery' = [delivery EXCEPT ![k] = "COMPLETED"] /\ Report(n, "ACCEPTED")
    <2>1. MovesTo(n, "report", k)
      BY <1>1, <1>2, <1>6, ReportMoves DEF Status
    <2>2. /\ delivery' \in [Notices -> {"none", "IN_FLIGHT", "COMPLETED"}] /\ delivery'[k] = "COMPLETED"
          /\ \A j \in Notices : j # k => delivery'[j] = delivery[j] /\ accepted'[j] = accepted[j]
      BY <1>1, <1>2, <1>6
    <2>3. NoticeInvariant'
      BY <1>1, <1>2, <1>3, <1>5, <2>1, <2>2, MovesDelivering DEF CountsOn
    <2> QED
      BY <1>3, <1>4, <2>1, <2>3, MovedCarries DEF NoticesKept
  <1>7. CASE UNCHANGED delivery /\ NotifierGoto(n, "undo") /\ Fault("storeError")
    <2>1. MovesTo(n, "undo", k)
      BY <1>1, <1>2, <1>7, GotoMoves DEF Working
    <2>2. accepted'[k] <= faults'
      BY <1>2, <1>5, <1>7 DEF Fault
    <2>3. NoticeInvariant'
      BY <1>1, <1>2, <1>3, <1>5, <1>7, <2>1, <2>2, MovesDelivering DEF CountsOn
    <2> QED
      BY <1>3, <1>4, <2>1, <2>3, MovedCarries DEF NoticesKept
  <1> QED
    BY <1>6, <1>7 DEF CompleteDelivery

LEMMA FailKept ==
  ASSUME NoticeInvariant, NEW n \in Notifiers, FailDelivery(n), NEW k, k = notifier[n].notice
  PROVE  NoticesKept /\ Carries
PROOF
  <1>1. notifier[n].pc = "undo" /\ Delivering(n) /\ NoticesTyped /\ UNCHANGED <<notice, accepted>>
    BY DEF FailDelivery, NotifierAt, Delivering, NoticeInvariant
  <1>2. /\ notifier[n].pc # "idle" /\ k \in Notices /\ Exists(k)
        /\ \A m \in Notifiers : Delivering(m) /\ notifier[m].notice = k => m = n
        /\ accepted[k] \in Nat /\ faults \in Nat /\ accepted[k] <= faults
        /\ delivery \in [Notices -> {"none", "IN_FLIGHT", "COMPLETED"}]
        /\ accepted \in [Notices -> Nat]
    BY <1>1, DeliveringHas
  <1>3. CountsOn /\ faults' \in Nat
    BY Counted, NoticeAssumption DEF FailDelivery, CountsOn
  <1>4. Grows
    BY <1>1, SameGrows
  <1>5. accepted'[k] <= faults' /\ accepted'[k] <= 1 + faults' /\ accepted' \in [Notices -> Nat]
    BY <1>1, <1>2, <1>3 DEF CountsOn
  <1>6. MovesTo(n, "report", k)
    BY <1>1, <1>2, ReportMoves DEF FailDelivery, Status
  <1>7. /\ delivery' \in [Notices -> {"none", "IN_FLIGHT", "COMPLETED"}]
        /\ \A j \in Notices : j # k => delivery'[j] = delivery[j] /\ accepted'[j] = accepted[j]
    BY <1>1, <1>2 DEF FailDelivery
  <1>8. NoticeInvariant'
    BY <1>1, <1>2, <1>3, <1>5, <1>6, <1>7, MovesDelivering DEF CountsOn
  <1> QED
    BY <1>3, <1>4, <1>6, <1>8, MovedCarries DEF NoticesKept

LEMMA UpdateKept ==
  ASSUME NoticeInvariant, NEW n \in Notifiers, UpdateDelivery(n), NEW k, k = notifier[n].notice
  PROVE  NoticesKept /\ Carries
PROOF
  <1>1. /\ notifier[n].pc = "report" /\ notifier[n].pc # "idle" /\ k \in Notices /\ NoticesTyped /\ Exists(k)
        /\ notifier[n].report \in Status /\ notifier[n].tries \in Nat
    BY NotifierHas DEF UpdateDelivery, NotifierAt, NoticeInvariant, Past, NotifierFit, NotifierType
  <1>2. UNCHANGED <<delivery, accepted>>
    BY DEF UpdateDelivery
  <1>3. CountsOn
    BY Counted DEF UpdateDelivery
  <1>4. CASE /\ notice' = [notice EXCEPT ![k].status = notifier[n].report, ![k].attempts = notifier[n].tries,
                                         ![k].deliveryId = @ \/ notifier[n].report = "ACCEPTED"]
             /\ NotifierGoto(n, "ended")
    <2> DEFINE id == notice[k].deliveryId \/ notifier[n].report = "ACCEPTED"
    <2> DEFINE v == [notice[k] EXCEPT !.status = notifier[n].report, !.attempts = notifier[n].tries,
                                      !.deliveryId = id]
    <2>1. id \in BOOLEAN
      OBVIOUS
    <2>2. notice \in [Notices -> NoticeType] /\ notice[k] \in NoticeType
      BY <1>1 DEF NoticesTyped
    <2>3. notice' = [notice EXCEPT ![k] = v]
      BY <1>4, <2>2 DEF NoticeType
    <2>4. v \in NoticeType /\ v.status # "none"
      <3> HIDE DEF id
      <3>1. notifier[n].report \in Status /\ notifier[n].report # "none" /\ notifier[n].tries \in Nat
        BY <1>1 DEF Status, Reported
      <3> QED
        BY <2>1, <2>2, <3>1 DEF NoticeType
    <2> HIDE DEF v
    <2>5. Grows /\ Exists(k)'
      BY <1>1, <2>3, <2>4, StoredGrows
    <2>6. MovesTo(n, "ended", k)
      BY <1>1, <1>4, GotoMoves DEF Working
    <2>7. NoticeInvariant'
      BY <1>2, <1>3, <2>5, <2>6, MovesQuietly DEF CountsOn
    <2> QED
      BY <1>3, <2>5, <2>6, <2>7, MovedCarries DEF NoticesKept
  <1>5. CASE UNCHANGED notice /\ Fault("storeError") /\ Report(n, "FAILED")
    <2>1. Grows /\ Exists(k)'
      BY <1>1, <1>5, SameGrows DEF Exists
    <2>2. MovesTo(n, "report", k)
      BY <1>1, <1>5, ReportMoves DEF Status
    <2>3. NoticeInvariant'
      BY <1>2, <1>3, <2>1, <2>2, MovesQuietly DEF CountsOn
    <2> QED
      BY <1>3, <2>1, <2>2, <2>3, MovedCarries DEF NoticesKept
  <1>6. CASE UNCHANGED notice /\ Fault("storeError") /\ NotifierGoto(n, "threw")
    <2>1. Grows
      BY <1>6, SameGrows
    <2>2. MovesTo(n, "threw", k)
      BY <1>1, <1>6, GotoMoves DEF Working
    <2>4. NoticeInvariant'
      BY <1>2, <1>3, <2>1, <2>2, MovesQuietly DEF CountsOn, Past
    <2> QED
      BY <1>3, <2>1, <2>2, <2>4, MovedCarries DEF NoticesKept
  <1> QED
    BY <1>4, <1>5, <1>6 DEF UpdateDelivery

LEMMA NotifierStepKept ==
  ASSUME NoticeInvariant, NEW n \in Notifiers, NotifierStep(n)
  PROVE  NoticesKept /\ Carries
PROOF
  <1>1. PICK k : k = notifier[n].notice
    OBVIOUS
  <1> QED
    BY <1>1, CreateKept, ReserveKept, SendKept, CompleteKept, FailKept, UpdateKept DEF NotifierStep

(* An idle notifier starts, with a notification it may find on record.     *)
LEMMA StartKept ==
  ASSUME NoticeInvariant, NEW n \in Notifiers, NotifierAt(n, "idle"), NEW k \in Notices,
         NEW pc \in {"create", "reserve"}, NEW again \in BOOLEAN, Notify(n, k, pc, again),
         pc = "reserve" => Exists(k), UNCHANGED <<notice, delivery, accepted, faults>>
  PROVE  NoticesKept /\ Carries /\ MovesTo(n, pc, k)
PROOF
  <1>1. NoticesTyped /\ CountsOn
    BY Counted DEF NoticeInvariant
  <1>2. Grows /\ (pc = "reserve" => Exists(k)')
    BY SameGrows DEF Exists
  <1>3. MovesTo(n, pc, k)
    BY <1>1, NotifyMoves DEF Working
  <1>4. NoticeInvariant'
    BY <1>1, <1>2, <1>3, MovesQuietly DEF CountsOn, Past
  <1>5. Carries
    BY <1>3 DEF MovesTo, Carries, NotifierAt
  <1> QED
    BY <1>1, <1>2, <1>3, <1>4, <1>5 DEF NoticesKept

(* One that ends or crashes leaves everything else as it was.              *)
LEMMA RestKept ==
  ASSUME NoticeInvariant, NEW n \in Notifiers, notifier' = [notifier EXCEPT ![n] = Idle],
         UNCHANGED <<notice, delivery, accepted>>, UNCHANGED faults \/ \E f : Fault(f)
  PROVE  NoticesKept /\ MovesTo(n, "idle", "none")
PROOF
  <1>1. NoticesTyped /\ CountsOn
    BY Counted DEF NoticeInvariant
  <1>2. Grows
    BY SameGrows
  <1>3. MovesTo(n, "idle", "none")
    BY <1>1, RestMoves
  <1>4. NoticeInvariant'
    BY <1>1, <1>2, <1>3, MovesQuietly DEF CountsOn, Past
  <1> QED
    BY <1>1, <1>2, <1>3, <1>4 DEF NoticesKept

(* What leaves the notifiers alone: a notification may only be rewritten.  *)
LEMMA OthersKept ==
  ASSUME NoticeInvariant, UNCHANGED <<delivery, accepted, notifier>>, Grows,
         UNCHANGED faults \/ \E f : Fault(f)
  PROVE  NoticesKept /\ Carries
PROOF
  <1>0. CountsOn
    BY Counted
  <1>1. faults \in Nat /\ faults' \in Nat /\ faults <= faults' /\ faults' \in 0..MaxFaults
    BY <1>0, NoticeAssumption DEF CountsOn, NoticeInvariant, NoticesTyped
  <1>2. NoticesTyped' /\ DeliveryOwned'
    BY <1>1 DEF NoticeInvariant, NoticesTyped, DeliveryOwned, Delivering, Grows
  <1>3. SendsBacked'
    <2>1. ASSUME NEW k \in Notices
          PROVE  accepted[k] <= 1 + faults' /\ (delivery[k] = "none" => accepted[k] <= faults')
      <3>1. accepted[k] \in Nat /\ accepted[k] <= 1 + faults /\ (delivery[k] = "none" => accepted[k] <= faults)
        BY DEF NoticeInvariant, NoticesTyped, SendsBacked, OneProviderSend
      <3> QED
        BY <1>1, <3>1
    <2>2. ASSUME NEW n \in Notifiers, notifier[n].pc \in {"send", "undo"}
          PROVE  accepted[notifier[n].notice] <= faults'
      <3>1. notifier[n].notice \in Notices
        BY <2>2, NotifierHas
      <3>2. accepted[notifier[n].notice] \in Nat /\ accepted[notifier[n].notice] <= faults
        BY <2>2, <3>1 DEF NoticeInvariant, NoticesTyped, SendsBacked
      <3> QED
        BY <1>1, <3>2
    <2> QED
      BY <2>1, <2>2 DEF SendsBacked, OneProviderSend
  <1>4. NotifiersKnow'
    <2>1. ASSUME NEW n \in Notifiers
          PROVE  notifier[n].pc \in Past => notice'[notifier[n].notice] # NoNotice
      <3>1. notifier[n].pc \in Past => notifier[n].notice \in Notices /\ Exists(notifier[n].notice)
        BY NotifierHas DEF Past
      <3>2. notifier[n].pc \in Past => notice'[notifier[n].notice] # NoNotice
        BY <3>1 DEF Grows, Exists
      <3> QED
        BY <3>2
    <2> QED
      BY <2>1 DEF NotifiersKnow, Past, Exists
  <1>5. Carries
    BY DEF Carries
  <1> QED
    BY <1>0, <1>2, <1>3, <1>4, <1>5 DEF NoticesKept, NoticeInvariant

LEMMA RecordKept ==
  ASSUME NoticeInvariant, EventInvariant, NEW k \in Notices, RecordTransport(k),
         UNCHANGED <<delivery, accepted, notifier>>
  PROVE  NoticesKept /\ Carries
PROOF
  <1>1. event[k] \in EventType /\ EventFit(event[k])
    BY DEF EventInvariant
  <1>2. event[k].posted \in Reported
    BY <1>1 DEF EventType, EventFit, RecordTransport
  <1>3. CASE notice' = [notice EXCEPT ![k].status = event[k].posted]
    <2> DEFINE v == [notice[k] EXCEPT !.status = event[k].posted]
    <2>1. v \in NoticeType /\ v.status # "none"
      BY <1>2 DEF NoticeInvariant, NoticesTyped, NoticeType, Status, Reported
    <2>2. notice' = [notice EXCEPT ![k] = v]
      BY <1>3
    <2> HIDE DEF v
    <2>3. Grows
      BY <2>1, <2>2, StoredGrows
    <2> QED
      BY <2>3, OthersKept DEF RecordTransport
  <1>4. CASE UNCHANGED notice
    BY <1>4, SameGrows, OthersKept DEF RecordTransport
  <1> QED
    BY <1>3, <1>4 DEF RecordTransport

LEMMA EventStepKept ==
  ASSUME NoticeInvariant, EventInvariant, NEW k \in Notices, EventStep(k) \/ CrashEvent(k)
  PROVE  NoticesKept /\ Carries /\ EventInvariant'
PROOF
  <1>1. EventInvariant'
    BY EventsStep
  <1>2. CASE UNCHANGED noticeVars /\ (UNCHANGED faults \/ \E f : Fault(f))
    BY <1>1, <1>2, SameGrows, OthersKept DEF noticeVars
  <1>3. CASE RecordTransport(k) /\ UNCHANGED <<delivery, accepted, notifier>>
    BY <1>1, <1>3, RecordKept
  <1>4. CASE EventStep(k) /\ UNCHANGED noticeVars
    <2>1. UNCHANGED faults \/ \E f : Fault(f)
      BY <1>4 DEF EventStep, Emit, Webhook, RepeatWebhook, ReserveEvent, ScheduleInbound, MarkEvent, StartTask, MarkTask,
                  RecordTransport
    <2> QED
      BY <1>2, <1>4, <2>1
  <1> QED
    BY <1>2, <1>3, <1>4 DEF EventStep, CrashEvent

(* A request's notifier is never moved by anything but its own steps.      *)
RequestsCarried == \A r \in Requests :
  notifier[r].pc # "idle" => notifier'[r].pc # "idle" /\ notifier'[r].notice = notifier[r].notice

LEMMA NoticeStepKept ==
  ASSUME NoticeInvariant, EventInvariant, NoticeNext
  PROVE  NoticesKept /\ EventInvariant' /\ RequestsCarried
PROOF
  <1>0. Carries => RequestsCarried
    BY CallbackAssumption DEF Carries, RequestsCarried
  <1>1. UNCHANGED event => EventInvariant'
    BY DEF EventInvariant
  <1>2. CASE \E n \in Notifiers : NotifierStep(n) /\ UNCHANGED event
    BY <1>0, <1>1, <1>2, NotifierStepKept
  <1>3. ASSUME NEW n \in Notifiers \ Requests, Rest(n) \/ CrashNotifier(n)
        PROVE  NoticesKept /\ EventInvariant' /\ RequestsCarried
    <2>1. /\ notifier' = [notifier EXCEPT ![n] = Idle] /\ UNCHANGED <<notice, delivery, accepted, event>>
          /\ UNCHANGED faults \/ \E f : Fault(f)
      BY <1>3 DEF Rest, CrashNotifier
    <2>2. NoticesKept /\ MovesTo(n, "idle", "none")
      BY <2>1, RestKept
    <2>3. RequestsCarried
      BY <2>2, CallbackAssumption DEF MovesTo, RequestsCarried
    <2> QED
      BY <1>1, <2>1, <2>2, <2>3
  <1>4. ASSUME NEW n \in Notifiers, Raise(n, "NEEDS_ATTENTION"), UNCHANGED event
        PROVE  NoticesKept /\ EventInvariant' /\ RequestsCarried
    <2>1. NotifierAt(n, "idle") /\ Notify(n, "NEEDS_ATTENTION", "create", FALSE)
          /\ UNCHANGED <<notice, delivery, accepted, faults>> /\ "NEEDS_ATTENTION" \in Notices
      BY <1>4, CallbackAssumption DEF Raise
    <2>2. NoticesKept /\ Carries
      BY <2>1, StartKept
    <2> QED
      BY <1>0, <1>1, <1>4, <2>2
  <1>5. ASSUME NEW n \in Notifiers, NEW k \in Notices, Retry(n, k), UNCHANGED event
        PROVE  NoticesKept /\ EventInvariant' /\ RequestsCarried
    <2>1. NotifierAt(n, "idle") /\ Notify(n, k, "reserve", TRUE)
          /\ UNCHANGED <<notice, delivery, accepted, faults>>
      BY <1>5 DEF Retry
    <2>2. Exists(k)
      <3>1. notice[k].status # "none"
        BY <1>5 DEF Retry
      <3> QED
        BY <3>1 DEF Exists, NoNotice
    <2>3. NoticesKept /\ Carries
      BY <2>1, <2>2, StartKept
    <2> QED
      BY <1>0, <1>1, <1>5, <2>3
  <1>6. ASSUME NEW k \in Notices, EventStep(k) \/ CrashEvent(k)
        PROVE  NoticesKept /\ EventInvariant' /\ RequestsCarried
    BY <1>0, <1>6, EventStepKept
  <1> QED
    BY <1>2, <1>3, <1>4, <1>5, <1>6 DEF NoticeNext

-----------------------------------------------------------------------------
(* A request's step                                                        *)

RequestMoves(r, pc, k) ==
  /\ request' \in [Requests -> RequestType]
  /\ RequestFit(request'[r]) /\ request'[r].pc = pc
  /\ <<request'[r].callback, request'[r].attempt>> = k
  /\ \A q \in Requests : q # r => request'[q] = request[q]

NoKey == <<"none", 0>>

LEMMA RequestStored ==
  ASSUME CallbacksTyped, NEW r \in Requests, NEW x \in RequestType, RequestFit(x),
         request' = [request EXCEPT ![r] = x]
  PROVE  RequestMoves(r, x.pc, <<x.callback, x.attempt>>)
PROOF
  <1>1. request' \in [Requests -> RequestType] /\ request'[r] = x
        /\ \A q \in Requests : q # r => request'[q] = request[q]
    BY DEF CallbacksTyped
  <1> QED
    BY <1>1 DEF RequestMoves

LEMMA RequestGoes ==
  ASSUME CallbacksTyped, NEW r \in Requests, request[r].pc # "idle", NEW k, k = Key(r),
         NEW pc \in RequestPcs \ {"idle", "fail"}, RequestGoto(r, pc)
  PROVE  RequestMoves(r, pc, k)
PROOF
  <1>1. request[r] \in RequestType /\ RequestFit(request[r])
    BY DEF CallbacksTyped
  <1> DEFINE x == [request[r] EXCEPT !.pc = pc]
  <1>2. x \in RequestType /\ x.pc = pc /\ x.callback = request[r].callback /\ x.attempt = request[r].attempt
    BY <1>1 DEF RequestType
  <1>3. RequestFit(x)
    BY <1>1, <1>2 DEF RequestFit
  <1>4. request' = [request EXCEPT ![r] = x]
    BY DEF RequestGoto
  <1> HIDE DEF x
  <1>5. RequestMoves(r, x.pc, <<x.callback, x.attempt>>)
    BY <1>2, <1>3, <1>4, RequestStored
  <1> QED
    BY <1>2, <1>5 DEF Key

LEMMA RequestThrows ==
  ASSUME CallbacksTyped, NEW r \in Requests, request[r].pc # "idle", NEW k, k = Key(r),
         NEW why \in {"again", "invalid"}, Throw(r, why)
  PROVE  RequestMoves(r, "fail", k)
PROOF
  <1>1. request[r] \in RequestType /\ RequestFit(request[r]) /\ request \in [Requests -> RequestType]
    BY DEF CallbacksTyped
  <1> DEFINE x == [request[r] EXCEPT !.pc = "fail", !.why = why]
  <1>2. x \in RequestType /\ x.pc = "fail" /\ x.callback = request[r].callback
        /\ x.attempt = request[r].attempt /\ x.why = why
    BY <1>1 DEF RequestType, RequestPcs
  <1>3. RequestFit(x)
    BY <1>1, <1>2 DEF RequestFit
  <1>4. request' = [request EXCEPT ![r] = x]
    BY <1>1 DEF Throw
  <1> HIDE DEF x
  <1>5. RequestMoves(r, x.pc, <<x.callback, x.attempt>>)
    BY <1>2, <1>3, <1>4, RequestStored
  <1> QED
    BY <1>2, <1>5 DEF Key

LEMMA RequestEnds ==
  ASSUME CallbacksTyped, NEW r \in Requests, NEW k \in Keys, k = Key(r),
         NEW what \in Acks \cup Failures, Answer(r, what)
  PROVE  /\ RequestMoves(r, "idle", NoKey)
         /\ told' \in [Keys -> SUBSET (Acks \cup Failures)]
         /\ \A j \in Keys : told'[j] = IF j = k THEN told[j] \cup {what} ELSE told[j]
PROOF
  <1>1. /\ NoRequest \in RequestType /\ RequestFit(NoRequest) /\ NoRequest.pc = "idle"
        /\ <<NoRequest.callback, NoRequest.attempt>> = NoKey
    <2>1. 0 \in 0..MaxAttempts /\ 0 \in 0..MaxVersion
      BY CallbackAssumption
    <2> QED
      BY <2>1 DEF NoRequest, NoKey, RequestType, RequestPcs, RequestFit
  <1>2. request' = [request EXCEPT ![r] = NoRequest] /\ told' = [told EXCEPT ![k] = @ \cup {what}]
    BY DEF Answer
  <1>3. RequestMoves(r, "idle", NoKey)
    <2>1. RequestMoves(r, NoRequest.pc, <<NoRequest.callback, NoRequest.attempt>>)
      BY <1>1, <1>2, RequestStored
    <2> QED
      BY <1>1, <2>1
  <1>4. /\ told' \in [Keys -> SUBSET (Acks \cup Failures)]
        /\ \A j \in Keys : told'[j] = IF j = k THEN told[j] \cup {what} ELSE told[j]
    BY <1>2 DEF CallbacksTyped
  <1> QED
    BY <1>3, <1>4

-----------------------------------------------------------------------------
(* What is left to show of it                                              *)

Busy(pc) == pc \notin {"idle", "reserve"}
NoticeCarried(r) == notifier[r].pc # "idle" => notifier'[r].pc # "idle" /\ notifier'[r].notice = notifier[r].notice

CalledType == [Callbacks -> 0..MaxAttempts]
ToldType == [Keys -> SUBSET (Acks \cup Failures)]
DedupeType == [Keys -> {"none", "IN_FLIGHT", "COMPLETED"}]
MissionType == [state: {"active", "halted", "DONE"}, version: 1..MaxVersion]

(* No answer is taken back; a new one, and a new record, says what is so.  *)
AttemptsKept(pc, k) ==
  /\ called' \in CalledType /\ told' \in ToldType /\ dedupe' \in DedupeType
  /\ \A j \in Keys :
       /\ told[j] \subseteq told'[j]
       /\ dedupe'[j] = "COMPLETED" \/ "done" \in told'[j] =>
            dedupe[j] = "COMPLETED" \/ "done" \in told[j] \/ Settled(j[1])
       /\ dedupe'[j] = "IN_FLIGHT" \/ "inFlight" \in told'[j] =>
            dedupe[j] = "IN_FLIGHT" \/ "inFlight" \in told[j] \/ (Busy(pc) /\ j = k)

(* The mission and its evidence only grow, and a completion is promised.   *)
MissionKept(pc, k) ==
  /\ mission' \in MissionType /\ evidence \subseteq evidence' /\ evidence' \subseteq Callbacks
  /\ mission'.state = "DONE" =>
       \/ mission.state = "DONE"
       \/ Busy(pc) /\ k \in Keys /\ Accepted(outcome[k[1]]) /\ k[1] \in evidence'

(* Where it goes it has what it needs there, ...                           *)
StepsOn(r, pc, k) ==
  /\ pc \in {"raise", "notify", "complete"} => k[1] \in evidence'
  /\ pc = "complete" => Settled(k[1])'
  /\ pc = "notify" => notifier'[r].pc # "idle" /\ notifier'[r].notice = NoticeOf(outcome[k[1]])

(* ... and it does not leave its attempt before it is dealt with, or       *)
(* answered that it failed.                                                *)
LeavesOn(r, pc, k, old) ==
  Busy(request[r].pc) => (Busy(pc) /\ k = old) \/ Failed(old)' \/ Settled(old[1])'

LEMMA SettledStays ==
  ASSUME Grows, UNCHANGED outcome, evidence \subseteq evidence', NEW c, Settled(c)
  PROVE  Settled(c)'
PROOF
  <1>1. NoticeOf(outcome[c]) \in Notices
    BY CallbackAssumption DEF NoticeOf
  <1>2. Exists(NoticeOf(outcome[c])) => notice'[NoticeOf(outcome[c])] # NoNotice
    BY <1>1 DEF Grows, Exists
  <1> QED
    BY <1>2 DEF Settled, Exists, NoticeOf, Accepted, Conflict, Reasons

LEMMA RequestKeeps ==
  ASSUME CallbackInvariant, NEW r \in Requests, NEW pc, NEW k, RequestMoves(r, pc, k), NEW old, old = Key(r),
         UNCHANGED outcome, NoticesKept, EventInvariant', \A q \in Requests : q # r => NoticeCarried(q),
         AttemptsKept(pc, k), MissionKept(pc, k), StepsOn(r, pc, k), LeavesOn(r, pc, k, old)
  PROVE  CallbackInvariant'
PROOF
  <1>1. /\ request'[r].pc = pc /\ <<request'[r].callback, request'[r].attempt>> = k /\ k[1] = request'[r].callback
        /\ outcome' = outcome /\ \A q \in Requests : q # r => request'[q] = request[q]
    BY DEF RequestMoves
  <1>2. CallbacksTyped'
    <2>1. ASSUME NEW q \in Requests PROVE RequestFit(request'[q])
      BY <1>1 DEF RequestMoves, CallbackInvariant, CallbacksTyped
    <2>2. \A q \in Requests : RequestFit(request[q])'
      BY <2>1 DEF RequestFit, NoRequest
    <2> QED
      BY <2>1, <2>2 DEF CallbackInvariant, CallbacksTyped, RequestMoves, AttemptsKept, CalledType, ToldType,
                        DedupeType, MissionKept, MissionType
  <1>3. /\ Grows /\ evidence \subseteq evidence'
        /\ \A c : Settled(c) => Settled(c)'
    <2>1. Grows /\ evidence \subseteq evidence'
      BY DEF NoticesKept, MissionKept
    <2> QED
      BY <2>1, SettledStays
  <1>4. RequestsRecorded'
    <2> SUFFICES ASSUME NEW q \in Requests, NEW c, c = request'[q].callback
                 PROVE  /\ request'[q].pc \in {"raise", "notify", "complete"} => c \in evidence'
                        /\ request'[q].pc = "complete" => Settled(c)'
      BY DEF RequestsRecorded, Settled, Exists, NoticeOf, Accepted, Conflict, Reasons
    <2>1. CASE q = r
      BY <1>1, <2>1 DEF StepsOn
    <2>2. CASE q # r
      <3>1. request'[q] = request[q] /\ c = request[q].callback
        BY <1>1, <2>2
      <3>2. /\ request[q].pc \in {"raise", "notify", "complete"} => c \in evidence
            /\ request[q].pc = "complete" => Settled(c)
        BY <3>1 DEF CallbackInvariant, RequestsRecorded
      <3> QED
        BY <1>3, <3>1, <3>2
    <2> QED
      BY <2>1, <2>2
  <1>5. RequestsServed'
    <2> SUFFICES ASSUME NEW q \in Requests, request'[q].pc = "notify"
                 PROVE  notifier'[q].pc # "idle" /\ notifier'[q].notice = NoticeOf(outcome[request'[q].callback])
      BY <1>1 DEF RequestsServed, Body, NoticeOf, Accepted, Reasons
    <2>1. CASE q = r
      BY <1>1, <2>1 DEF StepsOn
    <2>2. CASE q # r
      <3>1. request'[q] = request[q] /\ notifier[q].pc # "idle" /\ notifier[q].notice = NoticeOf(outcome[request[q].callback])
        BY <1>1, <2>2 DEF CallbackInvariant, RequestsServed, Body
      <3> QED
        BY <2>2, <3>1 DEF NoticeCarried
    <2> QED
      BY <2>1, <2>2
  <1>6. ASSUME NEW j \in Keys, AtWork(j) \/ Failed(j)
        PROVE  AtWork(j)' \/ Failed(j)' \/ Settled(j[1])'
    <2>1. CASE Failed(j)
      BY <2>1 DEF AttemptsKept, Failed
    <2>2. ASSUME NEW q \in Requests, Busy(request[q].pc), Key(q) = j
          PROVE  AtWork(j)' \/ Failed(j)' \/ Settled(j[1])'
      <3>1. CASE q # r
        BY <1>1, <2>2, <3>1 DEF AtWork, Busy, Key
      <3>2. CASE q = r
        <4>1. j = old /\ ((Busy(pc) /\ k = old) \/ Failed(old)' \/ Settled(old[1])')
          BY <2>2, <3>2 DEF LeavesOn
        <4>2. Busy(pc) /\ k = j => AtWork(j)'
          BY <1>1 DEF AtWork, Busy, Key
        <4> QED
          BY <4>1, <4>2
      <3> QED
        BY <3>1, <3>2
    <2> QED
      BY <1>6, <2>1, <2>2 DEF AtWork, Busy
  <1>7. AttemptsBacked'
    <2> SUFFICES ASSUME NEW j \in Keys
                 PROVE  /\ dedupe'[j] = "COMPLETED" \/ "done" \in told'[j] => Settled(j[1])'
                        /\ dedupe'[j] = "IN_FLIGHT" \/ "inFlight" \in told'[j] => Held(j)'
      BY DEF AttemptsBacked
    <2>1. dedupe'[j] = "COMPLETED" \/ "done" \in told'[j] => Settled(j[1])
      BY DEF AttemptsKept, CallbackInvariant, AttemptsBacked
    <2>2. dedupe'[j] = "IN_FLIGHT" \/ "inFlight" \in told'[j] => Held(j) \/ (Busy(pc) /\ j = k)
      BY DEF AttemptsKept, CallbackInvariant, AttemptsBacked
    <2>3. Busy(pc) /\ j = k => AtWork(j)'
      BY <1>1 DEF AtWork, Busy, Key
    <2>4. Held(j) => Held(j)'
      BY <1>3, <1>6 DEF Held, Settled
    <2> QED
      BY <1>3, <2>1, <2>2, <2>3, <2>4 DEF Held
  <1>8. CompletionBacked'
    <2> SUFFICES ASSUME mission'.state = "DONE"
                 PROVE  Exists("MISSION_COMPLETED")' \/ \E j \in Keys : Promised(j)'
      BY DEF CompletionBacked
    <2>1. CASE Busy(pc) /\ k \in Keys /\ Accepted(outcome[k[1]]) /\ k[1] \in evidence'
      <3>1. AtWork(k)'
        BY <1>1, <2>1 DEF AtWork, Busy, Key
      <3> QED
        BY <1>1, <2>1, <3>1 DEF Promised, Accepted, Reasons
    <2>2. ASSUME NEW j \in Keys, Promised(j) PROVE Exists("MISSION_COMPLETED")' \/ Promised(j)'
      <3>1. Accepted(outcome[j[1]]) /\ j[1] \in evidence' /\ (AtWork(j)' \/ Failed(j)' \/ Settled(j[1])')
        BY <1>3, <1>6, <2>2 DEF Promised
      <3>2. Settled(j[1])' => Exists("MISSION_COMPLETED")'
        BY <1>1, <3>1 DEF Settled, NoticeOf, Accepted, Reasons
      <3> QED
        BY <1>1, <3>1, <3>2 DEF Promised, Accepted, Reasons
    <2>3. Exists("MISSION_COMPLETED") => Exists("MISSION_COMPLETED")'
      BY <1>3, CallbackAssumption DEF Grows
    <2> QED
      BY <2>1, <2>2, <2>3 DEF MissionKept, CallbackInvariant, CompletionBacked
  <1> QED
    BY <1>2, <1>4, <1>5, <1>7, <1>8 DEF CallbackInvariant, NoticesKept

-----------------------------------------------------------------------------
(* Each operation of a request                                             *)

(* Most of them leave the notifications alone, ...                         *)
LEMMA NoticesAlone ==
  ASSUME CallbackInvariant, UNCHANGED <<noticeVars, event>>, UNCHANGED faults \/ \E f : Fault(f)
  PROVE  NoticesKept /\ EventInvariant' /\ \A q \in Requests : NoticeCarried(q)
PROOF
  <1>1. NoticeInvariant /\ EventInvariant
    BY DEF CallbackInvariant
  <1>2. Grows
    BY <1>1, SameGrows DEF noticeVars
  <1>3. NoticesKept
    BY <1>1, <1>2, OthersKept DEF noticeVars
  <1>4. EventInvariant'
    BY <1>1 DEF EventInvariant
  <1> QED
    BY <1>3, <1>4 DEF noticeVars, NoticeCarried

(* ... or the answers and the attempts on record, or the mission.          *)
LEMMA AttemptsAlone ==
  ASSUME CallbackInvariant, UNCHANGED <<called, told, dedupe>>, NEW pc, NEW k
  PROVE  AttemptsKept(pc, k)
PROOF
  BY DEF CallbackInvariant, CallbacksTyped, AttemptsKept, CalledType, ToldType, DedupeType

LEMMA MissionAlone ==
  ASSUME CallbackInvariant, UNCHANGED <<mission, evidence>>, NEW pc, NEW k
  PROVE  MissionKept(pc, k)
PROOF
  BY DEF CallbackInvariant, CallbacksTyped, MissionKept, MissionType

LEMMA RequestHas ==
  ASSUME CallbackInvariant, NEW r \in Requests, request[r].pc # "idle", NEW k, k = Key(r)
  PROVE  /\ CallbacksTyped
         /\ request[r] \in RequestType /\ RequestFit(request[r])
         /\ k \in Keys /\ k[1] = request[r].callback /\ k[1] \in Callbacks /\ Body(r) = outcome[k[1]]
         /\ request[r].pc \in {"raise", "notify", "complete"} => k[1] \in evidence
         /\ request[r].pc = "complete" => Settled(k[1])
PROOF
  <1>1. CallbacksTyped /\ request[r] \in RequestType /\ RequestFit(request[r])
    BY DEF CallbackInvariant, CallbacksTyped
  <1>2. k \in Keys /\ k[1] = request[r].callback /\ k[1] \in Callbacks
    BY <1>1 DEF RequestFit, Key, Keys
  <1> QED
    BY <1>1, <1>2 DEF Body, CallbackInvariant, RequestsRecorded

(* A request that starts takes up an attempt the merchant made.            *)
LEMMA CallKept ==
  ASSUME CallbackInvariant, NEW r \in Requests, NEW c \in Callbacks, Call(r, c), NEW old, old = Key(r)
  PROVE  CallbackInvariant'
PROOF
  <1>1. NoticesKept /\ EventInvariant' /\ \A q \in Requests : NoticeCarried(q)
    BY NoticesAlone DEF Call
  <1>2. called \in CalledType /\ CallbacksTyped
    BY DEF CallbackInvariant, CallbacksTyped, CalledType
  <1>3. PICK a \in 1..MaxAttempts :
          /\ called' = called \/ called' = [called EXCEPT ![c] = a]
          /\ request' = [request EXCEPT ![r] =
               [NoRequest EXCEPT !.pc = "reserve", !.callback = c, !.attempt = a]]
    BY DEF Call
  <1>4. a \in 0..MaxAttempts /\ 0 \in 0..MaxAttempts /\ 0 \in 0..MaxVersion
    BY CallbackAssumption
  <1> DEFINE x == [NoRequest EXCEPT !.pc = "reserve", !.callback = c, !.attempt = a]
  <1>5. x \in RequestType /\ RequestFit(x) /\ x.pc = "reserve" /\ x.callback = c /\ x.attempt = a
    <2>1. NoRequest \in RequestType
      BY <1>4 DEF NoRequest, RequestType, RequestPcs
    <2>2. ASSUME NEW y \in RequestType
          PROVE  /\ [y EXCEPT !.pc = "reserve", !.callback = c, !.attempt = a] \in RequestType
                 /\ RequestFit([y EXCEPT !.pc = "reserve", !.callback = c, !.attempt = a])
                 /\ [y EXCEPT !.pc = "reserve", !.callback = c, !.attempt = a].pc = "reserve"
                 /\ [y EXCEPT !.pc = "reserve", !.callback = c, !.attempt = a].callback = c
                 /\ [y EXCEPT !.pc = "reserve", !.callback = c, !.attempt = a].attempt = a
      BY <1>4 DEF RequestType, RequestPcs, RequestFit
    <2> QED
      BY <2>1, <2>2
  <1>6. request' = [request EXCEPT ![r] = x]
    BY <1>3
  <1> HIDE DEF x
  <1>7. RequestMoves(r, x.pc, <<x.callback, x.attempt>>)
    BY <1>2, <1>5, <1>6, RequestStored
  <1> DEFINE k == <<c, a>>
  <1>8. RequestMoves(r, "reserve", k)
    BY <1>5, <1>7
  <1>9. AttemptsKept("reserve", k)
    <2>1. called' \in CalledType
      BY <1>2, <1>3, <1>4 DEF CalledType
    <2> QED
      BY <2>1 DEF Call, AttemptsKept, CallbackInvariant, CallbacksTyped, ToldType, DedupeType
  <1>10. MissionKept("reserve", k) /\ UNCHANGED outcome
    BY MissionAlone DEF Call
  <1>11. StepsOn(r, "reserve", k) /\ LeavesOn(r, "reserve", k, old)
    BY DEF StepsOn, LeavesOn, Busy, Call, RequestAt
  <1> HIDE DEF k
  <1> QED
    BY <1>1, <1>8, <1>9, <1>10, <1>11, RequestKeeps

(* An attempt is taken up with its record under way; one on record is      *)
(* acknowledged with what its record says.                                 *)
LEMMA ReserveCallbackKept ==
  ASSUME CallbackInvariant, NEW r \in Requests, ReserveCallback(r), NEW k, k = Key(r)
  PROVE  CallbackInvariant'
PROOF
  <1>1. NoticesKept /\ EventInvariant' /\ \A q \in Requests : NoticeCarried(q)
    BY NoticesAlone DEF ReserveCallback
  <1>2. /\ request[r].pc = "reserve" /\ request[r].pc # "idle" /\ CallbacksTyped /\ k \in Keys
    BY RequestHas DEF ReserveCallback, RequestAt
  <1>3. UNCHANGED <<outcome, called, evidence>> /\ \A pc, j : MissionKept(pc, j)
    BY MissionAlone DEF ReserveCallback
  <1>4. called \in CalledType /\ told \in ToldType /\ dedupe \in DedupeType
    BY <1>2 DEF CallbacksTyped, CalledType, ToldType, DedupeType
  <1>5. \A pc \in {"idle", "parse"} : \A j : StepsOn(r, pc, j) /\ LeavesOn(r, pc, j, k)
    BY <1>2 DEF StepsOn, LeavesOn, Busy
  <1>6. ASSUME NEW what \in {"done", "inFlight", "again"}, Answer(r, what), UNCHANGED dedupe,
               what = "done" => dedupe[k] = "COMPLETED", what = "inFlight" => dedupe[k] = "IN_FLIGHT"
        PROVE  CallbackInvariant'
    <2>1. /\ RequestMoves(r, "idle", NoKey) /\ told' \in ToldType
          /\ \A j \in Keys : told'[j] = IF j = k THEN told[j] \cup {what} ELSE told[j]
      <3>1. what \in Acks \cup Failures
        BY DEF Acks, Failures
      <3> QED
        BY <1>2, <1>6, <3>1, RequestEnds DEF ToldType
    <2>2. \A j \in Keys : dedupe[j] = "COMPLETED" \/ "done" \in told[j] => Settled(j[1])
      BY DEF CallbackInvariant, AttemptsBacked
    <2>3. AttemptsKept("idle", NoKey)
      BY <1>3, <1>4, <1>6, <2>1, <2>2 DEF AttemptsKept
    <2> QED
      BY <1>1, <1>3, <1>5, <2>1, <2>3, RequestKeeps
  <1>7. CASE Known(r) /\ UNCHANGED dedupe /\ Answer(r, IF dedupe[Key(r)] = "COMPLETED" THEN "done" ELSE "inFlight")
    <2>1. dedupe[k] \in {"IN_FLIGHT", "COMPLETED"}
      BY <1>2, <1>4, <1>7 DEF DedupeType, Known
    <2>2. CASE dedupe[k] = "COMPLETED"
      BY <1>6, <1>7, <2>2
    <2>3. CASE dedupe[k] = "IN_FLIGHT"
      BY <1>6, <1>7, <2>3
    <2> QED
      BY <2>1, <2>2, <2>3
  <1>8. CASE UNCHANGED dedupe /\ Answer(r, "again")
    BY <1>6, <1>8
  <1>9. CASE dedupe' = [dedupe EXCEPT ![Key(r)] = ReservedAs] /\ RequestGoto(r, "parse") /\ UNCHANGED told
    <2>1. RequestMoves(r, "parse", k)
      BY <1>2, <1>9, RequestGoes DEF RequestPcs
    <2>2. dedupe' \in DedupeType /\ \A j \in Keys : dedupe'[j] = IF j = k THEN "IN_FLIGHT" ELSE dedupe[j]
      BY <1>2, <1>4, <1>9 DEF DedupeType, ReservedAs
    <2>3. AttemptsKept("parse", k)
      BY <1>3, <1>4, <1>9, <2>2 DEF AttemptsKept, Busy
    <2> QED
      BY <1>1, <1>3, <1>5, <2>1, <2>3, RequestKeeps
  <1> QED
    BY <1>7, <1>8, <1>9 DEF ReserveCallback

LEMMA ParseKept ==
  ASSUME CallbackInvariant, NEW r \in Requests, Parse(r) \/ Get(r), NEW k, k = Key(r)
  PROVE  CallbackInvariant'
PROOF
  <1>1. NoticesKept /\ EventInvariant' /\ \A q \in Requests : NoticeCarried(q)
    BY NoticesAlone DEF Parse, Get
  <1>2. request[r].pc \in {"parse", "get"} /\ request[r].pc # "idle" /\ CallbacksTyped
    <2>1. request[r].pc \in {"parse", "get"}
      BY DEF Parse, Get, RequestAt
    <2> QED
      BY <2>1, RequestHas
  <1>3. UNCHANGED outcome /\ \A pc : AttemptsKept(pc, k) /\ MissionKept(pc, k)
    BY AttemptsAlone, MissionAlone DEF Parse, Get
  <1>4. \E pc \in {"get", "record", "fail"} : RequestMoves(r, pc, k)
    <2>1. CASE RequestGoto(r, "get")
      BY <1>2, <2>1, RequestGoes DEF RequestPcs
    <2>2. CASE Throw(r, "invalid") \/ Throw(r, "again")
      BY <1>2, <2>2, RequestThrows
    <2>3. CASE request' = [request EXCEPT ![r].pc = "record", ![r].seen = mission.version]
      <3>1. request[r] \in RequestType /\ RequestFit(request[r]) /\ request \in [Requests -> RequestType]
        BY <1>2 DEF CallbacksTyped
      <3>2. mission.version \in 0..MaxVersion
        BY <1>2, CallbackAssumption DEF CallbacksTyped
      <3> DEFINE x == [request[r] EXCEPT !.pc = "record", !.seen = mission.version]
      <3>3. x \in RequestType /\ x.pc = "record" /\ x.callback = request[r].callback /\ x.attempt = request[r].attempt
        BY <3>1, <3>2 DEF RequestType, RequestPcs
      <3>4. RequestFit(x)
        BY <1>2, <3>1, <3>3 DEF RequestFit
      <3>5. request' = [request EXCEPT ![r] = x]
        BY <2>3, <3>1
      <3> HIDE DEF x
      <3>6. RequestMoves(r, x.pc, <<x.callback, x.attempt>>)
        BY <1>2, <3>3, <3>4, <3>5, RequestStored
      <3> QED
        BY <3>3, <3>6 DEF Key
    <2> QED
      BY <2>1, <2>2, <2>3 DEF Parse, Get
  <1>5. \A pc \in {"get", "record", "fail"} : StepsOn(r, pc, k) /\ LeavesOn(r, pc, k, k)
    BY DEF StepsOn, LeavesOn, Busy
  <1> QED
    BY <1>1, <1>3, <1>4, <1>5, RequestKeeps

(* After the record a request goes on with its outcome in evidence, and    *)
(* with a notice to raise unless the outcome calls for none.               *)
LEMMA AfterwardsGoes ==
  ASSUME CallbackInvariant, NEW r \in Requests, RequestAt(r, "record"), NEW k, k = Key(r), Afterwards(r),
         k[1] \in evidence', UNCHANGED outcome
  PROVE  \E pc \in {"raise", "complete"} :
           RequestMoves(r, pc, k) /\ StepsOn(r, pc, k) /\ LeavesOn(r, pc, k, k) /\ Busy(pc)
PROOF
  <1>1. request[r].pc = "record" /\ request[r].pc # "idle" /\ CallbacksTyped /\ Body(r) = outcome[k[1]]
    BY RequestHas DEF RequestAt
  <1>2. CASE Accepted(Body(r)) \/ Conflict(Body(r))
    <2>1. RequestMoves(r, "raise", k)
      BY <1>1, <1>2, RequestGoes DEF Afterwards, RequestPcs
    <2> QED
      BY <2>1 DEF StepsOn, LeavesOn, Busy
  <1>3. CASE ~(Accepted(Body(r)) \/ Conflict(Body(r)))
    <2>1. RequestMoves(r, "complete", k)
      BY <1>1, <1>3, RequestGoes DEF Afterwards, RequestPcs
    <2>2. Settled(k[1])'
      BY <1>1, <1>3 DEF Settled, Accepted, Conflict, Reasons
    <2> QED
      BY <2>1, <2>2 DEF StepsOn, LeavesOn, Busy
  <1> QED
    BY <1>2, <1>3

LEMMA RecordOutcomeKept ==
  ASSUME CallbackInvariant, NEW r \in Requests, Record(r), NEW k, k = Key(r)
  PROVE  CallbackInvariant'
PROOF
  <1>1. NoticesKept /\ EventInvariant' /\ \A q \in Requests : NoticeCarried(q)
    <2>1. UNCHANGED faults \/ \E f : Fault(f)
      BY DEF Record
    <2> QED
      BY <2>1, NoticesAlone DEF Record
  <1>2. /\ RequestAt(r, "record") /\ request[r].pc = "record" /\ request[r].pc # "idle"
        /\ CallbacksTyped /\ k \in Keys /\ k[1] = request[r].callback /\ k[1] \in Callbacks
        /\ Body(r) = outcome[k[1]]
    BY RequestHas DEF Record, RequestAt
  <1>3. UNCHANGED outcome /\ \A pc : AttemptsKept(pc, k)
    BY AttemptsAlone DEF Record
  <1>4. StepsOn(r, "fail", k) /\ LeavesOn(r, "fail", k, k)
    BY DEF StepsOn, LeavesOn, Busy
  <1>5. CASE k[1] \in evidence /\ UNCHANGED <<mission, evidence>> /\ Afterwards(r)
    <2>1. PICK pc \in {"raise", "complete"} : RequestMoves(r, pc, k) /\ StepsOn(r, pc, k) /\ LeavesOn(r, pc, k, k)
      BY <1>2, <1>3, <1>5, AfterwardsGoes
    <2>2. MissionKept(pc, k)
      BY <1>5, MissionAlone
    <2> QED
      BY <1>1, <1>3, <2>1, <2>2, RequestKeeps
  <1>6. CASE /\ k[1] \notin evidence /\ VersionRead(r) /\ mission.version < MaxVersion
             /\ mission' = [state |-> Verdict(Body(r)), version |-> request[r].seen + 1]
             /\ evidence' = evidence \cup {k[1]}
             /\ Afterwards(r) \/ Throw(r, "invalid")
    <2>1. mission' \in MissionType
      <3>1. mission.version \in 1..MaxVersion /\ request[r].seen = mission.version
        BY <1>2, <1>6 DEF CallbacksTyped, VersionRead
      <3>2. request[r].seen + 1 \in 1..MaxVersion
        BY <1>6, <3>1, CallbackAssumption
      <3>3. Verdict(Body(r)) \in {"active", "halted", "DONE"}
        BY DEF Verdict
      <3> QED
        BY <1>6, <3>2, <3>3 DEF MissionType
    <2>2. mission'.state = "DONE" => Accepted(outcome[k[1]])
      <3>1. mission'.state = Verdict(outcome[k[1]])
        BY <1>2, <1>6
      <3> QED
        BY <3>1 DEF Verdict
    <2>3. evidence \subseteq evidence' /\ evidence' \subseteq Callbacks /\ k[1] \in evidence'
      BY <1>2, <1>6 DEF CallbacksTyped
    <2>4. \A pc : Busy(pc) => MissionKept(pc, k)
      BY <1>2, <2>1, <2>2, <2>3 DEF MissionKept
    <2>5. CASE Afterwards(r)
      <3>1. PICK pc \in {"raise", "complete"} :
              RequestMoves(r, pc, k) /\ StepsOn(r, pc, k) /\ LeavesOn(r, pc, k, k) /\ Busy(pc)
        BY <1>2, <1>3, <2>3, <2>5, AfterwardsGoes
      <3> QED
        BY <1>1, <1>3, <2>4, <3>1, RequestKeeps
    <2>6. CASE Throw(r, "invalid")
      <3>1. RequestMoves(r, "fail", k) /\ Busy("fail")
        BY <1>2, <2>6, RequestThrows DEF Busy
      <3> QED
        BY <1>1, <1>3, <1>4, <2>4, <3>1, RequestKeeps
    <2> QED
      BY <1>6, <2>5, <2>6
  <1>7. CASE UNCHANGED <<mission, evidence>> /\ (Throw(r, "again") \/ Throw(r, "invalid"))
    <2>1. RequestMoves(r, "fail", k)
      BY <1>2, <1>7, RequestThrows
    <2>2. MissionKept("fail", k)
      BY <1>7, MissionAlone
    <2> QED
      BY <1>1, <1>3, <1>4, <2>1, <2>2, RequestKeeps
  <1> QED
    BY <1>2, <1>5, <1>6, <1>7 DEF Record

LEMMA RaiseOutcomeKept ==
  ASSUME CallbackInvariant, NEW r \in Requests, RaiseOutcome(r), NEW k, k = Key(r)
  PROVE  CallbackInvariant'
PROOF
  <1>1. /\ request[r].pc = "raise" /\ request[r].pc # "idle" /\ CallbacksTyped /\ k[1] \in evidence
        /\ Body(r) = outcome[k[1]]
    BY RequestHas DEF RaiseOutcome, RequestAt
  <1>2. r \in Notifiers /\ NoticeInvariant
    BY CallbackAssumption DEF CallbackInvariant
  <1>3. PICK n \in Notices : n = NoticeOf(outcome[k[1]])
    BY CallbackAssumption DEF NoticeOf
  <1>4. NoticesKept /\ Carries /\ MovesTo(r, "create", n)
    <2>1. Notify(r, n, "create", TRUE) /\ NotifierAt(r, "idle") /\ UNCHANGED <<notice, delivery, accepted, faults>>
      BY <1>1, <1>3 DEF RaiseOutcome
    <2> QED
      BY <1>2, <2>1, StartKept
  <1>5. EventInvariant' /\ UNCHANGED <<outcome, called, told, dedupe, mission, evidence>>
    BY DEF RaiseOutcome, CallbackInvariant, EventInvariant
  <1>6. \A q \in Requests : NoticeCarried(q)
    BY <1>4, CallbackAssumption DEF Carries, NoticeCarried
  <1>7. RequestMoves(r, "notify", k)
    BY <1>1, RequestGoes DEF RaiseOutcome, RequestPcs
  <1>8. AttemptsKept("notify", k) /\ MissionKept("notify", k)
    BY <1>5, AttemptsAlone, MissionAlone
  <1>9. StepsOn(r, "notify", k) /\ LeavesOn(r, "notify", k, k)
    <2>1. notifier'[r].pc # "idle" /\ notifier'[r].notice = NoticeOf(outcome[k[1]])
      BY <1>3, <1>4 DEF MovesTo
    <2> QED
      BY <1>1, <1>5, <2>1 DEF StepsOn, LeavesOn, Busy
  <1> QED
    BY <1>4, <1>5, <1>6, <1>7, <1>8, <1>9, RequestKeeps

(* Its notifier ended with the notice on record, or it threw.              *)
LEMMA NotifiedKept ==
  ASSUME CallbackInvariant, NEW r \in Requests, Notified(r), NEW k, k = Key(r)
  PROVE  CallbackInvariant'
PROOF
  <1>1. /\ request[r].pc = "notify" /\ request[r].pc # "idle" /\ CallbacksTyped /\ k[1] \in evidence
        /\ Body(r) = outcome[k[1]]
    BY RequestHas DEF Notified, RequestAt
  <1>2. NoticesKept /\ MovesTo(r, "idle", "none")
    BY CallbackAssumption, RestKept DEF Notified, CallbackInvariant
  <1>3. \A q \in Requests : q # r => NoticeCarried(q)
    BY <1>2, CallbackAssumption DEF MovesTo, NoticeCarried
  <1>4. EventInvariant' /\ UNCHANGED <<notice, outcome, called, told, dedupe, mission, evidence>>
    BY DEF Notified, CallbackInvariant, EventInvariant
  <1>5. \A pc : AttemptsKept(pc, k) /\ MissionKept(pc, k)
    BY <1>4, AttemptsAlone, MissionAlone
  <1>6. CASE NotifierAt(r, "ended") /\ RequestGoto(r, "complete")
    <2>1. RequestMoves(r, "complete", k)
      BY <1>1, <1>6, RequestGoes DEF RequestPcs
    <2>2. Exists(notifier[r].notice) /\ notifier[r].notice = NoticeOf(outcome[k[1]])
      BY <1>1, <1>6, CallbackAssumption, NotifierHas DEF NotifierAt, Past, CallbackInvariant, RequestsServed
    <2>3. Settled(k[1])'
      BY <1>1, <1>4, <2>2 DEF Settled, Exists, NoticeOf, Accepted, Reasons
    <2>4. StepsOn(r, "complete", k) /\ LeavesOn(r, "complete", k, k)
      BY <1>1, <1>4, <2>3 DEF StepsOn, LeavesOn, Busy
    <2> QED
      BY <1>2, <1>3, <1>4, <1>5, <2>1, <2>4, RequestKeeps
  <1>7. CASE NotifierAt(r, "threw") /\ Throw(r, "invalid")
    <2>1. RequestMoves(r, "fail", k)
      BY <1>1, <1>7, RequestThrows
    <2>2. StepsOn(r, "fail", k) /\ LeavesOn(r, "fail", k, k)
      BY DEF StepsOn, LeavesOn, Busy
    <2> QED
      BY <1>2, <1>3, <1>4, <1>5, <2>1, <2>2, RequestKeeps
  <1> QED
    BY <1>6, <1>7 DEF Notified

LEMMA CompleteCallbackKept ==
  ASSUME CallbackInvariant, NEW r \in Requests, CompleteCallback(r), NEW k, k = Key(r)
  PROVE  CallbackInvariant'
PROOF
  <1>1. NoticesKept /\ EventInvariant' /\ \A q \in Requests : NoticeCarried(q)
    <2>1. UNCHANGED faults \/ \E f : Fault(f)
      BY DEF CompleteCallback
    <2> QED
      BY <2>1, NoticesAlone DEF CompleteCallback
  <1>2. request[r].pc = "complete" /\ request[r].pc # "idle" /\ CallbacksTyped /\ k \in Keys /\ Settled(k[1])
    BY RequestHas DEF CompleteCallback, RequestAt
  <1>3. UNCHANGED <<outcome, called, evidence>> /\ \A pc, j : MissionKept(pc, j)
    BY MissionAlone DEF CompleteCallback
  <1>4. CASE dedupe' = [dedupe EXCEPT ![Key(r)] = "COMPLETED"] /\ Answer(r, "done")
    <2>1. /\ RequestMoves(r, "idle", NoKey) /\ told' \in ToldType
          /\ \A j \in Keys : told'[j] = IF j = k THEN told[j] \cup {"done"} ELSE told[j]
      <3>1. "done" \in Acks \cup Failures
        BY DEF Acks
      <3> QED
        BY <1>2, <1>4, <3>1, RequestEnds DEF ToldType
    <2>2. dedupe' \in DedupeType /\ \A j \in Keys : dedupe'[j] = IF j = k THEN "COMPLETED" ELSE dedupe[j]
      BY <1>2, <1>4 DEF CallbacksTyped, DedupeType
    <2>3. AttemptsKept("idle", NoKey)
      <3>1. called' \in CalledType
        BY <1>2, <1>3 DEF CallbacksTyped, CalledType
      <3>2. ASSUME NEW j \in Keys
            PROVE  /\ told[j] \subseteq told'[j] /\ ("inFlight" \in told'[j] => "inFlight" \in told[j])
                   /\ dedupe'[j] = "COMPLETED" \/ "done" \in told'[j] =>
                        dedupe[j] = "COMPLETED" \/ "done" \in told[j] \/ j = k
                   /\ dedupe'[j] = "IN_FLIGHT" => dedupe[j] = "IN_FLIGHT"
        <4>1. CASE j = k
          <5>1. told'[j] = told[j] \cup {"done"} /\ dedupe'[j] = "COMPLETED"
            BY <2>1, <2>2, <4>1
          <5> QED
            BY <4>1, <5>1
        <4>2. CASE j # k
          <5>1. told'[j] = told[j] /\ dedupe'[j] = dedupe[j]
            BY <2>1, <2>2, <4>2
          <5> QED
            BY <4>2, <5>1
        <4> QED
          BY <4>1, <4>2
      <3> QED
        BY <1>2, <2>1, <2>2, <3>1, <3>2 DEF AttemptsKept
    <2>4. StepsOn(r, "idle", NoKey) /\ LeavesOn(r, "idle", NoKey, k)
      <3>1. Settled(k[1])'
        BY <1>1, <1>2, <1>3, SettledStays DEF NoticesKept
      <3> QED
        BY <3>1 DEF StepsOn, LeavesOn
    <2> QED
      BY <1>1, <1>3, <2>1, <2>3, <2>4, RequestKeeps
  <1>5. CASE UNCHANGED <<dedupe, told>> /\ Throw(r, "invalid")
    <2>1. RequestMoves(r, "fail", k)
      BY <1>2, <1>5, RequestThrows
    <2>2. AttemptsKept("fail", k) /\ StepsOn(r, "fail", k) /\ LeavesOn(r, "fail", k, k)
      BY <1>3, <1>5, AttemptsAlone DEF StepsOn, LeavesOn, Busy
    <2> QED
      BY <1>1, <1>3, <2>1, <2>2, RequestKeeps
  <1> QED
    BY <1>4, <1>5 DEF CompleteCallback

(* A request that gives up, or stops, has an answer that says so.          *)
LEMMA FailureTold ==
  ASSUME CallbackInvariant, NEW r \in Requests, request[r].pc # "idle", NEW k, k = Key(r),
         NEW what \in Failures, Answer(r, what),
         dedupe' = dedupe \/ dedupe' = [dedupe EXCEPT ![k] = "none"],
         UNCHANGED <<outcome, called, mission, evidence>>, NoticesKept, EventInvariant',
         \A q \in Requests : q # r => NoticeCarried(q)
  PROVE  CallbackInvariant'
PROOF
  <1>1. CallbacksTyped /\ k \in Keys /\ what \in Acks \cup Failures
    BY RequestHas
  <1>2. /\ RequestMoves(r, "idle", NoKey) /\ told' \in ToldType
        /\ \A j \in Keys : told'[j] = IF j = k THEN told[j] \cup {what} ELSE told[j]
    BY <1>1, RequestEnds DEF ToldType
  <1>3. dedupe' \in DedupeType /\ \A j \in Keys : dedupe'[j] \in {dedupe[j], "none"}
    BY <1>1 DEF CallbacksTyped, DedupeType
  <1>4. what # "done" /\ what # "inFlight"
    BY DEF Failures
  <1>5. AttemptsKept("idle", NoKey)
    <2>1. called' \in CalledType
      BY <1>1 DEF CallbacksTyped, CalledType
    <2>2. ASSUME NEW j \in Keys
          PROVE  /\ told[j] \subseteq told'[j] /\ ("done" \in told'[j] => "done" \in told[j])
                 /\ ("inFlight" \in told'[j] => "inFlight" \in told[j])
      BY <1>2, <1>4
    <2> QED
      BY <1>2, <1>3, <2>1, <2>2 DEF AttemptsKept
  <1>6. MissionKept("idle", NoKey)
    BY MissionAlone
  <1>7. StepsOn(r, "idle", NoKey) /\ LeavesOn(r, "idle", NoKey, k)
    BY <1>1, <1>2 DEF StepsOn, LeavesOn, Failed
  <1> QED
    BY <1>2, <1>5, <1>6, <1>7, RequestKeeps

LEMMA FailCallbackKept ==
  ASSUME CallbackInvariant, NEW r \in Requests, FailCallback(r), NEW k, k = Key(r)
  PROVE  CallbackInvariant'
PROOF
  <1>1. NoticesKept /\ EventInvariant' /\ \A q \in Requests : NoticeCarried(q)
    BY NoticesAlone DEF FailCallback
  <1>2. request[r].pc # "idle" /\ request[r].why \in Failures
    BY RequestHas DEF FailCallback, RequestAt, RequestFit, Failures
  <1>3. \E what \in Failures : Answer(r, what) /\ (dedupe' = dedupe \/ dedupe' = [dedupe EXCEPT ![k] = "none"])
    BY <1>2 DEF FailCallback, Failures
  <1> QED
    BY <1>1, <1>2, <1>3, FailureTold DEF FailCallback

LEMMA CrashKept ==
  ASSUME CallbackInvariant, NEW r \in Requests, CrashRequest(r), NEW k, k = Key(r)
  PROVE  CallbackInvariant'
PROOF
  <1>1. NoticesKept /\ MovesTo(r, "idle", "none")
    BY CallbackAssumption, RestKept DEF CrashRequest, CallbackInvariant
  <1>2. \A q \in Requests : q # r => NoticeCarried(q)
    BY <1>1, CallbackAssumption DEF MovesTo, NoticeCarried
  <1>3. EventInvariant'
    BY DEF CrashRequest, CallbackInvariant, EventInvariant
  <1>4. "again" \in Failures
    BY DEF Failures
  <1> QED
    BY <1>1, <1>2, <1>3, <1>4, FailureTold DEF CrashRequest, RequestAt

(* Steps of no request: those of the notifiers, and of the mission.        *)
LEMMA ElsewhereKept ==
  ASSUME CallbackInvariant, UNCHANGED <<outcome, called, told, dedupe, evidence, request>>,
         NoticesKept, EventInvariant', RequestsCarried,
         mission' \in MissionType, mission'.state = "DONE" => mission.state = "DONE"
  PROVE  CallbackInvariant'
PROOF
  <1>1. CallbacksTyped'
    BY DEF CallbackInvariant, CallbacksTyped, MissionType
  <1>2. RequestsServed'
    BY DEF CallbackInvariant, RequestsServed, RequestsCarried, Body, NoticeOf, Accepted, Reasons
  <1>3. \A c : Settled(c) => Settled(c)'
    BY SettledStays DEF NoticesKept
  <1>4. RequestsRecorded'
    <2> SUFFICES ASSUME NEW q \in Requests, NEW c, c = request[q].callback
                 PROVE  /\ request[q].pc \in {"raise", "notify", "complete"} => c \in evidence
                        /\ request[q].pc = "complete" => Settled(c)'
      BY DEF RequestsRecorded, Settled, Exists, NoticeOf, Accepted, Conflict, Reasons
    <2> QED
      BY <1>3 DEF CallbackInvariant, RequestsRecorded
  <1>5. \A k \in Keys : (AtWork(k)' <=> AtWork(k)) /\ (Failed(k)' <=> Failed(k))
    BY DEF AtWork, Failed, Key
  <1>6. AttemptsBacked'
    BY <1>3, <1>5 DEF CallbackInvariant, AttemptsBacked, Held
  <1>7. CompletionBacked'
    <2>1. Exists("MISSION_COMPLETED") => Exists("MISSION_COMPLETED")'
      BY CallbackAssumption DEF NoticesKept, Grows
    <2>2. \A k \in Keys : Promised(k) => Promised(k)'
      BY <1>5 DEF Promised, Accepted, Reasons
    <2> QED
      BY <2>1, <2>2 DEF CallbackInvariant, CompletionBacked
  <1> QED
    BY <1>1, <1>2, <1>4, <1>6, <1>7 DEF CallbackInvariant, NoticesKept

LEMMA NextInvariant == CallbackInvariant /\ [Next]_allVars => CallbackInvariant'
PROOF
  <1> SUFFICES ASSUME CallbackInvariant, [Next]_allVars PROVE CallbackInvariant'
    OBVIOUS
  <1>0. NoticeInvariant /\ EventInvariant /\ mission \in MissionType
    BY DEF CallbackInvariant, CallbacksTyped, MissionType
  <1>1. CASE NoticeNext /\ UNCHANGED callbackVars
    BY <1>0, <1>1, NoticeStepKept, ElsewhereKept DEF callbackVars
  <1>2. ASSUME NEW r \in Requests, RequestStep(r) \/ CrashRequest(r) PROVE CallbackInvariant'
    <2>1. PICK k : k = Key(r)
      OBVIOUS
    <2> QED
      BY <1>2, <2>1, ReserveCallbackKept, ParseKept, RecordOutcomeKept, RaiseOutcomeKept, NotifiedKept,
         CompleteCallbackKept, FailCallbackKept, CrashKept DEF RequestStep
  <1>3. ASSUME NEW r \in Requests, NEW c \in Callbacks, Call(r, c) PROVE CallbackInvariant'
    <2>1. PICK k : k = Key(r)
      OBVIOUS
    <2> QED
      BY <1>3, <2>1, CallKept
  <1>4. CASE MissionMoves
    <2>1. NoticesKept /\ EventInvariant' /\ RequestsCarried
      BY <1>4, NoticesAlone DEF MissionMoves, NoticeCarried, RequestsCarried
    <2>2. mission.version + 1 \in 1..MaxVersion
      BY <1>0, <1>4, CallbackAssumption DEF MissionMoves, MissionType
    <2>3. mission' \in MissionType /\ mission'.state # "DONE"
      BY <1>4, <2>2 DEF MissionMoves, MissionType
    <2> QED
      BY <1>4, <2>1, <2>3, ElsewhereKept DEF MissionMoves
  <1>5. CASE UNCHANGED allVars
    <2>1. NoticesKept /\ EventInvariant' /\ RequestsCarried
      BY <1>5, NoticesAlone DEF allVars, NoticeCarried, RequestsCarried
    <2> QED
      BY <1>0, <1>5, <2>1, ElsewhereKept DEF allVars, callbackVars
  <1> QED
    BY <1>1, <1>2, <1>3, <1>4, <1>5 DEF Next

-----------------------------------------------------------------------------
(* Theorems                                                                *)

(* The invariants above hold in every state.                               *)
THEOREM CallbackInvariantHolds == Spec => []CallbackInvariant
PROOF
  BY InitInvariant, NextInvariant, PTL DEF Spec

(* Every variable of callbacks, notifications and events keeps its type.   *)
THEOREM CallbackTyped == Spec => []CallbackTypeOK
PROOF
  BY CallbackInvariantHolds, CallbackTypes, PTL

(* The provider accepts the email of a notification once, and again only   *)
(* after a failure: reserveDelivery, completeDelivery and failDelivery     *)
(* keep raise, notify, verifyOutcome and the owner's retry from sending it *)
(* twice, in any number and order.                                         *)
THEOREM OneProviderSendHolds == Spec => []OneProviderSend
PROOF
  <1>1. CallbackInvariant => OneProviderSend
    BY DEF CallbackInvariant, NoticeInvariant, SendsBacked
  <1> QED
    BY <1>1, CallbackInvariantHolds, PTL

(* An event handleEmailWebhook acknowledged has its task, or a record that *)
(* shows it has none.                                                      *)
THEOREM EventKeptHolds == Spec => []EventKept
PROOF
  <1>1. CallbackInvariant => EventKept
    BY EventsKept DEF CallbackInvariant
  <1> QED
    BY <1>1, CallbackInvariantHolds, PTL

(* Whoever handleMerchantCallback told that an outcome is dealt with was   *)
(* told so after its notice was created.  A mission verifyOutcome          *)
(* completed has its notice, or an attempt with its outcome is under way   *)
(* or was answered with a failure.                                         *)
THEOREM CompletionNoticedHolds == Spec => []CompletionNoticed
PROOF
  BY OutcomesKept, CallbackInvariantHolds, PTL

(* An attempt handleMerchantCallback acknowledged as dealt with, in any of *)
(* its answers, left its outcome in evidence; one acknowledged as under    *)
(* way did, or is at work, or has another answer that says it failed.      *)
THEOREM AcknowledgedKeptHolds == Spec => []AcknowledgedKept
PROOF
  BY OutcomesKept, CallbackInvariantHolds, PTL
=============================================================================
