--------------------------- MODULE FollowThrough ---------------------------
(***************************************************************************)
(* One approved mission with everything that moves its document without    *)
(* its owner: the task workers of MissionRunner and the email readers of   *)
(* InboundService, interleaved over the same Firestore document, the same  *)
(* wake outbox and the same queue.                                         *)
(***************************************************************************)
EXTENDS InboundService

CONSTANTS Workers, Reconcilers, MaxLogicalSends, MaxAttempts

(* As MissionRunner assumes of its own constants.                          *)
ASSUME FollowAssumption ==
  /\ Reconcilers \cap Workers = {}
  /\ {MaxLogicalSends, MaxAttempts} \subseteq Nat \ {0}

VARIABLES records, accepted, worker

Runner == INSTANCE MissionRunner

runnerVars == <<records, accepted, worker>>
vars == <<sharedVars, runnerVars, inboundVars>>

TypeOK == Runner!TypeOK /\ InboundTypeOK

Init == Runner!Init /\ InboundInit

Contacted == \E k \in Runner!Ordinals : accepted[k] > 0

(* A reply or a bounce answers a message the provider accepted; anybody    *)
(* may write to the reply address.                                         *)
Next ==
  \/ Runner!Next /\ UNCHANGED inboundVars
  \/ /\ \/ \E e \in Emails : (Contacted \/ e \in Strangers) /\ Arrive(e)
        \/ \E r \in Readers, e \in Emails : ServeEmail(r, e)
        \/ \E r \in Readers : ReaderStep(r) \/ CrashReader(r)
     /\ UNCHANGED runnerVars

Spec == Init /\ [][Next]_vars

(* As in MissionRunner, and the queue of the emails like the other one; a  *)
(* mission that nobody moves has been idle for five minutes some time.     *)
Fairness ==
  /\ \A w \in Runner!Actors : WF_vars(Runner!Step(w) /\ UNCHANGED inboundVars)
  /\ \A w \in Workers : WF_vars((\E t \in Task : Runner!Deliver(w, t)) /\ UNCHANGED inboundVars)
  /\ \A c \in Reconcilers : WF_vars((\E v \in Versions : Runner!Reconcile(c, v)) /\ UNCHANGED inboundVars)
  /\ \A r \in Readers :
       /\ WF_vars(ReaderStep(r) /\ UNCHANGED runnerVars)
       /\ WF_vars((\E e \in Emails : ServeEmail(r, e)) /\ UNCHANGED runnerVars)
  /\ WF_vars((WakeTimeArrives \/ FiveMinutesPass)
             /\ UNCHANGED <<runnerVars, inboundVars>>)

FairSpec == Spec /\ Fairness

-----------------------------------------------------------------------------
(* A finished mission stays finished: no snapshot read before the verdict  *)
(* is ever written over it.                                                *)
CompletionFinal ==
  [][mission.state = "DONE" => mission'.state = "DONE"]_mission

(* A halt holds: a worker or a reader that read the document before a      *)
(* bounce or a conflict halted it never writes its snapshot over the halt; *)
(* only the owner resumes the mission.                                     *)
HaltHolds ==
  [][mission.state = "NEEDS_ATTENTION" => mission'.state = "NEEDS_ATTENTION"]_mission

(* DONE is decided by evidence on record and by nothing else.              *)
DoneIsEvidenced ==
  mission.state = "DONE" => \E e \in Emails : evidence[e] = "accepted"

(* A mission in VERIFYING schedules no wake, so it depends on a reply:     *)
(* one that is being processed or that the queue delivers again, or one    *)
(* that changed the terms, for which the owner has been asked.  Only two   *)
(* things leave it to itself: the queue has used up the attempts of the    *)
(* reply's task, or the mission was moved there again by the retry of a    *)
(* reply whose outcome, insufficient, was already on record.               *)
Replies == Emails \ (Strangers \cup Bounces)

Processing(e) ==
  \/ \E r \in Readers :
       reader[r].email = e /\ reader[r].pc \in {"interpret", "read", "record"}
  \/ inbound[e] = "queued" /\ ~HeldEmail(e) /\ inboundDeliveries[e] < MaxDeliveries

Asked(e) ==
  \/ result[e] = "NEEDS_ATTENTION"
  \/ \E r \in Readers :
       /\ reader[r].email = e
       /\ \/ ReaderAt(r, "raise") /\ reader[r].finding = "PROPOSAL_CHANGE"
          \/ ReaderAt(r, "answer") /\ reader[r].answer = "NEEDS_ATTENTION"

ReplySpent(e) ==
  inbound[e] = "queued" /\ ~HeldEmail(e) /\ inboundDeliveries[e] = MaxDeliveries

VerifiedAgain(e) == evidence[e] = "insufficient" /\ inboundDeliveries[e] > 1

VerifyingAttended ==
  mission.state = "VERIFYING" =>
    \E e \in Replies :
      \/ evidence[e] = "none" /\ (Processing(e) \/ Asked(e) \/ ReplySpent(e))
      \/ VerifiedAgain(e)

(* The wake of a mission that waits survives the interleaving with         *)
(* readers: one that puts the mission back to waiting commits an intent    *)
(* with it, and dispatches a wake of its own.                              *)
WakeOrAbandoned == Runner!WakeOrAbandoned

=============================================================================
