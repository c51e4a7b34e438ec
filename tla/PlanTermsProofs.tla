--------------------------- MODULE PlanTermsProofs ---------------------------
(***************************************************************************)
(* Theorems about PlanTerms, for any channels, any default recipients and  *)
(* any number of edits.                                                    *)
(***************************************************************************)
EXTENDS PlanTerms, TLAPS

-----------------------------------------------------------------------------
(* Why two reads of the draft are enough.  Versions only grow, so a request*)
(* names the version its page showed or an older one; if the draft still   *)
(* has that version, it is the draft the controller checked.  The identity *)
(* of a request is one the owner has, and is never lost.                   *)
Numbered ==
  /\ "version" \in DOMAIN plan /\ plan.version \in Nat
  /\ approval.expected \in Nat
Behind == approval.pc # "idle" => approval.expected <= plan.version
Owned == /\ identity \in {"anonymous", "google"}
         /\ approval.identity = "google" => identity = "google"
CheckedCurrent ==
  approval.pc = "approve" /\ plan.version = approval.expected =>
    ControllerAccepts(approval.identity)
Settled == phase \notin {"intake", "invalid", "review"} => ControllerAccepts(identity)
Busy == phase \in {"intake", "invalid"} => approval.pc = "idle"

ApprovalInvariant == Numbered /\ Behind /\ Owned /\ CheckedCurrent /\ Settled /\ Busy

(* An owner who links an account is accepted wherever the anonymous one    *)
(* was.                                                                    *)
LEMMA LinkedAccepted ==
  ASSUME NEW who, ControllerAccepts(who), Owned,
         who = "google" => identity = "google"
  PROVE  ControllerAccepts(identity)
  BY DEF ControllerAccepts

LEMMA InitApproval == Init => ApprovalInvariant
  BY DEF Init, NoPlan, NoApproval, ApprovalInvariant, Numbered, Behind, Owned,
         CheckedCurrent, Settled, Busy

(* An edit leaves the approval behind the new version.                     *)
LEMMA EditApproval ==
  ASSUME ApprovalInvariant, phase = "review", phase' = phase,
         "version" \in DOMAIN plan', plan'.version = plan.version + 1,
         UNCHANGED <<identity, approval>>
  PROVE  ApprovalInvariant'
PROOF
  <1>1. Numbered'
    BY DEF ApprovalInvariant, Numbered
  <1>2. Behind' /\ CheckedCurrent'
    BY <1>1 DEF ApprovalInvariant, Numbered, Behind, CheckedCurrent
  <1>3. Owned' /\ Settled' /\ Busy'
    BY DEF ApprovalInvariant, Owned, Settled, Busy
  <1> QED
    BY <1>1, <1>2, <1>3 DEF ApprovalInvariant

(* An edit of one field of the plan changes its version and is an edit.    *)
LEMMA ReplanApproval ==
  ASSUME ApprovalInvariant, NEW next, "version" \in DOMAIN next, Replan(next)
  PROVE  ApprovalInvariant'
PROOF
  <1>1. "version" \in DOMAIN plan' /\ plan'.version = plan.version + 1
    BY DEF Replan
  <1> QED
    BY <1>1, EditApproval DEF Replan, Editable

LEMMA NextApproval == ApprovalInvariant /\ [Next]_vars => ApprovalInvariant'
PROOF
  <1> SUFFICES ASSUME ApprovalInvariant, [Next]_vars
               PROVE  ApprovalInvariant'
    OBVIOUS
  <1>1. CASE Intake
    <2>1. Numbered'
      BY <1>1 DEF Intake, NewPlan, ApprovalInvariant, Numbered
    <2>2. Behind' /\ CheckedCurrent' /\ Busy'
      BY <1>1 DEF Intake, ApprovalInvariant, Behind, CheckedCurrent, Busy
    <2>3. Owned' /\ Settled'
      BY <1>1 DEF Intake, ApprovalInvariant, Owned, Settled
    <2> QED
      BY <2>1, <2>2, <2>3 DEF ApprovalInvariant
  <1>2. CASE SaveContract
    <2>1. PICK terms \in ContractEdits(goal) : plan' = RevisedPlan(RevisedGoal(terms))
      BY <1>2 DEF SaveContract
    <2>2. "version" \in DOMAIN plan' /\ plan'.version = plan.version + 1
      BY <2>1 DEF RevisedPlan, ApprovalInvariant, Numbered
    <2> QED
      BY <1>2, <2>2, EditApproval DEF SaveContract, Editable
  <1>3. CASE SaveRecipient
    <2>1. PICK a \in CompanyAddresses : Replan([plan EXCEPT !.allowedRecipient = a])
      BY <1>3 DEF SaveRecipient
    <2> QED
      BY <2>1, ReplanApproval DEF ApprovalInvariant, Numbered
  <1>4. CASE SaveNotification
    <2>1. PICK a \in {"owner", "other"} : Replan([plan EXCEPT !.notificationRecipient = a])
      BY <1>4 DEF SaveNotification
    <2> QED
      BY <2>1, ReplanApproval DEF ApprovalInvariant, Numbered
  <1>5. CASE SelectChannel
    <2>1. PICK c \in AvailableChannels \ {plan.channelType} :
            \E a \in ChannelRecipients(c) :
              Replan([plan EXCEPT !.channelType = c, !.allowedRecipient = a])
      BY <1>5 DEF SelectChannel
    <2>2. PICK a \in ChannelRecipients(c) :
            Replan([plan EXCEPT !.channelType = c, !.allowedRecipient = a])
      BY <2>1
    <2> QED
      BY <2>2, ReplanApproval DEF ApprovalInvariant, Numbered
  <1>6. CASE LinkGoogle
    <2>1. Numbered' /\ Behind' /\ Owned' /\ CheckedCurrent' /\ Settled' /\ Busy'
      BY <1>6 DEF LinkGoogle, ApprovalInvariant, Numbered, Behind, Owned, CheckedCurrent,
                  Settled, Busy, ControllerAccepts
    <2> QED
      BY <2>1 DEF ApprovalInvariant
  <1>7. CASE SendApproval
    <2>1. Numbered' /\ Behind' /\ Owned'
      BY <1>7 DEF SendApproval, ApprovalInvariant, Numbered, Behind, Owned
    <2>2. CheckedCurrent' /\ Settled' /\ Busy'
      BY <1>7 DEF SendApproval, ApprovalInvariant, CheckedCurrent, Settled, Busy
    <2> QED
      BY <2>1, <2>2 DEF ApprovalInvariant
  <1>8. CASE CheckApproval
    <2>1. Numbered' /\ Behind' /\ Owned'
      BY <1>8 DEF CheckApproval, NoApproval, ApprovalInvariant, Numbered, Behind, Owned
    <2>2. CheckedCurrent'
      BY <1>8 DEF CheckApproval, NoApproval, CheckedCurrent, ControllerAccepts
    <2>3. Settled' /\ Busy'
      BY <1>8 DEF CheckApproval, NoApproval, ApprovalInvariant, Settled, Busy, ControllerAccepts
    <2> QED
      BY <2>1, <2>2, <2>3 DEF ApprovalInvariant
  <1>9. CASE Approve
    <2>1. Numbered' /\ Behind' /\ Owned' /\ CheckedCurrent' /\ Busy'
      BY <1>9 DEF Approve, NoApproval, ApprovalInvariant, Numbered, Behind, Owned,
                  CheckedCurrent, Busy
    <2>2. Settled'
      <3>1. CASE Approvable
        <4>1. ControllerAccepts(approval.identity)
          BY <1>9, <3>1 DEF Approve, Approvable, ApprovalInvariant, CheckedCurrent
        <4> QED
          BY <1>9, <4>1, LinkedAccepted DEF Approve, ApprovalInvariant, Owned, Settled, ControllerAccepts
      <3>2. CASE ~Approvable
        BY <1>9, <3>2 DEF Approve, ApprovalInvariant, Settled, ControllerAccepts
      <3> QED
        BY <3>1, <3>2
    <2> QED
      BY <2>1, <2>2 DEF ApprovalInvariant
  <1>10. CASE FirstRun \/ CompanyConfirms
    <2>1. /\ UNCHANGED <<plan, identity, approval>>
          /\ phase \notin {"intake", "invalid", "review"}
          /\ phase' \notin {"intake", "invalid", "review"}
      BY <1>10 DEF FirstRun, CompanyConfirms
    <2> QED
      BY <2>1 DEF ApprovalInvariant, Numbered, Behind, Owned, CheckedCurrent, Settled, Busy,
                  ControllerAccepts
  <1>11. CASE UNCHANGED vars
    BY <1>11 DEF vars, ApprovalInvariant, Numbered, Behind, Owned, CheckedCurrent, Settled, Busy,
                 ControllerAccepts
  <1> QED
    BY <1>1, <1>2, <1>3, <1>4, <1>5, <1>6, <1>7, <1>8, <1>9, <1>10, <1>11 DEF Next

(* What the controller checked on its own read of the draft holds of every *)
(* plan that is approved.                                                  *)
THEOREM ApprovalCheckedHolds == Spec => []ApprovalChecked
PROOF
  <1>1. ApprovalInvariant => ApprovalChecked
    BY DEF ApprovalInvariant, Settled, ApprovalChecked
  <1> QED
    BY <1>1, InitApproval, NextApproval, PTL DEF Spec

-----------------------------------------------------------------------------
(* What the plan and the goal keep of the extraction, and how the plan     *)
(* follows the goal.                                                       *)
Reviewed == phase \notin {"intake", "invalid"}
Approved == phase \notin {"intake", "invalid", "review"}

Whole(terms) == Money \subseteq Given(terms) \/ Money \cap Given(terms) = {}
GoalFollows ==
  /\ goal.type = extraction.type
  /\ Terms \ Money \subseteq Given(goal.terms)
  /\ goal = extraction \/ Whole(goal.terms)
  /\ Money \subseteq Given(extraction.terms) => Money \subseteq Given(goal.terms)
  /\ \A f \in Terms : goal.terms[f] = "extracted" => extraction.terms[f] = "extracted"
PlanFollows ==
  /\ plan.goalType = PlanType(extraction)
  /\ plan.sharedFields = SharedFields(extraction)
  /\ plan.requirement = Requirement(goal, NewSubject(extraction))
  /\ plan.message = Message(goal)
  /\ plan.channelType = "MANAGED_EMAIL" => plan.allowedRecipient # "merchant"

TermsInvariant ==
  /\ TermsTypeOK
  /\ extraction \in Extractions
  /\ ~Reviewed => goal = extraction
  /\ phase = "invalid" => ~Parses(NewPlan(extraction))
  /\ Reviewed => GoalFollows /\ PlanFollows
  /\ Approved => BlockingFields(goal, plan) = {}

LEMMA ExtractionTyped ==
  ASSUME NEW g \in Extractions
  PROVE  /\ g \in Goals
         /\ Terms \ Money \subseteq Given(g.terms)
         /\ \A f \in Terms : g.terms[f] \in {"none", "extracted"}
  BY DEF Extractions, Goals, Values

LEMMA RequirementTyped ==
  ASSUME NEW g \in Goals, NEW e \in Goals
  PROVE  /\ Requirement(g, NewSubject(e)) \in
              [amountMinor: Values, currency: Values, transactionRef: Values, subject: Values]
         /\ Message(g) \in
              [result: Values, transactionRef: Values, money: [Money -> Values]]
PROOF
  <1>1. \A f \in Terms : g.terms[f] \in Values /\ e.terms[f] \in Values
    BY DEF Goals
  <1>2. NewSubject(e) \in Values
    BY <1>1 DEF NewSubject, Terms, Values
  <1>3. Requirement(g, NewSubject(e)) \in
          [amountMinor: Values, currency: Values, transactionRef: Values, subject: Values]
    BY <1>1, <1>2 DEF Requirement, Terms, Money
  <1>4. [f \in Money |-> g.terms[f]] \in [Money -> Values]
    BY <1>1 DEF Terms
  <1>5. [f \in Money |-> "none"] \in [Money -> Values]
    BY DEF Values
  <1>6. g.terms["result"] \in Values /\ g.terms["transactionRef"] \in Values
    BY <1>1 DEF Terms
  <1>7. Message(g) \in [result: Values, transactionRef: Values, money: [Money -> Values]]
    BY <1>4, <1>5, <1>6 DEF Message
  <1> QED
    BY <1>3, <1>7

(* The plan of an intake is well typed.                                    *)
LEMMA NewPlanTyped ==
  ASSUME NEW g \in Extractions
  PROVE  NewPlan(g) \in Plans
PROOF
  <1>1. g \in Goals
    BY ExtractionTyped
  <1>2. PlanType(g) \in GoalTypes
    BY <1>1 DEF PlanType, GoalTypes, Goals
  <1>3. SharedFields(g) \subseteq Money \cup {"transactionRef", "subject"}
    BY DEF SharedFields
  <1>4. Requirement(g, NewSubject(g)) \in
          [amountMinor: Values, currency: Values, transactionRef: Values, subject: Values]
    BY <1>1, RequirementTyped
  <1>5. Message(g) \in [result: Values, transactionRef: Values, money: [Money -> Values]]
    BY <1>1, RequirementTyped
  <1>6. 1 \in 1..MaxVersion
    BY TermsAssumption
  <1> QED
    BY <1>2, <1>3, <1>4, <1>5, <1>6 DEF NewPlan, Plans, Channels

LEMMA InitTerms == Init => TermsInvariant
PROOF
  <1> SUFFICES ASSUME Init PROVE TermsInvariant
    OBVIOUS
  <1>1. goal \in Goals /\ extraction \in Goals
    BY ExtractionTyped DEF Init
  <1>2. TermsTypeOK
    BY <1>1, TermsAssumption DEF Init, NoApproval, TermsTypeOK
  <1> QED
    BY <1>2 DEF Init, TermsInvariant, Reviewed, Approved

LEMMA IntakeTerms == TermsInvariant /\ Intake => TermsInvariant'
PROOF
  <1> SUFFICES ASSUME TermsInvariant, Intake PROVE TermsInvariant'
    OBVIOUS
  <1>1. goal = extraction /\ extraction \in Extractions
    BY DEF TermsInvariant, Intake, Reviewed
  <1>2. CASE Parses(NewPlan(extraction))
    <2>1. plan' = NewPlan(extraction) /\ phase' = "review" /\ goal' = extraction
          /\ extraction' = extraction /\ UNCHANGED <<identity, approval>>
      BY <1>1, <1>2 DEF Intake
    <2>2. TermsTypeOK'
      BY <1>1, <1>2, <2>1, NewPlanTyped DEF TermsInvariant, TermsTypeOK, Parses
    <2>3. GoalFollows'
      BY <1>1, <2>1, ExtractionTyped DEF GoalFollows
    <2>4. PlanFollows'
      BY <1>1, <2>1 DEF PlanFollows, NewPlan
    <2> QED
      BY <1>1, <2>1, <2>2, <2>3, <2>4 DEF TermsInvariant, Reviewed, Approved
  <1>3. CASE ~Parses(NewPlan(extraction))
    <2>1. phase' = "invalid" /\ UNCHANGED <<plan, extraction, goal, identity, approval>>
      BY <1>3 DEF Intake
    <2>2. TermsTypeOK'
      BY <2>1 DEF TermsInvariant, TermsTypeOK
    <2> QED
      BY <1>1, <1>3, <2>1, <2>2 DEF TermsInvariant, Reviewed, Approved, Parses
  <1> QED
    BY <1>2, <1>3

(* A saved contract is a goal whose money is whole, and its plan follows.  *)
LEMMA SaveContractTerms == TermsInvariant /\ SaveContract => TermsInvariant'
PROOF
  <1> SUFFICES ASSUME TermsInvariant, SaveContract PROVE TermsInvariant'
    OBVIOUS
  <1>1. PICK terms \in ContractEdits(goal) :
          /\ Parses(RevisedPlan(RevisedGoal(terms)))
          /\ goal' = RevisedGoal(terms)
          /\ plan' = RevisedPlan(RevisedGoal(terms))
    BY DEF SaveContract
  <1>2. /\ phase = "review" /\ phase' = "review" /\ plan.version < MaxVersion
        /\ UNCHANGED <<extraction, identity, approval>>
    BY DEF SaveContract, Editable
  <1>3. /\ plan \in Plans /\ goal \in Goals /\ extraction \in Goals
        /\ extraction \in Extractions /\ GoalFollows /\ PlanFollows
    BY <1>2 DEF TermsInvariant, TermsTypeOK, Reviewed
  <1>4. goal' \in Goals /\ goal'.type = goal.type /\ goal'.terms = terms
    BY <1>1, <1>3 DEF RevisedGoal, ContractEdits, Goals
  <1>5. plan.requirement.subject = NewSubject(extraction)
    BY <1>3 DEF PlanFollows, Requirement
  <1>6. /\ plan'.version = plan.version + 1
        /\ plan'.requirement = Requirement(goal', NewSubject(extraction))
        /\ plan'.message = Message(goal')
        /\ plan'.goalType = plan.goalType /\ plan'.sharedFields = plan.sharedFields
        /\ plan'.channelType = plan.channelType
        /\ plan'.allowedRecipient = plan.allowedRecipient
    BY <1>1, <1>3, <1>5 DEF RevisedPlan, Plans
  <1>7. plan' \in Plans
    <2>1. plan.version + 1 \in 1..MaxVersion
      BY <1>2, <1>3, TermsAssumption DEF Plans
    <2>2. /\ Requirement(goal', NewSubject(extraction)) \in
               [amountMinor: Values, currency: Values, transactionRef: Values, subject: Values]
          /\ Message(goal') \in
               [result: Values, transactionRef: Values, money: [Money -> Values]]
      BY <1>3, <1>4, RequirementTyped
    <2>3. plan' = [plan EXCEPT !.version = plan.version + 1,
                               !.requirement = Requirement(goal', NewSubject(extraction)),
                               !.message = Message(goal')]
      BY <1>1, <1>5 DEF RevisedPlan
    <2> QED
      BY <1>3, <2>1, <2>2, <2>3 DEF Plans
  <1>8. TermsTypeOK'
    BY <1>1, <1>2, <1>4, <1>7 DEF TermsInvariant, TermsTypeOK, Parses
  <1>9. GoalFollows'
    <2>1. /\ Terms \ Money \subseteq Given(terms)
          /\ Whole(terms)
          /\ Money \subseteq Given(goal.terms) => Money \subseteq Given(terms)
          /\ \A f \in Terms : terms[f] = "extracted" => extraction.terms[f] = "extracted"
      BY DEF ContractEdits, Whole
    <2> QED
      BY <1>2, <1>3, <1>4, <2>1 DEF GoalFollows
  <1>10. PlanFollows'
    BY <1>2, <1>3, <1>6 DEF PlanFollows
  <1> QED
    BY <1>2, <1>3, <1>8, <1>9, <1>10 DEF TermsInvariant, Reviewed, Approved

(* An edit of the channel, a recipient or the notification address.        *)
LEMMA ReplanTerms ==
  ASSUME TermsInvariant, NEW next \in Plans, Replan(next),
         next.goalType = plan.goalType, next.sharedFields = plan.sharedFields,
         next.requirement = plan.requirement, next.message = plan.message,
         next.channelType = "MANAGED_EMAIL" => next.allowedRecipient # "merchant"
  PROVE  TermsInvariant'
PROOF
  <1>1. /\ phase = "review" /\ phase' = "review" /\ plan.version < MaxVersion
        /\ plan' = [next EXCEPT !.version = plan.version + 1]
        /\ UNCHANGED <<extraction, goal, identity, approval>>
    BY DEF Replan, Editable
  <1>2. plan \in Plans /\ Parses(plan) /\ GoalFollows /\ PlanFollows
    BY <1>1 DEF TermsInvariant, TermsTypeOK, Reviewed
  <1>3. plan.version + 1 \in 1..MaxVersion
    BY <1>1, <1>2, TermsAssumption DEF Plans
  <1>4. plan' \in Plans
    BY <1>1, <1>3 DEF Plans
  <1>5. /\ plan'.goalType = plan.goalType /\ plan'.sharedFields = plan.sharedFields
        /\ plan'.requirement = plan.requirement /\ plan'.message = plan.message
        /\ plan'.channelType = next.channelType
        /\ plan'.allowedRecipient = next.allowedRecipient
    BY <1>1 DEF Plans
  <1>6. Parses(plan')
    BY <1>2, <1>5 DEF Parses
  <1>7. TermsTypeOK'
    BY <1>1, <1>4, <1>6 DEF TermsInvariant, TermsTypeOK, Parses
  <1>8. GoalFollows' /\ PlanFollows'
    BY <1>1, <1>2, <1>5 DEF GoalFollows, PlanFollows
  <1> QED
    BY <1>1, <1>7, <1>8 DEF TermsInvariant, Reviewed, Approved

LEMMA EditTerms ==
  TermsInvariant /\ (SaveRecipient \/ SaveNotification \/ SelectChannel) => TermsInvariant'
PROOF
  <1> SUFFICES ASSUME TermsInvariant, SaveRecipient \/ SaveNotification \/ SelectChannel
               PROVE  TermsInvariant'
    OBVIOUS
  <1>1. phase = "review"
    BY DEF SaveRecipient, SaveNotification, SelectChannel, Replan, Editable
  <1>2. plan \in Plans /\ (plan.channelType = "MANAGED_EMAIL" => plan.allowedRecipient # "merchant")
    BY <1>1 DEF TermsInvariant, TermsTypeOK, Reviewed, PlanFollows
  <1>3. CASE SaveRecipient
    <2>1. PICK a \in CompanyAddresses : Replan([plan EXCEPT !.allowedRecipient = a])
      BY <1>3 DEF SaveRecipient
    <2>2. a # "merchant"
      BY DEF CompanyAddresses
    <2> QED
      BY <1>2, <2>1, <2>2, ReplanTerms DEF Plans
  <1>4. CASE SaveNotification
    <2>1. PICK a \in {"owner", "other"} : Replan([plan EXCEPT !.notificationRecipient = a])
      BY <1>4 DEF SaveNotification
    <2> QED
      BY <1>2, <2>1, ReplanTerms DEF Plans
  <1>5. CASE SelectChannel
    <2>1. PICK c \in AvailableChannels \ {plan.channelType} :
            \E a \in ChannelRecipients(c) :
              Replan([plan EXCEPT !.channelType = c, !.allowedRecipient = a])
      BY <1>5 DEF SelectChannel
    <2>2. PICK a \in ChannelRecipients(c) :
            Replan([plan EXCEPT !.channelType = c, !.allowedRecipient = a])
      BY <2>1
    <2>3. c \in Channels /\ a \in CompanyAddresses \cup {"merchant", "placeholder"}
      BY TermsAssumption DEF ChannelRecipients
    <2>4. c = "MANAGED_EMAIL" => a # "merchant"
      BY TermsAssumption DEF ChannelRecipients, CompanyAddresses
    <2> QED
      BY <1>2, <2>2, <2>3, <2>4, ReplanTerms DEF Plans
  <1> QED
    BY <1>3, <1>4, <1>5

(* The steps of an approval and of the run change neither goal nor plan.   *)
LEMMA SettledTerms ==
  ASSUME TermsInvariant, UNCHANGED <<extraction, goal, plan>>, TermsTypeOK',
         phase' \in {"intake", "invalid"} => phase' = phase,
         Reviewed' => Reviewed,
         Approved' => BlockingFields(goal, plan) = {}
  PROVE  TermsInvariant'
PROOF
  <1>1. Reviewed' => GoalFollows' /\ PlanFollows'
    BY DEF TermsInvariant, GoalFollows, PlanFollows
  <1>2. Approved' => BlockingFields(goal', plan') = {}
    OBVIOUS
  <1>3. phase' = "invalid" => ~Parses(NewPlan(extraction'))
    BY DEF TermsInvariant
  <1> QED
    BY <1>1, <1>2, <1>3 DEF TermsInvariant, Reviewed

LEMMA ApprovalTerms ==
  TermsInvariant /\ (LinkGoogle \/ SendApproval \/ CheckApproval \/ Approve) => TermsInvariant'
PROOF
  <1> SUFFICES ASSUME TermsInvariant, LinkGoogle \/ SendApproval \/ CheckApproval \/ Approve
               PROVE  TermsInvariant'
    OBVIOUS
  <1>1. TermsTypeOK
    BY DEF TermsInvariant
  <1>2. CASE LinkGoogle
    <2>1. TermsTypeOK'
      BY <1>1, <1>2 DEF LinkGoogle, TermsTypeOK
    <2> QED
      BY <1>2, <2>1, SettledTerms DEF LinkGoogle, TermsInvariant, Reviewed, Approved
  <1>3. CASE SendApproval
    <2>1. plan.version \in 0..MaxVersion
      BY <1>1, <1>3, TermsAssumption DEF SendApproval, TermsTypeOK, Plans
    <2>2. TermsTypeOK'
      BY <1>1, <1>3, <2>1 DEF SendApproval, TermsTypeOK
    <2> QED
      BY <1>3, <2>2, SettledTerms DEF SendApproval, TermsInvariant, Reviewed, Approved
  <1>4. CASE CheckApproval
    <2>1. approval' \in [pc: {"idle", "check", "approve"}, expected: 0..MaxVersion,
                         identity: {"anonymous", "google"}]
      BY <1>1, <1>4, TermsAssumption DEF CheckApproval, TermsTypeOK, NoApproval
    <2>2. TermsTypeOK'
      BY <1>1, <1>4, <2>1 DEF CheckApproval, TermsTypeOK
    <2> QED
      BY <1>4, <2>2, SettledTerms DEF CheckApproval, TermsInvariant, Reviewed, Approved
  <1>5. CASE Approve
    <2>1. approval' \in [pc: {"idle", "check", "approve"}, expected: 0..MaxVersion,
                         identity: {"anonymous", "google"}]
      BY <1>5, TermsAssumption DEF Approve, NoApproval
    <2>2. TermsTypeOK'
      BY <1>1, <1>5, <2>1 DEF Approve, Approvable, TermsTypeOK
    <2>3. /\ phase' \in {"intake", "invalid"} => phase' = phase
          /\ Reviewed' => Reviewed
          /\ Approved' => Approved \/ BlockingFields(goal, plan) = {}
      BY <1>5 DEF Approve, Approvable, Reviewed, Approved
    <2>4. Approved' => BlockingFields(goal, plan) = {}
      BY <2>3 DEF TermsInvariant
    <2>5. UNCHANGED <<extraction, goal, plan>>
      BY <1>5 DEF Approve
    <2> QED
      BY <2>2, <2>3, <2>4, <2>5, SettledTerms
  <1> QED
    BY <1>2, <1>3, <1>4, <1>5

LEMMA RunTerms ==
  TermsInvariant /\ (FirstRun \/ CompanyConfirms) => TermsInvariant'
PROOF
  <1> SUFFICES ASSUME TermsInvariant, FirstRun \/ CompanyConfirms
               PROVE  TermsInvariant'
    OBVIOUS
  <1>1. /\ phase \in {"ready", "sent"}
        /\ phase' \in {"denied", "undeliverable", "sent", "confirmed", "refused"}
        /\ UNCHANGED <<extraction, goal, plan, identity, approval>>
    BY DEF FirstRun, CompanyConfirms
  <1>2. TermsTypeOK'
    BY <1>1 DEF TermsInvariant, TermsTypeOK
  <1>3. BlockingFields(goal, plan) = {}
    BY <1>1 DEF TermsInvariant, Approved
  <1> QED
    BY <1>1, <1>2, <1>3, SettledTerms DEF Reviewed, Approved

LEMMA NextTerms == TermsInvariant /\ [Next]_vars => TermsInvariant'
PROOF
  <1> SUFFICES ASSUME TermsInvariant, [Next]_vars PROVE TermsInvariant'
    OBVIOUS
  <1>1. CASE UNCHANGED vars
    <2>1. UNCHANGED <<phase, extraction, goal, plan, identity, approval>>
      BY <1>1 DEF vars
    <2>2. TermsTypeOK'
      BY <2>1 DEF TermsInvariant, TermsTypeOK
    <2> QED
      BY <2>1, <2>2, SettledTerms DEF TermsInvariant, Reviewed, Approved
  <1>2. CASE Next
    BY <1>2, IntakeTerms, SaveContractTerms, EditTerms, ApprovalTerms, RunTerms DEF Next
  <1> QED
    BY <1>1, <1>2

(* The types hold for any number of edits.                                 *)
THEOREM TermsTyped == Spec => []TermsTypeOK
PROOF
  <1>1. TermsInvariant => TermsTypeOK
    BY DEF TermsInvariant
  <1> QED
    BY <1>1, InitTerms, NextTerms, PTL DEF Spec

-----------------------------------------------------------------------------
(* A plan that follows a goal is authorized if and only if the goal names  *)
(* no money beside the extracted one.                                      *)
LEMMA AuthorizedIfExtracted ==
  ASSUME NEW e \in Extractions, NEW g \in Goals, NEW p,
         p.requirement = Requirement(g, NewSubject(e)),
         p.sharedFields = SharedFields(e)
  PROVE  Authorized(p) <=> \A f \in Money : g.terms[f] # "none" => e.terms[f] # "none"
PROOF
  <1>1. \A f \in Money : p.requirement[f] = g.terms[f]
    BY DEF Requirement, Money
  <1>2. p.requirement["subject"] # "none" => "subject" \in p.sharedFields
    BY DEF Requirement, NewSubject, SharedFields
  <1>3. "transactionRef" \in p.sharedFields
    BY DEF SharedFields
  <1>4. \A f \in Money : f \in p.sharedFields <=> e.terms[f] # "none"
    BY DEF SharedFields, Given, Money, Terms
  <1>5. Proposed(p) = {"transactionRef"} \cup
                      {f \in Money \cup {"subject"} : p.requirement[f] # "none"}
    BY DEF Proposed
  <1>6. "subject" \notin Money /\ "transactionRef" \notin Money
    BY DEF Money
  <1> QED
    BY <1>1, <1>2, <1>3, <1>4, <1>5, <1>6 DEF Authorized

(* A mission that ended did so on the plan it still has.                   *)
EndsAsJudged ==
  /\ phase = "denied" => ~Authorized(plan)
  /\ phase = "undeliverable" => ~Deliverable(plan)
  /\ phase = "refused" => ~Confirms(plan) /\ plan.channelType = "MANAGED_EMAIL"

LEMMA NextJudged == EndsAsJudged /\ [Next]_vars => EndsAsJudged'
PROOF
  <1> SUFFICES ASSUME EndsAsJudged, [Next]_vars PROVE EndsAsJudged'
    OBVIOUS
  <1>1. CASE FirstRun
    BY <1>1 DEF FirstRun, EndsAsJudged, Authorized, Proposed, Deliverable
  <1>2. CASE CompanyConfirms
    BY <1>2 DEF CompanyConfirms, EndsAsJudged, Confirms
  <1>3. CASE Intake \/ SaveContract \/ SaveRecipient \/ SaveNotification \/ SelectChannel
    <2>1. phase' \in {"review", "invalid"}
      BY <1>3 DEF Intake, SaveContract, SaveRecipient, SaveNotification, SelectChannel,
                  Replan, Editable
    <2> QED
      BY <2>1 DEF EndsAsJudged
  <1>4. CASE LinkGoogle \/ SendApproval \/ CheckApproval \/ Approve \/ UNCHANGED vars
    <2>1. plan' = plan /\ (phase' = phase \/ phase' = "ready")
      BY <1>4 DEF LinkGoogle, SendApproval, CheckApproval, Approve, vars
    <2> QED
      BY <2>1 DEF EndsAsJudged, Authorized, Proposed, Deliverable, Confirms
  <1> QED
    BY <1>1, <1>2, <1>3, <1>4 DEF Next

(* Money that a nonblocked goal names is whole.                            *)
LEMMA UnblockedWhole ==
  ASSUME NEW g \in Goals, NEW p, BlockingFields(g, p) = {}
  PROVE  g.terms["amountMinor"] # "none" <=> g.terms["currency"] # "none"
PROOF
  <1>1. \A f \in Asked(g) : f \in Terms => g.terms[f] # "none"
    BY DEF BlockingFields
  <1>2. g.terms["amountMinor"] # "none" \/ g.terms["currency"] # "none" => Money \subseteq Asked(g)
    BY DEF Asked, Given, Money, Terms
  <1> QED
    BY <1>1, <1>2 DEF Money, Terms

(* Money and reference are confirmed as the requirement asks for them; only*)
(* the subject of a replacement can differ.                                *)
LEMMA RefusedForSubject ==
  ASSUME NEW e \in Extractions, NEW g \in Goals, NEW p, BlockingFields(g, p) = {},
         p.requirement = Requirement(g, NewSubject(e)), p.message = Message(g),
         ~Confirms(p)
  PROVE  PlanType(e) = "REPLACEMENT" /\ e.terms["result"] # g.terms["result"]
PROOF
  <1>1. g.terms["amountMinor"] # "none" <=> g.terms["currency"] # "none"
    BY UnblockedWhole
  <1>2. ASSUME NEW f \in Money
        PROVE  p.requirement[f] \in {"none", p.message.money[f]}
    <2>1. p.requirement[f] = g.terms[f]
      BY DEF Requirement, Money
    <2>2. CASE Money \subseteq Given(g.terms)
      BY <2>1, <2>2 DEF Message
    <2>3. CASE ~(Money \subseteq Given(g.terms))
      BY <1>1, <2>1, <2>3 DEF Given, Money, Terms
    <2> QED
      BY <2>2, <2>3
  <1>3. p.requirement.transactionRef = p.message.transactionRef
    BY DEF Requirement, Message
  <1>4. p.requirement.subject \notin {"none", p.message.result}
    BY <1>2, <1>3 DEF Confirms
  <1> QED
    BY <1>4 DEF Requirement, Message, NewSubject

(* An intake is refused only for money that is missing from a refund.      *)
LEMMA RefusedRefund ==
  ASSUME NEW e \in Extractions, ~Parses(NewPlan(e))
  PROVE  e.type \in {"REFUND", "none"} /\ ~(Money \subseteq Given(e.terms))
PROOF
  <1>1. NewPlan(e).goalType = PlanType(e)
        /\ NewPlan(e).requirement = Requirement(e, NewSubject(e))
    BY DEF NewPlan
  <1>2. e.terms["result"] # "none"
    BY ExtractionTyped DEF Given, Terms, Money
  <1>3. PlanType(e) # "BILL_CREDIT"
    BY DEF PlanType
  <1>4. PlanType(e) = "REPLACEMENT" => NewPlan(e).requirement.subject # "none"
    BY <1>1, <1>2 DEF Requirement, NewSubject
  <1>5. PlanType(e) = "REFUND" /\ (e.terms["amountMinor"] = "none" \/ e.terms["currency"] = "none")
    BY <1>1, <1>3, <1>4 DEF Parses, Requirement
  <1>6. e.type \in {"REFUND", "none"}
    BY <1>5 DEF PlanType
  <1> QED
    BY <1>5, <1>6 DEF Given, Money, Terms

LEMMA InvariantExplains == TermsInvariant /\ EndsAsJudged => FailureExplained
PROOF
  <1> SUFFICES ASSUME TermsInvariant, EndsAsJudged PROVE FailureExplained
    OBVIOUS
  <1>1. extraction \in Extractions /\ goal \in Goals
    BY DEF TermsInvariant, TermsTypeOK
  <1>2. ASSUME phase = "invalid"
        PROVE  extraction.type \in {"REFUND", "none"} /\ ~(Money \subseteq Given(extraction.terms))
    BY <1>1, <1>2, RefusedRefund DEF TermsInvariant
  <1>3. ASSUME phase = "denied" PROVE MoneyAdded
    <2>1. PlanFollows /\ ~Authorized(plan)
      BY <1>3 DEF TermsInvariant, Reviewed, EndsAsJudged
    <2> QED
      BY <1>1, <2>1, AuthorizedIfExtracted DEF PlanFollows, MoneyAdded
  <1>4. ASSUME phase = "undeliverable" PROVE plan.allowedRecipient = "outsider"
    <2>1. PlanFollows /\ plan \in Plans /\ ~Deliverable(plan) /\ BlockingFields(goal, plan) = {}
      BY <1>4 DEF TermsInvariant, TermsTypeOK, Reviewed, Approved, EndsAsJudged
    <2>2. plan.allowedRecipient # "placeholder"
      BY <2>1 DEF BlockingFields
    <2> QED
      BY <2>1, <2>2 DEF PlanFollows, Plans, CompanyAddresses, Deliverable
  <1>5. ASSUME phase = "refused"
        PROVE  plan.goalType = "REPLACEMENT" /\ goal.terms["result"] = "corrected"
    <2>1. PlanFollows /\ GoalFollows /\ ~Confirms(plan) /\ BlockingFields(goal, plan) = {}
      BY <1>5 DEF TermsInvariant, Reviewed, Approved, EndsAsJudged
    <2>2. PlanType(extraction) = "REPLACEMENT"
          /\ extraction.terms["result"] # goal.terms["result"]
      BY <1>1, <2>1, RefusedForSubject DEF PlanFollows
    <2>3. goal.terms["result"] \in {"extracted", "corrected"}
      BY <1>1, <2>1 DEF GoalFollows, Given, Goals, Terms, Money, Values
    <2>4. goal.terms["result"] # "extracted"
      BY <2>1, <2>2 DEF GoalFollows, Terms
    <2> QED
      BY <2>1, <2>2, <2>3, <2>4 DEF PlanFollows
  <1> QED
    BY <1>2, <1>3, <1>4, <1>5 DEF FailureExplained

(* A mission fails for what its plan says in four ways only.               *)
THEOREM FailureExplainedHolds == Spec => []FailureExplained
PROOF
  <1>1. Init => EndsAsJudged
    BY DEF Init, EndsAsJudged
  <1> QED
    BY <1>1, InitTerms, NextTerms, NextJudged, InvariantExplains, PTL DEF Spec

-----------------------------------------------------------------------------
(* The contract to save: the extraction, without half of its money.        *)
Restored(e) ==
  [f \in Terms |-> IF f \in Money /\ ~(Money \subseteq Given(e.terms)) THEN "none"
                   ELSE e.terms[f]]

LEMMA InvariantCorrectable == TermsInvariant => Correctable
PROOF
  <1> SUFFICES ASSUME TermsInvariant, phase = "review" PROVE Correctable
    BY DEF Correctable
  <1>1. /\ extraction \in Extractions /\ extraction \in Goals /\ goal \in Goals
        /\ plan \in Plans /\ Parses(plan) /\ GoalFollows /\ PlanFollows
    BY DEF TermsInvariant, TermsTypeOK, Reviewed
  <1>2. ASSUME NEW terms \in ContractEdits(goal)
        PROVE  /\ RevisedGoal(terms) \in Goals
               /\ RevisedGoal(terms).terms = terms
               /\ RevisedGoal(terms).type = extraction.type
               /\ RevisedGoal(terms).unsure = {}
               /\ RevisedPlan(RevisedGoal(terms)).requirement =
                    Requirement(RevisedGoal(terms), NewSubject(extraction))
               /\ RevisedPlan(RevisedGoal(terms)).sharedFields = SharedFields(extraction)
               /\ RevisedPlan(RevisedGoal(terms)).goalType = PlanType(extraction)
    <2>1. RevisedGoal(terms) \in Goals /\ RevisedGoal(terms).terms = terms
          /\ RevisedGoal(terms).type = goal.type /\ RevisedGoal(terms).unsure = {}
      BY <1>1 DEF RevisedGoal, ContractEdits, Goals
    <2>2. plan.requirement.subject = NewSubject(extraction)
      BY <1>1 DEF PlanFollows, Requirement
    <2> QED
      BY <1>1, <2>1, <2>2 DEF RevisedPlan, Plans, GoalFollows, PlanFollows
  <1>3. ASSUME ~MoneyAdded, ~HalfExtracted
        PROVE  \E terms \in ContractEdits(goal) :
                 LET next == RevisedPlan(RevisedGoal(terms)) IN
                 /\ Parses(next)
                 /\ BlockingFields(RevisedGoal(terms), next) \subseteq {"allowedRecipient"}
                 /\ Authorized(next)
    <2> DEFINE terms == Restored(extraction)
               next == RevisedPlan(RevisedGoal(terms))
    <2>1. terms \in ContractEdits(goal)
      <3>1. terms \in [Terms -> Values]
        BY <1>1 DEF Restored, Goals, Values
      <3>2. Terms \ Money \subseteq Given(terms)
        BY <1>1, ExtractionTyped DEF Restored, Given
      <3>3. Money \subseteq Given(terms) \/ Money \cap Given(terms) = {}
        BY DEF Restored, Given, Terms, Money
      <3>4. Money \subseteq Given(goal.terms) => Money \subseteq Given(extraction.terms)
        BY <1>3 DEF MoneyAdded, Given, Terms, Money
      <3>5. Money \subseteq Given(extraction.terms) => Money \subseteq Given(terms)
        BY DEF Restored, Given, Terms, Money
      <3>6. \A f \in Terms : terms[f] = "extracted" => extraction.terms[f] = "extracted"
        BY DEF Restored
      <3> QED
        BY <3>1, <3>2, <3>3, <3>4, <3>5, <3>6 DEF ContractEdits
    <2> HIDE DEF terms
    <2>2. \A f \in Money : terms[f] # "none" => extraction.terms[f] # "none"
      BY DEF terms, Restored, Terms
    <2>3. PlanType(extraction) = "REFUND" => Money \subseteq Given(extraction.terms)
      <3>1. CASE extraction.type = "REFUND" \/ PlanType(extraction) = "REFUND"
        <4>1. plan.goalType = "REFUND" => goal.terms["amountMinor"] # "none" /\ goal.terms["currency"] # "none"
          BY <1>1 DEF Parses, PlanFollows, Requirement
        <4> QED
          BY <1>1, <1>3, <4>1 DEF PlanFollows, MoneyAdded, Given, Terms, Money
      <3> QED
        BY <3>1
    <2>4. PlanType(extraction) = "REFUND" \/ extraction.type \in {"REFUND", "BILL_CREDIT"} =>
            Money \subseteq Given(terms)
      BY <1>3, <2>3 DEF PlanType, HalfExtracted, terms, Restored, Given, Terms, Money
    <2>5. Parses(next)
      <3>1. next.requirement = Requirement(RevisedGoal(terms), NewSubject(extraction))
            /\ next.goalType = PlanType(extraction) /\ RevisedGoal(terms).terms = terms
        BY <1>2, <2>1
      <3>2. PlanType(extraction) # "BILL_CREDIT"
        BY DEF PlanType
      <3>3. PlanType(extraction) = "REPLACEMENT" => NewSubject(extraction) # "none"
        BY <1>1, ExtractionTyped DEF NewSubject, Given, Terms, Money
      <3>4. PlanType(extraction) = "REFUND" => terms["amountMinor"] # "none" /\ terms["currency"] # "none"
        BY <2>4 DEF Given, Money
      <3> QED
        BY <3>1, <3>2, <3>3, <3>4 DEF Parses, Requirement
    <2>6. BlockingFields(RevisedGoal(terms), next) \subseteq {"allowedRecipient"}
      <3>1. RevisedGoal(terms).terms = terms /\ RevisedGoal(terms).unsure = {}
            /\ RevisedGoal(terms).type = extraction.type
        BY <1>2, <2>1
      <3>2. Terms \ Money \subseteq Given(terms)
            /\ (Money \subseteq Given(terms) \/ Money \cap Given(terms) = {})
        BY <2>1 DEF ContractEdits
      <3>3. \A f \in Asked(RevisedGoal(terms)) : f \in Terms => f \in Given(terms)
        BY <2>4, <3>1, <3>2 DEF Asked, Money, Terms
      <3> QED
        BY <3>1, <3>3 DEF BlockingFields, Given
    <2>7. Authorized(next)
      <3>1. RevisedGoal(terms) \in Goals /\ RevisedGoal(terms).terms = terms
            /\ next.requirement = Requirement(RevisedGoal(terms), NewSubject(extraction))
            /\ next.sharedFields = SharedFields(extraction)
        BY <1>2, <2>1
      <3> QED
        BY <1>1, <2>2, <3>1, AuthorizedIfExtracted
    <2> QED
      BY <2>1, <2>5, <2>6, <2>7
  <1>4. ASSUME NEW terms \in ContractEdits(goal),
               BlockingFields(RevisedGoal(terms), RevisedPlan(RevisedGoal(terms)))
                 \subseteq {"allowedRecipient"},
               Authorized(RevisedPlan(RevisedGoal(terms)))
        PROVE  ~MoneyAdded /\ ~HalfExtracted
    <2>1. \A f \in Money : terms[f] # "none" => extraction.terms[f] # "none"
      BY <1>1, <1>2, <1>4, AuthorizedIfExtracted
    <2>2. ~HalfExtracted
      <3>1. ASSUME extraction.type = "BILL_CREDIT" PROVE Money \subseteq Given(terms)
        <4>1. Money \subseteq Asked(RevisedGoal(terms))
          BY <1>2, <3>1 DEF Asked
        <4>2. \A f \in Money : f \notin BlockingFields(RevisedGoal(terms), RevisedPlan(RevisedGoal(terms)))
          BY <1>4 DEF Money
        <4> QED
          BY <1>2, <4>1, <4>2 DEF BlockingFields, Given, Money, Terms
      <3> QED
        BY <2>1, <3>1 DEF HalfExtracted, Given, Money, Terms
    <2>3. ~MoneyAdded
      <3>1. ASSUME MoneyAdded PROVE Money \subseteq Given(goal.terms)
        <4>1. goal # extraction
          BY <3>1 DEF MoneyAdded
        <4>2. Whole(goal.terms)
          BY <1>1, <4>1 DEF GoalFollows
        <4> QED
          BY <3>1, <4>2 DEF Whole, MoneyAdded, Given, Money, Terms
      <3>2. Money \subseteq Given(goal.terms) => Money \subseteq Given(terms)
        BY DEF ContractEdits
      <3> QED
        BY <2>1, <3>1, <3>2 DEF MoneyAdded, Given
    <2> QED
      BY <2>2, <2>3
  <1> QED
    BY <1>3, <1>4 DEF Correctable

(* A draft can be corrected into a plan that runs if and only if the owner *)
(* added no money to it and the model extracted a bill credit's.           *)
THEOREM CorrectableHolds == Spec => []Correctable
  BY InitTerms, NextTerms, InvariantCorrectable, PTL DEF Spec
=============================================================================
