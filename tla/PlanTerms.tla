------------------------------ MODULE PlanTerms ------------------------------
(***************************************************************************)
(* What a plan says, from the promise the model extracted to the company's *)
(* answer: buildPlan of the intake, the edits the review page offers       *)
(* (PlanService.revise and selectChannel), the checks of an approval, the  *)
(* policy check of the first action and the verdict on a confirmation.     *)
(*                                                                         *)
(* A value is the one extracted, a corrected one, or absent.  An edit made *)
(* on an older page is refused without effect, so edits carry the current  *)
(* version; the races of the store are the subject of PlanApproval.  Every *)
(* intake uses the controlled sandbox, whose plans have a followUpAt, so   *)
(* no date is ever missing.  The promisor's wording reaches no check.      *)
(***************************************************************************)
EXTENDS Naturals, FiniteSets

CONSTANTS
  AvailableChannels,  \* channels the environment has configured
  DefaultRecipients,  \* COMPANY_EMAIL_DEFAULT_RECIPIENT, or the placeholder
  MaxUnsure,          \* fields the model marked uncertain: bounds the model
  MaxVersion          \* versions of the plan: bounds the model

Channels == {"CONTROLLED_SANDBOX", "MANAGED_EMAIL"}
CompanyAddresses == {"company", "outsider"}  \* inside, outside the allowed domains

ASSUME TermsAssumption ==
  /\ AvailableChannels \subseteq Channels
  /\ DefaultRecipients \subseteq CompanyAddresses \cup {"placeholder"}
  /\ MaxUnsure \in Nat /\ MaxVersion \in Nat \ {0}

VARIABLES
  phase,       \* how far the mission has come, or why it stopped
  extraction,  \* the MissionGoal as the model extracted it
  goal,        \* promiseDraft
  plan,
  identity,    \* the owner's sign-in provider
  approval     \* the approve request under way

vars == <<phase, extraction, goal, plan, identity, approval>>

-----------------------------------------------------------------------------
GoalTypes == {"REFUND", "BILL_CREDIT", "REPLACEMENT", "GENERAL"}
Money == {"amountMinor", "currency"}
Terms == {"result", "transactionRef"} \cup Money
Critical == {"promisor"} \cup Terms
Values == {"none", "extracted", "corrected"}

Goals == [type: GoalTypes \cup {"none"}, terms: [Terms -> Values], unsure: SUBSET Critical]

Given(terms) == {f \in Terms : terms[f] # "none"}
Extractions ==
  {g \in Goals :
     /\ \A f \in Terms : g.terms[f] # "corrected"
     /\ Terms \ Money \subseteq Given(g.terms)
     /\ g.unsure \subseteq Given(g.terms) \cup {"promisor"}
     /\ Cardinality(g.unsure) <= MaxUnsure}

(* A bill credit becomes a general follow-up; a promise of no type is a    *)
(* refund as soon as it names money.                                       *)
PlanType(g) ==
  IF g.type = "BILL_CREDIT" THEN "GENERAL"
  ELSE IF g.type # "none" THEN g.type
  ELSE IF Given(g.terms) \cap Money # {} THEN "REFUND" ELSE "GENERAL"

SharedResult(g) ==  \* mutant of SharedFields
  {"transactionRef", "result"} \cup (Given(g.terms) \cap Money)
SharedReference(g) == {"transactionRef"}  \* mutant of SharedFields
SharedFields(g) ==
  {"transactionRef"} \cup (Given(g.terms) \cap Money)
    \cup (IF PlanType(g) = "REPLACEMENT" THEN {"subject"} ELSE {})

(* The requirement's subject is the result, for a replacement only; the    *)
(* outcome must then carry a tracking number too.                          *)
NewSubject(g) == IF PlanType(g) = "REPLACEMENT" THEN g.terms["result"] ELSE "none"
Requirement(g, subject) ==
  [amountMinor |-> g.terms["amountMinor"], currency |-> g.terms["currency"],
   transactionRef |-> g.terms["transactionRef"], subject |-> subject]

(* followUpMessage: the amount is named when both its parts are there.     *)
Message(g) ==
  [result |-> g.terms["result"], transactionRef |-> g.terms["transactionRef"],
   money |-> IF Money \subseteq Given(g.terms) THEN [f \in Money |-> g.terms[f]]
             ELSE [f \in Money |-> "none"]]

Plans ==
  [version: 1..MaxVersion, goalType: GoalTypes, channelType: Channels,
   allowedRecipient: CompanyAddresses \cup {"merchant", "placeholder"},
   notificationRecipient: {"none", "owner", "other"},
   sharedFields: SUBSET (Money \cup {"transactionRef", "subject"}),
   requirement: [amountMinor: Values, currency: Values, transactionRef: Values,
                 subject: Values],
   message: [result: Values, transactionRef: Values, money: [Money -> Values]]]

(* resolutionPlanSchema: no plan ever carries a bill period.               *)
Parses(p) ==
  /\ p.goalType \in {"REFUND", "BILL_CREDIT"} =>
       p.requirement.amountMinor # "none" /\ p.requirement.currency # "none"
  /\ p.goalType # "BILL_CREDIT"
  /\ p.goalType = "REPLACEMENT" => p.requirement.subject # "none"

NewPlan(g) ==
  [version |-> 1, goalType |-> PlanType(g), channelType |-> "CONTROLLED_SANDBOX",
   allowedRecipient |-> "merchant", notificationRecipient |-> "none",
   sharedFields |-> SharedFields(g), requirement |-> Requirement(g, NewSubject(g)),
   message |-> Message(g)]

NoPlan == [version |-> 0, goalType |-> "none", channelType |-> "none",
           allowedRecipient |-> "none", notificationRecipient |-> "none",
           sharedFields |-> {}, requirement |-> {}, message |-> {}]

(* revisedPlan: rebuilt from the goal but for its type, its shared fields  *)
(* and the requirement's subject, which stay as intake set them.           *)
RevisedPlanStale(g) ==  \* mutant of RevisedPlan
  [plan EXCEPT !.version = @ + 1,
               !.requirement = Requirement(g, plan.requirement.subject)]
RevisedPlan(g) ==
  [plan EXCEPT !.version = @ + 1,
               !.requirement = Requirement(g, plan.requirement.subject),
               !.message = Message(g)]

(* blockingCriticalFields, by the type the model extracted and not by that *)
(* of the plan.                                                            *)
Asked(g) ==
  {"promisor", "result", "transactionRef"} \cup
    (IF g.type \in {"REFUND", "BILL_CREDIT"} \/ Given(g.terms) \cap Money # {}
     THEN Money ELSE {})
BlockingFields(g, p) ==
  {f \in Asked(g) : f \in g.unsure \/ (f \in Terms /\ g.terms[f] = "none")}
    \cup (IF p.allowedRecipient = "placeholder" THEN {"allowedRecipient"} ELSE {})

NoApproval == [pc |-> "idle", expected |-> 0, identity |-> "anonymous"]

TermsTypeOK ==
  /\ phase \in {"intake", "invalid", "review", "ready", "denied", "undeliverable", "sent",
                "confirmed", "refused"}
  /\ extraction \in Goals /\ goal \in Goals
  /\ phase \in {"intake", "invalid"} \/ (plan \in Plans /\ Parses(plan))
  /\ identity \in {"anonymous", "google"}
  /\ approval \in [pc: {"idle", "check", "approve"}, expected: 0..MaxVersion,
                   identity: {"anonymous", "google"}]

-----------------------------------------------------------------------------
Init ==
  /\ phase = "intake"
  /\ extraction \in Extractions
  /\ goal = extraction
  /\ plan = NoPlan
  /\ identity = "anonymous"
  /\ approval = NoApproval

Intake ==
  /\ phase = "intake"
  /\ IF Parses(NewPlan(extraction))
     THEN phase' = "review" /\ plan' = NewPlan(extraction)
     ELSE phase' = "invalid" /\ UNCHANGED plan
  /\ UNCHANGED <<extraction, goal, identity, approval>>

Editable == phase = "review" /\ plan.version < MaxVersion

(* saveContract sends every term, money as both of its parts or neither;   *)
(* the page refuses to drop both from a promise that names both.  A        *)
(* corrected field is certain.                                             *)
ContractEdits(g) ==
  {terms \in [Terms -> Values] :
     /\ Terms \ Money \subseteq Given(terms)
     /\ Money \subseteq Given(terms) \/ Money \cap Given(terms) = {}
     /\ Money \subseteq Given(g.terms) => Money \subseteq Given(terms)
     /\ \A f \in Terms : terms[f] = "extracted" => extraction.terms[f] = "extracted"}
RevisedGoal(terms) == [goal EXCEPT !.terms = terms, !.unsure = {}]

SaveContract ==
  /\ Editable
  /\ \E terms \in ContractEdits(goal) :
       LET next == RevisedPlan(RevisedGoal(terms)) IN
       /\ Parses(next)
       /\ goal' = RevisedGoal(terms)
       /\ plan' = next
  /\ UNCHANGED <<phase, extraction, identity, approval>>

Replan(next) ==
  /\ Editable
  /\ plan' = [next EXCEPT !.version = plan.version + 1]
  /\ UNCHANGED <<phase, extraction, goal, identity, approval>>

SaveRecipient ==
  /\ plan.channelType = "MANAGED_EMAIL"
  /\ \E a \in CompanyAddresses : Replan([plan EXCEPT !.allowedRecipient = a])

(* With email the page saves the verified address alone; for the sandbox   *)
(* any address will do.                                                    *)
SaveNotification ==
  \E a \in {"owner", "other"} :
    /\ plan.channelType = "MANAGED_EMAIL" => identity = "google" /\ a = "owner"
    /\ Replan([plan EXCEPT !.notificationRecipient = a])

(* The controller's resolveChannel names the recipient: the sandbox's      *)
(* merchant, or what the environment gives for email.                      *)
ChannelRecipients(c) == IF c = "MANAGED_EMAIL" THEN DefaultRecipients ELSE {"merchant"}
SelectChannel ==
  \E c \in AvailableChannels \ {plan.channelType} : \E a \in ChannelRecipients(c) :
    Replan([plan EXCEPT !.channelType = c, !.allowedRecipient = a])

LinkGoogle ==
  /\ phase = "review" /\ identity = "anonymous"
  /\ identity' = "google"
  /\ UNCHANGED <<phase, extraction, goal, plan, approval>>

-----------------------------------------------------------------------------
(* An approve request: the page sends it for the plan it shows, the        *)
(* controller reads the draft and checks it, the service reads it again.   *)
(* Other tabs edit the plan in between.                                    *)
SendApproval ==
  /\ phase = "review" /\ approval.pc = "idle"
  /\ BlockingFields(goal, plan) = {}
  /\ plan.channelType \in AvailableChannels
  /\ plan.channelType = "MANAGED_EMAIL" => identity = "google"
  /\ approval' = [pc |-> "check", expected |-> plan.version, identity |-> identity]
  /\ UNCHANGED <<phase, extraction, goal, plan, identity>>

ControllerAccepts(who) ==
  /\ plan.channelType \in AvailableChannels
  /\ plan.channelType = "MANAGED_EMAIL" =>
       who = "google" /\ plan.notificationRecipient \in {"none", "owner"}

CheckApproval ==
  /\ approval.pc = "check"
  /\ approval' = IF ControllerAccepts(approval.identity)
                 THEN [approval EXCEPT !.pc = "approve"] ELSE NoApproval
  /\ UNCHANGED <<phase, extraction, goal, plan, identity>>

ApprovableAny == phase = "review" /\ BlockingFields(goal, plan) = {}  \* mutant of Approvable
Approvable ==
  /\ phase = "review"
  /\ plan.version = approval.expected
  /\ BlockingFields(goal, plan) = {}

Approve ==
  /\ approval.pc = "approve"
  /\ phase' = IF Approvable THEN "ready" ELSE phase
  /\ approval' = NoApproval
  /\ UNCHANGED <<extraction, goal, plan, identity>>

-----------------------------------------------------------------------------
(* actionProposal shares what the requirement holds, and the policy allows *)
(* what the plan lists.                                                    *)
Proposed(p) == {"transactionRef"} \cup {f \in Money \cup {"subject"} : p.requirement[f] # "none"}
Authorized(p) == Proposed(p) \subseteq p.sharedFields

(* assertControlledRecipient stands before real email only.                *)
Deliverable(p) == p.channelType = "MANAGED_EMAIL" => p.allowedRecipient = "company"

FirstRun ==
  /\ phase = "ready"
  /\ phase' = IF ~Authorized(plan) THEN "denied"
              ELSE IF ~Deliverable(plan) THEN "undeliverable" ELSE "sent"
  /\ UNCHANGED <<extraction, goal, plan, identity, approval>>

(* verifyOutcome on the email of a company that confirms what the message  *)
(* asked for, with its tracking number.  A requirement that leaves a field *)
(* out accepts any value of it.                                            *)
Confirms(p) ==
  LET required == p.requirement IN
  /\ \A f \in Money : required[f] \in {"none", p.message.money[f]}
  /\ required.transactionRef = p.message.transactionRef
  /\ required.subject \in {"none", p.message.result}

CompanyConfirms ==
  /\ phase = "sent" /\ plan.channelType = "MANAGED_EMAIL"
  /\ phase' = IF Confirms(plan) THEN "confirmed" ELSE "refused"
  /\ UNCHANGED <<extraction, goal, plan, identity, approval>>

-----------------------------------------------------------------------------
Next ==
  \/ Intake
  \/ SaveContract
  \/ SaveRecipient
  \/ SaveNotification
  \/ SelectChannel
  \/ LinkGoogle
  \/ SendApproval
  \/ CheckApproval
  \/ Approve
  \/ FirstRun
  \/ CompanyConfirms

Spec == Init /\ [][Next]_vars

-----------------------------------------------------------------------------
(* From every draft under review, whatever was edited before, one more     *)
(* save of the contract gives a plan that parses, that nothing but the     *)
(* placeholder recipient blocks, and whose first action is authorized.     *)
(* There are two exceptions, and from those no save of the page does: the  *)
(* owner saved money the model had not extracted, which the page then      *)
(* requires and the plan's shared fields refuse; and a bill credit of      *)
(* which it did not extract both parts, which is asked for them by the     *)
(* extracted type and may not share them either.                           *)
MoneyAdded == \E f \in Money : extraction.terms[f] = "none" /\ goal.terms[f] # "none"
HalfExtracted == extraction.type = "BILL_CREDIT" /\ ~(Money \subseteq Given(extraction.terms))
Correctable ==
  phase = "review" =>
    ((~MoneyAdded /\ ~HalfExtracted) <=> \E terms \in ContractEdits(goal) :
      LET next == RevisedPlan(RevisedGoal(terms)) IN
      /\ Parses(next)
      /\ BlockingFields(RevisedGoal(terms), next) \subseteq {"allowedRecipient"}
      /\ Authorized(next))

(* A mission fails for what its plan says in four ways only: intake        *)
(* refuses a refund that lacks half of its money; the first action is      *)
(* denied when the owner added money the model had not extracted; nothing  *)
(* is delivered outside the allowed domains; and a company that confirms   *)
(* what it was asked is refused when the result of a replacement was       *)
(* corrected, because the requirement keeps the old one as its subject.    *)
FailureExplained ==
  /\ phase = "invalid" =>
       extraction.type \in {"REFUND", "none"} /\ ~(Money \subseteq Given(extraction.terms))
  /\ phase = "denied" => MoneyAdded
  /\ phase = "undeliverable" => plan.allowedRecipient = "outsider"
  /\ phase = "refused" => plan.goalType = "REPLACEMENT" /\ goal.terms["result"] = "corrected"

(* What the controller checked holds of the plan that is approved, though  *)
(* it checked another read of the draft: real email goes out only for an   *)
(* owner who can come back, with updates to the verified address or none.  *)
ApprovalChecked ==
  phase \in {"ready", "denied", "undeliverable", "sent", "confirmed", "refused"} =>
    ControllerAccepts(identity)
=============================================================================
