------------------------- MODULE PlanApprovalProofs -------------------------
(***************************************************************************)
(* Theorems about PlanApproval, for any missions and requests, any number  *)
(* of versions and any kinds and number of faults.                         *)
(***************************************************************************)
EXTENDS PlanApproval, TLAPS

-----------------------------------------------------------------------------
(* Why: what is known of a request in progress.                            *)

Edit == {"approve", "revise", "reject"}
Holding == [pc: {"create", "replace", "schedule", "mark", "delete", "control", "cleanup", "purge"},
            what: Command \cup {"intake"}, mission: Missions, seen: Draft \cup {NoDraft},
            expected: 0..MaxVersion]

(* A new mission belongs to the request that creates it: nothing of it is  *)
(* stored, and no other request works on it.                               *)
CreatesFresh(r) ==
  LET m == request[r].mission IN
  At(r, "create") =>
    /\ draft[m] = NoDraft /\ run[m] = NoRun /\ m \notin tombstones \cup approved
    /\ \A q \in Requests : request[q].mission = m => q = r

(* An edit holds a draft, and writes for the version of that draft.        *)
EditsWhatItRead(r) ==
  At(r, "replace") =>
    /\ request[r].what \in Edit /\ request[r].seen \in Draft
    /\ request[r].expected = request[r].seen.plan
    /\ request[r].what = "revise" => request[r].seen.plan < MaxVersion

(* A command on the run names a version a run has had.                     *)
CommandsARun(r) == At(r, "control") => request[r].expected > 0

MarksATask(r) == At(r, "mark") => request[r].mission \in tasks

RequestSound(r) ==
  CreatesFresh(r) /\ EditsWhatItRead(r) /\ CommandsARun(r) /\ MarksATask(r)

(* The event of the approval outlives the run: it is what keeps a second   *)
(* run from starting.                                                      *)
RunsApproved == \A m \in Missions : run[m] # NoRun => m \in approved

PlanInvariant ==
  /\ PlanTypeOK
  /\ \A r \in Requests : RequestSound(r)
  /\ RunsApproved
  /\ DeletionFinal
  /\ DedupeBacked
  /\ ApprovedWoken

-----------------------------------------------------------------------------
(* Nothing is stored and nobody works on anything at first.                *)
LEMMA InitInvariant == Init => PlanInvariant
PROOF
  <1> SUFFICES ASSUME Init PROVE PlanInvariant
    OBVIOUS
  <1>1. PlanTypeOK
    BY PlanAssumption DEF Init, PlanTypeOK, Idle
  <1>2. \A r \in Requests : RequestSound(r)
    BY DEF Init, Idle, RequestSound, CreatesFresh, EditsWhatItRead, CommandsARun, MarksATask, At
  <1>3. RunsApproved /\ DeletionFinal /\ ApprovedWoken
    BY DEF Init, RunsApproved, DeletionFinal, ApprovedWoken, NoRun
  <1>4. DedupeBacked
    BY PlanAssumption DEF Init, DedupeBacked
  <1> QED
    BY <1>1, <1>2, <1>3, <1>4 DEF PlanInvariant

-----------------------------------------------------------------------------
(* What a step leaves alone.                                               *)

(* Which missions a request may work on without disturbing a creation.     *)
NotCreatedBy(r, m) == \A q \in Requests \ {r} : At(q, "create") => request[q].mission # m

(* A step of r on m does not touch what the other requests rely on.        *)
LEMMA OthersSound ==
  ASSUME \A q \in Requests : RequestSound(q), NEW r \in Requests, NEW m \in Missions,
         NotCreatedBy(r, m), PlanTypeOK,
         \A q \in Requests \ {r} : request'[q] = request[q],
         request'[r].mission \in {m, "none"},
         \A n \in Missions \ {m} :
           /\ draft'[n] = draft[n] /\ run'[n] = run[n]
           /\ n \in tombstones' => n \in tombstones
           /\ n \in approved' => n \in approved,
         tasks \subseteq tasks'
  PROVE  \A q \in Requests \ {r} : RequestSound(q)'
PROOF
  <1> SUFFICES ASSUME NEW q \in Requests \ {r} PROVE RequestSound(q)'
    OBVIOUS
  <1>1. RequestSound(q) /\ request'[q] = request[q]
    OBVIOUS
  <1>2. EditsWhatItRead(q)' /\ CommandsARun(q)' /\ MarksATask(q)'
    BY <1>1 DEF RequestSound, EditsWhatItRead, CommandsARun, MarksATask, At
  <1>3. CreatesFresh(q)'
    <2> SUFFICES ASSUME At(q, "create")
                 PROVE  LET n == request[q].mission IN
                        /\ draft'[n] = NoDraft /\ run'[n] = NoRun /\ n \notin tombstones' \cup approved'
                        /\ \A p \in Requests : request'[p].mission = n => p = q
      BY <1>1 DEF CreatesFresh, At
    <2>1. request[q].mission \in Missions \ {m}
      BY DEF NotCreatedBy, At, PlanTypeOK, Idle
    <2>2. CreatesFresh(q)
      BY <1>1 DEF RequestSound
    <2>3. request'[r].mission # request[q].mission
      BY <2>1, PlanAssumption
    <2>4. ASSUME NEW p \in Requests, request'[p].mission = request[q].mission
          PROVE  p = q
      BY <2>2, <2>3, <2>4 DEF CreatesFresh
    <2> QED
      BY <2>1, <2>2, <2>4 DEF CreatesFresh
  <1> QED
    BY <1>2, <1>3 DEF RequestSound

-----------------------------------------------------------------------------
(* Steps that move only a request, and perhaps create a task.              *)

LEMMA RequestOnly ==
  ASSUME PlanInvariant, NEW r \in Requests, NEW x \in Holding \cup {Idle},
         request' = [request EXCEPT ![r] = x],
         UNCHANGED <<documents, intent>>,
         tasks \subseteq tasks', tasks' \subseteq Missions,
         faults' \in 0..MaxFaults, faults <= faults',
         At(r, "cleanup") => faults' > 0,
         RequestSound(r)',
         x.mission = "none" \/ NotCreatedBy(r, x.mission)
  PROVE  PlanInvariant'
PROOF
  <1> USE DEF PlanInvariant
  <1>1. PlanTypeOK'
    BY DEF PlanTypeOK, Holding, documents
  <1>2. \A q \in Requests : RequestSound(q)'
    <2>1. request'[r] = x
      BY DEF PlanTypeOK
    <2>2. CASE x.mission = "none"
      <3>1. ASSUME NEW q \in Requests \ {r} PROVE RequestSound(q)'
        BY <2>1, <2>2, PlanAssumption DEF RequestSound, CreatesFresh, EditsWhatItRead, CommandsARun, MarksATask, At,
             documents, PlanTypeOK, Idle
      <3> QED
        BY <3>1
    <2>3. CASE x.mission # "none"
      <3>1. x.mission \in Missions
        BY <2>3 DEF Holding, Idle
      <3> QED
        BY <2>1, <2>3, <3>1, OthersSound DEF documents, PlanTypeOK
    <2> QED
      BY <2>2, <2>3
  <1>3. RunsApproved' /\ DeletionFinal' /\ ApprovedWoken'
    BY DEF RunsApproved, DeletionFinal, ApprovedWoken, documents
  <1>4. DedupeBacked'
    BY PlanAssumption DEF DedupeBacked, Deleting, documents, At, PlanTypeOK
  <1> QED
    BY <1>1, <1>2, <1>3, <1>4

LEMMA FaultCounted ==
  ASSUME faults \in 0..MaxFaults, NEW f, Fault(f)
  PROVE  faults' \in 0..MaxFaults /\ faults <= faults' /\ faults' > 0
PROOF
  BY PlanAssumption DEF Fault

(* The request ends without effect: refused, failed or crashed.            *)
LEMMA EndsKept ==
  ASSUME PlanInvariant, NEW r \in Requests, End(r), UNCHANGED <<documents, intent>>,
         tasks \subseteq tasks', tasks' \subseteq Missions,
         (UNCHANGED faults /\ ~At(r, "cleanup")) \/ \E f : Fault(f)
  PROVE  PlanInvariant'
PROOF
  <1>1. faults \in 0..MaxFaults
    BY DEF PlanInvariant, PlanTypeOK
  <1>2. /\ faults' \in 0..MaxFaults /\ faults <= faults'
        /\ At(r, "cleanup") => faults' > 0
    BY <1>1, FaultCounted, PlanAssumption
  <1>3. RequestSound(r)'
    BY DEF End, PlanInvariant, PlanTypeOK, RequestSound, CreatesFresh, EditsWhatItRead, CommandsARun, MarksATask, At, Idle
  <1> QED
    BY <1>2, <1>3, RequestOnly DEF End, Idle

(* What a request that starts relies on is what it has just read.          *)
LEMMA StartsKept ==
  ASSUME PlanInvariant, NEW r \in Requests, NEW m \in Missions,
         Intake(r, m) \/ Approve(r, m) \/ Revise(r, m) \/ Reject(r, m) \/ DeleteDraft(r, m)
           \/ \E what \in {"REVISE", "DELETE"} : Control(r, m, what)
  PROVE  PlanInvariant'
PROOF
  <1> DEFINE Kept == UNCHANGED <<documents, queue, faults>>
             Began(what, pc, expected) ==
               /\ Start(r, what, m, pc, expected)
               /\ Kept
  <1>1. ASSUME NEW what \in Command \cup {"intake"}, NEW pc \in {"create", "replace", "schedule", "delete", "control"},
               NEW expected \in 0..MaxVersion, Began(what, pc, expected), RequestSound(r)', NotCreatedBy(r, m)
        PROVE  PlanInvariant'
    <2> DEFINE x == [pc |-> pc, what |-> what, mission |-> m,
                     seen |-> IF pc = "replace" THEN draft[m] ELSE NoDraft, expected |-> expected]
    <2>1. x \in Holding
      BY <1>1 DEF Holding, PlanInvariant, PlanTypeOK
    <2>2. request' = [request EXCEPT ![r] = x] /\ ~At(r, "cleanup")
      BY <1>1 DEF Start, At
    <2>3. tasks' = tasks /\ tasks \subseteq Missions /\ faults' = faults /\ faults \in 0..MaxFaults
      BY <1>1 DEF queue, PlanInvariant, PlanTypeOK
    <2>4. x.mission = m /\ x \in Holding \cup {Idle}
      BY <2>1
    <2>5. UNCHANGED <<documents, intent>>
      BY <1>1 DEF queue
    <2>6. tasks \subseteq tasks' /\ tasks' \subseteq Missions /\ faults' \in 0..MaxFaults /\ faults <= faults'
      BY <2>3, PlanAssumption
    <2> HIDE DEF x, Began
    <2> QED
      BY <1>1, <2>2, <2>4, <2>5, <2>6, RequestOnly
  <1>2. draft[m] # NoDraft \/ run[m] # NoRun \/ Unused(m) => NotCreatedBy(r, m)
    BY DEF NotCreatedBy, PlanInvariant, RequestSound, CreatesFresh, Unused
  <1>3. draft[m] # NoDraft => draft[m].plan \in 0..MaxVersion /\ draft[m] \in Draft
    BY PlanAssumption DEF PlanInvariant, PlanTypeOK, Draft
  <1>4. NoDraft.state = "none"
    BY DEF NoDraft
  <1> USE DEF RequestSound, CreatesFresh, EditsWhatItRead, CommandsARun, MarksATask, At
  <1>5. CASE Intake(r, m)
    <2>1. Began("intake", "create", 0)
      BY <1>5 DEF Intake
    <2>2. RequestSound(r)'
      BY <1>5 DEF Intake, Start, Unused, documents, PlanInvariant, PlanTypeOK
    <2> QED
      BY <1>1, <1>2, <1>5, <2>1, <2>2, PlanAssumption DEF Intake
  <1>6. CASE Approve(r, m)
    <2>1. draft[m] # NoDraft
      BY <1>4, <1>6 DEF Approve
    <2>2. \/ Began("approve", "schedule", 0)
          \/ Began("approve", "replace", draft[m].plan)
      BY <1>6 DEF Approve
    <2>3. RequestSound(r)'
      BY <1>3, <2>1, <2>2 DEF Start, Edit, PlanInvariant, PlanTypeOK
    <2> QED
      BY <1>1, <1>2, <1>3, <2>1, <2>2, <2>3, PlanAssumption DEF Command
  <1>7. CASE Revise(r, m)
    <2>1. draft[m] # NoDraft /\ draft[m].plan < MaxVersion
      BY <1>4, <1>7 DEF Revise
    <2>2. Began("revise", "replace", draft[m].plan)
      BY <1>7 DEF Revise
    <2>3. RequestSound(r)'
      BY <1>3, <2>1, <2>2 DEF Start, Edit, PlanInvariant, PlanTypeOK
    <2> QED
      BY <1>1, <1>2, <1>3, <2>1, <2>2, <2>3 DEF Command
  <1>8. CASE Reject(r, m)
    <2>1. draft[m] # NoDraft
      BY <1>8 DEF Reject
    <2>2. Began("reject", "replace", draft[m].plan)
      BY <1>8 DEF Reject
    <2>3. RequestSound(r)'
      BY <1>3, <2>1, <2>2 DEF Start, Edit, PlanInvariant, PlanTypeOK
    <2> QED
      BY <1>1, <1>2, <1>3, <2>1, <2>2, <2>3 DEF Command
  <1>9. CASE DeleteDraft(r, m)
    <2>1. draft[m] # NoDraft
      BY <1>4, <1>9 DEF DeleteDraft
    <2>2. Began("deleteDraft", "delete", 0)
      BY <1>9 DEF DeleteDraft
    <2>3. RequestSound(r)'
      BY <2>2 DEF Start, PlanInvariant, PlanTypeOK
    <2> QED
      BY <1>1, <1>2, <2>1, <2>2, <2>3, PlanAssumption DEF Command
  <1>10. ASSUME NEW what \in {"REVISE", "DELETE"}, Control(r, m, what) PROVE PlanInvariant'
    <2>1. run[m] # NoRun /\ run[m] \in Run
      BY <1>10 DEF Control, PlanInvariant, PlanTypeOK
    <2>2. run[m].version \in 0..MaxVersion /\ run[m].version > 0
      BY <2>1, PlanAssumption DEF Run
    <2>3. Began(what, "control", run[m].version)
      BY <1>10 DEF Control
    <2>4. RequestSound(r)'
      BY <2>2, <2>3 DEF Start, PlanInvariant, PlanTypeOK
    <2> QED
      BY <1>1, <1>2, <2>1, <2>2, <2>3, <2>4 DEF Command
  <1> QED
    BY <1>5, <1>6, <1>7, <1>8, <1>9, <1>10

-----------------------------------------------------------------------------
(* Steps that commit a transaction on the mission of their request.        *)

(* What is to be shown of the documents of that mission alone.             *)
MissionKept(m) ==
  /\ draft'[m] \in Draft \cup {NoDraft} /\ run'[m] \in Run \cup {NoRun}
  /\ intent'[m] \in {"none", "PENDING", "DISPATCHED"}
  /\ run'[m] # NoRun => m \in approved'
  /\ m \in tombstones' => draft'[m] = NoDraft /\ run'[m] = NoRun
  /\ run'[m].state = "active" => intent'[m] = "PENDING" \/ m \in tasks

OnlyMission(m) ==
  /\ draft' = [draft EXCEPT ![m] = draft'[m]]
  /\ run' = [run EXCEPT ![m] = run'[m]]
  /\ intent' = [intent EXCEPT ![m] = intent'[m]]
  /\ approved' \in {approved, approved \cup {m}, approved \ {m}}
  /\ tombstones' \in {tombstones, tombstones \cup {m}}
  /\ UNCHANGED tasks

LEMMA CommitKept ==
  ASSUME PlanInvariant, NEW r \in Requests, NEW x \in Holding \cup {Idle},
         ~At(r, "idle"), request' = [request EXCEPT ![r] = x],
         x.mission \in {request[r].mission, "none"},
         OnlyMission(request[r].mission), MissionKept(request[r].mission),
         faults' \in 0..MaxFaults, RequestSound(r)', DedupeBacked', dedupe' \in Missions \cup {"none"}
  PROVE  PlanInvariant'
PROOF
  <1> DEFINE m == request[r].mission
  <1> USE DEF PlanInvariant
  <1>0. m \in Missions
    BY DEF PlanTypeOK, At, Idle
  <1>1. PlanTypeOK'
    <2>1. request' \in [Requests -> Holding \cup {Idle}]
      BY DEF PlanTypeOK, Holding
    <2>2. draft' \in [Missions -> Draft \cup {NoDraft}]
      BY <1>0 DEF PlanTypeOK, OnlyMission, MissionKept
    <2>3. run' \in [Missions -> Run \cup {NoRun}]
      BY <1>0 DEF PlanTypeOK, OnlyMission, MissionKept
    <2>4. intent' \in [Missions -> {"none", "PENDING", "DISPATCHED"}]
      BY <1>0 DEF PlanTypeOK, OnlyMission, MissionKept
    <2> QED
      BY <1>0, <2>1, <2>2, <2>3, <2>4 DEF PlanTypeOK, OnlyMission, Holding
  <1>2. ASSUME NEW n \in Missions \ {m}
        PROVE  /\ draft'[n] = draft[n] /\ run'[n] = run[n] /\ intent'[n] = intent[n]
               /\ n \in tombstones' <=> n \in tombstones
               /\ n \in approved' <=> n \in approved
    BY DEF PlanTypeOK, OnlyMission
  <1>3. \A q \in Requests : RequestSound(q)'
    <2>1. request'[r].mission \in {m, "none"} /\ \A q \in Requests \ {r} : request'[q] = request[q]
      BY DEF PlanTypeOK
    <2>2. NotCreatedBy(r, m)
      BY DEF NotCreatedBy, RequestSound, CreatesFresh
    <2>3. tasks \subseteq tasks'
      BY DEF OnlyMission
    <2> QED
      BY <1>0, <1>2, <2>1, <2>2, <2>3, OthersSound
  <1>4. ASSUME NEW n \in Missions
        PROVE  /\ run'[n] # NoRun => n \in approved'
               /\ n \in tombstones' => draft'[n] = NoDraft /\ run'[n] = NoRun
               /\ run'[n].state = "active" => intent'[n] = "PENDING" \/ n \in tasks'
    <2>1. CASE n = m
      BY <2>1 DEF MissionKept, OnlyMission
    <2>2. CASE n # m
      BY <1>2, <2>2 DEF RunsApproved, DeletionFinal, ApprovedWoken, OnlyMission
    <2> QED
      BY <2>1, <2>2
  <1>5. RunsApproved' /\ DeletionFinal' /\ ApprovedWoken'
    BY <1>1, <1>4 DEF RunsApproved, DeletionFinal, ApprovedWoken, PlanTypeOK
  <1> QED
    BY <1>1, <1>3, <1>5

DeletingNext(m) == \E r \in Requests :
  request'[r].mission = m /\ request'[r].what = "DELETE" /\ request'[r].pc = "cleanup"

(* The input stays registered for a mission with a draft by a step that    *)
(* leaves the registration, or the draft it names, or takes it away.       *)
LEMMA DedupeKept ==
  ASSUME PlanInvariant, NEW r \in Requests, \A q \in Requests \ {r} : request'[q] = request[q],
         dedupe' \in Missions => dedupe' = dedupe,
         \A m \in Missions : draft[m] # NoDraft /\ dedupe' = m =>
           \/ draft'[m] # NoDraft
           \/ m \in tombstones' /\ (faults' > 0 \/ DeletingNext(m)),
         tombstones \subseteq tombstones', faults > 0 => faults' > 0,
         At(r, "cleanup") => faults' > 0 \/ dedupe' # request[r].mission
  PROVE  DedupeBacked'
PROOF
  <1> SUFFICES ASSUME dedupe' \in Missions
               PROVE  \/ draft'[dedupe'] # NoDraft
                      \/ dedupe' \in tombstones' /\ (DeletingNext(dedupe') \/ faults' > 0)
    BY DEF DedupeBacked, Deleting, DeletingNext
  <1>1. CASE draft[dedupe] # NoDraft
    BY <1>1
  <1>2. CASE dedupe \in tombstones /\ faults > 0
    BY <1>2
  <1>3. CASE dedupe \in tombstones /\ Deleting(dedupe)
    <2>1. PICK q \in Requests : request[q].mission = dedupe /\ request[q].what = "DELETE" /\ request[q].pc = "cleanup"
      BY <1>3 DEF Deleting
    <2>2. CASE q = r
      BY <1>3, <2>1, <2>2 DEF At
    <2>3. CASE q # r
      BY <1>3, <2>1, <2>3 DEF DeletingNext
    <2> QED
      BY <2>2, <2>3
  <1> QED
    BY <1>1, <1>2, <1>3 DEF PlanInvariant, DedupeBacked

-----------------------------------------------------------------------------
(* The actions, one by one.                                                *)

LEMMA AtWork ==
  ASSUME PlanInvariant, NEW r \in Requests, ~At(r, "idle")
  PROVE  /\ request[r] \in Holding /\ request[r].mission \in Missions
         /\ request \in [Requests -> Holding \cup {Idle}]
PROOF
  <1>1. request \in [Requests -> Holding \cup {Idle}]
    BY DEF PlanInvariant, PlanTypeOK, Holding
  <1>2. request[r] \in Holding
    BY <1>1 DEF At, Idle
  <1> QED
    BY <1>1, <1>2 DEF Holding

(* How a request that has committed goes on.                               *)
LEMMA GoesOn ==
  ASSUME PlanInvariant, NEW r \in Requests, ~At(r, "idle"),
         NEW pc \in {"schedule", "mark", "cleanup", "purge"}, Goto(r, pc)
  PROVE  /\ request' = [request EXCEPT ![r] = request'[r]]
         /\ request'[r] \in Holding /\ request'[r].pc = pc
         /\ request'[r].mission = request[r].mission /\ request'[r].what = request[r].what
PROOF
  <1>1. request[r] \in Holding /\ request \in [Requests -> Holding \cup {Idle}]
    BY AtWork
  <1> QED
    BY <1>1 DEF Goto, Holding

(* An ended request claims nothing.                                        *)
LEMMA IdleSound ==
  ASSUME NEW r \in Requests, request'[r] = Idle
  PROVE  RequestSound(r)'
PROOF
  BY DEF RequestSound, CreatesFresh, EditsWhatItRead, CommandsARun, MarksATask, At, Idle

LEMMA FaultBounds ==
  ASSUME PlanInvariant, UNCHANGED faults \/ \E f : Fault(f)
  PROVE  faults' \in 0..MaxFaults /\ faults <= faults' /\ (faults > 0 => faults' > 0)
PROOF
  <1>1. faults \in 0..MaxFaults
    BY DEF PlanInvariant, PlanTypeOK
  <1>2. CASE UNCHANGED faults
    BY <1>1, <1>2, PlanAssumption
  <1>3. CASE \E f : Fault(f)
    BY <1>1, <1>3, FaultCounted, PlanAssumption
  <1> QED
    BY <1>2, <1>3

LEMMA CreateDraftKept ==
  ASSUME PlanInvariant, NEW r \in Requests, CreateDraft(r)
  PROVE  PlanInvariant'
PROOF
  <1> DEFINE m == request[r].mission
             new == [state |-> "AWAITING_APPROVAL", plan |-> 1, boundary |-> 0]
  <1>0. /\ ~At(r, "idle") /\ ~At(r, "cleanup") /\ CreatesFresh(r) /\ At(r, "create")
        /\ tasks \subseteq tasks' /\ tasks' \subseteq Missions
        /\ UNCHANGED faults \/ \E f : Fault(f)
    BY DEF CreateDraft, Transaction, Refused, At, PlanInvariant, PlanTypeOK, RequestSound
  <1>1. CASE UNCHANGED <<documents, intent>>
    <2>1. End(r)
      <3>1. dedupe = "none" => m # dedupe
        BY <1>0, AtWork, PlanAssumption
      <3> QED
        BY <1>1, <3>1 DEF CreateDraft, Transaction, Refused, documents
    <2> QED
      BY <1>0, <1>1, <2>1, EndsKept
  <1>2. CASE /\ draft' = [draft EXCEPT ![m] = new] /\ dedupe' = m
             /\ UNCHANGED <<run, approved, tombstones, intent, tasks>> /\ End(r)
    <2>1. m \in Missions /\ new \in Draft /\ new # NoDraft
      BY <1>0, AtWork, PlanAssumption DEF Draft, NoDraft
    <2>2. OnlyMission(m)
      BY <1>2, <2>1 DEF OnlyMission, PlanInvariant, PlanTypeOK
    <2>3. MissionKept(m)
      <3>1. run'[m] = NoRun /\ NoRun.state # "active" /\ m \notin tombstones' /\ draft'[m] = new
        BY <1>0, <1>2, <2>1 DEF CreatesFresh, NoRun, PlanInvariant, PlanTypeOK
      <3>2. intent'[m] \in {"none", "PENDING", "DISPATCHED"}
        BY <1>2, <2>1 DEF PlanInvariant, PlanTypeOK
      <3> QED
        BY <2>1, <3>1, <3>2 DEF MissionKept
    <2>4. DedupeBacked'
      BY <1>2, <2>1 DEF DedupeBacked, PlanInvariant, PlanTypeOK
    <2>5. RequestSound(r)'
      BY <1>2, IdleSound, AtWork, <1>0 DEF End
    <2> QED
      BY <1>0, <1>2, <2>1, <2>2, <2>3, <2>4, <2>5, CommitKept, FaultBounds DEF End, Idle
  <1> QED
    BY <1>1, <1>2 DEF CreateDraft, Transaction, Refused

(* An edit of a draft is a draft.                                          *)
LEMMA EditedTyped ==
  ASSUME NEW d \in Draft
  PROVE  /\ [d EXCEPT !.state = "READY", !.boundary = d.plan] \in Draft
         /\ [d EXCEPT !.state = "CANCELLED"] \in Draft
         /\ [d EXCEPT !.state = "AWAITING_APPROVAL", !.boundary = 0] \in Draft
         /\ d.plan < MaxVersion => [d EXCEPT !.plan = @ + 1] \in Draft
PROOF
  <1>1. d.plan \in 0..MaxVersion /\ 0 \in 0..MaxVersion
    BY PlanAssumption DEF Draft
  <1>2. [d EXCEPT !.state = "READY", !.boundary = d.plan] \in Draft
    BY <1>1 DEF Draft
  <1>3. [d EXCEPT !.state = "CANCELLED"] \in Draft
    BY DEF Draft
  <1>4. [d EXCEPT !.state = "AWAITING_APPROVAL", !.boundary = 0] \in Draft
    BY <1>1 DEF Draft
  <1>5. ASSUME d.plan < MaxVersion PROVE [d EXCEPT !.plan = @ + 1] \in Draft
    BY <1>5, PlanAssumption DEF Draft
  <1> QED
    BY <1>2, <1>3, <1>4, <1>5

LEMMA ReplaceKept ==
  ASSUME PlanInvariant, NEW r \in Requests, Replace(r)
  PROVE  PlanInvariant'
PROOF
  <1> DEFINE m == request[r].mission
             seen == request[r].seen
             approval == request[r].what = "approve"
  <1>0. /\ ~At(r, "idle") /\ ~At(r, "cleanup") /\ EditsWhatItRead(r) /\ At(r, "replace")
        /\ tasks \subseteq tasks' /\ tasks' \subseteq Missions
        /\ UNCHANGED faults \/ \E f : Fault(f)
    BY DEF Replace, Transaction, Refused, At, PlanInvariant, PlanTypeOK, RequestSound
  <1>1. m \in Missions /\ seen \in Draft /\ request[r].what \in Edit
    BY <1>0, AtWork DEF EditsWhatItRead
  <1>2. Replacement(r) \in Draft /\ Replacement(r) # NoDraft
    <2>1. request[r].what = "revise" => seen.plan < MaxVersion
      BY <1>0 DEF EditsWhatItRead
    <2>2. Replacement(r) \in Draft
      BY <1>1, <2>1, EditedTyped DEF Replacement, Edit
    <2> QED
      BY <2>2 DEF Draft, NoDraft
  <1>3. CASE UNCHANGED <<documents, intent>> /\ End(r)
    BY <1>0, <1>3, EndsKept
  <1>4. CASE /\ PlanCurrent(r) /\ (approval => EventFree(m))
             /\ draft' = [draft EXCEPT ![m] = Replacement(r)]
             /\ IF approval
                  THEN /\ run' = [run EXCEPT ![m] = [state |-> "active", version |-> 1, plan |-> seen.plan]]
                       /\ approved' = approved \cup {m}
                       /\ intent' = WithWake(m)
                  ELSE UNCHANGED <<run, approved, intent>>
             /\ UNCHANGED <<dedupe, tombstones>>
             /\ End(r) \/ (approval /\ Goto(r, "schedule"))
             /\ UNCHANGED tasks
    <2>1. m \notin tombstones /\ draft[m] # NoDraft
      BY <1>1, <1>4 DEF PlanCurrent, PlanInvariant, DeletionFinal
    <2>2. OnlyMission(m)
      BY <1>1, <1>4 DEF OnlyMission, WithWake, PlanInvariant, PlanTypeOK
    <2>3. MissionKept(m)
      <3>1. draft'[m] \in Draft /\ m \notin tombstones'
        BY <1>1, <1>2, <1>4, <2>1 DEF PlanInvariant, PlanTypeOK
      <3>2. CASE approval
        <4>1. /\ run'[m] = [state |-> "active", version |-> 1, plan |-> seen.plan]
              /\ m \in approved' /\ intent'[m] = "PENDING"
          BY <1>1, <1>4, <3>2 DEF WithWake, PlanInvariant, PlanTypeOK
        <4>2. run'[m] \in Run
          BY <1>1, <4>1, PlanAssumption DEF Run, Draft
        <4> QED
          BY <3>1, <4>1, <4>2 DEF MissionKept
      <3>3. CASE ~approval
        BY <1>1, <1>4, <3>1, <3>3
        DEF MissionKept, PlanInvariant, PlanTypeOK, RunsApproved, ApprovedWoken
      <3> QED
        BY <3>2, <3>3
    <2>4. PICK x \in Holding \cup {Idle} :
            request' = [request EXCEPT ![r] = x] /\ x.mission \in {m, "none"} /\ x.pc \in {"idle", "schedule"}
      <3>1. CASE End(r)
        <4>1. Idle.mission = "none" /\ Idle.pc = "idle"
          BY DEF Idle
        <4> QED
          BY <3>1, <4>1 DEF End
      <3>2. CASE Goto(r, "schedule")
        BY <1>0, <3>2, GoesOn
      <3> QED
        BY <1>4, <3>1, <3>2
    <2>5. RequestSound(r)'
      BY <1>0, <2>4, AtWork DEF RequestSound, CreatesFresh, EditsWhatItRead, CommandsARun, MarksATask, At
    <2>6. DedupeBacked'
      <3>1. \A n \in Missions : draft[n] # NoDraft => draft'[n] # NoDraft
        BY <1>1, <1>2, <1>4 DEF PlanInvariant, PlanTypeOK
      <3>2. \A q \in Requests \ {r} : request'[q] = request[q]
        BY <1>0, <2>4, AtWork
      <3> QED
        BY <1>0, <1>4, <3>1, <3>2, DedupeKept, FaultBounds
    <2>7. dedupe' \in Missions \cup {"none"}
      BY <1>4 DEF PlanInvariant, PlanTypeOK
    <2> QED
      BY <1>0, <2>2, <2>3, <2>4, <2>5, <2>6, <2>7, CommitKept, FaultBounds
  <1> QED
    BY <1>3, <1>4 DEF Replace, Transaction, Refused

(* A commit after which the request ends or goes on.                       *)
LEMMA CommitMoves ==
  ASSUME PlanInvariant, NEW r \in Requests, ~At(r, "idle"),
         End(r) \/ \E pc \in {"schedule", "cleanup", "purge"} : Goto(r, pc),
         OnlyMission(request[r].mission), MissionKept(request[r].mission),
         UNCHANGED faults \/ \E f : Fault(f),
         DedupeBacked', dedupe' \in Missions \cup {"none"}
  PROVE  PlanInvariant'
PROOF
  <1>1. PICK x \in Holding \cup {Idle} :
          /\ request' = [request EXCEPT ![r] = x] /\ x.mission \in {request[r].mission, "none"}
          /\ x.pc \in {"idle", "schedule", "cleanup", "purge"}
    <2>1. CASE End(r)
      <3>1. Idle.mission = "none" /\ Idle.pc = "idle"
        BY DEF Idle
      <3> QED
        BY <2>1, <3>1 DEF End
    <2>2. ASSUME NEW pc \in {"schedule", "cleanup", "purge"}, Goto(r, pc)
          PROVE  request' = [request EXCEPT ![r] = request'[r]] /\ request'[r] \in Holding
                 /\ request'[r].pc = pc /\ request'[r].mission = request[r].mission
      BY <2>2, GoesOn
    <2> QED
      BY <2>1, <2>2
  <1>2. RequestSound(r)'
    BY <1>1, AtWork DEF RequestSound, CreatesFresh, EditsWhatItRead, CommandsARun, MarksATask, At
  <1> QED
    BY <1>1, <1>2, CommitKept, FaultBounds

(* The request that moves leaves the others where they are.                *)
LEMMA OthersStay ==
  ASSUME PlanInvariant, NEW r \in Requests, ~At(r, "idle"),
         End(r) \/ \E pc : Goto(r, pc)
  PROVE  \A q \in Requests \ {r} : request'[q] = request[q]
PROOF
  BY AtWork DEF End, Goto

LEMMA DispatchKept ==
  ASSUME PlanInvariant, NEW r \in Requests, Dispatch(r)
  PROVE  PlanInvariant'
PROOF
  <1> DEFINE m == request[r].mission
  <1>0. /\ At(r, "schedule") /\ ~At(r, "idle") /\ ~At(r, "cleanup")
        /\ UNCHANGED <<documents, intent>> /\ tasks \subseteq Missions
    BY DEF Dispatch, At, PlanInvariant, PlanTypeOK
  <1>1. m \in Missions
    BY <1>0, AtWork
  <1>2. CASE tasks' = tasks \cup {m} /\ UNCHANGED faults /\ Goto(r, "mark")
    <2>1. /\ request' = [request EXCEPT ![r] = request'[r]] /\ request'[r] \in Holding
          /\ request'[r].pc = "mark" /\ request'[r].mission = m
      BY <1>0, <1>2, GoesOn
    <2>2. RequestSound(r)'
      BY <1>2, <2>1 DEF RequestSound, CreatesFresh, EditsWhatItRead, CommandsARun, MarksATask, At
    <2>3. NotCreatedBy(r, m)
      BY DEF NotCreatedBy, PlanInvariant, RequestSound, CreatesFresh
    <2>4. faults' \in 0..MaxFaults /\ faults <= faults'
      BY <1>2, FaultBounds
    <2>5. tasks \subseteq tasks' /\ tasks' \subseteq Missions
      BY <1>0, <1>1, <1>2
    <2> QED
      BY <1>0, <2>1, <2>2, <2>3, <2>4, <2>5, RequestOnly
  <1>3. CASE UNCHANGED tasks /\ Fault("dispatch") /\ End(r)
    BY <1>0, <1>3, EndsKept
  <1> QED
    BY <1>2, <1>3 DEF Dispatch

(* The intent is marked only after its task was made.                      *)
LEMMA MarkKept ==
  ASSUME PlanInvariant, NEW r \in Requests, Mark(r)
  PROVE  PlanInvariant'
PROOF
  <1> DEFINE m == request[r].mission
  <1>0. At(r, "mark") /\ ~At(r, "idle") /\ ~At(r, "cleanup") /\ m \in tasks
    BY DEF Mark, At, PlanInvariant, RequestSound, MarksATask
  <1>1. m \in Missions
    BY <1>0, AtWork
  <1>2. intent' \in {intent, [intent EXCEPT ![m] = "DISPATCHED"]} /\ UNCHANGED <<documents, tasks, faults>> /\ End(r)
    BY DEF Mark
  <1>3. OnlyMission(m)
    BY <1>1, <1>2 DEF OnlyMission, documents, PlanInvariant, PlanTypeOK
  <1>4. MissionKept(m)
    BY <1>0, <1>1, <1>2 DEF MissionKept, documents, PlanInvariant, PlanTypeOK, RunsApproved, DeletionFinal
  <1>5. DedupeBacked' /\ dedupe' \in Missions \cup {"none"}
    <2>1. \A q \in Requests \ {r} : request'[q] = request[q]
      BY <1>0, <1>2, OthersStay
    <2> QED
      BY <1>0, <1>2, <2>1, DedupeKept DEF documents, PlanInvariant, PlanTypeOK
  <1> QED
    BY <1>0, <1>2, <1>3, <1>4, <1>5, CommitMoves

LEMMA RemoveDraftKept ==
  ASSUME PlanInvariant, NEW r \in Requests, RemoveDraft(r)
  PROVE  PlanInvariant'
PROOF
  <1> DEFINE m == request[r].mission
  <1>0. /\ At(r, "delete") /\ ~At(r, "idle") /\ ~At(r, "cleanup")
        /\ tasks \subseteq tasks' /\ tasks' \subseteq Missions /\ UNCHANGED tasks
        /\ UNCHANGED faults \/ \E f : Fault(f)
    BY DEF RemoveDraft, Transaction, Refused, At, PlanInvariant, PlanTypeOK
  <1>1. m \in Missions
    BY <1>0, AtWork
  <1>2. CASE UNCHANGED <<documents, intent>> /\ End(r)
    BY <1>0, <1>2, EndsKept
  <1>3. CASE /\ draft' = [draft EXCEPT ![m] = NoDraft]
             /\ dedupe' = IF dedupe = m THEN "none" ELSE dedupe
             /\ UNCHANGED <<run, approved, tombstones, intent>> /\ End(r)
    <2>1. OnlyMission(m)
      BY <1>0, <1>1, <1>3 DEF OnlyMission, PlanInvariant, PlanTypeOK
    <2>2. MissionKept(m)
      BY <1>1, <1>3 DEF MissionKept, PlanInvariant, PlanTypeOK, RunsApproved, DeletionFinal, ApprovedWoken
    <2>3. DedupeBacked'
      <3>1. \A q \in Requests \ {r} : request'[q] = request[q]
        BY <1>0, <1>3, OthersStay
      <3>2. dedupe' \in Missions => dedupe' = dedupe /\ dedupe' # m
        BY <1>3, PlanAssumption
      <3>3. \A n \in Missions : n # m => draft'[n] = draft[n]
        BY <1>1, <1>3 DEF PlanInvariant, PlanTypeOK
      <3> QED
        BY <1>0, <1>3, <3>1, <3>2, <3>3, DedupeKept, FaultBounds
    <2>4. dedupe' \in Missions \cup {"none"}
      BY <1>3 DEF PlanInvariant, PlanTypeOK
    <2> QED
      BY <1>0, <1>3, <2>1, <2>2, <2>3, <2>4, CommitMoves
  <1> QED
    BY <1>2, <1>3 DEF RemoveDraft, Transaction, Refused

LEMMA ReapprovalKept ==
  ASSUME PlanInvariant, NEW r \in Requests, BeginReapproval(r)
  PROVE  PlanInvariant'
PROOF
  <1> DEFINE m == request[r].mission
  <1>0. /\ At(r, "control") /\ ~At(r, "idle") /\ ~At(r, "cleanup") /\ CommandsARun(r)
        /\ tasks \subseteq tasks' /\ tasks' \subseteq Missions /\ UNCHANGED tasks
        /\ UNCHANGED faults \/ \E f : Fault(f)
    BY DEF BeginReapproval, Transaction, Refused, At, PlanInvariant, PlanTypeOK, RequestSound
  <1>1. m \in Missions
    BY <1>0, AtWork
  <1>2. CASE UNCHANGED <<documents, intent>> /\ End(r)
    BY <1>0, <1>2, EndsKept
  <1>3. CASE /\ RunCurrent(r) /\ draft[m] # NoDraft /\ run[m].version < MaxVersion
             /\ run' = [run EXCEPT ![m].state = "CANCELLED", ![m].version = @ + 1]
             /\ draft' = [draft EXCEPT ![m].state = "AWAITING_APPROVAL", ![m].boundary = 0]
             /\ UNCHANGED <<approved, dedupe, tombstones, intent>> /\ End(r)
    <2>1. run[m] # NoRun /\ run[m] \in Run /\ draft[m] \in Draft
      BY <1>0, <1>1, <1>3, PlanAssumption DEF RunCurrent, CommandsARun, NoRun, PlanInvariant, PlanTypeOK
    <2>2. draft'[m] \in Draft /\ draft' = [draft EXCEPT ![m] = draft'[m]]
      <3>1. draft'[m] = [draft[m] EXCEPT !.state = "AWAITING_APPROVAL", !.boundary = 0]
        BY <1>1, <1>3 DEF PlanInvariant, PlanTypeOK
      <3>2. draft'[m] \in Draft
        BY <2>1, <3>1, EditedTyped
      <3> QED
        BY <1>1, <1>3, <3>2 DEF PlanInvariant, PlanTypeOK
    <2>3. run'[m] \in Run /\ run'[m].state = "CANCELLED" /\ run' = [run EXCEPT ![m] = run'[m]]
      BY <1>1, <1>3, <2>1, PlanAssumption DEF PlanInvariant, PlanTypeOK, Run
    <2>4. draft'[m] # NoDraft /\ run'[m].state # "active"
      BY <2>2, <2>3 DEF Draft, NoDraft
    <2>5. OnlyMission(m)
      BY <1>0, <1>1, <1>3, <2>2, <2>3 DEF OnlyMission, PlanInvariant, PlanTypeOK
    <2>6. MissionKept(m)
      BY <1>1, <1>3, <2>1, <2>2, <2>3, <2>4
      DEF MissionKept, PlanInvariant, PlanTypeOK, RunsApproved, DeletionFinal
    <2>7. DedupeBacked' /\ dedupe' \in Missions \cup {"none"}
      <3>1. \A q \in Requests \ {r} : request'[q] = request[q]
        BY <1>0, <1>3, OthersStay
      <3>2. \A n \in Missions : draft[n] # NoDraft => draft'[n] # NoDraft
        BY <1>1, <1>3, <2>4 DEF PlanInvariant, PlanTypeOK
      <3> QED
        BY <1>0, <1>3, <3>1, <3>2, DedupeKept, FaultBounds DEF PlanInvariant, PlanTypeOK
    <2> QED
      BY <1>0, <1>3, <2>5, <2>6, <2>7, CommitMoves
  <1> QED
    BY <1>2, <1>3 DEF BeginReapproval, Transaction, Refused

(* The draft and the run go together with the tombstone.                   *)
LEMMA DeletionKept ==
  ASSUME PlanInvariant, NEW r \in Requests, RequestDeletion(r)
  PROVE  PlanInvariant'
PROOF
  <1> DEFINE m == request[r].mission
  <1>0. /\ At(r, "control") /\ ~At(r, "idle") /\ ~At(r, "cleanup") /\ request[r].what = "DELETE"
        /\ tasks \subseteq tasks' /\ tasks' \subseteq Missions /\ UNCHANGED tasks
        /\ UNCHANGED faults \/ \E f : Fault(f)
    BY DEF RequestDeletion, Transaction, Refused, At, PlanInvariant, PlanTypeOK
  <1>1. m \in Missions
    BY <1>0, AtWork
  <1>2. CASE UNCHANGED <<documents, intent>> /\ End(r)
    BY <1>0, <1>2, EndsKept
  <1>3. CASE /\ run' = [run EXCEPT ![m] = NoRun] /\ draft' = [draft EXCEPT ![m] = NoDraft]
             /\ tombstones' = tombstones \cup {m} /\ UNCHANGED <<approved, dedupe, intent>>
             /\ Goto(r, "cleanup") \/ (Fault("lostAck") /\ End(r))
    <2>1. OnlyMission(m)
      BY <1>0, <1>1, <1>3 DEF OnlyMission, PlanInvariant, PlanTypeOK
    <2>2. MissionKept(m)
      <3>1. run'[m] = NoRun /\ draft'[m] = NoDraft /\ intent'[m] \in {"none", "PENDING", "DISPATCHED"}
        BY <1>1, <1>3 DEF PlanInvariant, PlanTypeOK
      <3>2. NoRun.state # "active"
        BY DEF NoRun
      <3> QED
        BY <3>1, <3>2 DEF MissionKept
    <2>3. DedupeBacked' /\ dedupe' \in Missions \cup {"none"}
      <3>1. \A q \in Requests \ {r} : request'[q] = request[q]
        BY <1>0, <1>3, OthersStay
      <3>2. \A n \in Missions \ {m} : draft'[n] = draft[n]
        BY <1>1, <1>3 DEF PlanInvariant, PlanTypeOK
      <3>3. DeletingNext(m) \/ faults' > 0
        <4>1. CASE Goto(r, "cleanup")
          BY <1>0, <4>1, GoesOn DEF DeletingNext
        <4>2. CASE Fault("lostAck")
          BY <4>2, FaultCounted DEF PlanInvariant, PlanTypeOK
        <4> QED
          BY <1>3, <4>1, <4>2
      <3>4. /\ dedupe' = dedupe /\ tombstones \subseteq tombstones' /\ m \in tombstones'
            /\ dedupe' \in Missions \cup {"none"}
        BY <1>3 DEF PlanInvariant, PlanTypeOK
      <3>5. faults > 0 => faults' > 0
        BY <1>0, FaultBounds
      <3>6. \A n \in Missions : draft[n] # NoDraft /\ dedupe' = n =>
              draft'[n] # NoDraft \/ (n \in tombstones' /\ (faults' > 0 \/ DeletingNext(n)))
        BY <3>2, <3>3, <3>4
      <3> QED
        BY <1>0, <3>1, <3>4, <3>5, <3>6, DedupeKept
    <2> QED
      BY <1>0, <1>3, <2>1, <2>2, <2>3, CommitMoves
  <1> QED
    BY <1>2, <1>3 DEF RequestDeletion, Transaction, Refused

LEMMA CleanupKept ==
  ASSUME PlanInvariant, NEW r \in Requests, Cleanup(r)
  PROVE  PlanInvariant'
PROOF
  <1> DEFINE m == request[r].mission
  <1>0. /\ At(r, "cleanup") /\ ~At(r, "idle")
        /\ tasks \subseteq tasks' /\ tasks' \subseteq Missions /\ UNCHANGED tasks
        /\ UNCHANGED faults \/ \E f : Fault(f)
    BY DEF Cleanup, Transaction, At, PlanInvariant, PlanTypeOK
  <1>1. m \in Missions
    BY <1>0, AtWork
  <1>2. CASE UNCHANGED <<documents, intent>> /\ End(r) /\ Fault("storeError")
    BY <1>0, <1>2, EndsKept
  <1>3. CASE /\ dedupe' = WithoutDedupe(m)
             /\ UNCHANGED <<draft, run, approved, tombstones, intent>>
             /\ Goto(r, "purge") \/ End(r)
    <2>1. OnlyMission(m)
      BY <1>0, <1>1, <1>3 DEF OnlyMission, PlanInvariant, PlanTypeOK
    <2>2. MissionKept(m)
      BY <1>1, <1>3 DEF MissionKept, PlanInvariant, PlanTypeOK, RunsApproved, DeletionFinal, ApprovedWoken
    <2>3. dedupe' \in Missions \cup {"none"} /\ (dedupe' \in Missions => dedupe' = dedupe) /\ dedupe' # m
      BY <1>1, <1>3, PlanAssumption DEF WithoutDedupe, PlanInvariant, PlanTypeOK
    <2>4. DedupeBacked'
      <3>1. \A q \in Requests \ {r} : request'[q] = request[q]
        BY <1>0, <1>3, OthersStay
      <3> QED
        BY <1>0, <1>3, <2>3, <3>1, DedupeKept, FaultBounds
    <2> QED
      BY <1>0, <1>3, <2>1, <2>2, <2>3, <2>4, CommitMoves
  <1> QED
    BY <1>2, <1>3 DEF Cleanup, Transaction

(* The event goes only with the run.                                       *)
LEMMA PurgeKept ==
  ASSUME PlanInvariant, NEW r \in Requests, Purge(r)
  PROVE  PlanInvariant'
PROOF
  <1> DEFINE m == request[r].mission
  <1>0. /\ At(r, "purge") /\ ~At(r, "idle") /\ ~At(r, "cleanup")
        /\ tasks \subseteq tasks' /\ tasks' \subseteq Missions /\ UNCHANGED tasks
        /\ UNCHANGED faults \/ \E f : Fault(f)
    BY DEF Purge, Transaction, At, PlanInvariant, PlanTypeOK
  <1>1. m \in Missions
    BY <1>0, AtWork
  <1>2. CASE UNCHANGED <<documents, intent>> /\ End(r)
    BY <1>0, <1>2, EndsKept
  <1>3. CASE /\ approved' = approved \ {m} /\ run' = [run EXCEPT ![m] = NoRun]
             /\ UNCHANGED <<draft, dedupe, tombstones, intent>> /\ End(r)
    <2>1. OnlyMission(m)
      BY <1>0, <1>1, <1>3 DEF OnlyMission, PlanInvariant, PlanTypeOK
    <2>2. MissionKept(m)
      <3>1. run'[m] = NoRun /\ intent'[m] \in {"none", "PENDING", "DISPATCHED"} /\ draft'[m] \in Draft \cup {NoDraft}
        BY <1>1, <1>3 DEF PlanInvariant, PlanTypeOK
      <3>2. NoRun.state # "active"
        BY DEF NoRun
      <3> QED
        BY <1>1, <1>3, <3>1, <3>2 DEF MissionKept, PlanInvariant, DeletionFinal
    <2>3. DedupeBacked' /\ dedupe' \in Missions \cup {"none"}
      <3>1. \A q \in Requests \ {r} : request'[q] = request[q]
        BY <1>0, <1>3, OthersStay
      <3> QED
        BY <1>0, <1>3, <3>1, DedupeKept, FaultBounds DEF PlanInvariant, PlanTypeOK
    <2> QED
      BY <1>0, <1>3, <2>1, <2>2, <2>3, CommitMoves
  <1> QED
    BY <1>2, <1>3 DEF Purge, Transaction

(* What no request does: the cron's dispatch and the run itself.           *)
LEMMA WorldKept ==
  ASSUME PlanInvariant, NEW m \in Missions, Reconcile(m) \/ RunMoves(m)
  PROVE  PlanInvariant'
PROOF
  <1>1. CASE Reconcile(m)
    <2>1. PlanTypeOK'
      BY <1>1 DEF Reconcile, documents, PlanInvariant, PlanTypeOK
    <2>2. \A r \in Requests : RequestSound(r)'
      BY <1>1 DEF Reconcile, documents, PlanInvariant, RequestSound, CreatesFresh, EditsWhatItRead, CommandsARun,
                  MarksATask, At
    <2>3. RunsApproved' /\ DeletionFinal' /\ DedupeBacked'
      BY <1>1 DEF Reconcile, documents, PlanInvariant, RunsApproved, DeletionFinal, DedupeBacked, Deleting
    <2>4. ApprovedWoken'
      BY <1>1 DEF Reconcile, documents, PlanInvariant, PlanTypeOK, ApprovedWoken
    <2> QED
      BY <2>1, <2>2, <2>3, <2>4 DEF PlanInvariant
  <1>2. CASE RunMoves(m)
    <2>1. run[m] # NoRun /\ run[m] \in Run
      BY <1>2 DEF RunMoves, NoRun, PlanInvariant, PlanTypeOK
    <2>2. run'[m] \in Run /\ \A n \in Missions \ {m} : run'[n] = run[n]
      BY <1>2, <2>1, PlanAssumption DEF RunMoves, PlanInvariant, PlanTypeOK, Run
    <2>3. PlanTypeOK'
      BY <1>2, <2>2 DEF RunMoves, queue, PlanInvariant, PlanTypeOK
    <2>4. \A r \in Requests : RequestSound(r)'
      BY <1>2, <2>1, <2>2 DEF RunMoves, queue, PlanInvariant, PlanTypeOK, RequestSound, CreatesFresh, EditsWhatItRead,
                              CommandsARun, MarksATask, At, Idle
    <2>5. DedupeBacked'
      BY <1>2 DEF RunMoves, PlanInvariant, DedupeBacked, Deleting
    <2>6. RunsApproved' /\ DeletionFinal'
      <3>1. tombstones \subseteq Missions /\ UNCHANGED <<draft, approved, tombstones>>
        BY <1>2 DEF RunMoves, PlanInvariant, PlanTypeOK
      <3>2. m \notin tombstones
        BY <2>1 DEF PlanInvariant, DeletionFinal
      <3> QED
        BY <2>1, <2>2, <3>1, <3>2 DEF PlanInvariant, RunsApproved, DeletionFinal
    <2>7. ApprovedWoken'
      <3>1. run[m].state = "active" /\ UNCHANGED <<intent, tasks>>
        BY <1>2 DEF RunMoves, queue
      <3>2. ASSUME NEW n \in Missions, run'[n].state = "active" PROVE run[n].state = "active"
        BY <2>2, <3>1, <3>2
      <3> QED
        BY <3>1, <3>2 DEF PlanInvariant, ApprovedWoken
    <2> QED
      BY <2>3, <2>4, <2>5, <2>6, <2>7 DEF PlanInvariant
  <1> QED
    BY <1>1, <1>2

LEMMA CrashKept ==
  ASSUME PlanInvariant, NEW r \in Requests, Crash(r)
  PROVE  PlanInvariant'
PROOF
  BY EndsKept DEF Crash, queue, PlanInvariant, PlanTypeOK

LEMMA NextInvariant == PlanInvariant /\ [Next]_vars => PlanInvariant'
PROOF
  <1> SUFFICES ASSUME PlanInvariant, [Next]_vars PROVE PlanInvariant'
    OBVIOUS
  <1>1. ASSUME NEW r \in Requests, Step(r) PROVE PlanInvariant'
    BY <1>1, CreateDraftKept, ReplaceKept, DispatchKept, MarkKept, RemoveDraftKept, ReapprovalKept, DeletionKept,
       CleanupKept, PurgeKept DEF Step
  <1>2. CASE UNCHANGED vars
    BY <1>2 DEF vars, PlanInvariant, PlanTypeOK, RequestSound, CreatesFresh, EditsWhatItRead, CommandsARun, MarksATask,
                At, RunsApproved, DeletionFinal, DedupeBacked, Deleting, ApprovedWoken
  <1> QED
    BY <1>1, <1>2, StartsKept, CrashKept, WorldKept DEF Next

-----------------------------------------------------------------------------
(* Theorems                                                                *)

(* In every reachable state the documents are well typed, and what the     *)
(* requests rely on is so.                                                 *)
THEOREM PlanInvariantHolds == Spec => []PlanInvariant
PROOF
  BY InitInvariant, NextInvariant, PTL DEF Spec

(* Drafts, runs, intents and requests keep their types.                    *)
THEOREM PlanTyped == Spec => []PlanTypeOK
PROOF
  <1>1. PlanInvariant => PlanTypeOK
    BY DEF PlanInvariant
  <1> QED
    BY <1>1, PlanInvariantHolds, PTL

(* No request that read a mission before its deletion writes it again.     *)
THEOREM DeletionFinalHolds == Spec => []DeletionFinal
PROOF
  <1>1. PlanInvariant => DeletionFinal
    BY DEF PlanInvariant
  <1> QED
    BY <1>1, PlanInvariantHolds, PTL

(* The input stays registered only for a draft or a deletion cut short.    *)
THEOREM DedupeBackedHolds == Spec => []DedupeBacked
PROOF
  <1>1. PlanInvariant => DedupeBacked
    BY DEF PlanInvariant
  <1> QED
    BY <1>1, PlanInvariantHolds, PTL

(* An approved run has its stored intent or a task.                        *)
THEOREM ApprovedWokenHolds == Spec => []ApprovedWoken
PROOF
  <1>1. PlanInvariant => ApprovedWoken
    BY DEF PlanInvariant
  <1> QED
    BY <1>1, PlanInvariantHolds, PTL

-----------------------------------------------------------------------------
(* What a step does to a run.                                              *)

(* An approval starts a run where there was none, on the plan it read.     *)
RunStarts(m) ==
  /\ run[m] = NoRun /\ run'[m] # NoRun
  /\ draft[m].plan = run'[m].plan /\ run'[m].plan = draft'[m].boundary

RunGoesOn(m) == run[m] # NoRun /\ run'[m].version > run[m].version

LEMMA RunEffect ==
  ASSUME PlanInvariant, [Next]_vars, NEW m \in Missions
  PROVE  run'[m] = run[m] \/ run'[m] = NoRun \/ RunGoesOn(m) \/ RunStarts(m)
PROOF
  <1> USE DEF PlanInvariant, PlanTypeOK
  <1>1. ASSUME NEW n \in Missions, RunMoves(n) PROVE run'[m] = run[m] \/ RunGoesOn(m)
    <2>1. run[n] \in Run
      BY <1>1 DEF RunMoves, NoRun
    <2>2. run[n].version \in Nat /\ run[n] # NoRun
      BY <2>1, PlanAssumption DEF Run, NoRun
    <2>3. CASE n = m
      BY <1>1, <2>1, <2>2, <2>3 DEF RunMoves, RunGoesOn, Run
    <2>4. CASE n # m
      BY <1>1, <2>4 DEF RunMoves
    <2> QED
      BY <2>3, <2>4
  <1>2. ASSUME NEW r \in Requests, Replace(r) PROVE run'[m] = run[m] \/ RunStarts(m)
    <2>1. At(r, "replace") /\ request[r].mission \in Missions /\ EditsWhatItRead(r)
      BY <1>2, AtWork DEF Replace, At, RequestSound
    <2>2. CASE UNCHANGED run
      BY <2>2
    <2>3. CASE /\ request[r].what = "approve" /\ PlanCurrent(r) /\ EventFree(request[r].mission)
               /\ draft' = [draft EXCEPT ![request[r].mission] = Replacement(r)]
               /\ run' = [run EXCEPT ![request[r].mission] =
                            [state |-> "active", version |-> 1, plan |-> request[r].seen.plan]]
      <3>1. CASE request[r].mission = m
        <4>1. run[m] = NoRun /\ draft[m].plan = request[r].seen.plan
          BY <2>1, <2>3, <3>1 DEF EventFree, RunsApproved, PlanCurrent, EditsWhatItRead
        <4>2. draft'[m].boundary = request[r].seen.plan
          BY <2>1, <2>3, <3>1 DEF Replacement, EditsWhatItRead, Draft
        <4>3. run'[m].plan = request[r].seen.plan /\ run'[m] # NoRun
          BY <2>1, <2>3, <3>1 DEF NoRun
        <4> QED
          BY <4>1, <4>2, <4>3 DEF RunStarts
      <3>2. CASE request[r].mission # m
        BY <2>1, <2>3, <3>2
      <3> QED
        BY <3>1, <3>2
    <2> QED
      BY <1>2, <2>2, <2>3 DEF Replace, Transaction, Refused, documents
  <1>3. ASSUME NEW r \in Requests, BeginReapproval(r) PROVE run'[m] = run[m] \/ RunGoesOn(m)
    <2>1. At(r, "control") /\ request[r].mission \in Missions /\ CommandsARun(r)
      BY <1>3, AtWork DEF BeginReapproval, At, RequestSound
    <2>2. CASE UNCHANGED run
      BY <2>2
    <2>3. CASE /\ RunCurrent(r)
               /\ run' = [run EXCEPT ![request[r].mission].state = "CANCELLED", ![request[r].mission].version = @ + 1]
      <3>1. run[request[r].mission] \in Run
        BY <2>1, <2>3, PlanAssumption DEF RunCurrent, CommandsARun, NoRun
      <3>2. run[request[r].mission].version \in Nat /\ run[request[r].mission] # NoRun
        BY <3>1, PlanAssumption DEF Run, NoRun
      <3> QED
        BY <2>1, <2>3, <3>1, <3>2 DEF RunGoesOn, Run
    <2> QED
      BY <1>3, <2>2, <2>3 DEF BeginReapproval, Transaction, Refused, documents
  <1>4. ASSUME NEW r \in Requests, RequestDeletion(r) \/ Purge(r) PROVE run'[m] = run[m] \/ run'[m] = NoRun
    BY <1>4 DEF RequestDeletion, Purge, Transaction, Refused, documents
  <1>5. ASSUME NEW r \in Requests, CreateDraft(r) \/ Dispatch(r) \/ Mark(r) \/ RemoveDraft(r) \/ Cleanup(r) \/ Crash(r)
        PROVE  UNCHANGED run
    BY <1>5 DEF CreateDraft, Dispatch, Mark, RemoveDraft, Cleanup, Crash, Transaction, Refused, documents
  <1>6. ASSUME NEW r \in Requests, NEW n \in Missions,
               \/ Intake(r, n) \/ Approve(r, n) \/ Revise(r, n) \/ Reject(r, n) \/ DeleteDraft(r, n)
               \/ \E what \in {"REVISE", "DELETE"} : Control(r, n, what)
        PROVE  UNCHANGED run
    BY <1>6 DEF Intake, Approve, Revise, Reject, DeleteDraft, Control, documents
  <1>7. ASSUME NEW n \in Missions, Reconcile(n) PROVE UNCHANGED run
    BY <1>7 DEF Reconcile, documents
  <1>8. CASE UNCHANGED vars
    BY <1>8 DEF vars
  <1>9. CASE \E r \in Requests : Step(r) \/ Crash(r)
    BY <1>2, <1>3, <1>4, <1>5, <1>9 DEF Step
  <1> QED
    BY <1>1, <1>6, <1>7, <1>8, <1>9 DEF Next

(* A run starts on the plan that is current when it starts, whatever edits *)
(* and approvals overlap.                                                  *)
THEOREM ApprovesCurrentPlanHolds == Spec => ApprovesCurrentPlan
PROOF
  <1>1. ASSUME PlanInvariant, [Next]_vars
        PROVE  [\A m \in Missions : run[m] = NoRun /\ run'[m] # NoRun =>
                  draft[m].plan = run'[m].plan /\ run'[m].plan = draft'[m].boundary]_run
    <2> SUFFICES ASSUME NEW m \in Missions, run[m] = NoRun, run'[m] # NoRun
                 PROVE  draft[m].plan = run'[m].plan /\ run'[m].plan = draft'[m].boundary
      OBVIOUS
    <2> QED
      BY <1>1, RunEffect DEF RunStarts, RunGoesOn
  <1> QED
    BY <1>1, PlanInvariantHolds, PTL DEF Spec, ApprovesCurrentPlan

(* No second approval sets a run back to its first version.                *)
THEOREM NeverRestartedHolds == Spec => NeverRestarted
PROOF
  <1>1. ASSUME PlanInvariant, [Next]_vars
        PROVE  [\A m \in Missions : run[m] # NoRun =>
                  run'[m] = NoRun \/ run'[m] = run[m] \/ run'[m].version > run[m].version]_run
    BY <1>1, RunEffect DEF RunStarts, RunGoesOn
  <1> QED
    BY <1>1, PlanInvariantHolds, PTL DEF Spec, NeverRestarted
=============================================================================
