--------------------------- MODULE DeliveryProofs ---------------------------
(***************************************************************************)
(* Proofs about Release, about ChangeSetReview, and about the two of them  *)
(* side by side, for all sets of paths, plans, deployments, approvers and  *)
(* requests in progress.  The types and dual control hold however requests *)
(* interleave; the rest as long as none commits on a stale copy.           *)
(***************************************************************************)
EXTENDS Delivery, TLAPS

USE PlansAssumption, NoDeployAssumption, ApproversAssumption, VerdictsAssumption,
    ReviewVerdictsAssumption

-----------------------------------------------------------------------------
(* The release on its own: types and signatures, however requests         *)
(* interleave.                                                             *)

\* What a request that loaded nothing holds is a copy.
LEMMA NoCopyType == NoCopy \in Copies
  <1>1. [p \in Plans |-> "absent"] \in [Plans -> PlanStatuses]
    BY DEF PlanStatuses
  <1>2. [d \in Deployments |-> "absent"] \in [Deployments -> DepStatuses]
    BY DEF DepStatuses
  <1> QED
    BY <1>1, <1>2 DEF NoCopy, Copies, Statuses

\* Ending a request keeps the types of its state.
LEMMA FinishTypes ==
    ASSUME TypeOK, NEW s \in Sessions, Finish(s)
    PROVE  /\ pc' \in [Sessions -> {"idle", "loaded", "created", "running"}]
           /\ copy' \in [Sessions -> Copies]
           /\ executing' \in [Sessions -> Deployments \cup {NoDeployment}]
  BY NoCopyType DEF Finish, TypeOK

\* Noticing a stale copy keeps the type of what is noticed.
LEMMA NoticeType ==
    ASSUME TypeOK, NEW unchanged, Notice(unchanged) PROVE stale' \in BOOLEAN
  BY DEF Notice, TypeOK

\* Committing keeps the types of the request's state.
LEMMA CommitTypes ==
    ASSUME TypeOK, NEW s \in Sessions, NEW unchanged, Commit(s, unchanged)
    PROVE  /\ stale' \in BOOLEAN
           /\ pc' \in [Sessions -> {"idle", "loaded", "created", "running"}]
           /\ copy' \in [Sessions -> Copies]
           /\ executing' \in [Sessions -> Deployments \cup {NoDeployment}]
  BY NoticeType, FinishTypes DEF Commit

\* Requests about the release itself keep the types.
LEMMA ReleaseTypes ==
    ASSUME TypeOK, NEW s \in Sessions, ReleaseRequest(s)
    PROVE  TypeOK'
  <1>1. CASE CreateRelease(s)
    BY <1>1, CommitTypes DEF CreateRelease, TypeOK, Statuses
  <1>2. CASE Package(s)
    BY <1>2, CommitTypes DEF Package, SetStatus, TypeOK, Statuses
  <1>3. ASSUME NEW ok \in BOOLEAN, EvaluateReadiness(s, ok) PROVE TypeOK'
    <2>1. status' \in Statuses
      BY <1>3 DEF EvaluateReadiness, SetStatus, TypeOK, Statuses
    <2> QED
      BY <1>3, <2>1, CommitTypes DEF EvaluateReadiness, TypeOK
  <1>4. ASSUME NEW decision \in Verdicts, DecideRelease(s, decision) PROVE TypeOK'
    BY <1>4, CommitTypes DEF DecideRelease, SetStatus, TypeOK, Statuses
  <1> QED
    BY <1>1, <1>2, <1>3, <1>4 DEF ReleaseRequest

\* Requests about a plan keep the types.
LEMMA PlanTypes ==
    ASSUME TypeOK, NEW s \in Sessions, NEW p \in Plans, PlanRequest(s, p)
    PROVE  TypeOK'
  <1>1. CASE CreatePlan(s, p)
    BY <1>1, CommitTypes DEF CreatePlan, TypeOK, PlanStatuses
  <1>2. CASE SubmitPlan(s, p)
    BY <1>2, CommitTypes DEF SubmitPlan, SetPlan, TypeOK, PlanStatuses
  <1>3. ASSUME NEW a \in Approvers, NEW decision \in Verdicts, DecidePlan(s, p, a, decision)
        PROVE  TypeOK'
    <2>1. plans' \in [Plans -> PlanStatuses]
      BY <1>3 DEF DecidePlan, SetPlan, TypeOK, PlanStatuses
    <2>2. signers' \in [Plans -> SUBSET Approvers]
      BY <1>3 DEF DecidePlan, TypeOK
    <2> QED
      BY <1>3, <2>1, <2>2, CommitTypes DEF DecidePlan, TypeOK
  <1> QED
    BY <1>1, <1>2, <1>3 DEF PlanRequest

\* Requests about a deployment keep the types.
LEMMA DeploymentTypes ==
    ASSUME TypeOK, NEW s \in Sessions, NEW d \in Deployments, DeploymentRequest(s, d)
    PROVE  TypeOK'
  <1>1. ASSUME NEW p \in Plans, NEW execute \in BOOLEAN, CreateDeployment(s, p, d, execute)
        PROVE  TypeOK'
    <2>1. /\ deployments' \in [Deployments -> DepStatuses]
          /\ planOf' \in [Deployments -> SUBSET Plans]
          /\ UNCHANGED <<changeSet, status, passed, plans, signers>>
      BY <1>1 DEF CreateDeployment, TypeOK, DepStatuses, Results
    <2>4. stale' \in BOOLEAN
      BY <1>1, NoticeType DEF CreateDeployment
    <2>2. CASE execute
      <3>1. /\ pc' = [pc EXCEPT ![s] = "created"]
            /\ executing' = [executing EXCEPT ![s] = d]
            /\ copy' = [copy EXCEPT ![s] = NoCopy]
        BY <1>1, <2>2 DEF CreateDeployment
      <3> QED
        BY <2>1, <2>4, <3>1, NoCopyType DEF TypeOK
    <2>3. CASE ~execute
      BY <1>1, <2>1, <2>4, <2>3, FinishTypes DEF CreateDeployment, TypeOK
    <2> QED
      BY <2>2, <2>3
  <1>2. ASSUME NEW result \in Results, Rollback(s, d, result) PROVE TypeOK'
    <2>1. deployments' \in [Deployments -> DepStatuses]
      BY <1>2 DEF Rollback, SetDeployment, TypeOK, DepStatuses, Results
    <2> QED
      BY <1>2, <2>1, CommitTypes DEF Rollback, TypeOK
  <1> QED
    BY <1>1, <1>2 DEF DeploymentRequest

\* The types are inductive.
LEMMA TypeStep == TypeOK /\ [Next]_vars => TypeOK'
  <1> SUFFICES ASSUME TypeOK, [Next]_vars PROVE TypeOK'
    OBVIOUS
  <1>1. CASE ApproveChangeSet
    BY <1>1 DEF ApproveChangeSet, TypeOK
  <1>2. ASSUME NEW s \in Sessions, Request(s) PROVE TypeOK'
    <2>1. CASE Open(s)
      <3>1. [changeSet |-> changeSet, status |-> status, passed |-> passed,
             plans |-> plans, deployments |-> deployments] \in Copies
        BY DEF TypeOK, Copies
      <3> QED
        BY <2>1, <3>1 DEF Open, TypeOK
    <2>2. CASE Refuse(s)
      BY <2>2, FinishTypes DEF Refuse, TypeOK
    <2>3. CASE Execute(s)
      BY <2>3 DEF Execute, TypeOK, DepStatuses, Results
    <2>4. ASSUME NEW result \in Results, Answer(s, result) PROVE TypeOK'
      <3>1. deployments' \in [Deployments -> DepStatuses]
        BY <2>4 DEF Answer, TypeOK, DepStatuses
      <3> QED
        BY <2>4, <3>1, FinishTypes DEF Answer, TypeOK
    <2> QED
      BY <1>2, <2>1, <2>2, <2>3, <2>4, ReleaseTypes, PlanTypes, DeploymentTypes DEF Request
  <1>3. CASE UNCHANGED vars
    BY <1>3 DEF vars, TypeOK
  <1> QED
    BY <1>1, <1>2, <1>3 DEF Next

\* The types hold before the release exists.
LEMMA TypeInit == Init => TypeOK
  <1> SUFFICES ASSUME Init PROVE TypeOK
    OBVIOUS
  <1>1. plans \in [Plans -> PlanStatuses] /\ signers \in [Plans -> SUBSET Approvers]
    BY DEF Init, PlanStatuses
  <1>2. /\ deployments \in [Deployments -> DepStatuses]
        /\ planOf \in [Deployments -> SUBSET Plans]
    BY DEF Init, DepStatuses
  <1>3. /\ pc \in [Sessions -> {"idle", "loaded", "created", "running"}]
        /\ copy \in [Sessions -> Copies]
        /\ executing \in [Sessions -> Deployments \cup {NoDeployment}]
    BY NoCopyType DEF Init
  <1> QED
    BY <1>1, <1>2, <1>3 DEF Init, TypeOK, Statuses

\* However requests interleave, the tables stay well formed.
THEOREM ReleaseTypeCorrect == Spec => []TypeOK
  BY TypeInit, TypeStep, PTL DEF Spec

\* A plan collects signatures and loses none, and only the creation of a
\* deployment gives it a plan, one past dual control if it is for production.
LEMMA SignedStep == ASSUME TypeOK, ProductionSigned, [Next]_vars PROVE ProductionSigned'
  <1>1. /\ \A p \in Plans : signers[p] \subseteq signers'[p]
        /\ \A d \in Deployments : planOf'[d] \subseteq Plans
        /\ \A d \in Deployments : \/ planOf'[d] = planOf[d]
                                  \/ \A p \in planOf'[d] : p \in Production => DualControl(p)
    <2>1. CASE UNCHANGED <<signers, planOf>>
      BY <2>1 DEF TypeOK
    <2>2. ASSUME NEW s \in Sessions, NEW p \in Plans, NEW a \in Approvers,
                 NEW decision \in Verdicts, DecidePlan(s, p, a, decision)
          PROVE  /\ \A q \in Plans : signers[q] \subseteq signers'[q]
                 /\ planOf' = planOf
      BY <2>2 DEF DecidePlan, TypeOK
    <2>3. ASSUME NEW s \in Sessions, NEW p \in Plans, NEW d \in Deployments,
                 NEW execute \in BOOLEAN, CreateDeployment(s, p, d, execute)
          PROVE  /\ signers' = signers
                 /\ planOf' = [planOf EXCEPT ![d] = {p}]
                 /\ p \in Production => DualControl(p)
      BY <2>3 DEF CreateDeployment
    <2>4. ASSUME NEW s \in Sessions, NEW p \in Plans, NEW d \in Deployments,
                 NEW execute \in BOOLEAN, CreateDeployment(s, p, d, execute)
          PROVE  /\ \A q \in Plans : signers[q] \subseteq signers'[q]
                 /\ \A e \in Deployments : planOf'[e] \subseteq Plans
                 /\ \A e \in Deployments : \/ planOf'[e] = planOf[e]
                                           \/ \A q \in planOf'[e] : q \in Production => DualControl(q)
      BY <2>3, <2>4 DEF TypeOK
    <2>5. \/ UNCHANGED <<signers, planOf>>
          \/ \E s \in Sessions, p \in Plans, a \in Approvers, decision \in Verdicts :
                DecidePlan(s, p, a, decision)
          \/ \E s \in Sessions, p \in Plans, d \in Deployments, execute \in BOOLEAN :
                CreateDeployment(s, p, d, execute)
      BY DEF Next, Request, ReleaseRequest, PlanRequest, DeploymentRequest, ApproveChangeSet,
             Open, Refuse, CreateRelease, EvaluateReadiness, DecideRelease, Package, CreatePlan,
             SubmitPlan, Execute, Answer, Rollback, vars
    <2> QED
      BY <2>1, <2>2, <2>4, <2>5 DEF TypeOK
  <1>2. ASSUME NEW d \in Deployments, NEW p \in planOf'[d] \cap Production
        PROVE  /\ \E a, b \in signers'[p] : a # b
               /\ signers'[p] \cap ReleaseManagers # {}
               /\ signers'[p] \cap SecurityApprovers # {}
    <2>1. /\ \E a, b \in signers[p] : a # b
          /\ signers[p] \cap ReleaseManagers # {}
          /\ signers[p] \cap SecurityApprovers # {}
      BY <1>1, <1>2 DEF ProductionSigned, DualControl
    <2>2. signers[p] \subseteq signers'[p]
      BY <1>1, <1>2
    <2> QED
      BY <2>1, <2>2
  <1> QED
    BY <1>2 DEF ProductionSigned

\* However requests interleave, no production deployment is created before
\* its plan bears the signatures of dual control
\* (_require_production_dual_control).
THEOREM ProductionIsSigned == Spec => []ProductionSigned
  <1>1. Init => ProductionSigned
    BY DEF Init, ProductionSigned
  <1>2. TypeOK /\ ProductionSigned /\ [Next]_vars => ProductionSigned'
    BY SignedStep
  <1> QED
    BY ReleaseTypeCorrect, <1>1, <1>2, PTL DEF Spec

-----------------------------------------------------------------------------
(* Authorization, as long as nothing was committed on a stale copy.        *)

\* The approval of a change set that a request has read is still there.
CopySound == \A s \in Sessions : pc[s] = "loaded" /\ copy[s].changeSet => changeSet

InExecution(s) == pc[s] \in {"created", "running"}

\* The deployment a request executes is as the request left it, and its own.
ExecutingOK ==
    /\ \A s \in Sessions : InExecution(s) =>
            /\ executing[s] \in Deployments
            /\ deployments[executing[s]] = IF pc[s] = "created" THEN "queued" ELSE "running"
    /\ \A s, t \in Sessions :
            InExecution(s) /\ InExecution(t) /\ executing[s] = executing[t] => s = t

\* A release gets past its draft by passing readiness on an approved change set.
ReadyOK == status \in {"submitted", "approved", "packaged"} => passed /\ changeSet

Authorization ==
    \A d \in Deployments : deployments[d] # "absent" =>
        /\ status = "packaged" /\ passed /\ changeSet
        /\ \A p \in planOf[d] : plans[p] = "approved"

Sound     == ExecutingOK /\ ReadyOK /\ Authorization
DeployInv == TypeOK /\ CopySound /\ (~stale => Sound)

\* A rolled back deployment stays so in this step.
Kept == \A d \in Deployments : deployments[d] = "rolled_back"
                                  => deployments'[d] = "rolled_back"

\* A request that ends leaves the others executing what they executed.
LEMMA ExecutionEnds ==
    ASSUME TypeOK, ExecutingOK, NEW s \in Sessions, Finish(s),
           \A t \in Sessions \ {s} :
               InExecution(t) => deployments'[executing[t]] = deployments[executing[t]]
    PROVE  ExecutingOK'
  <1>1. ~InExecution(s)'
    BY DEF InExecution, Finish, TypeOK
  <1>2. \A t \in Sessions \ {s} : pc'[t] = pc[t] /\ executing'[t] = executing[t]
    BY DEF Finish, TypeOK
  <1> QED
    BY <1>1, <1>2 DEF ExecutingOK, InExecution

\* The same when no deployment changes.
LEMMA ExecutionUndisturbed ==
    ASSUME TypeOK, ExecutingOK, NEW s \in Sessions, Finish(s), UNCHANGED deployments
    PROVE  ExecutingOK'
  BY ExecutionEnds

\* Authorization survives while neither the release nor what is deployed
\* changes and approved plans stay approved.
LEMMA AuthorizationStays ==
    ASSUME TypeOK, ReadyOK, Authorization, UNCHANGED <<changeSet, status, passed, planOf>>,
           \A d \in Deployments : deployments'[d] # "absent" => deployments[d] # "absent",
           \A p \in Plans : plans[p] = "approved" => plans'[p] = "approved"
    PROVE  ReadyOK' /\ Authorization'
  BY DEF ReadyOK, Authorization, TypeOK

\* Readiness, decisions and packaging happen before anything is deployed.
LEMMA ReleaseSound ==
    ASSUME TypeOK, CopySound, Sound, ~stale', NEW s \in Sessions, ReleaseRequest(s)
    PROVE  Sound' /\ Kept
  <1>1. UNCHANGED <<changeSet, plans, deployments, planOf>> /\ Finish(s)
    BY DEF ReleaseRequest, CreateRelease, Package, EvaluateReadiness, DecideRelease, Commit
  <1>2. /\ status # "packaged"
        /\ ReadyOK'
    <2>1. CASE CreateRelease(s)
      BY <2>1 DEF CreateRelease, ReadyOK
    <2>2. CASE Package(s)
      BY <2>2 DEF Package, SetStatus, Commit, Notice, ReleaseUnchanged, Sound, ReadyOK
    <2>3. ASSUME NEW ok \in BOOLEAN, EvaluateReadiness(s, ok)
          PROVE  status # "packaged" /\ ReadyOK'
      <3>1. /\ status \in {"draft", "submitted"} /\ copy[s].status = status
            /\ ok => changeSet
        BY <2>3 DEF EvaluateReadiness, Commit, Notice, ReleaseUnchanged, CopySound
      <3>2. /\ status' = IF ok THEN "submitted" ELSE "draft"
            /\ passed' = ok /\ changeSet' = changeSet
        BY <2>3, <3>1 DEF EvaluateReadiness, SetStatus
      <3> QED
        BY <3>1, <3>2 DEF ReadyOK
    <2>4. ASSUME NEW decision \in Verdicts, DecideRelease(s, decision)
          PROVE  status # "packaged" /\ ReadyOK'
      <3>1. /\ copy[s].status = status
            /\ status' = decision /\ UNCHANGED <<changeSet, passed>>
        BY <2>4 DEF DecideRelease, Commit, Notice, ReleaseUnchanged, SetStatus
      <3>2. decision = "cancelled" \/ status = "submitted"
        BY <2>4, <3>1 DEF DecideRelease, Decidable
      <3>3. status # "packaged"
        BY <2>4, <3>1 DEF DecideRelease, Decidable
      <3> QED
        BY <3>1, <3>2, <3>3 DEF Sound, ReadyOK
    <2> QED
      BY <2>1, <2>2, <2>3, <2>4 DEF ReleaseRequest
  <1>3. Authorization'
    BY <1>1, <1>2 DEF Sound, Authorization
  <1>4. ExecutingOK'
    BY <1>1, ExecutionUndisturbed DEF Sound
  <1> QED
    BY <1>1, <1>2, <1>3, <1>4 DEF Sound, Kept

\* No request takes an approved plan back.
LEMMA PlanSound ==
    ASSUME TypeOK, Sound, ~stale', NEW s \in Sessions, NEW p \in Plans, PlanRequest(s, p)
    PROVE  Sound' /\ Kept
  <1>1. UNCHANGED <<changeSet, status, passed, deployments, planOf>> /\ Finish(s)
    BY DEF PlanRequest, CreatePlan, SubmitPlan, DecidePlan, Commit
  <1>2. \A q \in Plans : plans[q] = "approved" => plans'[q] = "approved"
    <2>1. CASE CreatePlan(s, p)
      BY <2>1 DEF CreatePlan, TypeOK
    <2>2. CASE SubmitPlan(s, p)
      BY <2>2 DEF SubmitPlan, SetPlan, Commit, Notice, PlanUnchanged, TypeOK
    <2>3. ASSUME NEW a \in Approvers, NEW decision \in Verdicts, DecidePlan(s, p, a, decision)
          PROVE  \A q \in Plans : plans[q] = "approved" => plans'[q] = "approved"
      <3>1. copy[s].plans[p] = plans[p] \/ plans[p] = decision
        BY <2>3 DEF DecidePlan, Commit, Notice, PlanUnchanged
      <3>2. copy[s].plans[p] # "approved"
        BY <2>3 DEF DecidePlan, Decidable
      <3>3. plans' = [plans EXCEPT ![p] = IF decision = copy[s].plans[p] THEN @ ELSE decision]
        BY <2>3 DEF DecidePlan, SetPlan
      <3>4. plans[p] = "approved" => plans'[p] = "approved"
        BY <3>1, <3>2, <3>3 DEF TypeOK
      <3>5. \A q \in Plans \ {p} : plans'[q] = plans[q]
        BY <3>3 DEF TypeOK
      <3> QED
        BY <3>4, <3>5
    <2> QED
      BY <2>1, <2>2, <2>3 DEF PlanRequest
  <1>3. ExecutingOK'
    BY <1>1, ExecutionUndisturbed DEF Sound
  <1>4. ReadyOK' /\ Authorization'
    BY <1>1, <1>2, AuthorizationStays DEF Sound
  <1> QED
    BY <1>1, <1>3, <1>4 DEF Sound, Kept

\* A deployment is created under an approved plan of a packaged release, and
\* executed by the request that created it.
LEMMA CreateSound ==
    ASSUME TypeOK, Sound, ~stale', NEW s \in Sessions, NEW p \in Plans,
           NEW d \in Deployments, NEW execute \in BOOLEAN, CreateDeployment(s, p, d, execute)
    PROVE  Sound' /\ Kept
  <1>1. /\ plans[p] = "approved" /\ status = "packaged" /\ passed
        /\ deployments[d] = "absent"
        /\ deployments' = [deployments EXCEPT ![d] = "queued"]
        /\ planOf' = [planOf EXCEPT ![d] = {p}]
        /\ UNCHANGED <<changeSet, status, passed, plans, signers>>
    BY DEF CreateDeployment, Notice, ReleaseUnchanged, PlanUnchanged
  <1>2. ReadyOK' /\ Authorization'
    <2>1. changeSet
      BY <1>1 DEF Sound, ReadyOK
    <2>2. \A e \in Deployments : deployments'[e] # "absent" =>
              \A q \in planOf'[e] : plans[q] = "approved"
      BY <1>1 DEF Sound, TypeOK, Authorization
    <2> QED
      BY <1>1, <2>1, <2>2 DEF ReadyOK, Authorization
  <1>3. \A t \in Sessions : InExecution(t) =>
            executing[t] # d /\ deployments'[executing[t]] = deployments[executing[t]]
    BY <1>1 DEF Sound, ExecutingOK, TypeOK
  <1>4. ExecutingOK'
    <2>1. CASE ~execute
      BY <1>3, <2>1, ExecutionEnds DEF CreateDeployment, Sound
    <2>2. CASE execute
      <3>1. /\ pc' = [pc EXCEPT ![s] = "created"]
            /\ executing' = [executing EXCEPT ![s] = d]
        BY <2>2 DEF CreateDeployment
      <3>2. pc'[s] = "created" /\ executing'[s] = d /\ deployments'[d] = "queued"
        BY <1>1, <3>1 DEF TypeOK
      <3>3. \A t \in Sessions \ {s} : pc'[t] = pc[t] /\ executing'[t] = executing[t]
        BY <3>1 DEF TypeOK
      <3> QED
        BY <1>3, <3>2, <3>3 DEF Sound, ExecutingOK, InExecution
    <2> QED
      BY <2>1, <2>2
  <1>5. Kept
    BY <1>1 DEF Kept, TypeOK
  <1> QED
    BY <1>2, <1>4, <1>5 DEF Sound

\* Executing a deployment and rolling it back change that deployment alone,
\* which no other request executes and which was not rolled back before.
LEMMA ExecuteSound ==
    ASSUME TypeOK, Sound, ~stale', NEW s \in Sessions,
           \/ Execute(s)
           \/ \E result \in Results : Answer(s, result)
           \/ \E d \in Deployments, result \in Results : Rollback(s, d, result)
    PROVE  Sound' /\ Kept
  <1>1. PICK d \in Deployments :
            /\ deployments[d] \notin {"absent", "rolled_back"}
            /\ \A e \in Deployments \ {d} : deployments'[e] = deployments[e]
            /\ \A t \in Sessions \ {s} : InExecution(t) => executing[t] # d
    <2>1. CASE Execute(s) \/ \E result \in Results : Answer(s, result)
      <3>1. InExecution(s)
        BY <2>1 DEF Execute, Answer, InExecution
      <3>2. /\ executing[s] \in Deployments
            /\ deployments[executing[s]] \in {"queued", "running"}
            /\ \A t \in Sessions \ {s} : InExecution(t) => executing[t] # executing[s]
        BY <3>1 DEF Sound, ExecutingOK
      <3>3. \A e \in Deployments \ {executing[s]} : deployments'[e] = deployments[e]
        BY <2>1 DEF Execute, Answer, TypeOK
      <3> QED
        BY <3>2, <3>3
    <2>2. ASSUME NEW d \in Deployments, NEW result \in Results, Rollback(s, d, result)
          PROVE  /\ deployments[d] \notin {"absent", "rolled_back"}
                 /\ \A e \in Deployments \ {d} : deployments'[e] = deployments[e]
                 /\ \A t \in Sessions \ {s} : InExecution(t) => executing[t] # d
      <3>1. deployments[d] \in {"healthy", "failed"}
        BY <2>2 DEF Rollback, Commit, Notice
      <3>2. \A t \in Sessions : InExecution(t) => executing[t] # d
        BY <3>1 DEF Sound, ExecutingOK
      <3>3. \A e \in Deployments \ {d} : deployments'[e] = deployments[e]
        BY <2>2 DEF Rollback, SetDeployment, TypeOK
      <3> QED
        BY <3>1, <3>2, <3>3
    <2> QED
      BY <2>1, <2>2
  <1>2. UNCHANGED <<changeSet, status, passed, plans, planOf>>
    BY DEF Execute, Answer, Rollback
  <1>3. ReadyOK' /\ Authorization'
    BY <1>1, <1>2, AuthorizationStays DEF Sound
  <1>4. \A t \in Sessions \ {s} :
            InExecution(t) => deployments'[executing[t]] = deployments[executing[t]]
    BY <1>1 DEF Sound, ExecutingOK
  <1>5. ExecutingOK'
    <2>1. CASE Execute(s)
      <3>1. /\ pc'[s] = "running" /\ executing' = executing
            /\ executing[s] \in Deployments /\ deployments'[executing[s]] = "running"
        BY <2>1 DEF Execute, Sound, ExecutingOK, InExecution, TypeOK
      <3>2. InExecution(s) /\ \A t \in Sessions \ {s} : pc'[t] = pc[t]
        BY <2>1 DEF Execute, InExecution, TypeOK
      <3> QED
        BY <1>4, <3>1, <3>2 DEF Sound, ExecutingOK, InExecution
    <2>2. CASE Finish(s)
      BY <1>4, <2>2, ExecutionEnds DEF Sound
    <2> QED
      BY <2>1, <2>2 DEF Answer, Rollback, Commit
  <1>6. Kept
    BY <1>1 DEF Kept
  <1> QED
    BY <1>3, <1>5, <1>6 DEF Sound

\* No request about the release touches the change set.
LEMMA ChangeSetUntouched == ASSUME NEW s \in Sessions, Request(s) PROVE UNCHANGED changeSet
  <1>1. ASSUME NEW p \in Plans, PlanRequest(s, p) PROVE UNCHANGED changeSet
    BY <1>1 DEF PlanRequest, CreatePlan, SubmitPlan, DecidePlan
  <1>2. ASSUME NEW d \in Deployments, DeploymentRequest(s, d) PROVE UNCHANGED changeSet
    BY <1>2 DEF DeploymentRequest, CreateDeployment, Rollback
  <1>3. CASE ReleaseRequest(s)
    BY <1>3 DEF ReleaseRequest, CreateRelease, EvaluateReadiness, DecideRelease,
                Package
  <1> QED
    BY <1>1, <1>2, <1>3 DEF Request, Open, Refuse, Execute, Answer

\* What a request has read of the change set stays true.
LEMMA CopySoundStep == ASSUME TypeOK, CopySound, [Next]_vars PROVE CopySound'
  <1>1. changeSet => changeSet'
    BY ChangeSetUntouched DEF Next, ApproveChangeSet, vars
  <1>2. CASE UNCHANGED <<pc, copy>>
    BY <1>1, <1>2 DEF CopySound
  <1>3. ASSUME NEW s \in Sessions, Open(s) PROVE CopySound'
    <2>1. /\ copy'[s].changeSet = changeSet /\ changeSet' = changeSet
          /\ \A t \in Sessions \ {s} : pc'[t] = pc[t] /\ copy'[t] = copy[t]
      BY <1>3 DEF Open, TypeOK
    <2> QED
      BY <2>1 DEF CopySound
  <1>4. ASSUME NEW s \in Sessions,
               \A t \in Sessions \ {s} : pc'[t] = pc[t] /\ copy'[t] = copy[t],
               pc'[s] # "loaded"
        PROVE  CopySound'
    BY <1>1, <1>4 DEF CopySound
  <1>5. ASSUME NEW s \in Sessions, Request(s), ~Open(s) PROVE CopySound'
    <2>1. CASE Finish(s)
      BY <1>4, <2>1 DEF Finish, TypeOK
    <2>2. CASE Execute(s)
      BY <1>4, <2>2 DEF Execute, TypeOK
    <2>3. ASSUME NEW p \in Plans, NEW d \in Deployments, CreateDeployment(s, p, d, TRUE)
          PROVE  CopySound'
      BY <1>4, <2>3 DEF CreateDeployment, TypeOK
    <2>4. ASSUME NEW p \in Plans, NEW d \in Deployments, CreateDeployment(s, p, d, FALSE)
          PROVE  Finish(s)
      BY <2>4 DEF CreateDeployment
    <2> QED
      BY <1>5, <2>1, <2>2, <2>3, <2>4 DEF Request, Refuse, ReleaseRequest, PlanRequest,
         DeploymentRequest, CreateRelease, EvaluateReadiness, DecideRelease, Package,
         CreatePlan, SubmitPlan, DecidePlan, Answer, Rollback, Commit
  <1> QED
    BY <1>2, <1>3, <1>5 DEF Next, ApproveChangeSet, vars

\* A copy that was stale when it was committed is not forgotten.
LEMMA StaleStays == ASSUME [Next]_vars, stale PROVE stale'
  <1>1. ASSUME NEW s \in Sessions, Request(s) PROVE stale'
    <2>1. ASSUME NEW p \in Plans, PlanRequest(s, p) PROVE stale'
      BY <2>1 DEF PlanRequest, CreatePlan, SubmitPlan, DecidePlan, Commit, Notice
    <2>2. ASSUME NEW d \in Deployments, DeploymentRequest(s, d) PROVE stale'
      BY <2>2 DEF DeploymentRequest, CreateDeployment, Rollback, Commit, Notice
    <2>3. CASE ReleaseRequest(s)
      BY <2>3 DEF ReleaseRequest, CreateRelease, EvaluateReadiness, DecideRelease, Package,
                  Commit, Notice
    <2> QED
      BY <1>1, <2>1, <2>2, <2>3 DEF Request, Open, Refuse, Execute, Answer
  <1> QED
    BY <1>1 DEF Next, ApproveChangeSet, vars

\* A step that commits nothing stale keeps deployments sound and rollbacks final.
LEMMA SoundStep ==
    ASSUME TypeOK, CopySound, Sound, [Next]_vars, ~stale' PROVE Sound' /\ Kept
  <1>1. CASE ApproveChangeSet
    BY <1>1 DEF ApproveChangeSet, Sound, ExecutingOK, InExecution, ReadyOK, Authorization, Kept
  <1>2. ASSUME NEW s \in Sessions, Request(s) PROVE Sound' /\ Kept
    <2>1. CASE Open(s)
      <3>1. UNCHANGED <<changeSet, status, passed, plans, deployments, planOf, executing>>
        BY <2>1 DEF Open
      <3>2. \A t \in Sessions : InExecution(t)' => InExecution(t) /\ pc'[t] = pc[t]
        BY <2>1 DEF Open, InExecution, TypeOK
      <3>3. ReadyOK' /\ Authorization'
        BY <3>1, AuthorizationStays DEF Sound
      <3> QED
        BY <3>1, <3>2, <3>3 DEF Sound, ExecutingOK, Kept
    <2>2. CASE Refuse(s)
      <3>1. Finish(s) /\ UNCHANGED <<changeSet, status, passed, plans, deployments, planOf>>
        BY <2>2 DEF Refuse
      <3>2. ReadyOK' /\ Authorization'
        BY <3>1, AuthorizationStays DEF Sound
      <3> QED
        BY <3>1, <3>2, ExecutionUndisturbed DEF Sound, Kept
    <2>3. ASSUME NEW d \in Deployments, NEW p \in Plans, NEW execute \in BOOLEAN,
                 CreateDeployment(s, p, d, execute)
          PROVE  Sound' /\ Kept
      BY <2>3, CreateSound
    <2>4. CASE \/ Execute(s)
               \/ \E result \in Results : Answer(s, result)
               \/ \E d \in Deployments, result \in Results : Rollback(s, d, result)
      BY <2>4, ExecuteSound
    <2> QED
      BY <1>2, <2>1, <2>2, <2>3, <2>4, ReleaseSound, PlanSound DEF Request, DeploymentRequest
  <1>3. CASE UNCHANGED vars
    BY <1>3 DEF vars, Sound, ExecutingOK, InExecution, ReadyOK, Authorization, Kept
  <1> QED
    BY <1>1, <1>2, <1>3 DEF Next

\* DeployInv is inductive, and its steps keep rollbacks.
LEMMA DeployStep == DeployInv /\ [Next]_vars => DeployInv' /\ (~stale' => Kept)
  BY TypeStep, CopySoundStep, StaleStays, SoundStep DEF DeployInv

\* Before the release exists DeployInv holds.
LEMMA DeployInit == Init => DeployInv
  BY TypeInit DEF Init, DeployInv, CopySound, Sound, ExecutingOK, InExecution, ReadyOK,
                  Authorization

\* As long as no request has committed on a stale copy, a deployment keeps
\* what authorized it: an approved plan, and a packaged and ready release of
\* an approved change set (create_deployment, and every guard before it).
THEOREM DeploymentsAreAuthorized == Spec => []Authorized
  <1>1. DeployInv /\ [Next]_vars => DeployInv'
    BY DeployStep
  <1>2. DeployInv => Authorized
    BY DEF DeployInv, Sound, Authorization, Authorized
  <1> QED
    BY DeployInit, <1>1, <1>2, PTL DEF Spec

\* A rolled back deployment stays rolled back until a request commits on a
\* stale copy (rollback_deployment, _execute_deployment).
THEOREM RollbacksAreFinal == Spec => RolledBackFinal
  <1> DEFINE Final == ~stale' => \A d \in Deployments : deployments[d] = "rolled_back"
                                               => deployments'[d] = "rolled_back"
  <1>1. DeployInv /\ [Next]_vars => DeployInv' /\ [Final]_vars
    BY DeployStep DEF Kept
  <1> QED
    BY DeployInit, <1>1, PTL DEF Spec, RolledBackFinal

-----------------------------------------------------------------------------
(* The change set on its own.                                              *)

\* Ending a request keeps the types of its state.
LEMMA EndTypes ==
    ASSUME C!TypeOK, NEW s \in Reviews, C!Finish(s)
    PROVE  at' \in [Reviews -> {"idle", "loaded"}] /\ view' \in [Reviews -> C!Copies]
  <1>1. C!NoCopy \in C!Copies
    BY DEF C!NoCopy, C!Copies, C!Statuses, C!NoHash
  <1> QED
    BY <1>1 DEF C!Finish, C!TypeOK

\* The types are inductive.
LEMMA ReviewTypeStep == C!TypeOK /\ [C!Next]_(C!vars) => C!TypeOK'
  <1> SUFFICES ASSUME C!TypeOK, [C!Next]_(C!vars) PROVE C!TypeOK'
    OBVIOUS
  <1>1. ASSUME NEW diff \in SUBSET Paths, C!Produce(diff) PROVE C!TypeOK'
    BY <1>1 DEF C!Produce, C!TypeOK, C!Statuses, C!Hashes
  <1>2. CASE C!Create
    BY <1>2 DEF C!Create, C!TypeOK, C!Statuses
  <1>3. CASE C!Lapse
    <2>1. PICK e \in evidence :
              evidence' \subseteq evidence \cup {[result |-> "lapsed", hash |-> e.hash]}
      BY <1>3 DEF C!Lapse
    <2>2. e \in C!Evidence
      BY DEF C!TypeOK
    <2>3. [result |-> "lapsed", hash |-> e.hash] \in C!Evidence
      BY <2>2 DEF C!Evidence
    <2>4. UNCHANGED <<review, files, diffHash, approvals, overtaken, at, view>>
      BY <1>3 DEF C!Lapse
    <2> QED
      BY <2>1, <2>3, <2>4 DEF C!TypeOK
  <1>4. ASSUME NEW s \in Reviews, C!Request(s) PROVE C!TypeOK'
    <2> USE DEF C!Commit, C!UpToDate
    <2>1. view[s] \in C!Copies
      BY DEF C!TypeOK
    <2>2. CASE C!Open(s)
      <3>1. [status |-> review, files |-> files, diffHash |-> diffHash,
             evidence |-> evidence] \in C!Copies
        BY DEF C!TypeOK, C!Copies
      <3> QED
        BY <2>2, <3>1 DEF C!Open, C!TypeOK
    <2>3. ASSUME NEW path \in Paths, C!AddFile(s, path) PROVE C!TypeOK'
      BY <2>3, EndTypes DEF C!AddFile, C!TypeOK
    <2>4. CASE C!SelfReview(s)
      BY <2>1, <2>4, EndTypes DEF C!SelfReview, C!SetStatus, C!SetHash, C!TypeOK, C!Copies,
                                  C!Statuses, C!Hashes
    <2>5. CASE C!Submit(s)
      BY <2>5, EndTypes DEF C!Submit, C!SetStatus, C!TypeOK, C!Statuses
    <2>6. ASSUME NEW result \in {"passed", "failed", "waived"}, C!RecordVerification(s, result)
          PROVE  C!TypeOK'
      <3>1. [result |-> result, hash |-> view[s].diffHash] \in C!Evidence
        BY <2>1, <2>6 DEF C!RecordVerification, C!Copies, C!Evidence
      <3>2. review' \in C!Statuses
        BY <2>1, <2>6 DEF C!RecordVerification, C!SetStatus, C!TypeOK, C!Copies, C!Statuses
      <3> QED
        BY <2>6, <3>1, <3>2, EndTypes DEF C!RecordVerification, C!TypeOK
    <2>7. ASSUME NEW decision \in ReviewVerdicts, C!Decide(s, decision) PROVE C!TypeOK'
      <3>1. [decision |-> decision, hash |-> view[s].diffHash] \in C!Approvals
        BY <2>1, <2>7 DEF C!Decide, C!Copies, C!Approvals
      <3> QED
        BY <2>7, <3>1, EndTypes DEF C!Decide, C!SetStatus, C!TypeOK, C!Statuses
    <2>8. CASE C!Refuse(s)
      BY <2>8, EndTypes DEF C!Refuse, C!TypeOK
    <2> QED
      BY <1>4, <2>2, <2>3, <2>4, <2>5, <2>6, <2>7, <2>8 DEF C!Request
  <1>5. CASE UNCHANGED C!vars
    BY <1>5 DEF C!vars, C!TypeOK
  <1> QED
    BY <1>1, <1>2, <1>3, <1>4, <1>5 DEF C!Next

\* The types hold before the change set exists.
LEMMA ReviewTypeInit == C!Init => C!TypeOK
  <1> SUFFICES ASSUME C!Init PROVE C!TypeOK
    OBVIOUS
  <1>1. C!NoCopy \in C!Copies
    BY DEF C!NoCopy, C!Copies, C!Statuses, C!NoHash
  <1> QED
    BY <1>1 DEF C!Init, C!TypeOK, C!Statuses

\* However requests interleave, the tables stay well formed: no verification
\* and no approval is ever recorded without a diff hash (record_verification,
\* resolve_artifact).
THEOREM ChangeSetTypeCorrect == C!Spec => []ReviewTypeOK
  BY ReviewTypeInit, ReviewTypeStep, PTL DEF C!Spec, ReviewTypeOK

-----------------------------------------------------------------------------
(* Requests that find what they loaded.                                    *)

\* Evidence never disappears, so a request that saw some did not dream it.
EvidenceSeen == \A s \in Reviews : view[s].evidence # {} => evidence # {}

\* From the self-review on, the hash is the hash of the recorded files.
DiffFrozen == review \notin {"absent", "draft", "cancelled"} => diffHash = files

ReviewInv == /\ C!TypeOK
             /\ EvidenceSeen
             /\ ~overtaken => DiffFrozen /\ C!Verified /\ C!ApprovedContent

\* No step empties the evidence, and requests copy what is there.
LEMMA EvidenceSeenStep ==
    ASSUME C!TypeOK, EvidenceSeen, [C!Next]_(C!vars)
    PROVE  EvidenceSeen'
  <1>1. ASSUME NEW s \in Reviews, C!Request(s) PROVE EvidenceSeen'
    <2>1. evidence \subseteq evidence'
      BY <1>1 DEF C!Request, C!Open, C!AddFile, C!SelfReview, C!Submit, C!RecordVerification,
                  C!Decide, C!Refuse
    <2>2. \A t \in Reviews \ {s} : view'[t] = view[t]
      BY <1>1 DEF C!TypeOK, C!Request, C!Open, C!AddFile, C!SelfReview, C!Submit,
                  C!RecordVerification, C!Decide, C!Refuse, C!Commit, C!Finish
    <2>3. view'[s] = C!NoCopy \/ C!Open(s)
      BY <1>1 DEF C!TypeOK, C!Request, C!AddFile, C!SelfReview, C!Submit, C!RecordVerification,
                  C!Decide, C!Refuse, C!Commit, C!Finish
    <2>4. view'[s].evidence # {} => evidence' # {}
      <3>1. CASE C!Open(s)
        BY <3>1 DEF C!Open, C!TypeOK
      <3>2. CASE view'[s] = C!NoCopy
        BY <3>2 DEF C!NoCopy
      <3> QED
        BY <2>3, <3>1, <3>2
    <2> QED
      BY <2>1, <2>2, <2>4 DEF EvidenceSeen
  <1>2. CASE C!Lapse
    BY <1>2 DEF C!Lapse, EvidenceSeen
  <1>3. ASSUME UNCHANGED <<evidence, view>> PROVE EvidenceSeen'
    BY <1>3 DEF EvidenceSeen
  <1> QED
    BY <1>1, <1>2, <1>3 DEF C!Next, C!Produce, C!Create, C!vars

\* A file is recorded while the change set is a draft.
LEMMA AddFileKeeps ==
    ASSUME ReviewInv, NEW s \in Reviews, NEW path \in Paths, C!AddFile(s, path), ~overtaken'
    PROVE  DiffFrozen' /\ C!Verified' /\ C!ApprovedContent'
  <1>1. review = "draft" /\ review' = "draft"
    BY DEF C!AddFile, C!Commit, C!UpToDate
  <1> QED
    BY <1>1 DEF DiffFrozen, C!Verified, C!ApprovedContent

\* A self-review gives the files the hash they are frozen under.
LEMMA SelfReviewKeeps ==
    ASSUME ReviewInv, NEW s \in Reviews, C!SelfReview(s), ~overtaken'
    PROVE  DiffFrozen' /\ C!Verified' /\ C!ApprovedContent'
  <1>1. review' = "review" /\ diffHash' = files /\ files' = files
    BY DEF C!SelfReview, C!Commit, C!UpToDate, C!SetStatus, C!SetHash
  <1> QED
    BY <1>1 DEF DiffFrozen, C!Verified, C!ApprovedContent

\* What is submitted has passing evidence of its own diff.
LEMMA SubmitKeeps ==
    ASSUME ReviewInv, NEW s \in Reviews, C!Submit(s), ~overtaken'
    PROVE  DiffFrozen' /\ C!Verified' /\ C!ApprovedContent'
  <1>1. /\ review = "review" /\ review' = "submitted" /\ ~overtaken
        /\ view[s].diffHash = diffHash
        /\ UNCHANGED <<files, diffHash, evidence, approvals>>
    BY DEF C!Submit, C!Commit, C!UpToDate, C!SetStatus
  <1>2. C!Verified'
    <2>1. view[s].evidence # {}
      BY DEF C!Submit, C!Passing
    <2>2. \A c \in view[s].evidence : c.result \in {"passed", "waived"} /\ c.hash = diffHash
      BY <1>1 DEF C!Submit, C!Passing
    <2>3. \A e \in evidence : \E c \in view[s].evidence :
              c.hash = e.hash /\ e.result \in {c.result, "lapsed"}
      BY DEF C!Submit, C!Commit, C!UpToDate
    <2>4. evidence # {}
      BY <2>1 DEF ReviewInv, EvidenceSeen
    <2> QED
      BY <1>1, <2>2, <2>3, <2>4 DEF C!Verified
  <1>3. DiffFrozen' /\ C!ApprovedContent'
    BY <1>1 DEF ReviewInv, DiffFrozen, C!ApprovedContent
  <1> QED
    BY <1>2, <1>3

\* Late evidence either passed or takes the change set back to review.
LEMMA RecordKeeps ==
    ASSUME ReviewInv, NEW s \in Reviews, NEW result \in {"passed", "failed", "waived"},
           C!RecordVerification(s, result), ~overtaken'
    PROVE  DiffFrozen' /\ C!Verified' /\ C!ApprovedContent'
  <1>1. /\ review \in {"review", "submitted"} /\ ~overtaken
        /\ evidence' = evidence \cup {[result |-> result, hash |-> diffHash]}
        /\ review' = IF review = "submitted" /\ result # "passed" THEN "review" ELSE review
        /\ UNCHANGED <<files, diffHash, approvals>>
    BY DEF C!RecordVerification, C!Commit, C!UpToDate, C!SetStatus
  <1>2. C!Verified'
    BY <1>1 DEF ReviewInv, C!Verified
  <1>3. DiffFrozen' /\ C!ApprovedContent'
    BY <1>1 DEF ReviewInv, DiffFrozen, C!ApprovedContent
  <1> QED
    BY <1>2, <1>3

\* An approval is of a submitted, hence verified and frozen, change set.
LEMMA DecideKeeps ==
    ASSUME ReviewInv, NEW s \in Reviews, NEW decision \in ReviewVerdicts, C!Decide(s, decision),
    ~overtaken'
    PROVE  DiffFrozen' /\ C!Verified' /\ C!ApprovedContent'
  <1>1. /\ review' = decision /\ ~overtaken
        /\ approvals' = approvals \cup {[decision |-> decision, hash |-> diffHash]}
        /\ UNCHANGED <<files, diffHash, evidence>>
    BY DEF C!Decide, C!Commit, C!UpToDate, C!SetStatus
  <1>2. decision # "cancelled" => review = "submitted"
    BY DEF C!Decide, C!Commit, C!UpToDate
  <1>3. DiffFrozen' /\ C!Verified'
    BY <1>1, <1>2 DEF ReviewInv, DiffFrozen, C!Verified, C!Decisions
  <1>4. ASSUME decision = "approved" PROVE C!ApprovedContent'
    <2>1. diffHash = files
      BY <1>1, <1>2, <1>4 DEF ReviewInv, DiffFrozen
    <2>2. [decision |-> decision, hash |-> diffHash] \in approvals'
      BY <1>1
    <2> QED
      BY <1>1, <1>4, <2>1, <2>2 DEF C!ApprovedContent
  <1>5. ASSUME decision # "approved" PROVE C!ApprovedContent'
    BY <1>1, <1>5 DEF C!ApprovedContent
  <1> QED
    BY <1>3, <1>4, <1>5

\* A waiver that lapses leaves its verification where it is.
LEMMA LapseKeeps ==
    ASSUME ReviewInv, C!Lapse, ~overtaken'
    PROVE  DiffFrozen' /\ C!Verified' /\ C!ApprovedContent'
  <1>1. PICK e \in evidence :
            /\ evidence' # {}
            /\ \A d \in evidence' : d \in evidence \/ d = [result |-> "lapsed", hash |-> e.hash]
    BY DEF C!Lapse
  <1>2. UNCHANGED <<review, files, diffHash, approvals, overtaken>>
    BY DEF C!Lapse
  <1>3. C!Verified'
    <2>1. \A d \in evidence' : d \in evidence \/ (d.result = "lapsed" /\ d.hash = e.hash)
      BY <1>1
    <2> QED
      BY <1>1, <1>2, <2>1 DEF ReviewInv, C!Verified
  <1>4. DiffFrozen' /\ C!ApprovedContent'
    BY <1>2 DEF ReviewInv, DiffFrozen, C!ApprovedContent
  <1> QED
    BY <1>3, <1>4

\* ReviewInv is inductive.
LEMMA ReviewInvStep == ReviewInv /\ [C!Next]_(C!vars) => ReviewInv'
  <1> SUFFICES ASSUME ReviewInv, [C!Next]_(C!vars) PROVE ReviewInv'
    OBVIOUS
  <1>1. C!TypeOK' /\ EvidenceSeen'
    BY ReviewTypeStep, EvidenceSeenStep DEF ReviewInv
  <1> SUFFICES ASSUME ~overtaken' PROVE DiffFrozen' /\ C!Verified' /\ C!ApprovedContent'
    BY <1>1 DEF ReviewInv
  <1>2. ASSUME NEW diff \in SUBSET Paths, C!Produce(diff)
        PROVE  DiffFrozen' /\ C!Verified' /\ C!ApprovedContent'
    BY <1>2 DEF C!Produce, DiffFrozen, C!Verified, C!ApprovedContent
  <1>3. CASE C!Create
    BY <1>3 DEF C!Create, DiffFrozen, C!Verified, C!ApprovedContent
  <1>4. CASE C!Lapse
    BY <1>4, LapseKeeps
  <1>5. ASSUME UNCHANGED <<review, files, diffHash, evidence, approvals, overtaken>>
        PROVE  DiffFrozen' /\ C!Verified' /\ C!ApprovedContent'
    BY <1>5 DEF ReviewInv, DiffFrozen, C!Verified, C!ApprovedContent
  <1>6. ASSUME NEW s \in Reviews, C!Request(s)
        PROVE  DiffFrozen' /\ C!Verified' /\ C!ApprovedContent'
    <2>1. CASE C!Open(s) \/ C!Refuse(s)
      BY <1>5, <2>1 DEF C!Open, C!Refuse
    <2> QED
      BY <1>6, <2>1, AddFileKeeps, SelfReviewKeeps, SubmitKeeps, RecordKeeps, DecideKeeps
         DEF C!Request
  <1>7. CASE UNCHANGED C!vars
    BY <1>5, <1>7 DEF C!vars
  <1> QED
    BY <1>2, <1>3, <1>4, <1>6, <1>7 DEF C!Next

\* Before the change set exists ReviewInv holds.
LEMMA ReviewInvInit == C!Init => ReviewInv
  BY ReviewTypeInit DEF C!Init, ReviewInv, EvidenceSeen, C!NoCopy, DiffFrozen, C!Verified,
                        C!ApprovedContent

\* However requests overlap, ReviewInv holds.
THEOREM ReviewInvariant == C!Spec => []ReviewInv
  BY ReviewInvInit, ReviewInvStep, PTL DEF C!Spec

\* As long as no request has committed on a stale copy, what waits for approval
\* or has it carries evidence of its own diff, and no failure
\* (submit_change_set and the return to review in record_verification).
THEOREM ChangesAreVerified == C!Spec => []ReviewVerified
  <1>1. ReviewInv => ReviewVerified
    BY DEF ReviewInv, ReviewVerified, C!VerifiedUnlessRaced
  <1> QED
    BY ReviewInvariant, <1>1, PTL

\* As long as no request has committed on a stale copy, an approval is of the
\* files the change set holds now (self_review_change_set, decide).
THEOREM ApprovalsBindContent == C!Spec => []ReviewBindsContent
  <1>1. ReviewInv => ReviewBindsContent
    BY DEF ReviewInv, ReviewBindsContent, C!ContentUnlessRaced
  <1> QED
    BY ReviewInvariant, <1>1, PTL

-----------------------------------------------------------------------------
(* The two of them side by side.                                           *)

\* An approval stays until a request commits on a stale copy of the change set.
LEMMA ApprovalStands ==
    ASSUME ReviewInv, C!Next, ~overtaken', review = "approved"
    PROVE  ~overtaken /\ review' = "approved"
  <1>1. ASSUME NEW s \in Reviews, C!Request(s) PROVE ~overtaken /\ review' = "approved"
    <2>1. CASE C!Open(s) \/ C!Refuse(s)
      BY <2>1 DEF C!Open, C!Refuse
    <2>2. ASSUME C!Commit(s) PROVE ~overtaken /\ view[s].status = "approved"
      BY <2>2 DEF C!Commit, C!UpToDate
    <2>3. ASSUME NEW path \in Paths, C!AddFile(s, path) PROVE FALSE
      BY <2>2, <2>3 DEF C!AddFile
    <2>4. ASSUME NEW result \in {"passed", "failed", "waived"}, C!RecordVerification(s, result)
          PROVE  FALSE
      BY <2>2, <2>4 DEF C!RecordVerification
    <2>5. ASSUME NEW decision \in ReviewVerdicts, C!Decide(s, decision) PROVE FALSE
      BY <2>2, <2>5 DEF C!Decide
    <2>6. CASE C!SelfReview(s) \/ C!Submit(s)
      BY <2>2, <2>6 DEF C!SelfReview, C!Submit
    <2> QED
      BY <1>1, <2>1, <2>3, <2>4, <2>5, <2>6 DEF C!Request
  <1> QED
    BY <1>1 DEF C!Next, C!Produce, C!Create, C!Lapse

\* What was committed on a stale copy is never forgotten.
LEMMA StaleRemembered == ASSUME C!TypeOK, [C!Next]_(C!vars), overtaken PROVE overtaken'
  BY DEF C!Next, C!Produce, C!Create, C!Lapse, C!Request, C!Open, C!AddFile, C!SelfReview,
         C!Submit, C!RecordVerification, C!Decide, C!Refuse, C!Commit, C!vars

\* A release is begun with an approved change set; whoever deploys it, or has
\* seen it, knows that it was begun.
Begun ==
    /\ \A s \in Sessions : copy[s].status # "absent" \/ InExecution(s) => status # "absent"
    /\ \A s \in Sessions, d \in Deployments :
           copy[s].deployments[d] # "absent" => status # "absent"
    /\ \A d \in Deployments : deployments[d] # "absent" => status # "absent"
    /\ status # "absent" => changeSet

DeliveryInv ==
    /\ ReviewInv
    /\ TypeOK
    /\ changeSet = (review = "approved")
    /\ ~overtaken => DeployInv /\ Begun

\* A request about the release that ends leaves what the others know.
LEMMA BegunKept ==
    ASSUME TypeOK, Begun, NEW s \in Sessions, Finish(s), UNCHANGED changeSet,
           status # "absent" => status' # "absent",
           status' # "absent" => changeSet,
           \A d \in Deployments : deployments'[d] # "absent" => status' # "absent"
    PROVE  Begun'
  <1>1. /\ pc'[s] = "idle" /\ copy'[s].status = "absent"
        /\ \A d \in Deployments : copy'[s].deployments[d] = "absent"
    BY DEF Finish, TypeOK, NoCopy
  <1>2. \A t \in Sessions \ {s} : pc'[t] = pc[t] /\ copy'[t] = copy[t]
    BY DEF Finish, TypeOK
  <1> QED
    BY <1>1, <1>2 DEF Begun, InExecution

\* Steps of Release begin a release only with an approved change set.
LEMMA BegunStep == ASSUME TypeOK, CopySound, Begun, [Next]_vars PROVE Begun'
  <1>1. CASE ApproveChangeSet
    BY <1>1 DEF ApproveChangeSet, Begun, InExecution
  <1>2. ASSUME NEW s \in Sessions, Request(s) PROVE Begun'
    <2>1. CASE Open(s)
      <3>1. /\ pc'[s] = "loaded" /\ copy'[s].status = status
            /\ copy'[s].deployments = deployments
            /\ \A t \in Sessions \ {s} : pc'[t] = pc[t] /\ copy'[t] = copy[t]
        BY <2>1 DEF Open, TypeOK
      <3> QED
        BY <2>1, <3>1 DEF Open, Begun, InExecution
    <2>2. CASE Refuse(s)
      BY <2>2, BegunKept DEF Refuse, Begun
    <2>3. CASE CreateRelease(s)
      <3>1. changeSet /\ status' = "draft" /\ Finish(s) /\ UNCHANGED changeSet
        BY <2>3 DEF CreateRelease, Commit, CopySound
      <3> QED
        BY <3>1, BegunKept
    <2>4. CASE \/ Package(s)
               \/ \E ok \in BOOLEAN : EvaluateReadiness(s, ok)
               \/ \E decision \in Verdicts : DecideRelease(s, decision)
      <3>1. copy[s].status # "absent"
        BY <2>4 DEF Package, EvaluateReadiness, DecideRelease, Decidable
      <3>2. Finish(s) /\ UNCHANGED <<changeSet, deployments>>
        BY <2>4 DEF Package, EvaluateReadiness, DecideRelease, Commit
      <3>3. status # "absent" /\ status' # "absent"
        BY <2>4, <3>1
           DEF Package, EvaluateReadiness, DecideRelease, SetStatus, Decisions, Begun
      <3> QED
        BY <3>2, <3>3, BegunKept DEF Begun
    <2>5. ASSUME NEW p \in Plans, PlanRequest(s, p) PROVE Begun'
      <3>1. Finish(s) /\ UNCHANGED <<changeSet, status, deployments>>
        BY <2>5 DEF PlanRequest, CreatePlan, SubmitPlan, DecidePlan, Commit
      <3> QED
        BY <3>1, BegunKept DEF Begun
    <2>6. ASSUME NEW d \in Deployments, NEW p \in Plans, NEW execute \in BOOLEAN,
                 CreateDeployment(s, p, d, execute)
          PROVE  Begun'
      <3>1. status # "absent" /\ UNCHANGED <<changeSet, status>>
        BY <2>6 DEF CreateDeployment, Begun
      <3>2. CASE execute
        BY <3>1 DEF Begun
      <3>3. CASE ~execute
        BY <2>6, <3>1, <3>3, BegunKept DEF CreateDeployment, Begun
      <3> QED
        BY <3>2, <3>3
    <2>7. CASE Execute(s)
      <3>1. status # "absent" /\ UNCHANGED <<changeSet, status, copy>>
        BY <2>7 DEF Execute, Begun, InExecution
      <3> QED
        BY <3>1 DEF Begun
    <2>8. ASSUME NEW result \in Results, Answer(s, result) PROVE Begun'
      <3>1. status # "absent" /\ UNCHANGED <<changeSet, status>> /\ Finish(s)
        BY <2>8 DEF Answer, Begun, InExecution
      <3> QED
        BY <3>1, BegunKept DEF Begun
    <2>9. ASSUME NEW d \in Deployments, NEW result \in Results, Rollback(s, d, result)
          PROVE  Begun'
      <3>1. UNCHANGED <<changeSet, status>> /\ Finish(s)
        BY <2>9 DEF Rollback, Commit
      <3>2. \A e \in Deployments : deployments'[e] # "absent" => status # "absent"
        BY <2>9 DEF Rollback, Begun
      <3> QED
        BY <3>1, <3>2, BegunKept DEF Begun
    <2> QED
      BY <1>2, <2>1, <2>2, <2>3, <2>4, <2>5, <2>6, <2>7, <2>8, <2>9
         DEF Request, ReleaseRequest, DeploymentRequest
  <1>3. CASE UNCHANGED vars
    BY <1>3 DEF vars, Begun, InExecution
  <1> QED
    BY <1>1, <1>2, <1>3 DEF Next

\* What a request about the change set does is a step of Release or none, unless
\* it commits on a stale copy.
LEMMA ReviewStepMaps ==
    ASSUME DeliveryInv, ReviewStep, ~overtaken'
    PROVE  [Next]_vars
  <1>1. review = "approved" => review' = "approved"
    BY ApprovalStands DEF DeliveryInv, ReviewStep
  <1>2. CASE changeSet' = changeSet
    BY <1>2 DEF ReviewStep, releaseVars, vars
  <1>3. CASE changeSet' # changeSet
    <2>1. ~changeSet /\ changeSet' = TRUE
      BY <1>1, <1>3 DEF DeliveryInv, ReviewStep
    <2>2. ApproveChangeSet
      BY <2>1 DEF ReviewStep, releaseVars, ApproveChangeSet
    <2> QED
      BY <2>2 DEF Next
  <1> QED
    BY <1>2, <1>3

\* DeliveryInv is inductive, and its steps are steps of Release until a request
\* about the change set commits on a stale copy.
LEMMA DeliveryStep ==
    DeliveryInv /\ [DeliveryNext]_deliveryVars
        => DeliveryInv' /\ (~overtaken' => ~overtaken /\ [Next]_vars)
  <1> SUFFICES ASSUME DeliveryInv, [DeliveryNext]_deliveryVars
               PROVE  DeliveryInv' /\ (~overtaken' => ~overtaken /\ [Next]_vars)
    OBVIOUS
  <1> USE DEF DeliveryInv
  <1>1. [C!Next]_(C!vars)
    BY DEF DeliveryNext, ReviewStep, ReleaseStep, deliveryVars, reviewVars, C!vars
  <1>2. ReviewInv' /\ (overtaken => overtaken')
    BY <1>1, ReviewInvStep, StaleRemembered DEF ReviewInv
  <1>3. TypeOK' /\ (~overtaken' => [Next]_vars) /\ changeSet' = (review' = "approved")
    <2>1. CASE ReviewStep
      BY <2>1, ReviewStepMaps DEF ReviewStep, releaseVars, TypeOK
    <2>2. CASE ReleaseStep
      <3>1. Next /\ UNCHANGED changeSet /\ UNCHANGED review
        BY <2>2, ChangeSetUntouched DEF ReleaseStep, Next, reviewVars
      <3> QED
        BY <3>1, TypeStep
    <2>3. CASE UNCHANGED deliveryVars
      BY <2>3 DEF deliveryVars, reviewVars, vars, TypeOK
    <2> QED
      BY <2>1, <2>2, <2>3 DEF DeliveryNext
  <1>4. ASSUME ~overtaken' PROVE DeployInv' /\ Begun'
    BY <1>2, <1>3, <1>4, DeployStep, BegunStep DEF DeployInv
  <1> QED
    BY <1>2, <1>3, <1>4

\* Before the change set exists DeliveryInv holds.
LEMMA DeliveryInitially == DeliveryInit => DeliveryInv
  <1> SUFFICES ASSUME DeliveryInit PROVE DeliveryInv
    OBVIOUS
  <1>1. ReviewInv /\ DeployInv /\ TypeOK
    BY ReviewInvInit, DeployInit, TypeInit DEF DeliveryInit
  <1>2. Begun
    BY DEF DeliveryInit, Init, NoCopy, Begun, InExecution
  <1>3. changeSet = (review = "approved")
    BY DEF DeliveryInit, C!Init, Init
  <1> QED
    BY <1>1, <1>2, <1>3 DEF DeliveryInv

\* However requests about a change set and about its release overlap,
\* DeliveryInv holds.
THEOREM DeliveryInvariant == DeliverySpec => []DeliveryInv
  BY DeliveryInitially, DeliveryStep, PTL DEF DeliverySpec

\* Requests about the release leave the review what it is: it behaves as
\* ChangeSetReview does on its own, and keeps its promises.
THEOREM ReviewUndisturbed ==
    DeliverySpec => C!Spec /\ [](ReviewTypeOK /\ ReviewVerified /\ ReviewBindsContent)
  <1>1. DeliveryInit => C!Init
    BY DEF DeliveryInit
  <1>2. [DeliveryNext]_deliveryVars => [C!Next]_(C!vars)
    BY DEF DeliveryNext, ReviewStep, ReleaseStep, deliveryVars, reviewVars, C!vars
  <1>3. DeliverySpec => C!Spec
    BY <1>1, <1>2, PTL DEF DeliverySpec, C!Spec
  <1> QED
    BY <1>3, ChangeSetTypeCorrect, ChangesAreVerified, ApprovalsBindContent, PTL

\* ChangeSetReview gives Release the change set it is built on: each step is a
\* step of Release or leaves it alone until a request about the change set
\* commits on a stale copy.
THEOREM ReviewFeedsRelease == DeliverySpec => StepsOfRelease
  <1> DEFINE Maps == ~overtaken' => [Next]_vars
  <1>1. DeliveryInv /\ [DeliveryNext]_deliveryVars => DeliveryInv' /\ [Maps]_deliveryVars
    BY DeliveryStep
  <1> QED
    BY DeliveryInitially, <1>1, PTL DEF DeliverySpec, StepsOfRelease

\* Until then what is released is exactly what was approved and verified, however
\* the requests about the release race (submit_change_set, decide,
\* create_release).
THEOREM WhatIsReleasedWasReviewed == DeliverySpec => []ReleasedAsReviewed
  <1>1. ASSUME DeliveryInv PROVE ReleasedAsReviewed
    <2> SUFFICES ASSUME ~overtaken,
                        status # "absent" \/ \E d \in Deployments : deployments[d] # "absent"
                 PROVE  /\ review = "approved"
                        /\ \E a \in approvals : a.decision = "approved" /\ a.hash = files
                        /\ evidence # {}
                        /\ \A e \in evidence : e.hash = files /\ e.result # "failed"
      BY DEF ReleasedAsReviewed
    <2>1. review = "approved"
      BY <1>1 DEF DeliveryInv, Begun
    <2>2. diffHash = files /\ C!Verified /\ C!ApprovedContent
      BY <1>1, <2>1 DEF DeliveryInv, ReviewInv, DiffFrozen
    <2> QED
      BY <2>1, <2>2 DEF C!Verified, C!ApprovedContent
  <1> QED
    BY DeliveryInvariant, <1>1, PTL

\* And what Release proves of deployments goes for the two together.
THEOREM DeliveryIsAuthorized == DeliverySpec => [](~overtaken => Authorized)
  <1>1. DeliveryInv => (~overtaken => Authorized)
    BY DEF DeliveryInv, DeployInv, Sound, Authorization, Authorized
  <1> QED
    BY DeliveryInvariant, <1>1, PTL

=============================================================================
