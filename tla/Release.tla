------------------------------ MODULE Release ------------------------------
(***************************************************************************)
(* One release of an approved change set, its deployment plans and their   *)
(* deployments (backend/app/release/routes.py, and                         *)
(* backend/app/approvals/service.py for the decisions).                    *)
(*                                                                         *)
(* A request loads what it needs, decides on that copy and commits what it *)
(* changed; a deployment that is executed commits twice more, before and   *)
(* after the call of the deployment provider.  The change set belongs to   *)
(* ChangeSetReview: here it only becomes approved, once.                   *)
(*                                                                         *)
(* Missing scopes, malformed payloads, a version already released, a       *)
(* self-approval and a stale hash named by the client make a request       *)
(* Refuse.  Whether a mandatory readiness check other than the approval of *)
(* the change set passes is an input.                                      *)
(***************************************************************************)
EXTENDS Integers

CONSTANTS
    Plans,              \* deployment plans of the release
    Production,         \* those for the production environment
    Deployments,        \* deployments that may be created: a bound
    NoDeployment,
    Approvers,          \* users with the approval scope
    ReleaseManagers,    \* release managers and organization administrators
    SecurityApprovers,  \* security approvers and organization administrators
    Verdicts,           \* the decisions they take
    Sessions            \* requests in progress at one time

ASSUME PlansAssumption     == Production \subseteq Plans
ASSUME NoDeployAssumption  == NoDeployment \notin Deployments
ASSUME ApproversAssumption == /\ ReleaseManagers \subseteq Approvers
                              /\ SecurityApprovers \subseteq Approvers

Decisions == {"approved", "rejected", "changes_requested", "waived", "cancelled"}
ASSUME VerdictsAssumption == Verdicts \subseteq Decisions

Statuses      == Decisions \cup {"absent", "draft", "submitted", "packaged"}
PlanStatuses  == Decisions \cup {"absent", "draft", "submitted"}
Results       == {"queued", "running", "healthy", "failed", "rolled_back"}
DepStatuses   == Results \cup {"absent"}

VARIABLES
    changeSet,   \* the change set is approved
    status,      \* releases.status
    passed,      \* releases.readiness["passed"]
    plans,       \* deployment_plans.status of each plan
    signers,     \* who has an "approved" approval on each plan
    deployments, \* deployments.status of each deployment
    planOf,      \* the plans each deployment was created for
    stale,       \* has a request committed what it decided on a copy that was
                 \* not true any more (for the properties only)
    pc,          \* where each request is
    copy,        \* the rows as each request has loaded them
    executing    \* the deployment a request executes

vars == <<changeSet, status, passed, plans, signers, deployments, planOf,
          stale, pc, copy, executing>>

Copies == [changeSet : BOOLEAN, status : Statuses, passed : BOOLEAN,
           plans : [Plans -> PlanStatuses], deployments : [Deployments -> DepStatuses]]
NoCopy == [changeSet |-> FALSE, status |-> "absent", passed |-> FALSE,
           plans |-> [p \in Plans |-> "absent"],
           deployments |-> [d \in Deployments |-> "absent"]]

\* The change set of the release is approved (ChangeSetReview!Decide).
ApproveChangeSet ==
    /\ ~changeSet
    /\ changeSet' = TRUE
    /\ UNCHANGED <<status, passed, plans, signers, deployments, planOf, stale, pc, copy, executing>>

-----------------------------------------------------------------------------
(* Requests.                                                               *)

Open(s) ==
    /\ pc[s] = "idle"
    /\ pc' = [pc EXCEPT ![s] = "loaded"]
    /\ copy' = [copy EXCEPT ![s] = [changeSet |-> changeSet, status |-> status,
                                    passed |-> passed, plans |-> plans,
                                    deployments |-> deployments]]
    /\ UNCHANGED <<changeSet, status, passed, plans, signers, deployments, planOf, stale, executing>>

Finish(s) ==
    /\ pc' = [pc EXCEPT ![s] = "idle"]
    /\ copy' = [copy EXCEPT ![s] = NoCopy]
    /\ executing' = [executing EXCEPT ![s] = NoDeployment]

\* What the request has read is still what the database holds.
ReleaseUnchanged(s) == copy[s].status = status /\ copy[s].passed = passed
PlanUnchanged(s, p) == copy[s].plans[p] = plans[p]

Notice(unchanged) == stale' = (stale \/ ~unchanged)

Commit(s, unchanged) == Notice(unchanged) /\ Finish(s)

\* An UPDATE leaves a column out when the new value is the loaded one.
SetStatus(s, new) == status' = IF new = copy[s].status THEN status ELSE new
SetPlan(s, p, new) ==
    plans' = [plans EXCEPT ![p] = IF new = copy[s].plans[p] THEN @ ELSE new]
SetDeployment(s, d, new) ==
    deployments' = [deployments EXCEPT ![d] = IF new = copy[s].deployments[d] THEN @ ELSE new]

\* What a decision of approvals.service.decide needs of a loaded status.
Decidable(loaded, decision) ==
    loaded \in IF decision = "cancelled"
               THEN {"draft", "submitted", "rejected", "changes_requested", "waived"}
               ELSE {"submitted"}

(* The release.                                                            *)

CreateRelease(s) ==
    /\ pc[s] = "loaded"
    /\ copy[s].changeSet
    /\ status = "absent"
    /\ status' = "draft"
    /\ Commit(s, TRUE)
    /\ UNCHANGED <<changeSet, passed, plans, signers, deployments, planOf>>

\* Mutant of EvaluateReadiness: an approved release is evaluated again.
EvaluateAnyTime(s, ok) ==
    /\ pc[s] = "loaded"
    /\ copy[s].status \notin {"absent", "cancelled"}
    /\ ok => copy[s].changeSet
    /\ passed' = ok
    /\ SetStatus(s, IF ok THEN "submitted" ELSE "draft")
    /\ Commit(s, ReleaseUnchanged(s))
    /\ UNCHANGED <<changeSet, plans, signers, deployments, planOf>>

\* evaluate_readiness: a release is submitted by passing every mandatory check.
EvaluateReadiness(s, ok) ==
    /\ pc[s] = "loaded"
    /\ copy[s].status \in {"draft", "submitted"}
    /\ ok => copy[s].changeSet
    /\ passed' = ok
    /\ SetStatus(s, IF ok THEN "submitted" ELSE "draft")
    /\ Commit(s, ReleaseUnchanged(s))
    /\ UNCHANGED <<changeSet, plans, signers, deployments, planOf>>

DecideRelease(s, decision) ==
    /\ pc[s] = "loaded"
    /\ Decidable(copy[s].status, decision)
    /\ SetStatus(s, decision)
    /\ Commit(s, ReleaseUnchanged(s))
    /\ UNCHANGED <<changeSet, passed, plans, signers, deployments, planOf>>

Package(s) ==
    /\ pc[s] = "loaded"
    /\ copy[s].status = "approved"
    /\ copy[s].passed
    /\ SetStatus(s, "packaged")
    /\ Commit(s, ReleaseUnchanged(s))
    /\ UNCHANGED <<changeSet, passed, plans, signers, deployments, planOf>>

(* Deployment plans.                                                       *)

CreatePlan(s, p) ==
    /\ pc[s] = "loaded"
    /\ copy[s].status = "packaged"
    /\ plans[p] = "absent"
    /\ plans' = [plans EXCEPT ![p] = "draft"]
    /\ Commit(s, ReleaseUnchanged(s))
    /\ UNCHANGED <<changeSet, status, passed, signers, deployments, planOf>>

SubmitPlan(s, p) ==
    /\ pc[s] = "loaded"
    /\ copy[s].plans[p] = "draft"
    /\ SetPlan(s, p, "submitted")
    /\ Commit(s, PlanUnchanged(s, p))
    /\ UNCHANGED <<changeSet, status, passed, signers, deployments, planOf>>

DecidePlan(s, p, a, decision) ==
    /\ pc[s] = "loaded"
    /\ Decidable(copy[s].plans[p], decision)
    /\ SetPlan(s, p, decision)
    /\ signers' = [signers EXCEPT ![p] = IF decision = "approved" THEN @ \cup {a} ELSE @]
    /\ Commit(s, PlanUnchanged(s, p) \/ plans[p] = decision)
    /\ UNCHANGED <<changeSet, status, passed, deployments, planOf>>

(* Deployments.                                                            *)

\* Mutant of DualControl: any two approvers will do.
TwoSigners(p) == \E a, b \in signers[p] : a # b

\* _require_production_dual_control.
DualControl(p) == /\ \E a, b \in signers[p] : a # b
                  /\ signers[p] \cap ReleaseManagers # {}
                  /\ signers[p] \cap SecurityApprovers # {}

\* create_deployment; execute is the caller's wish to deploy at once.
CreateDeployment(s, p, d, execute) ==
    /\ pc[s] = "loaded"
    /\ copy[s].plans[p] = "approved"
    /\ copy[s].status = "packaged"
    /\ copy[s].passed
    /\ p \in Production => DualControl(p)
    /\ deployments[d] = "absent"
    /\ deployments' = [deployments EXCEPT ![d] = "queued"]
    /\ planOf' = [planOf EXCEPT ![d] = {p}]
    /\ Notice(ReleaseUnchanged(s) /\ PlanUnchanged(s, p))
    /\ IF execute
       THEN /\ pc' = [pc EXCEPT ![s] = "created"]
            /\ executing' = [executing EXCEPT ![s] = d]
            /\ copy' = [copy EXCEPT ![s] = NoCopy]
       ELSE Finish(s)
    /\ UNCHANGED <<changeSet, status, passed, plans, signers>>

\* _execute_deployment, its first commit and the one after the provider answered.
Execute(s) ==
    /\ pc[s] = "created"
    /\ pc' = [pc EXCEPT ![s] = "running"]
    /\ deployments' = [deployments EXCEPT ![executing[s]] = "running"]
    /\ UNCHANGED <<changeSet, status, passed, plans, signers, planOf, stale, copy, executing>>

\* Mutant of Answer: a healthy deployment gets the word of a readiness check.
AnswerLikeCheck(s, result) ==
    /\ pc[s] = "running"
    /\ deployments' = [deployments EXCEPT ![executing[s]] =
                          IF result = "healthy" THEN "passed" ELSE result]
    /\ Finish(s)
    /\ UNCHANGED <<changeSet, status, passed, plans, signers, planOf, stale>>

Answer(s, result) ==
    /\ pc[s] = "running"
    /\ deployments' = [deployments EXCEPT ![executing[s]] = result]
    /\ Finish(s)
    /\ UNCHANGED <<changeSet, status, passed, plans, signers, planOf, stale>>

\* Mutant of Rollback: a deployment that was rolled back is rolled back again.
RollbackAgain(s, d, result) ==
    /\ pc[s] = "loaded"
    /\ copy[s].deployments[d] \in {"healthy", "failed", "rolled_back"}
    /\ SetDeployment(s, d, IF result = "failed" THEN "failed" ELSE "rolled_back")
    /\ Commit(s, copy[s].deployments[d] = deployments[d])
    /\ UNCHANGED <<changeSet, status, passed, plans, signers, planOf>>

\* rollback_deployment, after the provider answered.
Rollback(s, d, result) ==
    /\ pc[s] = "loaded"
    /\ copy[s].deployments[d] \in {"healthy", "failed"}
    /\ SetDeployment(s, d, IF result = "failed" THEN "failed" ELSE "rolled_back")
    /\ Commit(s, copy[s].deployments[d] = deployments[d])
    /\ UNCHANGED <<changeSet, status, passed, plans, signers, planOf>>

\* A guard refuses the request, the provider fails during a rollback, or the
\* process dies: what was committed stays.
Refuse(s) ==
    /\ pc[s] # "idle"
    /\ Finish(s)
    /\ UNCHANGED <<changeSet, status, passed, plans, signers, deployments, planOf, stale>>

-----------------------------------------------------------------------------
Init ==
    /\ changeSet = FALSE
    /\ status = "absent"
    /\ passed = FALSE
    /\ plans = [p \in Plans |-> "absent"]
    /\ signers = [p \in Plans |-> {}]
    /\ deployments = [d \in Deployments |-> "absent"]
    /\ planOf = [d \in Deployments |-> {}]
    /\ stale = FALSE
    /\ pc = [s \in Sessions |-> "idle"]
    /\ copy = [s \in Sessions |-> NoCopy]
    /\ executing = [s \in Sessions |-> NoDeployment]

ReleaseRequest(s) ==
    \/ CreateRelease(s) \/ Package(s)
    \/ \E ok \in BOOLEAN : EvaluateReadiness(s, ok)
    \/ \E decision \in Verdicts : DecideRelease(s, decision)

PlanRequest(s, p) ==
    \/ CreatePlan(s, p) \/ SubmitPlan(s, p)
    \/ \E a \in Approvers, decision \in Verdicts : DecidePlan(s, p, a, decision)

DeploymentRequest(s, d) ==
    \/ \E p \in Plans, execute \in BOOLEAN : CreateDeployment(s, p, d, execute)
    \/ \E result \in Results : Rollback(s, d, result)

Request(s) ==
    \/ Open(s) \/ Refuse(s)
    \/ ReleaseRequest(s)
    \/ \E p \in Plans : PlanRequest(s, p)
    \/ \E d \in Deployments : DeploymentRequest(s, d)
    \/ Execute(s)
    \/ \E result \in Results : Answer(s, result)

Next == ApproveChangeSet \/ \E s \in Sessions : Request(s)

Spec == Init /\ [][Next]_vars

\* Approvers keep asking: requests are made again and again, each of them ends,
\* and an approver who could approve a plan time after time does so.
Insistent ==
    /\ \A s \in Sessions : WF_vars(Open(s)) /\ WF_vars(Refuse(s))
    /\ \A s \in Sessions, p \in Plans, a \in Approvers : SF_vars(DecidePlan(s, p, a, "approved"))
FairSpec == Spec /\ Insistent

-----------------------------------------------------------------------------
(* What must hold.                                                         *)

\* Every variable keeps its type (models.py Release, DeploymentPlan, Deployment).
TypeOK ==
    /\ changeSet \in BOOLEAN /\ passed \in BOOLEAN
    /\ status \in Statuses
    /\ plans \in [Plans -> PlanStatuses]
    /\ signers \in [Plans -> SUBSET Approvers]
    /\ deployments \in [Deployments -> DepStatuses]
    /\ planOf \in [Deployments -> SUBSET Plans]
    /\ stale \in BOOLEAN
    /\ pc \in [Sessions -> {"idle", "loaded", "created", "running"}]
    /\ copy \in [Sessions -> Copies]
    /\ executing \in [Sessions -> Deployments \cup {NoDeployment}]

\* "Deployment requires an approved plan and packaged release", and goes on
\* requiring it: as long as a deployment exists its plan stays approved, its
\* release packaged and ready, and the change set of the release approved -
\* unless a request has committed on a stale copy.
Authorized ==
    ~stale => \A d \in Deployments : deployments[d] # "absent" =>
        /\ status = "packaged" /\ passed /\ changeSet
        /\ \A p \in planOf[d] : plans[p] = "approved"

\* No request order gets a production deployment past dual control: its plan
\* bears two signatures, with a release manager's and a security approver's
\* among them.
ProductionSigned ==
    \A d \in Deployments : \A p \in planOf[d] \cap Production :
        /\ \E a, b \in signers[p] : a # b
        /\ signers[p] \cap ReleaseManagers # {}
        /\ signers[p] \cap SecurityApprovers # {}

\* A deployment that was rolled back stays so, unless a request commits on a
\* stale copy.
RolledBackFinal ==
    [][~stale' => \A d \in Deployments : deployments[d] = "rolled_back"
                                            => deployments'[d] = "rolled_back"]_vars

\* "Production deployment requires distinct release-manager and security
\* approvals": approvers of both kinds who keep approving get a production
\* plan past the check.
DualControlAttainable ==
    \A p \in Production : plans[p] = "approved" ~> DualControl(p)

=============================================================================
