------------------------------ MODULE Delivery ------------------------------
(***************************************************************************)
(* A change set and the release made of it: ChangeSetReview and Release    *)
(* side by side on the tables they share.  Requests about the change set   *)
(* and requests about the release and its deployments interleave freely.   *)
(* What Release knows of the change set, whether it is approved, is        *)
(* change_sets.status as ChangeSetReview leaves it.                        *)
(***************************************************************************)
EXTENDS Release

CONSTANTS
    Paths,          \* the files the diff may touch
    ReviewVerdicts, \* the decisions taken on the change set
    Reviews         \* requests about the change set in progress at one time

\* The variables of ChangeSetReview: change_sets.status is review, and overtaken
\* says whether a request about the change set has committed on a stale copy.
VARIABLES review, files, diffHash, evidence, approvals, overtaken, at, view

C == INSTANCE ChangeSetReview
     WITH status <- review, stale <- overtaken, pc <- at, copy <- view,
          Verdicts <- ReviewVerdicts, Sessions <- Reviews

ASSUME ReviewVerdictsAssumption == ReviewVerdicts \subseteq C!Decisions

releaseVars  == <<status, passed, plans, signers, deployments, planOf, stale, pc, copy, executing>>
reviewVars   == <<review, files, diffHash, evidence, approvals, overtaken, at, view>>
deliveryVars == <<vars, reviewVars>>

-----------------------------------------------------------------------------
\* A step of the review.  create_release and evaluate_readiness load the change
\* set with the status it gives it.
ReviewStep ==
    /\ C!Next
    /\ changeSet' = (review' = "approved")
    /\ UNCHANGED releaseVars

\* A request about the release, which leaves the change set as it is.
ReleaseStep ==
    /\ \E s \in Sessions : Request(s)
    /\ UNCHANGED reviewVars

DeliveryInit == Init /\ C!Init

DeliveryNext == ReviewStep \/ ReleaseStep

DeliverySpec == DeliveryInit /\ [][DeliveryNext]_deliveryVars

-----------------------------------------------------------------------------
(* What must hold.                                                         *)

\* The types of the change set (models.py ChangeSet, VerificationRun, Approval).
ReviewTypeOK == C!TypeOK

\* What is submitted or approved has evidence of its own diff, and no failure:
\* the promise of ChangeSetReview, with a release of it under way.
ReviewVerified == C!VerifiedUnlessRaced

\* What is approved is what is recorded, with a release of it under way.
ReviewBindsContent == C!ContentUnlessRaced

\* What is released, and so what is deployed, is what was reviewed: the files
\* the change set holds are those a reviewer approved, all the evidence is of
\* exactly these files, and none of it is a failure - however the requests
\* about the release race, as long as none about the change set has committed
\* on a stale copy.
ReleasedAsReviewed ==
    ~overtaken /\ (status # "absent" \/ \E d \in Deployments : deployments[d] # "absent") =>
        /\ review = "approved"
        /\ \E a \in approvals : a.decision = "approved" /\ a.hash = files
        /\ evidence # {} /\ \A e \in evidence : e.hash = files /\ e.result # "failed"

\* Release is a fair picture of what becomes of a change set: unless a request
\* about the change set has committed on a stale copy, every step is one that
\* Release takes, and no approval is undone under a release.
StepsOfRelease == [][~overtaken' => [Next]_vars]_deliveryVars

=============================================================================
