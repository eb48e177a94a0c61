--------------------------- MODULE ArtifactReview ---------------------------
(***************************************************************************)
(* Versioned artifacts and their review: requirement baselines,            *)
(* architectures, technical plans and mockups                              *)
(* (backend/app/requirements, architecture, planning, design routes and    *)
(* backend/app/approvals/service.py).                                      *)
(*                                                                         *)
(* A request loads the artifact, decides on that copy, and commits the     *)
(* columns it changed; nothing but UNIQUE (artifact_id, version) stops two *)
(* requests from interleaving.  A revision first queries the artifacts     *)
(* made from the revised one and sends those under review or approved back *)
(* for changes in the same commit.                                         *)
(*                                                                         *)
(* Missing scopes, open comments, blocking findings, self-approval and a   *)
(* stale version or hash named by the client only make a request Refuse.   *)
(***************************************************************************)
EXTENDS Integers

CONSTANTS
    Artifacts,
    Baselines,    \* the artifacts that are requirement baselines
    SourceOf,     \* the artifact each artifact is made from, or NoSource
    NoSource,
    Verdicts,     \* the decisions reviewers take
    Sessions,     \* requests in progress at one time
    MaxVersion    \* bound on revisions

ASSUME ArtifactsAssumption == /\ Baselines \subseteq Artifacts
                              /\ NoSource \notin Artifacts
                              /\ SourceOf \in [Artifacts -> Artifacts \cup {NoSource}]
                              /\ \A a \in Artifacts : SourceOf[a] # a
ASSUME MaxVersionAssumption == MaxVersion \in Nat

Decisions == {"approved", "rejected", "changes_requested", "waived", "cancelled"}

ASSUME VerdictsAssumption == Verdicts \subseteq Decisions

Statuses  == Decisions \cup {"absent", "draft", "submitted"}

VARIABLES
    status,     \* artifacts.status
    version,    \* artifacts.current_version
    rows,       \* artifact_versions.version of the artifact
    accepted,   \* revisions answered with 201 (for the properties only)
    approvals,  \* the approvals table
    stale,      \* has a request committed what it decided on a copy that was
                \* not true any more (for the properties only)
    pc,         \* where each request is
    copy        \* the artifact as each request has loaded it

vars == <<status, version, rows, accepted, approvals, stale, pc, copy>>

\* "under" is the version the source had when the decision was committed.
Approvals == [artifact : Artifacts, version : Nat, decision : Decisions, under : Nat]

Copies == [artifact : Artifacts \cup {NoSource}, status : Statuses, version : Nat,
           impacted : SUBSET Artifacts]
NoCopy == [artifact |-> NoSource, status |-> "absent", version |-> 0, impacted |-> {}]

MadeFrom(a) == {d \in Artifacts : SourceOf[d] = a}

SourceVersion(a) == IF SourceOf[a] = NoSource THEN 0 ELSE version[SourceOf[a]]

-----------------------------------------------------------------------------
(* Requests.                                                               *)

Finish(s) == /\ pc' = [pc EXCEPT ![s] = "idle"]
             /\ copy' = [copy EXCEPT ![s] = NoCopy]

\* Mutant of Impacted: approved artifacts are left alone.
ImpactedUnderReview(a) == {d \in MadeFrom(a) : status[d] = "submitted"}

\* What a revision sends back.
Impacted(a) == {d \in MadeFrom(a) : status[d] \in {"submitted", "approved"}}

\* What the request has read is still what the database holds.
UpToDate(s) ==
    /\ copy[s].status = status[copy[s].artifact]
    /\ copy[s].version = version[copy[s].artifact]
    /\ pc[s] = "revising" => copy[s].impacted = Impacted(copy[s].artifact)

Commit(s) == /\ stale' = (stale \/ ~UpToDate(s))
             /\ Finish(s)

Open(s, a) ==
    /\ pc[s] = "idle"
    /\ status[a] # "absent"
    /\ pc' = [pc EXCEPT ![s] = "loaded"]
    /\ copy' = [copy EXCEPT ![s] = [artifact |-> a, status |-> status[a],
                                    version |-> version[a], impacted |-> {}]]
    /\ UNCHANGED <<status, version, rows, accepted, approvals, stale>>

\* The insert of an artifact with its version 1.
Insert(a) ==
    /\ status[a] = "absent"
    /\ status' = [status EXCEPT ![a] = "draft"]
    /\ version' = [version EXCEPT ![a] = 1]
    /\ rows' = [rows EXCEPT ![a] = {1}]
    /\ accepted' = [accepted EXCEPT ![a] = 1]
    /\ UNCHANGED approvals

\* A baseline or a mockup is made from nothing that is versioned.
Create(a) ==
    /\ SourceOf[a] = NoSource
    /\ Insert(a)
    /\ UNCHANGED <<stale, pc, copy>>

\* An architecture needs an approved baseline, a plan an approved architecture.
CreateFrom(s, a) ==
    /\ pc[s] = "loaded"
    /\ SourceOf[a] = copy[s].artifact
    /\ copy[s].status = "approved"
    /\ Insert(a)
    /\ Commit(s)

\* An UPDATE leaves a column out when the new value is the loaded one.
SetStatus(s, new) ==
    status' = [status EXCEPT ![copy[s].artifact] = IF new = copy[s].status THEN @ ELSE new]

Submittable(a) == IF a \in Baselines THEN {"draft"}
                                     ELSE {"draft", "changes_requested", "rejected"}

\* Mutant of Submit: the status change sets use.
SubmitForReview(s) ==
    /\ pc[s] = "loaded"
    /\ copy[s].status \in Submittable(copy[s].artifact)
    /\ SetStatus(s, "review")
    /\ Commit(s)
    /\ UNCHANGED <<version, rows, accepted, approvals>>

Submit(s) ==
    /\ pc[s] = "loaded"
    /\ copy[s].status \in Submittable(copy[s].artifact)
    /\ SetStatus(s, "submitted")
    /\ Commit(s)
    /\ UNCHANGED <<version, rows, accepted, approvals>>

\* A revision looks for the artifacts its commit will send back.
FindImpacted(s) ==
    LET a == copy[s].artifact IN
    /\ pc[s] = "loaded"
    /\ copy[s].version < MaxVersion
    /\ a \in Baselines \/ copy[s].status # "cancelled"
    /\ pc' = [pc EXCEPT ![s] = "revising"]
    /\ copy' = [copy EXCEPT ![s].impacted = Impacted(a)]
    /\ UNCHANGED <<status, version, rows, accepted, approvals, stale>>

\* Mutant of NumberFree: no unique constraint.
AnyNumber(s) == copy[s].version + 1 \in Nat

\* The number of the new version is not taken: UNIQUE (artifact_id, version).
NumberFree(s) == copy[s].version + 1 \notin rows[copy[s].artifact]

Revise(s) ==
    LET a == copy[s].artifact
        next == copy[s].version + 1 IN
    /\ pc[s] = "revising"
    /\ NumberFree(s)
    /\ rows' = [rows EXCEPT ![a] = @ \cup {next}]
    /\ version' = [version EXCEPT ![a] = next]
    /\ accepted' = [accepted EXCEPT ![a] = @ + 1]
    /\ status' = [d \in Artifacts |->
                    IF d = a /\ copy[s].status # "draft" THEN "draft"
                    ELSE IF d \in copy[s].impacted THEN "changes_requested"
                    ELSE status[d]]
    /\ Commit(s)
    /\ UNCHANGED approvals

\* Mutant of Decide: cancelling leaves no record.
DecideQuietly(s, decision) ==
    LET a == copy[s].artifact IN
    /\ pc[s] = "loaded"
    /\ copy[s].status \in IF decision = "cancelled"
                          THEN {"draft", "submitted", "rejected", "changes_requested", "waived"}
                          ELSE {"submitted"}
    /\ approvals' = approvals \cup {d \in [artifact : {a}, version : {copy[s].version},
                                            decision : {decision}, under : {SourceVersion(a)}] :
                                     decision # "cancelled"}
    /\ SetStatus(s, decision)
    /\ Commit(s)
    /\ UNCHANGED <<version, rows, accepted>>

\* approvals.service.decide: record the decision for the loaded version and
\* move the artifact.
Decide(s, decision) ==
    LET a == copy[s].artifact IN
    /\ pc[s] = "loaded"
    /\ copy[s].status \in IF decision = "cancelled"
                          THEN {"draft", "submitted", "rejected", "changes_requested", "waived"}
                          ELSE {"submitted"}
    /\ approvals' = approvals \cup {[artifact |-> a, version |-> copy[s].version,
                                     decision |-> decision, under |-> SourceVersion(a)]}
    /\ SetStatus(s, decision)
    /\ Commit(s)
    /\ UNCHANGED <<version, rows, accepted>>

\* A guard, a permission or the unique constraint refuses the request.
Refuse(s) ==
    /\ pc[s] # "idle"
    /\ Finish(s)
    /\ UNCHANGED <<status, version, rows, accepted, approvals, stale>>

-----------------------------------------------------------------------------
Init ==
    /\ status = [a \in Artifacts |-> "absent"]
    /\ version = [a \in Artifacts |-> 0]
    /\ rows = [a \in Artifacts |-> {}]
    /\ accepted = [a \in Artifacts |-> 0]
    /\ approvals = {}
    /\ stale = FALSE
    /\ pc = [s \in Sessions |-> "idle"]
    /\ copy = [s \in Sessions |-> NoCopy]

Request(s) ==
    \/ \E a \in Artifacts : Open(s, a) \/ CreateFrom(s, a)
    \/ \E decision \in Verdicts : Decide(s, decision)
    \/ Submit(s) \/ FindImpacted(s) \/ Revise(s) \/ Refuse(s)

Next == \/ \E a \in Artifacts : Create(a)
        \/ \E s \in Sessions : Request(s)

Spec == Init /\ [][Next]_vars

-----------------------------------------------------------------------------
(* What must hold.                                                         *)

\* Every variable keeps its type (models.py Artifact, ArtifactVersion, Approval).
TypeOK ==
    /\ status \in [Artifacts -> Statuses]
    /\ version \in [Artifacts -> Nat]
    /\ rows \in [Artifacts -> SUBSET Nat]
    /\ accepted \in [Artifacts -> Nat]
    /\ approvals \subseteq Approvals
    /\ stale \in BOOLEAN
    /\ pc \in [Sessions -> {"idle", "loaded", "revising"}]
    /\ copy \in [Sessions -> Copies]

\* Concurrent revisions lose nothing: every accepted one has a number of its
\* own, and the current version is the last of them.
NoRevisionLost == \A a \in Artifacts : /\ version[a] = accepted[a]
                                       /\ rows[a] = 1 .. version[a]

\* Decisions concern versions that exist, and a status that only a decision
\* grants was granted by one, of this version or an earlier one.
DecisionsOnRecord ==
    /\ \A d \in approvals : d.version \in rows[d.artifact]
    /\ \A a \in Artifacts : status[a] \in {"approved", "waived", "cancelled"} =>
          \E d \in approvals : d.artifact = a /\ d.decision = status[a]

\* "A new version therefore requires a fresh approval": what is approved now
\* was approved at the version and hash it has now, after the last revision of
\* the artifact it is made from.
FreshApproval ==
    \A a \in Artifacts : status[a] = "approved" =>
        \E d \in approvals : /\ d.artifact = a /\ d.decision = "approved"
                             /\ d.version = version[a]
                             /\ d.under = SourceVersion(a)

\* The same, as long as no request has committed on a stale copy: a lost race
\* with another request is the only way to an approval that is not fresh.
FreshUnlessRaced == ~stale => FreshApproval

=============================================================================
