-------------------------- MODULE ChangeSetReview --------------------------
(***************************************************************************)
(* One change set, from the draft an agent run leaves to the decision      *)
(* about it (backend/app/planning/routes.py and approvals/service.py):     *)
(* files are recorded, a self-review freezes the diff hash, verifications  *)
(* are attached to that hash, and a reviewer decides.                      *)
(*                                                                         *)
(* A request loads the change set with its files and verifications,        *)
(* decides on that copy and commits what it changed.  A file is added once *)
(* and never changed, so the set of paths stands for the diff, and the     *)
(* hash of the diff is the set of paths it was computed from.              *)
(*                                                                         *)
(* A missing scope, a malformed payload, a path outside the run's          *)
(* boundary, stale evidence and a self-approval only make a request Refuse.*)
(***************************************************************************)
EXTENDS Integers

CONSTANTS
    Paths,      \* the files a diff may touch
    Verdicts,   \* the decisions reviewers take, some of Decisions
    Sessions    \* requests in progress at one time

Decisions == {"approved", "rejected", "changes_requested", "waived", "cancelled"}

Statuses  == Decisions \cup {"absent", "draft", "review", "submitted"}

VARIABLES
    status,     \* change_sets.status
    files,      \* change_set_files of the change set
    diffHash,   \* change_sets.diff_hash
    evidence,   \* verification_runs of the change set
    approvals,  \* the approvals of the change set
    stale,      \* has a request committed what it decided on a copy that was
                \* not true any more (for the properties only)
    pc,         \* where each request is
    copy        \* the change set as each request has loaded it

vars == <<status, files, diffHash, evidence, approvals, stale, pc, copy>>

\* A hash is computed of recorded files only: the empty set stands for NULL.
Hashes == (SUBSET Paths) \ {{}}
NoHash == {}

\* A verification; a waiver whose waiver_expires_at has passed is "lapsed".
Evidence  == [result : {"passed", "failed", "waived", "lapsed"}, hash : Hashes]
Approvals == [decision : Decisions, hash : Hashes]
Copies    == [status : Statuses, files : SUBSET Paths,
              diffHash : Hashes \cup {NoHash}, evidence : SUBSET Evidence]
NoCopy    == [status |-> "absent", files |-> {}, diffHash |-> NoHash, evidence |-> {}]

\* What an executed run commits together with its completion.
Produce(diff) ==
    /\ status = "absent"
    /\ diff # {}
    /\ status' = "draft"
    /\ files' = diff
    /\ diffHash' = diff
    /\ UNCHANGED <<evidence, approvals, stale, pc, copy>>

\* create_change_set: an empty draft for a run, without a hash.
Create ==
    /\ status = "absent"
    /\ status' = "draft"
    /\ UNCHANGED <<files, diffHash, evidence, approvals, stale, pc, copy>>

-----------------------------------------------------------------------------
(* Requests.                                                               *)

Finish(s) == /\ pc' = [pc EXCEPT ![s] = "idle"]
             /\ copy' = [copy EXCEPT ![s] = NoCopy]

\* What the request has read is still what the database holds, but for waivers
\* that have lapsed.
UpToDate(s) ==
    /\ copy[s].status = status
    /\ copy[s].files = files
    /\ copy[s].diffHash = diffHash
    /\ \A e \in evidence : \E c \in copy[s].evidence :
           c.hash = e.hash /\ e.result \in {c.result, "lapsed"}

Commit(s) == /\ stale' = (stale \/ ~UpToDate(s))
             /\ Finish(s)

Open(s) ==
    /\ pc[s] = "idle"
    /\ status # "absent"
    /\ pc' = [pc EXCEPT ![s] = "loaded"]
    /\ copy' = [copy EXCEPT ![s] = [status |-> status, files |-> files,
                                    diffHash |-> diffHash, evidence |-> evidence]]
    /\ UNCHANGED <<status, files, diffHash, evidence, approvals, stale>>

\* An UPDATE leaves a column out when the new value is the loaded one.
SetStatus(s, new) == status' = IF new = copy[s].status THEN status ELSE new
SetHash(s, new)   == diffHash' = IF new = copy[s].diffHash THEN diffHash ELSE new

\* UNIQUE (change_set_id, path) backs the query for the path.
AddFile(s, path) ==
    /\ pc[s] = "loaded"
    /\ copy[s].status = "draft"
    /\ path \notin files
    /\ files' = files \cup {path}
    /\ Commit(s)
    /\ UNCHANGED <<status, diffHash, evidence, approvals>>

\* Mutant of SelfReview: a hash that is already there is kept.
SelfReviewKeepingHash(s) ==
    /\ pc[s] = "loaded"
    /\ copy[s].status = "draft"
    /\ copy[s].files # {}
    /\ SetHash(s, IF copy[s].diffHash = NoHash THEN copy[s].files ELSE copy[s].diffHash)
    /\ SetStatus(s, "review")
    /\ Commit(s)
    /\ UNCHANGED <<files, evidence, approvals>>

SelfReview(s) ==
    /\ pc[s] = "loaded"
    /\ copy[s].status = "draft"
    /\ copy[s].files # {}
    /\ SetHash(s, copy[s].files)
    /\ SetStatus(s, "review")
    /\ Commit(s)
    /\ UNCHANGED <<files, evidence, approvals>>

\* Every verification is of this diff, and passed or is waived until later.
Passing(c) == /\ c.evidence # {}
              /\ \A e \in c.evidence : e.result \in {"passed", "waived"} /\ e.hash = c.diffHash

Submit(s) ==
    /\ pc[s] = "loaded"
    /\ copy[s].status = "review"
    /\ Passing(copy[s])
    /\ SetStatus(s, "submitted")
    /\ Commit(s)
    /\ UNCHANGED <<files, diffHash, evidence, approvals>>

\* Mutant of RecordVerification: late evidence leaves the submission as it is.
AttachLateEvidence(s, result) ==
    /\ pc[s] = "loaded"
    /\ copy[s].status \in {"review", "submitted"}
    /\ copy[s].diffHash # NoHash
    /\ evidence' = evidence \cup {[result |-> result, hash |-> copy[s].diffHash]}
    /\ Commit(s)
    /\ UNCHANGED <<status, files, diffHash, approvals>>

\* Anything but a pass takes a submitted change set back to review.
RecordVerification(s, result) ==
    /\ pc[s] = "loaded"
    /\ copy[s].status \in {"review", "submitted"}
    /\ copy[s].diffHash # NoHash
    /\ evidence' = evidence \cup {[result |-> result, hash |-> copy[s].diffHash]}
    /\ SetStatus(s, IF copy[s].status = "submitted" /\ result # "passed"
                    THEN "review" ELSE copy[s].status)
    /\ Commit(s)
    /\ UNCHANGED <<files, diffHash, approvals>>

\* Mutant of Decide: a change set need not have a hash.
DecideWithoutHash(s, decision) ==
    /\ pc[s] = "loaded"
    /\ copy[s].status \in IF decision = "cancelled"
                          THEN {"draft", "submitted", "rejected", "changes_requested", "waived"}
                          ELSE {"submitted"}
    /\ approvals' = approvals \cup {[decision |-> decision, hash |-> copy[s].diffHash]}
    /\ SetStatus(s, decision)
    /\ Commit(s)
    /\ UNCHANGED <<files, diffHash, evidence>>

\* Mutant of Decide: an approved change set can be cancelled.
CancelApproved(s, decision) ==
    /\ pc[s] = "loaded"
    /\ copy[s].diffHash # NoHash
    /\ copy[s].status \in IF decision = "cancelled" THEN Decisions \cup {"draft", "submitted"}
                          ELSE {"submitted"}
    /\ approvals' = approvals \cup {[decision |-> decision, hash |-> copy[s].diffHash]}
    /\ SetStatus(s, decision)
    /\ Commit(s)
    /\ UNCHANGED <<files, diffHash, evidence>>

\* approvals.service.decide on a change set.
Decide(s, decision) ==
    /\ pc[s] = "loaded"
    /\ copy[s].diffHash # NoHash
    /\ copy[s].status \in IF decision = "cancelled"
                          THEN {"draft", "submitted", "rejected", "changes_requested", "waived"}
                          ELSE {"submitted"}
    /\ approvals' = approvals \cup {[decision |-> decision, hash |-> copy[s].diffHash]}
    /\ SetStatus(s, decision)
    /\ Commit(s)
    /\ UNCHANGED <<files, diffHash, evidence>>

Refuse(s) ==
    /\ pc[s] # "idle"
    /\ Finish(s)
    /\ UNCHANGED <<status, files, diffHash, evidence, approvals, stale>>

\* Time passes: a waiver expires; others with the same hash may not have yet.
Lapse ==
    \E e \in evidence :
        /\ e.result = "waived"
        /\ \E rest \in {evidence, evidence \ {e}} :
               evidence' = rest \cup {[result |-> "lapsed", hash |-> e.hash]}
        /\ UNCHANGED <<status, files, diffHash, approvals, stale, pc, copy>>

-----------------------------------------------------------------------------
Init ==
    /\ status = "absent"
    /\ files = {}
    /\ diffHash = NoHash
    /\ evidence = {}
    /\ approvals = {}
    /\ stale = FALSE
    /\ pc = [s \in Sessions |-> "idle"]
    /\ copy = [s \in Sessions |-> NoCopy]

Request(s) ==
    \/ \E path \in Paths : AddFile(s, path)
    \/ \E result \in {"passed", "failed", "waived"} : RecordVerification(s, result)
    \/ \E decision \in Verdicts : Decide(s, decision)
    \/ Open(s) \/ SelfReview(s) \/ Submit(s) \/ Refuse(s)

Next == \/ \E diff \in SUBSET Paths : Produce(diff)
        \/ Create
        \/ Lapse
        \/ \E s \in Sessions : Request(s)

Spec == Init /\ [][Next]_vars

-----------------------------------------------------------------------------
(* What must hold.                                                         *)

\* Every variable keeps its type (models.py ChangeSet, VerificationRun, Approval).
TypeOK ==
    /\ status \in Statuses
    /\ files \subseteq Paths
    /\ diffHash \in Hashes \cup {NoHash}
    /\ evidence \subseteq Evidence
    /\ approvals \subseteq Approvals
    /\ stale \in BOOLEAN
    /\ pc \in [Sessions -> {"idle", "loaded"}]
    /\ copy \in [Sessions -> Copies]

\* "All verification runs must pass before submission", and late evidence
\* cannot undermine it: whatever a reviewer may be looking at, or has approved,
\* has evidence, all of it about this very diff, none of it a failure - as long
\* as no request has committed on a stale copy.
Verified ==
    status \in {"submitted", "approved"} =>
        /\ evidence # {}
        /\ \A e \in evidence : e.hash = diffHash /\ e.result # "failed"
VerifiedUnlessRaced == ~stale => Verified

\* What a reviewer approved is the diff the change set holds: the approval is
\* bound to the hash of exactly the files recorded now - as long as no request
\* has committed on a stale copy.
ApprovedContent ==
    status = "approved" =>
        \E d \in approvals : d.decision = "approved" /\ d.hash = files
ContentUnlessRaced == ~stale => ApprovedContent

=============================================================================
