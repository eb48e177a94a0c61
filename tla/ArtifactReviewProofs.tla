------------------------ MODULE ArtifactReviewProofs ------------------------
(***************************************************************************)
(* Proofs about ArtifactReview for every set of artifacts, every relation  *)
(* SourceOf, every number of revisions and any interleaving of requests:   *)
(* VersionsInv, and what FreshInv adds as long as no request has committed *)
(* on a stale copy.                                                        *)
(***************************************************************************)
EXTENDS ArtifactReview, TLAPS

USE ArtifactsAssumption, MaxVersionAssumption, VerdictsAssumption

-----------------------------------------------------------------------------
(* Interleaved requests.                                                   *)

\* A request at work has an artifact, at a version that was current once, and
\* sends back only artifacts that were created.
CopyGood(c) == /\ c.artifact \in Artifacts
               /\ 1 <= c.version
               /\ c.version <= version[c.artifact]
               /\ \A d \in c.impacted : version[d] # 0
CopyOK == \A s \in Sessions : pc[s] # "idle" => CopyGood(copy[s])

\* Exactly the artifacts that were not created have no version.
AbsentOK == \A a \in Artifacts : status[a] = "absent" <=> version[a] = 0

VersionsInv == TypeOK /\ NoRevisionLost /\ CopyOK /\ AbsentOK

\* Ending a request keeps types and what is said of the others.
LEMMA FinishFacts ==
    ASSUME TypeOK, NEW s \in Sessions, Finish(s)
    PROVE  /\ pc' \in [Sessions -> {"idle", "loaded", "revising"}]
           /\ copy' \in [Sessions -> Copies]
           /\ pc'[s] = "idle"
           /\ \A t \in Sessions \ {s} : pc'[t] = pc[t] /\ copy'[t] = copy[t]
  <1>1. NoCopy \in Copies
    BY DEF NoCopy, Copies, Statuses
  <1> QED
    BY <1>1 DEF Finish, TypeOK

\* What a loaded copy is made of.
LEMMA CopyFacts ==
    ASSUME VersionsInv, NEW s \in Sessions, pc[s] # "idle"
    PROVE  /\ copy[s].artifact \in Artifacts
           /\ copy[s].version \in Nat
           /\ copy[s].status \in Statuses
           /\ copy[s].impacted \subseteq Artifacts
           /\ version[copy[s].artifact] \in Nat
           /\ 1 <= copy[s].version
           /\ copy[s].version <= version[copy[s].artifact]
           /\ \A d \in copy[s].impacted : version[d] # 0
  BY DEF VersionsInv, TypeOK, CopyOK, CopyGood, Copies

\* Version numbers only grow, so the copies of other requests stay good.
LEMMA CopyStays ==
    ASSUME VersionsInv, TypeOK', \A a \in Artifacts : version[a] <= version'[a],
           NEW t \in Sessions, pc[t] # "idle", copy'[t] = copy[t]
    PROVE  CopyGood(copy[t])'
  <1>1. \A a \in Artifacts : version[a] \in Nat /\ version'[a] \in Nat
    BY DEF VersionsInv, TypeOK
  <1> QED
    BY <1>1, CopyFacts DEF CopyGood

\* A revision whose number is free continues the last one.
LEMMA FreeNumberIsNext ==
    ASSUME VersionsInv, NEW s \in Sessions, pc[s] # "idle", NumberFree(s)
    PROVE  copy[s].version = version[copy[s].artifact]
  <1>1. rows[copy[s].artifact] = 1 .. version[copy[s].artifact]
    BY CopyFacts DEF VersionsInv, NoRevisionLost
  <1> QED
    BY <1>1, CopyFacts DEF NumberFree

\* Inserting an artifact with its version 1 keeps the tables well formed.
LEMMA InsertKeeps ==
    ASSUME VersionsInv, NEW a \in Artifacts, Insert(a)
    PROVE  /\ status' \in [Artifacts -> Statuses]
           /\ version' \in [Artifacts -> Nat]
           /\ rows' \in [Artifacts -> SUBSET Nat]
           /\ accepted' \in [Artifacts -> Nat]
           /\ NoRevisionLost'
  <1>1. /\ status' \in [Artifacts -> Statuses]
        /\ version' \in [Artifacts -> Nat]
        /\ rows' \in [Artifacts -> SUBSET Nat]
        /\ accepted' \in [Artifacts -> Nat]
    BY DEF Insert, VersionsInv, TypeOK, Statuses
  <1>2. NoRevisionLost'
    <2>1. 1 .. 1 = {1}
      OBVIOUS
    <2> QED
      BY <2>1 DEF Insert, VersionsInv, TypeOK, NoRevisionLost
  <1> QED
    BY <1>1, <1>2

\* A revision takes the next number, so none is lost.
LEMMA ReviseKeeps ==
    ASSUME VersionsInv, NEW s \in Sessions, Revise(s)
    PROVE  VersionsInv'
  <1> DEFINE a == copy[s].artifact
  <1>1. /\ a \in Artifacts /\ copy[s].version = version[a] /\ version[a] \in Nat
        /\ pc[s] = "revising"
    BY CopyFacts, FreeNumberIsNext DEF Revise
  <1>2. /\ version' = [version EXCEPT ![a] = version[a] + 1]
        /\ rows' = [rows EXCEPT ![a] = rows[a] \cup {version[a] + 1}]
        /\ accepted' = [accepted EXCEPT ![a] = accepted[a] + 1]
        /\ Finish(s) /\ stale' \in BOOLEAN /\ UNCHANGED approvals
    BY <1>1 DEF Revise, Commit, UpToDate
  <1>3. status' \in [Artifacts -> Statuses]
    BY DEF Revise, VersionsInv, TypeOK, Statuses, Decisions
  <1> HIDE DEF a
  <1>4. TypeOK'
    <2>1. accepted[a] \in Nat /\ rows[a] \in SUBSET Nat
      BY <1>1 DEF VersionsInv, TypeOK
    <2>2. /\ version' \in [Artifacts -> Nat] /\ rows' \in [Artifacts -> SUBSET Nat]
          /\ accepted' \in [Artifacts -> Nat]
      BY <1>1, <1>2, <2>1 DEF VersionsInv, TypeOK
    <2> QED
      BY <1>2, <1>3, <2>2, FinishFacts DEF VersionsInv, TypeOK
  <1>5. NoRevisionLost'
    <2>1. rows[a] = 1 .. version[a] /\ accepted[a] = version[a]
      BY <1>1 DEF VersionsInv, NoRevisionLost
    <2>2. 1 .. (version[a] + 1) = (1 .. version[a]) \cup {version[a] + 1}
      BY <1>1
    <2>3. \A b \in Artifacts \ {a} : /\ version'[b] = version[b] /\ rows'[b] = rows[b]
                                     /\ accepted'[b] = accepted[b]
      BY <1>1, <1>2 DEF VersionsInv, TypeOK
    <2>4. /\ version'[a] = version[a] + 1 /\ rows'[a] = rows[a] \cup {version[a] + 1}
          /\ accepted'[a] = accepted[a] + 1
      BY <1>1, <1>2 DEF VersionsInv, TypeOK
    <2> QED
      BY <2>1, <2>2, <2>3, <2>4 DEF VersionsInv, NoRevisionLost
  <1>6. CopyOK'
    <2>1. \A b \in Artifacts : version[b] <= version'[b]
      BY <1>1, <1>2 DEF VersionsInv, TypeOK
    <2> SUFFICES ASSUME NEW t \in Sessions, pc'[t] # "idle" PROVE CopyGood(copy[t])'
      BY DEF CopyOK
    <2>2. t # s /\ pc[t] # "idle" /\ copy'[t] = copy[t]
      BY <1>2, FinishFacts DEF VersionsInv
    <2> QED
      BY <1>4, <2>1, <2>2, CopyStays
  <1>7. AbsentOK'
    <2> SUFFICES ASSUME NEW b \in Artifacts PROVE status'[b] = "absent" <=> version'[b] = 0
      BY DEF AbsentOK
    <2>1. status'[b] = "absent" <=> status[b] = "absent"
      <3>1. CASE b = a /\ copy[s].status # "draft"
        BY <1>1, <3>1, CopyFacts DEF Revise, VersionsInv, AbsentOK, a
      <3>2. CASE ~(b = a /\ copy[s].status # "draft") /\ b \in copy[s].impacted
        BY <1>1, <3>2, CopyFacts DEF Revise, VersionsInv, AbsentOK, a
      <3>3. CASE ~(b = a /\ copy[s].status # "draft") /\ b \notin copy[s].impacted
        BY <3>3 DEF Revise, a
      <3> QED
        BY <3>1, <3>2, <3>3
    <2>2. version'[b] = 0 <=> version[b] = 0
      <3>1. version[a] + 1 # 0 /\ version[a] # 0
        BY <1>1, CopyFacts DEF a
      <3> QED
        BY <1>1, <1>2, <3>1 DEF VersionsInv, TypeOK
    <2> QED
      BY <2>1, <2>2 DEF VersionsInv, AbsentOK
  <1> QED
    BY <1>4, <1>5, <1>6, <1>7 DEF VersionsInv

\* Requests that end without touching versions.
LEMMA FinishKeeps ==
    ASSUME VersionsInv, NEW s \in Sessions, Finish(s), stale' \in BOOLEAN,
           UNCHANGED <<version, rows, accepted>>,
           status' \in [Artifacts -> Statuses], approvals' \subseteq Approvals,
           \A a \in Artifacts : status'[a] = "absent" <=> status[a] = "absent"
    PROVE  VersionsInv'
  <1>1. TypeOK' /\ NoRevisionLost' /\ AbsentOK'
    BY FinishFacts DEF VersionsInv, TypeOK, NoRevisionLost, AbsentOK
  <1>2. \A a \in Artifacts : version[a] <= version'[a]
    BY DEF VersionsInv, TypeOK
  <1>3. CopyOK'
    BY <1>1, <1>2, FinishFacts, CopyStays DEF VersionsInv, CopyOK
  <1> QED
    BY <1>1, <1>3 DEF VersionsInv

\* Creating an artifact, by a request or on its own.
LEMMA CreateKeeps ==
    ASSUME VersionsInv, NEW a \in Artifacts, Insert(a), stale' \in BOOLEAN,
           \/ UNCHANGED <<pc, copy>>
           \/ \E s \in Sessions : Finish(s)
    PROVE  VersionsInv'
  <1>1. TypeOK'
    BY InsertKeeps, FinishFacts DEF VersionsInv, TypeOK, Insert
  <1>2. \A b \in Artifacts : version[b] <= version'[b]
    BY DEF Insert, VersionsInv, TypeOK, AbsentOK
  <1>3. \A t \in Sessions : pc'[t] # "idle" => pc[t] # "idle" /\ copy'[t] = copy[t]
    BY FinishFacts DEF VersionsInv
  <1>4. CopyOK'
    BY <1>1, <1>2, <1>3, CopyStays DEF CopyOK
  <1>5. AbsentOK'
    BY DEF Insert, VersionsInv, TypeOK, AbsentOK
  <1> QED
    BY <1>1, <1>4, <1>5, InsertKeeps DEF VersionsInv

\* An empty database satisfies VersionsInv.
LEMMA VersionsInit == Init => VersionsInv
  <1> SUFFICES ASSUME Init PROVE VersionsInv
    OBVIOUS
  <1>1. NoCopy \in Copies
    BY DEF NoCopy, Copies, Statuses
  <1>2. 1 .. 0 = {}
    OBVIOUS
  <1> QED
    BY <1>1, <1>2 DEF Init, VersionsInv, TypeOK, NoRevisionLost, CopyOK, AbsentOK, Statuses

\* Loading an artifact copies what is current.
LEMMA OpenKeeps ==
    ASSUME VersionsInv, NEW s \in Sessions, NEW a \in Artifacts, Open(s, a)
    PROVE  VersionsInv'
  <1> DEFINE c == [artifact |-> a, status |-> status[a], version |-> version[a],
                   impacted |-> {}]
  <1>1. c \in Copies /\ 1 <= version[a] /\ version[a] \in Nat
    <2>1. rows[a] = 1 .. version[a] /\ version[a] \in Nat /\ status[a] \in Statuses
      BY DEF VersionsInv, NoRevisionLost, TypeOK
    <2>2. version[a] # 0
      BY DEF Open, VersionsInv, AbsentOK
    <2> QED
      BY <2>1, <2>2 DEF Copies
  <1>2. /\ pc' = [pc EXCEPT ![s] = "loaded"]
        /\ copy' = [copy EXCEPT ![s] = c]
        /\ UNCHANGED <<status, version, rows, accepted, approvals, stale>>
    BY DEF Open
  <1>3. c.artifact = a /\ c.version = version[a] /\ c.impacted = {}
    OBVIOUS
  <1> HIDE DEF c
  <1>4. TypeOK' /\ NoRevisionLost' /\ AbsentOK'
    BY <1>1, <1>2 DEF VersionsInv, TypeOK, NoRevisionLost, AbsentOK
  <1>5. CopyOK'
    BY <1>1, <1>2, <1>3 DEF VersionsInv, TypeOK, CopyOK, CopyGood
  <1> QED
    BY <1>4, <1>5 DEF VersionsInv

\* The query for what is made from the artifact changes only the copy.
LEMMA FindImpactedKeeps ==
    ASSUME VersionsInv, NEW s \in Sessions, FindImpacted(s)
    PROVE  VersionsInv'
  <1> DEFINE found == Impacted(copy[s].artifact)
             c == [copy[s] EXCEPT !.impacted = found]
  <1>1. /\ pc' = [pc EXCEPT ![s] = "revising"]
        /\ copy' = [copy EXCEPT ![s] = c]
        /\ UNCHANGED <<status, version, rows, accepted, approvals, stale>>
        /\ pc[s] # "idle"
    BY DEF FindImpacted
  <1>2. found \subseteq Artifacts /\ \A d \in found : version[d] # 0
    BY DEF Impacted, MadeFrom, VersionsInv, AbsentOK
  <1> HIDE DEF found
  <1>3. /\ c \in Copies /\ c.artifact = copy[s].artifact /\ c.version = copy[s].version
        /\ c.impacted = found
    BY <1>2 DEF VersionsInv, TypeOK, Copies
  <1> HIDE DEF c
  <1>4. TypeOK' /\ NoRevisionLost' /\ AbsentOK'
    BY <1>1, <1>3 DEF VersionsInv, TypeOK, NoRevisionLost, AbsentOK
  <1>5. CopyOK'
    BY <1>1, <1>2, <1>3, CopyFacts DEF VersionsInv, TypeOK, CopyOK, CopyGood
  <1> QED
    BY <1>4, <1>5 DEF VersionsInv

\* Submissions and decisions move a status and may add to the approvals.
LEMMA SubmitDecideKeep ==
    ASSUME VersionsInv, NEW s \in Sessions,
           Submit(s) \/ \E decision \in Verdicts : Decide(s, decision)
    PROVE  VersionsInv'
  <1> DEFINE a == copy[s].artifact
  <1>1. PICK new \in Statuses \ {"absent"} : SetStatus(s, new)
    BY DEF Submit, Decide, Statuses, Decisions
  <1>2. /\ Finish(s) /\ stale' \in BOOLEAN /\ UNCHANGED <<version, rows, accepted>>
        /\ pc[s] # "idle"
    BY DEF Submit, Decide, Commit, UpToDate
  <1>3. a \in Artifacts /\ status[a] # "absent"
    BY <1>2, CopyFacts DEF VersionsInv, AbsentOK
  <1>4. approvals' \subseteq Approvals
    <2>1. CASE Submit(s)
      BY <2>1 DEF Submit, VersionsInv, TypeOK
    <2>2. ASSUME NEW decision \in Verdicts, Decide(s, decision)
          PROVE  approvals' \subseteq Approvals
      <3>1. SourceVersion(a) \in Nat
        BY <1>3 DEF SourceVersion, VersionsInv, TypeOK
      <3>2. approvals' = approvals \cup {[artifact |-> a, version |-> copy[s].version,
                                          decision |-> decision, under |-> SourceVersion(a)]}
        BY <2>2 DEF Decide
      <3> QED
        BY <1>2, <1>3, <3>1, <3>2, CopyFacts DEF VersionsInv, TypeOK, Approvals
    <2> QED
      BY <2>1, <2>2
  <1>5. /\ status' \in [Artifacts -> Statuses]
        /\ \A b \in Artifacts : status'[b] = "absent" <=> status[b] = "absent"
    BY <1>1, <1>3 DEF SetStatus, VersionsInv, TypeOK
  <1> QED
    BY <1>2, <1>4, <1>5, FinishKeeps

\* VersionsInv is inductive.
LEMMA VersionsStep == VersionsInv /\ [Next]_vars => VersionsInv'
  <1> SUFFICES ASSUME VersionsInv, [Next]_vars PROVE VersionsInv'
    OBVIOUS
  <1>1. ASSUME NEW a \in Artifacts, Create(a) PROVE VersionsInv'
    BY <1>1, CreateKeeps DEF Create, VersionsInv, TypeOK
  <1>2. ASSUME NEW s \in Sessions, Request(s) PROVE VersionsInv'
    <2>1. ASSUME NEW a \in Artifacts, Open(s, a) PROVE VersionsInv'
      BY <2>1, OpenKeeps
    <2>2. ASSUME NEW a \in Artifacts, CreateFrom(s, a) PROVE VersionsInv'
      BY <2>2, CreateKeeps DEF CreateFrom, Commit, UpToDate
    <2>3. CASE Submit(s) \/ \E decision \in Verdicts : Decide(s, decision)
      BY <2>3, SubmitDecideKeep
    <2>4. CASE FindImpacted(s)
      BY <2>4, FindImpactedKeeps
    <2>5. CASE Revise(s)
      BY <2>5, ReviseKeeps
    <2>6. CASE Refuse(s)
      BY <2>6, FinishKeeps DEF Refuse, VersionsInv, TypeOK
    <2> QED
      BY <1>2, <2>1, <2>2, <2>3, <2>4, <2>5, <2>6 DEF Request
  <1>3. CASE UNCHANGED vars
    BY <1>3 DEF vars, VersionsInv, TypeOK, NoRevisionLost, CopyOK, CopyGood, AbsentOK
  <1> QED
    BY <1>1, <1>2, <1>3 DEF Next

\* Whatever requests interleave, VersionsInv holds.
THEOREM VersionsInvariant == Spec => []VersionsInv
  BY VersionsInit, VersionsStep, PTL DEF Spec

\* The tables of artifacts, versions and approvals keep their types.
THEOREM ReviewTypeCorrect == Spec => []TypeOK
  <1>1. VersionsInv => TypeOK
    BY DEF VersionsInv
  <1> QED
    BY VersionsInvariant, <1>1, PTL

\* Concurrent revisions (create_version, revise_package, revise_plan,
\* revise_mockup) never share a number and never lose one another.
THEOREM RevisionsKept == Spec => []NoRevisionLost
  <1>1. VersionsInv => NoRevisionLost
    BY DEF VersionsInv
  <1> QED
    BY VersionsInvariant, <1>1, PTL

-----------------------------------------------------------------------------
(* Requests that find what they loaded.                                    *)

\* What is made from an artifact was created after it.
SourceExists ==
    \A a \in Artifacts : status[a] # "absent" /\ SourceOf[a] # NoSource
                            => status[SourceOf[a]] # "absent"

FreshInv == VersionsInv /\ SourceExists /\ FreshUnlessRaced

\* FreshApproval, one artifact at a time.
Fresh(a) == \E d \in approvals : /\ d.artifact = a /\ d.decision = "approved"
                                 /\ d.version = version[a] /\ d.under = SourceVersion(a)

\* An approval counts as long as neither the artifact nor its source is revised.
LEMMA FreshStays ==
    ASSUME NEW a \in Artifacts, Fresh(a), approvals \subseteq approvals',
           version'[a] = version[a],
           SourceOf[a] # NoSource => version'[SourceOf[a]] = version[SourceOf[a]]
    PROVE  Fresh(a)'
  BY DEF Fresh, SourceVersion

\* A new draft needs no approval, and nothing is made from it yet.
LEMMA InsertFresh ==
    ASSUME FreshInv, NEW a \in Artifacts, Insert(a), ~stale' => ~stale,
           SourceOf[a] # NoSource => status[SourceOf[a]] # "absent"
    PROVE  SourceExists' /\ FreshUnlessRaced'
  <1>1. /\ status' = [status EXCEPT ![a] = "draft"] /\ status[a] = "absent"
        /\ version' = [version EXCEPT ![a] = 1] /\ approvals' = approvals
        /\ status \in [Artifacts -> Statuses] /\ version \in [Artifacts -> Nat]
    BY DEF Insert, FreshInv, VersionsInv, TypeOK
  <1>2. SourceExists'
    BY <1>1 DEF FreshInv, SourceExists
  <1>3. FreshUnlessRaced'
    <2> SUFFICES ASSUME ~stale', NEW b \in Artifacts, status'[b] = "approved" PROVE Fresh(b)'
      BY DEF FreshUnlessRaced, FreshApproval, Fresh
    <2>1. b # a /\ status[b] = "approved"
      BY <1>1
    <2>2. Fresh(b) /\ (SourceOf[b] # NoSource => SourceOf[b] # a /\ SourceOf[b] \in Artifacts)
      BY <1>1, <2>1 DEF FreshInv, FreshUnlessRaced, FreshApproval, Fresh, SourceExists
    <2> QED
      BY <1>1, <2>1, <2>2, FreshStays
  <1> QED
    BY <1>2, <1>3

\* A status written over an existing one keeps what exists.
LEMMA ExistingKept ==
    ASSUME FreshInv, \A b \in Artifacts : status'[b] = "absent" <=> status[b] = "absent"
    PROVE  SourceExists'
  BY DEF FreshInv, SourceExists

\* A decision that finds what it loaded approves the current version.
LEMMA DecideFresh ==
    ASSUME FreshInv, NEW s \in Sessions,
           Submit(s) \/ \E decision \in Verdicts : Decide(s, decision)
    PROVE  SourceExists' /\ FreshUnlessRaced'
  <1> DEFINE a == copy[s].artifact
  <1>1. /\ Commit(s) /\ UNCHANGED version /\ pc[s] # "idle" /\ approvals \subseteq approvals'
    BY DEF Submit, Decide
  <1>2. a \in Artifacts /\ status \in [Artifacts -> Statuses]
    BY <1>1, CopyFacts DEF FreshInv, VersionsInv, TypeOK
  <1>3. PICK new \in Statuses \ {"absent"} :
            /\ SetStatus(s, new)
            /\ new = "approved" => Decide(s, "approved")
    BY DEF Submit, Decide, Statuses, Decisions
  <1>4. SourceExists'
    <2>1. status[a] # "absent"
      BY <1>1, CopyFacts DEF FreshInv, VersionsInv, AbsentOK
    <2>2. \A b \in Artifacts : status'[b] = "absent" <=> status[b] = "absent"
      BY <1>2, <1>3, <2>1 DEF SetStatus
    <2> QED
      BY <2>2, ExistingKept
  <1>5. FreshUnlessRaced'
    <2> SUFFICES ASSUME ~stale', NEW b \in Artifacts, status'[b] = "approved" PROVE Fresh(b)'
      BY DEF FreshUnlessRaced, FreshApproval, Fresh
    <2>1. ~stale /\ copy[s].status = status[a] /\ copy[s].version = version[a]
      BY <1>1 DEF Commit, UpToDate
    <2>2. \A c \in Artifacts : status'[c] = IF c = a THEN new ELSE status[c]
      <3>1. CASE new = copy[s].status
        BY <1>2, <1>3, <2>1, <3>1 DEF SetStatus
      <3>2. CASE new # copy[s].status
        BY <1>2, <1>3, <3>2 DEF SetStatus
      <3> QED
        BY <3>1, <3>2
    <2>3. CASE b = a
      <3>1. Decide(s, "approved")
        BY <1>2, <1>3, <2>2, <2>3
      <3>2. [artifact |-> a, version |-> version[a], decision |-> "approved",
             under |-> SourceVersion(a)] \in approvals'
        BY <2>1, <3>1 DEF Decide
      <3>3. SourceVersion(b)' = SourceVersion(a) /\ version'[b] = version[a]
        BY <1>1, <2>3 DEF SourceVersion
      <3> QED
        BY <2>3, <3>2, <3>3 DEF Fresh
    <2>4. CASE b # a
      <3>1. status[b] = "approved"
        BY <1>2, <2>2, <2>4
      <3>2. Fresh(b)
        BY <2>1, <3>1 DEF FreshInv, FreshUnlessRaced, FreshApproval, Fresh
      <3> QED
        BY <1>1, <3>2, FreshStays
    <2> QED
      BY <2>3, <2>4
  <1> QED
    BY <1>4, <1>5

\* A revision ends the approval of the artifact and of what is made from it.
LEMMA ReviseFresh ==
    ASSUME FreshInv, NEW s \in Sessions, Revise(s)
    PROVE  SourceExists' /\ FreshUnlessRaced'
  <1> DEFINE a == copy[s].artifact
  <1>1. /\ Commit(s) /\ pc[s] = "revising" /\ approvals' = approvals
        /\ version' = [version EXCEPT ![a] = copy[s].version + 1]
        /\ status' = [d \in Artifacts |->
                         IF d = a /\ copy[s].status # "draft" THEN "draft"
                         ELSE IF d \in copy[s].impacted THEN "changes_requested"
                         ELSE status[d]]
    BY DEF Revise
  <1>2. /\ a \in Artifacts /\ status[a] # "absent"
        /\ status \in [Artifacts -> Statuses] /\ version \in [Artifacts -> Nat]
        /\ \A d \in copy[s].impacted : status[d] # "absent"
    BY <1>1, CopyFacts DEF FreshInv, VersionsInv, TypeOK, AbsentOK
  <1>3. ~stale' => ~stale /\ copy[s].status = status[a] /\ copy[s].impacted = Impacted(a)
    BY <1>1 DEF Commit, UpToDate
  <1> HIDE DEF a
  <1>4. SourceExists'
    <2>1. \A d \in Artifacts : status'[d] = "absent" <=> status[d] = "absent"
      BY <1>1, <1>2
    <2> QED
      BY <2>1, ExistingKept
  <1>5. FreshUnlessRaced'
    <2> SUFFICES ASSUME ~stale', NEW b \in Artifacts, status'[b] = "approved" PROVE Fresh(b)'
      BY DEF FreshUnlessRaced, FreshApproval, Fresh
    <2>1. b # a /\ status[b] = "approved" /\ b \notin copy[s].impacted
      BY <1>1, <1>2, <1>3
    <2>2. SourceOf[b] # a
      BY <1>3, <2>1 DEF Impacted, MadeFrom
    <2>3. Fresh(b)
      BY <1>3, <2>1 DEF FreshInv, FreshUnlessRaced, FreshApproval, Fresh
    <2> QED
      BY <1>1, <1>2, <2>1, <2>2, <2>3, FreshStays
  <1> QED
    BY <1>4, <1>5

\* FreshInv is inductive.
LEMMA FreshStep == FreshInv /\ [Next]_vars => FreshInv'
  <1> SUFFICES ASSUME FreshInv, [Next]_vars PROVE FreshInv'
    OBVIOUS
  <1>1. VersionsInv'
    BY VersionsStep DEF FreshInv
  <1>2. ASSUME UNCHANGED <<status, version, approvals, stale>> PROVE FreshInv'
    BY <1>1, <1>2 DEF FreshInv, SourceExists, FreshUnlessRaced, FreshApproval, SourceVersion
  <1>3. ASSUME NEW a \in Artifacts, Create(a) PROVE FreshInv'
    BY <1>1, <1>3, InsertFresh DEF Create, FreshInv
  <1>4. ASSUME NEW s \in Sessions, Request(s) PROVE FreshInv'
    <2>1. ASSUME NEW a \in Artifacts, CreateFrom(s, a) PROVE FreshInv'
      <3>1. SourceOf[a] # NoSource => status[SourceOf[a]] # "absent"
        BY <2>1, CopyFacts DEF CreateFrom, FreshInv, VersionsInv, AbsentOK
      <3>2. Insert(a) /\ (~stale' => ~stale)
        BY <2>1 DEF CreateFrom, Commit
      <3> QED
        BY <1>1, <3>1, <3>2, InsertFresh DEF FreshInv
    <2>2. CASE Submit(s) \/ \E decision \in Verdicts : Decide(s, decision)
      BY <1>1, <2>2, DecideFresh DEF FreshInv
    <2>3. CASE Revise(s)
      BY <1>1, <2>3, ReviseFresh DEF FreshInv
    <2>4. CASE FindImpacted(s) \/ Refuse(s) \/ \E a \in Artifacts : Open(s, a)
      BY <1>2, <2>4 DEF FindImpacted, Refuse, Open
    <2> QED
      BY <1>4, <2>1, <2>2, <2>3, <2>4 DEF Request
  <1>5. CASE UNCHANGED vars
    BY <1>2, <1>5 DEF vars
  <1> QED
    BY <1>3, <1>4, <1>5 DEF Next

\* However requests overlap, as long as none has committed on a stale copy an
\* approved artifact carries an approval of the version it has now, given after
\* the last revision of its source (decide, and the cascades of create_version
\* and revise_package).
THEOREM ApprovalsAreFresh == Spec => []FreshUnlessRaced
  <1>1. Init => FreshInv
    BY VersionsInit DEF Init, FreshInv, SourceExists, FreshUnlessRaced, FreshApproval
  <1>2. FreshInv /\ [Next]_vars => FreshInv'
    BY FreshStep
  <1>3. FreshInv => FreshUnlessRaced
    BY DEF FreshInv
  <1> QED
    BY <1>1, <1>2, <1>3, PTL DEF Spec

-----------------------------------------------------------------------------
(* The record of decisions.                                                *)

\* A granted status that was there before still has its decision.
LEMMA GrantedKept ==
    ASSUME DecisionsOnRecord, approvals' = approvals,
           \A a \in Artifacts : rows[a] \subseteq rows'[a],
           approvals \subseteq Approvals,
           \A a \in Artifacts : status'[a] \in {"approved", "waived", "cancelled"}
                                    => status'[a] = status[a]
    PROVE  DecisionsOnRecord'
  BY DEF DecisionsOnRecord, Approvals

LEMMA InsertRecorded ==
    ASSUME VersionsInv, DecisionsOnRecord, NEW a \in Artifacts, Insert(a)
    PROVE  DecisionsOnRecord'
  <1>1. rows[a] = {}
    <2>1. version[a] = 0 /\ 1 .. 0 = {}
      BY DEF Insert, VersionsInv, AbsentOK
    <2> QED
      BY <2>1 DEF VersionsInv, NoRevisionLost
  <1>2. \A b \in Artifacts : rows[b] \subseteq rows'[b]
    BY <1>1 DEF Insert, VersionsInv, TypeOK
  <1>3. \A b \in Artifacts : status'[b] = "draft" \/ status'[b] = status[b]
    BY DEF Insert, VersionsInv, TypeOK
  <1> QED
    BY <1>2, <1>3, GrantedKept DEF Insert, VersionsInv, TypeOK

LEMMA ReviseRecorded ==
    ASSUME VersionsInv, DecisionsOnRecord, NEW s \in Sessions, Revise(s)
    PROVE  DecisionsOnRecord'
  <1>1. \A b \in Artifacts : rows[b] \subseteq rows'[b]
    BY CopyFacts DEF Revise, VersionsInv, TypeOK
  <1>2. \A b \in Artifacts : status'[b] \in {"draft", "changes_requested"} \/ status'[b] = status[b]
    BY DEF Revise
  <1> QED
    BY <1>1, <1>2, GrantedKept DEF Revise, VersionsInv, TypeOK

LEMMA SubmitRecorded ==
    ASSUME VersionsInv, DecisionsOnRecord, NEW s \in Sessions, Submit(s)
    PROVE  DecisionsOnRecord'
  <1>1. \A b \in Artifacts : status'[b] = "submitted" \/ status'[b] = status[b]
    BY CopyFacts DEF Submit, SetStatus, VersionsInv, TypeOK
  <1> QED
    BY <1>1, GrantedKept DEF Submit, VersionsInv, TypeOK

\* A decision is recorded with the status it grants.
LEMMA DecideRecorded ==
    ASSUME VersionsInv, DecisionsOnRecord, NEW s \in Sessions,
           NEW decision \in Verdicts, Decide(s, decision)
    PROVE  DecisionsOnRecord'
  <1> DEFINE a == copy[s].artifact
             d == [artifact |-> a, version |-> copy[s].version,
                   decision |-> decision, under |-> SourceVersion(a)]
  <1>1. /\ a \in Artifacts /\ copy[s].version \in 1 .. version[a] /\ rows[a] = 1 .. version[a]
        /\ copy[s].status # decision
    <2>1. pc[s] # "idle" /\ copy[s].status # decision
      BY DEF Decide, Decisions
    <2> QED
      BY <2>1, CopyFacts DEF VersionsInv, NoRevisionLost
  <1>2. approvals' = approvals \cup {d} /\ rows' = rows
    BY DEF Decide
  <1>3. /\ d.artifact = a /\ d.decision = decision /\ d.version = copy[s].version
    OBVIOUS
  <1>4. status' = [status EXCEPT ![a] = decision]
    BY <1>1 DEF Decide, SetStatus
  <1> HIDE DEF d
  <1>5. \A e \in approvals' : e.version \in rows'[e.artifact]
    BY <1>1, <1>2, <1>3 DEF DecisionsOnRecord
  <1>6. ASSUME NEW b \in Artifacts, status'[b] \in {"approved", "waived", "cancelled"}
        PROVE  \E e \in approvals' : e.artifact = b /\ e.decision = status'[b]
    <2>1. CASE b = a
      BY <1>1, <1>2, <1>3, <1>4, <2>1 DEF VersionsInv, TypeOK
    <2>2. CASE b # a
      BY <1>2, <1>4, <1>6, <2>2 DEF DecisionsOnRecord, VersionsInv, TypeOK
    <2> QED
      BY <2>1, <2>2
  <1> QED
    BY <1>5, <1>6 DEF DecisionsOnRecord

LEMMA RecordStep == VersionsInv /\ DecisionsOnRecord /\ [Next]_vars => DecisionsOnRecord'
  <1> SUFFICES ASSUME VersionsInv, DecisionsOnRecord, [Next]_vars PROVE DecisionsOnRecord'
    OBVIOUS
  <1>1. ASSUME UNCHANGED <<status, rows, approvals>> PROVE DecisionsOnRecord'
    BY <1>1 DEF DecisionsOnRecord
  <1>2. ASSUME NEW a \in Artifacts, Create(a) PROVE DecisionsOnRecord'
    BY <1>2, InsertRecorded DEF Create
  <1>3. ASSUME NEW s \in Sessions, Request(s) PROVE DecisionsOnRecord'
    <2>1. CASE \E a \in Artifacts : CreateFrom(s, a)
      BY <2>1, InsertRecorded DEF CreateFrom
    <2>2. CASE Submit(s) \/ Revise(s) \/ \E decision \in Verdicts : Decide(s, decision)
      BY <2>2, SubmitRecorded, ReviseRecorded, DecideRecorded
    <2>3. CASE FindImpacted(s) \/ Refuse(s) \/ \E a \in Artifacts : Open(s, a)
      BY <1>1, <2>3 DEF FindImpacted, Refuse, Open
    <2> QED
      BY <1>3, <2>1, <2>2, <2>3 DEF Request
  <1>4. CASE UNCHANGED vars
    BY <1>1, <1>4 DEF vars
  <1> QED
    BY <1>2, <1>3, <1>4 DEF Next

\* Whatever requests overlap, on copies however stale: a decision concerns a
\* version that exists, and no artifact is approved, waived or cancelled without
\* a decision on record that says so (decide).
THEOREM StatusOnRecord == Spec => []DecisionsOnRecord
  <1>1. Init => DecisionsOnRecord
    BY DEF Init, DecisionsOnRecord
  <1> QED
    BY <1>1, VersionsInit, VersionsStep, RecordStep, PTL DEF Spec

=============================================================================
