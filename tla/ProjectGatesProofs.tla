------------------------- MODULE ProjectGatesProofs -------------------------
(***************************************************************************)
(* Proofs about ProjectGates for any number of gates, checks, reviewers,   *)
(* policies, submissions and requests in progress.  The types and the      *)
(* approvals behind a closed gate hold however requests interleave; the    *)
(* evidence behind it as long as none commits on a stale copy of a gate.   *)
(***************************************************************************)
EXTENDS ProjectGates, TLAPS

-----------------------------------------------------------------------------
(* Types.                                                                  *)

\* What stands for no loaded copy has the type of one.
LEMMA NoCopyType == NoCopy \in Copies
  <1>1. Missing \in Evidence
    BY GatesAssumption DEF Missing, Evidence
  <1>2. NoPolicy \in Policy
    BY DEF NoPolicy, Policy
  <1>3. 1 \in Gates
    BY GatesAssumption DEF Gates
  <1> QED
    BY <1>1, <1>2, <1>3 DEF NoCopy, Copies, Statuses

\* Ending a request keeps the types of its state.
LEMMA FinishTypes ==
    ASSUME TypeOK, NEW s \in Sessions, Finish(s)
    PROVE  pc' \in [Sessions -> {"idle", "loaded"}] /\ copy' \in [Sessions -> Copies]
  BY NoCopyType DEF Finish, TypeOK

\* Committing keeps the types of the request's state.
LEMMA CommitTypes ==
    ASSUME TypeOK, NEW s \in Sessions, Commit(s)
    PROVE  /\ stale' \in BOOLEAN
           /\ pc' \in [Sessions -> {"idle", "loaded"}] /\ copy' \in [Sessions -> Copies]
  BY FinishTypes DEF Commit, TypeOK

\* A column that is written keeps the type of the status.
LEMMA StatusTypes ==
    ASSUME TypeOK, NEW s \in Sessions, NEW new \in Statuses, SetStatus(s, new)
    PROVE  status' \in [Gates -> Statuses]
  <1>1. copy[s].gate \in Gates
    BY DEF TypeOK, Copies
  <1>2. Column(new, copy[s].status, status[copy[s].gate]) \in Statuses
    BY <1>1 DEF Column, TypeOK
  <1> QED
    BY <1>1, <1>2 DEF SetStatus, TypeOK

\* A written row of evidence is a row of evidence with a result.
LEMMA UpsertedTypes ==
    ASSUME TypeOK, NEW s \in Sessions, NEW k \in Checks, NEW result \in Results,
           NEW key \in Keys \cup {NoKey}
    PROVE  Upserted(s, k, result, key) \in Evidence
  <1>1. copy[s].gate \in Gates /\ copy[s].evidence \in [Checks -> Evidence]
    BY DEF TypeOK, Copies
  <1>2. evidence[copy[s].gate] \in [Checks -> Evidence]
    BY <1>1 DEF TypeOK
  <1>3. evidence[copy[s].gate][k] \in Evidence
    BY <1>2
  <1> DEFINE now == evidence[copy[s].gate][k]
             st  == Column(result, copy[s].evidence[k].status, now.status)
             ky  == IF key = NoKey THEN now.key ELSE Column(key, copy[s].evidence[k].key, now.key)
  <1>4. st \in Results \cup {"missing"}
    BY <1>3 DEF Column, Evidence
  <1>5. ky \in Keys \cup {NoKey}
    BY <1>3 DEF Column, Evidence
  <1>6. Upserted(s, k, result, key) = [status |-> st, lapsed |-> FALSE, key |-> ky]
    BY DEF Upserted
  <1> HIDE DEF st, ky
  <1> QED
    BY <1>4, <1>5, <1>6 DEF Evidence

\* Recording derived checks keeps the types of the evidence and the status.
LEMMA RecordTypes ==
    ASSUME TypeOK, NEW s \in Sessions, NEW ks \in SUBSET Checks,
           NEW derived \in [ks -> {"passed", "failed"}], Record(s, derived)
    PROVE  /\ evidence' \in [Gates -> [Checks -> Evidence]]
           /\ status' \in [Gates -> Statuses]
  <1>1. copy[s].gate \in Gates
    BY DEF TypeOK, Copies
  <1>2. evidence[copy[s].gate] \in [Checks -> Evidence]
    BY <1>1 DEF TypeOK
  <1> DEFINE written == [k \in Checks |-> IF k \in DOMAIN derived
                                          THEN Upserted(s, k, derived[k], NoKey)
                                          ELSE evidence[copy[s].gate][k]]
  <1>3. written \in [Checks -> Evidence]
    <2> SUFFICES ASSUME NEW k \in Checks
                 PROVE  (IF k \in DOMAIN derived THEN Upserted(s, k, derived[k], NoKey)
                         ELSE evidence[copy[s].gate][k]) \in Evidence
      OBVIOUS
    <2>1. CASE k \in DOMAIN derived
      <3>1. derived[k] \in Results
        <4>1. DOMAIN derived = ks
          OBVIOUS
        <4>2. derived[k] \in {"passed", "failed"}
          BY <2>1, <4>1
        <4> QED
          BY <4>2 DEF Results, Passing
      <3> QED
        BY <2>1, <3>1, UpsertedTypes
    <2>2. CASE k \notin DOMAIN derived
      BY <1>2, <2>2
    <2> QED
      BY <2>1, <2>2
  <1>4. evidence' = [evidence EXCEPT ![copy[s].gate] = written]
    BY <1>1 DEF Record, TypeOK
  <1>5. \E new \in {"ready", "open"} : SetStatus(s, new)
    BY DEF Record
  <1> HIDE DEF written
  <1>6. evidence' \in [Gates -> [Checks -> Evidence]]
    BY <1>3, <1>4 DEF TypeOK
  <1>7. status' \in [Gates -> Statuses]
    BY <1>5, StatusTypes DEF Statuses
  <1> QED
    BY <1>6, <1>7

\* The types are inductive.
LEMMA TypeStep == TypeOK /\ [Next]_vars => TypeOK'
  <1> SUFFICES ASSUME TypeOK, [Next]_vars PROVE TypeOK'
    OBVIOUS
  <1>1. ASSUME NEW s \in Sessions, Request(s) PROVE TypeOK'
    <2>1. copy[s] \in Copies
      BY DEF TypeOK
    <2>2. ASSUME NEW n \in Gates, Open(s, n) PROVE TypeOK'
      <3>1. [gate |-> n, status |-> status[n], evidence |-> evidence[n],
             decisions |-> decisions[n], previousClosed |-> n = 1 \/ status[n - 1] = "closed",
             policy |-> policy] \in Copies
        <4>1. (n = 1 \/ status[n - 1] = "closed") \in BOOLEAN
          OBVIOUS
        <4>2. /\ status[n] \in Statuses /\ evidence[n] \in [Checks -> Evidence]
              /\ decisions[n] \in SUBSET Decisions /\ policy \in Policy
          BY GatesAssumption DEF TypeOK
        <4> QED
          BY <4>1, <4>2 DEF Copies
      <3> QED
        BY <2>2, <3>1 DEF Open, TypeOK
    <2>3. ASSUME NEW r \in Submissions, SubmitEvidence(s, r) PROVE TypeOK'
      <3>1. /\ r.gate \in Gates /\ r.check \in Checks /\ r.status \in Results
            /\ r.key \in Keys \cup {NoKey}
        BY GatesAssumption
      <3>2. Upserted(s, r.check, r.status, r.key) \in Evidence
        BY <3>1, UpsertedTypes
      <3>3. evidence' \in [Gates -> [Checks -> Evidence]]
        BY <2>3, <3>1, <3>2 DEF SubmitEvidence, TypeOK
      <3>4. status' \in [Gates -> Statuses]
        BY <2>3, StatusTypes DEF SubmitEvidence, Statuses
      <3>5. history' \subseteq Gates \X (Keys \cup {NoKey})
        BY <2>3, <3>1 DEF SubmitEvidence, TypeOK
      <3>6. decisions' = decisions /\ policy' = policy
        BY <2>3 DEF SubmitEvidence
      <3> QED
        BY <2>3, <3>3, <3>4, <3>5, <3>6, CommitTypes DEF SubmitEvidence, TypeOK
    <2>4. ASSUME NEW ks \in SUBSET Checks, NEW derived \in [ks -> {"passed", "failed"}],
                 Sync(s, derived) \/ Evaluate(s, derived)
          PROVE  TypeOK'
      <3>1. /\ Record(s, derived) /\ Commit(s)
            /\ UNCHANGED <<decisions, history, policy>>
        BY <2>4 DEF Sync, Evaluate
      <3> QED
        BY <3>1, RecordTypes, CommitTypes DEF TypeOK
    <2>5. ASSUME NEW d \in Decisions, Decide(s, d) PROVE TypeOK'
      <3>1. decisions' \in [Gates -> SUBSET Decisions]
        BY <2>5 DEF Decide, TypeOK
      <3>2. status' \in [Gates -> Statuses]
        BY <2>5, StatusTypes DEF Decide, Statuses, TypeOK
      <3> QED
        BY <2>5, <3>1, <3>2, CommitTypes DEF Decide, TypeOK
    <2>6. CASE Close(s)
      <3>1. status' \in [Gates -> Statuses]
        <4>1. CASE SetStatus(s, "closed")
          BY <4>1, StatusTypes DEF Statuses
        <4>2. CASE status' = [status EXCEPT ![copy[s].gate] = "closed"]
          BY <4>2 DEF TypeOK, Statuses
        <4> QED
          BY <2>6, <4>1, <4>2 DEF Close
      <3> QED
        BY <2>6, <3>1, CommitTypes DEF Close, TypeOK
    <2>7. CASE Reopen(s)
      <3>1. status' \in [Gates -> Statuses]
        BY <2>7, StatusTypes DEF Reopen, Statuses
      <3> QED
        BY <2>7, <3>1, CommitTypes DEF Reopen, TypeOK
    <2>8. CASE Refuse(s)
      BY <2>8, FinishTypes DEF Refuse, TypeOK
    <2> QED
      BY <1>1, <2>2, <2>3, <2>4, <2>5, <2>6, <2>7, <2>8 DEF Request
  <1>2. CASE UpdatePolicy
    BY <1>2 DEF UpdatePolicy, TypeOK
  <1>3. ASSUME NEW n \in Gates, NEW k \in Checks, Lapse(n, k) PROVE TypeOK'
    <2>1. evidence[n] \in [Checks -> Evidence] /\ evidence[n][k] \in Evidence
      BY DEF TypeOK
    <2>2. [evidence[n][k] EXCEPT !.lapsed = TRUE] \in Evidence
      BY <2>1, Zenon DEF Evidence
    <2>3. evidence' = [evidence EXCEPT ![n] =
                          [evidence[n] EXCEPT ![k] = [evidence[n][k] EXCEPT !.lapsed = TRUE]]]
      BY <1>3 DEF Lapse, TypeOK
    <2>4. [evidence[n] EXCEPT ![k] = [evidence[n][k] EXCEPT !.lapsed = TRUE]]
              \in [Checks -> Evidence]
      BY <2>1, <2>2
    <2>5. evidence' \in [Gates -> [Checks -> Evidence]]
      BY <2>3, <2>4 DEF TypeOK
    <2> QED
      BY <1>3, <2>5 DEF Lapse, TypeOK
  <1>4. CASE UNCHANGED vars
    BY <1>4 DEF vars, TypeOK
  <1> QED
    BY <1>1, <1>2, <1>3, <1>4 DEF Next

\* The types hold when the project is created.
LEMMA TypeInit == Init => TypeOK
  <1> SUFFICES ASSUME Init PROVE TypeOK
    OBVIOUS
  <1>1. Missing \in Evidence
    BY GatesAssumption DEF Missing, Evidence
  <1> QED
    BY <1>1, NoCopyType DEF Init, TypeOK, Statuses

\* However requests interleave, the gates, their evidence, their decisions and
\* their history stay well formed (submit_evidence, sync_gate, _record_decision,
\* close_gate, reopen_gate).
THEOREM GatesTypeCorrect == Spec => []TypeOK
  BY TypeInit, TypeStep, PTL DEF Spec
-----------------------------------------------------------------------------
(* The approvals behind a closed gate, however requests interleave.        *)

\* What a request has loaded of the decisions is there: they are never deleted.
DecisionsLoaded ==
    \A s \in Sessions : pc[s] = "loaded" =>
        copy[s].decisions \subseteq decisions[copy[s].gate] /\ copy[s].policy \in Policies

\* Each reviewer of the gate gave an approval.
Approved(n) ==
    \A r \in Responsibilities : [responsibility |-> r, decision |-> "approved"] \in decisions[n]

ApprovalInv == TypeOK /\ DecisionsLoaded /\ ClosedOnApproval

\* A written column has the new value or stays as it is.
LEMMA ColumnValue == \A new, loaded, now : Column(new, loaded, now) \in {new, now}
  BY DEF Column

\* Setting a status that is not closed closes no gate.
LEMMA NothingCloses ==
    ASSUME TypeOK, NEW s \in Sessions, NEW new \in {"open", "ready"}, SetStatus(s, new),
           NEW n \in Gates, status'[n] = "closed"
    PROVE  status[n] = "closed"
  BY ColumnValue DEF SetStatus, TypeOK

\* Ending a request keeps what the other requests have loaded.
LEMMA LoadedKept ==
    ASSUME ApprovalInv, NEW s \in Sessions, Finish(s),
           \A n \in Gates : decisions[n] \subseteq decisions'[n]
    PROVE  DecisionsLoaded'
  <1> SUFFICES ASSUME NEW t \in Sessions, pc'[t] = "loaded"
               PROVE  /\ copy'[t].decisions \subseteq decisions'[copy'[t].gate]
                      /\ copy'[t].policy \in Policies
    BY DEF DecisionsLoaded
  <1>1. t # s /\ pc[t] = "loaded" /\ copy'[t] = copy[t]
    BY DEF Finish, ApprovalInv, TypeOK
  <1>2. copy[t].gate \in Gates
    BY DEF ApprovalInv, TypeOK, Copies
  <1> QED
    BY <1>1, <1>2 DEF ApprovalInv, DecisionsLoaded

\* The approvals behind a closed gate stay when no gate closes.
LEMMA ApprovalsStay ==
    ASSUME ApprovalInv, policy' \in Policies,
           \A n \in Gates : decisions[n] \subseteq decisions'[n],
           \A n \in Gates : status'[n] = "closed" => status[n] = "closed"
    PROVE  ClosedOnApproval'
  <1>1. PoliciesAgree /\ Asks(policy)' => Asks(policy)
    BY DEF ApprovalInv, TypeOK, PoliciesAgree, Asks
  <1> QED
    BY <1>1 DEF ApprovalInv, TypeOK, ClosedOnApproval

\* A ready gate has the approvals that the policies ask for.
LEMMA ReadyApproved ==
    ASSUME ApprovalInv, PoliciesAgree, Asks(policy), NEW s \in Sessions, pc[s] = "loaded",
           Ready(copy[s], copy[s].evidence)
    PROVE  Approved(copy[s].gate)
  <1>1. copy[s].policy \in Policies /\ copy[s].decisions \subseteq decisions[copy[s].gate]
    BY DEF ApprovalInv, DecisionsLoaded
  <1>2. copy[s].decisions \subseteq Decisions
    BY DEF ApprovalInv, TypeOK, Copies
  <1>3. copy[s].policy.require_gate_decisions /\ copy[s].policy.mode # "disabled"
    BY <1>1 DEF PoliciesAgree, Asks, ApprovalInv, TypeOK
  <1> SUFFICES ASSUME NEW r \in Responsibilities
               PROVE  [responsibility |-> r, decision |-> "approved"] \in decisions[copy[s].gate]
    BY DEF Approved
  <1>4. r \in {d.responsibility : d \in {e \in copy[s].decisions : e.decision = "approved"}}
    BY <1>3 DEF Ready, MissingDecisions
  <1>5. PICK d \in copy[s].decisions : d.decision = "approved" /\ d.responsibility = r
    BY <1>4
  <1>6. d = [responsibility |-> r, decision |-> "approved"]
    BY <1>2, <1>5 DEF Decisions
  <1> QED
    BY <1>1, <1>5, <1>6

\* The invariant behind ClosedOnApproval is inductive.
LEMMA ApprovalStep == ApprovalInv /\ [Next]_vars => ApprovalInv'
  <1> SUFFICES ASSUME ApprovalInv, [Next]_vars PROVE ApprovalInv'
    OBVIOUS
  <1> USE DEF ApprovalInv
  <1>0. TypeOK'
    BY TypeStep
  <1>1. ASSUME NEW s \in Sessions, Request(s) PROVE DecisionsLoaded' /\ ClosedOnApproval'
    <2>1. copy[s].gate \in Gates
      BY DEF TypeOK, Copies
    <2>2. ASSUME NEW n \in Gates, Open(s, n) PROVE DecisionsLoaded' /\ ClosedOnApproval'
      <3>1. DecisionsLoaded'
        <4> SUFFICES ASSUME NEW t \in Sessions, pc'[t] = "loaded"
                     PROVE  /\ copy'[t].decisions \subseteq decisions'[copy'[t].gate]
                            /\ copy'[t].policy \in Policies
          BY DEF DecisionsLoaded
        <4>1. CASE t = s
          BY <2>2, <4>1 DEF Open, TypeOK
        <4>2. CASE t # s
          BY <2>2, <4>2 DEF Open, TypeOK, DecisionsLoaded
        <4> QED
          BY <4>1, <4>2
      <3>2. ClosedOnApproval'
        BY <2>2, ApprovalsStay DEF Open, TypeOK
      <3> QED
        BY <3>1, <3>2
    <2>3. ASSUME NEW r \in Submissions, SubmitEvidence(s, r)
          PROVE  DecisionsLoaded' /\ ClosedOnApproval'
      <3>1. \A n \in Gates : status'[n] = "closed" => status[n] = "closed"
        BY <2>3, NothingCloses DEF SubmitEvidence
      <3> QED
        BY <2>3, <3>1, LoadedKept, ApprovalsStay DEF SubmitEvidence, Commit, TypeOK
    <2>4. ASSUME NEW ks \in SUBSET Checks, NEW derived \in [ks -> {"passed", "failed"}],
                 Sync(s, derived) \/ Evaluate(s, derived)
          PROVE  DecisionsLoaded' /\ ClosedOnApproval'
      <3>1. Record(s, derived) /\ Commit(s) /\ UNCHANGED <<decisions, history, policy>>
        BY <2>4 DEF Sync, Evaluate
      <3>2. \E new \in {"open", "ready"} : SetStatus(s, new)
        BY <3>1 DEF Record
      <3>3. \A n \in Gates : status'[n] = "closed" => status[n] = "closed"
        BY <3>2, NothingCloses
      <3> QED
        BY <3>1, <3>3, LoadedKept, ApprovalsStay DEF Commit, TypeOK
    <2>5. ASSUME NEW d \in Decisions, Decide(s, d) PROVE DecisionsLoaded' /\ ClosedOnApproval'
      <3>1. \A n \in Gates : status'[n] = "closed" => status[n] = "closed"
        BY <2>5, NothingCloses DEF Decide
      <3>2. \A n \in Gates : decisions[n] \subseteq decisions'[n]
        BY <2>1, <2>5 DEF Decide, TypeOK
      <3> QED
        BY <2>5, <3>1, <3>2, LoadedKept, ApprovalsStay DEF Decide, Commit, TypeOK
    <2>6. CASE Close(s)
      <3>1. DecisionsLoaded'
        BY <2>6, LoadedKept DEF Close, Commit
      <3>2. \A n \in Gates : n # copy[s].gate => status'[n] = status[n]
        BY <2>6 DEF Close, SetStatus, TypeOK
      <3>3. decisions' = decisions /\ policy' = policy
        BY <2>6 DEF Close
      <3>4. ASSUME PoliciesAgree, Asks(policy), NEW n \in Gates, status'[n] = "closed"
            PROVE  Approved(n)
        <4>1. CASE n = copy[s].gate
          BY <2>6, <3>4, <4>1, ReadyApproved DEF Close
        <4>2. CASE n # copy[s].gate
          BY <3>2, <3>4, <4>2 DEF ClosedOnApproval, Approved
        <4> QED
          BY <4>1, <4>2
      <3> QED
        BY <3>1, <3>3, <3>4 DEF ClosedOnApproval, Approved
    <2>7. CASE Reopen(s)
      <3>1. \A n \in Gates : status'[n] = "closed" => status[n] = "closed"
        BY <2>7, NothingCloses DEF Reopen
      <3> QED
        BY <2>7, <3>1, LoadedKept, ApprovalsStay DEF Reopen, Commit, TypeOK
    <2>8. CASE Refuse(s)
      BY <2>8, LoadedKept, ApprovalsStay DEF Refuse, TypeOK
    <2> QED
      BY <1>1, <2>2, <2>3, <2>4, <2>5, <2>6, <2>7, <2>8 DEF Request
  <1>2. CASE UpdatePolicy
    <2>1. DecisionsLoaded'
      BY <1>2 DEF UpdatePolicy, DecisionsLoaded
    <2>2. ClosedOnApproval'
      <3>1. UNCHANGED <<status, decisions>> /\ policy' \in Policies
        BY <1>2 DEF UpdatePolicy
      <3> QED
        BY <3>1, ApprovalsStay
    <2> QED
      BY <1>0, <2>1, <2>2
  <1>3. ASSUME NEW n \in Gates, NEW k \in Checks, Lapse(n, k)
        PROVE  DecisionsLoaded' /\ ClosedOnApproval'
    BY <1>3, ApprovalsStay DEF Lapse, DecisionsLoaded, TypeOK
  <1>4. CASE UNCHANGED vars
    BY <1>0, <1>4, ApprovalsStay DEF vars, DecisionsLoaded, TypeOK
  <1> QED
    BY <1>0, <1>1, <1>2, <1>3, <1>4 DEF Next

\* As long as no policy takes the reviewers' duty away, a gate they must decide on
\* is closed on an approval of each of them, however the requests that record
\* evidence, decide, evaluate, close and reopen interleave (close_gate,
\* _missing_decisions).
THEOREM ClosedGatesAreApproved == Spec => []ClosedOnApproval
  <1>1. Init => ApprovalInv
    BY TypeInit DEF Init, ApprovalInv, DecisionsLoaded, ClosedOnApproval
  <1>2. ApprovalInv /\ [Next]_vars => ApprovalInv'
    BY ApprovalStep
  <1>3. ApprovalInv => ClosedOnApproval
    BY DEF ApprovalInv
  <1> QED
    BY <1>1, <1>2, <1>3, PTL DEF Spec

-----------------------------------------------------------------------------
(* The evidence behind a closed gate, as long as nothing stale is          *)
(* committed.                                                              *)

EvidenceInv == TypeOK /\ ClosedOnEvidence

\* A request that commits on an up-to-date copy and sets another status takes
\* the gate out of closed.
LEMMA OpensGate ==
    ASSUME TypeOK, NEW s \in Sessions, Commit(s), ~stale', NEW new \in {"open", "ready"},
           SetStatus(s, new)
    PROVE  status' = [status EXCEPT ![copy[s].gate] = new]
  BY DEF Commit, UpToDate, SetStatus, Column, TypeOK, Copies

\* Evidence that changes in a gate that is not closed leaves the others alone.
LEMMA EvidenceOfOpenGate ==
    ASSUME TypeOK, ClosedOnEvidence, ~stale, NEW g \in Gates, NEW new \in {"open", "ready"},
           status' = [status EXCEPT ![g] = new],
           \A n \in Gates \ {g} : evidence'[n] = evidence[n]
    PROVE  ClosedOnEvidence'
  BY DEF ClosedOnEvidence, TypeOK

\* The evidence behind a closed gate survives every step.
LEMMA EvidenceStep == EvidenceInv /\ [Next]_vars => EvidenceInv'
  <1> SUFFICES ASSUME TypeOK, ClosedOnEvidence, [Next]_vars, ~stale'
               PROVE  ClosedOnEvidence'
    BY TypeStep DEF EvidenceInv, ClosedOnEvidence
  <1>1. ASSUME NEW s \in Sessions, Request(s) PROVE ClosedOnEvidence'
    <2>1. copy[s].gate \in Gates
      BY DEF TypeOK, Copies
    <2>2. Commit(s) => ~stale
      BY DEF Commit
    <2>3. ASSUME NEW n \in Gates, Open(s, n) PROVE ClosedOnEvidence'
      BY <2>3 DEF Open, ClosedOnEvidence
    <2>4. ASSUME NEW r \in Submissions, SubmitEvidence(s, r) PROVE ClosedOnEvidence'
      <3>1. status' = [status EXCEPT ![copy[s].gate] = "open"]
        BY <2>4, OpensGate DEF SubmitEvidence
      <3>2. \A n \in Gates \ {copy[s].gate} : evidence'[n] = evidence[n]
        BY <2>4 DEF SubmitEvidence, TypeOK
      <3> QED
        BY <2>1, <2>2, <2>4, <3>1, <3>2, EvidenceOfOpenGate DEF SubmitEvidence
    <2>5. ASSUME NEW ks \in SUBSET Checks, NEW derived \in [ks -> {"passed", "failed"}],
                 Sync(s, derived) \/ Evaluate(s, derived)
          PROVE  ClosedOnEvidence'
      <3>1. Record(s, derived) /\ Commit(s)
        BY <2>5 DEF Sync, Evaluate
      <3>2. PICK new \in {"open", "ready"} : SetStatus(s, new)
        BY <3>1 DEF Record
      <3>3. status' = [status EXCEPT ![copy[s].gate] = new]
        BY <3>1, <3>2, OpensGate
      <3>4. \A n \in Gates \ {copy[s].gate} : evidence'[n] = evidence[n]
        BY <3>1 DEF Record, TypeOK
      <3> QED
        BY <2>1, <2>2, <3>1, <3>3, <3>4, EvidenceOfOpenGate
    <2>6. ASSUME NEW d \in Decisions, Decide(s, d) PROVE ClosedOnEvidence'
      <3>1. \A n \in Gates : status'[n] = "closed" => status[n] = "closed"
        BY <2>6, NothingCloses DEF Decide
      <3> QED
        BY <2>2, <2>6, <3>1 DEF Decide, ClosedOnEvidence
    <2>7. CASE Close(s)
      <3>1. \A k \in Checks : copy[s].evidence[k].status \in Passing
        BY <2>7 DEF Close, Ready, BlockingChecks
      <3>2. \A k \in Checks : evidence[copy[s].gate][k].status \in Passing
        BY <2>7, <3>1 DEF Close, Commit, UpToDate
      <3>3. \A n \in Gates : n # copy[s].gate => status'[n] = status[n]
        BY <2>7 DEF Close, SetStatus, TypeOK
      <3> QED
        BY <2>2, <2>7, <3>2, <3>3 DEF Close, ClosedOnEvidence
    <2>8. CASE Reopen(s)
      <3>1. status' = [status EXCEPT ![copy[s].gate] = "open"]
        BY <2>8, OpensGate DEF Reopen
      <3>2. \A n \in Gates \ {copy[s].gate} : evidence'[n] = evidence[n]
        BY <2>8 DEF Reopen
      <3> QED
        BY <2>1, <2>2, <2>8, <3>1, <3>2, EvidenceOfOpenGate DEF Reopen
    <2>9. CASE Refuse(s)
      BY <2>9 DEF Refuse, ClosedOnEvidence
    <2> QED
      BY <1>1, <2>3, <2>4, <2>5, <2>6, <2>7, <2>8, <2>9 DEF Request
  <1>2. CASE UpdatePolicy
    BY <1>2 DEF UpdatePolicy, ClosedOnEvidence
  <1>3. ASSUME NEW n \in Gates, NEW k \in Checks, Lapse(n, k) PROVE ClosedOnEvidence'
    <2>1. \A m \in Gates, j \in Checks : evidence'[m][j].status = evidence[m][j].status
      <3>1. \A m \in Gates, j \in Checks :
                evidence'[m][j] = IF m = n /\ j = k
                                  THEN [evidence[n][k] EXCEPT !.lapsed = TRUE]
                                  ELSE evidence[m][j]
        BY <1>3, Zenon DEF Lapse, TypeOK
      <3>2. evidence[n][k] \in Evidence
        BY DEF TypeOK
      <3>3. [evidence[n][k] EXCEPT !.lapsed = TRUE].status = evidence[n][k].status
        BY <3>2 DEF Evidence
      <3> QED
        BY <3>1, <3>3
    <2> QED
      BY <1>3, <2>1 DEF Lapse, ClosedOnEvidence
  <1>4. CASE UNCHANGED vars
    BY <1>4 DEF vars, ClosedOnEvidence
  <1> QED
    BY <1>1, <1>2, <1>3, <1>4 DEF Next

\* As long as no request has committed on a stale copy of a gate, a closed gate
\* rests on evidence that passed or was waived: every submission,
\* synchronisation and evaluation that changes it takes the gate out of closed
\* (submit_evidence, sync_gate, evaluate_gate).
THEOREM ClosedGatesHaveEvidence == Spec => []ClosedOnEvidence
  <1>1. Init => EvidenceInv
    BY TypeInit DEF Init, EvidenceInv, ClosedOnEvidence
  <1>2. EvidenceInv => ClosedOnEvidence
    BY DEF EvidenceInv
  <1> QED
    BY EvidenceStep, <1>1, <1>2, PTL DEF Spec
=============================================================================
