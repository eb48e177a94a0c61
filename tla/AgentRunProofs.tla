--------------------------- MODULE AgentRunProofs ---------------------------
(***************************************************************************)
(* Proofs about AgentRun for every set of runs, workers and requests and   *)
(* every bound.  VersionInv says what the event number vouches for;        *)
(* StrictInv adds what holds of a run until a load is straddled.           *)
(***************************************************************************)
EXTENDS AgentRun, TLAPS

USE RunsAssumption, SessionsAssumption, BoundsAssumption

-----------------------------------------------------------------------------
(* The invariant that makes the event number a version of the row.         *)

\* A session past "idle" works for a run; only the four stages that follow a
\* load hold a loaded copy; a worker about to publish saw itself as owner.
SessionOK ==
    \A s \in Sessions :
        /\ pc[s] \notin {"idle", "dead"} => copy[s].run \in Runs
        /\ Loaded(s) => pc[s] \in {"loaded", "publishing", "asserted", "failing"}
        /\ pc[s] = "asserted" => /\ Loaded(s) /\ s \in Workers
                                 /\ copy[s].status = "running" /\ copy[s].owner = s

\* A run exists exactly when it has its first event.
LogOK == \A r \in Runs : status[r] = "absent" <=> seq[r] = 0

\* Copies are never from the future, and a row read at the present event
\* number is the present row.
VersionOK ==
    \A s \in Sessions : copy[s].run \in Runs =>
        /\ copy[s].rowSeq <= seq[copy[s].run]
        /\ copy[s].seq <= seq[copy[s].run]
        /\ copy[s].rowSeq # 0 /\ copy[s].rowSeq = seq[copy[s].run] => CopyIsRow(copy[s])

VersionInv == TypeOK /\ SessionOK /\ LogOK /\ VersionOK

-----------------------------------------------------------------------------
(* Facts about the building blocks of the actions.                         *)

\* What a row commit does: it needs a free event number, takes it, and leaves
\* every other run alone.
LEMMA CommitRowFacts ==
    ASSUME TypeOK, NEW s \in Sessions, copy[s].run \in Runs,
           NEW st \in Statuses, NEW ow \in Workers \cup {NoWorker}, NEW le \in Nat,
           CommitRow(s, st, ow, le)
    PROVE  /\ status' \in [Runs -> Statuses]
           /\ owner' \in [Runs -> Workers \cup {NoWorker}]
           /\ lease' \in [Runs -> Nat]
           /\ seq' \in [Runs -> Nat]
           /\ straddled' \subseteq Runs
           /\ attempts' = attempts /\ expired' = expired
           /\ seq[copy[s].run] = copy[s].seq
           /\ seq'[copy[s].run] = seq[copy[s].run] + 1
           /\ \A r \in Runs \ {copy[s].run} :
                 /\ status'[r] = status[r] /\ owner'[r] = owner[r]
                 /\ lease'[r] = lease[r] /\ seq'[r] = seq[r]
  <1> DEFINE q == copy[s].run
  <1>1. /\ status' = [status EXCEPT ![q] = IF st = copy[s].status THEN @ ELSE st]
        /\ owner' = [owner EXCEPT ![q] = IF ow = copy[s].owner THEN @ ELSE ow]
        /\ lease' = [lease EXCEPT ![q] = IF le = copy[s].lease THEN @ ELSE le]
        /\ seq' = [seq EXCEPT ![q] = @ + 1]
        /\ attempts' = attempts /\ expired' = expired
        /\ copy[s].seq = seq[q]
    BY DEF CommitRow, Current, Written
  <1>0. straddled' \subseteq Runs
    BY DEF TypeOK, CommitRow, Straddling
  <1> HIDE DEF q
  <1>2. q \in Runs
    BY DEF q
  <1>3. /\ status' \in [Runs -> Statuses]
        /\ owner' \in [Runs -> Workers \cup {NoWorker}]
        /\ lease' \in [Runs -> Nat]
        /\ seq' \in [Runs -> Nat]
        /\ seq'[q] = seq[q] + 1
    BY <1>1, <1>2 DEF TypeOK
  <1>4. \A r \in Runs \ {q} : /\ status'[r] = status[r] /\ owner'[r] = owner[r]
                              /\ lease'[r] = lease[r] /\ seq'[r] = seq[r]
    BY <1>1, <1>2 DEF TypeOK
  <1> QED
    BY <1>0, <1>1, <1>3, <1>4 DEF q

\* The same commit when the copy is the row: the new values are written.
LEMMA CommitFreshFacts ==
    ASSUME TypeOK, NEW s \in Sessions, copy[s].run \in Runs,
           NEW st, NEW ow, NEW le,
           CommitRow(s, st, ow, le), CopyIsRow(copy[s])
    PROVE  /\ status' = [status EXCEPT ![copy[s].run] = st]
           /\ owner' = [owner EXCEPT ![copy[s].run] = ow]
           /\ lease' = [lease EXCEPT ![copy[s].run] = le]
           /\ attempts' = attempts
  BY DEF TypeOK, CommitRow, CopyIsRow, Written

\* A session that has loaded nothing has a well-formed copy.
LEMMA NoCopyType ==
    /\ NoCopy \in Copies
    /\ \A r \in Runs \cup {0} : [NoCopy EXCEPT !.run = r] \in Copies
  BY DEF NoCopy, Copies, Statuses

\* A step that changes only sessions keeps VersionInv when each session either
\* keeps its copy or drops what it loaded.
LEMMA DropCopy ==
    ASSUME VersionInv, NEW s \in Sessions, NEW stage \in WorkerStages \ {"asserted"},
           \/ Keep(s, stage) /\ copy[s].run \in Runs
           \/ Leave(s, stage) /\ stage \in {"idle", "dead"}
    PROVE  /\ pc' \in [Sessions -> WorkerStages \cup {"loaded"}]
           /\ copy' \in [Sessions -> Copies]
           /\ copy'[s].seq = 0 /\ copy'[s].rowSeq = 0
           /\ pc'[s] # "asserted"
           /\ pc'[s] \notin {"idle", "dead"} => copy'[s].run \in Runs
           /\ \A t \in Sessions \ {s} : pc'[t] = pc[t] /\ copy'[t] = copy[t]
  <1>1. /\ NoCopy.seq = 0 /\ NoCopy.rowSeq = 0
        /\ \A r \in Runs : /\ [NoCopy EXCEPT !.run = r].run = r
                          /\ [NoCopy EXCEPT !.run = r].seq = 0
                          /\ [NoCopy EXCEPT !.run = r].rowSeq = 0
    BY DEF NoCopy
  <1>2. PICK c \in Copies : /\ pc' = [pc EXCEPT ![s] = stage]
                            /\ copy' = [copy EXCEPT ![s] = c]
                            /\ c.seq = 0 /\ c.rowSeq = 0
                            /\ stage \notin {"idle", "dead"} => c.run \in Runs
    <2>1. CASE Keep(s, stage) /\ copy[s].run \in Runs
      BY <1>1, <2>1, NoCopyType DEF Keep
    <2>2. CASE Leave(s, stage) /\ stage \in {"idle", "dead"}
      BY <1>1, <2>2, NoCopyType DEF Leave
    <2> QED
      BY <2>1, <2>2
  <1>3. stage # "asserted" /\ stage \in WorkerStages
    OBVIOUS
  <1>4. pc \in [Sessions -> WorkerStages \cup {"loaded"}] /\ copy \in [Sessions -> Copies]
    BY DEF VersionInv, TypeOK
  <1> QED
    BY <1>2, <1>3, <1>4

\* Every step advances the event number of a run or leaves its row alone: the
\* other sessions' copies of the run are outdated or still exact.
RowVersioned == \A r \in Runs :
    \/ seq'[r] > seq[r]
    \/ /\ seq'[r] = seq[r] /\ status'[r] = status[r]
       /\ owner'[r] = owner[r] /\ lease'[r] = lease[r]

\* What RowVersioned means for a session that does not take part in the step.
LEMMA OthersStayVersioned ==
    ASSUME TypeOK, TypeOK', VersionOK, RowVersioned,
           NEW t \in Sessions, copy'[t] = copy[t], copy[t].run \in Runs
    PROVE  /\ copy'[t].rowSeq <= seq'[copy'[t].run]
           /\ copy'[t].seq <= seq'[copy'[t].run]
           /\ copy'[t].rowSeq # 0 /\ copy'[t].rowSeq = seq'[copy'[t].run]
                 => CopyIsRow(copy[t])'
  <1> DEFINE c == copy[t]
  <1>1. /\ c \in Copies /\ c.rowSeq \in Nat /\ c.seq \in Nat
        /\ seq[c.run] \in Nat /\ seq'[c.run] \in Nat
    BY DEF TypeOK, Copies
  <1>2. /\ c.rowSeq <= seq[c.run]
        /\ c.seq <= seq[c.run]
        /\ c.rowSeq # 0 /\ c.rowSeq = seq[c.run] => CopyIsRow(c)
    BY DEF VersionOK
  <1>3. CASE seq'[c.run] > seq[c.run]
    BY <1>1, <1>2, <1>3
  <1>4. CASE ~(seq'[c.run] > seq[c.run])
    BY <1>1, <1>2, <1>4 DEF RowVersioned, CopyIsRow
  <1> QED
    BY <1>3, <1>4

\* A load keeps the invariant: its row is the present row.
LEMMA LoadRowInv ==
    ASSUME VersionInv, NEW s \in Sessions, NEW r \in Runs,
           NEW stage \in {"loaded", "publishing", "failing"}, LoadRow(s, r, stage)
    PROVE  VersionInv'
  <1>1. CopyOf(r) \in Copies
    BY DEF CopyOf, PlanCurrent, Copies, VersionInv, TypeOK
  <1>2. TypeOK'
    BY <1>1 DEF LoadRow, VersionInv, TypeOK, row, WorkerStages
  <1>3. /\ pc' = [pc EXCEPT ![s] = stage] /\ copy' = [copy EXCEPT ![s] = CopyOf(r)]
        /\ UNCHANGED <<status, owner, lease, seq>>
    BY DEF LoadRow, row
  <1>4. SessionOK'
    BY <1>1, <1>3 DEF VersionInv, TypeOK, SessionOK, Loaded, CopyOf
  <1>5. LogOK'
    BY <1>3 DEF VersionInv, LogOK
  <1>6. VersionOK'
    <2> SUFFICES ASSUME NEW t \in Sessions, copy'[t].run \in Runs
                 PROVE  /\ copy'[t].rowSeq <= seq'[copy'[t].run]
                        /\ copy'[t].seq <= seq'[copy'[t].run]
                        /\ copy'[t].rowSeq # 0 /\ copy'[t].rowSeq = seq'[copy'[t].run]
                              => CopyIsRow(copy[t])'
      BY DEF VersionOK
    <2>1. CASE t = s
      BY <1>3, <2>1 DEF CopyOf, CopyIsRow, VersionInv, TypeOK
    <2>2. CASE t # s
      <3>1. copy'[t] = copy[t]
        BY <1>3, <2>2 DEF VersionInv, TypeOK
      <3> QED
        BY <1>2, <1>3, <3>1, OthersStayVersioned DEF VersionInv, RowVersioned
    <2> QED
      BY <2>1, <2>2
  <1> QED
    BY <1>2, <1>4, <1>5, <1>6 DEF VersionInv

\* The second half of a load keeps it too.
LEMMA LoadEventsInv ==
    ASSUME VersionInv, NEW s \in Sessions, LoadEvents(s)
    PROVE  VersionInv'
  <1> DEFINE c == copy[s]
  <1>1. /\ c \in Copies /\ c.run \in Runs /\ pc[s] # "asserted"
        /\ pc[s] \in {"loaded", "publishing", "failing"}
    BY DEF LoadEvents, VersionInv, TypeOK, SessionOK
  <1>2. /\ copy' = [copy EXCEPT ![s] = [c EXCEPT !.seq = seq[c.run]]]
        /\ UNCHANGED <<status, owner, lease, attempts, expired, seq, plan,
                       published, drafted, pc, straddled>>
    BY DEF LoadEvents, row
  <1>3. [c EXCEPT !.seq = seq[c.run]] \in Copies
    BY <1>1 DEF VersionInv, TypeOK, Copies
  <1>4. TypeOK'
    BY <1>2, <1>3 DEF VersionInv, TypeOK
  <1>5. SessionOK'
    BY <1>1, <1>2 DEF VersionInv, TypeOK, SessionOK, Loaded, Copies
  <1>6. LogOK'
    BY <1>2 DEF VersionInv, LogOK
  <1>7. VersionOK'
    BY <1>1, <1>2 DEF VersionInv, TypeOK, VersionOK, CopyIsRow, Copies
  <1> QED
    BY <1>4, <1>5, <1>6, <1>7 DEF VersionInv

\* A step that drops the copy of its session and versions the rows it writes.
LEMMA DropInv ==
    ASSUME VersionInv, TypeOK', LogOK', RowVersioned, NEW s \in Sessions,
           copy'[s].seq = 0, copy'[s].rowSeq = 0, pc'[s] # "asserted",
           pc'[s] \notin {"idle", "dead"} => copy'[s].run \in Runs,
           \A t \in Sessions \ {s} : pc'[t] = pc[t] /\ copy'[t] = copy[t]
    PROVE  VersionInv'
  <1>1. SessionOK'
    BY DEF VersionInv, SessionOK, Loaded
  <1>2. VersionOK'
    <2> SUFFICES ASSUME NEW t \in Sessions, copy'[t].run \in Runs
                 PROVE  /\ copy'[t].rowSeq <= seq'[copy'[t].run]
                        /\ copy'[t].seq <= seq'[copy'[t].run]
                        /\ copy'[t].rowSeq # 0 /\ copy'[t].rowSeq = seq'[copy'[t].run]
                              => CopyIsRow(copy[t])'
      BY DEF VersionOK
    <2>1. CASE t = s
      <3>1. copy'[t].rowSeq = 0 /\ copy'[t].seq = 0 /\ seq'[copy'[t].run] \in Nat
        BY <2>1 DEF TypeOK
      <3> QED
        BY <3>1
    <2>2. CASE t # s
      BY <2>2, OthersStayVersioned DEF VersionInv
    <2> QED
      BY <2>1, <2>2
  <1> QED
    BY <1>1, <1>2 DEF VersionInv

\* Leaving the database alone and dropping the copy.
LEMMA StayInv ==
    ASSUME VersionInv, NEW s \in Sessions, NEW stage \in WorkerStages \ {"asserted"},
           \/ Keep(s, stage) /\ copy[s].run \in Runs
           \/ Leave(s, stage) /\ stage \in {"idle", "dead"},
           UNCHANGED <<row, expired, seq, plan, published, straddled>>,
           drafted' \in [Runs -> BOOLEAN]
    PROVE  VersionInv'
  <1>1. TypeOK' /\ LogOK' /\ RowVersioned
    BY DropCopy DEF VersionInv, TypeOK, LogOK, RowVersioned, row
  <1> QED
    BY <1>1, DropCopy, DropInv

\* Committing a row and dropping the copy.
LEMMA CommitInv ==
    ASSUME VersionInv, NEW s \in Sessions, copy[s].run \in Runs, Loaded(s),
           NEW st \in Statuses, st = "absent" => copy[s].status = "absent",
           NEW ow \in Workers \cup {NoWorker}, NEW le \in Nat, CommitRow(s, st, ow, le),
           NEW stage \in WorkerStages \ {"asserted"},
           \/ Keep(s, stage) /\ copy[s].run \in Runs
           \/ Leave(s, stage) /\ stage \in {"idle", "dead"},
           UNCHANGED <<plan, drafted>>, published' \in [Runs -> Nat]
    PROVE  VersionInv'
  <1>1. TypeOK'
    BY DropCopy, CommitRowFacts DEF VersionInv, TypeOK
  <1>2. RowVersioned
    BY CommitRowFacts DEF VersionInv, TypeOK, RowVersioned
  <1>3. status'[copy[s].run] # "absent"
    <2>1. seq[copy[s].run] # 0
      BY DEF Loaded, CommitRow, Current
    <2>2. status[copy[s].run] # "absent"
      BY <2>1 DEF VersionInv, LogOK
    <2>3. status' = [status EXCEPT ![copy[s].run] =
                        IF st = copy[s].status THEN @ ELSE st]
      BY DEF CommitRow, Written
    <2> QED
      BY <2>2, <2>3 DEF VersionInv, TypeOK
  <1>4. LogOK'
    BY <1>3, CommitRowFacts DEF VersionInv, TypeOK, LogOK
  <1> QED
    BY <1>1, <1>2, <1>4, DropCopy, DropInv

-----------------------------------------------------------------------------
(* VersionInv is inductive.                                                *)

\* With no runs and idle sessions, VersionInv holds.
LEMMA VersionInit == Init => VersionInv
  BY NoCopyType DEF Init, PlanStates, VersionInv, TypeOK, SessionOK, LogOK, VersionOK, Loaded,
                    NoCopy, Sessions, Statuses, WorkerStages

\* New runs, passing time and plan reviews keep VersionInv.
LEMMA VersionEnvironment ==
    ASSUME VersionInv, NEW r \in Runs, Create(r) \/ Expire(r) \/ ReviewPlan(r)
    PROVE  VersionInv'
  <1>1. TypeOK'
    <2>1. CASE Create(r)
      BY <2>1 DEF VersionInv, TypeOK, Create, Statuses
    <2>2. CASE ReviewPlan(r)
      BY <2>2 DEF VersionInv, TypeOK, ReviewPlan, RevisePlan, SuspendPlan, ReapprovePlan,
                  PlanStates, row
    <2>3. CASE Expire(r)
      BY <2>3 DEF VersionInv, TypeOK, Expire, row
    <2> QED
      BY <2>1, <2>2, <2>3
  <1>2. SessionOK'
    BY DEF VersionInv, SessionOK, Loaded, Create, Expire, ReviewPlan,
           RevisePlan, SuspendPlan, ReapprovePlan
  <1>3. LogOK'
    BY DEF VersionInv, TypeOK, LogOK, Create, Expire, ReviewPlan,
           RevisePlan, SuspendPlan, ReapprovePlan, row
  <1>4. RowVersioned
    BY DEF VersionInv, TypeOK, LogOK, RowVersioned, Create, Expire, ReviewPlan,
           RevisePlan, SuspendPlan, ReapprovePlan, row
  <1>5. copy' = copy
    BY DEF Create, Expire, ReviewPlan,
           RevisePlan, SuspendPlan, ReapprovePlan
  <1>6. VersionOK'
    BY <1>1, <1>4, <1>5, OthersStayVersioned DEF VersionInv, VersionOK
  <1> QED
    BY <1>1, <1>2, <1>3, <1>6 DEF VersionInv

\* So does every step of a request, ...
LEMMA VersionRequest ==
    ASSUME VersionInv, NEW o \in Operators, Request(o)
    PROVE  VersionInv'
  <1> DEFINE c == copy[o]
  <1>1. o \in Sessions /\ "idle" \in WorkerStages \ {"asserted"}
    BY DEF Sessions, WorkerStages
  <1>2. /\ c.status \in Statuses /\ c.owner \in Workers \cup {NoWorker}
        /\ c.lease \in Nat /\ c.run \in Runs \cup {0}
    BY <1>1 DEF VersionInv, TypeOK, Copies
  <1>3. Handling(o) => c.run \in Runs /\ Loaded(o)
    BY <1>1 DEF VersionInv, SessionOK, Handling
  <1>4. ASSUME NEW r \in Runs, OpenRun(o, r) PROVE VersionInv'
    BY <1>1, <1>4, LoadRowInv DEF OpenRun
  <1>5. CASE LoadEvents(o)
    BY <1>1, <1>5, LoadEventsInv
  <1>6. CASE Start(o) \/ Pause(o) \/ Cancel(o)
    <2>1. PICK st \in {"running", "paused", "cancelled"} : CommitRow(o, st, NoWorker, 0)
      BY <1>6 DEF Start, Pause, Cancel
    <2>2. /\ Handling(o) /\ Leave(o, "idle") /\ UNCHANGED <<plan, drafted>>
          /\ published' \in [Runs -> Nat]
      BY <1>6 DEF Start, Pause, Cancel, VersionInv, TypeOK
    <2>3. st \in Statuses /\ st # "absent"
      BY <2>1 DEF Statuses
    <2> QED
      BY <1>1, <1>3, <2>1, <2>2, <2>3, CommitInv
  <1>7. CASE Checkpoint(o) \/ PolicyViolation(o)
    <2>1. /\ Handling(o) /\ CommitRow(o, c.status, c.owner, c.lease)
          /\ Leave(o, "idle") /\ UNCHANGED <<plan, drafted>>
          /\ published' \in [Runs -> Nat]
      BY <1>7 DEF Checkpoint, PolicyViolation, CommitEvent, VersionInv, TypeOK
    <2> QED
      BY <1>1, <1>2, <1>3, <2>1, CommitInv
  <1>8. CASE CreateChangeSet(o)
    <2>1. drafted' \in [Runs -> BOOLEAN]
      BY <1>8 DEF CreateChangeSet, VersionInv, TypeOK
    <2> QED
      BY <1>1, <1>8, <2>1, StayInv DEF CreateChangeSet
  <1>9. CASE Refuse(o)
    BY <1>1, <1>9, StayInv DEF Refuse, VersionInv, TypeOK
  <1> QED
    BY <1>4, <1>5, <1>6, <1>7, <1>8, <1>9 DEF Request

\* ... the claim, which writes the locked row, ...
LEMMA VersionClaim ==
    ASSUME VersionInv, NEW w \in Workers, NEW r \in Runs, Claim(w, r)
    PROVE  VersionInv'
  <1>1. w \in Sessions /\ [NoCopy EXCEPT !.run = r] \in Copies
    BY NoCopyType DEF Sessions
  <1>2. TypeOK'
    BY <1>1 DEF Claim, VersionInv, TypeOK, Statuses, WorkerStages
  <1>3. LogOK' /\ RowVersioned
    BY DEF Claim, Claimable, VersionInv, TypeOK, LogOK, RowVersioned
  <1>4. /\ copy'[w].seq = 0 /\ copy'[w].rowSeq = 0 /\ copy'[w].run = r
        /\ pc'[w] = "claimed"
        /\ \A t \in Sessions \ {w} : pc'[t] = pc[t] /\ copy'[t] = copy[t]
    BY <1>1 DEF Claim, VersionInv, TypeOK, NoCopy
  <1> QED
    BY <1>1, <1>2, <1>3, <1>4, DropInv

\* ... every other step of a worker, ...
LEMMA VersionWork ==
    ASSUME VersionInv, NEW w \in Workers, Work(w)
    PROVE  VersionInv'
  <1> DEFINE c == copy[w]
  <1>1. w \in Sessions
    BY DEF Sessions
  <1>2. /\ c.status \in Statuses /\ c.owner \in Workers \cup {NoWorker}
        /\ c.lease \in Nat
    BY <1>1 DEF VersionInv, TypeOK, Copies
  <1>3. pc[w] \notin {"idle", "dead"} => c.run \in Runs
    BY <1>1 DEF VersionInv, SessionOK
  <1>4. ASSUME NEW r \in Runs, Claim(w, r) PROVE VersionInv'
    BY <1>4, VersionClaim
  <1>5. CASE LoadEvents(w)
    BY <1>1, <1>5, LoadEventsInv
  <1>6. CASE Begin(w) \/ Execute(w) \/ Abandon(w) \/ Flush(w) \/ PublishConflict(w)
             \/ Audit(w) \/ GiveUp(w)
    <2>1. /\ Stay /\ c.run \in Runs
          /\ \/ \E stage \in {"executing", "fault", "produced", "flushed"} : Keep(w, stage)
             \/ Leave(w, "idle")
      BY <1>3, <1>6 DEF Begin, Execute, Abandon, Flush, PublishConflict, Audit, GiveUp
    <2> QED
      BY <1>1, <2>1, StayInv DEF Stay, WorkerStages, VersionInv, TypeOK
  <1>7. CASE Reload(w) \/ Recover(w)
    BY <1>1, <1>3, <1>7, LoadRowInv DEF Reload, Recover
  <1>8. CASE AssertLease(w)
    <2>1. CASE HoldsLease(w, c.run, c.status, c.owner, c.lease)
      <3>1. /\ pc' = [pc EXCEPT ![w] = "asserted"]
            /\ UNCHANGED <<copy, row, expired, seq, plan, published, drafted, straddled>>
            /\ Loaded(w) /\ c.status = "running" /\ c.owner = w /\ pc[w] = "publishing"
        BY <1>8, <2>1 DEF AssertLease, HoldsLease, Stay
      <3>2. TypeOK' /\ LogOK' /\ VersionOK'
        BY <3>1 DEF VersionInv, TypeOK, LogOK, VersionOK, CopyIsRow, row, WorkerStages
      <3>3. SessionOK'
        BY <1>1, <1>3, <3>1 DEF VersionInv, TypeOK, SessionOK, Loaded
      <3> QED
        BY <3>2, <3>3 DEF VersionInv
    <2>2. CASE ~HoldsLease(w, c.run, c.status, c.owner, c.lease)
      BY <1>1, <1>3, <1>8, <2>2, StayInv
      DEF AssertLease, Stay, WorkerStages, VersionInv, TypeOK
    <2> QED
      BY <2>1, <2>2
  <1>9. CASE Publish(w)
    <2>1. Loaded(w) /\ c.run \in Runs
      BY <1>1, <1>9 DEF Publish, VersionInv, SessionOK
    <2>2. published' \in [Runs -> Nat]
      <3>1. published \in [Runs -> Nat]
        BY DEF VersionInv, TypeOK
      <3>2. published' = [published EXCEPT ![c.run] = published[c.run] + 1]
        BY <1>9 DEF Publish
      <3>3. \A q \in Runs : published[q] \in Nat /\ published[q] + 1 \in Nat
        BY <3>1
      <3> QED
        BY <2>1, <3>1, <3>2, <3>3
    <2>3. "completed" \in Statuses /\ "auditing" \in WorkerStages \ {"asserted"}
      BY DEF Statuses, WorkerStages
    <2>4. /\ CommitRow(w, "completed", c.owner, 0) /\ Keep(w, "auditing")
          /\ UNCHANGED <<plan, drafted>>
      BY <1>9 DEF Publish
    <2> QED
      BY <1>1, <1>2, <2>1, <2>2, <2>3, <2>4, CommitInv
  <1>10. CASE Fail(w)
    <2>1. Loaded(w) /\ c.run \in Runs /\ "failed" \in Statuses
      BY <1>3, <1>10 DEF Fail, Statuses
    <2> QED
      BY <1>1, <1>2, <1>10, <2>1, CommitInv DEF Fail, WorkerStages, VersionInv, TypeOK
  <1> QED
    BY <1>4, <1>5, <1>6, <1>7, <1>8, <1>9, <1>10 DEF Work

\* ... and the death of a worker.
LEMMA VersionCrash ==
    ASSUME VersionInv, NEW w \in Crashable, Crash(w)
    PROVE  VersionInv'
  <1>1. w \in Sessions
    BY DEF Sessions
  <1> QED
    BY <1>1, StayInv DEF Crash, Stay, WorkerStages, VersionInv, TypeOK

\* VersionInv is inductive.
LEMMA VersionStep == VersionInv /\ [Next]_vars => VersionInv'
  <1> SUFFICES ASSUME VersionInv, [Next]_vars PROVE VersionInv'
    OBVIOUS
  <1>1. CASE Next
    BY <1>1, VersionEnvironment, VersionRequest, VersionWork, VersionCrash DEF Next
  <1>2. CASE UNCHANGED vars
    BY <1>2 DEF vars, row, VersionInv, TypeOK, SessionOK, LogOK, VersionOK, Loaded, CopyIsRow
  <1> QED
    BY <1>1, <1>2

\* Under every interleaving the state keeps its types, sessions hold copies
\* only where the code does, and event numbers version the run rows.
THEOREM VersionInvariant == Spec => []VersionInv
  BY VersionInit, VersionStep, PTL DEF Spec

\* Type correctness of AgentRun (models.py AgentRun, AgentRunEvent).
THEOREM TypeCorrect == Spec => []TypeOK
  <1>1. VersionInv => TypeOK
    BY DEF VersionInv
  <1> QED
    BY VersionInvariant, <1>1, PTL

\* UNIQUE (run_id, sequence) makes every commit of a session whose load no
\* commit straddled decide on the row it overwrites, or be refused.
THEOREM OptimisticLocking == Spec => []OptimisticLock
  <1>1. VersionInv => OptimisticLock
    <2> SUFFICES ASSUME VersionInv, NEW s \in Sessions, Loaded(s), Current(s),
                        copy[s].rowSeq = copy[s].seq
                 PROVE  CopyIsRow(copy[s])
      BY DEF OptimisticLock
    <2>1. copy[s].run \in Runs
      BY DEF VersionInv, SessionOK
    <2> QED
      BY <2>1 DEF VersionInv, VersionOK, Loaded, Current
  <1> QED
    BY VersionInvariant, <1>1, PTL

-----------------------------------------------------------------------------
(* Until a load is straddled.                                              *)

\* Only a run that was claimed and not stopped since names a worker.
OwnerDiscipline ==
    \A r \in Whole : owner[r] # NoWorker => status[r] \in {"running", "completed", "failed"}

\* A run is completed by the commit that publishes its change set.
CompletedPublished == \A r \in Whole : status[r] = "completed" => published[r] > 0

StrictInv == /\ VersionInv
             /\ LeaseDiscipline /\ OwnerDiscipline
             /\ OneChangeSet /\ PublishedRunEnded /\ CompletedPublished

\* The steps of the run table, without the sessions that take them.
Created(r) ==
    /\ status[r] = "absent"
    /\ status' = [status EXCEPT ![r] = "queued"]
    /\ UNCHANGED <<owner, lease, attempts, published, straddled>>

Ordered(r, from, to) ==
    /\ status[r] \in from
    /\ status' = [status EXCEPT ![r] = to]
    /\ owner' = [owner EXCEPT ![r] = NoWorker]
    /\ lease' = [lease EXCEPT ![r] = 0]
    /\ UNCHANGED <<attempts, published, straddled>>

Claimed(r, w) ==
    /\ status[r] \in {"queued", "running"}
    /\ status' = [status EXCEPT ![r] = "running"]
    /\ owner' = [owner EXCEPT ![r] = w]
    /\ lease' = [lease EXCEPT ![r] = attempts[r] + 1]
    /\ attempts' = [attempts EXCEPT ![r] = attempts[r] + 1]
    /\ UNCHANGED <<published, straddled>>

Completed(r) ==
    /\ status[r] = "running"
    /\ status' = [status EXCEPT ![r] = "completed"]
    /\ lease' = [lease EXCEPT ![r] = 0]
    /\ published' = [published EXCEPT ![r] = published[r] + 1]
    /\ UNCHANGED <<owner, attempts, straddled>>

Failed(r) ==
    /\ status[r] \in {"running", "completed", "failed"}
    /\ status' = [status EXCEPT ![r] = "failed"]
    /\ lease' = [lease EXCEPT ![r] = 0]
    /\ UNCHANGED <<owner, attempts, published, straddled>>

\* A session commits to a run to which, then or earlier, one has committed
\* whose load was straddled: whatever becomes of that run, no other changes.
Lost(r) ==
    /\ status[r] # "absent"
    /\ straddled' = straddled \cup {r}
    /\ \A q \in Runs \ {r} :
          /\ status'[q] = status[q] /\ owner'[q] = owner[q] /\ lease'[q] = lease[q]
          /\ attempts'[q] = attempts[q] /\ published'[q] = published[q]

RunStep ==
    \/ UNCHANGED <<status, owner, lease, attempts, published, straddled>>
    \/ \E r \in Runs :
          \/ Created(r)
          \/ Ordered(r, {"queued", "paused"}, "running")
          \/ Ordered(r, {"running"}, "paused")
          \/ Ordered(r, {"queued", "running", "paused"}, "cancelled")
          \/ \E w \in Workers : Claimed(r, w)
          \/ Completed(r) \/ Failed(r) \/ Lost(r)

\* A commit that is not refused overwrites the row it was decided on, or its
\* run is straddled from then on.
LEMMA CommitFreshOrLost ==
    ASSUME StrictInv, NEW s \in Sessions, Loaded(s),
           NEW st \in Statuses, NEW ow \in Workers \cup {NoWorker}, NEW le \in Nat,
           CommitRow(s, st, ow, le),
           \A q \in Runs \ {copy[s].run} : published'[q] = published[q]
    PROVE  /\ copy[s].run \in Runs /\ status[copy[s].run] # "absent"
           /\ \/ Lost(copy[s].run)
              \/ /\ copy[s].run \in Whole /\ straddled' = straddled
                 /\ CopyIsRow(copy[s])
  <1> DEFINE c == copy[s]
  <1>1. TypeOK /\ c.run \in Runs /\ c.seq = seq[c.run] /\ c.seq # 0
    BY DEF StrictInv, VersionInv, SessionOK, Loaded, CommitRow, Current
  <1>2. status[c.run] # "absent"
    BY <1>1 DEF StrictInv, VersionInv, LogOK
  <1>3. straddled' = IF c.rowSeq = c.seq THEN straddled ELSE straddled \cup {c.run}
    BY DEF CommitRow, Straddling
  <1>4. CASE c.rowSeq = c.seq /\ c.run \notin straddled
    <2>1. c.rowSeq # 0 /\ c.rowSeq = seq[c.run]
      BY <1>1, <1>4
    <2>2. CopyIsRow(c)
      BY <1>1, <2>1 DEF StrictInv, VersionInv, VersionOK
    <2> QED
      BY <1>1, <1>2, <1>3, <1>4, <2>2 DEF Whole
  <1>5. CASE ~(c.rowSeq = c.seq /\ c.run \notin straddled)
    <2>1. straddled' = straddled \cup {c.run}
      BY <1>3, <1>5
    <2>2. /\ attempts' = attempts
          /\ \A q \in Runs \ {c.run} :
                /\ status'[q] = status[q] /\ owner'[q] = owner[q] /\ lease'[q] = lease[q]
      BY <1>1, CommitRowFacts
    <2> QED
      BY <1>1, <1>2, <2>1, <2>2 DEF Lost
  <1> QED
    BY <1>4, <1>5

\* Writing the value that is there changes nothing.
LEMMA SameValue == ASSUME NEW S, NEW T, NEW f \in [S -> T], NEW x \in S
                   PROVE  [f EXCEPT ![x] = f[x]] = f
  OBVIOUS

\* Committing an event only changes no column.
LEMMA EventOnly ==
    ASSUME TypeOK, NEW s \in Sessions,
           CommitRow(s, copy[s].status, copy[s].owner, copy[s].lease)
    PROVE  UNCHANGED <<status, owner, lease, attempts>>
  BY DEF TypeOK, CommitRow, Written

\* What requests do to the run table.
LEMMA RequestSteps ==
    ASSUME StrictInv, NEW o \in Operators, Request(o)
    PROVE  RunStep
  <1> DEFINE c == copy[o]
  <1>1. o \in Sessions /\ TypeOK
    BY DEF Sessions, StrictInv, VersionInv
  <1>2. c.status \in Statuses /\ c.owner \in Workers \cup {NoWorker} /\ c.lease \in Nat
    BY <1>1 DEF TypeOK, Copies
  <1>3. ASSUME NEW st \in Statuses, CommitRow(o, st, NoWorker, 0), Handling(o),
               UNCHANGED published
        PROVE  /\ c.run \in Runs /\ status[c.run] # "absent"
               /\ \/ Lost(c.run)
                  \/ /\ c.status = status[c.run]
                     /\ status' = [status EXCEPT ![c.run] = st]
                     /\ owner' = [owner EXCEPT ![c.run] = NoWorker]
                     /\ lease' = [lease EXCEPT ![c.run] = 0]
                     /\ UNCHANGED <<attempts, published, straddled>>
    <2>1. /\ c.run \in Runs /\ status[c.run] # "absent"
          /\ Lost(c.run) \/ (straddled' = straddled /\ CopyIsRow(c))
      BY <1>1, <1>3, CommitFreshOrLost DEF Handling
    <2>2. CASE straddled' = straddled /\ CopyIsRow(c)
      BY <1>1, <1>3, <2>1, <2>2, CommitFreshFacts DEF CopyIsRow
    <2> QED
      BY <2>1, <2>2
  <1>4. CASE Start(o)
    BY <1>3, <1>4 DEF Start, RunStep, Ordered, Statuses
  <1>5. CASE Pause(o)
    BY <1>3, <1>5 DEF Pause, RunStep, Ordered, Statuses
  <1>6. CASE Cancel(o)
    <2>1. /\ c.run \in Runs /\ status[c.run] # "absent"
          /\ \/ Lost(c.run)
             \/ /\ c.status = status[c.run]
                /\ status' = [status EXCEPT ![c.run] = "cancelled"]
                /\ owner' = [owner EXCEPT ![c.run] = NoWorker]
                /\ lease' = [lease EXCEPT ![c.run] = 0]
                /\ UNCHANGED <<attempts, published, straddled>>
      BY <1>3, <1>6 DEF Cancel, Statuses
    <2>2. CASE c.status = status[c.run]
      <3>1. status[c.run] \in Statuses
        BY <1>1, <2>1 DEF TypeOK
      <3>2. status[c.run] \in {"queued", "running", "paused"}
        BY <1>6, <2>1, <2>2, <3>1 DEF Cancel, Statuses
      <3> QED
        BY <2>1, <3>2 DEF RunStep, Ordered
    <2> QED
      BY <2>1, <2>2 DEF RunStep
  <1>7. CASE Checkpoint(o) \/ PolicyViolation(o)
    <2>1. CommitRow(o, c.status, c.owner, c.lease) /\ UNCHANGED published /\ Loaded(o)
      BY <1>7 DEF Checkpoint, PolicyViolation, CommitEvent, Handling
    <2>2. UNCHANGED <<status, owner, lease, attempts>>
      BY <1>1, <2>1, EventOnly
    <2>3. c.run \in Runs /\ (Lost(c.run) \/ straddled' = straddled)
      BY <1>1, <1>2, <2>1, CommitFreshOrLost
    <2> QED
      BY <2>1, <2>2, <2>3 DEF RunStep
  <1>8. ASSUME \/ \E r \in Runs : OpenRun(o, r)
               \/ LoadEvents(o) \/ CreateChangeSet(o) \/ Refuse(o)
        PROVE RunStep
    BY <1>8 DEF OpenRun, LoadRow, LoadEvents, CreateChangeSet, Refuse, RunStep, row
  <1> QED
    BY <1>4, <1>5, <1>6, <1>7, <1>8 DEF Request

\* What workers do to the run table.
LEMMA WorkSteps ==
    ASSUME StrictInv, NEW w \in Workers, Work(w)
    PROVE  RunStep
  <1> DEFINE c == copy[w]
  <1>1. w \in Sessions /\ TypeOK
    BY DEF Sessions, StrictInv, VersionInv
  <1>2. c.owner \in Workers \cup {NoWorker} /\ {"completed", "failed"} \subseteq Statuses
    BY <1>1 DEF TypeOK, Copies, Statuses
  <1>3. ASSUME NEW r \in Runs, Claim(w, r) PROVE RunStep
    BY <1>3 DEF Claim, Claimable, RunStep, Claimed
  <1>4. CASE Publish(w)
    <2>1. /\ Loaded(w) /\ Current(w) /\ c.status = "running" /\ c.owner = w
          /\ CommitRow(w, "completed", c.owner, 0)
          /\ published' = [published EXCEPT ![c.run] = published[c.run] + 1]
      BY <1>1, <1>4 DEF Publish, StrictInv, VersionInv, SessionOK, CommitRow
    <2>2. \A q \in Runs \ {c.run} : published'[q] = published[q]
      BY <1>1, <2>1 DEF TypeOK
    <2>3. /\ c.run \in Runs
          /\ Lost(c.run) \/ (straddled' = straddled /\ CopyIsRow(c))
      BY <1>1, <1>2, <2>1, <2>2, CommitFreshOrLost
    <2>4. CASE straddled' = straddled /\ CopyIsRow(c)
      <3>1. /\ status' = [status EXCEPT ![c.run] = "completed"]
            /\ owner' = [owner EXCEPT ![c.run] = c.owner]
            /\ lease' = [lease EXCEPT ![c.run] = 0]
            /\ attempts' = attempts
        BY <1>1, <2>1, <2>3, <2>4, CommitFreshFacts
      <3>2. owner' = owner
        BY <1>1, <2>3, <2>4, <3>1, SameValue DEF CopyIsRow, TypeOK
      <3>3. status[c.run] = "running"
        BY <2>1, <2>4 DEF CopyIsRow
      <3> QED
        BY <2>1, <2>3, <2>4, <3>1, <3>2, <3>3 DEF RunStep, Completed
    <2> QED
      BY <2>3, <2>4 DEF RunStep
  <1>5. CASE Fail(w)
    <2>1. /\ Loaded(w) /\ Current(w) /\ MayFail(w)
          /\ CommitRow(w, "failed", c.owner, 0) /\ UNCHANGED published
      BY <1>5 DEF Fail, CommitRow
    <2>2. /\ c.run \in Runs
          /\ \/ Lost(c.run)
             \/ c.run \in Whole /\ straddled' = straddled /\ CopyIsRow(c)
      BY <1>1, <1>2, <2>1, CommitFreshOrLost
    <2>3. CASE c.run \in Whole /\ straddled' = straddled /\ CopyIsRow(c)
      <3>1. /\ status' = [status EXCEPT ![c.run] = "failed"]
            /\ owner' = [owner EXCEPT ![c.run] = c.owner]
            /\ lease' = [lease EXCEPT ![c.run] = 0]
            /\ attempts' = attempts
        BY <1>1, <2>1, <2>2, <2>3, CommitFreshFacts
      <3>2. owner' = owner
        BY <1>1, <2>2, <2>3, <3>1, SameValue DEF CopyIsRow, TypeOK
      <3>3. owner[c.run] # NoWorker
        BY <2>1, <2>3 DEF MayFail, CopyIsRow
      <3>4. status[c.run] \in {"running", "completed", "failed"}
        BY <2>3, <3>3 DEF StrictInv, OwnerDiscipline
      <3> QED
        BY <2>1, <2>2, <2>3, <3>1, <3>2, <3>4 DEF RunStep, Failed
    <2> QED
      BY <2>2, <2>3 DEF RunStep
  <1>6. ASSUME \/ LoadEvents(w) \/ Begin(w) \/ Execute(w) \/ Abandon(w) \/ Flush(w)
               \/ Reload(w) \/ AssertLease(w) \/ PublishConflict(w) \/ Audit(w)
               \/ Recover(w) \/ GiveUp(w)
        PROVE RunStep
    BY <1>6 DEF LoadEvents, Begin, Execute, Abandon, Flush, Reload, AssertLease,
                PublishConflict, Audit, Recover, GiveUp, LoadRow, Stay, RunStep, row
  <1> QED
    BY <1>3, <1>4, <1>5, <1>6 DEF Work

\* Every step of the system is one of the table steps above.
LEMMA StepIsRunStep ==
    ASSUME StrictInv, [Next]_vars
    PROVE  RunStep
  <1>1. ASSUME NEW r \in Runs, Create(r) \/ Expire(r) \/ ReviewPlan(r)
        PROVE RunStep
    BY <1>1 DEF Create, Expire, ReviewPlan,
           RevisePlan, SuspendPlan, ReapprovePlan, RunStep, Created, row
  <1>2. ASSUME NEW w \in Crashable, Crash(w) PROVE RunStep
    BY <1>2 DEF Crash, Stay, RunStep, row
  <1>3. CASE UNCHANGED vars
    BY <1>3 DEF vars, row, RunStep
  <1> QED
    BY <1>1, <1>2, <1>3, RequestSteps, WorkSteps DEF Next

\* The table steps keep what is said of the run table.
LEMMA RunStepInv ==
    ASSUME StrictInv, TypeOK', RunStep
    PROVE  /\ LeaseDiscipline' /\ OwnerDiscipline' /\ OneChangeSet'
           /\ PublishedRunEnded' /\ CompletedPublished'
  <1> SUFFICES ASSUME NEW r \in Runs, r \notin straddled'
               PROVE  /\ lease'[r] # 0 => /\ status'[r] = "running" /\ owner'[r] \in Workers
                                         /\ lease'[r] = attempts'[r]
                      /\ owner'[r] # NoWorker
                            => status'[r] \in {"running", "completed", "failed"}
                      /\ published'[r] <= 1
                      /\ published'[r] > 0 => status'[r] \in {"completed", "failed"}
                      /\ status'[r] = "completed" => published'[r] > 0
    BY DEF LeaseDiscipline, OwnerDiscipline, OneChangeSet, PublishedRunEnded,
           CompletedPublished, Whole
  <1>0. straddled \subseteq straddled'
    BY DEF RunStep, Created, Ordered, Claimed, Completed, Failed, Lost
  <1>1. /\ lease[r] # 0 => /\ status[r] = "running" /\ owner[r] \in Workers
                           /\ lease[r] = attempts[r]
        /\ owner[r] # NoWorker => status[r] \in {"running", "completed", "failed"}
        /\ published[r] <= 1 /\ published[r] \in Nat
        /\ published[r] > 0 => status[r] \in {"completed", "failed"}
        /\ status[r] = "completed" => published[r] > 0
    BY <1>0 DEF StrictInv, LeaseDiscipline, OwnerDiscipline, OneChangeSet, PublishedRunEnded,
           CompletedPublished, Whole, VersionInv, TypeOK
  <1>2. TypeOK
    BY DEF StrictInv, VersionInv
  <1>3. CASE UNCHANGED <<status, owner, lease, attempts, published>>
    BY <1>1, <1>3
  <1>4. ASSUME NEW q \in Runs, Created(q)
        PROVE  /\ status'[r] = IF r = q THEN "queued" ELSE status[r]
               /\ r = q => lease[r] = 0 /\ owner[r] = NoWorker /\ published[r] = 0
               /\ UNCHANGED <<owner, lease, attempts, published>>
    BY <1>1, <1>2, <1>4 DEF Created, TypeOK
  <1>5. ASSUME NEW q \in Runs, NEW from, NEW to, Ordered(q, from, to),
               from \subseteq {"queued", "running", "paused"}
        PROVE  /\ status'[r] = IF r = q THEN to ELSE status[r]
               /\ r # q => owner'[r] = owner[r] /\ lease'[r] = lease[r]
               /\ r = q => lease'[r] = 0 /\ owner'[r] = NoWorker /\ published[r] = 0
               /\ UNCHANGED <<attempts, published>>
    BY <1>1, <1>2, <1>5 DEF Ordered, TypeOK
  <1>6. ASSUME NEW q \in Runs, NEW w \in Workers, Claimed(q, w)
        PROVE  /\ r # q => /\ status'[r] = status[r] /\ owner'[r] = owner[r]
                           /\ lease'[r] = lease[r] /\ attempts'[r] = attempts[r]
               /\ r = q => /\ lease'[r] = attempts'[r] /\ owner'[r] = w
                           /\ status'[r] = "running" /\ published[r] = 0
               /\ UNCHANGED published
    BY <1>1, <1>2, <1>6 DEF Claimed, TypeOK
  <1>7. ASSUME NEW q \in Runs, Completed(q)
        PROVE  /\ r # q => /\ status'[r] = status[r] /\ lease'[r] = lease[r]
                           /\ published'[r] = published[r]
               /\ r = q => /\ status'[r] = "completed" /\ lease'[r] = 0
                           /\ published'[r] = 1
               /\ UNCHANGED <<owner, attempts>>
    BY <1>1, <1>2, <1>7 DEF Completed, TypeOK
  <1>8. ASSUME NEW q \in Runs, Failed(q)
        PROVE  /\ r # q => status'[r] = status[r] /\ lease'[r] = lease[r]
               /\ r = q => status'[r] = "failed" /\ lease'[r] = 0
               /\ UNCHANGED <<owner, attempts, published>>
    BY <1>2, <1>8 DEF Failed, TypeOK
  <1>9. ASSUME NEW q \in Runs, Lost(q)
        PROVE  /\ status'[r] = status[r] /\ owner'[r] = owner[r] /\ lease'[r] = lease[r]
               /\ attempts'[r] = attempts[r] /\ published'[r] = published[r]
    BY <1>9 DEF Lost
  <1> QED
    BY <1>1, <1>3, <1>4, <1>5, <1>6, <1>7, <1>8, <1>9 DEF RunStep

\* The initial state satisfies StrictInv.
LEMMA StrictInit == Init => StrictInv
  BY VersionInit DEF Init, StrictInv, LeaseDiscipline, OwnerDiscipline, OneChangeSet,
                     PublishedRunEnded, CompletedPublished, Whole

\* StrictInv is inductive.
LEMMA StrictStep ==
    ASSUME StrictInv, [Next]_vars
    PROVE  StrictInv'
  <1>1. VersionInv'
    BY VersionStep DEF StrictInv
  <1>2. TypeOK'
    BY <1>1 DEF VersionInv
  <1> QED
    BY <1>1, <1>2, StepIsRunStep, RunStepInv DEF StrictInv

\* StrictInv holds throughout.
THEOREM StrictInvariant == Spec => []StrictInv
  <1>1. StrictInv /\ [Next]_vars => StrictInv'
    BY StrictStep
  <1> QED
    BY StrictInit, <1>1, PTL DEF Spec

\* At most one worker publishes a change set of a run, whatever takes over,
\* pauses, resumes and crashes, until a commit on the run follows a load that
\* another commit straddled (worker.py _execute).
THEOREM AtMostOneChangeSet == Spec => []OneChangeSet
  <1>1. StrictInv => OneChangeSet
    BY DEF StrictInv
  <1> QED
    BY StrictInvariant, <1>1, PTL

\* Leases belong to the last claim of a running run, until a load is straddled
\* (worker.py _claim and every handler that clears lease_expires_at).
THEOREM LeasesDisciplined == Spec => []LeaseDiscipline
  <1>1. StrictInv => LeaseDiscipline
    BY DEF StrictInv
  <1> QED
    BY StrictInvariant, <1>1, PTL

\* No worker and no other request changes a cancelled run, but for a commit
\* whose load the cancellation straddled.
THEOREM CancelIsFinal == Spec => CancelFinal
  <1>1. StrictInv /\ [Next]_vars =>
          [\A r \in Whole' : status[r] = "cancelled"
               => UNCHANGED <<status[r], owner[r], lease[r]>>]_vars
    <2> SUFFICES ASSUME StrictInv, [Next]_vars, NEW r \in Runs \ straddled',
                        status[r] = "cancelled"
                 PROVE  UNCHANGED <<status[r], owner[r], lease[r]>>
      BY DEF Whole
    <2>1. RunStep
      BY StepIsRunStep
    <2>2. TypeOK
      BY DEF StrictInv, VersionInv
    <2> QED
      BY <2>1, <2>2 DEF RunStep, Created, Ordered, Claimed, Completed, Failed, Lost, TypeOK
  <1> QED
    BY StrictInvariant, <1>1, PTL DEF Spec, CancelFinal

\* A published change set is never left with a run that goes on, until a load
\* is straddled (worker.py _execute commits both at once, and no request
\* restarts a completed run).
THEOREM PublishedRunsEnd == Spec => []PublishedRunEnded
  <1>1. StrictInv => PublishedRunEnded
    BY DEF StrictInv
  <1> QED
    BY StrictInvariant, <1>1, PTL

\* Only a request takes a run out of its pause (routes.py start, cancel), or a
\* commit whose load the pause straddled.
THEOREM PausesAreHonoured == Spec => PauseHonoured
  <1>1. StrictInv /\ [Next]_vars =>
          [\A r \in Whole' : status[r] = "paused" =>
              \/ status'[r] = "paused"
              \/ status'[r] \in {"running", "cancelled"} /\ owner'[r] = NoWorker]_vars
    <2> SUFFICES ASSUME StrictInv, [Next]_vars, NEW r \in Runs \ straddled',
                        status[r] = "paused"
                 PROVE  \/ status'[r] = "paused"
                        \/ status'[r] \in {"running", "cancelled"} /\ owner'[r] = NoWorker
      BY DEF Whole
    <2>1. RunStep
      BY StepIsRunStep
    <2>2. TypeOK
      BY DEF StrictInv, VersionInv
    <2> QED
      BY <2>1, <2>2 DEF RunStep, Created, Ordered, Claimed, Completed, Failed, Lost, TypeOK
  <1> QED
    BY StrictInvariant, <1>1, PTL DEF Spec, PauseHonoured

-----------------------------------------------------------------------------
(* The run table implements RunLifecycle.                                  *)

\* The phases of the runs, and what they have delivered.
Phases  == [r \in Runs |-> Phase(r)]
Outputs == [r \in Runs |-> Output(r)]

\* A step that leaves a run's row alone leaves its phase alone; a run that was
\* overwritten keeps that phase whatever is done to it.
LEMMA PhaseKept ==
    ASSUME NEW q \in Runs,
           \/ /\ status'[q] = status[q] /\ published'[q] = published[q]
              /\ q \in straddled' <=> q \in straddled
           \/ q \in straddled /\ q \in straddled'
    PROVE  Phases'[q] = Phases[q] /\ Outputs'[q] = Outputs[q]
  BY DEF Phases, Outputs, Phase, Output, Whole

\* A step on the row of one run moves at most its phase.
LEMMA PhaseMoves ==
    ASSUME NEW r \in Runs, straddled' = straddled,
           \A q \in Runs \ {r} : status'[q] = status[q] /\ published'[q] = published[q]
    PROVE  /\ r \in straddled => UNCHANGED <<Phases, Outputs>>
           /\ Phases' = [Phases EXCEPT ![r] = Phases'[r]]
           /\ Outputs' = [Outputs EXCEPT ![r] = Outputs'[r]]
  <1>1. \A q \in Runs \ {r} : Phases'[q] = Phases[q] /\ Outputs'[q] = Outputs[q]
    BY PhaseKept
  <1>2. r \in straddled => Phases'[r] = Phases[r] /\ Outputs'[r] = Outputs[r]
    BY PhaseKept
  <1>3. /\ Phases = [q \in Runs |-> Phases[q]] /\ Phases' = [q \in Runs |-> Phases'[q]]
        /\ Outputs = [q \in Runs |-> Outputs[q]] /\ Outputs' = [q \in Runs |-> Outputs'[q]]
    BY DEF Phases, Outputs
  <1> QED
    BY <1>1, <1>2, <1>3

\* A commit on a straddled run overwrites it.
LEMMA LostOverwrites ==
    ASSUME NEW r \in Runs, Lost(r)
    PROVE  Lifecycle!Overwrite(r)
  <1>1. \A q \in Runs \ {r} : Phases'[q] = Phases[q] /\ Outputs'[q] = Outputs[q]
    BY PhaseKept DEF Lost
  <1>2. Phases'[r] = "overwritten" /\ Outputs'[r] = 0 /\ Phases[r] # "absent"
    BY DEF Lost, Phases, Outputs, Phase, Output, Whole
  <1>3. /\ Phases = [q \in Runs |-> Phases[q]] /\ Phases' = [q \in Runs |-> Phases'[q]]
        /\ Outputs = [q \in Runs |-> Outputs[q]] /\ Outputs' = [q \in Runs |-> Outputs'[q]]
    BY DEF Phases, Outputs
  <1>4. /\ Phases' = [Phases EXCEPT ![r] = "overwritten"]
        /\ Outputs' = [Outputs EXCEPT ![r] = 0]
    BY <1>1, <1>2, <1>3
  <1> QED
    BY <1>2, <1>4 DEF Lifecycle!Overwrite, Phases, Outputs

\* Every other step on a row nobody has overwritten is a step of its life.
LEMMA RowStepsFollow ==
    ASSUME StrictInv, NEW r \in Runs, r \notin straddled, straddled' = straddled,
           \/ Created(r)
           \/ Ordered(r, {"queued", "paused"}, "running")
           \/ Ordered(r, {"running"}, "paused")
           \/ Ordered(r, {"queued", "running", "paused"}, "cancelled")
           \/ \E w \in Workers : Claimed(r, w)
           \/ Completed(r) \/ Failed(r)
    PROVE  Lifecycle!Next \/ UNCHANGED <<Phases, Outputs>>
  <1>0. /\ status \in [Runs -> Statuses] /\ published \in [Runs -> Nat]
        /\ published[r] > 0 => status[r] \in {"completed", "failed"}
        /\ status[r] = "completed" => published[r] > 0
    BY DEF StrictInv, VersionInv, TypeOK, PublishedRunEnded, CompletedPublished, Whole
  <1>1. \A q \in Runs \ {r} : status'[q] = status[q] /\ published'[q] = published[q]
    BY <1>0 DEF Created, Ordered, Claimed, Completed, Failed
  <1>2. /\ Phases' = [Phases EXCEPT ![r] = Phases'[r]]
        /\ Outputs' = [Outputs EXCEPT ![r] = Outputs'[r]]
    BY <1>1, PhaseMoves
  <1>3. /\ status[r] # "failed" => Phases[r] = status[r]
        /\ status[r] = "failed" => Phases[r] = IF published[r] > 0 THEN "completed"
                                                                   ELSE "failed"
        /\ Outputs[r] = published[r]
    BY DEF Phases, Outputs, Phase, Output, Whole
  <1>4. /\ status'[r] # "failed" => Phases'[r] = status'[r]
        /\ status'[r] = "failed" => Phases'[r] = IF published'[r] > 0 THEN "completed"
                                                                      ELSE "failed"
        /\ Outputs'[r] = published'[r]
    BY DEF Phases, Outputs, Phase, Output, Whole
  <1>5. [Phases EXCEPT ![r] = Phases[r]] = Phases /\ [Outputs EXCEPT ![r] = Outputs[r]] = Outputs
    BY DEF Phases, Outputs
  <1>6. UNCHANGED published => UNCHANGED Outputs
    BY <1>2, <1>3, <1>4, <1>5
  <1>7. CASE Created(r)
    <2>1. status'[r] = "queued" /\ UNCHANGED published
      BY <1>0, <1>7 DEF Created
    <2>2. Lifecycle!Create(r)
      BY <1>2, <1>3, <1>4, <1>6, <1>7, <2>1
      DEF Created, Lifecycle!Create, Lifecycle!Move, Phases, Outputs
    <2> QED
      BY <2>2 DEF Lifecycle!Next
  <1>8. ASSUME NEW from \in SUBSET {"queued", "running", "paused"}, NEW to \in Statuses,
               to # "failed", Ordered(r, from, to)
        PROVE  /\ Lifecycle!Move(r, from, to)
               /\ UNCHANGED Outputs
    <2>1. status'[r] = to /\ UNCHANGED published /\ status[r] \in from
      BY <1>0, <1>8 DEF Ordered
    <2>2. /\ Phases[r] \in from /\ Phases' = [Phases EXCEPT ![r] = to]
          /\ UNCHANGED Outputs
      BY <1>2, <1>3, <1>4, <1>6, <1>8, <2>1
    <2> QED
      BY <2>2 DEF Lifecycle!Move, Phases
  <1>9. CASE Ordered(r, {"queued", "paused"}, "running")
    <2>1. Lifecycle!Start(r)
      BY <1>8, <1>9 DEF Lifecycle!Start, Statuses, Outputs
    <2> QED
      BY <2>1 DEF Lifecycle!Next
  <1>10. CASE Ordered(r, {"running"}, "paused")
    <2>1. Lifecycle!Pause(r)
      BY <1>8, <1>10 DEF Lifecycle!Pause, Statuses, Outputs
    <2> QED
      BY <2>1 DEF Lifecycle!Next
  <1>11. CASE Ordered(r, {"queued", "running", "paused"}, "cancelled")
    <2>1. Lifecycle!Cancel(r)
      BY <1>8, <1>11 DEF Lifecycle!Cancel, Statuses, Outputs
    <2> QED
      BY <2>1 DEF Lifecycle!Next
  <1>12. ASSUME NEW w \in Workers, Claimed(r, w)
         PROVE  Lifecycle!Next \/ UNCHANGED <<Phases, Outputs>>
    <2>1. /\ status'[r] = "running" /\ UNCHANGED Outputs
          /\ status[r] \in {"queued", "running"}
      BY <1>0, <1>6, <1>12 DEF Claimed
    <2>2. CASE status[r] = "queued"
      <3>1. Lifecycle!Start(r)
        BY <1>2, <1>3, <1>4, <2>1, <2>2
        DEF Lifecycle!Start, Lifecycle!Move, Phases, Outputs
      <3> QED
        BY <3>1 DEF Lifecycle!Next
    <2>3. CASE status[r] = "running"
      BY <1>2, <1>3, <1>4, <1>5, <2>1, <2>3
    <2> QED
      BY <2>1, <2>2, <2>3
  <1>13. CASE Completed(r)
    <2>1. /\ status[r] = "running" /\ status'[r] = "completed"
          /\ published[r] = 0 /\ published'[r] = 1
      BY <1>0, <1>13 DEF Completed
    <2>2. Lifecycle!Complete(r)
      BY <1>2, <1>3, <1>4, <2>1
      DEF Lifecycle!Complete, Lifecycle!Move, Phases, Outputs
    <2> QED
      BY <2>2 DEF Lifecycle!Next
  <1>14. CASE Failed(r)
    <2>1. /\ status'[r] = "failed" /\ published'[r] = published[r] /\ UNCHANGED Outputs
          /\ status[r] \in {"running", "completed", "failed"}
      BY <1>0, <1>6, <1>14 DEF Failed
    <2>2. CASE status[r] = "running"
      <3>1. ~(published[r] > 0)
        BY <1>0, <2>2
      <3>2. Lifecycle!Fail(r)
        BY <1>2, <1>3, <1>4, <2>1, <2>2, <3>1
        DEF Lifecycle!Fail, Lifecycle!Move, Phases, Outputs
      <3> QED
        BY <3>2 DEF Lifecycle!Next
    <2>3. CASE status[r] # "running"
      BY <1>0, <1>2, <1>3, <1>4, <1>5, <2>1, <2>3
    <2> QED
      BY <2>2, <2>3
  <1> QED
    BY <1>7, <1>9, <1>10, <1>11, <1>12, <1>13, <1>14

\* The run table implements RunLifecycle: same phases, one delivery, and no
\* other way out of an end than a straddled load (audit failures apart, which
\* Phase names).
THEOREM RunsFollowLifecycle == Spec => ImplementsLifecycle
  <1>1. Init => Lifecycle!Init
    BY DEF Init, Lifecycle!Init, Phase, Output, Whole
  <1>2. StrictInv /\ [Next]_vars => [Lifecycle!Next]_<<Phases, Outputs>>
    <2> SUFFICES ASSUME StrictInv, [Next]_vars
                 PROVE  Lifecycle!Next \/ UNCHANGED <<Phases, Outputs>>
      OBVIOUS
    <2>1. RunStep
      BY StepIsRunStep
    <2>2. CASE UNCHANGED <<status, owner, lease, attempts, published, straddled>>
      BY <2>2 DEF Phases, Outputs, Phase, Output, Whole
    <2>3. ASSUME NEW r \in Runs, Lost(r) PROVE Lifecycle!Next
      BY <2>3, LostOverwrites DEF Lifecycle!Next
    <2>4. ASSUME NEW r \in Runs,
                 \/ Created(r)
                 \/ Ordered(r, {"queued", "paused"}, "running")
                 \/ Ordered(r, {"running"}, "paused")
                 \/ Ordered(r, {"queued", "running", "paused"}, "cancelled")
                 \/ \E w \in Workers : Claimed(r, w)
                 \/ Completed(r) \/ Failed(r)
          PROVE  Lifecycle!Next \/ UNCHANGED <<Phases, Outputs>>
      <3>1. straddled' = straddled
        BY <2>4 DEF Created, Ordered, Claimed, Completed, Failed
      <3>2. CASE r \in straddled
        <4>1. \A q \in Runs \ {r} : status'[q] = status[q] /\ published'[q] = published[q]
          BY <2>4 DEF Created, Ordered, Claimed, Completed, Failed,
                      StrictInv, VersionInv, TypeOK
        <4> QED
          BY <3>1, <3>2, <4>1, PhaseMoves
      <3>3. CASE r \notin straddled
        BY <2>4, <3>1, <3>3, RowStepsFollow
      <3> QED
        BY <3>2, <3>3
    <2> QED
      BY <2>1, <2>2, <2>3, <2>4 DEF RunStep
  <1>3. <<Phases, Outputs>> = <<[r \in Runs |-> Phase(r)], [r \in Runs |-> Output(r)]>>
    BY DEF Phases, Outputs
  <1> QED
    BY StrictInvariant, <1>1, <1>2, PTL
    DEF Spec, ImplementsLifecycle, Lifecycle!Spec, Phases, Outputs

=============================================================================
