------------------------------ MODULE AgentRun ------------------------------
(***************************************************************************)
(* The durable queue of agent runs: the worker processes that claim, run,  *)
(* publish and fail them (backend/app/planning/worker.py), and the API     *)
(* requests that create, start, pause, cancel and checkpoint them          *)
(* (backend/app/planning/routes.py).  All of them share one PostgreSQL     *)
(* database at READ COMMITTED and take no row lock except the claim.       *)
(*                                                                         *)
(* An ORM handler loads the run row and, in a second SELECT               *)
(* (lazy="selectin"), its events; decides on that copy; and commits an     *)
(* UPDATE of the columns it changed together with event number             *)
(* "last loaded + 1".  UNIQUE (run_id, sequence) aborts the whole commit   *)
(* when that number is taken, which makes the event log an optimistic      *)
(* lock on the row -- unless another commit lands between the two SELECTs  *)
(* of the load: then an old row goes with a new number, and the commit     *)
(* overwrites what it has not seen.                                        *)
(*                                                                         *)
(* Events of a run are numbered without gaps from 1, so seq[r], the last   *)
(* number, stands for the set of numbers taken.                            *)
(***************************************************************************)
EXTENDS Integers, FiniteSets

CONSTANTS
    Runs,         \* runs, numbered in the order of their created_at
    Workers,      \* worker processes; a restarted process is another worker,
                  \* and a worker_id, new in every cycle, one of its cycles
    Crashable,    \* the workers that may crash
    Operators,    \* API requests in progress at one time
    NoWorker,     \* NULL in agent_runs.worker_id
    MaxAttempts,  \* bound on claims of one run
    MaxEvents     \* bound on the event log operators may extend

ASSUME RunsAssumption      == Runs \subseteq Nat \ {0}
ASSUME SessionsAssumption  == /\ Workers \cap Operators = {}
                              /\ Crashable \subseteq Workers
                              /\ NoWorker \notin Workers
ASSUME BoundsAssumption    == MaxAttempts \in Nat /\ MaxEvents \in Nat

Sessions == Workers \cup Operators
PlanStates == {"current", "suspended", "superseded"}
Statuses == {"absent", "queued", "running", "paused",
             "completed", "failed", "cancelled"}

VARIABLES
    status,       \* agent_runs.status; "absent" before the run is created
    owner,        \* agent_runs.worker_id
    lease,        \* agent_runs.lease_expires_at: the claim that set it, 0 if NULL
    attempts,     \* agent_runs.attempt_count
    expired,      \* leases of claims 1..expired[r] have run out
    seq,          \* highest agent_run_events.sequence of the run
    plan,         \* the run's plan: does its bound version still authorize it
    published,    \* change sets of the run that a worker committed
    drafted,      \* change sets of the run that a request created
    pc,           \* where each session is
    copy,         \* the run as each session has loaded it
    straddled     \* runs to which a session has committed whose load another
                  \* commit straddled (for the properties only)

row     == <<status, owner, lease, attempts>>
vars    == <<status, owner, lease, attempts, expired, seq, plan,
             published, drafted, pc, copy, straddled>>

\* A loaded run: its columns, the last event number loaded (0: not yet), whether
\* its plan was found current when the request checked it, and, for the
\* properties only, the last event number when the row was read.
Copies == [run : Runs \cup {0}, status : Statuses, owner : Workers \cup {NoWorker},
           lease : Nat, seq : Nat, rowSeq : Nat, planOk : BOOLEAN]
NoCopy == [run |-> 0, status |-> "absent", owner |-> NoWorker,
           lease |-> 0, seq |-> 0, rowSeq |-> 0, planOk |-> FALSE]

LeaseLive(r, l) == l > expired[r]

WorkerStages == {"idle", "claimed", "executing", "produced", "flushed",
                 "publishing", "asserted", "auditing", "fault", "failing", "dead"}

-----------------------------------------------------------------------------
(* Loading and committing one run through the ORM.                         *)

\* _assert_plan_current: approved, at the version and hash the run is bound to.
PlanCurrent(r) == plan[r] = "current"

CopyOf(r) == [run |-> r, status |-> status[r], owner |-> owner[r],
              lease |-> lease[r], rowSeq |-> seq[r], planOk |-> PlanCurrent(r),
              seq |-> 0]

LoadRow(s, r, stage) ==
    /\ copy' = [copy EXCEPT ![s] = CopyOf(r)]
    /\ pc' = [pc EXCEPT ![s] = stage]
    /\ UNCHANGED <<row, expired, seq, plan, published, drafted, straddled>>

\* The second SELECT of a load.
LoadEvents(s) ==
    /\ pc[s] \in {"loaded", "publishing", "failing"}
    /\ copy[s].seq = 0
    /\ copy' = [copy EXCEPT ![s].seq = seq[copy[s].run]]
    /\ UNCHANGED <<row, expired, seq, plan, published, drafted, pc, straddled>>

Loaded(s) == copy[s].seq # 0

\* Mutant of Current: no UNIQUE (run_id, sequence).
NeverTaken(s) == TRUE

\* The event number this session would insert is still free.
Current(s) == copy[s].seq = seq[copy[s].run]

\* UPDATE writes a column only when the new value differs from the loaded one.
Written(column, r, loaded, new) ==
    [column EXCEPT ![r] = IF new = loaded THEN @ ELSE new]

\* A commit on a row that was read before, and events read after another commit.
Straddling(s) ==
    LET c == copy[s]
    IN  straddled' = IF c.rowSeq = c.seq THEN straddled ELSE straddled \cup {c.run}

\* Mutant of CommitRow: the handler forgets its event.
CommitSilently(s, newStatus, newOwner, newLease) ==
    LET c == copy[s] IN
    /\ Current(s)
    /\ status' = Written(status, c.run, c.status, newStatus)
    /\ owner' = Written(owner, c.run, c.owner, newOwner)
    /\ lease' = Written(lease, c.run, c.lease, newLease)
    /\ Straddling(s)
    /\ UNCHANGED <<attempts, expired, seq>>

CommitRow(s, newStatus, newOwner, newLease) ==
    LET c == copy[s] IN
    /\ Current(s)
    /\ seq' = [seq EXCEPT ![c.run] = @ + 1]
    /\ status' = Written(status, c.run, c.status, newStatus)
    /\ owner' = Written(owner, c.run, c.owner, newOwner)
    /\ lease' = Written(lease, c.run, c.lease, newLease)
    /\ Straddling(s)
    /\ UNCHANGED <<attempts, expired>>

\* The session keeps only the identity of the run it works for.
Keep(s, stage) ==
    /\ pc' = [pc EXCEPT ![s] = stage]
    /\ copy' = [copy EXCEPT ![s] = [NoCopy EXCEPT !.run = copy[s].run]]

Leave(s, stage) ==
    /\ pc' = [pc EXCEPT ![s] = stage]
    /\ copy' = [copy EXCEPT ![s] = NoCopy]

-----------------------------------------------------------------------------
(* Requests.                                                               *)

\* POST /agent-runs
Create(r) ==
    /\ status[r] = "absent"
    /\ \A q \in Runs : q < r => status[q] # "absent"
    /\ PlanCurrent(r)
    /\ status' = [status EXCEPT ![r] = "queued"]
    /\ seq' = [seq EXCEPT ![r] = 1]
    /\ UNCHANGED <<owner, lease, attempts, expired, plan, published,
                   drafted, pc, copy, straddled>>

\* POST /plans/{id}/versions: the version a run is bound to is current no more.
RevisePlan(r) ==
    /\ plan[r] # "superseded"
    /\ plan' = [plan EXCEPT ![r] = "superseded"]
    /\ UNCHANGED <<row, expired, seq, published, drafted, pc, copy, straddled>>

\* Revising the architecture sends its approved plans back for changes, at the
\* same version ...
SuspendPlan(r) ==
    /\ plan[r] = "current"
    /\ plan' = [plan EXCEPT ![r] = "suspended"]
    /\ UNCHANGED <<row, expired, seq, published, drafted, pc, copy, straddled>>

\* ... which a new submission and approval make current again.
ReapprovePlan(r) ==
    /\ plan[r] = "suspended"
    /\ plan' = [plan EXCEPT ![r] = "current"]
    /\ UNCHANGED <<row, expired, seq, published, drafted, pc, copy, straddled>>

ReviewPlan(r) == RevisePlan(r) \/ SuspendPlan(r) \/ ReapprovePlan(r)

OpenRun(o, r) ==
    /\ pc[o] = "idle"
    /\ status[r] # "absent"
    /\ LoadRow(o, r, "loaded")

\* A request that has loaded its run, within the bounds of the model.
Handling(o) ==
    /\ pc[o] = "loaded"
    /\ Loaded(o)
    /\ attempts[copy[o].run] < MaxAttempts
    /\ seq[copy[o].run] < MaxEvents

\* Mutant of Start: the status word of a work item that is started
\* (work_items/service.py).
StartAsWorkItem(o) ==
    /\ Handling(o)
    /\ copy[o].status \in {"queued", "paused"}
    /\ copy[o].planOk
    /\ CommitRow(o, "in_progress", NoWorker, 0)
    /\ Leave(o, "idle")
    /\ UNCHANGED <<plan, published, drafted>>

Start(o) ==
    /\ Handling(o)
    /\ copy[o].status \in {"queued", "paused"}
    /\ copy[o].planOk
    /\ CommitRow(o, "running", NoWorker, 0)
    /\ Leave(o, "idle")
    /\ UNCHANGED <<plan, published, drafted>>

\* Mutant of Pause: lease_expires_at is not reset.
PauseKeepingLease(o) ==
    /\ Handling(o)
    /\ copy[o].status = "running"
    /\ CommitRow(o, "paused", NoWorker, copy[o].lease)
    /\ Leave(o, "idle")
    /\ UNCHANGED <<plan, published, drafted>>

Pause(o) ==
    /\ Handling(o)
    /\ copy[o].status = "running"
    /\ CommitRow(o, "paused", NoWorker, 0)
    /\ Leave(o, "idle")
    /\ UNCHANGED <<plan, published, drafted>>

Cancel(o) ==
    /\ Handling(o)
    /\ copy[o].status \notin {"completed", "failed", "cancelled"}
    /\ CommitRow(o, "cancelled", NoWorker, 0)
    /\ Leave(o, "idle")
    /\ UNCHANGED <<plan, published, drafted>>

\* Adds an event and leaves the modelled columns alone.
CommitEvent(o) ==
    /\ CommitRow(o, copy[o].status, copy[o].owner, copy[o].lease)
    /\ Leave(o, "idle")
    /\ UNCHANGED <<plan, published, drafted>>

Checkpoint(o) ==
    /\ Handling(o)
    /\ copy[o].status \in {"running", "paused"}
    /\ CommitEvent(o)

\* A file outside the writable paths, offered to a change set of the run.
PolicyViolation(o) ==
    /\ Handling(o)
    /\ drafted[copy[o].run] \/ published[copy[o].run] > 0
    /\ CommitEvent(o)

\* Creating a change set by hand writes neither the run nor its events.
CreateChangeSet(o) ==
    /\ Handling(o)
    /\ copy[o].status \in {"running", "paused", "completed"}
    /\ copy[o].planOk
    /\ drafted' = [drafted EXCEPT ![copy[o].run] = TRUE]
    /\ Leave(o, "idle")
    /\ UNCHANGED <<row, expired, seq, plan, published, straddled>>

\* A guard refused the request, the client went away, or the commit hit the
\* unique constraint: the transaction rolls back.
Refuse(o) ==
    /\ pc[o] = "loaded"
    /\ Leave(o, "idle")
    /\ UNCHANGED <<row, expired, seq, plan, published, drafted, straddled>>

-----------------------------------------------------------------------------
(* A worker process: AgentRunWorker.process_once.                          *)

\* Mutants of Claimable: paused runs too; only runs never claimed.
ClaimablePaused(r) == /\ status[r] \in {"queued", "running", "paused"}
                      /\ ~LeaseLive(r, lease[r])
ClaimableOnce(r) == status[r] = "queued"

Claimable(r) == /\ status[r] \in {"queued", "running"}
                /\ ~LeaseLive(r, lease[r])

\* A worker that has flushed its change set holds FOR KEY SHARE on the run
\* (foreign key) until it commits or rolls back; FOR UPDATE skips that row.
Locked(r) == \E w \in Workers : /\ pc[w] \in {"flushed", "publishing", "asserted"}
                                /\ copy[w].run = r

\* SELECT ... FOR UPDATE SKIP LOCKED, oldest first, and commit of the claim.
Claim(w, r) ==
    /\ pc[w] = "idle"
    /\ Claimable(r) /\ ~Locked(r)
    /\ \A q \in Runs : q < r => ~Claimable(q) \/ Locked(q)
    /\ attempts[r] < MaxAttempts
    /\ status' = [status EXCEPT ![r] = "running"]
    /\ owner' = [owner EXCEPT ![r] = w]
    /\ attempts' = [attempts EXCEPT ![r] = @ + 1]
    /\ lease' = [lease EXCEPT ![r] = attempts[r] + 1]
    /\ seq' = [seq EXCEPT ![r] = @ + 1]
    /\ pc' = [pc EXCEPT ![w] = "claimed"]
    /\ copy' = [copy EXCEPT ![w] = [NoCopy EXCEPT !.run = r]]
    /\ UNCHANGED <<expired, plan, published, drafted, straddled>>

Stopped(r) == status[r] \in {"paused", "cancelled"}

\* Mutant of HoldsLease: the status is not looked at again.
OwnsRun(w, r, st, ow, le) == st \in Statuses

HoldsLease(w, r, st, ow, le) ==
    st = "running" /\ ow = w /\ LeaseLive(r, le)

LeaseHeld(w, r) == HoldsLease(w, r, status[r], owner[r], lease[r])

Stay == UNCHANGED <<row, expired, seq, plan, published, drafted, straddled>>

\* The plan and the lease are checked before the executor is called.
Begin(w) ==
    LET r == copy[w].run IN
    /\ pc[w] = "claimed"
    /\ Keep(w, IF PlanCurrent(r) /\ LeaseHeld(w, r) THEN "executing" ELSE "fault")
    /\ Stay

\* The executor returns a result or raises.
Execute(w) ==
    /\ pc[w] = "executing"
    /\ \E stage \in {"produced", "fault"} : Keep(w, stage)
    /\ Stay

\* An operator stopped the run meanwhile: return without touching it.
Abandon(w) ==
    /\ pc[w] = "produced"
    /\ Stopped(copy[w].run)
    /\ Leave(w, "idle")
    /\ Stay

\* Lease, path, diff and base_commit checks, then flush of the change set.
Flush(w) ==
    /\ pc[w] = "produced"
    /\ ~Stopped(copy[w].run)
    /\ \/ LeaseHeld(w, copy[w].run) /\ Keep(w, "flushed")
       \/ Keep(w, "fault")
    /\ Stay

\* The last _assert_lease reloads the run ...
Reload(w) ==
    /\ pc[w] = "flushed"
    /\ LoadRow(w, copy[w].run, "publishing")

\* ... and checks the reloaded copy.
AssertLease(w) ==
    LET c == copy[w] IN
    /\ pc[w] = "publishing"
    /\ Loaded(w)
    /\ IF HoldsLease(w, c.run, c.status, c.owner, c.lease)
       THEN pc' = [pc EXCEPT ![w] = "asserted"] /\ UNCHANGED copy
       ELSE Keep(w, "fault")
    /\ Stay

\* Change set, checkpoint, event and the completed run in one commit.
Publish(w) ==
    LET c == copy[w] IN
    /\ pc[w] = "asserted"
    /\ CommitRow(w, "completed", c.owner, 0)
    /\ published' = [published EXCEPT ![c.run] = @ + 1]
    /\ Keep(w, "auditing")
    /\ UNCHANGED <<plan, drafted>>

\* IntegrityError on the event number: nothing of the commit remains.
PublishConflict(w) ==
    /\ pc[w] = "asserted"
    /\ ~Current(w)
    /\ Keep(w, "fault")
    /\ Stay

\* record_audit runs after the commit, inside the same try.
Audit(w) ==
    /\ pc[w] = "auditing"
    /\ Leave(w, "idle") \/ Keep(w, "fault")
    /\ Stay

\* except Exception: roll back and reload the run.
Recover(w) ==
    /\ pc[w] = "fault"
    /\ LoadRow(w, copy[w].run, "failing")

MayFail(w) == /\ copy[w].owner = w
              /\ copy[w].status \notin {"cancelled", "paused"}

Fail(w) ==
    /\ pc[w] = "failing"
    /\ Loaded(w) /\ MayFail(w)
    /\ CommitRow(w, "failed", copy[w].owner, 0)
    /\ Leave(w, "idle")
    /\ UNCHANGED <<plan, published, drafted>>

\* The run is no longer this worker's, or the event number was taken: an
\* IntegrityError here reaches the loop of sandbox_worker.py, which goes on.
GiveUp(w) ==
    /\ pc[w] = "failing"
    /\ Loaded(w)
    /\ ~MayFail(w) \/ ~Current(w)
    /\ Leave(w, "idle")
    /\ Stay

\* The process dies; an open transaction rolls back.
Crash(w) ==
    /\ pc[w] # "dead"
    /\ copy[w].run # 0 => attempts[copy[w].run] < MaxAttempts
    /\ Leave(w, "dead")
    /\ Stay

\* AGENT_WORKER_LEASE_SECONDS pass.  Leases of one run expire in claim order.
Expire(r) ==
    /\ expired[r] < attempts[r]
    /\ attempts[r] < MaxAttempts
    /\ expired' = [expired EXCEPT ![r] = @ + 1]
    /\ UNCHANGED <<row, seq, plan, published, drafted, pc, copy, straddled>>

-----------------------------------------------------------------------------
Init ==
    /\ status = [r \in Runs |-> "absent"]
    /\ owner = [r \in Runs |-> NoWorker]
    /\ lease = [r \in Runs |-> 0]
    /\ attempts = [r \in Runs |-> 0]
    /\ expired = [r \in Runs |-> 0]
    /\ seq = [r \in Runs |-> 0]
    /\ plan = [r \in Runs |-> "current"]
    /\ published = [r \in Runs |-> 0]
    /\ drafted = [r \in Runs |-> FALSE]
    /\ pc = [s \in Sessions |-> "idle"]
    /\ copy = [s \in Sessions |-> NoCopy]
    /\ straddled = {}

Request(o) ==
    \/ \E r \in Runs : OpenRun(o, r)
    \/ LoadEvents(o) \/ Start(o) \/ Pause(o) \/ Cancel(o)
    \/ Checkpoint(o) \/ PolicyViolation(o) \/ CreateChangeSet(o) \/ Refuse(o)

\* What a worker process does as long as it runs.
Work(w) ==
    \/ \E r \in Runs : Claim(w, r)
    \/ LoadEvents(w) \/ Begin(w) \/ Execute(w) \/ Abandon(w) \/ Flush(w)
    \/ Reload(w) \/ AssertLease(w) \/ Publish(w) \/ PublishConflict(w)
    \/ Audit(w) \/ Recover(w) \/ Fail(w) \/ GiveUp(w)

Next ==
    \/ \E r \in Runs : Create(r) \/ Expire(r) \/ ReviewPlan(r)
    \/ \E o \in Operators : Request(o)
    \/ \E w \in Workers : Work(w)
    \/ \E w \in Crashable : Crash(w)

Spec == Init /\ [][Next]_vars

\* Worker loops keep polling (sandbox_worker.py) and time passes; nobody has
\* to send a request, and a crashable worker may stop for ever.
FairSpec ==
    /\ Spec
    /\ \A w \in Workers : WF_vars(Work(w))
    /\ \A r \in Runs : WF_vars(Expire(r))

-----------------------------------------------------------------------------
(* What must hold.                                                         *)

\* Every variable keeps its type (models.py AgentRun, AgentRunEvent).
TypeOK ==
    /\ status \in [Runs -> Statuses]
    /\ owner \in [Runs -> Workers \cup {NoWorker}]
    /\ lease \in [Runs -> Nat]
    /\ attempts \in [Runs -> Nat]
    /\ expired \in [Runs -> Nat]
    /\ seq \in [Runs -> Nat]
    /\ plan \in [Runs -> PlanStates]
    /\ published \in [Runs -> Nat]
    /\ drafted \in [Runs -> BOOLEAN]
    /\ pc \in [Sessions -> WorkerStages \cup {"loaded"}]
    /\ copy \in [Sessions -> Copies]
    /\ straddled \subseteq Runs

\* The event number is an optimistic lock: a session whose load no commit
\* straddled, and whose event number is still free, decides on the row that is
\* in the database.
CopyIsRow(c) == /\ c.status = status[c.run]
                /\ c.owner = owner[c.run]
                /\ c.lease = lease[c.run]
OptimisticLock ==
    \A s \in Sessions :
        Loaded(s) /\ Current(s) /\ copy[s].rowSeq = copy[s].seq => CopyIsRow(copy[s])

\* The rules below hold of a run until a session commits to it whose load
\* another commit straddled, which overwrites what that one wrote.
Whole == Runs \ straddled

\* A lease is the latest claim's, and only a running run with an owner has one:
\* no stop, completion or failure leaves a lease that would hide a run from
\* the claim or let a former owner go on - until a load is straddled.
LeaseDiscipline ==
    \A r \in Whole : lease[r] # 0 => /\ status[r] = "running"
                                     /\ owner[r] \in Workers
                                     /\ lease[r] = attempts[r]

\* However many workers raced, were taken over, paused and resumed, at most
\* one of them published a change set of the run - until a load is straddled.
OneChangeSet == \A r \in Whole : published[r] <= 1

\* A change set of a worker belongs to a run that ended, until a load is straddled.
PublishedRunEnded ==
    \A r \in Whole : published[r] > 0 => status[r] \in {"completed", "failed"}

\* A cancelled run stays as the operator left it: no worker that was still
\* executing it and no request in progress overwrites it, unless its load was
\* straddled.
CancelFinal ==
    [][\A r \in Whole' : status[r] = "cancelled"
                            => UNCHANGED <<status[r], owner[r], lease[r]>>]_vars

\* A paused run moves again only by a request that starts or cancels it, or by
\* a session whose load was straddled.
PauseHonoured ==
    [][\A r \in Whole' : status[r] = "paused" =>
          \/ status'[r] = "paused"
          \/ status'[r] \in {"running", "cancelled"} /\ owner'[r] = NoWorker]_vars

\* A queued or running run is taken to an end or stopped by an operator,
\* although workers crash, leases run out and commits are refused.
Settles ==
    \A r \in Runs : status[r] \in {"queued", "running"}
                       ~> status[r] \notin {"queued", "running"}

\* Seen without sessions and leases, the runs go through the phases of
\* RunLifecycle and deliver at most once, until a load is straddled.  A run that
\* delivered and whose audit record then failed is written down as failed: it
\* counts as completed here, and whatever else ends "completed" is a violation.
Phase(r) ==
    CASE r \in straddled -> "overwritten"
      [] r \in Whole /\ status[r] = "failed" /\ published[r] > 0 -> "completed"
      [] OTHER -> status[r]
Output(r) == IF r \in straddled THEN 0 ELSE published[r]

Lifecycle == INSTANCE RunLifecycle WITH phase <- [r \in Runs |-> Phase(r)],
                                        output <- [r \in Runs |-> Output(r)]
ImplementsLifecycle == Lifecycle!Spec

=============================================================================
