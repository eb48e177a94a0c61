# A TLA+ model of botq

botq is a control plane for software that agents write and people answer for: baselines of
requirements, architectures and plans are versioned and approved, agent runs turn an approved plan
into change sets, change sets are verified, reviewed, released and deployed, and numbered gates
collect the evidence. This directory models the parts whose correctness depends on the *order* in
which several actors act, checks them with TLC and proves the most important results with TLAPS.
Paths below are relative to the repository; `app/` is `backend/app/`.

## 1. The system

One Flask API (several processes and threads), one or more worker processes
(`app/sandbox_worker.py`) and one PostgreSQL database at READ COMMITTED. Nothing else is shared on the
server. In front of it are two browser clients, the React frontend (`frontend/src`) and the acceptance
workbench (`app/static/workbench.js`), which share the cookies of the browser and remember on their own
what they were answered.
Every handler has the same shape: load rows through SQLAlchemy, check guards on the loaded copy,
change the copy, commit; after the commit an audit record is written in a transaction of its own.
Only the worker's claim takes a row lock (`FOR UPDATE SKIP LOCKED`); everywhere else the last
commit wins, except where a unique constraint refuses it. Two handlers that overlap therefore
decide on copies that the other one makes stale, and this is where most of the hazards come from.

| Component | State | Operations | What makes it correct |
|---|---|---|---|
| Agent runs (`planning/worker.py`, `planning/routes.py`) | run row with status, owner, lease, attempts; numbered events; checkpoints | create, start, pause, cancel, checkpoint; claim, execute, publish, fail; lease expiry | one owner at a time, one delivery per run, operators' stops are final, runs do not starve |
| Artifact review (`artifacts/`, `architecture/`, `requirements/`, `design/`, `approvals/`) | artifact row with status and current version; version rows; approvals | create, submit, revise with its cascade, decide | approvals are for the current version, revisions are not lost |
| Change sets (`planning/routes.py`, `approvals/service.py`) | status, files, hash, verifications, approvals | add file, self-review, verify, submit, decide | what is approved is what was verified and what is recorded |
| Releases and deployments (`release/`) | release, plans, approvals, deployments | create, evaluate readiness, decide, package, plan, deploy, roll back | nothing is deployed without an approved plan of a ready, packaged release; dual control for production |
| Project gates (`gates/routes.py`) | gate row, evidence rows, decisions, history; policy | submit, sync, evaluate, decide, close, reopen, change the policy | a closed gate has its evidence and its approvals |
| Audit chain (`audit/service.py`) | events linked by hashes, an advisory lock per organization | record, verify | the chain verifies unless somebody tampers with it |
| Responsibility assignments (`projects/routes.py`) | who holds which responsibility in which period | create, update, list as of an instant | one primary user per responsibility, no user on both sides of a segregation group |
| Previews, acceptance and defects (`design/routes.py`) | preview with expiry, session with criteria, results, defects | create, revoke, record, complete, report, update | a verdict is final and means what the results say |
| Acceptance workbench (`static/workbench.js`) | token, session as last rendered, one select per criterion | start, save, complete, log a defect | what the page shows is what it posts, and what was recorded is not overwritten by a page that showed it |
| Sessions (`auth/`, `orgs/routes.py`, `frontend/src/auth.tsx`, `api.ts`) | tokens, active users; cookies; who each tab believes is signed in | sign in, sign out, probe, expire, deactivate | a token that has ended stays out, a tab shows the user it acts for and does not wait for ever |
| Work items (`work_items/`, `requirements/routes.py`) | items with kind, parent and number; dependencies; analyses | create, update, delete, link, unlink; analyse, apply an analysis | no cycle, no orphan, no analysis applied twice |
| Findings, traceability | rows per project | resolve, link | no protocol of their own |
| Supporting parts: roles, secrets, sandbox, Git, backup, retention, observability, contracts | | | no protocol of their own, see section 8 |

How they interact: an approved baseline is the source of an architecture, that of a plan; a run is
bound to a version of a plan and stops being startable when the plan is revised or sent back; a
completed run commits a draft change set in the same transaction; an approved change set is what a
release is created from; the approval of a plan of a release is what a deployment needs; gates
derive their evidence from the records of all of them.

## 2. Modules

| Module | Models | Actors |
|---|---|---|
| `AgentRun` | the durable queue of runs | worker cycles, requests, lease clock, crashes |
| `RunLifecycle` | what a run promises, without sessions, leases and events; `AgentRun` implements it | |
| `ArtifactReview` | artifacts made from each other and their approvals | requests |
| `ChangeSetReview` | one change set | requests, waivers that lapse |
| `Release` | one release, its plans and deployments | requests, deployment provider |
| `Delivery` | a change set and the release made of it: `ChangeSetReview` and `Release` on the tables they share | requests about either |
| `ProjectGates` | the gates of a project | requests, policy changes, evidence that expires |
| `WorkItems` | the work items of a project and the analyses that generate them | requests |
| `AuditChain` | the audit trail of an organization: lock, clocks, links, crashes | writers |
| `Assignments` | the responsibilities of a project; extends `AuditChain` with the changes its events are about | requests |
| `Acceptance` | preview, acceptance session, results and a defect on the server | requests |
| `Workbench` | the workbench page; extends `Acceptance` | tester, page handlers, another client |
| `BrowserSession` | tokens, cookies and the tabs of the frontend | tabs, workbench, API client, administrator, time |
| `…Proofs` | the theorems about each of them | |
| `MC…` | the constants of the small instances | |

Two pairs are composed by extension: every change of `Assignments` owes an event to `AuditChain`, in a
transaction of its own, and may die before it has written it; every request of `Workbench` is a request of
`Acceptance`, which another client of the API calls too. `Delivery` puts two components side by side:
`Release` on its own knows of its change set one Boolean, which `ApproveChangeSet` sets once; in `Delivery` that
Boolean is the status `ChangeSetReview` gives the change set, in every step, and whether `Release` is right about it is
a property (`StepsOfRelease`), not an assumption. The rest of the approval chain meets at two places. What a run leaves to
`ChangeSetReview` is `Produce`, as `AgentRun!Publish` commits it. What the plan of a run goes through in
`ArtifactReview` is `ReviewPlan` in `AgentRun`: current, suspended by a cascade and approved again, or superseded.

### Conventions

* **A request is two or more steps.** `Open(s)` copies what the handler loads into `copy[s]`; the
  commit checks the guards on that copy and writes. Anything may happen in between. `Refuse` stands
  for every refusal: a failing guard, a missing scope or role, a malformed payload, a rollback.
* **Written columns.** SQLAlchemy leaves a column out of an UPDATE when its new value equals the
  loaded one. `SetStatus`, `Written` and `Column` do the same: it matters, because a handler that
  "sets" the status it has loaded does not undo what another one wrote meanwhile.
* **Unique constraints** are guards on the committed state, not on the copy: event numbers
  (`Current`), version numbers (`NumberFree`), paths of a change set, idempotency keys.
* **One row, one variable.** Rows are model values, statuses are the strings of the code, `NULL` is
  a model value, 0 or the empty set. Hashes are the content they are computed from. Times are
  abstracted to what is compared: a lease is the number of the claim that set it and `expired` says
  up to which claim leases have run out; a waiver or a row of evidence is lapsed or it is not.
* **`stale`** (`raced` in `Assignments` and `Acceptance`, `overtaken` for the change set in `Delivery`) is a history variable of seven modules, read by properties only. It becomes TRUE when a
  request commits although what it had read of the row it decides on is not in the database any
  more - a lost race; in `WorkItems`, when it commits what its own check would refuse by then; in `Assignments` and `Acceptance`, when another request has committed since it decided (`fresh` holds the requests none has overtaken), for the requests the property is about. Such commits are part of every model and of every check. Properties that the
  code cannot keep when a race is lost are stated as `~stale => ...` and say exactly that a lost
  race is the *only* way to break them; a row lock or a version column in those handlers would make
  `stale` FALSE for ever and the properties unconditional. Properties that survive lost races are
  stated without it.

### State and actions

* `AgentRun`: `status`, `owner`, `lease`, `attempts` are columns of `agent_runs`; `seq` is the
  highest event number; `published` and `drafted` count and remember the change sets of the run. A
  worker's `pc` follows `process_once`: idle, claimed, executing, produced, flushed, publishing
  (the row is loaded again), asserted, then auditing, or fault and failing. Loading a run is always two
  SELECTs, the row (`LoadRow`) and its events (`LoadEvents`, `models.py:1110`), and another commit may land
  between them. A commit inserts event number "last loaded + 1", so the log acts as an optimistic lock
  (`CommitRow`) - but a load that was straddled pairs an old row with the new number, and its commit goes through.
  `straddled` is a history variable, read by properties only: the runs to which a session with such a load has
  committed. `Whole` are the others.
  `Locked` is the foreign-key lock a flushed change set holds on its run, which the claim skips.
* `ArtifactReview`: `rows` are the version rows, `version` the current one, `accepted` counts the
  revisions that were answered with success. A revision is `FindImpacted` (the query for
  the artifacts to send back) and `Revise` (the commit). `SourceOf` says what an artifact is made from.
* `ChangeSetReview`: the set of recorded paths stands for the diff and is its own hash; `NoHash` is a
  change set created by hand. `evidence` are its verifications, each with the hash it is for.
* `Release`: `passed` is the stored readiness result, `signers` the users whose approval a plan bears.
  A deployment that is executed at once is committed as queued, as running (`Execute`) and with what
  the provider answered (`Answer`); the process may die after each.
* `ProjectGates`: `evidence` has a row for each check, `decisions` only grows, `history` keeps the
  keys of the submissions. `Record` is the evaluation of a loaded copy after rows were derived.
* `WorkItems`: a handler there needs nothing of what it has loaded but the outcome of its check, so that a
  request is an `Ask…`, which checks and keeps what it will write in `intent[s]`, and a commit, which
  only foreign keys and unique constraints can still refuse. Creation by hand and from an analysis are the
  same commit; `Number` is the query for the highest number in between. `Below` and `Upstream` are what the
  two worklist loops of `service.py` return, said as what every closed set contains. An analysis is
  current or outdated: that is all `apply_work_items` compares.

* `AuditChain`: a hash stands for the position of the event it was taken of. `Link` is `record_audit` up to
  its query, with the lock; `Commit` stamps, links and ends the transaction. A stamp is any reading of a clock.
* `Assignments`: `Ask…` is a handler up to and with `_validate_assignment_conflicts`, `Apply` its commit.
  Periods are half open; `Forever` is a missing end. An update that leaves the group out keeps the group of
  the *old* type, if it had one, as the code does. `Named` are the groups that clients send by name. A request that
  dies before its commit changes nothing and is left out.
* `Acceptance`: `request[s]` is what a handler has decided on the rows it loaded. `na` counts as pass,
  `blocked` as fail, and the defect is one that blocks.
* `Workbench`: `form` is the selects on the page. A save loop reads each select when its turn comes, from
  the page or, once the page was rendered anew, from the detached selects it iterates over. An answer is two steps:
  the server reads the session (`Reload` for a save, `Answered` after the commit of a start or a completion), and
  later the page renders what was read (`Saved`, `ShowAnswer`), or never sees it (`Stop`, `AnswerLost`). `late` are those whose answer was read before
  another one was rendered, and `overtaken` says that such an answer was rendered (history variables).
* `BrowserSession`: `jar` is the session cookie, `shown[p]` what `useState` of a tab holds. A call carries the
  cookie of the moment it was sent; the server loads the token and serves the call in a later step; the answer
  and the cookies it sets take effect together. A cookie that reaches its `max_age` (`CookieExpires`) takes its token
  with it, as both have one lifetime. `crossed` marks the tabs that were signed in while their first answer was out,
  and those whose cookie another page has changed.

## 3. Runs

| Run | Instance | Shows |
|---|---|---|
| `agent_run` | 1 run, 2 workers that may crash, 1 request at a time, 3 claims, requests up to the 4th event, loads that may be straddled | `LeaseDiscipline`, `OneChangeSet`, `PauseHonoured`, and that `AgentRun` implements `RunLifecycle` |
| `agent_run_live` | 2 runs, 2 workers of which one may crash for good, no requests | `Settles` under fairness; `OptimisticLock` |
| `artifact_review` | a baseline and an architecture made from it, 2 requests, 2 versions | `NoRevisionLost`, `DecisionsOnRecord`, `FreshUnlessRaced` |
| `delivery` | `Delivery`: a change set of 2 paths, 2 requests about it, waivers that lapse; its release, a staging plan, 1 deployment, 1 request about them, approvals and cancellations | `ReviewVerified`, `ReviewBindsContent`, `ReleasedAsReviewed`, and that the two together take only steps of `Release` |
| `release` | staging and production, 1 deployment, 3 approvers, 2 requests | `ProductionSigned`, `Authorized`, `RolledBackFinal` |
| `release_dual_control` | 1 production plan, 2 approvers, fairness | violation of `DualControlAttainable` |
| `gates` | 1 gate, 2 reviewers, 2 requests, 2 policies | `ClosedOnEvidence`, `ClosedOnApproval` |
| `work_items` | 2 items, 3 kinds, 1 analysis, 2 requests | `References`, `DependenciesUnlessRaced`, `HierarchyUnlessRaced`, `RootedUnlessRaced`, `OneApplicationUnlessRaced` |
| `assignments` | 2 assignments, 2 kinds of which one has a segregation group, 2 users, 2 instants, 2 requests at a time, 3 in all; 2 audit events, 2 clock readings | `AssignmentsUnlessRaced`, `ChainUnlessSkewed` |
| `assignments_duties` | 2 assignments, 3 kinds of two default groups, 2 users, 1 request at a time, 3 in all, no group named | violation of `DutiesSeparated` |
| `acceptance` | 2 criteria, a page with one save loop, a start or completion, and one other request; another client | `VerdictUnlessRaced`, `VerdictFinal`, `ShownFailureStays` |
| `browser` | 2 tabs, workbench, API client, 2 users of which one is deactivated and activated again, 2 tokens, 2 requests under way | `EndedStaysOut`, `ShownUnlessCrossed`; `LoadingEnds` under fairness |

Each passing run also checks the type invariant of its module, except `agent_run_live`.
`CHECK_DEADLOCK FALSE` is set everywhere: a run that has ended, a cancelled artifact or a bound that is
reached are proper ends.

**Bounds.** `MaxAttempts` (claims of a run) bounds crashes and takeovers: with 3 claims a worker is
taken over, its successor is taken over, and both come back late. `MaxEvents` bounds what operators may
append: 4 events are create, claim, pause and start again, and workers go on after that (claims, completions and
failures append events too). That is also enough for straddled loads to matter: with `Runs` in place of `Whole`, TLC
finds `LeaseDiscipline`, `OneChangeSet`, `PauseHonoured` and `CancelFinal` violated in this instance. The claims and
events that the bounds forbid only repeat those situations with larger numbers; the theorems hold for
every bound. `MaxVersion = 2` lets a revision race with a decision and with another revision. Two
requests at one time are what a race needs: every handler reads once and commits once, so a third one
could only replace the effect of one of the two; the theorems hold for any number. `Verdicts` restricts
the decisions to those that lead to different statuses for the properties of a run. Two paths
distinguish the diff that was hashed from the one recorded later. One deployment suffices for `release`
because deployments share nothing but the plans and the release; `Authorized` and `RolledBackFinal` are
proved for any number. One gate suffices for `gates` because gates meet only in the condition on the previous
gate, which can only keep a gate from closing; the theorems have more.
`delivery` has one plan, one deployment, one approver and one request about the release: races among those are what
`release` is for, while here a request about the release races with one about the change set.
Two items close the shortest cycles, and two requests the races for them; that chains of any length stay open
is what the theorems add (with three items and one request at a time TLC agrees, in 400 000 states).
`assignments`: three requests are two that race and one before or after them; two events fork the chain and
two clock readings let the second stamp be earlier, equal or later. In `assignments_duties` one
request at a time excludes races, and the audit events play no part. `acceptance`: two criteria are needed for a
save that stops half way, one preview, session and defect because sessions share nothing; a second save loop
is left to the theorems, which hold for any number of loops and criteria. `browser`: two requests
under way make every race between a probe and a sign-in, or of an activity record and a sign-out; two tokens are one before
and one after a change of user.
Symmetry is used for interchangeable workers, requests, items, assignments, users and deployments, never in a run with a
liveness property.

**Fairness.** `AgentRun!FairSpec` assumes weak fairness of each worker's `Work`
(`sandbox_worker.py` loops for ever and survives every exception of a cycle) and of `Expire` (time
passes), and nothing of users or of the worker that crashes. Within the bound of `MaxAttempts`
interruptions per run, `Settles` says that no run is left behind by a crash, a skipped lock, a refused
commit or an older run in front of it. `Release!FairSpec` is there for the one question whether dual
control is attainable: requests are made and end, and an approver whose approval is possible again and again
gets it in (strong fairness). This is more than the code guarantees, which makes the violation
stronger: even so the second signature never comes. `BrowserSession!FairSpec` assumes that the server works off a
probe and that its answer reaches the page that waits for it; a probe may be lost as well (`ProbeLost`),
and then the page must settle just the same. Nothing is assumed of users, of time or of any other call.

## 4. What the properties say

* **`LeaseDiscipline`**: only a running run with an owner has a lease, and it is the latest claim's.
  A lease left behind by a pause would hide a resumed run from every worker. Like the other properties of `agent_run`
  it holds of a run until a commit follows a load that another commit straddled (`Whole`); then it does not (section 6).
* **`OneChangeSet`**: however workers are taken over, paused and resumed, at most one of them publishes.
  **`PauseHonoured`**: no worker and no overlapping request overwrites a pause.
* **`OptimisticLock`**: what the event number is worth. If nothing was committed inside the load and
  the number is still free, the loaded columns are those of the database.
* **`ImplementsLifecycle`**: every step of `AgentRun`, seen without sessions, leases and events, is a step of
  `RunLifecycle` or none: each delivery coincides with a completion, and completed, failed and cancelled runs have
  ended. The mapping (`Phase`) names the two exceptions: a straddled load, after which the run is `overwritten`, and the
  audit failure that turns a delivered run from completed to failed, which still counts as completed. (`CancelFinal`
  and `PublishedRunEnded` in `AgentRun` say that on its own variables; they are proved and not run.)
* **`NoRevisionLost`**: the unique version number turns every overlapping revision but one into a
  refusal. **`DecisionsOnRecord`**: no status that only a decision gives lacks that decision.
* **`FreshUnlessRaced`**: what is approved was approved at its current version and under the current
  version of its source; the cascade of a revision misses nothing.
* **`ReviewVerified`** (`ChangeSetReview!VerifiedUnlessRaced`): what is submitted or approved has evidence, all of this very diff, none of
  it failed, late evidence included. **`ReviewBindsContent`** (`ContentUnlessRaced`): the approval binds exactly the files
  recorded now.
* **`ReleasedAsReviewed`**: packaging and deployment never look at the change set again; what they rest on is still
  what a reviewer approved, with evidence of exactly these files, whatever requests about the release and the change set
  commit in between. **`StepsOfRelease`**: seen from the release, the review does nothing but approve, once: there is
  no order of calls in which the approval is taken back (a cancellation, late evidence) under a release.
* **`ProductionSigned`**: no order of requests gets a production deployment past dual control.
  **`Authorized`**: what a deployment rested on when it was created still stands afterwards.
  **`RolledBackFinal`**: neither a second rollback nor a late answer of the provider undoes a rollback.
* **`ClosedOnApproval`**: a closed gate has the approval of each reviewer in every interleaving,
  because decisions are only added. **`ClosedOnEvidence`**: all that changes the evidence of a closed
  gate takes it out of closed, unless a race was lost.
* **`References`**: foreign keys and their ON DELETE actions keep every reference alive in every
  interleaving. **`DependenciesUnlessRaced`, `HierarchyUnlessRaced`**: no cycle of any length; the second is
  not a matter of ranks, which a change of kind breaks. **`RootedUnlessRaced`**: all work hangs from an epic.
  **`OneApplicationUnlessRaced`**: applying an analysis again, also after some of its items were deleted,
  creates nothing. Each needs a lost race to break, and with one it does break: nothing locks the items.
* **`AssignmentsUnlessRaced`**: looked at as the list shows it, at an instant, not as the check compares it, by
  pairs of periods. Of groups it says only what the rows say. **`DutiesSeparated`** is the guide's promise about
  responsibilities, and fails without any race. **`ChainUnlessSkewed`**: neither overlapping writers nor writers that die between their change
  and their event break the chain; a stamp that is not later than the one before does, also one that is equal,
  as the random id then decides the order.
* **`VerdictUnlessRaced`**: the verdict agrees with the results *now*, not only when it was taken.
  **`VerdictFinal`** needs the exception for two completions that overlap: both have seen the session open. `raced` is
  wider than that: it is also set by a completion that any other commit (result, defect) has overtaken, and by a
  result decided before the verdict and committed after it.
* **`ShownFailureStays`**: about a page that posts every select whether the tester touched it or not. A failure it
  has never rendered is overwritten by the default; one it has rendered is not, whatever is lost or stops
  half way, unless an answer that was read before another one was rendered is rendered after it (`overtaken`). This
  does happen, also with one save and one completion: the server reads the answer to the completion, another client
  commits a failure, the save reads and renders it, and then the completion turns the select back to pass.
* **`EndedStaysOut`**: recording the activity of a token does not undo its revocation.
  **`ShownUnlessCrossed`**: a tab never acts as somebody else than it shows, with the two exceptions of section 6; when
  its cookie has run out it goes on showing its user, and then acts as nobody.
  **`LoadingEnds`**: whatever the answer to the probe, and if there is none, the spinner of `Guard` ends.

## 5. Proofs

All theorems hold for every value of the constants within the named assumptions of the module
(sets of any size, any number of requests in progress).

* **`AgentRunProofs`.** All of it is about loads of two SELECTs that any commit may straddle. `TypeCorrect` and
  `OptimisticLocking` hold whatever does. The
  invariant is `VersionInv`: types; which stages hold a loaded copy and which worker saw itself as
  owner (`SessionOK`); a run exists exactly when it has an event (`LogOK`); and `VersionOK`, which says
  that copies are never from the future and that a copy with the present event number equals the row.
  `OptimisticLock` alone is not inductive: a copy that is behind may not catch up, which is what the
  comparison of event numbers in `VersionOK` adds. `StrictInv` adds, of the runs in `Whole`, the lease discipline with
  the owner behind it and the link between `published` and the ended status, both ways. What carries it is
  `CommitFreshOrLost`: a commit either decides on the row it overwrites, or its load was straddled and the run leaves
  `Whole` in the same step. From it follow `AtMostOneChangeSet`,
  `LeasesDisciplined`, `PublishedRunsEnd`, `CancelIsFinal`, `PausesAreHonoured` and `RunsFollowLifecycle`,
  the refinement of `RunLifecycle` step by step.
* **`ArtifactReviewProofs`.** `RevisionsKept` from `VersionsInv`: version rows are `1 .. version`, loaded
  versions exist, and an artifact without a version is absent. `ApprovalsAreFresh` adds to `FreshUnlessRaced` that
  what an artifact is made from exists (`SourceExists`); each step either finds its copy up to date, and
  then keeps the approval of the current version, or sets `stale`.
* **`DeliveryProofs`** has the proofs of three modules, as `Delivery` extends `Release` and takes an instance `C` of
  `ChangeSetReview`. *The change set* (`C!Spec => ...`): `ChangesAreVerified` and `ApprovalsBindContent` from `ReviewInv`, which
  needs two facts more: evidence a request has seen has not gone (`EvidenceSeen`), and outside of draft and
  cancelled the hash is that of the recorded files (`DiffFrozen`).
  *The release* (`Spec => ...`): `ProductionIsSigned` is inductive together with the types: signatures are only
  added. `DeploymentsAreAuthorized` and `RollbacksAreFinal` from `DeployInv`: an approval of the change
  set that a request has read is still there (`CopySound`); and until a race is lost, a release past its draft
  is ready (`ReadyOK`), an existing deployment is authorized (`Authorization`), and each request in
  execution has a deployment of its own in the status it left it in (`ExecutingOK`), without which a
  late answer could overwrite a rollback.
  *The two together*: `ReviewFeedsRelease` shows that until a request about the change set commits on a
  stale copy, each step of `Delivery` is a step of `Release` or leaves its variables alone. What makes it true is
  `ApprovalStands`: no request takes a change set out of `approved` that was approved when it loaded it, so that one which
  does has missed the approval, and has set `overtaken`, which is the `stale` of the change set. `DeliveryInv` joins the invariants of the two modules, that
  `changeSet` is what `review` says, and that something is released only of an approved change set (`Begun`);
  `WhatIsReleasedWasReviewed` and `DeliveryIsAuthorized` follow: the theorems about `Release` carry over to the composition;
  those about `ChangeSetReview` do because the release leaves it alone (`ReviewUndisturbed`).
* **`ProjectGatesProofs`.** `ClosedGatesAreApproved` from `ApprovalInv`: the decisions a request has loaded
  are a subset of those there (`DecisionsLoaded`). `PoliciesAgree` is a hypothesis inside the property: if
  a policy that asks for no decisions is replaced by one that does, gates closed before have none.
  `ClosedGatesHaveEvidence` needs nothing but the types.

* **`WorkItemsProofs`.** "No cycle" is stated as: every non-empty set of items has one that depends on none
  of the set. In that form it needs no induction: if `C` is closed under dependencies, contains the target
  and not the item, a set that meets `C` has such a member inside `C`, and one that does not meet `C`
  does not contain the target (`LinkKeepsOrder`; `MoveKeepsTree` is the same for parents). For a batch of
  an analysis it is the item of the highest kind (`HighestKind`). `ReferencesExist` is needed for the
  hierarchy: what a new item is below is not itself new.

* **`AssignmentsProofs`.** `AssignmentsKeepRules` from `Compatible`: until a request is overtaken, no two
  rows conflict, and neither does a checked request that has seen every commit with any row. Two periods
  that share an instant overlap, which takes the invariant to `AssignmentsUnlessRaced`. `ChainVerifies` from `LinkedByOne`:
  at most one writer holds the lock, and as long as stamps increase every event links to the one
  committed before it and the writer with the lock to the last one (`NewestBefore`: with the stamps in order, that is
  what the query finds).
* **`WorkbenchProofs`.** `Justified` sums up what any of the four kinds of request writes, so that page and
  other client are one step, `ServerStep`. `VerdictsMeanResults` and `VerdictsAreFinal` from `VerdictInv`, which adds what a
  request still knows that no commit has overtaken (`Grounded`): the session is open, all
  criteria have a result, and the verdict is the one these results give. `FailuresStayShown` from `ShownInv`: an answer that
  was read for a save, a start or a completion, unless something was rendered since, contains every failure that was rendered (`FailuresRead`);
  `OneAnswer` keeps the page's start and completion apart.
* **`BrowserSessionProofs`.** `SessionInv` is the types and two facts. `CallsSound`: a call under way carries a token that
  was issued or none; one whose token the server has loaded was not `ended` before it; what an answer says of its user is the
  owner of its token; and a token that had ended when a call was sent is not live now, which is what keeps the call out. `TabSound`: a tab that was not crossed shows nobody, the owner of the
  cookie, or the owner of a token that has ended and taken the cookie with it, and if its probe is still out, that probe carries the cookie of now - without which the answer to a probe could name a
  former user. From it `SessionTypeCorrect`, `EndedTokensStayOut` and `TabsShowTheirUser`; `EndedTokensStayEnded` is the
  action property behind the second: neither a served call nor an activity record makes an ended token live again. `SignOutEndsNoToken` is a theorem about a
  defect (section 6): as the page never finds the CSRF cookie (`CsrfMissing`), no call of a tab that the server works
  off, sign-out included, changes a token.
* **`ArtifactReviewProofs`** also has `StatusOnRecord`, for `DecisionsOnRecord`.

**Only model-checked**: `Settles` and `LoadingEnds` (liveness, out of the prover's reach), the two violations (they are
counterexamples), and that the bounded instances reach the situations described above. Every other property of a run is a theorem.

## 6. Disagreements between code and documentation

Two are runs, each with a counterexample:

| Run | What happens |
|---|---|
| `release_dual_control` | The first approval takes a production plan out of `submitted`, and a second one is accepted only there: the two signatures that `release/routes.py:547-551` asks for can only be collected by two requests that overlap. |
| `assignments_duties` | `docs/API_GATE_CONTROL_GUIDE.md:261-262`: "The default segregation groups prevent one user from simultaneously being the primary Developer and QA Reviewer, or Release Manager and Security Approver". `projects/routes.py:249-250`: an update that changes the type and leaves the group out keeps the group of the *old* type. A user who is primary developer and primary release manager becomes QA reviewer by an update of the second assignment, which stays in `release_security`: nothing refuses it, with one request at a time. |

One is a theorem, `SignOutEndsNoToken`: `api.ts:36`, `orval-mutator.ts:13` and `generated-client.ts:5` look for a cookie
`csrf_token`; `auth/routes.py:104-112` sets `botq_csrf`, for the path `/api/v1`, which pages elsewhere do not see.
Every write of the frontend goes out without `X-CSRF-Token` and is answered 401, although `orval-mutator.ts:3-4` says
that "CSRF is attached to state-changing requests". Sign-out too: its failure is
swallowed, the page is loaded again, and the probe finds the session still valid.

The others were found while modelling; the models contain them, and the properties are stated so that they do not
depend on them, or name them as exceptions:

* `planning/worker.py:209`: `_execute` commits the completed run, then calls `record_audit` inside the same `try`. When
  that raises, `process_once` finds itself still the owner and commits `failed` over `completed`, although
  `planning/routes.py:265-266` counts completed as terminal (`AgentRun!Audit`, `Fail`). No document promises the
  opposite in words; `Phase` in `AgentRun` names this one case, and no other end is left in the refinement.
* `models.py:1110`: a load of a run is two SELECTs, and a commit between them goes unnoticed by the event number. A start
  that straddles a cancellation puts the cancelled run back into the queue, one that straddles a publication lets a
  second change set be published, a pause that straddles a claim's load leaves a lease on a paused run, and one that straddles the last
  lease check is overwritten by the completion. All properties of `agent_run` name this exception (`straddled`).
* `approvals/service.py:260`: a decision that overlaps a revision writes its status after the revision set `draft`: the
  new version is approved and no approval is for it, against lines 3-4 of that file (`FreshUnlessRaced` without `~stale`).
* `gates/routes.py:410`: the idempotency key lives on the evidence row, which a newer submission overwrites; the older
  submission, repeated, is applied again over the newer result, and only then fails on its history entry.
* `work_items/routes.py:196`: a feature with a story below it can be made a story: the new kind is checked against the
  item's own parent, not its children, although `work_items/service.py:17` says that a child must be strictly lower.
* `gates/routes.py:594`: the check `acceptance_session_completed` looks for status `completed`; sessions end `accepted` or
  `failed` (`design/routes.py:535-538`), so it is never derived.
* `auth.tsx:10`: the answer to the first probe is taken whenever it comes: a sign-in that is answered before it is
  undone on the page, with the cookie in place. And nothing tells a tab that another one, or the workbench, has changed the
  cookie: it goes on showing the former user (`crossed`).
* `auth/routes.py:102`, `111`: nor does anything tell a tab that its cookie has reached its `max_age`: it goes on showing
  its user while its requests carry no cookie and are refused (the second half of `ShownUnlessCrossed`).
* `design/routes.py:619`, `633-636`: evidence of an earlier regression test closes a defect that was reopened since.
* `workbench.js:168`: a criterion without a rendered result is posted as a pass, over a failure recorded meanwhile.

Further races are real, need an overlap of two requests, and are what the `~stale` in the properties excludes:
a file recorded while the change set is being self-reviewed, a failed verification recorded while it is being
submitted or approved, a readiness evaluation that undoes a packaging, a gate closed on evidence that has
just been replaced, two dependencies or two moves that close a cycle together, an item deleted while another
is put below it, an analysis applied twice at once, two primary users assigned at once, a result or a
second completion that commits after a verdict. Removing `~stale =>` from a property, or replacing `Whole` by `Runs` in
one of `AgentRun`, shows the traces.

## 7. Running it

    tlc -workers 2 -config MCAgentRun.cfg MCAgentRun.tla
    tlapm AgentRunProofs.tla

The largest instances have one to five million distinct states and take one to two and a half minutes. The
operators commented as *Mutant of X* are not used by the specifications: each is X with a plausible bug, and
replacing X by it makes one property fail, which shows that the property depends on that line of the code.

## 8. Not modelled, and why

* **Left out of the modelled components**: event types and payloads, checkpoint contents, path and diff
  validation (they only refuse), comments and findings that block a submission, architecture decision
  records, decision entries of the gate history, `closed_at`, the derivation of evidence from
  project records (an input), findings of an analysis, transport retries of the deployment webhook.
  In `Acceptance` and `Workbench`: other sessions, non-blocking defects, the texts of the page. In
  `BrowserSession`: the second probe React's StrictMode sends in development, `/auth/csrf`, scopes, and the
  workbench's bearer calls, which need no cookie; its sign-out only forgets its copy of the token, which stays valid.
* **Planned** (section 9): retention, the decision entries of the gate history.
* **Generated code**: `frontend/src/api/generated-hooks.ts` and `generated.ts` are 98 % of the lines of the frontend:
  a fetch wrapper and a query hook for each operation of the OpenAPI document, and its types. They keep no state, and
  what they add to a request is what `orval-mutator.ts` does, which is `Sent` and `CsrfFound`. There is
  nothing in them to be modelled, so that most lines of the JavaScript and TypeScript part are not mapped.
* **Pages of the frontend**: `app.tsx` is one component a line; each runs a query and shows it, or posts a form and
  reads again. What they may do wrong is what the modelled requests may do.
* **Out of scope**: the OIDC exchange, roles, secrets, Git, sandbox containers, backup, observability and API
  contracts. They have no protocol of their own that the modelled
  components depend on; what they refuse is `Refuse`, what they answer is an input.

## 9. Plan

1. *(done)* `AgentRun` with `RunLifecycle`: the only component with processes, leases and crashes.
2. *(done)* `ArtifactReview`, `ChangeSetReview`, `Release`, `ProjectGates`: the approval chain.
3. *(done)* Type correctness and the safety invariants of each as theorems.
4. *(done)* `AuditChain`: writers in turn (advisory lock), hosts whose clocks differ, and the walk of `verify_chain`.
5. *(done)* `WorkItems`: dependencies, hierarchy, numbers, and the application of analyses; its theorems.
6. *(done)* `Assignments`: primary users and segregation groups under overlapping requests, and the duties the
   guide keeps apart.
7. *(done)* `Acceptance` and `Workbench`: previews, acceptance sessions and defects, and the page that drives them;
   `BrowserSession`: tokens, cookies and tabs. Findings and their resolution are left.
8. Retention as an action of `AgentRun` that forgets old events: which of the theorems survive it.
9. *(done)* `Delivery`: change set and release in one module, with the theorems that the detailed review does to
   the release what `Release` expects of it, and that its guarantees carry over; the theorems about `BrowserSession`.
10. The left half of the chain in the same way: the plan of a run as `ArtifactReview` leaves it (`ReviewPlan` in
   `AgentRun`), and the run's change set as `Produce`. Property: whatever is released goes back to an approved
   version of a plan, short of a lost race.
11. The decision entries of the gate history, and `auto_approve_gate` as the series of commits it is.

Abstract specifications worth stating next: *an approval is spent by a revision* (for `ArtifactReview`),
*a deployment consumes an authorization* (for `Release`). Theorems worth proving next: those refinements, that
`Assignments` implements the specification of `AuditChain`, and the optimistic lock with retention.
