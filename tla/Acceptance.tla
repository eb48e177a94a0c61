----------------------------- MODULE Acceptance -----------------------------
(***************************************************************************)
(* Human acceptance on the server (backend/app/design/routes.py): a        *)
(* protected preview, an acceptance session for it with a result for every *)
(* criterion, and a defect of the session.                                 *)
(*                                                                         *)
(* A request loads the session, decides, and commits later; nothing is     *)
(* locked or read again in between.  Only the unique key of a result and   *)
(* the columns an UPDATE writes are settled by the database.               *)
(*                                                                         *)
(* The outcome na counts as pass, blocked as fail.  Of the statuses of a   *)
(* defect only closed matters, so open stands for the others, fixed and    *)
(* reopened included.  The defect is one that blocks, critical or high.    *)
(* Closing it may need passed regression evidence, which the request can   *)
(* bring along, so evidence is left out: it only refuses requests.         *)
(***************************************************************************)
EXTENDS Integers, FiniteSets

CONSTANTS
    Criteria,       \* the criteria of the session, numbered in their order
    Slots,          \* requests in progress at one time
    NoRequest       \* a slot without a request that has loaded the session

ASSUME AcceptanceAssumption == Criteria \subseteq Nat /\ IsFiniteSet(Criteria)

VARIABLES
    preview,        \* preview_deployments.status, with its expiry
    status,         \* acceptance_sessions.status
    result,         \* acceptance_results.outcome of each criterion
    defect,         \* defects.status, or whether there is none yet
    request,        \* what each request in progress has decided to write
    fresh,          \* requests that have seen every commit so far (any result,
                    \* verdict or defect), and has a request written a verdict,
    raced           \* or a result after the verdict, without (for the
                    \* properties only)

serverVars == <<preview, status, result, defect, request, fresh, raced>>

Outcomes == {"pass", "fail"}
Verdicts == {"accepted", "failed"}

Requests ==
    [op : {"result"}, criterion : Criteria, outcome : Outcomes, insert : BOOLEAN]
        \cup [op : {"complete"}, verdict : Verdicts]
        \cup [op : {"defect"}, status : {"open", "closed"}]

ASSUME RequestsAssumption == NoRequest \notin Requests

\* A session that is not there has no results, one with a verdict has all.
ServerTypeOK ==
    /\ preview \in {"none", "active", "expired", "revoked"}
    /\ status \in {"none", "open"} \cup Verdicts
    /\ result \in [Criteria -> Outcomes \cup {"none"}]
    /\ defect \in {"absent", "open", "closed"}
    /\ request \in [Slots -> Requests \cup {NoRequest}]
    /\ fresh \subseteq Slots
    /\ raced \in BOOLEAN
    /\ status = "none" => \A c \in Criteria : result[c] = "none"
    /\ status \in Verdicts => \A c \in Criteria : result[c] # "none"

-----------------------------------------------------------------------------
(* Previews and the session.                                               *)

\* create_preview, of an approved mockup and with an expiry in the future.
CreatePreview ==
    /\ preview = "none"
    /\ preview' = "active"
    /\ UNCHANGED <<status, result, defect, request, fresh, raced>>

\* expires_at passes; no process writes it down.  (Nothing looks at the preview
\* any more once there is a session, so what becomes of it then is left out.)
Expire ==
    /\ preview = "active" /\ status = "none"
    /\ preview' = "expired"
    /\ UNCHANGED <<status, result, defect, request, fresh, raced>>

\* revoke_preview; what is past its expiry is still active in its row.
RevokePreview ==
    /\ preview \in {"active", "expired"} /\ status = "none"
    /\ preview' = "revoked"
    /\ UNCHANGED <<status, result, defect, request, fresh, raced>>

\* create_acceptance_session
CreateSession ==
    /\ preview = "active"
    /\ status = "none"
    /\ status' = "open"
    /\ UNCHANGED <<preview, result, defect, request, fresh, raced>>

-----------------------------------------------------------------------------
(* What a request decides on what it loads.                                *)

Decide(s, r) ==
    /\ request[s] = NoRequest
    /\ request' = [request EXCEPT ![s] = r]
    /\ fresh' = fresh \cup {s}
    /\ UNCHANGED <<preview, status, result, defect, raced>>

\* Mutant of Recordable: a session with a verdict takes results.
RecordableAlways == status # "none"

Recordable == status = "open"

\* record_acceptance_result
DecideResult(s, c, outcome) ==
    /\ Recordable
    /\ Decide(s, [op |-> "result", criterion |-> c, outcome |-> outcome,
                  insert |-> result[c] = "none"])

Blocking == defect = "open"

Verdict ==
    IF Blocking \/ \E c \in Criteria : result[c] = "fail" THEN "failed" ELSE "accepted"

\* Mutant of Completable: a session can be completed again.
CompletableAgain == status # "none"

Completable == status = "open"

\* Mutant of AllRecorded: one result is enough.
SomeRecorded == \E c \in Criteria : result[c] # "none"

AllRecorded == \A c \in Criteria : result[c] # "none"

\* complete_acceptance_session
DecideVerdict(s) ==
    /\ Completable
    /\ AllRecorded
    /\ Decide(s, [op |-> "complete", verdict |-> Verdict])

\* update_defect: from any status to any other.
DecideDefect(s, to) ==
    /\ defect # "absent"
    /\ Decide(s, [op |-> "defect", status |-> to])

\* create_defect, of the session.
CreateDefect ==
    /\ status # "none"
    /\ defect = "absent"
    /\ defect' = "open"
    /\ fresh' = {}
    /\ UNCHANGED <<preview, status, result, request, raced>>

-----------------------------------------------------------------------------
(* Its commit.                                                             *)

Answer(s) ==
    /\ request' = [request EXCEPT ![s] = NoRequest]
    /\ UNCHANGED preview

\* uq_acceptance_result_criterion: another request has inserted the row.
Duplicate(r) == r.insert /\ result[r.criterion] # "none"

CommitResult(s) ==
    /\ request[s] # NoRequest /\ request[s].op = "result"
    /\ ~Duplicate(request[s])
    /\ result' = [result EXCEPT ![request[s].criterion] = request[s].outcome]
    /\ fresh' = {}
    /\ raced' = (raced \/ (status # "open" /\ s \notin fresh))
    /\ Answer(s)
    /\ UNCHANGED <<status, defect>>

CommitVerdict(s) ==
    /\ request[s] # NoRequest /\ request[s].op = "complete"
    /\ status' = request[s].verdict
    /\ fresh' = {}
    /\ raced' = (raced \/ s \notin fresh)
    /\ Answer(s)
    /\ UNCHANGED <<result, defect>>

CommitDefect(s) ==
    /\ request[s] # NoRequest /\ request[s].op = "defect"
    /\ defect' = request[s].status
    /\ fresh' = {}
    /\ Answer(s)
    /\ UNCHANGED <<status, result, raced>>

\* The insert fails, or the process dies: nothing is written.
Drop(s) ==
    /\ request[s] # NoRequest
    /\ Answer(s)
    /\ fresh' = fresh \ {s}
    /\ UNCHANGED <<status, result, defect, raced>>

ServerInit ==
    /\ preview = "none"
    /\ status = "none"
    /\ result = [c \in Criteria |-> "none"]
    /\ defect = "absent"
    /\ request = [s \in Slots |-> NoRequest]
    /\ fresh = {}
    /\ raced = FALSE

-----------------------------------------------------------------------------
\* An accepted session has a pass for every criterion, a failed one has a
\* reason, a failure or a blocking defect: also after the verdict, which
\* nothing but an overlap with it can undo -- the session is neither locked
\* nor read again between a decision and its commit.
VerdictUnlessRaced ==
    raced \/ /\ status = "accepted" => \A c \in Criteria : result[c] = "pass"
             /\ status = "failed" => \/ \E c \in Criteria : result[c] = "fail"
                                     \/ defect # "absent"

\* A verdict is final, unless some request overlapped: a completion that was
\* decided before another commit, of a verdict, a result or a defect, and
\* committed after it, or a result decided before the verdict and committed
\* after it.  (Of these, only another completion changes the verdict.)
VerdictFinal == [][(status \in Verdicts /\ ~raced') => status' = status]_serverVars
=============================================================================
