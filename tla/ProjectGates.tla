---------------------------- MODULE ProjectGates ----------------------------
(***************************************************************************)
(* The numbered gates of one project (backend/app/gates/routes.py): each   *)
(* gate collects evidence for its checks and decisions of its reviewers,   *)
(* and is closed once both are complete and the gate before it is closed.  *)
(*                                                                         *)
(* A request loads the gate with its evidence and decisions, the policy    *)
(* and the gate before it, works on that copy and commits the columns it   *)
(* changed.  Every gate has the same checks and reviewers here; a check    *)
(* that is not applicable counts as passed, one that is not run or blocked *)
(* counts as failed.                                                       *)
(*                                                                         *)
(* Scopes, roles, responsibility assignments, the kind of principal and    *)
(* payload validation only make a request Refuse; auto_approve_gate is a   *)
(* series of approved decisions, each committed on its own.                *)
(***************************************************************************)
EXTENDS Integers

CONSTANTS
    N,                  \* the number of gates (7 in GATE_CHECKS)
    Checks,             \* required_evidence of a gate
    Responsibilities,   \* the responsibility types that decide on a gate
    Verdicts,           \* the decisions reviewers take
    Policies,           \* the gate policies the project may be given
    Keys, NoKey,        \* idempotency keys of evidence submissions, and NULL
    Submissions,        \* the submissions clients make, and make again
    Sessions            \* requests in progress at one time

Gates   == 1 .. N
Passing == {"passed", "waived"}
Results == Passing \cup {"failed"}
Policy  == [mode : {"human_api", "api_automation", "disabled"},
            require_gate_decisions : BOOLEAN, require_previous_gate_closed : BOOLEAN,
            allow_waivers : BOOLEAN, auto_sync_evidence : BOOLEAN]

ASSUME GatesAssumption ==
    /\ N \in Nat \ {0}
    /\ NoKey \notin Keys
    /\ Policies \subseteq Policy
    /\ Verdicts \subseteq {"approved", "rejected", "changes_requested", "waived"}
    /\ Submissions \subseteq [gate : Gates, check : Checks, status : Results,
                              key : Keys \cup {NoKey}]

VARIABLES
    status,     \* project_gates.status
    evidence,   \* project_gate_evidence of each gate, one row for each check
    decisions,  \* project_gate_decisions of each gate
    history,    \* the keys of the evidence entries of project_gate_history
    policy,     \* the gate policy in force for the project
    stale,      \* has a request committed what it decided on a gate or on evidence
                \* that was not like that any more (for the properties only)
    pc,         \* where each request is
    copy        \* what each request has loaded

vars == <<status, evidence, decisions, history, policy, stale, pc, copy>>

\* A row of evidence; lapsed tells that its expires_at has passed, and a write
\* of the row gives it a new one.
Evidence  == [status : Results \cup {"missing"}, lapsed : BOOLEAN, key : Keys \cup {NoKey}]
Missing   == [status |-> "missing", lapsed |-> FALSE, key |-> NoKey]
Decisions == [responsibility : Responsibilities, decision : Verdicts]
Statuses  == {"open", "ready", "closed"}
Copies    == [gate : Gates, status : Statuses, evidence : [Checks -> Evidence],
              decisions : SUBSET Decisions, previousClosed : BOOLEAN, policy : Policy]
NoPolicy  == [mode |-> "disabled", require_gate_decisions |-> FALSE,
              require_previous_gate_closed |-> FALSE, allow_waivers |-> FALSE,
              auto_sync_evidence |-> FALSE]
NoCopy    == [gate |-> 1, status |-> "open", evidence |-> [k \in Checks |-> Missing],
              decisions |-> {}, previousClosed |-> FALSE, policy |-> NoPolicy]

-----------------------------------------------------------------------------
(* What a gate still lacks, as its loaded copy c shows it.                 *)

BlockingChecks(ev) == {k \in Checks : ev[k].status \notin Passing \/ ev[k].lapsed}

\* Mutant of MissingDecisions: any decision of a reviewer counts.
MissingAnyDecision(ds, p) ==
    IF p.require_gate_decisions /\ p.mode # "disabled"
    THEN Responsibilities \ {d.responsibility : d \in ds} ELSE {}

\* An approval counts for good, whatever the same reviewer decides later.
MissingDecisions(ds, p) ==
    IF p.require_gate_decisions /\ p.mode # "disabled"
    THEN Responsibilities \ {d.responsibility : d \in {e \in ds : e.decision = "approved"}}
    ELSE {}

Ready(c, ev) == /\ BlockingChecks(ev) = {}
                /\ MissingDecisions(c.decisions, c.policy) = {}
                /\ c.policy.require_previous_gate_closed => c.previousClosed

-----------------------------------------------------------------------------
(* Requests.                                                               *)

Open(s, n) ==
    /\ pc[s] = "idle"
    /\ pc' = [pc EXCEPT ![s] = "loaded"]
    /\ copy' = [copy EXCEPT ![s] = [gate |-> n, status |-> status[n],
                                    evidence |-> evidence[n], decisions |-> decisions[n],
                                    previousClosed |-> n = 1 \/ status[n - 1] = "closed",
                                    policy |-> policy]]
    /\ UNCHANGED <<status, evidence, decisions, history, policy, stale>>

Finish(s) == /\ pc' = [pc EXCEPT ![s] = "idle"]
             /\ copy' = [copy EXCEPT ![s] = NoCopy]

\* The gate and the results of its checks are still as they were loaded.
UpToDate(s) ==
    LET c == copy[s]
    IN  /\ c.status = status[c.gate]
        /\ \A k \in Checks : c.evidence[k].status = evidence[c.gate][k].status

Commit(s) == /\ stale' = (stale \/ ~UpToDate(s))
             /\ Finish(s)

\* An UPDATE leaves a column out when the new value is the loaded one.
Column(new, loaded, now) == IF new = loaded THEN now ELSE new

SetStatus(s, new) ==
    status' = [status EXCEPT ![copy[s].gate] = Column(new, copy[s].status, @)]

\* _upsert_evidence; without an idempotency key the row keeps the one it has.
Upserted(s, k, result, key) ==
    LET now    == evidence[copy[s].gate][k]
        loaded == copy[s].evidence[k]
    IN  [status |-> Column(result, loaded.status, now.status), lapsed |-> FALSE,
         key    |-> IF key = NoKey THEN now.key ELSE Column(key, loaded.key, now.key)]

\* A submission that is already there: its key is on some row of the gate.
Replayed(s, r) == r.key # NoKey /\ \E k \in Checks : copy[s].evidence[k].key = r.key

\* Mutant of SubmitEvidence: a closed gate stays closed.
SubmitKeepingStatus(s, r) ==
    /\ pc[s] = "loaded" /\ copy[s].gate = r.gate
    /\ r.status = "waived" => copy[s].policy.allow_waivers
    /\ ~Replayed(s, r)
    /\ r.key # NoKey => \A k \in Checks \ {r.check} : evidence[r.gate][k].key # r.key
    /\ evidence' = [evidence EXCEPT ![r.gate][r.check] = Upserted(s, r.check, r.status, r.key)]
    /\ history' = history \cup {<<r.gate, r.key>>}
    /\ Commit(s)
    /\ UNCHANGED <<status, decisions, policy>>

\* submit_evidence; UNIQUE (gate_id, idempotency_key) backs the look-up.  The
\* history entry is inserted after the commit: when its key is there already
\* the request fails, with the evidence replaced all the same.
SubmitEvidence(s, r) ==
    /\ pc[s] = "loaded" /\ copy[s].gate = r.gate
    /\ r.status = "waived" => copy[s].policy.allow_waivers
    /\ ~Replayed(s, r)
    /\ r.key # NoKey => \A k \in Checks \ {r.check} : evidence[r.gate][k].key # r.key
    /\ evidence' = [evidence EXCEPT ![r.gate][r.check] = Upserted(s, r.check, r.status, r.key)]
    /\ SetStatus(s, "open")
    /\ history' = history \cup {<<r.gate, r.key>>}
    /\ Commit(s)
    /\ UNCHANGED <<decisions, policy>>

\* Commits what was derived for some of the checks and the evaluation of it.
\* A row that is new is not yet in the loaded collection the evaluation reads.
Record(s, derived) ==
    LET n    == copy[s].gate
        seen == [k \in Checks |->
                    IF k \in DOMAIN derived /\ copy[s].evidence[k].status # "missing"
                    THEN [copy[s].evidence[k] EXCEPT !.status = derived[k], !.lapsed = FALSE]
                    ELSE copy[s].evidence[k]]
    IN  /\ evidence' = [evidence EXCEPT ![n] = [k \in Checks |->
                IF k \in DOMAIN derived THEN Upserted(s, k, derived[k], NoKey) ELSE @[k]]]
        /\ SetStatus(s, IF Ready(copy[s], seen) THEN "ready" ELSE "open")

\* sync_gate: the records of the project decide what _derive_check returns.
Sync(s, derived) ==
    /\ pc[s] = "loaded"
    /\ Record(s, derived)
    /\ Commit(s)
    /\ UNCHANGED <<decisions, history, policy>>

\* evaluate_gate: only checks without evidence are derived, if the policy says so.
Evaluate(s, derived) ==
    /\ pc[s] = "loaded"
    /\ \A k \in DOMAIN derived : /\ copy[s].policy.auto_sync_evidence
                                 /\ copy[s].evidence[k].status = "missing"
    /\ Record(s, derived)
    /\ Commit(s)
    /\ UNCHANGED <<decisions, history, policy>>

\* _record_decision: anything but an approval reopens the gate.
Decide(s, d) ==
    /\ pc[s] = "loaded"
    /\ copy[s].policy.mode # "disabled"
    /\ d.decision = "waived" => copy[s].policy.allow_waivers
    /\ decisions' = [decisions EXCEPT ![copy[s].gate] = @ \cup {d}]
    /\ IF d.decision = "approved" THEN UNCHANGED status ELSE SetStatus(s, "open")
    /\ Commit(s)
    /\ UNCHANGED <<evidence, history, policy>>

\* close_gate.  Asking for the previous gate flushes the evaluated status, so
\* that a gate loaded as closed is then written again.
Close(s) ==
    /\ pc[s] = "loaded"
    /\ Ready(copy[s], copy[s].evidence)
    /\ IF copy[s].gate > 1 /\ copy[s].policy.require_previous_gate_closed
       THEN status' = [status EXCEPT ![copy[s].gate] = "closed"]
       ELSE SetStatus(s, "closed")
    /\ Commit(s)
    /\ UNCHANGED <<evidence, decisions, history, policy>>

\* Mutant of Reopen: a status of its own.
ReopenAsReopened(s) ==
    /\ pc[s] = "loaded"
    /\ copy[s].status = "closed"
    /\ SetStatus(s, "reopened")
    /\ Commit(s)
    /\ UNCHANGED <<evidence, decisions, history, policy>>

\* reopen_gate: the gates after it stay as they are.
Reopen(s) ==
    /\ pc[s] = "loaded"
    /\ copy[s].status = "closed"
    /\ SetStatus(s, "open")
    /\ Commit(s)
    /\ UNCHANGED <<evidence, decisions, history, policy>>

\* A replayed submission or decision, and every error.
Refuse(s) ==
    /\ pc[s] = "loaded"
    /\ Finish(s)
    /\ UNCHANGED <<status, evidence, decisions, history, policy, stale>>

Request(s) ==
    \/ \E n \in Gates : Open(s, n)
    \/ \E r \in Submissions : SubmitEvidence(s, r)
    \/ \E ks \in SUBSET Checks : \E derived \in [ks -> {"passed", "failed"}] :
           Sync(s, derived) \/ Evaluate(s, derived)
    \/ \E d \in Decisions : Decide(s, d)
    \/ Close(s)
    \/ Reopen(s)
    \/ Refuse(s)

\* update_project_gate_policy.
UpdatePolicy ==
    /\ policy' \in Policies
    /\ UNCHANGED <<status, evidence, decisions, history, stale, pc, copy>>

\* The expires_at of a row passes.
Lapse(n, k) ==
    /\ evidence[n][k].status \in Passing
    /\ evidence' = [evidence EXCEPT ![n][k].lapsed = TRUE]
    /\ UNCHANGED <<status, decisions, history, policy, stale, pc, copy>>

-----------------------------------------------------------------------------
Init == /\ status = [n \in Gates |-> "open"]
        /\ evidence = [n \in Gates |-> [k \in Checks |-> Missing]]
        /\ decisions = [n \in Gates |-> {}]
        /\ history = {}
        /\ policy \in Policies
        /\ stale = FALSE
        /\ pc = [s \in Sessions |-> "idle"]
        /\ copy = [s \in Sessions |-> NoCopy]

Next == \/ \E s \in Sessions : Request(s)
        \/ UpdatePolicy
        \/ \E n \in Gates, k \in Checks : Lapse(n, k)

Spec == Init /\ [][Next]_vars

-----------------------------------------------------------------------------
(* Properties.                                                             *)

\* The tables stay well formed.
TypeOK ==
    /\ status \in [Gates -> Statuses]
    /\ evidence \in [Gates -> [Checks -> Evidence]]
    /\ decisions \in [Gates -> SUBSET Decisions]
    /\ history \subseteq Gates \X (Keys \cup {NoKey})
    /\ policy \in Policies
    /\ stale \in BOOLEAN
    /\ pc \in [Sessions -> {"idle", "loaded"}]
    /\ copy \in [Sessions -> Copies]

\* While a gate is closed, each of its checks rests on evidence that passed or
\* was waived when it was last written: later evidence, a synchronisation and
\* an evaluation that say otherwise take the gate out of closed
\* (submit_evidence, sync_gate, evaluate_gate, close_gate) - unless a request
\* has committed on a stale copy of the gate.
ClosedOnEvidence ==
    ~stale => \A n \in Gates : status[n] = "closed" =>
                  \A k \in Checks : evidence[n][k].status \in Passing

\* The policies the project may be given agree on whether reviewers decide.
Asks(p)       == p.require_gate_decisions /\ p.mode # "disabled"
PoliciesAgree == \A p, q \in Policies : Asks(p) = Asks(q)

\* A gate that reviewers must decide on is closed on an approval of each of
\* them, whichever requests overlap and whatever the reviewers decide later, as
\* long as no policy takes that duty away (close_gate, _missing_decisions).
ClosedOnApproval ==
    PoliciesAgree => \A n \in Gates : status[n] = "closed" /\ Asks(policy) =>
        \A r \in Responsibilities : [responsibility |-> r, decision |-> "approved"] \in decisions[n]
=============================================================================
