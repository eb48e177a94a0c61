---------------------------- MODULE Assignments ----------------------------
(***************************************************************************)
(* The responsibilities of one project (backend/app/projects/routes.py):   *)
(* who is product owner, developer, QA reviewer ... in which period, and   *)
(* the audit event of every change.                                        *)
(*                                                                         *)
(* A request compares what it will write with the assignments it has       *)
(* loaded, and commits later; no lock and no constraint of the table       *)
(* checks the rules again.  Inactive users, archived projects, unknown     *)
(* types and malformed dates refuse a request, which then changes nothing, *)
(* and neither does a request whose process dies before its commit.        *)
(***************************************************************************)
EXTENDS AuditChain

CONSTANTS
    Rows,           \* ids of assignments
    NoRow,          \* an assignment that was not created yet
    Users,
    Kinds,          \* responsibility types in use
    Groups,         \* segregation groups in use
    Named,          \* those of them that clients send by name
    NoGroup,        \* segregation_group is NULL
    Forever,        \* effective_until is NULL: later than every instant
    MaxRequests,    \* bound: the requests of a behaviour that pass their checks
    NoIntent        \* a session without a checked request

\* DEFAULT_SEGREGATION_GROUPS
Default(kind) ==
    CASE kind \in {"developer", "qa_reviewer"} -> "implementation_quality"
      [] kind \in {"release_manager", "security_approver"} -> "release_security"
      [] OTHER -> NoGroup

ASSUME AssignmentsAssumption ==
    /\ Forever \in Nat
    /\ MaxRequests \in Nat
    /\ Named \subseteq Groups
    /\ NoGroup \notin Groups
    /\ \A k \in Kinds : Default(k) \in Groups \cup {NoGroup}

VARIABLES
    row,            \* project_responsibility_assignments
    intent,         \* what the request of each session has checked
    asked,          \* the requests that passed their checks, to bound them
    fresh,          \* sessions whose check saw every commit so far, and
    raced           \* has another session committed (for the properties only)

tableVars == <<row, intent, asked, fresh, raced>>
vars == <<row, intent, asked, fresh, raced, auditVars>>

Instants == 0 .. Forever - 1
Periods  == {p \in Instants \X (1 .. Forever) : p[1] < p[2]}

Assignment == [user : Users, kind : Kinds, primary : BOOLEAN,
               group : Groups \cup {NoGroup}, period : Periods]

TypeOK ==
    /\ AuditTypeOK
    /\ row \in [Rows -> Assignment \cup {NoRow}]
    /\ intent \in [Writers -> [id : Rows, new : Assignment] \cup {NoIntent}]
    /\ asked \in 0 .. MaxRequests
    /\ fresh \subseteq Writers
    /\ raced \in BOOLEAN

Present == {i \in Rows : row[i] # NoRow}

-----------------------------------------------------------------------------
\* _segregation_group; NoGroup stands for a value that is null or missing.
SegregationGroup(kind, value) == IF value = NoGroup THEN Default(kind) ELSE value

\* Mutant of Overlap: only whether the new period starts in the old one.
OverlapAtStart(old, new) == old[1] <= new[1] /\ new[1] < old[2]

Overlap(old, new) == old[1] < new[2] /\ new[1] < old[2]

\* _validate_assignment_conflicts
Conflict(old, new) ==
    /\ Overlap(old.period, new.period)
    /\ \/ old.kind = new.kind /\ old.user = new.user
       \/ old.primary /\ new.primary /\ old.kind = new.kind
       \/ /\ old.primary /\ new.primary
          /\ new.group # NoGroup /\ old.group = new.group
          /\ old.user = new.user

Valid(id, new) == \A i \in Present \ {id} : ~Conflict(row[i], new)

\* A request passes its checks.
Ask(s, id, new) ==
    /\ intent[s] = NoIntent
    /\ s \notin due
    /\ asked < MaxRequests
    /\ Valid(id, new)
    /\ asked' = asked + 1
    /\ intent' = [intent EXCEPT ![s] = [id |-> id, new |-> new]]
    /\ fresh' = fresh \cup {s}
    /\ UNCHANGED <<row, raced, auditVars>>

\* create_responsibility_assignment
AskCreate(s) ==
    \E id \in Rows \ Present, u \in Users, k \in Kinds, p \in BOOLEAN,
       g \in Named \cup {NoGroup}, t \in Periods :
        Ask(s, id, [user |-> u, kind |-> k, primary |-> p,
                    group |-> SegregationGroup(k, g), period |-> t])

\* update_responsibility_assignment: what the payload leaves out stays, the
\* group of the old type included.
AskUpdate(s) ==
    \E id \in Present, u \in Users, k \in Kinds, p \in BOOLEAN,
       g \in Named \cup {NoGroup}, t \in Periods :
        \E sent \in {g, row[id].group} :
            Ask(s, id, [user |-> u, kind |-> k, primary |-> p,
                        group |-> SegregationGroup(k, sent), period |-> t])

\* The change is committed; the audit event is still to be written.
Apply(s) ==
    /\ intent[s] # NoIntent
    /\ row' = [row EXCEPT ![intent[s].id] = intent[s].new]
    /\ intent' = [intent EXCEPT ![s] = NoIntent]
    /\ raced' = (raced \/ s \notin fresh)
    /\ fresh' = {}
    /\ Owe(s)
    /\ UNCHANGED <<asked, chain, lock, link>>

Audit(s) == Record(s) /\ UNCHANGED tableVars

\* The process of a request dies before it has written its event.
Die(s) == s \in due /\ Lose(s) /\ UNCHANGED tableVars

Init ==
    /\ AuditInit
    /\ row = [i \in Rows |-> NoRow]
    /\ intent = [s \in Writers |-> NoIntent]
    /\ asked = 0
    /\ fresh = {}
    /\ raced = FALSE

Next == \E s \in Writers : AskCreate(s) \/ AskUpdate(s) \/ Apply(s) \/ Audit(s) \/ Die(s)

Spec == Init /\ [][Next]_vars

-----------------------------------------------------------------------------
\* What the list of the assignments as_of an instant shows.
Active(t) == {i \in Present : row[i].period[1] <= t /\ t < row[i].period[2]}

\* At every instant a responsibility has at most one primary user, nobody
\* holds it twice, and nobody is the primary user of two assignments in one
\* segregation group -- until two requests overlap, each checked before the
\* other one's commit.  The group is the one in the row: it need not be that of
\* the responsibility, so this is less than DutiesSeparated.
AssignmentsUnlessRaced ==
    raced \/ \A t \in Instants : \A i, j \in Active(t) :
        i # j =>
            /\ row[i].kind = row[j].kind =>
                  row[i].user # row[j].user /\ ~(row[i].primary /\ row[j].primary)
            /\ row[i].primary /\ row[j].primary /\ row[i].user = row[j].user =>
                  row[i].group = NoGroup \/ row[i].group # row[j].group

\* What the guide promises of responsibilities and not of groups: nobody is at
\* one time the primary user for two that have the same default group, developer
\* and QA reviewer, or release manager and security approver
\* (docs/API_GATE_CONTROL_GUIDE.md:261-262).
DutiesSeparated ==
    \A t \in Instants : \A i, j \in Active(t) :
        i # j /\ row[i].primary /\ row[j].primary /\ row[i].user = row[j].user
            => Default(row[i].kind) = NoGroup \/ Default(row[i].kind) # Default(row[j].kind)
=============================================================================
