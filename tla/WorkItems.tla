----------------------------- MODULE WorkItems ------------------------------
(***************************************************************************)
(* The work items of one project (backend/app/work_items) and the analyses *)
(* of its requirement baseline that generate them (requirements/routes.py):*)
(* a hierarchy of kinds, dependencies without cycles, project-unique       *)
(* numbers.                                                                *)
(*                                                                         *)
(* A request checks its rules on what it has loaded, and commits later.    *)
(* Nothing locks the items in between: the rules are checked by Python     *)
(* code, and only foreign keys and unique constraints are checked again by *)
(* the database.  What a request is about to write is its intent.          *)
(*                                                                         *)
(* Titles, priorities, owners, findings and the like are left out; a       *)
(* missing scope, an item of another project, a malformed payload and the  *)
(* status of the baseline only make a request Refuse.  An id is a fresh    *)
(* UUID, so every item is created at most once.                            *)
(***************************************************************************)
EXTENDS Integers, FiniteSets

CONSTANTS
    Items,          \* the ids of work items
    NoItem,         \* parent_id of a root
    Kinds,          \* the kinds in use
    Analyses,       \* the ids of analyses
    NoAnalysis,     \* source_analysis_id of an item entered by hand
    Sessions        \* requests in progress at one time

\* Lower rank, higher in the hierarchy.
KIND_RANK == [epic |-> 0, feature |-> 1, story |-> 2, task |-> 3, test_case |-> 3]

ASSUME ItemsAssumption == IsFiniteSet(Items) /\ NoItem \notin Items
ASSUME KindsAssumption == Kinds \subseteq {"epic", "feature", "story", "task", "test_case"}
ASSUME AnalysesAssumption == NoAnalysis \notin Analyses

VARIABLES
    kind,       \* work_items.kind, or whether the row is not there yet or any more
    parent,     \* work_items.parent_id
    number,     \* work_items.number
    origin,     \* work_items.source_analysis_id, and the batch the item came in
    deps,       \* work_item_dependencies: <<work_item_id, depends_on_id>>
    analysed,   \* requirement_analyses: not there, of the current version of
                \* the baseline, or of an earlier one
    stale,      \* has a request committed what its rules would have refused by
                \* then (for the properties only)
    intent      \* what each request in progress has checked and will write

items == <<kind, parent, number, origin, deps>>
vars  == <<kind, parent, number, origin, deps, analysed, stale, intent>>

Live   == {i \in Items : kind[i] \in Kinds}
Absent == {i \in Items : kind[i] = "absent"}

NoOrigin == [analysis |-> NoAnalysis, batch |-> {}]
Origins  == [analysis : Analyses \cup {NoAnalysis}, batch : SUBSET Items]

\* number is 0 until the request has queried the highest one.
Creations(new) == [op : {"create"}, kinds : [new -> Kinds], parents : [new -> Items \cup {NoItem}],
                   analysis : Analyses \cup {NoAnalysis}, number : Nat]
IsIntent(o) ==
    \/ o \in [op : {"none"}]
    \/ \E new \in SUBSET Items : o \in Creations(new)
    \/ o \in [op : {"update"}, item : Items, kind : Kinds, parent : Items \cup {NoItem},
              writes : SUBSET {"kind", "parent"}]
    \/ o \in [op : {"delete"}, item : Items]
    \/ o \in [op : {"link", "unlink"}, item : Items, target : Items]
NoIntent == [op |-> "none"]

-----------------------------------------------------------------------------
(* The rules of service.py, on the items as they are now.                  *)

\* validate_parent: only an epic is a root, and a child ranks below its parent.
ValidParent(k, p, kinds) ==
    IF k = "epic" THEN p = NoItem
                  ELSE p # NoItem /\ KIND_RANK[kinds[p]] < KIND_RANK[k]

\* The item and its _descendants: what every set with the item in it has that
\* is closed under taking children.
Below(i) ==
    {x \in Items : \A C \in SUBSET Items :
        (i \in C /\ \A j \in Items : parent[j] \in C => j \in C) => x \in C}

\* _upstream_closure, in the same manner.
Upstream(t) ==
    {x \in Items : \A C \in SUBSET Items :
        (t \in C /\ \A e \in deps : e[1] \in C => e[2] \in C) => x \in C}

\* Mutant of ValidCreation: an analysis may be applied again.
ValidRepeatedCreation(o) ==
    IF o.analysis = NoAnalysis
    THEN \A i \in DOMAIN o.kinds : /\ o.parents[i] \in Live \cup {NoItem}
                                   /\ ValidParent(o.kinds[i], o.parents[i], kind)
    ELSE /\ analysed[o.analysis] = "current"
         /\ \A i \in DOMAIN o.kinds : /\ o.parents[i] \in DOMAIN o.kinds \cup {NoItem}
                                      /\ ValidParent(o.kinds[i], o.parents[i], o.kinds)

\* create_work_item: one item, below an item that is there.
\* apply_work_items: the proposals, below each other, of an analysis of the
\* current version that has no work items yet.
ValidCreation(o) ==
    IF o.analysis = NoAnalysis
    THEN \A i \in DOMAIN o.kinds : /\ o.parents[i] \in Live \cup {NoItem}
                                   /\ ValidParent(o.kinds[i], o.parents[i], kind)
    ELSE /\ analysed[o.analysis] = "current"
         /\ \A i \in Live : origin[i].analysis # o.analysis
         /\ \A i \in DOMAIN o.kinds : /\ o.parents[i] \in DOMAIN o.kinds \cup {NoItem}
                                      /\ ValidParent(o.kinds[i], o.parents[i], o.kinds)

\* UPDATE writes the columns that differ from what was loaded.
NewKind(o)   == IF "kind" \in o.writes THEN o.kind ELSE kind[o.item]
NewParent(o) == IF "parent" \in o.writes THEN o.parent ELSE parent[o.item]

\* Mutant of ValidUpdate: an item may be put below its own descendants.
ValidUpdateByRank(o) ==
    /\ o.item \in Live
    /\ NewParent(o) \in Live \cup {NoItem}
    /\ ValidParent(NewKind(o), NewParent(o), kind)

ValidUpdate(o) ==
    /\ o.item \in Live
    /\ NewParent(o) \in Live \cup {NoItem}
    /\ NewParent(o) \notin Below(o.item)
    /\ ValidParent(NewKind(o), NewParent(o), kind)

\* Mutant of ValidDelete: children do not matter.
ValidDeleteOfParents(o) == o.item \in Live

ValidDelete(o) == o.item \in Live /\ \A j \in Items : parent[j] # o.item

\* Mutant of ValidLink: only a dependency of an item on itself is circular.
ValidLinkToAnother(o) ==
    /\ o.item \in Live /\ o.target \in Live
    /\ <<o.item, o.target>> \notin deps
    /\ o.item # o.target

\* A dependency that is there already is answered without a change.
ValidLink(o) ==
    /\ o.item \in Live /\ o.target \in Live
    /\ <<o.item, o.target>> \notin deps
    /\ o.item \notin Upstream(o.target)

ValidUnlink(o) == <<o.item, o.target>> \in deps

-----------------------------------------------------------------------------
(* Requests: the check.                                                    *)

Ask(s, o) == /\ intent[s] = NoIntent
             /\ intent' = [intent EXCEPT ![s] = o]
             /\ UNCHANGED <<items, analysed, stale>>

AskCreate(s) ==
    \E i \in Absent, k \in Kinds, p \in Items \cup {NoItem} :
        LET o == [op |-> "create", kinds |-> [j \in {i} |-> k], parents |-> [j \in {i} |-> p],
                  analysis |-> NoAnalysis, number |-> 0]
        IN  ValidCreation(o) /\ Ask(s, o)

\* The proposals of a provider are any hierarchy that passes the rules.
AskApply(s) ==
    \E a \in Analyses, new \in (SUBSET Absent) \ {{}} :
        \E kinds \in [new -> Kinds], parents \in [new -> new \cup {NoItem}] :
            LET o == [op |-> "create", kinds |-> kinds, parents |-> parents,
                      analysis |-> a, number |-> 0]
            IN  ValidCreation(o) /\ Ask(s, o)

AskUpdate(s) ==
    \E i \in Live, k \in Kinds, p \in Items \cup {NoItem} :
        LET o == [op |-> "update", item |-> i, kind |-> k, parent |-> p,
                  writes |-> {c \in {"kind", "parent"} : IF c = "kind" THEN k # kind[i]
                                                                     ELSE p # parent[i]}]
        IN  ValidUpdate(o) /\ Ask(s, o)

AskDelete(s) ==
    \E i \in Live : LET o == [op |-> "delete", item |-> i]
                    IN  ValidDelete(o) /\ Ask(s, o)

AskLink(s) ==
    \E i, t \in Live : LET o == [op |-> "link", item |-> i, target |-> t]
                       IN  ValidLink(o) /\ Ask(s, o)

AskUnlink(s) ==
    \E e \in deps : Ask(s, [op |-> "unlink", item |-> e[1], target |-> e[2]])

\* next_number: the highest number plus one, after the rules have been checked.
Number(s) ==
    /\ intent[s].op = "create"
    /\ intent[s].number = 0
    /\ \E n \in {1} \cup {number[i] + 1 : i \in Live} :
           /\ \A i \in Live : number[i] < n
           /\ intent' = [intent EXCEPT ![s].number = n]
    /\ UNCHANGED <<items, analysed, stale>>

-----------------------------------------------------------------------------
(* Requests: the commit.                                                   *)

Commit(s, valid) == /\ intent' = [intent EXCEPT ![s] = NoIntent]
                    /\ stale' = (stale \/ ~valid)
                    /\ UNCHANGED analysed

\* The parents must exist (foreign key) and the numbers be free (unique).
Create(s) ==
    LET o   == intent[s]
        new == DOMAIN o.kinds
    IN  /\ o.op = "create"
        /\ o.number # 0
        /\ new \subseteq Absent
        /\ \A i \in new : o.parents[i] \in Live \cup new \cup {NoItem}
        /\ LET free == o.number .. (o.number + Cardinality(new) - 1)
           IN  /\ \A i \in Live : number[i] \notin free
               /\ \E numbers \in [new -> free] :
                      /\ \A i \in new : o.parents[i] \in new => numbers[o.parents[i]] < numbers[i]
                      /\ \A i, j \in new : numbers[i] = numbers[j] => i = j
                      /\ number' = [i \in Items |-> IF i \in new THEN numbers[i] ELSE number[i]]
        /\ kind' = [i \in Items |-> IF i \in new THEN o.kinds[i] ELSE kind[i]]
        /\ parent' = [i \in Items |-> IF i \in new THEN o.parents[i] ELSE parent[i]]
        /\ origin' = [i \in Items |-> IF i \in new THEN [analysis |-> o.analysis, batch |-> new]
                                                   ELSE origin[i]]
        /\ Commit(s, ValidCreation(o))
        /\ UNCHANGED deps

Update(s) ==
    LET o == intent[s]
    IN  /\ o.op = "update"
        /\ o.item \in Live
        /\ NewParent(o) \in Live \cup {NoItem}
        /\ kind' = [kind EXCEPT ![o.item] = NewKind(o)]
        /\ parent' = [parent EXCEPT ![o.item] = NewParent(o)]
        /\ Commit(s, ValidUpdate(o))
        /\ UNCHANGED <<number, origin, deps>>

\* Mutant of Delete: the dependencies of the item stay.
DeleteKeepingDependencies(s) ==
    LET o == intent[s]
    IN  /\ o.op = "delete"
        /\ o.item \in Live
        /\ kind' = [kind EXCEPT ![o.item] = "deleted"]
        /\ number' = [number EXCEPT ![o.item] = 0]
        /\ origin' = [origin EXCEPT ![o.item] = NoOrigin]
        /\ parent' = [i \in Items |-> IF parent[i] = o.item \/ i = o.item THEN NoItem ELSE parent[i]]
        /\ Commit(s, ValidDelete(o))
        /\ UNCHANGED deps

\* Rows that refer to the item: dependencies go with it (CASCADE), children
\* become roots (SET NULL).
Delete(s) ==
    LET o == intent[s]
    IN  /\ o.op = "delete"
        /\ o.item \in Live
        /\ kind' = [kind EXCEPT ![o.item] = "deleted"]
        /\ number' = [number EXCEPT ![o.item] = 0]
        /\ origin' = [origin EXCEPT ![o.item] = NoOrigin]
        /\ parent' = [i \in Items |-> IF parent[i] = o.item \/ i = o.item THEN NoItem ELSE parent[i]]
        /\ deps' = {e \in deps : e[1] # o.item /\ e[2] # o.item}
        /\ Commit(s, ValidDelete(o))

\* add_dependency: both items must exist, and the pair is the primary key.
Link(s) ==
    LET o == intent[s]
    IN  /\ o.op = "link"
        /\ o.item \in Live /\ o.target \in Live
        /\ <<o.item, o.target>> \notin deps
        /\ deps' = deps \cup {<<o.item, o.target>>}
        /\ Commit(s, ValidLink(o))
        /\ UNCHANGED <<kind, parent, number, origin>>

\* remove_dependency: deleting a row that is gone fails.
Unlink(s) ==
    LET o == intent[s]
    IN  /\ o.op = "unlink"
        /\ <<o.item, o.target>> \in deps
        /\ deps' = deps \ {<<o.item, o.target>>}
        /\ Commit(s, ValidUnlink(o))
        /\ UNCHANGED <<kind, parent, number, origin>>

\* A rule, a constraint or a stale row refuses the request.
Refuse(s) ==
    /\ intent[s] # NoIntent
    /\ intent' = [intent EXCEPT ![s] = NoIntent]
    /\ UNCHANGED <<items, analysed, stale>>

-----------------------------------------------------------------------------
(* The requirement baseline.                                               *)

\* Mutant of Revise: an analysis of an earlier version gets a state of its own.
ReviseSuperseding ==
    /\ analysed' = [a \in Analyses |-> IF analysed[a] = "current" THEN "superseded" ELSE analysed[a]]
    /\ UNCHANGED <<items, stale, intent>>

\* create_version.
Revise ==
    /\ analysed' = [a \in Analyses |-> IF analysed[a] = "current" THEN "outdated" ELSE analysed[a]]
    /\ UNCHANGED <<items, stale, intent>>

\* analyze_baseline: the provider may take so long that the version it was
\* given is not the current one when the analysis is committed.  An earlier
\* analysis becomes superseded, which apply_work_items does not look at.
Analyze(a) ==
    /\ analysed[a] = "none"
    /\ \E v \in {"current", "outdated"} : analysed' = [analysed EXCEPT ![a] = v]
    /\ UNCHANGED <<items, stale, intent>>

-----------------------------------------------------------------------------
Init ==
    /\ kind = [i \in Items |-> "absent"]
    /\ parent = [i \in Items |-> NoItem]
    /\ number = [i \in Items |-> 0]
    /\ origin = [i \in Items |-> NoOrigin]
    /\ deps = {}
    /\ analysed = [a \in Analyses |-> "none"]
    /\ stale = FALSE
    /\ intent = [s \in Sessions |-> NoIntent]

Request(s) ==
    \/ AskCreate(s) \/ AskApply(s) \/ AskUpdate(s) \/ AskDelete(s) \/ AskLink(s) \/ AskUnlink(s)
    \/ Number(s) \/ Create(s) \/ Update(s) \/ Delete(s) \/ Link(s) \/ Unlink(s)
    \/ Refuse(s)

Next == \/ Revise
        \/ \E a \in Analyses : Analyze(a)
        \/ \E s \in Sessions : Request(s)

Spec == Init /\ [][Next]_vars

-----------------------------------------------------------------------------
(* What must hold.                                                         *)

\* Every variable keeps its type (models.py WorkItem, RequirementAnalysis).
TypeOK ==
    /\ kind \in [Items -> Kinds \cup {"absent", "deleted"}]
    /\ parent \in [Items -> Items \cup {NoItem}]
    /\ number \in [Items -> Nat]
    /\ origin \in [Items -> Origins]
    /\ deps \subseteq Items \X Items
    /\ analysed \in [Analyses -> {"none", "current", "outdated"}]
    /\ stale \in BOOLEAN
    /\ DOMAIN intent = Sessions
    /\ \A s \in Sessions : IsIntent(intent[s])

\* However requests overlap, what an item refers to exists: its parent and
\* both ends of a dependency (the foreign keys and their ON DELETE actions).
References ==
    /\ \A i \in Items : parent[i] \in Live \cup {NoItem}
    /\ \A e \in deps : e[1] \in Live /\ e[2] \in Live

\* "Circular dependencies are rejected": among any items one depends on none of
\* them, so there is an order to do the work in - as long as no request has
\* committed what its check would have refused by then.
NoCircularChain == \A S \in (SUBSET Items) \ {{}} : \E i \in S : \A j \in S : <<i, j>> \notin deps
DependenciesUnlessRaced == ~stale => NoCircularChain

\* Items nest: following parents ends, although an item may change its kind and
\* its parent at once, and the ranks of the kinds are not kept by that - as
\* long as no request has committed what its check would have refused by then.
NoCircularHierarchy == \A S \in (SUBSET Items) \ {{}} : \E i \in S : parent[i] \notin S
HierarchyUnlessRaced == ~stale => NoCircularHierarchy

\* Whatever is not an epic is below something, and an epic below nothing, so
\* that all work hangs from an epic - as long as no request has committed what
\* its check would have refused by then.
RootedInEpics == \A i \in Live : kind[i] = "epic" <=> parent[i] = NoItem
RootedUnlessRaced == ~stale => RootedInEpics

\* Applying an analysis again creates nothing again: all work items of an
\* analysis come from one application - as long as no request has committed
\* what its check would have refused by then.
OneApplication ==
    \A i, j \in Live : (origin[i].analysis = origin[j].analysis /\ origin[i].analysis # NoAnalysis)
                       => origin[i].batch = origin[j].batch
OneApplicationUnlessRaced == ~stale => OneApplication

=============================================================================
