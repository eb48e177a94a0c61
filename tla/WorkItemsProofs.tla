-------------------------- MODULE WorkItemsProofs --------------------------
(***************************************************************************)
(* Proofs about WorkItems for any finite set of items, any kinds, and any  *)
(* interleaving of requests: the types and the references always hold;     *)
(* dependencies and hierarchy have no cycles, items hang from epics and an *)
(* analysis is applied once as long as no request has committed what its   *)
(* check would have refused by then.                                       *)
(***************************************************************************)
EXTENDS WorkItems, FiniteSetTheorems, TLAPS

USE ItemsAssumption, KindsAssumption, AnalysesAssumption

-----------------------------------------------------------------------------
(* Intents.                                                                *)

\* A request may take up any intent.
LEMMA SetIntent ==
    ASSUME DOMAIN intent = Sessions, \A t \in Sessions : IsIntent(intent[t]),
           NEW s \in Sessions, NEW o, IsIntent(o), intent' = [intent EXCEPT ![s] = o]
    PROVE  DOMAIN intent' = Sessions /\ \A t \in Sessions : IsIntent(intent'[t])
  <1> SUFFICES ASSUME NEW t \in Sessions PROVE DOMAIN intent' = Sessions /\ IsIntent(intent'[t])
    BY DEF IsIntent
  <1> QED
    BY DEF IsIntent

\* Having none is an intent.
LEMMA NoIntentType == IsIntent(NoIntent)
  BY DEF IsIntent, NoIntent

\* What an intent to create holds.
LEMMA CreationType ==
    ASSUME NEW o, IsIntent(o), o.op = "create"
    PROVE  /\ DOMAIN o.kinds \in SUBSET Items
           /\ o.kinds \in [DOMAIN o.kinds -> Kinds]
           /\ o.parents \in [DOMAIN o.kinds -> Items \cup {NoItem}]
           /\ o.analysis \in Analyses \cup {NoAnalysis}
           /\ o.number \in Nat
           /\ o = [op |-> "create", kinds |-> o.kinds, parents |-> o.parents,
                   analysis |-> o.analysis, number |-> o.number]
  <1>1. PICK new \in SUBSET Items : o \in Creations(new)
    BY DEF IsIntent
  <1> QED
    BY <1>1 DEF Creations

\* What an intent to update holds.
LEMMA UpdateType ==
    ASSUME NEW o, IsIntent(o), o.op = "update"
    PROVE  o.item \in Items /\ o.kind \in Kinds /\ o.parent \in Items \cup {NoItem}
  BY DEF IsIntent, Creations

\* What an intent to link or unlink holds.
LEMMA LinkType ==
    ASSUME NEW o, IsIntent(o), o.op \in {"link", "unlink"}
    PROVE  o.item \in Items /\ o.target \in Items
  BY DEF IsIntent, Creations

-----------------------------------------------------------------------------
(* Types.                                                                  *)

\* A check leaves the types alone.
LEMMA AskTypes ==
    ASSUME TypeOK, NEW s \in Sessions, NEW o, IsIntent(o), Ask(s, o)
    PROVE  TypeOK'
  <1>1. DOMAIN intent' = Sessions /\ \A t \in Sessions : IsIntent(intent'[t])
    BY SetIntent DEF Ask, TypeOK
  <1> QED
    BY <1>1 DEF Ask, TypeOK, items

\* A commit ends the request.
LEMMA CommitTypes ==
    ASSUME TypeOK, NEW s \in Sessions, NEW valid, Commit(s, valid)
    PROVE  /\ DOMAIN intent' = Sessions /\ \A t \in Sessions : IsIntent(intent'[t])
           /\ stale' \in BOOLEAN /\ analysed' = analysed
  <1>1. DOMAIN intent' = Sessions /\ \A t \in Sessions : IsIntent(intent'[t])
    BY SetIntent, NoIntentType DEF Commit, TypeOK
  <1> QED
    BY <1>1 DEF Commit

\* The types are inductive.
LEMMA TypeStep == TypeOK /\ [Next]_vars => TypeOK'
  <1> SUFFICES ASSUME TypeOK, [Next]_vars PROVE TypeOK'
    OBVIOUS
  <1>1. CASE Revise
    BY <1>1 DEF Revise, TypeOK, items
  <1>2. ASSUME NEW a \in Analyses, Analyze(a) PROVE TypeOK'
    BY <1>2 DEF Analyze, TypeOK, items
  <1>3. ASSUME NEW s \in Sessions, Request(s) PROVE TypeOK'
    <2>1. CASE AskCreate(s)
      <3>1. PICK i \in Absent, k \in Kinds, p \in Items \cup {NoItem} :
                Ask(s, [op |-> "create", kinds |-> [j \in {i} |-> k], parents |-> [j \in {i} |-> p],
                        analysis |-> NoAnalysis, number |-> 0])
        BY <2>1 DEF AskCreate
      <3> DEFINE o == [op |-> "create", kinds |-> [j \in {i} |-> k], parents |-> [j \in {i} |-> p],
                       analysis |-> NoAnalysis, number |-> 0]
      <3>2. o \in Creations({i}) /\ {i} \in SUBSET Items
        BY DEF Creations, Absent
      <3>3. IsIntent(o)
        BY <3>2 DEF IsIntent
      <3> HIDE DEF o
      <3> QED
        BY <3>1, <3>3, AskTypes DEF o
    <2>2. CASE AskApply(s)
      <3>1. PICK a \in Analyses, new \in (SUBSET Absent) \ {{}} :
                \E kinds \in [new -> Kinds], parents \in [new -> new \cup {NoItem}] :
                    Ask(s, [op |-> "create", kinds |-> kinds, parents |-> parents,
                            analysis |-> a, number |-> 0])
        BY <2>2 DEF AskApply
      <3>2. PICK kinds \in [new -> Kinds], parents \in [new -> new \cup {NoItem}] :
                Ask(s, [op |-> "create", kinds |-> kinds, parents |-> parents,
                        analysis |-> a, number |-> 0])
        BY <3>1
      <3> DEFINE o == [op |-> "create", kinds |-> kinds, parents |-> parents,
                       analysis |-> a, number |-> 0]
      <3>3. o \in Creations(new) /\ new \in SUBSET Items
        BY DEF Creations, Absent
      <3>4. IsIntent(o)
        BY <3>3 DEF IsIntent
      <3> HIDE DEF o
      <3> QED
        BY <3>2, <3>4, AskTypes DEF o
    <2>3. CASE AskUpdate(s)
      <3>1. PICK i \in Live, k \in Kinds, p \in Items \cup {NoItem} :
                Ask(s, [op |-> "update", item |-> i, kind |-> k, parent |-> p,
                        writes |-> {c \in {"kind", "parent"} : IF c = "kind" THEN k # kind[i]
                                                                           ELSE p # parent[i]}])
        BY <2>3 DEF AskUpdate
      <3> DEFINE o == [op |-> "update", item |-> i, kind |-> k, parent |-> p,
                       writes |-> {c \in {"kind", "parent"} : IF c = "kind" THEN k # kind[i]
                                                                          ELSE p # parent[i]}]
      <3>2. IsIntent(o)
        BY DEF IsIntent, Live
      <3> HIDE DEF o
      <3> QED
        BY <3>1, <3>2, AskTypes DEF o
    <2>4. CASE AskDelete(s)
      <3>1. PICK i \in Live : Ask(s, [op |-> "delete", item |-> i])
        BY <2>4 DEF AskDelete
      <3>2. IsIntent([op |-> "delete", item |-> i])
        BY DEF IsIntent, Live
      <3> QED
        BY <3>1, <3>2, AskTypes
    <2>5. CASE AskLink(s)
      <3>1. PICK i \in Live, t \in Live : Ask(s, [op |-> "link", item |-> i, target |-> t])
        BY <2>5 DEF AskLink
      <3>2. IsIntent([op |-> "link", item |-> i, target |-> t])
        BY DEF IsIntent, Live
      <3> QED
        BY <3>1, <3>2, AskTypes
    <2>6. CASE AskUnlink(s)
      <3>1. PICK e \in deps : Ask(s, [op |-> "unlink", item |-> e[1], target |-> e[2]])
        BY <2>6 DEF AskUnlink
      <3>2. IsIntent([op |-> "unlink", item |-> e[1], target |-> e[2]])
        BY DEF IsIntent, TypeOK
      <3> QED
        BY <3>1, <3>2, AskTypes
    <2>7. CASE Number(s)
      <3>1. PICK n \in {1} \cup {number[i] + 1 : i \in Live} :
                intent' = [intent EXCEPT ![s].number = n]
        BY <2>7 DEF Number
      <3>2. n \in Nat
        BY <3>1 DEF TypeOK, Live
      <3> DEFINE o == intent[s]
                 new == DOMAIN o.kinds
                 next == [op |-> "create", kinds |-> o.kinds, parents |-> o.parents,
                          analysis |-> o.analysis, number |-> n]
      <3>3. IsIntent(o) /\ o.op = "create"
        BY <2>7 DEF Number, TypeOK
      <3>4. next \in Creations(new) /\ new \in SUBSET Items
        BY <3>2, <3>3, CreationType DEF Creations
      <3>5. IsIntent(next)
        BY <3>4 DEF IsIntent
      <3>6. [o EXCEPT !.number = n] = next
        BY <3>3, CreationType
      <3>7. intent' = [intent EXCEPT ![s] = next]
        BY <3>1, <3>6
      <3> HIDE DEF next
      <3>8. DOMAIN intent' = Sessions /\ \A t \in Sessions : IsIntent(intent'[t])
        BY <3>5, <3>7, SetIntent DEF TypeOK
      <3> QED
        BY <2>7, <3>8 DEF Number, TypeOK, items
    <2>8. CASE Create(s)
      <3> DEFINE o == intent[s]
                 new == DOMAIN o.kinds
                 free == o.number .. (o.number + Cardinality(new) - 1)
      <3>1. IsIntent(o) /\ o.op = "create"
        BY <2>8 DEF Create, TypeOK
      <3>2. /\ new \in SUBSET Items
            /\ o.kinds \in [new -> Kinds]
            /\ o.parents \in [new -> Items \cup {NoItem}]
            /\ o.analysis \in Analyses \cup {NoAnalysis}
            /\ o.number \in Nat
        BY <3>1, CreationType
      <3>3. Cardinality(new) \in Nat
        BY <3>2, FS_Subset, FS_CardinalityType
      <3>4. free \subseteq Nat
        BY <3>2, <3>3
      <3>5. PICK numbers \in [new -> free] :
                number' = [i \in Items |-> IF i \in new THEN numbers[i] ELSE number[i]]
        BY <2>8 DEF Create
      <3>6. number' \in [Items -> Nat]
        BY <3>4, <3>5 DEF TypeOK
      <3>7. /\ kind' \in [Items -> Kinds \cup {"absent", "deleted"}]
            /\ parent' \in [Items -> Items \cup {NoItem}]
        BY <2>8, <3>2 DEF Create, TypeOK
      <3>8. [analysis |-> o.analysis, batch |-> new] \in Origins
        BY <3>2 DEF Origins
      <3>9. origin' \in [Items -> Origins]
        BY <2>8, <3>8 DEF Create, TypeOK
      <3>10. Commit(s, ValidCreation(o)) /\ deps' = deps
        BY <2>8 DEF Create
      <3> QED
        BY <3>6, <3>7, <3>9, <3>10, CommitTypes DEF TypeOK
    <2>9. CASE Update(s)
      <3> DEFINE o == intent[s]
      <3>1. IsIntent(o) /\ o.op = "update"
        BY <2>9 DEF Update, TypeOK
      <3>2. NewKind(o) \in Kinds \cup {"absent", "deleted"} /\ NewParent(o) \in Items \cup {NoItem}
        BY <3>1, UpdateType DEF NewKind, NewParent, TypeOK
      <3>3. Commit(s, ValidUpdate(o))
        BY <2>9 DEF Update
      <3> QED
        BY <2>9, <3>2, <3>3, CommitTypes DEF Update, TypeOK
    <2>10. CASE Delete(s)
      <3>1. Commit(s, ValidDelete(intent[s]))
        BY <2>10 DEF Delete
      <3>2. NoOrigin \in Origins
        BY DEF NoOrigin, Origins
      <3> QED
        BY <2>10, <3>1, <3>2, CommitTypes DEF Delete, TypeOK
    <2>11. CASE Link(s)
      <3>1. Commit(s, ValidLink(intent[s]))
        BY <2>11 DEF Link
      <3> QED
        BY <2>11, <3>1, CommitTypes DEF Link, TypeOK, Live
    <2>12. CASE Unlink(s)
      <3>1. Commit(s, ValidUnlink(intent[s]))
        BY <2>12 DEF Unlink
      <3> QED
        BY <2>12, <3>1, CommitTypes DEF Unlink, TypeOK
    <2>13. CASE Refuse(s)
      <3>1. DOMAIN intent' = Sessions /\ \A t \in Sessions : IsIntent(intent'[t])
        BY <2>13, SetIntent, NoIntentType DEF Refuse, TypeOK
      <3> QED
        BY <2>13, <3>1 DEF Refuse, TypeOK, items
    <2> QED
      BY <1>3, <2>1, <2>2, <2>3, <2>4, <2>5, <2>6, <2>7, <2>8, <2>9, <2>10, <2>11, <2>12, <2>13
      DEF Request
  <1>4. CASE UNCHANGED vars
    BY <1>4 DEF vars, TypeOK
  <1> QED
    BY <1>1, <1>2, <1>3, <1>4 DEF Next

\* The types hold at the start.
LEMMA TypeInit == Init => TypeOK
  <1> SUFFICES ASSUME Init PROVE TypeOK
    OBVIOUS
  <1>1. NoOrigin \in Origins
    BY DEF NoOrigin, Origins
  <1>2. \A s \in Sessions : IsIntent(intent[s])
    BY NoIntentType DEF Init
  <1> QED
    BY <1>1, <1>2 DEF Init, TypeOK

\* Every variable keeps its type, however many items, analyses and requests.
THEOREM WorkItemsTypeCorrect == Spec => []TypeOK
  BY TypeInit, TypeStep, PTL DEF Spec

-----------------------------------------------------------------------------
(* What a step changes.                                                    *)

\* Only the commit of a request changes the items.
LEMMA Steps ==
    ASSUME [Next]_vars
    PROVE  \/ UNCHANGED <<items, stale>>
           \/ \E s \in Sessions : Create(s) \/ Update(s) \/ Delete(s) \/ Link(s) \/ Unlink(s)
  <1>1. ASSUME NEW s \in Sessions, Request(s)
        PROVE  \/ UNCHANGED <<items, stale>>
               \/ Create(s) \/ Update(s) \/ Delete(s) \/ Link(s) \/ Unlink(s)
    BY <1>1 DEF Request, AskCreate, AskApply, AskUpdate, AskDelete, AskLink, AskUnlink, Ask,
                Number, Refuse
  <1> QED
    BY <1>1 DEF Next, Revise, Analyze, vars, items

\* A creation adds rows, and leaves the others as they are.
LEMMA CreateEffect ==
    ASSUME TypeOK, NEW s \in Sessions, Create(s)
    PROVE  LET o == intent[s]
               new == DOMAIN o.kinds
           IN  /\ new \in SUBSET Items /\ Live' = Live \cup new /\ Live \cap new = {}
               /\ \A i \in new : /\ kind'[i] = o.kinds[i] /\ parent'[i] = o.parents[i]
                                 /\ o.parents[i] \in Live \cup new \cup {NoItem}
                                 /\ kind[i] = "absent"
                                 /\ origin'[i] = [analysis |-> o.analysis, batch |-> new]
               /\ \A i \in Items \ new : /\ kind'[i] = kind[i] /\ parent'[i] = parent[i]
                                         /\ origin'[i] = origin[i]
               /\ deps' = deps
               /\ stale' = (stale \/ ~ValidCreation(o))
  <1> DEFINE o == intent[s]
             new == DOMAIN o.kinds
  <1>1. IsIntent(o) /\ o.op = "create"
    BY DEF Create, TypeOK
  <1>2. new \in SUBSET Items /\ o.kinds \in [new -> Kinds]
    BY <1>1, CreationType
  <1>3. new \subseteq Absent
    BY DEF Create
  <1>4. /\ kind' = [i \in Items |-> IF i \in new THEN o.kinds[i] ELSE kind[i]]
        /\ parent' = [i \in Items |-> IF i \in new THEN o.parents[i] ELSE parent[i]]
        /\ origin' = [i \in Items |-> IF i \in new THEN [analysis |-> o.analysis, batch |-> new]
                                                   ELSE origin[i]]
        /\ \A i \in new : o.parents[i] \in Live \cup new \cup {NoItem}
        /\ Commit(s, ValidCreation(o)) /\ deps' = deps
    BY DEF Create
  <1>5. "absent" \notin Kinds
    OBVIOUS
  <1>6. Live' = Live \cup new /\ Live \cap new = {}
    BY <1>2, <1>3, <1>4, <1>5 DEF Live, Absent
  <1> QED
    BY <1>2, <1>3, <1>4, <1>6 DEF Commit, Absent

\* An update keeps the items there are.
LEMMA UpdateEffect ==
    ASSUME TypeOK, NEW s \in Sessions, Update(s)
    PROVE  LET o == intent[s]
           IN  /\ o.item \in Live /\ Live' = Live
               /\ NewParent(o) \in Live \cup {NoItem}
               /\ kind' = [kind EXCEPT ![o.item] = NewKind(o)]
               /\ parent' = [parent EXCEPT ![o.item] = NewParent(o)]
               /\ UNCHANGED <<origin, deps>>
               /\ stale' = (stale \/ ~ValidUpdate(o))
  <1> DEFINE o == intent[s]
  <1>1. IsIntent(o) /\ o.op = "update"
    BY DEF Update, TypeOK
  <1>2. o.kind \in Kinds /\ o.item \in Live
    BY <1>1, UpdateType DEF Update
  <1>3. NewKind(o) \in Kinds
    BY <1>2 DEF NewKind, Live
  <1>4. kind' = [kind EXCEPT ![o.item] = NewKind(o)]
    BY DEF Update
  <1>5. Live' = Live
    BY <1>2, <1>3, <1>4 DEF Live, TypeOK
  <1> QED
    BY <1>2, <1>5 DEF Update, Commit

\* A deletion takes one item away, and what referred to it.
LEMMA DeleteEffect ==
    ASSUME TypeOK, NEW s \in Sessions, Delete(s)
    PROVE  LET o == intent[s]
           IN  /\ o.item \in Live /\ Live' = Live \ {o.item}
               /\ \A i \in Items \ {o.item} :
                      /\ kind'[i] = kind[i] /\ origin'[i] = origin[i]
                      /\ parent'[i] = IF parent[i] = o.item THEN NoItem ELSE parent[i]
               /\ parent'[o.item] = NoItem
               /\ deps' = {e \in deps : e[1] # o.item /\ e[2] # o.item}
               /\ stale' = (stale \/ ~ValidDelete(o))
  <1>1. "deleted" \notin Kinds
    OBVIOUS
  <1> QED
    BY <1>1 DEF Delete, Commit, Live, TypeOK

-----------------------------------------------------------------------------
(* References.                                                             *)

\* The foreign keys keep the references, whatever the requests had checked.
LEMMA ReferencesStep ==
    ASSUME TypeOK, References, [Next]_vars
    PROVE  References'
  <1>1. CASE UNCHANGED <<items, stale>>
    BY <1>1 DEF References, Live, items
  <1>2. ASSUME NEW s \in Sessions, Create(s) PROVE References'
    BY <1>2, CreateEffect DEF References
  <1>3. ASSUME NEW s \in Sessions, Update(s) PROVE References'
    BY <1>3, UpdateEffect DEF References, TypeOK, Live
  <1>4. ASSUME NEW s \in Sessions, Delete(s) PROVE References'
    BY <1>4, DeleteEffect DEF References, TypeOK, Live
  <1>5. ASSUME NEW s \in Sessions, Link(s) PROVE References'
    <2>1. Live' = Live
      BY <1>5 DEF Link, Live
    <2> QED
      BY <1>5, <2>1 DEF Link, References
  <1>6. ASSUME NEW s \in Sessions, Unlink(s) PROVE References'
    BY <1>6 DEF Unlink, References, Live
  <1> QED
    BY <1>1, <1>2, <1>3, <1>4, <1>5, <1>6, Steps

\* Parents and both ends of dependencies exist, however requests overlap.
THEOREM ReferencesExist == Spec => []References
  <1>1. Init => References
    BY DEF Init, References
  <1> QED
    BY <1>1, TypeInit, TypeStep, ReferencesStep, PTL DEF Spec

-----------------------------------------------------------------------------
(* Dependencies.                                                           *)

\* A dependency whose target does not lead back to the item closes no cycle.
LEMMA LinkKeepsOrder ==
    ASSUME NoCircularChain, NEW i \in Items, NEW t \in Items, i \notin Upstream(t),
           deps' = deps \cup {<<i, t>>}
    PROVE  NoCircularChain'
  <1>1. PICK C \in SUBSET Items :
            t \in C /\ (\A e \in deps : e[1] \in C => e[2] \in C) /\ i \notin C
    BY DEF Upstream
  <1> SUFFICES ASSUME NEW S \in SUBSET Items, S # {}
               PROVE  \E m \in S : \A j \in S : <<m, j>> \notin deps'
    BY DEF NoCircularChain
  <1>2. CASE S \cap C = {}
    <2>1. PICK m \in S : \A j \in S : <<m, j>> \notin deps
      BY DEF NoCircularChain
    <2> QED
      BY <1>1, <1>2, <2>1
  <1>3. CASE S \cap C # {}
    <2>1. PICK m \in S \cap C : \A j \in S \cap C : <<m, j>> \notin deps
      BY <1>3 DEF NoCircularChain
    <2>2. ASSUME NEW j \in S, <<m, j>> \in deps PROVE FALSE
      <3>1. j \in C
        BY <1>1, <2>2
      <3> QED
        BY <2>1, <2>2, <3>1
    <2> QED
      BY <1>1, <2>1, <2>2
  <1> QED
    BY <1>2, <1>3

\* Every step keeps the dependencies free of cycles, unless it is a lost race.
LEMMA DependenciesStep ==
    ASSUME TypeOK, DependenciesUnlessRaced, [Next]_vars
    PROVE  DependenciesUnlessRaced'
  <1>1. ASSUME deps' \subseteq deps, stale => stale' PROVE DependenciesUnlessRaced'
    BY <1>1 DEF DependenciesUnlessRaced, NoCircularChain
  <1>2. CASE UNCHANGED <<items, stale>>
    BY <1>1, <1>2 DEF items
  <1>3. ASSUME NEW s \in Sessions, Create(s) PROVE DependenciesUnlessRaced'
    BY <1>1, <1>3, CreateEffect
  <1>4. ASSUME NEW s \in Sessions, Update(s) PROVE DependenciesUnlessRaced'
    BY <1>1, <1>4, UpdateEffect
  <1>5. ASSUME NEW s \in Sessions, Delete(s) PROVE DependenciesUnlessRaced'
    BY <1>1, <1>5, DeleteEffect
  <1>6. ASSUME NEW s \in Sessions, Link(s) PROVE DependenciesUnlessRaced'
    <2> DEFINE o == intent[s]
    <2>1. /\ o.op = "link" /\ deps' = deps \cup {<<o.item, o.target>>}
          /\ stale' = (stale \/ ~ValidLink(o))
      BY <1>6 DEF Link, Commit
    <2>2. o.item \in Items /\ o.target \in Items
      BY <2>1, LinkType DEF TypeOK
    <2>3. CASE ~stale'
      <3>1. NoCircularChain /\ o.item \notin Upstream(o.target)
        BY <2>1, <2>3 DEF DependenciesUnlessRaced, ValidLink
      <3> QED
        BY <2>1, <2>2, <3>1, LinkKeepsOrder DEF DependenciesUnlessRaced
    <2> QED
      BY <2>3 DEF DependenciesUnlessRaced
  <1>7. ASSUME NEW s \in Sessions, Unlink(s) PROVE DependenciesUnlessRaced'
    BY <1>1, <1>7 DEF Unlink, Commit
  <1> QED
    BY <1>2, <1>3, <1>4, <1>5, <1>6, <1>7, Steps

\* "Circular dependencies are rejected": short of a lost race there is always
\* an order to do the work in, for any number of items and chains of any length.
THEOREM NoCircularDependencies == Spec => []DependenciesUnlessRaced
  <1>1. Init => DependenciesUnlessRaced
    BY DEF Init, DependenciesUnlessRaced, NoCircularChain
  <1> QED
    BY <1>1, TypeInit, TypeStep, DependenciesStep, PTL DEF Spec

-----------------------------------------------------------------------------
(* The hierarchy.                                                          *)

\* Some item of a set has the highest kind in it.
LEMMA HighestKind ==
    ASSUME NEW S, S # {}, NEW kinds, \A i \in S : kinds[i] \in Kinds
    PROVE  \E i \in S : \A j \in S : ~(KIND_RANK[kinds[j]] < KIND_RANK[kinds[i]])
  <1>1. ASSUME NEW i \in S PROVE KIND_RANK[kinds[i]] \in 0 .. 3
    <2>1. kinds[i] \in {"epic", "feature", "story", "task", "test_case"}
      OBVIOUS
    <2>2. CASE kinds[i] = "epic"
      BY <2>2 DEF KIND_RANK
    <2>3. CASE kinds[i] = "feature"
      BY <2>3 DEF KIND_RANK
    <2>4. CASE kinds[i] = "story"
      BY <2>4 DEF KIND_RANK
    <2>5. CASE kinds[i] \in {"task", "test_case"}
      BY <2>5 DEF KIND_RANK
    <2> QED
      BY <2>1, <2>2, <2>3, <2>4, <2>5
  <1> DEFINE rank(i) == KIND_RANK[kinds[i]]
  <1>2. \A i \in S : rank(i) \in 0 .. 3
    BY <1>1
  <1> HIDE DEF rank
  <1>3. CASE \E i \in S : rank(i) = 0
    BY <1>2, <1>3 DEF rank
  <1>4. CASE (\A i \in S : rank(i) # 0) /\ \E i \in S : rank(i) = 1
    <2>1. PICK i \in S : rank(i) = 1
      BY <1>4
    <2>2. \A j \in S : ~(rank(j) < rank(i))
      BY <1>2, <1>4, <2>1
    <2> QED
      BY <2>2 DEF rank
  <1>5. CASE (\A i \in S : rank(i) \notin {0, 1}) /\ \E i \in S : rank(i) = 2
    <2>1. PICK i \in S : rank(i) = 2
      BY <1>5
    <2>2. \A j \in S : ~(rank(j) < rank(i))
      BY <1>2, <1>5, <2>1
    <2> QED
      BY <2>2 DEF rank
  <1>6. CASE \A i \in S : rank(i) \notin {0, 1, 2}
    <2>1. PICK i \in S : TRUE
      OBVIOUS
    <2>2. \A j \in S : rank(j) = 3
      BY <1>2, <1>6
    <2>3. \A j \in S : ~(rank(j) < rank(i))
      BY <2>2
    <2> QED
      BY <2>3 DEF rank
  <1> QED
    BY <1>3, <1>4, <1>5, <1>6

\* New items hang from older ones, or from each other by rank.
LEMMA CreateKeepsTree ==
    ASSUME TypeOK, References, NoCircularHierarchy, NEW s \in Sessions, Create(s),
           ValidCreation(intent[s])
    PROVE  NoCircularHierarchy'
  <1> DEFINE o == intent[s]
             new == DOMAIN o.kinds
  <1>1. /\ new \in SUBSET Items /\ Live \cap new = {}
        /\ \A i \in new : parent'[i] = o.parents[i]
        /\ \A i \in Items \ new : parent'[i] = parent[i]
    BY CreateEffect
  <1>2. \A i \in new : o.kinds[i] \in Kinds
    <2>1. IsIntent(o) /\ o.op = "create"
      BY DEF Create, TypeOK
    <2> QED
      BY <2>1, CreationType
  <1> SUFFICES ASSUME NEW S \in SUBSET Items, S # {}
               PROVE  \E m \in S : parent'[m] \notin S
    BY DEF NoCircularHierarchy
  <1>3. CASE S \ new # {}
    <2>1. PICK m \in S \ new : parent[m] \notin S \ new
      BY <1>3 DEF NoCircularHierarchy
    <2>2. parent[m] \in Live \cup {NoItem}
      BY DEF References
    <2> QED
      BY <1>1, <2>1, <2>2
  <1>4. CASE S \subseteq new /\ o.analysis = NoAnalysis
    <2>1. \A i \in new : o.parents[i] \in Live \cup {NoItem}
      BY <1>4 DEF ValidCreation
    <2> QED
      BY <1>1, <1>4, <2>1
  <1>5. CASE S \subseteq new /\ o.analysis # NoAnalysis
    <2>1. PICK m \in S : \A j \in S : ~(KIND_RANK[o.kinds[j]] < KIND_RANK[o.kinds[m]])
      BY <1>2, <1>5, HighestKind
    <2>2. ValidParent(o.kinds[m], o.parents[m], o.kinds)
      BY <1>5 DEF ValidCreation
    <2>3. o.parents[m] \notin S
      BY <2>1, <2>2 DEF ValidParent
    <2> QED
      BY <1>1, <1>5, <2>3
  <1> QED
    BY <1>3, <1>4, <1>5

\* An item that is not put below itself or its descendants closes no cycle.
LEMMA MoveKeepsTree ==
    ASSUME NoCircularHierarchy, NEW i \in Items, NEW p \in Items \cup {NoItem}, p \notin Below(i),
           \A j \in Items \ {i} : parent'[j] = parent[j], parent'[i] = p
    PROVE  NoCircularHierarchy'
  <1> SUFFICES ASSUME NEW S \in SUBSET Items, S # {}
               PROVE  \E m \in S : parent'[m] \notin S
    BY DEF NoCircularHierarchy
  <1>1. CASE i \notin S \/ p = NoItem
    BY <1>1 DEF NoCircularHierarchy
  <1>2. CASE i \in S /\ p # NoItem
    <2>1. PICK C \in SUBSET Items :
              i \in C /\ (\A j \in Items : parent[j] \in C => j \in C) /\ p \notin C
      BY <1>2 DEF Below
    <2>2. CASE S \subseteq C
      BY <1>2, <2>1, <2>2
    <2>3. CASE S \ C # {}
      <3>1. PICK m \in S \ C : parent[m] \notin S \ C
        BY <2>3 DEF NoCircularHierarchy
      <3> QED
        BY <2>1, <3>1
    <2> QED
      BY <2>2, <2>3
  <1> QED
    BY <1>1, <1>2

\* Every step keeps the hierarchy free of cycles, unless it is a lost race.
LEMMA HierarchyStep ==
    ASSUME TypeOK, References, HierarchyUnlessRaced, [Next]_vars
    PROVE  HierarchyUnlessRaced'
  <1>1. CASE UNCHANGED <<items, stale>>
    BY <1>1 DEF HierarchyUnlessRaced, NoCircularHierarchy, items
  <1>2. ASSUME NEW s \in Sessions, Create(s) PROVE HierarchyUnlessRaced'
    <2>1. stale' = (stale \/ ~ValidCreation(intent[s]))
      BY <1>2, CreateEffect
    <2> QED
      BY <1>2, <2>1, CreateKeepsTree DEF HierarchyUnlessRaced
  <1>3. ASSUME NEW s \in Sessions, Update(s) PROVE HierarchyUnlessRaced'
    <2> DEFINE o == intent[s]
    <2>1. /\ o.item \in Items /\ NewParent(o) \in Items \cup {NoItem}
          /\ parent' = [parent EXCEPT ![o.item] = NewParent(o)]
          /\ stale' = (stale \/ ~ValidUpdate(o))
      BY <1>3, UpdateEffect DEF Live
    <2>2. CASE ~stale'
      <3>1. NoCircularHierarchy /\ NewParent(o) \notin Below(o.item)
        BY <2>1, <2>2 DEF HierarchyUnlessRaced, ValidUpdate
      <3>2. parent'[o.item] = NewParent(o) /\ \A j \in Items \ {o.item} : parent'[j] = parent[j]
        BY <2>1 DEF TypeOK
      <3>3. NoCircularHierarchy'
        BY <2>1, <3>1, <3>2, MoveKeepsTree
      <3> QED
        BY <3>3 DEF HierarchyUnlessRaced
    <2> QED
      BY <2>2 DEF HierarchyUnlessRaced
  <1>4. ASSUME NEW s \in Sessions, Delete(s) PROVE HierarchyUnlessRaced'
    <2>1. /\ stale => stale'
          /\ \A i \in Items : parent'[i] \in {parent[i], NoItem}
      BY <1>4, DeleteEffect DEF Live
    <2> QED
      BY <2>1 DEF HierarchyUnlessRaced, NoCircularHierarchy
  <1>5. ASSUME NEW s \in Sessions, Link(s) \/ Unlink(s) PROVE HierarchyUnlessRaced'
    BY <1>5 DEF Link, Unlink, Commit, HierarchyUnlessRaced, NoCircularHierarchy
  <1> QED
    BY <1>1, <1>2, <1>3, <1>4, <1>5, Steps

\* Short of a lost race following parents ends, although a change of kind does
\* not keep the ranks of parent and child in order.
THEOREM NoCircularParents == Spec => []HierarchyUnlessRaced
  <1>1. Init => HierarchyUnlessRaced
    BY DEF Init, HierarchyUnlessRaced, NoCircularHierarchy
  <1> QED
    BY <1>1, TypeInit, TypeStep, ReferencesExist, HierarchyStep, PTL DEF Spec

\* Every step keeps all work hanging from epics, unless it is a lost race.
LEMMA RootedStep ==
    ASSUME TypeOK, References, RootedUnlessRaced, [Next]_vars
    PROVE  RootedUnlessRaced'
  <1>1. CASE UNCHANGED <<items, stale>>
    BY <1>1 DEF RootedUnlessRaced, RootedInEpics, items, Live
  <1>2. ASSUME NEW s \in Sessions, Create(s), ~stale' PROVE RootedInEpics'
    <2> DEFINE o == intent[s]
               new == DOMAIN o.kinds
    <2>1. /\ new \in SUBSET Items /\ Live' = Live \cup new
          /\ \A i \in new : kind'[i] = o.kinds[i] /\ parent'[i] = o.parents[i]
          /\ \A i \in Items \ new : kind'[i] = kind[i] /\ parent'[i] = parent[i]
          /\ stale' = (stale \/ ~ValidCreation(o))
      BY <1>2, CreateEffect
    <2>2. \A i \in new : o.kinds[i] = "epic" <=> o.parents[i] = NoItem
      BY <1>2, <2>1 DEF ValidCreation, ValidParent
    <2>3. \A i \in Live : kind[i] = "epic" <=> parent[i] = NoItem
      BY <1>2, <2>1 DEF RootedUnlessRaced, RootedInEpics
    <2> QED
      BY <2>1, <2>2, <2>3 DEF RootedInEpics, Live
  <1>3. ASSUME NEW s \in Sessions, Update(s), ~stale' PROVE RootedInEpics'
    <2> DEFINE o == intent[s]
    <2>1. /\ o.item \in Items /\ Live' = Live
          /\ kind' = [kind EXCEPT ![o.item] = NewKind(o)]
          /\ parent' = [parent EXCEPT ![o.item] = NewParent(o)]
          /\ stale' = (stale \/ ~ValidUpdate(o))
      BY <1>3, UpdateEffect DEF Live
    <2>2. NewKind(o) = "epic" <=> NewParent(o) = NoItem
      BY <1>3, <2>1 DEF ValidUpdate, ValidParent
    <2>3. \A i \in Live : kind[i] = "epic" <=> parent[i] = NoItem
      BY <1>3, <2>1 DEF RootedUnlessRaced, RootedInEpics
    <2> QED
      BY <2>1, <2>2, <2>3 DEF RootedInEpics, Live, TypeOK
  <1>4. ASSUME NEW s \in Sessions, Delete(s), ~stale' PROVE RootedInEpics'
    <2> DEFINE o == intent[s]
    <2>1. /\ Live' = Live \ {o.item}
          /\ \A i \in Items \ {o.item} :
                 kind'[i] = kind[i] /\ parent'[i] = IF parent[i] = o.item THEN NoItem ELSE parent[i]
          /\ stale' = (stale \/ ~ValidDelete(o))
      BY <1>4, DeleteEffect
    <2>2. \A i \in Items : parent[i] # o.item
      BY <1>4, <2>1 DEF ValidDelete
    <2>3. \A i \in Live : kind[i] = "epic" <=> parent[i] = NoItem
      BY <1>4, <2>1 DEF RootedUnlessRaced, RootedInEpics
    <2> QED
      BY <2>1, <2>2, <2>3 DEF RootedInEpics, Live
  <1>5. ASSUME NEW s \in Sessions, Link(s) \/ Unlink(s) PROVE RootedUnlessRaced'
    BY <1>5 DEF Link, Unlink, Commit, RootedUnlessRaced, RootedInEpics, Live
  <1> QED
    BY <1>1, <1>2, <1>3, <1>4, <1>5, Steps DEF RootedUnlessRaced

\* Short of a lost race the epics are exactly the items without a parent.
THEOREM EpicsAreRoots == Spec => []RootedUnlessRaced
  <1>1. Init => RootedUnlessRaced
    BY DEF Init, RootedUnlessRaced, RootedInEpics, Live
  <1> QED
    BY <1>1, TypeInit, TypeStep, ReferencesExist, RootedStep, PTL DEF Spec

-----------------------------------------------------------------------------
(* Work items of an analysis.                                              *)

\* Every step keeps one application per analysis, unless it is a lost race.
LEMMA ApplicationStep ==
    ASSUME TypeOK, OneApplicationUnlessRaced, [Next]_vars
    PROVE  OneApplicationUnlessRaced'
  <1>1. CASE UNCHANGED <<items, stale>>
    BY <1>1 DEF OneApplicationUnlessRaced, OneApplication, items, Live
  <1>2. ASSUME NEW s \in Sessions, Create(s), ~stale' PROVE OneApplication'
    <2> DEFINE o == intent[s]
               new == DOMAIN o.kinds
    <2>1. /\ new \in SUBSET Items /\ Live' = Live \cup new /\ Live \cap new = {}
          /\ \A i \in new : origin'[i] = [analysis |-> o.analysis, batch |-> new]
          /\ \A i \in Items \ new : origin'[i] = origin[i]
          /\ stale' = (stale \/ ~ValidCreation(o))
      BY <1>2, CreateEffect
    <2>2. OneApplication /\ (o.analysis = NoAnalysis \/ \A i \in Live : origin[i].analysis # o.analysis)
      BY <1>2, <2>1 DEF OneApplicationUnlessRaced, ValidCreation
    <2>3. \A i \in Live : origin'[i] = origin[i]
      BY <2>1 DEF Live
    <2> QED
      BY <2>1, <2>2, <2>3 DEF OneApplication
  <1> DEFINE Kept == /\ stale => stale'
                     /\ Live' \subseteq Live
                     /\ \A i \in Live' : origin'[i] = origin[i]
  <1>3. ASSUME Kept PROVE OneApplicationUnlessRaced'
    <2> SUFFICES ASSUME OneApplication PROVE OneApplication'
      BY <1>3 DEF OneApplicationUnlessRaced
    <2> SUFFICES ASSUME NEW i \in Live', NEW j \in Live',
                        origin'[i].analysis = origin'[j].analysis,
                        origin'[i].analysis # NoAnalysis
                 PROVE  origin'[i].batch = origin'[j].batch
      BY DEF OneApplication
    <2>1. i \in Live /\ j \in Live /\ origin'[i] = origin[i] /\ origin'[j] = origin[j]
      BY <1>3
    <2> QED
      BY <2>1 DEF OneApplication
  <1>4. ASSUME NEW s \in Sessions, Update(s) \/ Delete(s) PROVE Kept
    BY <1>4, UpdateEffect, DeleteEffect DEF Live
  <1>5. ASSUME NEW s \in Sessions, Link(s) \/ Unlink(s) PROVE Kept
    BY <1>5 DEF Link, Unlink, Commit, Live
  <1> HIDE DEF Kept
  <1> QED
    BY <1>1, <1>2, <1>3, <1>4, <1>5, Steps DEF OneApplicationUnlessRaced

\* Short of a lost race the work items of an analysis come from one application.
THEOREM AnalysisAppliedOnce == Spec => []OneApplicationUnlessRaced
  <1>1. Init => OneApplicationUnlessRaced
    BY DEF Init, OneApplicationUnlessRaced, OneApplication, Live
  <1> QED
    BY <1>1, TypeInit, TypeStep, ApplicationStep, PTL DEF Spec

=============================================================================
