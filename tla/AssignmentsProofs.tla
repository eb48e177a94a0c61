-------------------------- MODULE AssignmentsProofs -------------------------
(***************************************************************************)
(* Proofs about Assignments and the audit trail it writes: types, the      *)
(* rules of responsibilities, and the chain of hashes, for any number of   *)
(* assignments, users, requests and events.                                *)
(***************************************************************************)
EXTENDS Assignments, TLAPS

USE DEF auditVars, tableVars

-----------------------------------------------------------------------------
(* Types.                                                                  *)

\* A group that is sent is kept, and a default group is one in use.
LEMMA GroupTyped ==
    ASSUME NEW k \in Kinds, NEW g \in Groups \cup {NoGroup}
    PROVE  SegregationGroup(k, g) \in Groups \cup {NoGroup}
BY AssignmentsAssumption DEF SegregationGroup

\* What a request to create an assignment has checked is an assignment.
LEMMA CreateAsks ==
    ASSUME TypeOK, NEW s \in Writers, AskCreate(s)
    PROVE  \E id \in Rows, new \in Assignment : Ask(s, id, new)
<1>1. PICK id \in Rows \ Present, u \in Users, k \in Kinds, p \in BOOLEAN,
           g \in Named \cup {NoGroup}, t \in Periods :
           Ask(s, id, [user |-> u, kind |-> k, primary |-> p,
                       group |-> SegregationGroup(k, g), period |-> t])
  BY DEF AskCreate
<1>2. SegregationGroup(k, g) \in Groups \cup {NoGroup}
  BY GroupTyped, AssignmentsAssumption
<1>3. [user |-> u, kind |-> k, primary |-> p,
       group |-> SegregationGroup(k, g), period |-> t] \in Assignment
  BY <1>2 DEF Assignment
<1> QED BY <1>1, <1>3

\* So is what a request to update one has checked.
LEMMA UpdateAsks ==
    ASSUME TypeOK, NEW s \in Writers, AskUpdate(s)
    PROVE  \E id \in Rows, new \in Assignment : Ask(s, id, new)
<1>1. PICK id \in Present, u \in Users, k \in Kinds, p \in BOOLEAN,
           g \in Named \cup {NoGroup}, t \in Periods :
           \E sent \in {g, row[id].group} :
               Ask(s, id, [user |-> u, kind |-> k, primary |-> p,
                           group |-> SegregationGroup(k, sent), period |-> t])
  BY DEF AskUpdate
<1>2. id \in Rows /\ row[id] \in Assignment
  BY DEF Present, TypeOK
<1>3. PICK sent \in {g, row[id].group} :
           Ask(s, id, [user |-> u, kind |-> k, primary |-> p,
                       group |-> SegregationGroup(k, sent), period |-> t])
  BY <1>1
<1>4. sent \in Groups \cup {NoGroup}
  BY <1>2, <1>3, AssignmentsAssumption DEF Assignment
<1>5. SegregationGroup(k, sent) \in Groups \cup {NoGroup}
  BY <1>4, GroupTyped
<1>6. [user |-> u, kind |-> k, primary |-> p,
       group |-> SegregationGroup(k, sent), period |-> t] \in Assignment
  BY <1>5 DEF Assignment
<1> QED BY <1>2, <1>3, <1>6

\* Every step is one of these.
LEMMA Steps ==
    ASSUME TypeOK, NEW s \in Writers,
           AskCreate(s) \/ AskUpdate(s) \/ Apply(s) \/ Audit(s) \/ Die(s)
    PROVE  \/ \E id \in Rows, new \in Assignment : Ask(s, id, new)
           \/ Apply(s)
           \/ Link(s) /\ UNCHANGED tableVars
           \/ Commit(s) /\ UNCHANGED tableVars
           \/ Die(s)
BY CreateAsks, UpdateAsks DEF Audit, Record

LEMMA NewestTyped ==
    ASSUME TypeOK
    PROVE  Newest(DOMAIN chain) \in Nat
<1>1. DOMAIN chain \subseteq Nat
  BY DEF TypeOK, AuditTypeOK
<1> QED BY <1>1 DEF Newest

\* The initial state is of the types.
LEMMA InitTypeOK == Init => TypeOK
<1> SUFFICES ASSUME Init PROVE TypeOK
  OBVIOUS
<1>1. chain \in Seq(Events)
  BY DEF Init, AuditInit
<1>2. /\ link \in [Writers -> Nat \cup {NoLink}]
      /\ lock = {w \in Writers : link[w] # NoLink}
  BY DEF Init, AuditInit
<1>3. asked \in 0 .. MaxRequests
  BY AssignmentsAssumption DEF Init
<1> QED BY <1>1, <1>2, <1>3 DEF Init, AuditInit, TypeOK, AuditTypeOK

\* Every step keeps the types, the lock with the writers that have looked for
\* the newest event.
LEMMA NextTypeOK == TypeOK /\ [Next]_vars => TypeOK'
<1> SUFFICES ASSUME TypeOK, [Next]_vars PROVE TypeOK'
  OBVIOUS
<1>1. CASE UNCHANGED vars
  BY <1>1 DEF vars, TypeOK, AuditTypeOK
<1>2. ASSUME NEW s \in Writers,
             NEW id \in Rows, NEW new \in Assignment, Ask(s, id, new)
      PROVE  TypeOK'
  <2>1. intent' \in [Writers -> [id : Rows, new : Assignment] \cup {NoIntent}]
    BY <1>2 DEF Ask, TypeOK
  <2>2. asked' \in 0 .. MaxRequests
    BY <1>2, AssignmentsAssumption DEF Ask, TypeOK
  <2> QED BY <1>2, <2>1, <2>2 DEF Ask, TypeOK, AuditTypeOK
<1>3. ASSUME NEW s \in Writers, Apply(s)
      PROVE  TypeOK'
  <2>1. intent[s] \in [id : Rows, new : Assignment]
    BY <1>3 DEF Apply, TypeOK
  <2>2. row' \in [Rows -> Assignment \cup {NoRow}]
    BY <1>3, <2>1 DEF Apply, TypeOK
  <2>3. intent' \in [Writers -> [id : Rows, new : Assignment] \cup {NoIntent}]
    BY <1>3 DEF Apply, TypeOK
  <2> QED BY <1>3, <2>2, <2>3 DEF Apply, Owe, TypeOK, AuditTypeOK
<1>4. ASSUME NEW s \in Writers, Link(s), UNCHANGED tableVars
      PROVE  TypeOK'
  <2>1. link' \in [Writers -> Nat \cup {NoLink}]
    BY <1>4, NewestTyped DEF Link, TypeOK, AuditTypeOK
  <2>2. link'[s] # NoLink /\ \A w \in Writers \ {s} : link'[w] = link[w]
    BY <1>4, NewestTyped, AuditAssumption DEF Link, TypeOK, AuditTypeOK
  <2> QED BY <1>4, <2>1, <2>2 DEF Link, TypeOK, AuditTypeOK
<1>5. ASSUME NEW s \in Writers, Commit(s), UNCHANGED tableVars
      PROVE  TypeOK'
  <2>1. link[s] \in Nat
    BY <1>5 DEF Commit, TypeOK, AuditTypeOK
  <2>2. chain' \in Seq(Events)
    BY <1>5, <2>1 DEF Commit, TypeOK, AuditTypeOK, Events
  <2>3. link'[s] = NoLink /\ \A w \in Writers \ {s} : link'[w] = link[w]
    BY <1>5 DEF Commit, TypeOK, AuditTypeOK
  <2> QED BY <1>5, <2>2, <2>3 DEF Commit, TypeOK, AuditTypeOK
<1>6. ASSUME NEW s \in Writers, Die(s)
      PROVE  TypeOK'
  <2>1. link'[s] = NoLink /\ \A w \in Writers \ {s} : link'[w] = link[w]
    BY <1>6 DEF Die, Lose, TypeOK, AuditTypeOK
  <2> QED BY <1>6, <2>1 DEF Die, Lose, TypeOK, AuditTypeOK
<1> QED BY <1>1, <1>2, <1>3, <1>4, <1>5, <1>6, Steps DEF Next

\* The types of assignments, checked requests and audit events under any
\* interleaving and after any death of a process; a writer holds the lock of
\* the organization from its query on, and no longer than it owes an event.
THEOREM AssignmentsTypeCorrect == Spec => []TypeOK
BY InitTypeOK, NextTypeOK, PTL DEF Spec

-----------------------------------------------------------------------------
(* Responsibilities.                                                       *)

\* Two assignments of the table never conflict, and a checked request that has
\* seen every commit conflicts with none.
Compatible ==
    /\ \A i, j \in Present : i # j => ~Conflict(row[i], row[j])
    /\ \A s \in fresh : intent[s] # NoIntent => Valid(intent[s].id, intent[s].new)

CompatibleUnlessRaced == raced \/ Compatible

LEMMA ConflictSymmetric ==
    ASSUME NEW a \in Assignment, NEW b \in Assignment
    PROVE  Conflict(a, b) <=> Conflict(b, a)
BY DEF Conflict, Overlap

LEMMA InitCompatible == Init => CompatibleUnlessRaced
BY DEF Init, CompatibleUnlessRaced, Compatible, Present

LEMMA NextCompatible ==
    TypeOK /\ CompatibleUnlessRaced /\ [Next]_vars => CompatibleUnlessRaced'
<1> SUFFICES ASSUME TypeOK, CompatibleUnlessRaced, [Next]_vars
             PROVE  CompatibleUnlessRaced'
  OBVIOUS
<1>1. CASE UNCHANGED tableVars
  BY <1>1 DEF CompatibleUnlessRaced, Compatible, Present, Valid
<1>2. ASSUME NEW s \in Writers,
             NEW id \in Rows, NEW new \in Assignment, Ask(s, id, new), ~raced
      PROVE  CompatibleUnlessRaced'
  <2>1. Compatible /\ Valid(id, new)
    BY <1>2 DEF CompatibleUnlessRaced, Ask
  <2>2. /\ intent'[s] = [id |-> id, new |-> new]
        /\ \A w \in Writers \ {s} : intent'[w] = intent[w]
        /\ fresh' = fresh \cup {s}
        /\ row' = row
    BY <1>2 DEF Ask, TypeOK
  <2>3. \A w \in fresh' : intent'[w] # NoIntent => Valid(intent'[w].id, intent'[w].new)
    BY <2>1, <2>2 DEF Compatible, TypeOK
  <2> QED BY <2>1, <2>2, <2>3 DEF CompatibleUnlessRaced, Compatible, Valid, Present
<1>3. ASSUME NEW s \in Writers, Apply(s), ~raced'
      PROVE  CompatibleUnlessRaced'
  <2> DEFINE id == intent[s].id
             new == intent[s].new
  <2>1. Compatible /\ s \in fresh
    BY <1>3 DEF CompatibleUnlessRaced, Apply
  <2>2. id \in Rows /\ new \in Assignment
    BY <1>3 DEF Apply, TypeOK
  <2>3. Valid(id, new)
    BY <1>3, <2>1 DEF Compatible, Apply
  <2>4. row'[id] = new /\ \A i \in Rows \ {id} : row'[i] = row[i]
    BY <1>3, <2>2 DEF Apply, TypeOK
  <2>5. ASSUME NEW i \in Present', NEW j \in Present', i # j
        PROVE  ~Conflict(row'[i], row'[j])
    <3>1. i \in Rows /\ j \in Rows
      BY DEF Present
    <3>2. CASE i = id
      <4>1. j \in Present \ {id} /\ row'[j] = row[j] /\ row'[i] = new
        BY <2>4, <2>5, <3>1, <3>2 DEF Present
      <4>2. ~Conflict(row[j], new)
        BY <2>3, <4>1 DEF Valid
      <4>3. row[j] \in Assignment
        BY <4>1 DEF TypeOK, Present
      <4> QED BY <2>2, <4>1, <4>2, <4>3, ConflictSymmetric
    <3>3. CASE j = id
      BY <2>3, <2>4, <2>5, <3>1, <3>3 DEF Valid, Present
    <3>4. CASE i # id /\ j # id
      BY <2>1, <2>4, <2>5, <3>1, <3>4 DEF Compatible, Present
    <3> QED BY <3>2, <3>3, <3>4
  <2>6. fresh' = {}
    BY <1>3 DEF Apply
  <2> QED BY <2>5, <2>6 DEF CompatibleUnlessRaced, Compatible
<1>4. raced => raced'
  BY Steps DEF Next, vars, Ask, Apply, Die
<1> QED BY <1>1, <1>2, <1>3, <1>4, Steps DEF Next, vars, Die, CompatibleUnlessRaced

\* Assignments that do not conflict keep the rules at every instant.
LEMMA CompatibleAssignments == TypeOK /\ CompatibleUnlessRaced => AssignmentsUnlessRaced
<1> SUFFICES ASSUME TypeOK, Compatible,
                    NEW t \in Instants, NEW i \in Active(t), NEW j \in Active(t), i # j
             PROVE  /\ row[i].kind = row[j].kind =>
                          row[i].user # row[j].user /\ ~(row[i].primary /\ row[j].primary)
                    /\ row[i].primary /\ row[j].primary /\ row[i].user = row[j].user =>
                          row[i].group = NoGroup \/ row[i].group # row[j].group
  BY DEF CompatibleUnlessRaced, AssignmentsUnlessRaced
<1>1. i \in Present /\ j \in Present /\ row[i] \in Assignment /\ row[j] \in Assignment
  BY DEF Active, Present, TypeOK
<1>2. ~Conflict(row[i], row[j])
  BY <1>1 DEF Compatible
<1>3. /\ row[i].period[1] \in Int /\ row[i].period[2] \in Int
      /\ row[j].period[1] \in Int /\ row[j].period[2] \in Int
  BY <1>1, AssignmentsAssumption DEF Assignment, Periods, Instants
<1>4. Overlap(row[i].period, row[j].period)
  BY <1>3 DEF Active, Overlap, Instants
<1> QED BY <1>1, <1>2, <1>4 DEF Conflict, Assignment

\* For any assignments, periods and number of overlapping requests: at every
\* instant one primary user for a responsibility, nobody twice, and distinct
\* primary users for the assignments with one stored segregation group, until
\* two requests overlap.
THEOREM AssignmentsKeepRules == Spec => []AssignmentsUnlessRaced
BY InitTypeOK, NextTypeOK, InitCompatible, NextCompatible, CompatibleAssignments, PTL DEF Spec

-----------------------------------------------------------------------------
(* The chain.                                                              *)

\* As long as the clock goes forward from event to event, every event links to
\* the one committed before it, and a writer with the lock to the last one.
Linked ==
    InOrder =>
        /\ \A p \in DOMAIN chain : chain[p].prev = p - 1
        /\ \A w \in lock : link[w] = Len(chain)

LinkedByOne == Linked /\ \A v, w \in lock : v = w

LEMMA EventsTyped ==
    ASSUME TypeOK, NEW p \in DOMAIN chain
    PROVE  chain[p].at \in Int /\ chain[p].id \in Int
<1>1. chain \in Seq(Events) /\ DOMAIN chain = 1 .. Len(chain)
  BY DEF TypeOK, AuditTypeOK
<1>2. chain[p] \in Events
  BY <1>1
<1> QED BY <1>2, AuditAssumption DEF Events

\* In a chain with its stamps in order, the newest of the events before a
\* position is the one just before it.
LEMMA NewestBefore ==
    ASSUME TypeOK, InOrder, NEW n \in 0 .. Len(chain)
    PROVE  Newest(1 .. n) = n
<1>1. \A p \in DOMAIN chain : chain[p].at \in Int
  BY EventsTyped
<1>2. DOMAIN chain = 1 .. Len(chain) /\ Len(chain) \in Nat
  BY DEF TypeOK, AuditTypeOK
<1> DEFINE last == {p \in 1 .. n : \A q \in (1 .. n) \ {p} : Before(chain[q], chain[p])}
<1>3. CASE n = 0
  BY <1>3 DEF Newest
<1>4. CASE n > 0
  <2>1. n \in last
    BY <1>1, <1>2, <1>4 DEF InOrder, Before
  <2>2. ASSUME NEW p \in last PROVE p = n
    <3>1. SUFFICES ASSUME p # n PROVE FALSE
      OBVIOUS
    <3>2. Before(chain[n], chain[p]) /\ p < n
      BY <1>4, <2>2, <3>1
    <3>3. chain[p].at < chain[n].at
      BY <1>2, <3>2 DEF InOrder
    <3> QED BY <1>1, <1>2, <3>2, <3>3 DEF Before
  <2> QED BY <2>1, <2>2 DEF Newest
<1> QED BY <1>3, <1>4

LEMMA InitLinked == Init => LinkedByOne
BY DEF Init, AuditInit, LinkedByOne, Linked

LEMMA NextLinked == TypeOK /\ LinkedByOne /\ [Next]_vars => LinkedByOne'
<1> SUFFICES ASSUME TypeOK, LinkedByOne, [Next]_vars
             PROVE  LinkedByOne'
  OBVIOUS
<1>1. CASE UNCHANGED <<chain, lock, link>>
  BY <1>1 DEF LinkedByOne, Linked, InOrder
<1>2. ASSUME NEW s \in Writers, Link(s)
      PROVE  LinkedByOne'
  <2>1. lock' = {s} /\ link'[s] = Newest(DOMAIN chain) /\ chain' = chain
    BY <1>2 DEF Link, Locked, TypeOK, AuditTypeOK
  <2>2. DOMAIN chain = 1 .. Len(chain) /\ Len(chain) \in Nat
    BY DEF TypeOK, AuditTypeOK
  <2>3. InOrder => Newest(DOMAIN chain) = Len(chain)
    BY <2>2, NewestBefore
  <2> QED BY <2>1, <2>3 DEF LinkedByOne, Linked, InOrder
<1>3. ASSUME NEW s \in Writers, Commit(s)
      PROVE  LinkedByOne'
  <2>1. s \in lock /\ lock = {s}
    BY <1>3 DEF Commit, LinkedByOne, TypeOK, AuditTypeOK
  <2>2. lock' = {}
    BY <1>3, <2>1 DEF Commit
  <2>3. PICK at \in Times, id \in Ids :
            chain' = Append(chain, [at |-> at, id |-> id, prev |-> link[s]])
    BY <1>3 DEF Commit
  <2> DEFINE e == [at |-> at, id |-> id, prev |-> link[s]]
  <2>4. /\ chain \in Seq(Events) /\ Len(chain) \in Nat
        /\ link[s] \in Nat
    BY <2>1, <1>3 DEF Commit, TypeOK, AuditTypeOK
  <2>5. e \in Events
    BY <2>4 DEF Events
  <2>6. /\ Len(chain') = Len(chain) + 1
        /\ chain'[Len(chain) + 1] = e
        /\ \A p \in 1 .. Len(chain) : chain'[p] = chain[p]
        /\ DOMAIN chain' = 1 .. Len(chain) + 1
        /\ DOMAIN chain = 1 .. Len(chain)
    BY <2>3, <2>4, <2>5
  <2>7. InOrder' => InOrder
    BY <2>4, <2>6 DEF InOrder
  <2>8. InOrder' => \A p \in DOMAIN chain' : chain'[p].prev = p - 1
    BY <2>1, <2>4, <2>6, <2>7 DEF LinkedByOne, Linked
  <2> QED BY <2>2, <2>8 DEF LinkedByOne, Linked
<1>4. ASSUME NEW s \in Writers, Lose(s)
      PROVE  LinkedByOne'
  <2>1. lock' \subseteq lock /\ chain' = chain /\ \A w \in lock' : link'[w] = link[w]
    BY <1>4 DEF Lose, TypeOK, AuditTypeOK
  <2> QED BY <2>1 DEF LinkedByOne, Linked, InOrder
<1> QED BY <1>1, <1>2, <1>3, <1>4, Steps DEF Next, vars, Ask, Apply, Die

\* Such a chain is verified.
LEMMA LinkedVerified == TypeOK /\ LinkedByOne => ChainUnlessSkewed
<1> SUFFICES ASSUME TypeOK, Linked, InOrder, NEW p \in DOMAIN chain
             PROVE  chain[p].prev = Newest({q \in DOMAIN chain : Before(chain[q], chain[p])})
  BY DEF LinkedByOne, ChainUnlessSkewed, Verified
<1>1. \A q \in DOMAIN chain : chain[q].at \in Int
  BY EventsTyped
<1>2. DOMAIN chain = 1 .. Len(chain) /\ Len(chain) \in Nat
  BY DEF TypeOK, AuditTypeOK
<1>3. p \in 1 .. Len(chain)
  BY <1>2
<1>4. ASSUME NEW q \in DOMAIN chain
      PROVE  Before(chain[q], chain[p]) <=> q < p
  <2>1. chain[p].id \in Int /\ chain[q].id \in Int
    BY EventsTyped
  <2>2. CASE q < p
    BY <1>1, <1>2, <2>2 DEF InOrder, Before
  <2>3. CASE q = p
    BY <1>1, <1>2, <2>1, <2>3 DEF Before
  <2>4. CASE p < q
    <3>1. chain[p].at < chain[q].at
      BY <2>4 DEF InOrder
    <3> QED BY <1>1, <1>2, <2>4, <3>1 DEF Before
  <2> QED BY <1>2, <2>2, <2>3, <2>4
<1>5. {q \in DOMAIN chain : Before(chain[q], chain[p])} = 1 .. p - 1
  BY <1>2, <1>3, <1>4
<1>6. p - 1 \in 0 .. Len(chain)
  BY <1>2, <1>3
<1>7. Newest(1 .. p - 1) = p - 1
  BY <1>6, NewestBefore
<1> QED BY <1>5, <1>7 DEF Linked

\* For any number of writers and events, and any deaths of writers, the chain
\* verifies, unless an event's stamp is not later than the one before it.
THEOREM ChainVerifies == Spec => []ChainUnlessSkewed
BY InitTypeOK, NextTypeOK, InitLinked, NextLinked, LinkedVerified, PTL DEF Spec
=============================================================================
