---------------------------- MODULE AuditChain -----------------------------
(***************************************************************************)
(* The audit trail of one organization (backend/app/audit/service.py): a   *)
(* table of events, each with the hash of the one before it.               *)
(*                                                                         *)
(* A request commits its change first and its event in a transaction of    *)
(* its own.  In between it owes the event, and a process that dies then    *)
(* never writes it.  The writer takes the organization's advisory lock,    *)
(* links to the newest event by (created_at, id), and stamps its own event *)
(* with the clock of its host; the lock goes with the transaction.  Clocks *)
(* of hosts differ and are set back, so a stamp is any time.               *)
(*                                                                         *)
(* A hash stands for the event it was taken of: prev_hash is modelled by   *)
(* the position of that event in the order of commits, 0 for none.  An     *)
(* event altered afterwards, and the fields the hash covers, are left out. *)
(***************************************************************************)
EXTENDS Integers, Sequences, FiniteSets

CONSTANTS
    Writers,        \* requests in progress at one time
    Ids,            \* event ids; a UUID is a number that says nothing of time
    Times,          \* clock readings
    MaxEvents,      \* bound: the events written in a behaviour
    NoLink          \* a writer that has not looked for the newest event

ASSUME AuditAssumption ==
    /\ Ids \subseteq Int
    /\ Times \subseteq Int
    /\ MaxEvents \in Nat
    /\ NoLink \notin Nat

VARIABLES
    chain,          \* audit_events, in the order of their commits
    lock,           \* writers that hold pg_advisory_xact_lock(organization)
    due,            \* writers whose change is committed and whose event is not
    link            \* the event each writer has found to link its own to

auditVars == <<chain, lock, due, link>>

Events == [at : Times, id : Ids, prev : Nat]

\* A transaction has the lock from its query to its end, and only writers that
\* owe an event have one.
AuditTypeOK ==
    /\ chain \in Seq(Events)
    /\ due \subseteq Writers
    /\ link \in [Writers -> Nat \cup {NoLink}]
    /\ lock = {w \in Writers : link[w] # NoLink}
    /\ lock \subseteq due

-----------------------------------------------------------------------------
\* ORDER BY created_at, id
Before(e, f) == e.at < f.at \/ (e.at = f.at /\ e.id < f.id)

\* The last of some positions in that order, 0 when there are none.
Newest(positions) ==
    LET last == {p \in positions : \A q \in positions \ {p} : Before(chain[q], chain[p])}
    IN  IF last = {} THEN 0 ELSE CHOOSE p \in last : TRUE

\* verify_chain: every event links to the one it is sorted behind.
Verified ==
    \A p \in DOMAIN chain :
        chain[p].prev = Newest({q \in DOMAIN chain : Before(chain[q], chain[p])})

-----------------------------------------------------------------------------
\* A request has committed a change and goes on to record_audit.
Owe(w) == due' = due \cup {w}

\* Mutant of Locked: writers do not wait for each other.
LockedByAnyone(w) == w \notin lock

\* pg_advisory_xact_lock is granted to a writer.
Locked(w) == lock = {}

\* record_audit, up to its query.
Link(w) ==
    /\ w \in due
    /\ link[w] = NoLink
    /\ Locked(w)
    /\ lock' = lock \cup {w}
    /\ link' = [link EXCEPT ![w] = Newest(DOMAIN chain)]
    /\ UNCHANGED <<chain, due>>

\* record_audit, from its clock to its commit.
Commit(w) ==
    /\ link[w] # NoLink
    /\ Len(chain) < MaxEvents
    /\ \E at \in Times, id \in Ids :
        /\ \A p \in DOMAIN chain : chain[p].id # id
        /\ chain' = Append(chain, [at |-> at, id |-> id, prev |-> link[w]])
    /\ link' = [link EXCEPT ![w] = NoLink]
    /\ lock' = lock \ {w}
    /\ due' = due \ {w}

\* Mutant of Lose: the lock outlives its transaction.
LoseKeepingLock(w) ==
    /\ link' = [link EXCEPT ![w] = NoLink]
    /\ due' = due \ {w}
    /\ UNCHANGED <<chain, lock>>

\* The process of a writer dies, or its connection is lost: the database
\* rolls its transaction back.
Lose(w) ==
    /\ link' = [link EXCEPT ![w] = NoLink]
    /\ lock' = lock \ {w}
    /\ due' = due \ {w}
    /\ UNCHANGED chain

AuditInit ==
    /\ chain = <<>>
    /\ lock = {}
    /\ due = {}
    /\ link = [w \in Writers |-> NoLink]

Record(w) == Link(w) \/ Commit(w)

-----------------------------------------------------------------------------
\* The clock went forward from each event to the next.
InOrder == \A p, q \in DOMAIN chain : p < q => chain[p].at < chain[q].at

\* However many writers overlap and die, the audit endpoint verifies the
\* chain, unless an event got a stamp that is not later than the one before
\* it: then the order of the stamps is not the order of the links.
ChainUnlessSkewed == InOrder => Verified
=============================================================================
