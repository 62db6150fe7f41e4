-------------------------------- MODULE Audit --------------------------------
(***************************************************************************)
(* The audit log (apps/audit/models.py): each event names the hash of the  *)
(* event before it, so that the log is a chain nobody can cut.             *)
(*                                                                         *)
(* An event takes its time when the object is made.  save opens a          *)
(* transaction, asks for the newest event FOR UPDATE, and inserts.  The    *)
(* row lock makes a second save wait, but PostgreSQL then checks only that *)
(* the row it waited for is unchanged and returns it, although a newer one *)
(* has been committed meanwhile; and an empty table has no row to lock.    *)
(***************************************************************************)
EXTENDS Integers, FiniteSets

CONSTANT AuditEvents

Nothing == 0

ASSUME AuditAssumption == Nothing \notin AuditEvents /\ IsFiniteSet(AuditEvents)

VARIABLES
    log,        \* the committed events
    audit,      \* per event: where its save is
    created,    \* created_at
    before,     \* hash_prev, as the event it names
    together    \* pairs of events that were being recorded at the same time

auditVars == <<log, audit, created, before, together>>

AuditInit ==
    /\ log = {}
    /\ audit = [e \in AuditEvents |-> "new"]
    /\ created = [e \in AuditEvents |-> 0]
    /\ before = [e \in AuditEvents |-> Nothing]
    /\ together = {}

Recording == {e \in AuditEvents : audit[e] \notin {"new", "done"}}
Continue(e, pc) == audit' = [audit EXCEPT ![e] = pc]

\* AuditEvent(...): timezone.now is the default of created_at.
Instantiate(e) ==
    /\ audit[e] = "new"
    /\ Continue(e, "save")
    /\ created' = [created EXCEPT ![e] =
                     1 + Cardinality({f \in AuditEvents : created[f] > 0})]
    /\ together' = together \cup {{e, f} : f \in Recording}
    /\ UNCHANGED <<log, before>>

\* order_by("-created_at", "-id").first()
Newest == {e \in log : \A f \in log : created[f] <= created[e]}

\* Mistake: only events of the same type are asked for, and there is none.
SelectOfType(e) ==
    /\ audit[e] = "save"
    /\ Continue(e, "insert")
    /\ UNCHANGED <<log, created, before, together>>

SelectNewest(e) ==
    /\ audit[e] = "save"
    /\ IF log = {} THEN Continue(e, "insert") /\ UNCHANGED before
       ELSE \E last \in Newest :
               before' = [before EXCEPT ![e] = last] /\ Continue(e, "lock")
    /\ UNCHANGED <<log, created, together>>

\* select_for_update: the lock is held until the transaction ends.
LockRow(e) ==
    /\ audit[e] = "lock"
    /\ ~\E f \in AuditEvents :
            audit[f] = "insert" /\ before[f] = before[e]
    /\ Continue(e, "insert")
    /\ UNCHANGED <<log, created, before, together>>

InsertEvent(e) ==
    /\ audit[e] = "insert"
    /\ log' = log \cup {e}
    /\ Continue(e, "done")
    /\ UNCHANGED <<created, before, together>>

\* The transaction is rolled back.
AbortSave(e) ==
    /\ e \in Recording
    /\ Continue(e, "done")
    /\ UNCHANGED <<log, created, before, together>>

AuditNext ==
    \E e \in AuditEvents :
        Instantiate(e) \/ SelectNewest(e) \/ LockRow(e) \/ InsertEvent(e) \/ AbortSave(e)

-----------------------------------------------------------------------------
\* The chain forks only around events that were recorded at the same time: two events
\* name the same one before them only if they overlapped each other, or one of them
\* overlapped the event they name and has an older time than it.
Overlapped(e, f) == {e, f} \in together

ChainForksOnlyByOverlap ==
    \A e, f \in log :
        e # f /\ before[e] = before[f] =>
            \/ Overlapped(e, f)
            \/ \E late \in {e, f} :
                  Overlapped(late, before[e]) /\ created[late] < created[before[e]]

=============================================================================
