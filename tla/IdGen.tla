-------------------------------- MODULE IdGen --------------------------------
(***************************************************************************)
(* The primary keys of all rows (libs/idgen.py): a SnowflakeGenerator in   *)
(* every web and Celery process, called by the threads of the process      *)
(* under one lock, on the clock of the host, which may be set back.        *)
(*                                                                         *)
(* The lock is held while a thread waits for the clock.  A process that    *)
(* gunicorn replaces starts with a fresh generator.                        *)
(***************************************************************************)
EXTENDS Integers, Sequences, FiniteSets

CONSTANTS
    Threads, Processes,
    ProcessOf,     \* the process of each thread
    Node,          \* node_id of a process; generate_id always takes the default, 1
    SeqSize,       \* sequence numbers in a millisecond, 4096 in the code
    NodeSize,      \* node numbers, 1024 in the code
    NoThread,      \* the holder of a free lock
    MaxClock, MaxSetBacks, MaxIds, MaxRestarts   \* bounds

ASSUME IdGenAssumption ==
    /\ ProcessOf \in [Threads -> Processes]
    /\ SeqSize \in Nat \ {0}
    /\ NodeSize \in Nat \ {0}
    /\ Node \in [Processes -> 0 .. NodeSize - 1]
    /\ NoThread \notin Threads
    /\ MaxClock \in Nat
    /\ MaxSetBacks \in Nat
    /\ MaxIds \in Nat
    /\ MaxRestarts \in Nat

VARIABLES
    clock,       \* milliseconds since the epoch of the generator
    last_ts,     \* _last_ts of the generator of each process
    sequence,    \* _sequence
    lock,        \* who holds _lock in each process
    pc,
    ts,          \* the timestamp a thread has read
    ids,         \* the ids each process has given out since it started, in order
    setBacks, restarts

vars == <<clock, last_ts, sequence, lock, pc, ts, ids, setBacks, restarts>>

generator == <<last_ts, sequence, lock, ids>>

TypeOK ==
    /\ clock \in 0..MaxClock
    /\ last_ts \in [Processes -> Int]
    /\ sequence \in [Processes -> 0 .. SeqSize - 1]
    /\ lock \in [Processes -> Threads \cup {NoThread}]
    /\ pc \in [Threads -> {"idle", "call", "read", "wait", "give"}]
    /\ ts \in [Threads -> 0..MaxClock]
    /\ ids \in [Processes -> Seq(Int)]
    /\ setBacks \in 0..MaxSetBacks
    /\ restarts \in 0..MaxRestarts

Init ==
    /\ clock = 0
    /\ last_ts = [p \in Processes |-> -1]
    /\ sequence = [p \in Processes |-> 0]
    /\ lock = [p \in Processes |-> NoThread]
    /\ pc = [t \in Threads |-> "idle"]
    /\ ts = [t \in Threads |-> 0]
    /\ ids = [p \in Processes |-> <<>>]
    /\ setBacks = 0
    /\ restarts = 0

-----------------------------------------------------------------------------
GoTo(t, there) == pc' = [pc EXCEPT ![t] = there]

Locked(t) ==
    /\ lock[ProcessOf[t]] = NoThread
    /\ lock' = [lock EXCEPT ![ProcessOf[t]] = t]

Calling(p) == {t \in Threads : ProcessOf[t] = p /\ pc[t] # "idle"}

\* A thread makes a row and calls generate_id, within the bound on the ids.
Call(t) ==
    LET p == ProcessOf[t]
    IN /\ pc[t] = "idle"
       /\ Len(ids[p]) + Cardinality(Calling(p)) < MaxIds
       /\ GoTo(t, "call")
       /\ UNCHANGED <<clock, generator, ts, setBacks, restarts>>

\* get_id takes the lock.
Enter(t) ==
    /\ pc[t] = "call"
    /\ Locked(t)
    /\ GoTo(t, "read")
    /\ UNCHANGED <<clock, last_ts, sequence, ts, ids, setBacks, restarts>>

\* (_sequence + 1) & 0xFFF.
Following(p) == IF sequence[p] + 1 = SeqSize THEN 0 ELSE sequence[p] + 1

\* get_id reads the clock: a new millisecond starts its sequence from 0, the
\* same one counts on, one that is full or earlier than the last id waits.
ReadClock(t) ==
    LET p == ProcessOf[t]
    IN /\ pc[t] = "read"
       /\ ts' = [ts EXCEPT ![t] = clock]
       /\ \/ /\ clock > last_ts[p]
             /\ sequence' = [sequence EXCEPT ![p] = 0]
             /\ GoTo(t, "give")
          \/ /\ clock = last_ts[p]
             /\ sequence' = [sequence EXCEPT ![p] = Following(p)]
             /\ GoTo(t, IF Following(p) = 0 THEN "wait" ELSE "give")
          \/ /\ clock < last_ts[p]
             /\ sequence' = [sequence EXCEPT ![p] = 0]
             /\ GoTo(t, "wait")
       /\ UNCHANGED <<clock, last_ts, lock, ids, setBacks, restarts>>

\* Mistake: the loop ends with the last millisecond, not after it.
CaughtUp(p) == clock >= last_ts[p]

Passed(p) == clock > last_ts[p]

\* _wait_next: the loop ends when the clock has passed the last id.
WaitNext(t) ==
    /\ pc[t] = "wait"
    /\ Passed(ProcessOf[t])
    /\ ts' = [ts EXCEPT ![t] = clock]
    /\ GoTo(t, "give")
    /\ UNCHANGED <<clock, last_ts, sequence, lock, ids, setBacks, restarts>>

\* ((ts - epoch) << 22) | (node_id << 12) | sequence.
Id(stamp, node, seq) == (stamp * NodeSize + node) * SeqSize + seq

\* Mistake: the lock is not released.
KeptLock(t) == lock

FreedLock(t) == [lock EXCEPT ![ProcessOf[t]] = NoThread]

\* _last_ts is stored, the lock released, the id returned.
Give(t) ==
    LET p == ProcessOf[t]
    IN /\ pc[t] = "give"
       /\ last_ts' = [last_ts EXCEPT ![p] = ts[t]]
       /\ ids' = [ids EXCEPT ![p] = Append(@, Id(ts[t], Node[p], sequence[p]))]
       /\ lock' = FreedLock(t)
       /\ GoTo(t, "idle")
       /\ UNCHANGED <<clock, sequence, ts, setBacks, restarts>>

-----------------------------------------------------------------------------
Tick ==
    /\ clock < MaxClock
    /\ clock' = clock + 1
    /\ UNCHANGED <<generator, pc, ts, setBacks, restarts>>

\* The clock is set back.
SetBack ==
    /\ setBacks < MaxSetBacks
    /\ setBacks' = setBacks + 1
    /\ \E c \in 0 .. clock - 1 : clock' = c
    /\ UNCHANGED <<generator, pc, ts, restarts>>

\* A process is replaced: its threads and its generator start afresh.
Restart(p) ==
    /\ restarts < MaxRestarts
    /\ restarts' = restarts + 1
    /\ last_ts' = [last_ts EXCEPT ![p] = -1]
    /\ sequence' = [sequence EXCEPT ![p] = 0]
    /\ lock' = [lock EXCEPT ![p] = NoThread]
    /\ ids' = [ids EXCEPT ![p] = <<>>]
    /\ pc' = [t \in Threads |-> IF ProcessOf[t] = p THEN "idle" ELSE pc[t]]
    /\ UNCHANGED <<clock, ts, setBacks>>

Step(t) == Enter(t) \/ ReadClock(t) \/ WaitNext(t) \/ Give(t)

Next ==
    \/ \E t \in Threads : Call(t) \/ Step(t)
    \/ Tick \/ SetBack
    \/ \E p \in Processes : Restart(p)

\* Threads run, and time goes on.
Fairness == WF_vars(Tick) /\ \A t \in Threads : WF_vars(Step(t))

Spec == Init /\ [][Next]_vars /\ Fairness

-----------------------------------------------------------------------------
(***************************************************************************)
(* Properties                                                              *)
(***************************************************************************)
\* The ids of one process grow strictly, and so never repeat, whatever its
\* threads and the clock do.
IdsIncrease ==
    \A p \in Processes : \A i, j \in 1..Len(ids[p]) :
        i < j => ids[p][i] < ids[p][j]

\* At its bound the clock stands still, so a thread may wait for it there.
OutOfTime(p) ==
    clock = MaxClock /\ \E t \in Threads : ProcessOf[t] = p /\ pc[t] = "wait"

\* No thread waits for ever, neither for the lock nor for the clock: a call
\* returns once the clock has caught up with the ids given.
CallsReturn ==
    \A t \in Threads : pc[t] # "idle" ~> pc[t] = "idle" \/ OutOfTime(ProcessOf[t])

\* backand.md: "Snowflake-like 64-bit IDs (time-ordered; libs/idgen.py)".  An id
\* is never smaller than, or equal to, one that was given out before it.
TimeOrdered ==
    [][\A p, q \in Processes : ids'[p] # ids[p] /\ ids'[p] # <<>> =>
          \A i \in 1..Len(ids[q]) : ids[q][i] < ids'[p][Len(ids'[p])]]_vars

-----------------------------------------------------------------------------
(***************************************************************************)
(* Why ids increase: the invariant their proof is built on.                *)
(***************************************************************************)
\* The lock of a process is held by the one thread that is in get_id.
Inside == {"read", "wait", "give"}

OneInside ==
    \A t \in Threads : pc[t] \in Inside => lock[ProcessOf[t]] = t

\* The ids given are below the first id of any millisecond after the last one,
\* and below what the thread inside is about to give.
GivenBelow(p, n) == \A i \in 1..Len(ids[p]) : ids[p][i] < n

LastIsLast ==
    \A p \in Processes :
        /\ GivenBelow(p, Id(last_ts[p] + 1, Node[p], 0))
        /\ (\A t \in Threads : ProcessOf[t] = p => pc[t] \in {"idle", "call", "read"}) =>
              GivenBelow(p, Id(last_ts[p], Node[p], sequence[p]) + 1)

NextIsNew ==
    \A t \in Threads : pc[t] = "give" =>
        LET p == ProcessOf[t]
        IN GivenBelow(p, Id(ts[t], Node[p], sequence[p]))

IdGenInv == OneInside /\ LastIsLast /\ NextIsNew /\ IdsIncrease

=============================================================================
