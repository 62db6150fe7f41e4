----------------------------- MODULE IdGenProofs -----------------------------
(***************************************************************************)
(* The ids of a process increase, for every number of threads and          *)
(* processes, every size of the fields, and every behaviour of the clock.  *)
(***************************************************************************)
EXTENDS IdGen, TLAPS

\* A sequence number never reaches the next millisecond.
LEMMA IdStaysInItsMillisecond ==
    ASSUME NEW stamp \in Int, NEW node \in Int, NEW seq \in 0 .. SeqSize - 1
    PROVE  /\ Id(stamp, node, seq) \in Int
           /\ Id(stamp, node, seq) < Id(stamp + 1, node, 0)
           /\ Id(stamp, node, seq) + 1 = Id(stamp, node, seq + 1)
<1> USE IdGenAssumption
<1> DEFINE base == stamp * NodeSize + node
<1>1. base \in Int /\ (stamp + 1) * NodeSize + node = base + NodeSize
  OBVIOUS
<1>2. \A b \in Int : /\ b * SeqSize \in Int
                     /\ (b + NodeSize) * SeqSize = b * SeqSize + NodeSize * SeqSize
  OBVIOUS
<1>3. NodeSize * SeqSize >= SeqSize
  OBVIOUS
<1> HIDE DEF base
<1>4. Id(stamp, node, seq) = base * SeqSize + seq
  BY DEF Id, base
<1>5. Id(stamp + 1, node, 0) = base * SeqSize + NodeSize * SeqSize
  BY <1>1, <1>2 DEF Id
<1> QED
  BY <1>1, <1>2, <1>3, <1>4, <1>5 DEF Id, base

\* The first ids of later milliseconds are larger.
LEMMA LaterIsLarger ==
    ASSUME NEW a \in Int, NEW b \in Int, a <= b, NEW node \in Int
    PROVE  Id(a, node, 0) \in Int /\ Id(a, node, 0) <= Id(b, node, 0)
<1> USE IdGenAssumption
<1>1. a * NodeSize + node \in Int /\ b * NodeSize + node \in Int
  OBVIOUS
<1>2. a * NodeSize + node <= b * NodeSize + node
  OBVIOUS
<1>3. \A x, y \in Int : x <= y => x * SeqSize <= y * SeqSize
  OBVIOUS
<1>4. (a * NodeSize + node) * SeqSize <= (b * NodeSize + node) * SeqSize
  BY <1>1, <1>2, <1>3
<1> QED
  BY <1>1, <1>4 DEF Id

-----------------------------------------------------------------------------
LEMMA InitTypeOK == Init => TypeOK
BY IdGenAssumption DEF Init, TypeOK

\* Every step keeps the state well formed.
LEMMA NextTypeOK == TypeOK /\ [Next]_vars => TypeOK'
<1> SUFFICES ASSUME TypeOK, [Next]_vars PROVE TypeOK'
  OBVIOUS
<1> USE IdGenAssumption DEF TypeOK, GoTo
<1>1. ASSUME NEW t \in Threads, Enter(t) PROVE TypeOK'
  BY <1>1 DEF Enter, Locked
<1>2. ASSUME NEW t \in Threads, ReadClock(t) PROVE TypeOK'
  <2>1. Following(ProcessOf[t]) \in 0 .. SeqSize - 1
    BY DEF Following
  <2>2. sequence' \in [Processes -> 0 .. SeqSize - 1]
    BY <1>2, <2>1 DEF ReadClock
  <2>3. pc' \in [Threads -> {"idle", "call", "read", "wait", "give"}]
    BY <1>2 DEF ReadClock
  <2> QED
    BY <1>2, <2>2, <2>3 DEF ReadClock
<1>3. ASSUME NEW t \in Threads, WaitNext(t) PROVE TypeOK'
  BY <1>3 DEF WaitNext
<1>4. ASSUME NEW t \in Threads, Give(t) PROVE TypeOK'
  <2> DEFINE p == ProcessOf[t]
  <2>1. ts[t] \in Int /\ Node[p] \in Int /\ sequence[p] \in 0 .. SeqSize - 1
    OBVIOUS
  <2>2. Id(ts[t], Node[p], sequence[p]) \in Int
    BY <2>1, IdStaysInItsMillisecond
  <2>3. ids' \in [Processes -> Seq(Int)]
    BY <1>4, <2>2 DEF Give
  <2> QED
    BY <1>4, <2>3 DEF Give, FreedLock
<1>5. CASE Tick
  BY <1>5 DEF Tick, generator
<1>6. CASE SetBack
  BY <1>6 DEF SetBack, generator
<1>7. ASSUME NEW p \in Processes, Restart(p) PROVE TypeOK'
  BY <1>7 DEF Restart
<1>8. CASE UNCHANGED vars
  BY <1>8 DEF vars
<1>10. ASSUME NEW t \in Threads, Call(t) PROVE TypeOK'
  BY <1>10 DEF Call, generator
<1> QED
  BY <1>1, <1>2, <1>3, <1>4, <1>5, <1>6, <1>7, <1>8, <1>10 DEF Next, Step

-----------------------------------------------------------------------------
LEMMA InitIdGenInv == Init => IdGenInv
BY IdGenAssumption
   DEF Init, IdGenInv, OneInside, Inside, LastIsLast, NextIsNew, IdsIncrease, GivenBelow

\* The lock keeps a second thread of the process out.
LEMMA OneInsideKept == TypeOK /\ OneInside /\ [Next]_vars => OneInside'
<1> SUFFICES ASSUME TypeOK, OneInside, [Next]_vars PROVE OneInside'
  OBVIOUS
<1> USE IdGenAssumption DEF TypeOK, OneInside, Inside, GoTo
<1>1. ASSUME NEW t \in Threads, Enter(t) PROVE OneInside'
  BY <1>1 DEF Enter, Locked
<1>2. ASSUME NEW t \in Threads, ReadClock(t) PROVE OneInside'
  BY <1>2 DEF ReadClock
<1>3. ASSUME NEW t \in Threads, WaitNext(t) PROVE OneInside'
  BY <1>3 DEF WaitNext
<1>4. ASSUME NEW t \in Threads, Give(t) PROVE OneInside'
  BY <1>4 DEF Give, FreedLock
<1>5. CASE Tick
  BY <1>5 DEF Tick, generator
<1>6. CASE SetBack
  BY <1>6 DEF SetBack, generator
<1>7. ASSUME NEW p \in Processes, Restart(p) PROVE OneInside'
  BY <1>7 DEF Restart
<1>8. CASE UNCHANGED vars
  BY <1>8 DEF vars
<1>10. ASSUME NEW t \in Threads, Call(t) PROVE OneInside'
  BY <1>10 DEF Call, generator
<1> QED
  BY <1>1, <1>2, <1>3, <1>4, <1>5, <1>6, <1>7, <1>8, <1>10 DEF Next, Step

\* What Give does to the ids of its process, and to those of the others.
LEMMA GiveAppends ==
    ASSUME TypeOK, NEW t \in Threads, Give(t)
    PROVE  LET p == ProcessOf[t]
               n == Len(ids[p])
           IN /\ p \in Processes /\ n \in Nat
              /\ Len(ids'[p]) = n + 1
              /\ \A i \in 1..n : ids'[p][i] = ids[p][i]
              /\ ids'[p][n + 1] = Id(ts[t], Node[p], sequence[p])
              /\ \A q \in Processes \ {p} : ids'[q] = ids[q]
<1> DEFINE p == ProcessOf[t]
           new == Id(ts[t], Node[p], sequence[p])
<1>1. p \in Processes
  BY IdGenAssumption DEF TypeOK
<1>2. ts[t] \in Int /\ Node[p] \in Int /\ sequence[p] \in 0 .. SeqSize - 1
  BY <1>1, IdGenAssumption DEF TypeOK
<1>3. new \in Int
  BY <1>2, IdStaysInItsMillisecond
<1>4. ids[p] \in Seq(Int)
  BY <1>1 DEF TypeOK
<1>5. ids' = [ids EXCEPT ![p] = Append(ids[p], new)]
  BY DEF Give
<1>6. ids'[p] = Append(ids[p], new) /\ \A q \in Processes \ {p} : ids'[q] = ids[q]
  BY <1>1, <1>5 DEF TypeOK
<1> HIDE DEF new
<1>7. /\ Len(Append(ids[p], new)) = Len(ids[p]) + 1
      /\ \A i \in 1..Len(ids[p]) : Append(ids[p], new)[i] = ids[p][i]
      /\ Append(ids[p], new)[Len(ids[p]) + 1] = new
      /\ Len(ids[p]) \in Nat
  BY <1>3, <1>4
<1> QED
  BY <1>1, <1>6, <1>7 DEF new

\* All parts of an id, and all ids given, are integers.
LEMMA Numbers ==
    ASSUME TypeOK, NEW p \in Processes
    PROVE  /\ last_ts[p] \in Int /\ Node[p] \in Int
           /\ sequence[p] \in 0 .. SeqSize - 1
           /\ clock \in Int /\ \A t \in Threads : ts[t] \in Int
           /\ \A i \in 1..Len(ids[p]) : ids[p][i] \in Int
           /\ \A stamp \in Int : Id(stamp, Node[p], 0) \in Int
<1>1. Node[p] \in Int
  BY IdGenAssumption
<1>2. \A stamp \in Int : Id(stamp, Node[p], 0) \in Int
  <2> TAKE stamp \in Int
  <2>1. stamp <= stamp
    OBVIOUS
  <2> QED
    BY <1>1, <2>1, LaterIsLarger
<1>3. ids[p] \in Seq(Int)
  BY DEF TypeOK
<1>4. \A i \in 1..Len(ids[p]) : ids[p][i] \in Int
  BY <1>3
<1> QED
  BY <1>1, <1>2, <1>4, IdGenAssumption DEF TypeOK

\* The first id of a later millisecond is above all ids given.
LEMMA FreshMillisecond ==
    ASSUME TypeOK, LastIsLast, NEW p \in Processes,
           NEW stamp \in Int, last_ts[p] < stamp
    PROVE  GivenBelow(p, Id(stamp, Node[p], 0))
<1>0. last_ts[p] + 1 \in Int /\ last_ts[p] + 1 <= stamp /\ Node[p] \in Int
  <2>1. last_ts[p] \in Int /\ Node[p] \in Int
    BY Numbers
  <2> QED
    BY <2>1
<1>1. Id(last_ts[p] + 1, Node[p], 0) <= Id(stamp, Node[p], 0)
  BY <1>0, LaterIsLarger
<1>2. GivenBelow(p, Id(last_ts[p] + 1, Node[p], 0))
  BY DEF LastIsLast
<1>3. /\ Id(last_ts[p] + 1, Node[p], 0) \in Int
      /\ Id(stamp, Node[p], 0) \in Int
      /\ \A i \in 1..Len(ids[p]) : ids[p][i] \in Int
  BY <1>0, Numbers
<1> QED
  BY <1>1, <1>2, <1>3 DEF GivenBelow

\* What a thread is about to give is above all that was given.
LEMMA NextIsNewKept == TypeOK /\ IdGenInv /\ [Next]_vars => NextIsNew'
<1> SUFFICES ASSUME TypeOK, OneInside, LastIsLast, NextIsNew, [Next]_vars
             PROVE  NextIsNew'
  BY DEF IdGenInv
<1> SUFFICES ASSUME NEW u \in Threads, pc'[u] = "give"
             PROVE  GivenBelow(ProcessOf[u],
                        Id(ts[u], Node[ProcessOf[u]], sequence[ProcessOf[u]]))'
  BY DEF NextIsNew
<1> DEFINE p == ProcessOf[u]
<1>0. p \in Processes /\ (pc[u] = "give" =>
          GivenBelow(p, Id(ts[u], Node[p], sequence[p])))
  BY IdGenAssumption DEF NextIsNew
<1>9. /\ clock \in Int /\ last_ts[p] \in Int /\ Node[p] \in Int
      /\ sequence[p] \in Nat
  BY <1>0, IdGenAssumption DEF TypeOK
<1> USE DEF TypeOK, GoTo
<1>1. ASSUME NEW t \in Threads, Enter(t) PROVE GivenBelow(p, Id(ts[u], Node[p], sequence[p]))'
  BY <1>0, <1>1 DEF Enter, Locked, GivenBelow, Id
<1>2. ASSUME NEW t \in Threads, ReadClock(t) PROVE GivenBelow(p, Id(ts[u], Node[p], sequence[p]))'
  <2>1. CASE t = u
    <3>1. ts'[u] = clock /\ ids' = ids
      BY <1>2, <2>1 DEF ReadClock
    <3>2. CASE clock > last_ts[p]
      <4>0. sequence' = [sequence EXCEPT ![p] = 0]
        BY <1>2, <1>9, <2>1, <3>2 DEF ReadClock
      <4>1. sequence'[p] = 0
        BY <1>0, <4>0
      <4>2. GivenBelow(p, Id(clock, Node[p], 0))
        BY <1>0, <3>2, Numbers, FreshMillisecond
      <4> QED
        BY <3>1, <4>1, <4>2 DEF GivenBelow, Id
    <3>3. CASE clock = last_ts[p]
      <4>1. sequence'[p] = Following(p) /\ Following(p) # 0
        <5>1. /\ sequence' = [sequence EXCEPT ![p] = Following(p)]
              /\ pc' = [pc EXCEPT ![u] = IF Following(p) = 0 THEN "wait" ELSE "give"]
          BY <1>2, <1>9, <2>1, <3>3 DEF ReadClock
        <5> QED
          BY <1>0, <5>1
      <4>2. sequence'[p] = sequence[p] + 1
        BY <4>1 DEF Following
      <4>3. \A s \in Threads : ProcessOf[s] = p => pc[s] \in {"idle", "call", "read"}
        BY <1>2, <2>1 DEF OneInside, Inside, ReadClock
      <4>4. GivenBelow(p, Id(clock, Node[p], sequence[p]) + 1)
        BY <1>0, <3>3, <4>3 DEF LastIsLast
      <4>5. Id(clock, Node[p], sequence[p]) + 1 = Id(clock, Node[p], sequence[p] + 1)
        BY <1>0, Numbers, IdStaysInItsMillisecond
      <4> QED
        BY <3>1, <4>2, <4>4, <4>5 DEF GivenBelow, Id
    <3>4. CASE clock < last_ts[p]
      <4>1. pc' = [pc EXCEPT ![u] = "wait"]
        BY <1>2, <1>9, <2>1, <3>4 DEF ReadClock
      <4> QED
        BY <4>1
    <3> QED
      BY <1>9, <3>2, <3>3, <3>4
  <2>2. CASE t # u
    <3>1. pc[u] = "give" /\ ProcessOf[t] # p
      BY <1>2, <2>2 DEF ReadClock, OneInside, Inside
    <3>2. sequence'[p] = sequence[p] /\ ts'[u] = ts[u] /\ ids' = ids
      BY <1>0, <1>2, <2>2, <3>1 DEF ReadClock
    <3> QED
      BY <1>0, <3>1, <3>2 DEF GivenBelow, Id
  <2> QED
    BY <2>1, <2>2
<1>3. ASSUME NEW t \in Threads, WaitNext(t) PROVE GivenBelow(p, Id(ts[u], Node[p], sequence[p]))'
  <2>1. CASE t = u
    <3>1. ts'[u] = clock /\ ids' = ids /\ sequence' = sequence /\ clock > last_ts[p]
      BY <1>3, <2>1 DEF WaitNext, Passed
    <3>2. GivenBelow(p, Id(clock, Node[p], 0))
      BY <1>0, <3>1, Numbers, FreshMillisecond
    <3>3. Id(clock, Node[p], 0) <= Id(clock, Node[p], sequence[p])
          /\ Id(clock, Node[p], 0) \in Int /\ Id(clock, Node[p], sequence[p]) \in Int
      <4>1. (clock * NodeSize + Node[p]) * SeqSize \in Int
        BY <1>9, IdGenAssumption
      <4> QED
        BY <1>9, <4>1 DEF Id
    <3>4. \A i \in 1..Len(ids[p]) : ids[p][i] \in Int
      BY <1>0, Numbers
    <3>5. GivenBelow(p, Id(clock, Node[p], sequence[p]))
      BY <3>2, <3>3, <3>4 DEF GivenBelow
    <3> QED
      BY <3>1, <3>5 DEF GivenBelow, Id
  <2>2. CASE t # u
    BY <1>0, <1>3, <2>2 DEF WaitNext, GivenBelow, Id
  <2> QED
    BY <2>1, <2>2
<1>4. ASSUME NEW t \in Threads, Give(t) PROVE GivenBelow(p, Id(ts[u], Node[p], sequence[p]))'
  <2>1. t # u /\ pc[u] = "give" /\ ts' = ts /\ sequence' = sequence
    BY <1>4 DEF Give
  <2>2. ProcessOf[t] # p
    BY <1>4, <2>1 DEF Give, OneInside, Inside
  <2>3. ids'[p] = ids[p]
    BY <1>0, <1>4, <2>2, GiveAppends
  <2> QED
    BY <1>0, <2>1, <2>3 DEF GivenBelow, Id
<1>5. CASE Tick
  BY <1>0, <1>5 DEF Tick, generator, GivenBelow, Id
<1>6. CASE SetBack
  BY <1>0, <1>6 DEF SetBack, generator, GivenBelow, Id
<1>7. ASSUME NEW q \in Processes, Restart(q) PROVE GivenBelow(p, Id(ts[u], Node[p], sequence[p]))'
  <2>1. p # q /\ pc[u] = "give"
    BY <1>7 DEF Restart
  <2>2. ts' = ts /\ sequence'[p] = sequence[p] /\ ids'[p] = ids[p]
    BY <1>0, <1>7, <2>1 DEF Restart
  <2> QED
    BY <1>0, <2>1, <2>2 DEF GivenBelow, Id
<1>8. CASE UNCHANGED vars
  BY <1>0, <1>8 DEF vars, GivenBelow, Id
<1>10. ASSUME NEW t \in Threads, Call(t) PROVE GivenBelow(p, Id(ts[u], Node[p], sequence[p]))'
  BY <1>0, <1>10 DEF Call, generator, GivenBelow, Id
<1> QED
  BY <1>1, <1>2, <1>3, <1>4, <1>5, <1>6, <1>7, <1>8, <1>10 DEF Next, Step

\* The ids of a process increase: each one appended is above all before it.
LEMMA IncreaseKept == TypeOK /\ IdGenInv /\ [Next]_vars => IdsIncrease'
<1> SUFFICES ASSUME TypeOK, NextIsNew, IdsIncrease, [Next]_vars
             PROVE  IdsIncrease'
  BY DEF IdGenInv
<1>1. CASE UNCHANGED ids
  BY <1>1 DEF IdsIncrease
<1>2. ASSUME NEW t \in Threads, Give(t) PROVE IdsIncrease'
  <2> SUFFICES ASSUME NEW q \in Processes, NEW i \in 1..Len(ids'[q]),
                      NEW j \in 1..Len(ids'[q]), i < j
               PROVE  ids'[q][i] < ids'[q][j]
    BY DEF IdsIncrease
  <2> DEFINE p == ProcessOf[t]
             n == Len(ids[p])
             new == Id(ts[t], Node[p], sequence[p])
  <2>1. /\ p \in Processes /\ n \in Nat
        /\ Len(ids'[p]) = n + 1
        /\ \A k \in 1..n : ids'[p][k] = ids[p][k]
        /\ ids'[p][n + 1] = new
        /\ \A other \in Processes \ {p} : ids'[other] = ids[other]
    BY <1>2, GiveAppends
  <2>2. \A k \in 1..n : ids[p][k] < new
    BY <1>2 DEF NextIsNew, GivenBelow, Give
  <2> HIDE DEF new
  <2>3. CASE q # p
    BY <2>1, <2>3 DEF IdsIncrease
  <2>4. CASE q = p /\ j = n + 1
    BY <2>1, <2>2, <2>4
  <2>5. CASE q = p /\ j # n + 1
    <3>1. i \in 1..n /\ j \in 1..n
      BY <2>1, <2>5
    <3> QED
      BY <2>1, <2>5, <3>1 DEF IdsIncrease
  <2> QED
    BY <2>3, <2>4, <2>5
<1>3. ASSUME NEW p \in Processes, Restart(p) PROVE IdsIncrease'
  <2>1. ids' = [ids EXCEPT ![p] = <<>>]
    BY <1>3 DEF Restart
  <2> QED
    BY <2>1 DEF IdsIncrease, TypeOK
<1> QED
  BY <1>1, <1>2, <1>3
     DEF Next, Step, Call, Enter, ReadClock, WaitNext, Tick, SetBack, generator, vars

\* No id reaches the millisecond after the last one, nor, while nobody is about
\* to give one, the id after the last.
LEMMA LastKept == TypeOK /\ IdGenInv /\ [Next]_vars => LastIsLast'
<1> SUFFICES ASSUME TypeOK, OneInside, LastIsLast, NextIsNew, [Next]_vars,
                    NEW q \in Processes
             PROVE  /\ GivenBelow(q, Id(last_ts[q] + 1, Node[q], 0))'
                    /\ (\A s \in Threads : ProcessOf[s] = q => pc'[s] \in {"idle", "call", "read"}) =>
                          GivenBelow(q, Id(last_ts[q], Node[q], sequence[q]) + 1)'
  BY DEF IdGenInv, LastIsLast
<1> DEFINE Below == GivenBelow(q, Id(last_ts[q] + 1, Node[q], 0))
           Quiet == \A s \in Threads : ProcessOf[s] = q => pc[s] \in {"idle", "call", "read"}
           Last  == GivenBelow(q, Id(last_ts[q], Node[q], sequence[q]) + 1)
<1>0. Below /\ (Quiet => Last)
  BY DEF LastIsLast
<1> USE DEF GivenBelow, Id, GoTo
<1>1. ASSUME NEW t \in Threads, Enter(t) PROVE Below' /\ (Quiet' => Last')
  <2>1. Quiet' => Quiet
    BY <1>1 DEF Enter, TypeOK
  <2> QED
    BY <1>0, <1>1, <2>1 DEF Enter
<1>2. ASSUME NEW t \in Threads, ReadClock(t) PROVE Below' /\ (Quiet' => Last')
  <2>1. last_ts' = last_ts /\ ids' = ids
    BY <1>2 DEF ReadClock
  <2>2. pc'[t] \in {"wait", "give"}
    BY <1>2, IdGenAssumption DEF ReadClock, TypeOK
  <2>3. CASE ProcessOf[t] = q
    BY <1>0, <2>1, <2>2, <2>3
  <2>4. CASE ProcessOf[t] # q
    <3>1. sequence'[q] = sequence[q]
      BY <1>2, <2>4 DEF ReadClock, TypeOK
    <3>2. Quiet' => Quiet
      BY <1>2, <2>4 DEF ReadClock, TypeOK
    <3> QED
      BY <1>0, <2>1, <3>1, <3>2
  <2> QED
    BY <2>3, <2>4
<1>3. ASSUME NEW t \in Threads, WaitNext(t) PROVE Below' /\ (Quiet' => Last')
  <2>1. Quiet' => Quiet
    BY <1>3 DEF WaitNext, TypeOK
  <2> QED
    BY <1>0, <1>3, <2>1 DEF WaitNext
<1>4. ASSUME NEW t \in Threads, Give(t) PROVE Below' /\ (Quiet' => Last')
  <2>1. CASE ProcessOf[t] # q
    <3>1. last_ts'[q] = last_ts[q] /\ sequence' = sequence
      BY <1>4, <2>1 DEF Give, TypeOK
    <3>2. ids'[q] = ids[q]
      BY <1>4, <2>1, GiveAppends
    <3>3. Quiet' => Quiet
      BY <1>4, <2>1 DEF Give, TypeOK
    <3> QED
      BY <1>0, <3>1, <3>2, <3>3
  <2>2. CASE ProcessOf[t] = q
    <3> DEFINE n == Len(ids[q])
               new == Id(ts[t], Node[q], sequence[q])
               top == Id(ts[t] + 1, Node[q], 0)
    <3>1. /\ n \in Nat /\ Len(ids'[q]) = n + 1
          /\ \A k \in 1..n : ids'[q][k] = ids[q][k]
          /\ ids'[q][n + 1] = new
      BY <1>4, <2>2, GiveAppends
    <3>2. \A k \in 1..n : ids[q][k] < new
      BY <1>4, <2>2 DEF NextIsNew, Give
    <3>3. ts[t] \in Int /\ Node[q] \in Int /\ sequence[q] \in 0 .. SeqSize - 1
      BY Numbers
    <3>4. new \in Int /\ new < top
      BY <3>3, IdStaysInItsMillisecond
    <3>5. top \in Int
      <4>1. ts[t] + 1 \in Int /\ ts[t] + 1 <= ts[t] + 1
        BY <3>3
      <4> QED
        BY <3>3, <4>1, LaterIsLarger
    <3>6. \A k \in 1..n : ids[q][k] \in Int
      BY Numbers
    <3>7. last_ts'[q] = ts[t] /\ sequence' = sequence
      BY <1>4, <2>2 DEF Give, TypeOK
    <3>8. Below' <=> \A k \in 1..Len(ids'[q]) : ids'[q][k] < top
      BY <3>7
    <3>9. Last' <=> \A k \in 1..Len(ids'[q]) : ids'[q][k] < new + 1
      BY <3>7
    <3> HIDE DEF new, top, Below, Last, Quiet
    <3>10. \A k \in 1..n + 1 : ids'[q][k] \in Int /\ ids'[q][k] <= new
      BY <3>1, <3>2, <3>4, <3>6
    <3>11. \A x \in Int : x <= new => x < top /\ x < new + 1
      BY <3>4, <3>5
    <3>12. \A k \in 1..Len(ids'[q]) : ids'[q][k] < top /\ ids'[q][k] < new + 1
      BY <3>1, <3>10, <3>11
    <3>13. Below'
      BY <3>8, <3>12
    <3>14. Last'
      BY <3>9, <3>12
    <3> QED
      BY <3>13, <3>14
  <2> QED
    BY <2>1, <2>2
<1>5. CASE Tick
  BY <1>0, <1>5 DEF Tick, generator
<1>6. CASE SetBack
  BY <1>0, <1>6 DEF SetBack, generator
<1>7. ASSUME NEW p \in Processes, Restart(p) PROVE Below' /\ (Quiet' => Last')
  <2>1. CASE p = q
    <3>1. ids'[q] = <<>>
      BY <1>7, <2>1 DEF Restart, TypeOK
    <3> QED
      BY <3>1
  <2>2. CASE p # q
    <3>1. last_ts'[q] = last_ts[q] /\ sequence'[q] = sequence[q] /\ ids'[q] = ids[q]
      BY <1>7, <2>2 DEF Restart, TypeOK
    <3>2. Quiet' => Quiet
      BY <1>7, <2>2 DEF Restart, TypeOK
    <3> QED
      BY <1>0, <3>1, <3>2
  <2> QED
    BY <2>1, <2>2
<1>8. CASE UNCHANGED vars
  BY <1>0, <1>8 DEF vars
<1>10. ASSUME NEW t \in Threads, Call(t) PROVE Below' /\ (Quiet' => Last')
  <2>1. Quiet' => Quiet
    BY <1>10 DEF Call, generator, TypeOK
  <2> QED
    BY <1>0, <1>10, <2>1 DEF Call, generator
<1> QED
  BY <1>1, <1>2, <1>3, <1>4, <1>5, <1>6, <1>7, <1>8, <1>10 DEF Next, Step

-----------------------------------------------------------------------------
(***************************************************************************)
(* The results                                                             *)
(***************************************************************************)
\* The state is well formed and the invariant holds, always.
THEOREM IdGenInvariant == Spec => [](TypeOK /\ IdGenInv)
<1>1. TypeOK /\ IdGenInv /\ [Next]_vars => (TypeOK /\ IdGenInv)'
  BY NextTypeOK, OneInsideKept, NextIsNewKept, IncreaseKept, LastKept DEF IdGenInv
<1> QED
  BY <1>1, InitTypeOK, InitIdGenInv, PTL DEF Spec

\* No process repeats an id, and each is larger than the one before: whatever
\* the clock does, and however many threads ask.
THEOREM ProcessIdsIncrease == Spec => []IdsIncrease
BY IdGenInvariant, PTL DEF IdGenInv

=============================================================================
