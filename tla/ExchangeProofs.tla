-------------------------- MODULE ExchangeProofs ---------------------------
(***************************************************************************)
(* Proofs about Push, Gateway, Delivery and Notify, the ways in which an   *)
(* event or a message reaches its users, about Threads, in which users     *)
(* write to each other, and about Checkout, in which providers and the     *)
(* program tell each other of payments, and about Mentor, in which a user  *)
(* asks and a language model replies: for any number of users, sockets,    *)
(* tasks, requests, payments and questions.                                *)
(***************************************************************************)
EXTENDS Push, Gateway, Delivery, Notify, Checkout, Threads, Mentor, FiniteSetTheorems,
        SequenceTheorems, TLAPS

-----------------------------------------------------------------------------
(***************************************************************************)
(* Push: what was published so far, by where both sides stand              *)
(***************************************************************************)
PushSpec == PushInit /\ [][PushNext]_pushVars

Unpublished == {"none", "arrived", "expire", "publish", "error"}

PushTypeOK ==
    /\ sender \in [Gifts -> {"new", "posted", "fallback", "done"}]
    /\ gate \in [Gifts -> Unpublished \cup {"ok", "gone"}]
    /\ copies \in [Gifts -> Nat]
    /\ counter \in [count : Nat, expires : BOOLEAN]
    /\ stuck \in BOOLEAN

\* Until Django publishes itself, copies are the gateway's; it does so with the gateway
\* still at work only after its wait was cut.
CopiesSoFar ==
    \A g \in Gifts :
        /\ sender[g] = "new" => gate[g] = "none"
        /\ gate[g] = "ok" => copies[g] >= 1
        /\ sender[g] # "done" => /\ copies[g] <= 1
                                 /\ gate[g] \in Unpublished => copies[g] = 0
        /\ sender[g] = "fallback" /\ g \notin cut =>
              copies[g] = 0 /\ gate[g] \in {"none", "error", "gone"}
        /\ sender[g] = "done" =>
              /\ copies[g] <= 2
              /\ gate[g] \in Unpublished => copies[g] <= 1
              /\ copies[g] = 0 => g \in unsent
              /\ copies[g] = 2 => g \in cut
              /\ gate[g] \in {"arrived", "expire", "publish"} => g \in cut

PushInv == PushTypeOK /\ CopiesSoFar /\ LimitEnds

LEMMA InitPushInv == PushInit => PushInv
<1> SUFFICES ASSUME PushInit PROVE PushInv
  OBVIOUS
<1>1. PushTypeOK
  BY DEF PushInit, PushTypeOK, Unpublished, NoKey
<1>2. CopiesSoFar
  <2>1. \A g \in Gifts : sender[g] = "new" /\ gate[g] = "none" /\ copies[g] = 0
    BY DEF PushInit
  <2>2. ASSUME NEW g \in Gifts PROVE copies[g] <= 1
    <3>1. copies[g] = 0
      BY <2>1
    <3> QED BY <3>1
  <2> QED BY <2>1, <2>2 DEF CopiesSoFar
<1>3. LimitEnds
  <2>1. counter.count = 0
    BY DEF PushInit, NoKey
  <2> QED BY <2>1 DEF LimitEnds
<1> QED BY <1>1, <1>2, <1>3 DEF PushInv

LEMMA NextPushInv == PushInv /\ [PushNext]_pushVars => PushInv'
<1> SUFFICES ASSUME PushTypeOK, CopiesSoFar, LimitEnds, [PushNext]_pushVars PROVE PushInv'
  BY DEF PushInv
<1> USE DEF PushInv, PushTypeOK, CopiesSoFar, LimitEnds, Unpublished, Sender, Gate, NoKey
<1>1. ASSUME NEW g \in Gifts, Post(g) PROVE PushInv'
  BY <1>1 DEF Post
<1>2. ASSUME NEW g \in Gifts, Reject(g) PROVE PushInv'
  BY <1>2 DEF Reject
<1>3. ASSUME NEW g \in Gifts, TakeOk(g) PROVE PushInv'
  BY <1>3 DEF TakeOk, EndsSent
<1>4. ASSUME NEW g \in Gifts, TakeError(g) PROVE PushInv'
  BY <1>4 DEF TakeError
<1>5. ASSUME NEW g \in Gifts, TimeOut(g) PROVE PushInv'
  BY <1>5 DEF TimeOut
<1>6. ASSUME NEW g \in Gifts, PublishSelf(g) PROVE PushInv'
  BY <1>6 DEF PublishSelf
<1>7. ASSUME NEW g \in Gifts, Count(g) PROVE PushInv'
  BY <1>7, PushAssumption DEF Count
<1>8. ASSUME NEW g \in Gifts, SetExpiry(g) PROVE PushInv'
  BY <1>8 DEF SetExpiry
<1>9. ASSUME NEW g \in Gifts, SkipLimit(g) PROVE PushInv'
  BY <1>9 DEF SkipLimit
<1>10. ASSUME NEW g \in Gifts, PublishThere(g) PROVE PushInv'
  BY <1>10 DEF PublishThere
<1>11. CASE Expire
  BY <1>11 DEF Expire
<1>12. CASE Crash
  BY <1>12 DEF Crash
<1>13. CASE UNCHANGED pushVars
  BY <1>13 DEF pushVars
<1> QED
  BY <1>1, <1>2, <1>3, <1>4, <1>5, <1>6, <1>7, <1>8, <1>9, <1>10, <1>11, <1>12, <1>13
     DEF PushNext

\* An event is published once unless its answer came too late or Redis failed Django,
\* and a limit ends, whatever the order of requests, timeouts, expiries and crashes.
THEOREM EventsArePublishedOnce == PushSpec => []DeliveredAsPromised
<1>1. PushInv => DeliveredAsPromised
  BY DEF PushInv, PushTypeOK, CopiesSoFar, LimitEnds, DeliveredAsPromised,
     PublishedOnceUnlessCut, Over, Unpublished
<1> QED
  BY <1>1, InitPushInv, NextPushInv, PTL DEF PushSpec

-----------------------------------------------------------------------------
(***************************************************************************)
(* Gateway: the lock of a socket in the table is the one its senders use   *)
(***************************************************************************)
GatewaySpec == GatewayInit /\ [][GatewayNext]_gatewayVars

GatewayTypeOK ==
    /\ wire \in [Sockets -> {"new", "open", "broken", "closed"}]
    /\ table \in SUBSET Sockets
    /\ lock \in [Sockets -> Nat]
    /\ made \in Nat
    /\ pc \in [Tasks -> {"idle", "waiting", "sending", "stale"}]
    /\ to \in [Tasks -> Sockets]
    /\ mine \in [Tasks -> Nat]

\* A sender holds its lock, and no other sender has the same.
SendersHoldLocks ==
    /\ \A t \in Tasks : pc[t] = "sending" => mine[t] \in held
    /\ \A t, u \in Tasks : pc[t] = "sending" /\ pc[u] = "sending" /\ mine[t] = mine[u] => t = u

\* A socket keeps the lock it was registered with while it is in the table, so all that
\* wait for it or send to it have that lock; nobody sends to a socket before.
LocksArePlaced ==
    /\ \A ws \in Sockets : wire[ws] = "new" => ws \notin table
    /\ \A ws \in table : lock[ws] # 0
    /\ \A t \in Tasks : pc[t] \in {"waiting", "sending"} =>
          /\ wire[to[t]] # "new"
          /\ to[t] \in table => mine[t] = lock[to[t]]

GatewayInv == GatewayTypeOK /\ SendersHoldLocks /\ LocksArePlaced

LEMMA InitGatewayInv == GatewayInit => GatewayInv
BY GatewayAssumption
   DEF GatewayInit, GatewayInv, GatewayTypeOK, SendersHoldLocks, LocksArePlaced

\* Dropping a socket leaves those that stay in the table with their locks.
LEMMA DropKeepsLocks ==
    ASSUME GatewayTypeOK, NEW ws \in Sockets, Drop(ws)
    PROVE  /\ table' \in SUBSET table
           /\ lock' \in [Sockets -> Nat]
           /\ \A other \in table' : lock'[other] = lock[other]
BY DEF GatewayTypeOK, Drop

\* So a step that only drops sockets, and lets no task send, keeps the invariant.
LEMMA DroppingKeepsInv ==
    ASSUME GatewayInv, GatewayTypeOK', NEW ws \in Sockets, Drop(ws), UNCHANGED <<held, to, mine>>,
           \A other \in Sockets : wire'[other] = "new" <=> wire[other] = "new",
           \A t \in Tasks : pc'[t] \in {"waiting", "sending"} => pc'[t] = pc[t]
    PROVE  GatewayInv'
<1>1. /\ table' \in SUBSET table
      /\ \A other \in table' : lock'[other] = lock[other]
  BY DropKeepsLocks DEF GatewayInv
<1>2. SendersHoldLocks'
  BY DEF GatewayInv, SendersHoldLocks
<1>3. LocksArePlaced'
  BY <1>1 DEF GatewayInv, GatewayTypeOK, LocksArePlaced
<1> QED BY <1>2, <1>3 DEF GatewayInv

LEMMA NextGatewayInv == GatewayInv /\ [GatewayNext]_gatewayVars => GatewayInv'
<1> SUFFICES ASSUME GatewayInv, [GatewayNext]_gatewayVars PROVE GatewayInv'
  OBVIOUS
<1>0. GatewayTypeOK /\ SendersHoldLocks /\ LocksArePlaced
  BY DEF GatewayInv
<1> USE DEF IsConnected
<1>1. ASSUME NEW ws \in Sockets, Connect(ws) PROVE GatewayInv'
  BY <1>0, <1>1 DEF Connect, TakesLock, LockFor, GatewayInv, GatewayTypeOK, SendersHoldLocks,
     LocksArePlaced
<1>2. ASSUME NEW ws \in Sockets, Break(ws) \/ Close(ws) PROVE GatewayInv'
  BY <1>0, <1>2 DEF Break, Close, GatewayInv, GatewayTypeOK, SendersHoldLocks, LocksArePlaced
<1>3. ASSUME NEW ws \in Sockets, End(ws) \/ EndOnBadText(ws) PROVE GatewayInv'
  <2>1. GatewayTypeOK'
    BY <1>0, <1>3, DropKeepsLocks DEF End, EndOnBadText, GatewayTypeOK
  <2>2. /\ Drop(ws) /\ UNCHANGED <<held, pc, to, mine>>
        /\ \A other \in Sockets : wire'[other] = "new" <=> wire[other] = "new"
    BY <1>0, <1>3 DEF End, EndOnBadText, GatewayTypeOK
  <2> QED BY <2>1, <2>2, DroppingKeepsInv
<1>4. ASSUME NEW ws \in Sockets, NEW t \in Tasks, Begin(t, ws) PROVE GatewayInv'
  BY <1>0, <1>4 DEF Begin, At, TakesLock, LockFor, GatewayInv, GatewayTypeOK, SendersHoldLocks,
     LocksArePlaced
<1>5. ASSUME NEW ws \in Sockets, NEW t \in Tasks, FindGone(t, ws) PROVE GatewayInv'
  BY <1>0, <1>5 DEF FindGone, At, GatewayInv, GatewayTypeOK, SendersHoldLocks, LocksArePlaced
<1>6. ASSUME NEW t \in Tasks, Acquire(t) PROVE GatewayInv'
  BY <1>0, <1>6 DEF Acquire, At, GatewayInv, GatewayTypeOK, SendersHoldLocks, LocksArePlaced
<1>7. ASSUME NEW t \in Tasks, NEW next \in {"idle", "stale"}, Finish(t, next) PROVE GatewayInv'
  BY <1>0, <1>7 DEF Finish, At, GatewayInv, GatewayTypeOK, SendersHoldLocks, LocksArePlaced
<1>8. ASSUME NEW t \in Tasks, DropStale(t) PROVE GatewayInv'
  <2>1. to[t] \in Sockets
    BY <1>0 DEF GatewayTypeOK
  <2>2. GatewayTypeOK'
    BY <1>0, <1>8, <2>1, DropKeepsLocks DEF DropStale, At, GatewayTypeOK
  <2>3. /\ Drop(to[t]) /\ UNCHANGED <<wire, held, to, mine>>
        /\ \A u \in Tasks : pc'[u] \in {"waiting", "sending"} => pc'[u] = pc[u]
    BY <1>0, <1>8 DEF DropStale, At, GatewayTypeOK
  <2> QED BY <2>1, <2>2, <2>3, DroppingKeepsInv
<1>9. ASSUME NEW t \in Tasks, GiveUp(t) PROVE GatewayInv'
  BY <1>0, <1>9 DEF GiveUp, At, GatewayInv, GatewayTypeOK, SendersHoldLocks, LocksArePlaced
<1>10. CASE UNCHANGED gatewayVars
  BY <1>0, <1>10 DEF gatewayVars, GatewayInv, GatewayTypeOK, SendersHoldLocks, LocksArePlaced
<1> QED
  BY <1>1, <1>2, <1>3, <1>4, <1>5, <1>6, <1>7, <1>8, <1>9, <1>10 DEF GatewayNext

\* The frames of two events never mix on a socket that is in the table, although a
\* broadcast may drop it, and throw its lock away, while other tasks wait or send.
THEOREM FramesDoNotMix == GatewaySpec => []OneWriter
<1>1. GatewayInv => OneWriter
  <2> SUFFICES ASSUME GatewayInv, NEW ws \in table
               PROVE  Cardinality({t \in Tasks : pc[t] = "sending" /\ to[t] = ws}) <= 1
    BY DEF OneWriter
  <2> DEFINE Writers == {t \in Tasks : pc[t] = "sending" /\ to[t] = ws}
  <2>1. \A t, u \in Writers : t = u
    BY DEF GatewayInv, SendersHoldLocks, LocksArePlaced
  <2>2. CASE Writers = {}
    <3>1. Cardinality(Writers) = 0
      BY <2>2, FS_EmptySet
    <3> QED BY <3>1
  <2>3. CASE Writers # {}
    <3>1. PICK t : Writers = {t}
      BY <2>1, <2>3
    <3>2. Cardinality(Writers) = 1
      BY <3>1, FS_Singleton
    <3> QED BY <3>2
  <2> QED BY <2>2, <2>3
<1> QED
  BY <1>1, InitGatewayInv, NextGatewayInv, PTL DEF GatewaySpec

-----------------------------------------------------------------------------
(***************************************************************************)
(* Delivery: what lies below the cursor of a sync                          *)
(***************************************************************************)
DeliverySpec == DeliveryInit /\ [][DeliveryNext]_deliveryVars

DeliveryTypeOK ==
    /\ stage \in [Sends -> {"none", "numbered", "stored", "announced"}]
    /\ id \in [Sends -> Nat]
    /\ cursor \in Nat
    /\ \A m \in Sends : stage[m] # "none" <=> id[m] # 0

\* No two messages have one id, and a cursor is the id of a message that is stored.
IdsAreApart ==
    /\ \A m, n \in Sends : id[m] # 0 /\ id[m] = id[n] => m = n
    /\ cursor # 0 => \E m \in Stored : id[m] = cursor

\* What is stored at or below the cursor was read by a sync, or stored too late for it.
BelowTheCursor == \A m \in Stored : id[m] <= cursor => m \in has \cup below

\* A client syncs after it was announced, and is announced after it was subscribed.
SyncsWhenSubscribed ==
    /\ announced => socket = "subscribed"
    /\ synced => announced

DeliveryInv ==
    /\ DeliveryTypeOK /\ IdsAreApart /\ BelowTheCursor /\ SyncsWhenSubscribed
    /\ OnlyLateOrLostIsMissed

\* A finite set of numbers that is not empty has a largest: of the sets of members
\* above a member, one has no smaller among them.
LEMMA MaxIsLargest ==
    ASSUME NEW S \in SUBSET Nat, IsFiniteSet(S), S # {}
    PROVE  Max(S) \in S /\ \A n \in S : Max(S) >= n
<1> DEFINE Above(m) == {n \in S : n > m}
           T == {Above(m) : m \in S}
<1>1. T \subseteq FiniteSubsetsOf(S) /\ T # {}
  <2>1. T \subseteq SUBSET S /\ T # {}
    OBVIOUS
  <2> QED BY <2>1, FS_FiniteSubsetsOfFinite
<1>2. \E x \in T : \A y \in T : ~(<<y, x>> \in StrictSubsetOrdering(S))
  <2> HIDE DEF T
  <2> QED BY <1>1, FS_StrictSubsetOrderingWellFounded, WFMin
<1>3. PICK m \in S : \A y \in T : ~(<<y, Above(m)>> \in StrictSubsetOrdering(S))
  BY <1>2
<1>4. \A n \in S : m >= n
  <2> SUFFICES ASSUME NEW n \in S, n > m PROVE FALSE
    OBVIOUS
  <2>0. m \in Int /\ n \in Int /\ \A k \in S : k \in Int
    OBVIOUS
  <2>1. Above(n) \subseteq Above(m) /\ n \in Above(m) /\ n \notin Above(n)
    <3>1. \A k \in S : k > n => k > m
      BY <2>0
    <3>2. ~(n > n)
      BY <2>0
    <3> QED BY <3>1, <3>2
  <2>2. <<Above(n), Above(m)>> \in StrictSubsetOrdering(S)
    BY <2>1 DEF StrictSubsetOrdering
  <2> QED BY <1>3, <2>2
<1> QED BY <1>4 DEF Max

\* The largest id of some messages is one of theirs, or zero.
LEMMA LargestIsLargest ==
    ASSUME DeliveryTypeOK, NEW messages \in SUBSET Sends
    PROVE  /\ Largest(messages) \in Nat
           /\ \A m \in messages : id[m] <= Largest(messages)
           /\ Largest(messages) # 0 => \E m \in messages : id[m] = Largest(messages)
<1> DEFINE ids == {id[m] : m \in messages}
           f == [m \in messages |-> id[m]]
<1>1. IsFiniteSet(messages)
  BY FS_Subset, DeliveryAssumption
<1>2. f \in Surjection(messages, ids)
  BY DEF Surjection
<1>3. IsFiniteSet(ids)
  <2> HIDE DEF f, ids
  <2> QED BY <1>1, <1>2, FS_Surjection
<1>4. IsFiniteSet({0} \cup ids)
  <2>1. {0} \cup ids = ids \cup {0}
    OBVIOUS
  <2> HIDE DEF ids
  <2> QED BY <1>3, <2>1, FS_AddElement
<1>5. {0} \cup ids \in SUBSET Nat
  BY DEF DeliveryTypeOK
<1>6. Max({0} \cup ids) \in {0} \cup ids /\ \A n \in {0} \cup ids : Max({0} \cup ids) >= n
  <2> HIDE DEF ids
  <2> QED BY <1>4, <1>5, MaxIsLargest
<1> QED BY <1>5, <1>6 DEF Largest, DeliveryTypeOK

LEMMA InitDeliveryInv == DeliveryInit => DeliveryInv
BY DEF DeliveryInit, DeliveryInv, DeliveryTypeOK, IdsAreApart, BelowTheCursor,
       SyncsWhenSubscribed, OnlyLateOrLostIsMissed, Stored

LEMMA NextDeliveryInv == DeliveryInv /\ [DeliveryNext]_deliveryVars => DeliveryInv'
<1> SUFFICES ASSUME DeliveryInv, [DeliveryNext]_deliveryVars PROVE DeliveryInv'
  OBVIOUS
<1> USE DEF DeliveryInv, DeliveryTypeOK, IdsAreApart, BelowTheCursor, SyncsWhenSubscribed,
            OnlyLateOrLostIsMissed, Stored, sendVars, clientVars, To
<1>1. ASSUME NEW m \in Sends, Number(m) PROVE DeliveryInv'
  <2>1. /\ Largest(Sends) \in Nat
        /\ \A n \in Sends : id[n] <= Largest(Sends)
    BY LargestIsLargest
  <2>2. /\ id'[m] = 1 + Largest(Sends) /\ stage[m] = "none" /\ stage'[m] = "numbered"
        /\ \A n \in Sends : n # m => id'[n] = id[n] /\ stage'[n] = stage[n]
        /\ id' \in [Sends -> Nat]
    BY <1>1, <2>1 DEF Number
  <2>3. Stored' = Stored /\ \A n \in Stored : id'[n] = id[n]
    BY <2>2
  <2>4. DeliveryTypeOK' /\ IdsAreApart'
    BY <1>1, <2>1, <2>2, <2>3 DEF Number
  <2> QED BY <1>1, <2>2, <2>3, <2>4 DEF Number
<1>2. ASSUME NEW m \in Sends, Store(m) PROVE DeliveryInv'
  <2>1. Stored' = Stored \cup {m} /\ m \notin Stored
    BY <1>2 DEF Store
  <2>2. id[m] # cursor
    BY <1>2, <2>1 DEF Store
  <2>3. id[m] <= cursor => m \in below'
    BY <1>2, <2>2 DEF Store
  <2> QED BY <1>2, <2>1, <2>3 DEF Store
<1>3. ASSUME NEW m \in Sends, Publish(m) PROVE DeliveryInv'
  <2>1. Stored' = Stored
    BY <1>3 DEF Publish
  <2> QED BY <1>3, <2>1 DEF Publish
<1>4. ASSUME NEW m \in Sends, LosePublish(m) PROVE DeliveryInv'
  <2>1. Stored' = Stored
    BY <1>4 DEF LosePublish
  <2> QED BY <1>4, <2>1 DEF LosePublish
<1>5. ASSUME NEW m \in Sends, Forward(m) PROVE DeliveryInv'
  BY <1>5 DEF Forward
<1>6. CASE AcceptClient \/ Subscribe \/ Presence \/ Disconnect
  BY <1>6 DEF AcceptClient, Subscribe, Presence, Disconnect
<1>7. CASE Sync
  <2>1. /\ Largest(Stored) \in Nat
        /\ Largest(Stored) # 0 => \E m \in Stored : id[m] = Largest(Stored)
    BY LargestIsLargest
  <2>2. Stored' = Stored /\ \A m \in Stored : m \in has' \cup below'
    BY <1>7 DEF Sync
  <2> QED BY <1>7, <2>1, <2>2 DEF Sync
<1>8. CASE UNCHANGED deliveryVars
  BY <1>8 DEF deliveryVars
<1> QED
  BY <1>1, <1>2, <1>3, <1>4, <1>5, <1>6, <1>7, <1>8 DEF DeliveryNext

\* After its sync a connected client lacks only what is on its way, what was never
\* published and what was stored below the cursor of a sync; ids that others take in
\* any order, broken sockets and lost events make no other gap.
THEOREM NothingElseIsMissed == DeliverySpec => []OnlyLateOrLostIsMissed
<1>1. DeliveryInv => OnlyLateOrLostIsMissed
  BY DEF DeliveryInv
<1> QED
  BY <1>1, InitDeliveryInv, NextDeliveryInv, PTL DEF DeliverySpec

-----------------------------------------------------------------------------
(***************************************************************************)
(* Notify: what a message has given each member, by where its request is   *)
(***************************************************************************)
NotifySpec == NotifyInit /\ [][NotifyNext]_notifyVars

Stages == {"new", "check", "save", "blocks", "mutes", "note", "done"}
Telling == {"blocks", "mutes", "note"}
Counts == [Letters -> [Recipients -> Nat]]
Stands == [Letters -> SUBSET (Recipients \X {"blocked", "free", "heard"})]

Progress == [pc : Stages, try : Nat, to : SUBSET Recipients,
             loud : SUBSET Recipients, left : SUBSET Recipients]

NotifyTypeOK ==
    /\ blocks \in [by : SUBSET Recipients, of : SUBSET Recipients]
    /\ mutes \in SUBSET Recipients
    /\ letter \in [Letters -> Progress]
    /\ posted \in SUBSET Letters
    /\ noted \in Counts
    /\ waiting \in Counts
    /\ buzzed \in Counts
    /\ stood \in Stands

\* What stands between the members while a request runs is on record.
OnRecord(m) == OnItsWay(m) => Standing(Blocked, mutes) \subseteq stood[m]

\* A message gives a member a row and then a push, and only what was allowed.
GivenInOrder(m, u) ==
    /\ noted[m][u] <= 1 /\ waiting[m][u] + buzzed[m][u] <= noted[m][u]
    /\ noted[m][u] > 0 => <<u, "free">> \in stood[m]
    /\ waiting[m][u] + buzzed[m][u] > 0 => <<u, "heard">> \in stood[m]

\* The request that stored the message tells its members, once.
ToldOnce(m, u) ==
    /\ letter[m].pc \in Telling => m \in posted
    /\ m \notin posted \/ letter[m].pc \in {"blocks", "mutes"} => noted[m][u] = 0
    /\ letter[m].pc \in {"mutes", "note"} =>
          IF u \in letter[m].to THEN <<u, "free">> \in stood[m]
                                ELSE <<u, "blocked">> \in stood[m]
    /\ letter[m].pc = "note" =>
          /\ u \in letter[m].left => u \in letter[m].to /\ noted[m][u] = 0
          /\ u \in letter[m].to /\ u \notin letter[m].left => noted[m][u] = 1
          /\ u \in letter[m].loud => /\ u \in letter[m].to
                                     /\ <<u, "heard">> \in stood[m]
                                     /\ waiting[m][u] + buzzed[m][u] = 0
    /\ m \in posted /\ letter[m].pc \notin Telling /\ noted[m][u] = 0 =>
          m \in broken \/ <<u, "blocked">> \in stood[m]

NotifyInv ==
    /\ NotifyTypeOK
    /\ \A m \in Letters : OnRecord(m)
    /\ \A m \in Letters, u \in Recipients : GivenInOrder(m, u) /\ ToldOnce(m, u)

LEMMA StandingSays ==
    ASSUME NEW B, NEW M, NEW u \in Recipients
    PROVE  /\ u \in B => <<u, "blocked">> \in Standing(B, M)
           /\ u \notin B => <<u, "free">> \in Standing(B, M)
           /\ u \notin M => <<u, "heard">> \in Standing(B, M)
BY DEF Standing

LEMMA StandingIsTyped ==
    ASSUME NEW B \in SUBSET Recipients, NEW M
    PROVE  Standing(B, M) \subseteq Recipients \X {"blocked", "free", "heard"}
BY DEF Standing

LEMMA CountsAreNumbers ==
    ASSUME NotifyTypeOK, NEW m \in Letters, NEW u \in Recipients
    PROVE  noted[m][u] \in Nat /\ waiting[m][u] \in Nat /\ buzzed[m][u] \in Nat
BY DEF NotifyTypeOK, Counts

LEMMA InitNotifyInv == NotifyInit => NotifyInv
<1> SUFFICES ASSUME NotifyInit PROVE NotifyInv
  OBVIOUS
<1>1. NotifyTypeOK
  BY DEF NotifyInit, NotifyTypeOK, Zero, Counts, Progress, Stages, Stands
<1>2. \A m \in Letters : letter[m].pc = "new" /\ m \notin posted
  BY DEF NotifyInit
<1>3. \A m \in Letters : OnRecord(m)
  BY <1>2 DEF OnRecord, OnItsWay
<1>4. ASSUME NEW m \in Letters, NEW u \in Recipients
      PROVE  GivenInOrder(m, u) /\ ToldOnce(m, u)
  <2>1. noted[m][u] = 0 /\ waiting[m][u] = 0 /\ buzzed[m][u] = 0
    BY DEF NotifyInit, Zero
  <2>2. GivenInOrder(m, u)
    BY <2>1 DEF GivenInOrder
  <2>3. ToldOnce(m, u)
    BY <1>2, <2>1 DEF ToldOnce, Telling
  <2> QED BY <2>2, <2>3
<1> QED BY <1>1, <1>3, <1>4 DEF NotifyInv

\* Every step keeps the state well formed.
LEMMA NextNotifyTypeOK == NotifyTypeOK /\ [NotifyNext]_notifyVars => NotifyTypeOK'
<1> SUFFICES ASSUME NotifyTypeOK, [NotifyNext]_notifyVars PROVE NotifyTypeOK'
  OBVIOUS
<1> USE DEF NotifyTypeOK, rest, Stage
<1>0. ASSUME NEW B \in SUBSET Recipients, NEW M, NEW m \in Letters
      PROVE  stood[m] \cup Standing(B, M) \in SUBSET (Recipients \X {"blocked", "free", "heard"})
  BY StandingIsTyped DEF Stands
<1>w. ASSUME blocks' \in [by : SUBSET Recipients, of : SUBSET Recipients], Watch
      PROVE  stood' \in Stands
  <2>1. blocks'.by \cup blocks'.of \in SUBSET Recipients
    BY <1>w
  <2> QED BY <1>0, <1>w, <2>1 DEF Watch, Stands
<1>1. ASSUME NEW u \in Recipients, SetMute(u) PROVE NotifyTypeOK'
  <2>1. stood' \in Stands
    BY <1>1, <1>w DEF SetMute
  <2> QED BY <1>1, <2>1 DEF SetMute
<1>2. ASSUME NEW u \in Recipients, NEW side \in {"by", "of"}, SetBlock(u, side)
      PROVE  NotifyTypeOK'
  <2>1. blocks' \in [by : SUBSET Recipients, of : SUBSET Recipients]
    BY <1>2 DEF SetBlock
  <2>2. stood' \in Stands
    BY <1>2, <1>w, <2>1 DEF SetBlock
  <2> QED BY <1>2, <2>1, <2>2 DEF SetBlock
<1>3. ASSUME NEW m \in Letters, NEW next \in Progress, letter' = [letter EXCEPT ![m] = next],
             UNCHANGED <<blocks, mutes, noted, waiting, buzzed>>, stood' \in Stands,
             posted' = posted \/ posted' = posted \cup {m}
      PROVE  NotifyTypeOK'
  BY <1>3
<1>4. ASSUME NEW m \in Letters, Send(m) PROVE NotifyTypeOK'
  <2>1. [letter[m] EXCEPT !.pc = "check", !.try = letter[m].try + 1] \in Progress
    <3>1. letter[m] \in Progress /\ letter[m].try + 1 \in Nat
      BY DEF Progress
    <3> QED BY <3>1 DEF Progress, Stages
  <2>2. stood' \in Stands
    <3>1. blocks.by \cup blocks.of \in SUBSET Recipients
      OBVIOUS
    <3> QED BY <1>0, <1>4, <3>1 DEF Send, Stands
  <2>3. letter' = [letter EXCEPT ![m] =
                     [letter[m] EXCEPT !.pc = "check", !.try = letter[m].try + 1]]
    BY <1>4 DEF Send
  <2> QED BY <1>3, <1>4, <2>1, <2>2, <2>3 DEF Send
<1>5. ASSUME NEW m \in Letters, NEW next \in Stages, letter' = [letter EXCEPT ![m].pc = next],
             UNCHANGED <<blocks, mutes, noted, waiting, buzzed>>, stood' \in Stands,
             posted' = posted \/ posted' = posted \cup {m}
      PROVE  NotifyTypeOK'
  <2>1. [letter[m] EXCEPT !.pc = next] \in Progress
    BY DEF Progress
  <2> QED BY <1>3, <1>5, <2>1
<1>6. ASSUME NEW m \in Letters, CheckBlocks(m) \/ SaveLetter(m) \/ Finished(m) \/ DieSending(m)
      PROVE  NotifyTypeOK'
  BY <1>5, <1>6 DEF CheckBlocks, SaveLetter, Finished, DieSending, Stages
<1>7. ASSUME NEW m \in Letters, ReadBlocks(m) PROVE NotifyTypeOK'
  <2>1. [letter[m] EXCEPT !.pc = "mutes", !.to = Recipients \ Blocked] \in Progress
    BY DEF Progress, Stages
  <2> QED BY <1>3, <1>7, <2>1 DEF ReadBlocks
<1>8. ASSUME NEW m \in Letters, ReadMutes(m) PROVE NotifyTypeOK'
  <2>1. [letter[m] EXCEPT !.pc = "note", !.left = letter[m].to, !.loud = letter[m].to \ mutes]
            \in Progress
    BY DEF Progress, Stages
  <2> QED BY <1>3, <1>8, <2>1 DEF ReadMutes
<1>9. ASSUME NEW m \in Letters, NEW u \in Recipients, Note(m, u) PROVE NotifyTypeOK'
  <2>1. [letter[m] EXCEPT !.left = @ \ {u}] \in Progress
    BY DEF Progress
  <2>2. noted' \in Counts
    BY <1>9 DEF Note, Counts
  <2> QED BY <1>9, <2>1, <2>2 DEF Note
<1>10. ASSUME NEW m \in Letters, NEW u \in Recipients, QueuePush(m, u) PROVE NotifyTypeOK'
  <2>1. [letter[m] EXCEPT !.loud = @ \ {u}] \in Progress
    BY DEF Progress
  <2>2. waiting' \in Counts
    BY <1>10 DEF QueuePush, Counts
  <2> QED BY <1>10, <2>1, <2>2 DEF QueuePush
<1>11. ASSUME NEW m \in Letters, NEW u \in Recipients, RunPush(m, u) PROVE NotifyTypeOK'
  <2>1. waiting' \in Counts
    BY <1>11 DEF RunPush, Counts
  <2>2. buzzed' \in Counts
    <3>1. \/ buzzed' = buzzed
          \/ buzzed' = [buzzed EXCEPT ![m] = [buzzed[m] EXCEPT ![u] = buzzed[m][u] + 1]]
      BY <1>11 DEF RunPush, Rings
    <3>2. [buzzed[m] EXCEPT ![u] = buzzed[m][u] + 1] \in [Recipients -> Nat]
      BY DEF Counts
    <3> QED BY <3>1, <3>2 DEF Counts
  <2> QED BY <1>11, <2>1, <2>2 DEF RunPush
<1>12. CASE UNCHANGED notifyVars
  BY <1>12 DEF notifyVars
<1> QED
  BY <1>1, <1>2, <1>4, <1>6, <1>7, <1>8, <1>9, <1>10, <1>11, <1>12 DEF NotifyNext

\* A change of a block or a mute is put on record for the requests that run.
LEMMA WatchKeepsInv ==
    ASSUME NotifyInv, NotifyTypeOK', UNCHANGED <<letter, rest>>, Watch
    PROVE  NotifyInv'
<1>1. \A m \in Letters : /\ stood[m] \subseteq stood'[m]
                         /\ OnItsWay(m) => Standing(Blocked', mutes') \subseteq stood'[m]
  BY DEF Watch, Blocked
<1>2. \A m \in Letters : OnRecord(m)'
  BY <1>1 DEF OnRecord, OnItsWay, Blocked
<1>3. ASSUME NEW m \in Letters, NEW u \in Recipients
      PROVE  GivenInOrder(m, u)' /\ ToldOnce(m, u)'
  <2>1. GivenInOrder(m, u) /\ ToldOnce(m, u)
    BY DEF NotifyInv
  <2>2. GivenInOrder(m, u)'
    BY <1>1, <2>1 DEF GivenInOrder, rest
  <2>3. ToldOnce(m, u)'
    BY <1>1, <2>1 DEF ToldOnce, rest
  <2> QED BY <2>2, <2>3
<1> QED BY <1>2, <1>3 DEF NotifyInv

\* A step about one message leaves the others alone.
LEMMA StepOfOneKeepsInv ==
    ASSUME NotifyInv, NotifyTypeOK', NEW m \in Letters, UNCHANGED <<blocks, mutes>>,
           \A n \in Letters : n # m =>
               /\ letter'[n] = letter[n] /\ noted'[n] = noted[n] /\ waiting'[n] = waiting[n]
               /\ buzzed'[n] = buzzed[n] /\ stood'[n] = stood[n]
               /\ n \in posted' <=> n \in posted
               /\ n \in broken => n \in broken',
           OnRecord(m)',
           \A u \in Recipients : GivenInOrder(m, u)' /\ ToldOnce(m, u)'
    PROVE  NotifyInv'
<1>1. ASSUME NEW n \in Letters, n # m, NEW u \in Recipients
      PROVE  OnRecord(n)' /\ GivenInOrder(n, u)' /\ ToldOnce(n, u)'
  <2>1. OnRecord(n) /\ GivenInOrder(n, u) /\ ToldOnce(n, u)
    BY DEF NotifyInv
  <2>2. OnRecord(n)'
    BY <1>1, <2>1 DEF OnRecord, OnItsWay, Blocked
  <2>3. GivenInOrder(n, u)'
    BY <1>1, <2>1 DEF GivenInOrder
  <2>4. ToldOnce(n, u)'
    BY <1>1, <2>1 DEF ToldOnce
  <2> QED BY <2>2, <2>3, <2>4
<1>2. \A n \in Letters : OnRecord(n)'
  <2>1. ASSUME NEW n \in Letters, n # m PROVE OnRecord(n)'
    BY <2>1 DEF NotifyInv, OnRecord, OnItsWay, Blocked
  <2> QED BY <2>1
<1> QED BY <1>1, <1>2 DEF NotifyInv

\* A step that only takes a request elsewhere keeps what the message has given.
LEMMA StepOfRequestKeepsInv ==
    ASSUME NotifyInv, NotifyTypeOK', NEW m \in Letters,
           UNCHANGED <<blocks, mutes, posted, noted, waiting, buzzed, stood>>,
           \A n \in Letters : n # m => letter'[n] = letter[n],
           letter'[m].pc \notin {"new", "done"} => OnItsWay(m),
           \A n \in broken : n \in broken',
           \A u \in Recipients : ToldOnce(m, u)'
    PROVE  NotifyInv'
<1>1. OnRecord(m)'
  BY DEF NotifyInv, OnRecord, OnItsWay, Blocked
<1>2. \A u \in Recipients : GivenInOrder(m, u)'
  BY DEF NotifyInv, GivenInOrder
<1> QED BY <1>1, <1>2, StepOfOneKeepsInv

LEMMA NextNotifyInv == NotifyInv /\ [NotifyNext]_notifyVars => NotifyInv'
<1> SUFFICES ASSUME NotifyInv, [NotifyNext]_notifyVars PROVE NotifyInv'
  OBVIOUS
<1>0. NotifyTypeOK /\ NotifyTypeOK' /\ letter \in [Letters -> Progress]
  BY NextNotifyTypeOK DEF NotifyInv, NotifyTypeOK
<1>a. /\ \A m \in Letters : OnRecord(m)
      /\ \A m \in Letters, u \in Recipients : GivenInOrder(m, u) /\ ToldOnce(m, u)
  BY DEF NotifyInv
<1>1. ASSUME NEW u \in Recipients, SetMute(u) \/ \E side \in {"by", "of"} : SetBlock(u, side)
      PROVE  NotifyInv'
  BY <1>0, <1>1, WatchKeepsInv DEF SetMute, SetBlock
<1>2. ASSUME NEW m \in Letters, Send(m) PROVE NotifyInv'
  <2>1. /\ letter'[m].pc = "check" /\ letter[m].pc \in {"new", "done"}
        /\ \A n \in Letters : n # m => letter'[n] = letter[n]
    BY <1>0, <1>2 DEF Send, Stage, Progress
  <2>2. /\ \A n \in Letters : n # m => stood'[n] = stood[n]
        /\ stood[m] \subseteq stood'[m] /\ Standing(Blocked, mutes) \subseteq stood'[m]
    BY <1>0, <1>2 DEF Send, Blocked, NotifyTypeOK, Stands
  <2>3. UNCHANGED <<blocks, mutes, posted, noted, waiting, buzzed, broken>>
    BY <1>2 DEF Send, rest
  <2>4. OnRecord(m)'
    BY <2>2, <2>3 DEF OnRecord, Blocked
  <2>5. ASSUME NEW u \in Recipients PROVE GivenInOrder(m, u)' /\ ToldOnce(m, u)'
    <3>1. GivenInOrder(m, u)'
      BY <1>a, <2>2, <2>3 DEF GivenInOrder
    <3>2. ToldOnce(m, u)'
      BY <1>a, <2>1, <2>2, <2>3 DEF ToldOnce, Telling
    <3> QED BY <3>1, <3>2
  <2> QED BY <1>0, <2>1, <2>2, <2>3, <2>4, <2>5, StepOfOneKeepsInv
<1>3. ASSUME NEW m \in Letters, CheckBlocks(m) PROVE NotifyInv'
  <2>1. /\ letter[m].pc = "check" /\ letter'[m].pc \in {"save", "done"}
        /\ \A n \in Letters : n # m => letter'[n] = letter[n]
    BY <1>0, <1>3 DEF CheckBlocks, Stage, Progress
  <2>2. UNCHANGED <<blocks, mutes, posted, noted, waiting, buzzed, stood, broken>>
    BY <1>3 DEF CheckBlocks, rest
  <2>3. \A u \in Recipients : ToldOnce(m, u)'
    BY <1>a, <2>1, <2>2 DEF ToldOnce, Telling
  <2> QED BY <1>0, <2>1, <2>2, <2>3, StepOfRequestKeepsInv DEF OnItsWay
<1>4. ASSUME NEW m \in Letters, SaveLetter(m) PROVE NotifyInv'
  <2>1. /\ letter[m].pc = "save" /\ posted' = posted \cup {m}
        /\ letter'[m].pc = IF m \in posted THEN "done" ELSE "blocks"
        /\ \A n \in Letters : n # m => letter'[n] = letter[n]
    BY <1>0, <1>4 DEF SaveLetter, Repeats, Stage, Progress
  <2>2. UNCHANGED <<blocks, mutes, noted, waiting, buzzed, stood, broken>>
    BY <1>4 DEF SaveLetter
  <2>3. OnRecord(m)'
    BY <1>a, <2>1, <2>2 DEF OnRecord, OnItsWay, Blocked
  <2>4. ASSUME NEW u \in Recipients PROVE GivenInOrder(m, u)' /\ ToldOnce(m, u)'
    <3>1. GivenInOrder(m, u)'
      BY <1>a, <2>2 DEF GivenInOrder
    <3>2. ToldOnce(m, u)'
      BY <1>a, <2>1, <2>2 DEF ToldOnce, Telling
    <3> QED BY <3>1, <3>2
  <2> QED BY <1>0, <2>1, <2>2, <2>3, <2>4, StepOfOneKeepsInv
<1>5. ASSUME NEW m \in Letters, ReadBlocks(m) PROVE NotifyInv'
  <2>1. /\ letter[m].pc = "blocks" /\ letter'[m].pc = "mutes"
        /\ letter'[m].to = Recipients \ Blocked
        /\ \A n \in Letters : n # m => letter'[n] = letter[n]
    BY <1>0, <1>5 DEF ReadBlocks, Stage, Progress
  <2>2. UNCHANGED <<blocks, mutes, posted, noted, waiting, buzzed, stood, broken>>
    BY <1>5 DEF ReadBlocks, rest
  <2>3. Standing(Blocked, mutes) \subseteq stood[m]
    BY <1>a, <2>1 DEF OnRecord, OnItsWay
  <2>4. ASSUME NEW u \in Recipients PROVE ToldOnce(m, u)'
    <3>1. IF u \in Blocked THEN <<u, "blocked">> \in stood[m] ELSE <<u, "free">> \in stood[m]
      BY <2>3, StandingSays
    <3> QED BY <1>a, <2>1, <2>2, <3>1 DEF ToldOnce, Telling
  <2> QED BY <1>0, <2>1, <2>2, <2>4, StepOfRequestKeepsInv DEF OnItsWay
<1>6. ASSUME NEW m \in Letters, ReadMutes(m) PROVE NotifyInv'
  <2>1. /\ letter[m].pc = "mutes" /\ letter'[m].pc = "note" /\ letter'[m].to = letter[m].to
        /\ letter'[m].left = letter[m].to /\ letter'[m].loud = letter[m].to \ mutes
        /\ \A n \in Letters : n # m => letter'[n] = letter[n]
    BY <1>0, <1>6 DEF ReadMutes, Stage, Progress
  <2>2. UNCHANGED <<blocks, mutes, posted, noted, waiting, buzzed, stood, broken>>
    BY <1>6 DEF ReadMutes, rest
  <2>3. Standing(Blocked, mutes) \subseteq stood[m]
    BY <1>a, <2>1 DEF OnRecord, OnItsWay
  <2>4. ASSUME NEW u \in Recipients PROVE ToldOnce(m, u)'
    <3>1. u \notin mutes => <<u, "heard">> \in stood[m]
      BY <2>3, StandingSays
    <3>2. noted[m][u] = 0 /\ waiting[m][u] + buzzed[m][u] = 0
      <4>1. GivenInOrder(m, u) /\ ToldOnce(m, u)
        BY <1>a
      <4>2. noted[m][u] = 0
        BY <2>1, <4>1 DEF ToldOnce
      <4> QED BY <1>0, <4>1, <4>2, CountsAreNumbers DEF GivenInOrder
    <3> QED BY <1>a, <2>1, <2>2, <3>1, <3>2 DEF ToldOnce, Telling
  <2> QED BY <1>0, <2>1, <2>2, <2>4, StepOfRequestKeepsInv DEF OnItsWay
<1>7. ASSUME NEW m \in Letters, Finished(m) PROVE NotifyInv'
  <2>1. /\ letter[m].pc = "note" /\ letter'[m].pc = "done" /\ letter[m].left = {}
        /\ \A n \in Letters : n # m => letter'[n] = letter[n]
    BY <1>0, <1>7 DEF Finished, Stage, Progress
  <2>2. UNCHANGED <<blocks, mutes, posted, noted, waiting, buzzed, stood, broken>>
    BY <1>7 DEF Finished, rest
  <2>3. ASSUME NEW u \in Recipients PROVE ToldOnce(m, u)'
    <3>1. ToldOnce(m, u)
      BY <1>a
    <3>2. u \notin letter[m].left
      BY <2>1
    <3>3. noted[m][u] = 0 => <<u, "blocked">> \in stood[m]
      BY <2>1, <3>1, <3>2 DEF ToldOnce
    <3>4. m \in posted
      BY <2>1, <3>1 DEF ToldOnce, Telling
    <3> QED BY <2>1, <2>2, <3>3, <3>4 DEF ToldOnce, Telling
  <2> QED BY <1>0, <2>1, <2>2, <2>3, StepOfRequestKeepsInv
<1>8. ASSUME NEW m \in Letters, DieSending(m) PROVE NotifyInv'
  <2>1. /\ letter'[m].pc = "done"
        /\ \A n \in Letters : n # m => letter'[n] = letter[n]
    BY <1>0, <1>8 DEF DieSending, Progress
  <2>2. UNCHANGED <<blocks, mutes, posted, noted, waiting, buzzed, stood>>
    BY <1>8 DEF DieSending
  <2>3. (m \in posted => m \in broken') /\ \A n \in broken : n \in broken'
    BY <1>8 DEF DieSending
  <2>4. \A u \in Recipients : ToldOnce(m, u)'
    BY <1>a, <2>1, <2>2, <2>3 DEF ToldOnce, Telling
  <2> QED BY <1>0, <2>1, <2>2, <2>3, <2>4, StepOfRequestKeepsInv
<1>9. ASSUME NEW m \in Letters, NEW u \in Recipients, Note(m, u) PROVE NotifyInv'
  <2>1. /\ letter[m].pc = "note" /\ letter'[m].pc = "note" /\ u \in letter[m].left
        /\ letter'[m].left = letter[m].left \ {u}
        /\ letter'[m].to = letter[m].to /\ letter'[m].loud = letter[m].loud
        /\ \A n \in Letters : n # m => letter'[n] = letter[n]
    BY <1>0, <1>9 DEF Note, Stage, Progress
  <2>2. UNCHANGED <<blocks, mutes, posted, waiting, buzzed, stood, broken>>
    BY <1>9 DEF Note
  <2>3. /\ noted'[m][u] = noted[m][u] + 1
        /\ \A v \in Recipients : v # u => noted'[m][v] = noted[m][v]
        /\ \A n \in Letters : n # m => noted'[n] = noted[n]
    BY <1>0, <1>9 DEF Note, NotifyTypeOK, Counts
  <2>4. OnRecord(m)'
    BY <1>a, <2>1, <2>2 DEF OnRecord, OnItsWay, Blocked
  <2>5. noted[m][u] = 0 /\ u \in letter[m].to /\ <<u, "free">> \in stood[m]
    BY <1>a, <2>1 DEF ToldOnce
  <2>6. GivenInOrder(m, u)' /\ ToldOnce(m, u)'
    <3>1. noted'[m][u] = 1 /\ waiting[m][u] + buzzed[m][u] <= 0
      <4>1. GivenInOrder(m, u)
        BY <1>a
      <4> QED BY <2>3, <2>5, <4>1 DEF GivenInOrder
    <3>2. GivenInOrder(m, u)'
      BY <1>0, <1>a, <2>2, <2>5, <3>1, CountsAreNumbers DEF GivenInOrder
    <3>3. ToldOnce(m, u)'
      BY <1>a, <2>1, <2>2, <2>5, <3>1 DEF ToldOnce, Telling
    <3> QED BY <3>2, <3>3
  <2>7. ASSUME NEW v \in Recipients, v # u PROVE GivenInOrder(m, v)' /\ ToldOnce(m, v)'
    <3>1. GivenInOrder(m, v)'
      BY <1>a, <2>2, <2>3, <2>7 DEF GivenInOrder
    <3>2. ToldOnce(m, v)'
      BY <1>a, <2>1, <2>2, <2>3, <2>7 DEF ToldOnce, Telling
    <3> QED BY <3>1, <3>2
  <2> QED BY <1>0, <2>1, <2>2, <2>3, <2>4, <2>6, <2>7, StepOfOneKeepsInv
<1>10. ASSUME NEW m \in Letters, NEW u \in Recipients, QueuePush(m, u) PROVE NotifyInv'
  <2>1. /\ letter[m].pc = "note" /\ letter'[m].pc = "note" /\ u \in letter[m].loud
        /\ letter[m].left = {} /\ letter'[m].left = {}
        /\ letter'[m].to = letter[m].to /\ letter'[m].loud = letter[m].loud \ {u}
        /\ \A n \in Letters : n # m => letter'[n] = letter[n]
    BY <1>0, <1>10 DEF QueuePush, Stage, Progress
  <2>2. UNCHANGED <<blocks, mutes, posted, noted, buzzed, stood, broken>>
    BY <1>10 DEF QueuePush
  <2>3. /\ waiting'[m][u] = waiting[m][u] + 1
        /\ \A v \in Recipients : v # u => waiting'[m][v] = waiting[m][v]
        /\ \A n \in Letters : n # m => waiting'[n] = waiting[n]
    BY <1>0, <1>10 DEF QueuePush, NotifyTypeOK, Counts
  <2>4. OnRecord(m)'
    BY <1>a, <2>1, <2>2 DEF OnRecord, OnItsWay, Blocked
  <2>5. /\ u \in letter[m].to /\ <<u, "heard">> \in stood[m] /\ noted[m][u] = 1
        /\ waiting[m][u] + buzzed[m][u] = 0
    BY <1>a, <2>1 DEF ToldOnce
  <2>6. GivenInOrder(m, u)' /\ ToldOnce(m, u)'
    <3>1. waiting'[m][u] + buzzed[m][u] = 1
      BY <1>0, <2>3, <2>5, CountsAreNumbers
    <3>2. GivenInOrder(m, u)'
      BY <1>a, <2>2, <2>5, <3>1 DEF GivenInOrder
    <3>3. ToldOnce(m, u)'
      BY <1>a, <2>1, <2>2, <2>5 DEF ToldOnce, Telling
    <3> QED BY <3>2, <3>3
  <2>7. ASSUME NEW v \in Recipients, v # u PROVE GivenInOrder(m, v)' /\ ToldOnce(m, v)'
    <3>1. GivenInOrder(m, v)'
      BY <1>a, <2>2, <2>3, <2>7 DEF GivenInOrder
    <3>2. ToldOnce(m, v)'
      BY <1>a, <2>1, <2>2, <2>3, <2>7 DEF ToldOnce, Telling
    <3> QED BY <3>1, <3>2
  <2> QED BY <1>0, <2>1, <2>2, <2>3, <2>4, <2>6, <2>7, StepOfOneKeepsInv
<1>11. ASSUME NEW m \in Letters, NEW u \in Recipients, RunPush(m, u) PROVE NotifyInv'
  <2>1. UNCHANGED <<blocks, mutes, letter, posted, noted, stood, broken>>
    BY <1>11 DEF RunPush
  <2>2. /\ waiting[m][u] > 0 /\ waiting'[m][u] = waiting[m][u] - 1
        /\ \A v \in Recipients : v # u => waiting'[m][v] = waiting[m][v]
        /\ \A n \in Letters : n # m => waiting'[n] = waiting[n]
    BY <1>0, <1>11 DEF RunPush, NotifyTypeOK, Counts
  <2>3. /\ buzzed'[m][u] \in {buzzed[m][u], buzzed[m][u] + 1}
        /\ \A v \in Recipients : v # u => buzzed'[m][v] = buzzed[m][v]
        /\ \A n \in Letters : n # m => buzzed'[n] = buzzed[n]
    BY <1>0, <1>11 DEF RunPush, Rings, NotifyTypeOK, Counts
  <2>4. OnRecord(m)'
    BY <1>a, <2>1 DEF OnRecord, OnItsWay, Blocked
  <2>5. waiting[m][u] + buzzed[m][u] > 0
    BY <1>0, <2>2, CountsAreNumbers
  <2>6. GivenInOrder(m, u)' /\ ToldOnce(m, u)'
    <3>1. waiting'[m][u] + buzzed'[m][u] <= waiting[m][u] + buzzed[m][u]
      BY <1>0, <2>2, <2>3, CountsAreNumbers
    <3>2. /\ waiting[m][u] + buzzed[m][u] \in Nat /\ waiting'[m][u] + buzzed'[m][u] \in Int
          /\ noted[m][u] \in Nat
      BY <1>0, <2>2, <2>3, CountsAreNumbers
    <3>3. GivenInOrder(m, u)'
      BY <1>a, <2>1, <2>5, <3>1, <3>2 DEF GivenInOrder
    <3>4. letter[m].pc = "note" => u \notin letter[m].loud
      <4>1. ToldOnce(m, u)
        BY <1>a
      <4> QED BY <2>5, <4>1 DEF ToldOnce
    <3>5. ToldOnce(m, u)'
      BY <1>a, <2>1, <3>4 DEF ToldOnce, Telling
    <3> QED BY <3>3, <3>5
  <2>7. ASSUME NEW v \in Recipients, v # u PROVE GivenInOrder(m, v)' /\ ToldOnce(m, v)'
    <3>1. GivenInOrder(m, v)'
      BY <1>a, <2>1, <2>2, <2>3, <2>7 DEF GivenInOrder
    <3>2. ToldOnce(m, v)'
      BY <1>a, <2>1, <2>2, <2>3, <2>7 DEF ToldOnce, Telling
    <3> QED BY <3>1, <3>2
  <2> QED BY <1>0, <2>1, <2>2, <2>3, <2>4, <2>6, <2>7, StepOfOneKeepsInv
<1>12. CASE UNCHANGED notifyVars
  <2>1. ASSUME NEW m \in Letters PROVE OnRecord(m)'
    BY <1>a, <1>12, <2>1 DEF notifyVars, OnRecord, OnItsWay, Blocked
  <2>2. ASSUME NEW m \in Letters, NEW u \in Recipients
        PROVE  GivenInOrder(m, u)' /\ ToldOnce(m, u)'
    BY <1>a, <1>12 DEF notifyVars, GivenInOrder, ToldOnce
  <2> QED BY <1>0, <2>1, <2>2 DEF NotifyInv
<1> QED
  BY <1>1, <1>2, <1>3, <1>4, <1>5, <1>6, <1>7, <1>8, <1>9, <1>10, <1>11, <1>12
     DEF NotifyNext

\* However often a message is sent again and whatever blocks and mutes change meanwhile,
\* a member gets one row and at most one push, only what was allowed at some time of the
\* request, and a row is missing only for a block or a request that died.
THEOREM MembersAreNotifiedOnce == NotifySpec => []NotifiedAsAllowed
<1>1. ASSUME NotifyInv, NEW m \in Letters, NEW u \in Recipients
      PROVE  /\ noted[m][u] <= 1 /\ buzzed[m][u] <= noted[m][u]
             /\ noted[m][u] > 0 => <<u, "free">> \in stood[m]
             /\ buzzed[m][u] > 0 => <<u, "heard">> \in stood[m]
             /\ m \in posted /\ ~OnItsWay(m) /\ noted[m][u] = 0 =>
                   m \in broken \/ <<u, "blocked">> \in stood[m]
  <2>1. /\ NotifyTypeOK /\ GivenInOrder(m, u) /\ ToldOnce(m, u)
        /\ noted[m][u] \in Nat /\ waiting[m][u] \in Nat /\ buzzed[m][u] \in Nat
    BY <1>1, CountsAreNumbers DEF NotifyInv
  <2>2. /\ noted[m][u] <= 1 /\ buzzed[m][u] <= noted[m][u]
        /\ noted[m][u] > 0 => <<u, "free">> \in stood[m]
        /\ buzzed[m][u] > 0 => <<u, "heard">> \in stood[m]
    BY <2>1 DEF GivenInOrder
  <2>3. ~OnItsWay(m) => letter[m].pc \notin Telling
    BY DEF OnItsWay, Telling
  <2> QED BY <2>1, <2>2, <2>3 DEF ToldOnce
<1>2. NotifyInv => NotifiedAsAllowed
  BY <1>1 DEF NotifiedAsAllowed
<1> QED
  BY <1>2, InitNotifyInv, NextNotifyInv, PTL DEF NotifySpec

-----------------------------------------------------------------------------
(***************************************************************************)
(* Threads: who makes and who leaves them                                  *)
(***************************************************************************)
ThreadsSpec == ThreadsInit /\ [][ThreadsNext]_threadVars

ThreadRow == [members : SUBSET People, group : BOOLEAN, exists : BOOLEAN, maker : Calls]
CallStates == {"creating", "leaving", "done"}
Called == [op : {"create", "direct", "leave"}, by : People, with : SUBSET People,
           thread : Nat, remaining : SUBSET People, pc : CallStates]
CallRows == [Calls -> {[pc |-> "new"]} \cup Called]

ThreadsTypeOK ==
    /\ threads \in Seq(ThreadRow)
    /\ call \in CallRows
    /\ overlaps \in SUBSET SUBSET Calls

\* Every request is where a request of its kind can be.
CallsFit ==
    \A c \in Calls :
        /\ call[c].pc = "creating" => call[c].op = "direct"
        /\ call[c].pc # "new" /\ call[c].op = "direct" =>
              \E v \in People \ {call[c].by} : call[c].with = {v}
        /\ call[c].pc = "leaving" =>
              /\ call[c].op = "leave" /\ call[c].thread \in 1..Len(threads)
              /\ call[c].by \notin call[c].remaining

\* Requests that run at the same time are on record.
MeetingsKnown ==
    \A c, d \in Calls : Running(c) /\ Running(d) /\ c # d => {c, d} \in overlaps

\* A thread has one maker, and a direct thread no other members than the two it is of.
MadeBy(t) ==
    LET c == threads[t].maker
    IN /\ call[c].pc = "done" /\ call[c].op \in {"create", "direct"}
       /\ call[c].op = "direct" =>
             /\ call[c].thread = t /\ ~threads[t].group
             /\ threads[t].members \subseteq {call[c].by} \cup call[c].with
ThreadsHaveMakers == \A t \in 1..Len(threads) : MadeBy(t)

\* The direct threads of u and v.
IsDirect(t, u, v) ==
    threads[t].exists /\ call[threads[t].maker].op = "direct" /\ threads[t].members = {u, v}

\* A request that has found no direct thread and is about to make one overlaps the makers
\* of those that are there by now.
MakersMeet ==
    \A c \in Calls : call[c].pc = "creating" =>
        \A t \in 1..Len(threads), v \in People :
            call[c].with = {v} /\ IsDirect(t, call[c].by, v) => {c, threads[t].maker} \in overlaps

TwinsMeet ==
    \A t, s \in 1..Len(threads), u, v \in People :
        t # s /\ u # v /\ IsDirect(t, u, v) /\ IsDirect(s, u, v) =>
            {threads[t].maker, threads[s].maker} \in overlaps

\* Whom a leaving member has seen stay is there, or left by a request that overlaps.
Leaves(d, t) == call[d].pc # "new" /\ call[d].op = "leave" /\ call[d].thread = t
RemainingStay ==
    \A c \in Calls : call[c].pc = "leaving" =>
        \A x \in call[c].remaining :
            \/ x \in threads[call[c].thread].members
            \/ \E d \in Calls : Leaves(d, call[c].thread) /\ {c, d} \in overlaps

EmptyMeet ==
    \A t \in 1..Len(threads) : threads[t].exists /\ threads[t].members = {} =>
        \E c, d \in Calls : Leaves(c, t) /\ Leaves(d, t) /\ {c, d} \in overlaps

ThreadsInv ==
    /\ ThreadsTypeOK /\ CallsFit /\ MeetingsKnown /\ ThreadsHaveMakers
    /\ MakersMeet /\ TwinsMeet /\ RemainingStay /\ EmptyMeet

\* What a request that begins, and one that goes on, do to the requests.
Calling(c) ==
    /\ call[c].pc = "new" /\ call'[c].pc # "new"
    /\ \A d \in Calls \ {c} : call'[d] = call[d]
    /\ overlaps' = overlaps \cup {{c, d} : d \in {e \in Calls : Running(e)}}
Ending(c) ==
    /\ Running(c) /\ call'[c].pc = "done"
    /\ call'[c].op = call[c].op /\ call'[c].by = call[c].by /\ call'[c].with = call[c].with
    /\ \A d \in Calls \ {c} : call'[d] = call[d]
    /\ overlaps' = overlaps

\* A request is written as a whole.
LEMMA CallBecomes ==
  ASSUME ThreadsTypeOK, NEW c \in Calls, NEW next \in Called, Becomes(c, next)
  PROVE  /\ call' \in CallRows /\ call'[c] = next
         /\ \A d \in Calls \ {c} : call'[d] = call[d]
<1> HIDE DEF Called
<1> QED BY DEF ThreadsTypeOK, CallRows, Becomes

\* The fields of a request that has begun.
LEMMA CallHasFields ==
  ASSUME ThreadsTypeOK, NEW c \in Calls, call[c].pc # "new"
  PROVE  /\ call[c] \in Called /\ call[c].by \in People /\ call[c].thread \in Nat
         /\ call[c].remaining \in SUBSET People /\ call[c].with \in SUBSET People
         /\ [call[c] EXCEPT !.pc = "done"] \in Called
<1>1. call[c] \in Called
  BY DEF ThreadsTypeOK, CallRows
<1> QED BY <1>1 DEF Called, CallStates

\* A request that starts meets those that are in progress.
LEMMA CallStarts ==
  ASSUME ThreadsTypeOK, NEW c \in Calls, NEW op \in {"create", "direct", "leave"},
         NEW by \in People, NEW with \in SUBSET People, NEW t \in Nat,
         NEW remaining \in SUBSET People, NEW where \in CallStates, call[c].pc = "new", Meets(c),
         Becomes(c, [Started(op, by, with, t, where) EXCEPT !.remaining = remaining])
  PROVE  /\ Calling(c) /\ call' \in CallRows
         /\ call'[c].op = op /\ call'[c].by = by /\ call'[c].with = with
         /\ call'[c].thread = t /\ call'[c].pc = where /\ call'[c].remaining = remaining
<1> DEFINE next == [Started(op, by, with, t, where) EXCEPT !.remaining = remaining]
<1>1. /\ next \in Called /\ next.op = op /\ next.by = by /\ next.with = with
      /\ next.thread = t /\ next.pc = where /\ next.remaining = remaining /\ next.pc # "new"
  BY DEF Called, CallStates, Started
<1> HIDE DEF next
<1>2. Becomes(c, next)
  BY DEF next
<1>3. /\ call' \in CallRows /\ call'[c] = next /\ \A d \in Calls \ {c} : call'[d] = call[d]
  BY <1>1, <1>2, CallBecomes
<1> QED BY <1>1, <1>3 DEF Calling, Meets

\* A request that makes no thread leaves those that are there as they are.
LEMMA RecordOfMeetings ==
  ASSUME ThreadsInv, NEW c \in Calls, Calling(c) \/ Ending(c)
  PROVE  /\ MeetingsKnown' /\ overlaps \subseteq overlaps' /\ overlaps' \in SUBSET SUBSET Calls
         /\ \A d \in Calls : call[d].pc # "new" =>
               /\ call'[d].pc # "new" /\ call'[d].op = call[d].op
               /\ call'[d].by = call[d].by /\ call'[d].with = call[d].with
<1>1. \A d \in Calls : call[d].pc # "new" =>
         /\ call'[d].pc # "new" /\ call'[d].op = call[d].op
         /\ call'[d].by = call[d].by /\ call'[d].with = call[d].with
  BY DEF Calling, Ending, Running
<1>2. overlaps \subseteq overlaps' /\ overlaps' \in SUBSET SUBSET Calls
  BY DEF Calling, Ending, ThreadsInv, ThreadsTypeOK
<1>4. ASSUME NEW d \in Calls, NEW e \in Calls, Running(d)', Running(e)', d # e
      PROVE  {d, e} \in overlaps'
  <2>1. CASE Running(d) /\ Running(e)
    BY <1>2, <1>4, <2>1 DEF MeetingsKnown, ThreadsInv
  <2>2. CASE Calling(c)
    <3>1. \A f \in Calls : f # c => (Running(f)' <=> Running(f))
      BY <2>2 DEF Calling, Running
    <3>2. \A f \in Calls : Running(f) => {c, f} \in overlaps'
      BY <2>2 DEF Calling
    <3>3. {d, e} = {e, d}
      OBVIOUS
    <3> QED BY <1>4, <2>1, <3>1, <3>2, <3>3
  <2>3. CASE Ending(c)
    <3>1. \A f \in Calls : Running(f)' => Running(f)
      BY <2>3 DEF Ending, Running
    <3> QED BY <1>4, <2>1, <3>1
  <2> QED BY <2>2, <2>3
<1> QED BY <1>1, <1>2, <1>4 DEF MeetingsKnown

\* The maker of a thread has ended, so it is not the request that takes a step.
LEMMA MakersRest ==
  ASSUME ThreadsInv, NEW c \in Calls, Calling(c) \/ Ending(c), NEW t \in 1..Len(threads)
  PROVE  /\ threads[t] \in ThreadRow /\ threads[t].maker \in Calls /\ threads[t].maker # c
         /\ call'[threads[t].maker] = call[threads[t].maker]
<1>1. threads[t] \in ThreadRow
  BY DEF ThreadsInv, ThreadsTypeOK
<1>5. threads[t].maker \in Calls
  BY <1>1 DEF ThreadRow
<1>2. call[threads[t].maker].pc = "done"
  BY DEF ThreadsInv, ThreadsHaveMakers, MadeBy
<1>3. call[c].pc # "done"
  BY DEF Calling, Ending, Running
<1>4. threads[t].maker # c
  BY <1>2, <1>3
<1> QED BY <1>1, <1>4, <1>5 DEF Calling, Ending

\* So a thread the step leaves alone is as direct as it was.
LEMMA ThreadStays ==
  ASSUME ThreadsInv, NEW c \in Calls, Calling(c) \/ Ending(c), NEW t \in 1..Len(threads),
         threads'[t] = threads[t]
  PROVE  /\ MadeBy(t)' /\ \A u, v \in People : IsDirect(t, u, v)' <=> IsDirect(t, u, v)
         /\ threads'[t].maker = threads[t].maker
<1>1. /\ threads[t].maker \in Calls /\ call'[threads[t].maker] = call[threads[t].maker]
  BY MakersRest
<1>2. MadeBy(t)
  BY DEF ThreadsInv, ThreadsHaveMakers
<1>3. MadeBy(t)'
  BY <1>1, <1>2 DEF MadeBy
<1> QED BY <1>1, <1>3 DEF IsDirect

\* A request goes on leaving the thread it leaves.
LEMMA LeaversStay ==
  ASSUME ThreadsInv, NEW c \in Calls, Calling(c) \/ Ending(c),
         call[c].pc = "creating" \/ call'[c].thread = call[c].thread \/ Calling(c)
  PROVE  /\ \A d \in Calls, t \in Nat : Leaves(d, t) => Leaves(d, t)'
         /\ overlaps \subseteq overlaps'
<1>1. overlaps \subseteq overlaps'
  BY RecordOfMeetings
<1>2. ASSUME NEW d \in Calls, NEW t \in Nat, Leaves(d, t)
      PROVE  Leaves(d, t)'
  <2>1. call'[d].pc # "new" /\ call'[d].op = call[d].op
    BY <1>2, RecordOfMeetings DEF Leaves
  <2>2. CASE d # c
    BY <1>2, <2>2 DEF Leaves, Calling, Ending
  <2>3. CASE d = c
    <3>1. ~Calling(c)
      BY <1>2, <2>3 DEF Calling, Leaves
    <3>2. call[c].pc # "creating"
      BY <1>2, <2>3 DEF Leaves, ThreadsInv, CallsFit
    <3> QED BY <1>2, <2>1, <2>3, <3>1, <3>2 DEF Leaves
  <2> QED BY <2>2, <2>3
<1> QED BY <1>1, <1>2

\* A step that leaves the threads as they are: only the requests have to fit.
LEMMA SameThreads ==
  ASSUME ThreadsInv, NEW c \in Calls, Calling(c) \/ Ending(c), UNCHANGED threads
  PROVE  ThreadsHaveMakers' /\ TwinsMeet'
<1>1. \A t \in 1..Len(threads) :
         /\ MadeBy(t)' /\ \A u, v \in People : IsDirect(t, u, v)' <=> IsDirect(t, u, v)
         /\ threads'[t].maker = threads[t].maker
  BY ThreadStays
<1>2. overlaps \subseteq overlaps'
  BY RecordOfMeetings
<1> QED BY <1>1, <1>2 DEF ThreadsHaveMakers, TwinsMeet, ThreadsInv

\* When a thread is made, those before it stay.
LEMMA ThreadIsNew ==
  ASSUME ThreadsInv, NEW c \in Calls, NEW members \in SUBSET People, NEW group \in BOOLEAN,
         NewThread(c, members, group)
  PROVE  /\ threads' \in Seq(ThreadRow) /\ Len(threads) \in Nat
         /\ Len(threads') = Len(threads) + 1
         /\ \A t \in 1..Len(threads) : threads'[t] = threads[t]
         /\ LET new == threads'[Len(threads) + 1]
            IN /\ new.members = members /\ new.group = group /\ new.exists = TRUE
               /\ new.maker = c
<1> DEFINE row == [members |-> members, group |-> group, exists |-> TRUE, maker |-> c]
<1>1. row \in ThreadRow /\ row.members = members /\ row.group = group /\ row.exists = TRUE
      /\ row.maker = c
  BY DEF ThreadRow
<1>2. threads' = Append(threads, row) /\ threads \in Seq(ThreadRow)
  BY DEF NewThread, ThreadsInv, ThreadsTypeOK
<1> HIDE DEF row
<1>3. /\ threads' \in Seq(ThreadRow) /\ Len(threads) \in Nat
      /\ Len(threads') = Len(threads) + 1
      /\ \A t \in 1..Len(threads) : threads'[t] = threads[t]
      /\ threads'[Len(threads) + 1] = row
  BY <1>1, <1>2
<1> QED BY <1>1, <1>3

\* A step that leaves no thread to anybody keeps what is known of those who leave.
LEMMA LeavingStays ==
  ASSUME ThreadsInv, NEW c \in Calls, Calling(c) \/ Ending(c), call'[c].pc # "leaving",
         call[c].pc = "creating" \/ call'[c].thread = call[c].thread \/ Calling(c),
         \A t \in 1..Len(threads) : threads'[t] = threads[t],
         \A t \in 1..Len(threads') : t \in 1..Len(threads) \/ threads'[t].members # {}
  PROVE  RemainingStay' /\ EmptyMeet'
<1>1. /\ \A d \in Calls, t \in Nat : Leaves(d, t) => Leaves(d, t)'
      /\ overlaps \subseteq overlaps'
  BY LeaversStay
<1>2. Len(threads) \in Nat
  BY DEF ThreadsInv, ThreadsTypeOK
<1>3. ASSUME NEW d \in Calls, call'[d].pc = "leaving", NEW x \in call'[d].remaining
      PROVE  \/ x \in threads'[call'[d].thread].members
             \/ \E e \in Calls : Leaves(e, call[d].thread)' /\ {d, e} \in overlaps'
  <2>1. d # c /\ call'[d] = call[d] /\ call[d].pc = "leaving" /\ x \in call[d].remaining
    BY <1>3 DEF Calling, Ending
  <2>2. call[d].thread \in 1..Len(threads)
    BY <2>1 DEF ThreadsInv, CallsFit
  <2>3. \/ x \in threads[call[d].thread].members
        \/ \E e \in Calls : Leaves(e, call[d].thread) /\ {d, e} \in overlaps
    BY <2>1 DEF ThreadsInv, RemainingStay
  <2>4. PICK t \in 1..Len(threads) : t = call[d].thread /\ t = call'[d].thread
    BY <2>1, <2>2
  <2>5. CASE x \in threads[t].members
    BY <2>4, <2>5
  <2>6. CASE \E e \in Calls : Leaves(e, t) /\ {d, e} \in overlaps
    <3>1. PICK e \in Calls : Leaves(e, t) /\ {d, e} \in overlaps
      BY <2>6
    <3>2. Leaves(e, t)' /\ {d, e} \in overlaps'
      BY <1>1, <1>2, <3>1
    <3> QED BY <2>4, <3>2 DEF Leaves
  <2> QED BY <2>3, <2>4, <2>5, <2>6
<1>4. RemainingStay'
  BY <1>3 DEF RemainingStay
<1>5. ASSUME NEW t \in 1..Len(threads'), threads'[t].exists, threads'[t].members = {}
      PROVE  \E d, e \in Calls : Leaves(d, t)' /\ Leaves(e, t)' /\ {d, e} \in overlaps'
  <2>1. t \in 1..Len(threads) /\ threads'[t] = threads[t] /\ t \in Nat
    BY <1>2, <1>5
  <2>2. \E d, e \in Calls : Leaves(d, t) /\ Leaves(e, t) /\ {d, e} \in overlaps
    BY <1>5, <2>1 DEF ThreadsInv, EmptyMeet
  <2> QED BY <1>1, <2>1, <2>2
<1>6. EmptyMeet'
  BY <1>5 DEF EmptyMeet
<1> QED BY <1>4, <1>6

\* The maker of a direct thread that has two members: it is of these two.
LEMMA DirectIsOfTwo ==
  ASSUME ThreadsInv, NEW t \in 1..Len(threads), call[threads[t].maker].op = "direct"
  PROVE  \E u, v \in People : u # v /\ threads[t].members \subseteq {u, v}
<1>1. threads[t] \in ThreadRow
  BY DEF ThreadsInv, ThreadsTypeOK
<1>2. threads[t].maker \in Calls /\ MadeBy(t)
  BY <1>1 DEF ThreadRow, ThreadsInv, ThreadsHaveMakers
<1> DEFINE c == threads[t].maker
<1>3. call[c].pc # "new" /\ threads[t].members \subseteq {call[c].by} \cup call[c].with
  BY <1>2 DEF MadeBy
<1>4. call[c].by \in People
  BY <1>2, <1>3, CallHasFields DEF ThreadsInv
<1>5. \E v \in People \ {call[c].by} : call[c].with = {v}
  BY <1>2, <1>3 DEF ThreadsInv, CallsFit
<1> QED BY <1>3, <1>4, <1>5

\* Creating a thread, of a group or of two.
LEMMA CreateThreadsInv ==
  ASSUME ThreadsInv, NEW c \in Calls, Create(c)
  PROVE  ThreadsInv'
<1>1. PICK by \in People, others \in SUBSET People, group \in BOOLEAN :
         /\ NewThread(c, others \cup {by}, group)
         /\ Becomes(c, Started("create", by, others, 0, "done"))
  BY DEF Create
<1>2. Started("create", by, others, 0, "done")
        = [Started("create", by, others, 0, "done") EXCEPT !.remaining = {}]
  BY DEF Started
<1>3. ThreadsTypeOK /\ "create" \in {"create", "direct", "leave"} /\ "done" \in CallStates
      /\ call[c].pc = "new" /\ Meets(c) /\ {} \in SUBSET People /\ 0 \in Nat
  BY DEF ThreadsInv, Create, CallStates
<1>4. Becomes(c, [Started("create", by, others, 0, "done") EXCEPT !.remaining = {}])
  BY <1>1, <1>2
<1>5. /\ Calling(c) /\ call' \in CallRows /\ call'[c].op = "create" /\ call'[c].pc = "done"
  BY <1>3, <1>4, CallStarts
<1>6. /\ threads' \in Seq(ThreadRow) /\ Len(threads) \in Nat
      /\ Len(threads') = Len(threads) + 1
      /\ \A t \in 1..Len(threads) : threads'[t] = threads[t]
      /\ threads'[Len(threads) + 1].maker = c
      /\ threads'[Len(threads) + 1].members = others \cup {by}
  BY <1>1, ThreadIsNew
<1>7. /\ MeetingsKnown' /\ overlaps \subseteq overlaps' /\ overlaps' \in SUBSET SUBSET Calls
  BY <1>5, RecordOfMeetings
<1>8. \A t \in 1..Len(threads) :
         /\ MadeBy(t)' /\ \A u, v \in People : IsDirect(t, u, v)' <=> IsDirect(t, u, v)
         /\ threads'[t].maker = threads[t].maker
  BY <1>5, <1>6, ThreadStays
<1> PICK n \in Nat : n = Len(threads) + 1
  BY <1>6
<1>9. \A u, v \in People : ~IsDirect(n, u, v)'
  BY <1>5, <1>6 DEF IsDirect
<1>10. MadeBy(n)'
  BY <1>5, <1>6 DEF MadeBy
<1>11. \A t \in 1..Len(threads') : t \in 1..Len(threads) \/ t = n
  BY <1>6
<1>12. ThreadsTypeOK'
  BY <1>5, <1>6, <1>7 DEF ThreadsTypeOK
<1>13. CallsFit'
  BY <1>5, <1>6 DEF CallsFit, Calling, ThreadsInv
<1>14. ThreadsHaveMakers'
  BY <1>8, <1>10, <1>11 DEF ThreadsHaveMakers
<1>15. MakersMeet'
  <2>1. ASSUME NEW d \in Calls, call'[d].pc = "creating", NEW s \in 1..Len(threads'),
               NEW v \in People, call'[d].with = {v}, IsDirect(s, call[d].by, v)'
        PROVE  {d, threads'[s].maker} \in overlaps'
    <3>1. call[d].pc = "creating" /\ call'[d] = call[d]
      BY <1>5, <2>1 DEF Calling
    <3>2. call[d].by \in People
      BY <1>3, <3>1, CallHasFields
    <3>3. PICK u \in People : u = call[d].by /\ IsDirect(s, u, v)'
      BY <2>1, <3>1, <3>2 DEF IsDirect
    <3>4. s \in 1..Len(threads)
      BY <1>9, <1>11, <3>3
    <3>5. IsDirect(s, u, v)
      BY <1>8, <3>3, <3>4
    <3> QED BY <1>7, <1>8, <2>1, <3>1, <3>3, <3>4, <3>5 DEF MakersMeet, ThreadsInv
  <2> QED BY <2>1 DEF MakersMeet
<1>16. TwinsMeet'
  <2>1. ASSUME NEW t \in 1..Len(threads'), NEW s \in 1..Len(threads'),
               NEW u \in People, NEW v \in People,
               t # s, u # v, IsDirect(t, u, v)', IsDirect(s, u, v)'
        PROVE  {threads'[t].maker, threads'[s].maker} \in overlaps'
    <3>1. t \in 1..Len(threads) /\ s \in 1..Len(threads)
      BY <1>9, <1>11, <2>1
    <3>2. /\ IsDirect(t, u, v) /\ IsDirect(s, u, v)
          /\ threads'[t].maker = threads[t].maker /\ threads'[s].maker = threads[s].maker
      BY <1>8, <2>1, <3>1
    <3>3. {threads[t].maker, threads[s].maker} \in overlaps
      BY <2>1, <3>1, <3>2 DEF TwinsMeet, ThreadsInv
    <3> QED BY <1>7, <3>2, <3>3
  <2> QED BY <2>1 DEF TwinsMeet
<1>17. RemainingStay' /\ EmptyMeet'
  BY <1>5, <1>6, <1>11, LeavingStays
<1> QED BY <1>7, <1>12, <1>13, <1>14, <1>15, <1>16, <1>17 DEF ThreadsInv

\* Looking for a direct thread, and finding it.
LEMMA DirectThreadsInv ==
  ASSUME ThreadsInv, NEW c \in Calls, Direct(c)
  PROVE  ThreadsInv'
<1>0. PICK by \in People : \E with \in People \ {by} :
         IF FoundDirect(by, with) # {}
         THEN \E t \in FoundDirect(by, with) :
                 Becomes(c, Started("direct", by, {with}, t, "done"))
         ELSE Becomes(c, Started("direct", by, {with}, 0, "creating"))
  BY DEF Direct
<1>1. PICK with \in People \ {by} :
         IF FoundDirect(by, with) # {}
         THEN \E t \in FoundDirect(by, with) :
                 Becomes(c, Started("direct", by, {with}, t, "done"))
         ELSE Becomes(c, Started("direct", by, {with}, 0, "creating"))
  BY <1>0
<1>2. PICK t \in Nat, where \in {"done", "creating"} :
         /\ Becomes(c, Started("direct", by, {with}, t, where))
         /\ where = "creating" => FoundDirect(by, with) = {}
  <2>1. \A t \in FoundDirect(by, with) : t \in Nat
    BY DEF FoundDirect
  <2>2. CASE FoundDirect(by, with) # {}
    BY <1>1, <2>1, <2>2
  <2>3. CASE FoundDirect(by, with) = {}
    BY <1>1, <2>3
  <2> QED BY <2>2, <2>3
<1>3. Started("direct", by, {with}, t, where)
        = [Started("direct", by, {with}, t, where) EXCEPT !.remaining = {}]
  BY DEF Started
<1>4. ThreadsTypeOK /\ "direct" \in {"create", "direct", "leave"} /\ where \in CallStates
      /\ call[c].pc = "new" /\ Meets(c) /\ {} \in SUBSET People /\ {with} \in SUBSET People
  BY DEF ThreadsInv, Direct, CallStates
<1>5. Becomes(c, [Started("direct", by, {with}, t, where) EXCEPT !.remaining = {}])
  BY <1>2, <1>3
<1>6. /\ Calling(c) /\ call' \in CallRows /\ call'[c].op = "direct" /\ call'[c].pc = where
      /\ call'[c].by = by /\ call'[c].with = {with}
  BY <1>4, <1>5, CallStarts
<1>7. /\ MeetingsKnown' /\ overlaps \subseteq overlaps' /\ overlaps' \in SUBSET SUBSET Calls
  BY <1>6, RecordOfMeetings
<1>8. UNCHANGED threads
  BY DEF Direct
<1>9. ThreadsHaveMakers' /\ TwinsMeet'
  BY <1>6, <1>8, SameThreads
<1>10. \A s \in 1..Len(threads) :
         /\ \A u, v \in People : IsDirect(s, u, v)' <=> IsDirect(s, u, v)
         /\ threads'[s].maker = threads[s].maker
  BY <1>6, <1>8, ThreadStays
<1>11. ThreadsTypeOK'
  BY <1>4, <1>6, <1>7, <1>8 DEF ThreadsTypeOK
<1>12. CallsFit'
  BY <1>6, <1>8 DEF CallsFit, Calling, ThreadsInv
<1>13. MakersMeet'
  <2>1. \A s \in 1..Len(threads) : where = "creating" => ~IsDirect(s, by, with)
    <3>1. \A s \in 1..Len(threads) : MadeBy(s)
      BY DEF ThreadsInv, ThreadsHaveMakers
    <3> QED BY <1>2, <3>1 DEF FoundDirect, IsDirect, MadeBy
  <2>2. ASSUME NEW d \in Calls, call'[d].pc = "creating", NEW s \in 1..Len(threads'),
               NEW v \in People, call'[d].with = {v}, IsDirect(s, call[d].by, v)'
        PROVE  {d, threads'[s].maker} \in overlaps'
    <3>1. CASE d = c
      <4>1. v = with /\ where = "creating"
        BY <1>6, <2>2, <3>1
      <4> QED BY <1>6, <1>8, <1>10, <2>1, <2>2, <3>1, <4>1
    <3>2. CASE d # c
      <4>1. call[d].pc = "creating" /\ call'[d] = call[d] /\ s \in 1..Len(threads)
        BY <1>6, <1>8, <2>2, <3>2 DEF Calling
      <4>2. call[d].by \in People
        BY <1>4, <4>1, CallHasFields
      <4>3. IsDirect(s, call[d].by, v)
        BY <1>10, <2>2, <4>1, <4>2
      <4> QED BY <1>7, <1>10, <2>2, <4>1, <4>3 DEF MakersMeet, ThreadsInv
    <3> QED BY <3>1, <3>2
  <2> QED BY <2>2 DEF MakersMeet
<1>14. RemainingStay' /\ EmptyMeet'
  BY <1>2, <1>6, <1>8, LeavingStays
<1> QED BY <1>7, <1>9, <1>11, <1>12, <1>13, <1>14 DEF ThreadsInv

\* Making the direct thread that was not found.
LEMMA CreateDirectThreadsInv ==
  ASSUME ThreadsInv, NEW c \in Calls, CreateDirect(c)
  PROVE  ThreadsInv'
<1>1. ThreadsTypeOK /\ call[c].pc = "creating" /\ UNCHANGED overlaps
  BY DEF ThreadsInv, CreateDirect
<1>2. call[c].op = "direct" /\ call[c].by \in People /\ call[c] \in Called
  BY <1>1, CallHasFields DEF ThreadsInv, CallsFit
<1>3. PICK with \in People \ {call[c].by} : call[c].with = {with}
  BY <1>1, <1>2 DEF ThreadsInv, CallsFit
<1>4. PICK by \in People : by = call[c].by
  BY <1>2
<1>5. NewThread(c, {by, with}, FALSE)
  <2>1. {by} \cup {with} = {by, with}
    OBVIOUS
  <2> QED BY <1>3, <1>4, <2>1 DEF CreateDirect
<1>6. /\ threads' \in Seq(ThreadRow) /\ Len(threads) \in Nat
      /\ Len(threads') = Len(threads) + 1
      /\ \A t \in 1..Len(threads) : threads'[t] = threads[t]
      /\ LET new == threads'[Len(threads) + 1]
         IN /\ new.members = {by, with} /\ new.group = FALSE /\ new.exists = TRUE
            /\ new.maker = c
  BY <1>5, ThreadIsNew
<1> PICK n \in Nat : n = Len(threads) + 1
  BY <1>6
<1> DEFINE next == [call[c] EXCEPT !.thread = n, !.pc = "done"]
<1>7. /\ next \in Called /\ next.op = "direct" /\ next.by = by /\ next.with = {with}
      /\ next.thread = n /\ next.pc = "done"
  BY <1>2, <1>3, <1>4 DEF Called, CallStates
<1>8. Becomes(c, next)
  BY <1>6 DEF CreateDirect
<1> HIDE DEF next
<1>9. /\ call' \in CallRows /\ call'[c] = next
      /\ \A d \in Calls \ {c} : call'[d] = call[d]
  BY <1>1, <1>7, <1>8, CallBecomes
<1>10. Ending(c)
  BY <1>1, <1>2, <1>3, <1>4, <1>7, <1>9 DEF Ending, Running
<1>11. MeetingsKnown'
  BY <1>10, RecordOfMeetings
<1>12. \A t \in 1..Len(threads) :
         /\ MadeBy(t)' /\ \A u, v \in People : IsDirect(t, u, v)' <=> IsDirect(t, u, v)
         /\ threads'[t].maker = threads[t].maker
  BY <1>6, <1>10, ThreadStays
<1>13. MadeBy(n)'
  BY <1>6, <1>7, <1>9 DEF MadeBy
<1>14. \A t \in 1..Len(threads') : t \in 1..Len(threads) \/ t = n
  BY <1>6
<1>15. ThreadsTypeOK'
  BY <1>1, <1>6, <1>9 DEF ThreadsTypeOK
<1>16. CallsFit'
  <2>1. \A d \in Calls : call'[d].pc = "leaving" => call'[d] = call[d]
    BY <1>7, <1>9
  <2>2. \A d \in Calls : call'[d].pc = "creating" => call'[d].op = "direct"
    BY <1>7, <1>9 DEF CallsFit, ThreadsInv
  <2>3. \A d \in Calls : call'[d].pc # "new" /\ call'[d].op = "direct" =>
              \E v \in People \ {call'[d].by} : call'[d].with = {v}
    <3>1. \E v \in People \ {call'[c].by} : call'[c].with = {v}
      BY <1>3, <1>4, <1>7, <1>9
    <3> QED BY <1>9, <3>1 DEF CallsFit, ThreadsInv
  <2> QED BY <2>1, <2>2, <2>3, <1>6 DEF CallsFit, ThreadsInv
<1>17. ThreadsHaveMakers'
  BY <1>12, <1>13, <1>14 DEF ThreadsHaveMakers
<1>18. \A u, v \in People, s \in 1..Len(threads) :
          {u, v} = {by, with} /\ IsDirect(s, u, v) => {c, threads[s].maker} \in overlaps
  <2>1. ASSUME NEW u \in People, NEW v \in People, NEW s \in 1..Len(threads),
               {u, v} = {by, with}, IsDirect(s, u, v)
        PROVE  {c, threads[s].maker} \in overlaps
    <3>1. IsDirect(s, by, with)
      BY <2>1 DEF IsDirect
    <3> QED BY <1>1, <1>3, <1>4, <3>1 DEF MakersMeet, ThreadsInv
  <2> QED BY <2>1
<1>19. \A u, v \in People : IsDirect(n, u, v)' => {u, v} = {by, with}
  BY <1>6 DEF IsDirect
<1>20. threads'[n].maker = c
  BY <1>6
<1>21. MakersMeet'
  <2>1. ASSUME NEW d \in Calls, call'[d].pc = "creating", NEW s \in 1..Len(threads'),
               NEW v \in People, call'[d].with = {v}, IsDirect(s, call[d].by, v)'
        PROVE  {d, threads'[s].maker} \in overlaps
    <3>1. d # c /\ call[d].pc = "creating" /\ call'[d] = call[d]
      BY <1>7, <1>9, <2>1
    <3>2. call[d].by \in People
      BY <1>1, <3>1, CallHasFields
    <3>3. PICK u \in People : u = call[d].by /\ IsDirect(s, u, v)'
      BY <2>1, <3>1, <3>2 DEF IsDirect
    <3>4. CASE s \in 1..Len(threads)
      BY <1>12, <2>1, <3>1, <3>3, <3>4 DEF MakersMeet, ThreadsInv
    <3>5. CASE s = n
      BY <1>1, <1>20, <3>1, <3>5 DEF MeetingsKnown, ThreadsInv, Running
    <3> QED BY <1>14, <3>4, <3>5
  <2> QED BY <2>1, <1>1 DEF MakersMeet
<1>22. TwinsMeet'
  <2>1. ASSUME NEW t \in 1..Len(threads'), NEW s \in 1..Len(threads'), NEW u \in People,
               NEW v \in People, t # s, u # v, IsDirect(t, u, v)', IsDirect(s, u, v)'
        PROVE  {threads'[t].maker, threads'[s].maker} \in overlaps
    <3>1. CASE t \in 1..Len(threads) /\ s \in 1..Len(threads)
      BY <1>12, <2>1, <3>1 DEF TwinsMeet, ThreadsInv
    <3>2. CASE t = n /\ s \in 1..Len(threads)
      BY <1>12, <1>18, <1>19, <1>20, <2>1, <3>2
    <3>3. CASE s = n /\ t \in 1..Len(threads)
      <4>1. {c, threads[t].maker} \in overlaps
        BY <1>12, <1>18, <1>19, <2>1, <3>3
      <4>2. {threads[t].maker, c} = {c, threads[t].maker}
        OBVIOUS
      <4> QED BY <1>12, <1>20, <3>3, <4>1, <4>2
    <3> QED BY <1>14, <2>1, <3>1, <3>2, <3>3
  <2> QED BY <2>1, <1>1 DEF TwinsMeet
<1>23. RemainingStay' /\ EmptyMeet'
  <2>1. threads'[n].members # {}
    BY <1>6
  <2> QED BY <1>1, <1>6, <1>7, <1>9, <1>10, <1>14, <2>1, LeavingStays
<1> QED BY <1>11, <1>15, <1>16, <1>17, <1>21, <1>22, <1>23 DEF ThreadsInv

\* A request that ends before its last step.
LEMMA AbortThreadsInv ==
  ASSUME ThreadsInv, NEW c \in Calls, Abort(c)
  PROVE  ThreadsInv'
<1>1. ThreadsTypeOK /\ call[c].pc # "new" /\ Running(c) /\ UNCHANGED <<threads, overlaps>>
  BY DEF ThreadsInv, Abort, Running
<1> DEFINE next == [call[c] EXCEPT !.pc = "done"]
<1>2. next \in Called /\ Becomes(c, next)
  BY <1>1, CallHasFields DEF Abort, Ends
<1>3. /\ next.op = call[c].op /\ next.by = call[c].by /\ next.with = call[c].with
      /\ next.thread = call[c].thread /\ next.pc = "done"
  BY <1>1, CallHasFields DEF Called
<1> HIDE DEF next
<1>4. /\ call' \in CallRows /\ call'[c] = next
      /\ \A d \in Calls \ {c} : call'[d] = call[d]
  BY <1>1, <1>2, CallBecomes
<1>5. Ending(c) /\ call'[c].pc = "done" /\ call'[c].thread = call[c].thread
  BY <1>1, <1>3, <1>4 DEF Ending
<1>6. MeetingsKnown'
  BY <1>5, RecordOfMeetings
<1>7. ThreadsHaveMakers' /\ TwinsMeet'
  BY <1>1, <1>5, SameThreads
<1>8. \A s \in 1..Len(threads) :
         /\ \A u, v \in People : IsDirect(s, u, v)' <=> IsDirect(s, u, v)
         /\ threads'[s].maker = threads[s].maker
  BY <1>1, <1>5, ThreadStays
<1>9. ThreadsTypeOK'
  BY <1>1, <1>4 DEF ThreadsTypeOK
<1>10. CallsFit'
  BY <1>1, <1>3, <1>4 DEF CallsFit, ThreadsInv
<1>11. MakersMeet'
  <2>1. ASSUME NEW d \in Calls, call'[d].pc = "creating", NEW s \in 1..Len(threads'),
               NEW v \in People, call'[d].with = {v}, IsDirect(s, call[d].by, v)'
        PROVE  {d, threads'[s].maker} \in overlaps'
    <3>1. call[d].pc = "creating" /\ call'[d] = call[d] /\ s \in 1..Len(threads)
      BY <1>1, <1>3, <1>4, <2>1
    <3>2. call[d].by \in People
      BY <1>1, <3>1, CallHasFields
    <3>3. PICK u \in People : u = call[d].by /\ IsDirect(s, u, v)'
      BY <2>1, <3>1, <3>2 DEF IsDirect
    <3> QED BY <1>1, <1>8, <2>1, <3>1, <3>3 DEF MakersMeet, ThreadsInv
  <2> QED BY <2>1 DEF MakersMeet
<1>12. RemainingStay' /\ EmptyMeet'
  BY <1>1, <1>5, LeavingStays
<1> QED BY <1>6, <1>7, <1>9, <1>10, <1>11, <1>12 DEF ThreadsInv

\* Leaving a thread: the member is gone, and it was looked who stays.
LEMMA LeaveThreadsInv ==
  ASSUME ThreadsInv, NEW c \in Calls, Leave(c)
  PROVE  ThreadsInv'
<1>1. PICK by \in People, t \in 1..Len(threads) :
         /\ IsMember(by, t)
         /\ Becomes(c, [Started("leave", by, {}, t, "leaving") EXCEPT
                          !.remaining = Remaining(by, t)])
  BY DEF Leave
<1>2. threads[t] \in ThreadRow
  BY DEF ThreadsInv, ThreadsTypeOK
<1>3. Remaining(by, t) \in SUBSET People /\ by \notin Remaining(by, t)
      /\ Remaining(by, t) \subseteq threads[t].members
  BY <1>2 DEF Remaining, ThreadRow
<1>4. PICK remaining \in SUBSET People : remaining = Remaining(by, t)
  BY <1>3
<1>5. ThreadsTypeOK /\ "leave" \in {"create", "direct", "leave"} /\ "leaving" \in CallStates
      /\ call[c].pc = "new" /\ Meets(c) /\ {} \in SUBSET People /\ t \in Nat
      /\ UNCHANGED threads /\ Len(threads) \in Nat
  BY DEF ThreadsInv, Leave, CallStates, ThreadsTypeOK
<1>6. Becomes(c, [Started("leave", by, {}, t, "leaving") EXCEPT !.remaining = remaining])
  BY <1>1, <1>4
<1>7. /\ Calling(c) /\ call' \in CallRows /\ call'[c].op = "leave" /\ call'[c].by = by
      /\ call'[c].pc = "leaving" /\ call'[c].thread = t /\ call'[c].remaining = remaining
  <2>1. /\ "leave" \in {"create", "direct", "leave"} /\ "leaving" \in CallStates
        /\ {} \in SUBSET People /\ t \in Nat /\ by \in People /\ remaining \in SUBSET People
    BY <1>1, <1>4, <1>5
  <2>2. ThreadsTypeOK /\ call[c].pc = "new" /\ Meets(c)
    BY <1>5
  <2> HIDE DEF ThreadsTypeOK, Meets, Started, Becomes, Calling
  <2>3. ASSUME NEW op \in {"create", "direct", "leave"}, NEW with \in SUBSET People,
               NEW where \in CallStates, op = "leave", with = {}, where = "leaving"
        PROVE  /\ Calling(c) /\ call' \in CallRows
               /\ call'[c].op = op /\ call'[c].by = by /\ call'[c].with = with
               /\ call'[c].thread = t /\ call'[c].pc = where /\ call'[c].remaining = remaining
    <3>1. Becomes(c, [Started(op, by, with, t, where) EXCEPT !.remaining = remaining])
      BY <1>6, <2>3
    <3> QED BY <2>1, <2>2, <3>1, CallStarts
  <2> QED BY <2>1, <2>3
<1>8. /\ MeetingsKnown' /\ overlaps \subseteq overlaps' /\ overlaps' \in SUBSET SUBSET Calls
  BY <1>7, RecordOfMeetings
<1>9. ThreadsHaveMakers' /\ TwinsMeet'
  BY <1>5, <1>7, SameThreads
<1>10. \A s \in 1..Len(threads) :
         /\ \A u, v \in People : IsDirect(s, u, v)' <=> IsDirect(s, u, v)
         /\ threads'[s].maker = threads[s].maker
  BY <1>5, <1>7, ThreadStays
<1>11. ThreadsTypeOK'
  BY <1>5, <1>7, <1>8 DEF ThreadsTypeOK
<1>12. CallsFit'
  BY <1>3, <1>4, <1>5, <1>7 DEF CallsFit, Calling, ThreadsInv
<1>13. MakersMeet'
  <2>1. ASSUME NEW d \in Calls, call'[d].pc = "creating", NEW s \in 1..Len(threads'),
               NEW v \in People, call'[d].with = {v}, IsDirect(s, call[d].by, v)'
        PROVE  {d, threads'[s].maker} \in overlaps'
    <3>1. call[d].pc = "creating" /\ call'[d] = call[d] /\ s \in 1..Len(threads)
      BY <1>5, <1>7, <2>1 DEF Calling
    <3>2. call[d].by \in People
      BY <1>5, <3>1, CallHasFields
    <3>3. PICK u \in People : u = call[d].by /\ IsDirect(s, u, v)'
      BY <2>1, <3>1, <3>2 DEF IsDirect
    <3> QED BY <1>8, <1>10, <2>1, <3>1, <3>3 DEF MakersMeet, ThreadsInv
  <2> QED BY <2>1 DEF MakersMeet
<1>14. /\ \A d \in Calls, s \in Nat : Leaves(d, s) => Leaves(d, s)'
  BY <1>7, LeaversStay
<1>15. RemainingStay'
  <2>1. ASSUME NEW d \in Calls, call'[d].pc = "leaving", NEW x \in call'[d].remaining
        PROVE  \/ x \in threads'[call'[d].thread].members
               \/ \E e \in Calls : Leaves(e, call[d].thread)' /\ {d, e} \in overlaps'
    <3>1. CASE d = c
      BY <1>3, <1>4, <1>5, <1>7, <2>1, <3>1
    <3>2. CASE d # c
      <4>1. call'[d] = call[d] /\ call[d].pc = "leaving" /\ x \in call[d].remaining
        BY <1>7, <2>1, <3>2 DEF Calling
      <4>2. call[d].thread \in 1..Len(threads)
        BY <4>1 DEF ThreadsInv, CallsFit
      <4>3. PICK s \in 1..Len(threads) : s = call[d].thread /\ s = call'[d].thread
        BY <4>1, <4>2
      <4>4. \/ x \in threads[s].members
            \/ \E e \in Calls : Leaves(e, s) /\ {d, e} \in overlaps
        BY <4>1, <4>3 DEF ThreadsInv, RemainingStay
      <4>5. s \in Nat
        BY <1>5
      <4>6. CASE \E e \in Calls : Leaves(e, s) /\ {d, e} \in overlaps
        <5>1. PICK e \in Calls : Leaves(e, s)' /\ {d, e} \in overlaps'
          BY <1>8, <1>14, <4>5, <4>6
        <5> QED BY <4>3, <5>1 DEF Leaves
      <4> QED BY <1>5, <4>3, <4>4, <4>6
    <3> QED BY <3>1, <3>2
  <2> QED BY <2>1 DEF RemainingStay
<1>16. EmptyMeet'
  <2>1. ASSUME NEW s \in 1..Len(threads), threads[s].exists, threads[s].members = {}
        PROVE  \E d, e \in Calls : Leaves(d, s)' /\ Leaves(e, s)' /\ {d, e} \in overlaps'
    <3>1. \E d, e \in Calls : Leaves(d, s) /\ Leaves(e, s) /\ {d, e} \in overlaps
      BY <2>1 DEF ThreadsInv, EmptyMeet
    <3>2. s \in Nat
      BY <1>5
    <3> QED BY <1>8, <1>14, <3>1, <3>2
  <2> QED BY <1>5, <2>1 DEF EmptyMeet
<1> QED BY <1>8, <1>9, <1>11, <1>12, <1>13, <1>15, <1>16 DEF ThreadsInv

\* What the last step of leaving does to the threads: one loses a member, the others stay.
LEMMA LeavingTakesOne ==
  ASSUME ThreadsInv, NEW c \in Calls, CommitLeave(c)
  PROVE  /\ threads' \in Seq(ThreadRow) /\ Len(threads') = Len(threads)
         /\ call[c].thread \in 1..Len(threads) /\ threads[call[c].thread] \in ThreadRow
         /\ \A s \in 1..Len(threads) : s # call[c].thread => threads'[s] = threads[s]
         /\ LET old == threads[call[c].thread]
                new == threads'[call[c].thread]
            IN /\ new.members = old.members \ {call[c].by} /\ new.maker = old.maker
               /\ new.group = old.group
               /\ new.exists <=> old.exists /\ call[c].remaining # {}
<1>1. threads \in Seq(ThreadRow) /\ call[c].pc = "leaving"
  BY DEF ThreadsInv, ThreadsTypeOK, CommitLeave
<1>2. PICK t \in 1..Len(threads) : t = call[c].thread
  BY <1>1 DEF ThreadsInv, CallsFit
<1>3. threads[t] \in ThreadRow /\ Len(threads) \in Nat
  BY <1>1
<1> DEFINE next == [threads[t] EXCEPT !.members = threads[t].members \ {call[c].by},
                           !.exists = threads[t].exists /\ call[c].remaining # {}]
<1>4. /\ next \in ThreadRow /\ next.members = threads[t].members \ {call[c].by}
      /\ next.maker = threads[t].maker /\ next.group = threads[t].group
      /\ next.exists <=> threads[t].exists /\ call[c].remaining # {}
  BY <1>3 DEF ThreadRow
<1>5. threads' = [threads EXCEPT ![t] = next]
  BY <1>2 DEF CommitLeave
<1> HIDE DEF next
<1>6. /\ threads' \in Seq(ThreadRow) /\ Len(threads') = Len(threads)
      /\ \A s \in 1..Len(threads) : s # t => threads'[s] = threads[s]
      /\ threads'[t] = next
  BY <1>1, <1>4, <1>5
<1> QED BY <1>2, <1>3, <1>4, <1>6

\* The thread that nobody stayed in is deleted.
LEMMA CommitLeaveThreadsInv ==
  ASSUME ThreadsInv, NEW c \in Calls, CommitLeave(c)
  PROVE  ThreadsInv'
<1>1. ThreadsTypeOK /\ call[c].pc = "leaving" /\ Running(c) /\ UNCHANGED overlaps
      /\ Len(threads) \in Nat
  BY DEF ThreadsInv, ThreadsTypeOK, CommitLeave, Running
<1> PICK t \in 1..Len(threads) : t = call[c].thread
  BY <1>1 DEF ThreadsInv, CallsFit
<1> PICK by \in People : by = call[c].by
  BY <1>1, CallHasFields
<1>2. /\ threads' \in Seq(ThreadRow) /\ Len(threads') = Len(threads)
      /\ threads[t] \in ThreadRow
      /\ \A s \in 1..Len(threads) : s # t => threads'[s] = threads[s]
      /\ threads'[t].members = threads[t].members \ {by}
      /\ threads'[t].maker = threads[t].maker /\ threads'[t].group = threads[t].group
      /\ threads'[t].exists <=> threads[t].exists /\ call[c].remaining # {}
  BY LeavingTakesOne
<1> DEFINE next == [call[c] EXCEPT !.pc = "done"]
<1>3. next \in Called /\ Becomes(c, next)
  BY <1>1, CallHasFields DEF CommitLeave, Ends
<1>4. /\ next.op = call[c].op /\ next.by = call[c].by /\ next.with = call[c].with
      /\ next.thread = call[c].thread /\ next.pc = "done"
  BY <1>1, CallHasFields DEF Called
<1> HIDE DEF next
<1>5. /\ call' \in CallRows /\ call'[c] = next
      /\ \A d \in Calls \ {c} : call'[d] = call[d]
  BY <1>1, <1>3, CallBecomes
<1>6. Ending(c) /\ call'[c].pc = "done" /\ call'[c].thread = call[c].thread
  BY <1>1, <1>4, <1>5 DEF Ending
<1>7. MeetingsKnown'
  BY <1>6, RecordOfMeetings
<1>8. \A s \in 1..Len(threads) : call'[threads[s].maker] = call[threads[s].maker]
                                 /\ threads'[s].maker = threads[s].maker
                                 /\ threads'[s].members \subseteq threads[s].members
                                 /\ threads'[s].group = threads[s].group
                                 /\ (threads'[s].exists => threads[s].exists)
  <2>1. \A s \in 1..Len(threads) : call'[threads[s].maker] = call[threads[s].maker]
    BY <1>6, MakersRest
  <2> QED BY <1>2, <2>1
\* Two members of a direct thread are the two it is of: nobody has left it.
<1>9. ASSUME NEW s \in 1..Len(threads), NEW u \in People, NEW v \in People, u # v,
             IsDirect(s, u, v)'
      PROVE  IsDirect(s, u, v)
  <2>1. threads[s].exists /\ call[threads[s].maker].op = "direct"
    BY <1>8, <1>9 DEF IsDirect
  <2>2. \E w, x \in People : w # x /\ threads[s].members \subseteq {w, x}
    BY <2>1, DirectIsOfTwo
  <2>3. {u, v} \subseteq threads[s].members
    BY <1>8, <1>9 DEF IsDirect
  <2>4. threads[s].members = {u, v}
    BY <1>9, <2>2, <2>3
  <2> QED BY <2>1, <2>4 DEF IsDirect
<1>10. ThreadsTypeOK'
  BY <1>1, <1>2, <1>5 DEF ThreadsTypeOK
<1>11. CallsFit'
  BY <1>1, <1>2, <1>4, <1>5 DEF CallsFit, ThreadsInv
<1>12. ThreadsHaveMakers'
  <2>1. \A s \in 1..Len(threads) : MadeBy(s)
    BY DEF ThreadsInv, ThreadsHaveMakers
  <2>2. ASSUME NEW s \in 1..Len(threads) PROVE MadeBy(s)'
    BY <1>8, <2>1 DEF MadeBy
  <2> QED BY <1>2, <2>2 DEF ThreadsHaveMakers
<1>13. MakersMeet'
  <2>1. ASSUME NEW d \in Calls, call'[d].pc = "creating", NEW s \in 1..Len(threads'),
               NEW v \in People, call'[d].with = {v}, IsDirect(s, call[d].by, v)'
        PROVE  {d, threads'[s].maker} \in overlaps'
    <3>1. call[d].pc = "creating" /\ call'[d] = call[d] /\ s \in 1..Len(threads)
      BY <1>2, <1>4, <1>5, <2>1
    <3>2. call[d].by \in People
      BY <1>1, <3>1, CallHasFields
    <3>3. PICK u \in People : u = call[d].by /\ IsDirect(s, u, v)'
      BY <2>1, <3>1, <3>2 DEF IsDirect
    <3>4. u # v
      BY <2>1, <3>1, <3>3 DEF CallsFit, ThreadsInv
    <3>5. IsDirect(s, u, v)
      BY <1>9, <3>1, <3>3, <3>4
    <3> QED BY <1>1, <1>8, <2>1, <3>1, <3>3, <3>5 DEF MakersMeet, ThreadsInv
  <2> QED BY <2>1 DEF MakersMeet
<1>14. TwinsMeet'
  BY <1>1, <1>2, <1>8, <1>9 DEF TwinsMeet, ThreadsInv
<1>15. /\ \A d \in Calls, s \in Nat : Leaves(d, s) => Leaves(d, s)'
  BY <1>6, LeaversStay
<1>16. Leaves(c, t) /\ Leaves(c, t)'
  BY <1>1, <1>4, <1>5 DEF Leaves, CallsFit, ThreadsInv
<1>17. RemainingStay'
  <2>1. ASSUME NEW d \in Calls, call'[d].pc = "leaving", NEW x \in call'[d].remaining
        PROVE  \/ x \in threads'[call'[d].thread].members
               \/ \E e \in Calls : Leaves(e, call[d].thread)' /\ {d, e} \in overlaps'
    <3>1. d # c /\ call'[d] = call[d] /\ call[d].pc = "leaving" /\ x \in call[d].remaining
      BY <1>4, <1>5, <2>1
    <3>2. PICK s \in 1..Len(threads) : s = call[d].thread /\ s = call'[d].thread
      BY <3>1 DEF ThreadsInv, CallsFit
    <3>3. \/ x \in threads[s].members
          \/ \E e \in Calls : Leaves(e, s) /\ {d, e} \in overlaps
      BY <3>1, <3>2 DEF ThreadsInv, RemainingStay
    <3>4. CASE \E e \in Calls : Leaves(e, s) /\ {d, e} \in overlaps
      <4>1. PICK e \in Calls : Leaves(e, s) /\ {d, e} \in overlaps
        BY <3>4
      <4>2. Leaves(e, s)'
        BY <1>1, <1>15, <4>1
      <4> QED BY <1>1, <3>2, <4>1, <4>2 DEF Leaves
    <3>5. CASE x \in threads[s].members /\ (s # t \/ x # by)
      BY <1>2, <3>2, <3>5
    <3>6. CASE s = t /\ x = by
      <4>1. {d, c} \in overlaps'
        BY <1>1, <3>1 DEF MeetingsKnown, ThreadsInv, Running
      <4> QED BY <1>16, <3>2, <3>6, <4>1 DEF Leaves
    <3> QED BY <3>3, <3>4, <3>5, <3>6
  <2> QED BY <2>1 DEF RemainingStay
<1>18. EmptyMeet'
  <2>1. ASSUME NEW s \in 1..Len(threads), threads'[s].exists, threads'[s].members = {}
        PROVE  \E d, e \in Calls : Leaves(d, s)' /\ Leaves(e, s)' /\ {d, e} \in overlaps'
    <3>1. CASE threads[s].exists /\ threads[s].members = {}
      <4>1. PICK d \in Calls, e \in Calls :
               Leaves(d, s) /\ Leaves(e, s) /\ {d, e} \in overlaps
        BY <3>1 DEF ThreadsInv, EmptyMeet
      <4>2. Leaves(d, s)' /\ Leaves(e, s)'
        BY <1>1, <1>15, <4>1
      <4> QED BY <1>1, <4>1, <4>2
    <3>2. CASE s = t /\ threads[t].exists
      <4>1. PICK x \in call[c].remaining : TRUE
        BY <1>2, <2>1, <3>2
      <4>2. x # by
        BY <1>1, <4>1 DEF CallsFit, ThreadsInv
      <4>3. x \notin threads[t].members
        BY <1>2, <2>1, <3>2, <4>2
      <4>4. PICK e \in Calls : Leaves(e, t) /\ {c, e} \in overlaps
        BY <1>1, <4>1, <4>3 DEF RemainingStay, ThreadsInv
      <4>5. Leaves(e, t)'
        BY <1>1, <1>15, <4>4
      <4> QED BY <1>1, <1>16, <3>2, <4>4, <4>5
    <3> QED BY <1>2, <2>1, <3>1, <3>2
  <2> QED BY <1>2, <2>1 DEF EmptyMeet
<1> QED BY <1>7, <1>10, <1>11, <1>12, <1>13, <1>14, <1>17, <1>18 DEF ThreadsInv

\* There is no thread at first.
LEMMA InitThreadsInv == ThreadsInit => ThreadsInv
<1> SUFFICES ASSUME ThreadsInit PROVE ThreadsInv
  OBVIOUS
<1>1. /\ threads = <<>> /\ overlaps = {} /\ Len(threads) = 0 /\ threads \in Seq(ThreadRow)
      /\ call \in CallRows /\ \A c \in Calls : call[c].pc = "new"
  BY DEF ThreadsInit, CallRows
<1>2. 1..Len(threads) = {}
  BY <1>1
<1>3. ThreadsTypeOK
  BY <1>1 DEF ThreadsTypeOK
<1>4. CallsFit /\ MeetingsKnown /\ MakersMeet /\ RemainingStay
  BY <1>1 DEF CallsFit, MeetingsKnown, MakersMeet, RemainingStay, Running
<1>5. ThreadsHaveMakers /\ TwinsMeet /\ EmptyMeet
  BY <1>2 DEF ThreadsHaveMakers, TwinsMeet, EmptyMeet
<1> QED BY <1>3, <1>4, <1>5 DEF ThreadsInv

\* Every step keeps what the threads rest on.
LEMMA NextThreadsInv == ThreadsInv /\ [ThreadsNext]_threadVars => ThreadsInv'
<1> SUFFICES ASSUME ThreadsInv, [ThreadsNext]_threadVars PROVE ThreadsInv'
  OBVIOUS
<1>1. CASE ThreadsNext
  BY <1>1, CreateThreadsInv, DirectThreadsInv, CreateDirectThreadsInv, LeaveThreadsInv,
     CommitLeaveThreadsInv, AbortThreadsInv DEF ThreadsNext
<1>2. CASE UNCHANGED threadVars
  <2>1. UNCHANGED <<threads, call, overlaps>>
    BY <1>2 DEF threadVars
  <2>2. ThreadsTypeOK' /\ CallsFit'
    BY <2>1 DEF ThreadsInv, ThreadsTypeOK, CallsFit
  <2>3. MeetingsKnown'
    BY <2>1 DEF ThreadsInv, MeetingsKnown, Running
  <2>4. ThreadsHaveMakers'
    BY <2>1 DEF ThreadsInv, ThreadsHaveMakers, MadeBy
  <2>5. \A t \in 1..Len(threads), u, v \in People : IsDirect(t, u, v)' <=> IsDirect(t, u, v)
    BY <2>1 DEF IsDirect
  <2>7. MakersMeet'
    BY <2>1 DEF ThreadsInv, MakersMeet, IsDirect
  <2>8. TwinsMeet'
    BY <2>1, <2>5 DEF ThreadsInv, TwinsMeet
  <2>6. RemainingStay' /\ EmptyMeet'
    BY <2>1 DEF ThreadsInv, RemainingStay, EmptyMeet, Leaves
  <2> QED BY <2>2, <2>3, <2>4, <2>6, <2>7, <2>8 DEF ThreadsInv
<1> QED BY <1>1, <1>2

\* What is known of the threads says that they are kept.
LEMMA KeptByThreadsInv == ThreadsInv => ThreadsAreKept
<1> SUFFICES ASSUME ThreadsInv PROVE ThreadsAreKept
  OBVIOUS
<1>1. ASSUME NEW t \in 1..Len(threads), NEW s \in 1..Len(threads), t # s,
             threads[t].exists, threads[s].exists, threads[t].members = threads[s].members,
             Cardinality(threads[t].members) = 2,
             call[threads[t].maker].op = "direct", call[threads[s].maker].op = "direct"
      PROVE  {threads[t].maker, threads[s].maker} \in overlaps
  <2>1. PICK u \in People, v \in People : u # v /\ threads[t].members \subseteq {u, v}
    BY <1>1, DirectIsOfTwo
  <2>2. threads[t].members = {u, v}
    <3>1. IsFiniteSet({u, v}) /\ Cardinality({u, v}) = 2
      <4>1. IsFiniteSet({u}) /\ Cardinality({u}) = 1
        BY FS_Singleton
      <4>2. {u} \cup {v} = {u, v} /\ v \notin {u}
        BY <2>1
      <4>3. PICK x : x = {u}
        OBVIOUS
      <4>4. IsFiniteSet(x \cup {v})
            /\ Cardinality(x \cup {v}) =
                  IF v \in x THEN Cardinality(x) ELSE Cardinality(x) + 1
        BY <4>1, <4>3, FS_AddElement
      <4>5. v \notin x /\ Cardinality(x) = 1 /\ x \cup {v} = {u, v}
        BY <4>1, <4>2, <4>3
      <4>6. Cardinality(x \cup {v}) = 2
        BY <4>4, <4>5
      <4> QED BY <4>4, <4>5, <4>6
    <3>2. threads[t].members \in SUBSET {u, v}
      BY <2>1
    <3>3. Cardinality({u, v}) = Cardinality(threads[t].members) =>
             {u, v} = threads[t].members
      BY <3>1, <3>2, FS_Subset
    <3> QED BY <1>1, <3>1, <3>3
  <2>3. IsDirect(t, u, v) /\ IsDirect(s, u, v)
    BY <1>1, <2>2 DEF IsDirect
  <2> QED BY <1>1, <2>1, <2>3 DEF ThreadsInv, TwinsMeet
<1>2. OneDirectThread
  BY <1>1 DEF OneDirectThread
<1>3. EmptyOnlyByOverlap
  <2>1. ASSUME NEW t \in 1..Len(threads), threads[t].exists, threads[t].members = {}
        PROVE  \E pair \in overlaps :
                  \A c \in pair : call[c].op = "leave" /\ call[c].thread = t
    <3>1. PICK c \in Calls, d \in Calls : Leaves(c, t) /\ Leaves(d, t) /\ {c, d} \in overlaps
      BY <2>1 DEF ThreadsInv, EmptyMeet
    <3>2. \A e \in {c, d} : call[e].op = "leave" /\ call[e].thread = t
      BY <3>1 DEF Leaves
    <3> QED BY <3>1, <3>2
  <2> QED BY <2>1 DEF EmptyOnlyByOverlap
<1> QED BY <1>2, <1>3 DEF ThreadsAreKept

\* Two users have two direct threads, and a thread nobody is in stays, only when the
\* requests that made or left them overlapped (apps/messaging): for any number of users and
\* of requests, and any order of creating, opening and leaving threads.
THEOREM ThreadsStayKept == ThreadsSpec => []ThreadsAreKept
BY InitThreadsInv, NextThreadsInv, KeptByThreadsInv, PTL DEF ThreadsSpec

-----------------------------------------------------------------------------
(***************************************************************************)
(* Checkout: that coins stand for money rests on two records that agree:   *)
(* "paid" is announced of payments that were made and never taken back,    *)
(* and an event is minted exactly when its payment's coins exist.          *)
(***************************************************************************)
CheckoutSpec == CheckoutInit /\ [][CheckoutNext]_checkoutVars

CheckoutTypeOK ==
    /\ payment \in [Payments -> {"none", "pending", "paid", "failed", "awaited", "late"}]
    /\ event \in [Payments -> {"absent", "received", "failed", "minted"}]
    /\ coins \in [Payments -> Nat]

\* What was announced as paid is paid.
PaidIsTrue == \A p \in Payments : <<p, "paid">> \in told => payment[p] = "paid"

\* An event is minted when its coins exist, and then they exist once.
MintedOnce ==
    \A p \in Payments : IF event[p] = "minted" THEN coins[p] = 1 ELSE coins[p] = 0

\* Coins were minted of payments made in full.
MintedIsPaid ==
    \A p \in Payments : event[p] = "minted" => payment[p] = "paid" /\ p \notin short

CheckoutInv == CheckoutTypeOK /\ PaidIsTrue /\ MintedOnce /\ MintedIsPaid

LEMMA InitCheckoutInv == CheckoutInit => CheckoutInv
BY DEF CheckoutInit, CheckoutInv, CheckoutTypeOK, PaidIsTrue, MintedOnce, MintedIsPaid

\* What the provider announces changes no coins, and a payment that is paid stays so.
LEMMA AnnounceKeepsInv ==
    ASSUME CheckoutInv, NEW p \in Payments, NEW here, NEW there, NEW status,
           Announce(p, here, there, status),
           here # "paid", there \in {"pending", "paid", "failed", "awaited", "late"},
           status = "paid" => there = "paid",
           short' = short \/ (short' = short \cup {p} /\ here = "pending")
    PROVE  CheckoutInv'
<1> USE DEF CheckoutInv, CheckoutTypeOK, PaidIsTrue, MintedOnce, MintedIsPaid
<1>1. payment[p] # "paid" /\ event[p] # "minted"
  BY DEF Announce
<1>2. CheckoutTypeOK' /\ MintedOnce'
  BY DEF Announce
<1>3. \A q \in Payments : q # p => payment'[q] = payment[q]
  BY DEF Announce
<1>4. PaidIsTrue'
  <2> SUFFICES ASSUME NEW q \in Payments, <<q, "paid">> \in told' PROVE payment'[q] = "paid"
    OBVIOUS
  <2>1. CASE q = p
    BY <1>1, <2>1 DEF Announce
  <2>2. CASE q # p
    BY <1>3, <2>2 DEF Announce
  <2> QED BY <2>1, <2>2
<1>5. MintedIsPaid'
  BY <1>1, <1>3 DEF Announce
<1> QED BY <1>2, <1>4, <1>5

\* A delivery that says paid says so of a payment that is.
LEMMA SaidPaidIsPaid ==
    ASSUME CheckoutInv, NEW p \in Payments, Says(p, "paid")
    PROVE  payment[p] = "paid"
BY DEF CheckoutInv, PaidIsTrue, Says, Carried, Fetched

\* A delivery mints a payment that has no coins, was paid, and over the right amount.
LEMMA DeliverKeepsInv ==
    ASSUME CheckoutInv, NEW p \in Payments, NEW status \in {"pending", "paid", "failed", "unpaid"},
           Deliver(p, status)
    PROVE  CheckoutInv'
<1> USE DEF CheckoutInv, CheckoutTypeOK, PaidIsTrue, MintedOnce, MintedIsPaid
<1>1. UNCHANGED <<payment, short, told>> /\ p \notin short
  BY DEF Deliver, Matches
<1>2. CASE event[p] = "minted" /\ Repeat(p)
  BY <1>1, <1>2 DEF Repeat
<1>3. CASE event[p] # "minted" /\ (Refuse(p, status) \/ Skip(p, status) \/ RefuseMint(p, status))
  BY <1>1, <1>3 DEF Refuse, Skip, RefuseMint, Recorded
<1>4. CASE event[p] # "minted" /\ IsPaid(status) /\ Mint(p)
  <2>1. payment[p] = "paid"
    BY <1>4, SaidPaidIsPaid DEF Deliver, IsPaid
  <2> QED BY <1>1, <1>4, <2>1 DEF Mint
<1> QED
  BY <1>2, <1>3, <1>4 DEF Deliver

LEMMA NextCheckoutInv == CheckoutInv /\ [CheckoutNext]_checkoutVars => CheckoutInv'
<1> SUFFICES ASSUME CheckoutInv, [CheckoutNext]_checkoutVars PROVE CheckoutInv'
  OBVIOUS
<1>1. ASSUME UNCHANGED <<payment, short, told, event, coins>> PROVE CheckoutInv'
  BY <1>1 DEF CheckoutInv, CheckoutTypeOK, PaidIsTrue, MintedOnce, MintedIsPaid
<1>2. CASE Switch \/ ToggleAccount
  BY <1>1, <1>2 DEF Switch, ToggleAccount
<1>3. ASSUME NEW c \in Checkouts,
             \/ CreateCheckout(c) \/ OpenSession(c) \/ OpenInvoice(c) \/ GiveReference(c)
             \/ SaveReference(c)
      PROVE  CheckoutInv'
  BY <1>1, <1>3 DEF CreateCheckout, OpenSession, OpenInvoice, GiveReference, Opens, SaveReference
<1>4. ASSUME NEW p \in Payments,
             StartPayment(p) \/ Decline(p) \/ CompleteUnpaid(p) \/ ArriveLate(p)
      PROVE  CheckoutInv'
  <2>1. CASE StartPayment(p)
    BY <2>1, AnnounceKeepsInv DEF StartPayment
  <2>2. CASE Decline(p)
    BY <2>2, AnnounceKeepsInv DEF Decline
  <2>3. CASE CompleteUnpaid(p)
    BY <2>3, AnnounceKeepsInv DEF CompleteUnpaid
  <2>4. CASE ArriveLate(p)
    BY <2>4, AnnounceKeepsInv DEF ArriveLate
  <2> QED BY <1>4, <2>1, <2>2, <2>3, <2>4
<1>5. ASSUME NEW p \in Payments, NEW exact \in BOOLEAN, Settle(p, exact)
      PROVE  CheckoutInv'
  BY <1>5, AnnounceKeepsInv DEF Settle
<1>6. ASSUME NEW p \in Payments, NEW status \in {"pending", "paid", "failed", "unpaid"},
             Deliver(p, status)
      PROVE  CheckoutInv'
  BY <1>6, DeliverKeepsInv
<1>7. CASE UNCHANGED checkoutVars
  BY <1>1, <1>7 DEF checkoutVars
<1> QED
  BY <1>2, <1>3, <1>4, <1>5, <1>6, <1>7 DEF CheckoutNext

\* Every coin minted for a checkout is for a payment made in full, and every payment is
\* minted at most once, in whatever order and however often the statuses of all
\* payments of all checkouts are delivered.
THEOREM CoinsStandForMoney == CheckoutSpec => []CoinsMatchMoney
<1>1. CheckoutInv => CoinsMatchMoney
  BY DEF CheckoutInv, MintedOnce, MintedIsPaid, CoinsMatchMoney
<1> QED
  BY <1>1, InitCheckoutInv, NextCheckoutInv, PTL DEF CheckoutSpec

\* A mint is never taken back or repeated: later statuses of the payment, or of another
\* payment of the checkout, leave the coins that exist as they are.
MintsAreFinal == [][\A p \in Payments : coins[p] = 1 => coins'[p] = 1]_coins

THEOREM CoinsAreFinal == CheckoutSpec => MintsAreFinal
<1>1. CheckoutInv /\ CheckoutInv' /\ [CheckoutNext]_checkoutVars
          => [\A p \in Payments : coins[p] = 1 => coins'[p] = 1]_coins
  <2> SUFFICES ASSUME CheckoutInv, CheckoutInv', CheckoutNext,
                      NEW p \in Payments, coins[p] = 1
               PROVE  coins'[p] = 1
    BY DEF checkoutVars
  <2>1. event[p] = "minted"
    BY DEF CheckoutInv, MintedOnce
  <2>2. event'[p] = "minted"
    BY <2>1 DEF CheckoutNext, CheckoutInv, CheckoutTypeOK, Switch, ToggleAccount,
       CreateCheckout, OpenSession, OpenInvoice, GiveReference, Opens, SaveReference,
       StartPayment, Decline, CompleteUnpaid, ArriveLate, Settle, Announce, Deliver, Repeat,
       Refuse, Skip, RefuseMint, Recorded, Mint
  <2> QED BY <2>2 DEF CheckoutInv, MintedOnce
<1> QED
  BY <1>1, InitCheckoutInv, NextCheckoutInv, PTL DEF CheckoutSpec, MintsAreFinal

-----------------------------------------------------------------------------
(***************************************************************************)
(* Mentor: a session that shows no pair has a question that is to be       *)
(* answered yet, or over which somebody died; who replies has looked for a *)
(* reply, and nobody else is at work on the question; a prompt has what    *)
(* was stored before its question; and of two questions that are not in    *)
(* the memory of each other the later to be saved is the witness for what  *)
(* the earlier loses.                                                      *)
(***************************************************************************)
MentorSpec == MentorInit /\ [][MentorNext]_mentorVars

Messages == [of : Questions, role : {"user", "mentor"}]
Pairs == [kind : QuestionKinds, question : SUBSET Questions, answer : SUBSET Questions]

\* Where a question can be: before it has a session, with one, in the talk, at its end.
Early == {"new", "async", "sync", "live"}
Spoken == {"enqueued", "told", "failed", "said", "streaming", "streamed", "answered"}
AskedStates == Early \cup Spoken \cup {"entered", "opened", "saved"}
Settled == {"saved", "answered", "failed"}
AskedRows == [Questions -> [pc : AskedStates, kind : QuestionKinds, session : Nat]]
Somebody == CHOOSE q \in Questions : TRUE
WorkerRows ==
    [Workers -> [pc : {"idle", "calling", "saved"}, question : Questions \cup {Somebody}]]

MentorTypeOK ==
    /\ sessions \in Seq(Pairs)
    /\ asked \in AskedRows
    /\ talk \in Seq(Messages)
    /\ heard \in [Questions -> SUBSET Messages]
    /\ memory \in SUBSET Messages
    /\ queued \in [Questions -> Nat]
    /\ delivered \in [Questions -> Nat]
    /\ worker \in WorkerRows
    /\ doubled \in SUBSET Questions
    /\ abandoned \in SUBSET Questions

\* A question of each kind takes the way of its kind; who has a session has one of his kind.
QuestionFits(q) ==
    /\ delivered[q] > 0 =>
          /\ asked[q].pc \in {"enqueued", "told", "failed"}
          /\ KindOf(q) # "ask" /\ asked[q].session # 0
    /\ asked[q].pc \in {"enqueued", "told"} \/ queued[q] > 0 => delivered[q] > 0
    /\ asked[q].pc \in {"live", "opened", "said", "streaming", "streamed"} => KindOf(q) = "chat"
    /\ asked[q].pc \in {"opened", "said", "streaming", "streamed", "entered"} =>
          asked[q].session # 0
    /\ asked[q].pc \in {"async", "entered"} => KindOf(q) # "ask"
    /\ asked[q].session # 0 =>
          /\ asked[q].session \in 1..Len(sessions)
          /\ sessions[asked[q].session].kind = KindOf(q)
    /\ q \in abandoned => asked[q].pc = "failed" \/ delivered[q] > 0
QuestionsFit == \A q \in Questions : QuestionFits(q)

\* A worker is at work on a question that was handed to the broker.
Serves(w, q) == worker[w].pc # "idle" /\ worker[w].question = q
WorkersFit ==
    \A w \in Workers : worker[w].pc # "idle" =>
        worker[w].question \in Questions /\ delivered[worker[w].question] > 0

\* A message is of a question that has come so far; its own message comes first.
TalkFits ==
    /\ \A i \in 1..Len(talk) :
          /\ asked[talk[i].of].pc \in Spoken
          /\ talk[i].role = "mentor" =>
                \/ delivered[talk[i].of] > 0
                \/ asked[talk[i].of].pc \in {"streamed", "answered"}
    /\ \A i, j \in 1..Len(talk) :
          i < j /\ talk[j].role = "user" => talk[i].of # talk[j].of

\* One worker at a time, and one that finds no reply, unless two have run at once.
RepliedOnce(q) ==
    /\ \A v, w \in Workers : Serves(v, q) /\ Serves(w, q) => v = w
    /\ \A w \in Workers : Serves(w, q) => ~Said(q, "mentor")
    /\ \A i, j \in 1..Len(talk) :
          talk[i] = Message(q, "mentor") /\ talk[j] = Message(q, "mentor") => i = j
RepliesFollow == \A q \in Questions \ doubled : KindOf(q) # "chart" => RepliedOnce(q)

\* A prompt was made when there is a reply to it, and by who is at work on one.
Prompted(q) ==
    \/ Said(q, "mentor")
    \/ \E w \in Workers : Serves(w, q)
    \/ asked[q].pc \in {"streaming", "streamed"}
HasHeard(i, q) ==
    asked[talk[i].of].session = asked[q].session /\ KindOf(q) # "chart"
    /\ asked[q].pc # "answered" /\ Prompted(q) => talk[i] \in heard[q]
PromptsFollow ==
    \A q \in Questions : \A i, j \in 1..Len(talk) :
        i < j /\ talk[j] = Message(q, "user") => HasHeard(i, q)

\* The memory, and what was read of it, is of questions whose answer was saved.
WasSaved(messages) ==
    \A m \in messages : m.role = "user" /\ KindOf(m.of) = "ask" /\ asked[m.of].pc \in Settled
MemoryFits ==
    /\ WasSaved(memory)
    /\ \A q \in Questions : KindOf(q) = "ask" => WasSaved(heard[q])
    /\ ForgottenOnlyByOverlap

\* A question that is to be answered yet, or whose request or worker has died.
Owing(q) ==
    \/ q \in abandoned
    \/ asked[q].pc = "entered"
    \/ /\ ~Said(q, "mentor")
       /\ \A w \in Workers : Serves(w, q) => worker[w].pc = "calling"
       /\ queued[q] > 0 \/ \E w \in Workers : Serves(w, q)

\* A session that does not show a pair has such a question.
PairsFollow ==
    \A s \in 1..Len(sessions) :
        \/ sessions[s].kind = "chat"
        \/ sessions[s].question = sessions[s].answer
        \/ \E q \in Questions : asked[q].session = s /\ Owing(q)

MentorInv ==
    /\ MentorTypeOK /\ QuestionsFit /\ WorkersFit /\ TalkFits
    /\ RepliesFollow /\ PromptsFollow /\ MemoryFits /\ PairsFollow

-----------------------------------------------------------------------------
\* A step is of one question: what belongs to others stays, and messages are added at the end.
TalkGrows(q) ==
    /\ Len(talk) <= Len(talk')
    /\ \A i \in 1..Len(talk) : talk'[i] = talk[i]
    /\ \A i \in 1..Len(talk') : i > Len(talk) => talk'[i].of = q
Apart(q) ==
    /\ \A r \in Questions \ {q} :
          /\ asked'[r] = asked[r] /\ heard'[r] = heard[r]
          /\ queued'[r] = queued[r] /\ delivered'[r] = delivered[r]
    /\ abandoned' \in {abandoned, abandoned \cup {q}}
    /\ doubled' \in {doubled, doubled \cup {q}}
    /\ \A w \in Workers :
          \/ worker'[w] = worker[w]
          \/ worker'[w].question = q /\ (worker[w].pc = "idle" \/ worker[w].question = q)
    /\ TalkGrows(q)

\* The question itself goes its way and does not turn back.
Onward(q) ==
    /\ asked'[q].kind = asked[q].kind
    /\ asked'[q].session = asked[q].session \/ asked[q].pc \in {"new", "async", "live"}
    /\ asked[q].pc \in Spoken => asked'[q].pc \in Spoken
    /\ asked[q].pc \in Settled => asked'[q].pc \in Settled
    /\ asked[q].pc \in {"streamed", "answered"} => asked'[q].pc \in {"streamed", "answered"}
    /\ delivered'[q] >= delivered[q]
    /\ Len(sessions) <= Len(sessions')
    /\ \A s \in 1..Len(sessions) : sessions'[s].kind = sessions[s].kind

\* What is left to show of the question itself.
OwnWorkers(q) == worker' = worker \/ delivered'[q] > 0
OwnMessages(q) ==
    \A i \in 1..Len(talk') : i > Len(talk) =>
        /\ asked'[q].pc \in Spoken
        /\ talk'[i].role = "mentor" =>
              delivered'[q] > 0 \/ asked'[q].pc \in {"streamed", "answered"}
        /\ talk'[i].role = "user" => asked[q].pc \notin Spoken /\ i = Len(talk) + 1
OwnReply(q) == q \notin doubled' /\ asked'[q].kind # "chart" => RepliedOnce(q)'
OwnPrompt(q) ==
    \/ asked'[q].pc = "answered" \/ asked'[q].kind = "chart" \/ ~Prompted(q)'
    \/ /\ Prompted(q) /\ heard'[q] = heard[q] /\ asked[q].pc # "answered"
       /\ \A i \in 1..Len(talk') : i > Len(talk) => talk'[i].role = "mentor"
    \/ /\ talk' = talk /\ asked'[q].session = asked[q].session /\ asked[q].session # 0
       /\ heard'[q] = History(q, asked[q].session)
OwnMemory(q) ==
    /\ memory' = memory
    /\ asked'[q].kind = "ask" =>
          /\ heard'[q] = heard[q] \/ (asked[q].pc = "new" /\ heard'[q] = memory)
          /\ asked'[q].pc \in {"saved", "answered"} => asked[q].pc \in {"saved", "answered"}
OwnPair(q) ==
    \A s \in 1..Len(sessions') :
        \/ sessions'[s].kind = "chat"
        \/ sessions'[s].question = sessions'[s].answer
        \/ asked'[q].session = s /\ Owing(q)'
        \/ /\ s \in 1..Len(sessions) /\ sessions'[s] = sessions[s]
           /\ asked[q].session = s /\ Owing(q) => asked'[q].session = s /\ Owing(q)'

\* What others were told stays.
LEMMA SaidFollows ==
    ASSUME MentorTypeOK, NEW q \in Questions, TalkGrows(q), NEW r \in Questions \ {q}, NEW role
    PROVE  Said(r, role)' = Said(r, role)
<1> USE DEF TalkGrows, Said, Message, MentorTypeOK
<1>1. ASSUME NEW i \in 1..Len(talk), talk[i] = Message(r, role)
      PROVE  i \in 1..Len(talk') /\ talk'[i] = Message(r, role)
  <2>1. Len(talk) \in Nat /\ i \in 1..Len(talk')
    OBVIOUS
  <2> QED BY <1>1, <2>1
<1>2. ASSUME NEW i \in 1..Len(talk'), talk'[i] = Message(r, role)
      PROVE  i \in 1..Len(talk) /\ talk[i] = Message(r, role)
  <2>1. talk'[i].of = r
    BY <1>2
  <2>2. ~(i > Len(talk))
    BY <2>1
  <2>3. i \in 1..Len(talk)
    BY <2>2
  <2> QED BY <1>2, <2>3
<1> QED BY <1>1, <1>2

\* The workers: a step of one question leaves those of the others alone.
LEMMA FrameWorkers ==
    ASSUME MentorTypeOK, MentorTypeOK', WorkersFit, NEW q \in Questions,
           Apart(q), Onward(q), OwnWorkers(q)
    PROVE  WorkersFit'
<1> SUFFICES ASSUME NEW w \in Workers, worker'[w].pc # "idle"
             PROVE  /\ worker'[w].question \in Questions
                    /\ delivered'[worker'[w].question] > 0
  BY DEF WorkersFit
<1>1. ASSUME NEW r \in Questions, delivered[r] > 0 PROVE delivered'[r] > 0
  <2>1. delivered[r] \in Nat /\ delivered'[r] \in Nat
    BY DEF MentorTypeOK
  <2>2. delivered'[r] >= delivered[r]
    BY <2>1 DEF Apart, Onward
  <2> QED BY <1>1, <2>1, <2>2
<1>2. CASE worker'[w] = worker[w]
  BY <1>1, <1>2 DEF WorkersFit
<1>3. CASE worker'[w] # worker[w]
  BY <1>3 DEF Apart, OwnWorkers
<1> QED BY <1>2, <1>3

\* The talk.
LEMMA FrameTalk ==
    ASSUME MentorTypeOK, MentorTypeOK', TalkFits, NEW q \in Questions,
           Apart(q), Onward(q), OwnMessages(q)
    PROVE  TalkFits'
<1>1. Len(talk) \in Nat /\ Len(talk') \in Nat /\ \A i \in 1..Len(talk) : talk[i] \in Messages
  BY DEF MentorTypeOK
<1>2. ASSUME NEW i \in 1..Len(talk)
      PROVE  /\ asked'[talk[i].of].pc \in Spoken
             /\ talk[i].role = "mentor" => \/ delivered'[talk[i].of] > 0
                                          \/ asked'[talk[i].of].pc \in {"streamed", "answered"}
  <2>1. talk[i].of \in Questions
    BY <1>1 DEF Messages
  <2>2. CASE talk[i].of = q
    BY <2>2 DEF TalkFits, Onward, MentorTypeOK
  <2>3. CASE talk[i].of # q
    BY <2>1, <2>3 DEF TalkFits, Apart
  <2> QED BY <2>2, <2>3
<1>3. ASSUME NEW i \in 1..Len(talk')
      PROVE  /\ asked'[talk'[i].of].pc \in Spoken
             /\ talk'[i].role = "mentor" => \/ delivered'[talk'[i].of] > 0
                                           \/ asked'[talk'[i].of].pc \in {"streamed", "answered"}
  <2>1. CASE i > Len(talk)
    BY <2>1 DEF Apart, TalkGrows, OwnMessages
  <2>2. CASE ~(i > Len(talk))
    <3>1. i \in 1..Len(talk) /\ talk'[i] = talk[i]
      BY <1>1, <2>2 DEF Apart, TalkGrows
    <3> QED BY <1>2, <3>1
  <2> QED BY <2>1, <2>2
<1>4. ASSUME NEW i \in 1..Len(talk'), NEW j \in 1..Len(talk'), i < j, talk'[j].role = "user"
      PROVE  talk'[i].of # talk'[j].of
  <2>1. CASE j > Len(talk)
    <3>1. talk'[j].of = q /\ asked[q].pc \notin Spoken /\ j = Len(talk) + 1
      BY <1>4, <2>1 DEF Apart, TalkGrows, OwnMessages
    <3>2. i \in 1..Len(talk)
      BY <1>1, <1>4, <3>1
    <3>3. talk'[i] = talk[i] /\ asked[talk[i].of].pc \in Spoken
      BY <3>2 DEF Apart, TalkGrows, TalkFits
    <3> QED BY <3>1, <3>3
  <2>2. CASE ~(j > Len(talk))
    <3>1. i \in 1..Len(talk) /\ j \in 1..Len(talk)
      BY <1>1, <1>4, <2>2
    <3>2. talk'[i] = talk[i] /\ talk'[j] = talk[j]
      BY <3>1 DEF Apart, TalkGrows
    <3> QED BY <1>4, <3>1, <3>2 DEF TalkFits
  <2> QED BY <2>1, <2>2
<1> QED BY <1>3, <1>4 DEF TalkFits

\* The replies.
LEMMA FrameReplies ==
    ASSUME MentorTypeOK, MentorTypeOK', RepliesFollow, NEW q \in Questions,
           Apart(q), Onward(q), OwnReply(q)
    PROVE  RepliesFollow'
<1> SUFFICES ASSUME NEW r \in Questions, r \notin doubled', asked'[r].kind # "chart"
             PROVE  RepliedOnce(r)'
  BY DEF RepliesFollow, KindOf
<1>1. CASE r = q
  BY <1>1 DEF OwnReply
<1>2. CASE r # q
  <2>1. RepliedOnce(r)
    BY <1>2 DEF RepliesFollow, Apart, KindOf
  <2>2. \A w \in Workers : Serves(w, r)' => Serves(w, r)
    BY <1>2 DEF Apart, Serves
  <2>3. Said(r, "mentor")' = Said(r, "mentor")
    BY <1>2, SaidFollows DEF Apart
  <2>4. ASSUME NEW i \in 1..Len(talk'), NEW j \in 1..Len(talk'),
               talk'[i] = Message(r, "mentor"), talk'[j] = Message(r, "mentor")
        PROVE  i = j
    <3>1. talk'[i].of = r /\ talk'[j].of = r
      BY <2>4 DEF Message
    <3>2. ~(i > Len(talk)) /\ ~(j > Len(talk))
      BY <1>2, <3>1 DEF Apart, TalkGrows
    <3>3. i \in 1..Len(talk) /\ j \in 1..Len(talk)
      BY <3>2 DEF MentorTypeOK
    <3>4. talk[i] = talk'[i] /\ talk[j] = talk'[j]
      BY <3>3 DEF Apart, TalkGrows
    <3> QED BY <2>1, <2>4, <3>3, <3>4 DEF RepliedOnce
  <2>5. \A v, w \in Workers : Serves(v, r)' /\ Serves(w, r)' => v = w
    BY <2>1, <2>2 DEF RepliedOnce
  <2>6. \A w \in Workers : Serves(w, r)' => ~Said(r, "mentor")'
    BY <2>1, <2>2, <2>3 DEF RepliedOnce
  <2>7. Message(r, "mentor")' = Message(r, "mentor")
    BY DEF Message
  <2> QED BY <2>4, <2>5, <2>6, <2>7 DEF RepliedOnce
<1> QED BY <1>1, <1>2

\* The ways of the questions.
LEMMA FrameQuestions ==
    ASSUME MentorTypeOK, MentorTypeOK', QuestionsFit, NEW q \in Questions,
           Apart(q), Onward(q), QuestionFits(q)'
    PROVE  QuestionsFit'
<1> SUFFICES ASSUME NEW r \in Questions, r # q PROVE QuestionFits(r)'
  BY DEF QuestionsFit
<1>1. QuestionFits(r)
  BY DEF QuestionsFit
<1>2. /\ asked'[r] = asked[r] /\ queued'[r] = queued[r] /\ delivered'[r] = delivered[r]
      /\ r \in abandoned' => r \in abandoned
  BY DEF Apart
<1>3. \A s \in 1..Len(sessions) : s \in 1..Len(sessions') /\ sessions'[s].kind = sessions[s].kind
  BY DEF Onward, MentorTypeOK
<1> QED BY <1>1, <1>2, <1>3 DEF QuestionFits, KindOf

\* The prompts: only the own one can be new, and no message comes before an older one.
LEMMA FramePrompts ==
    ASSUME MentorTypeOK, MentorTypeOK', TalkFits, PromptsFollow, NEW q \in Questions,
           Apart(q), Onward(q), OwnMessages(q), OwnPrompt(q)
    PROVE  PromptsFollow'
<1> SUFFICES ASSUME NEW r \in Questions, NEW i \in 1..Len(talk'), NEW j \in 1..Len(talk'),
                    i < j, talk'[j] = Message(r, "user"), asked'[r].kind # "chart",
                    asked'[talk'[i].of].session = asked'[r].session,
                    asked'[r].pc # "answered", Prompted(r)'
             PROVE  talk'[i] \in heard'[r]
  BY DEF PromptsFollow, HasHeard, KindOf, Message
<1>1. Len(talk) \in Nat /\ Len(talk') \in Nat /\ \A k \in 1..Len(talk) : talk[k] \in Messages
  BY DEF MentorTypeOK
<1> DEFINE m == Message(r, "user")
<1>2. m.of = r /\ m.role = "user" /\ talk'[j] = m
  BY DEF Message
<1> HIDE DEF m
<1>3. CASE j > Len(talk)
  <2>1. r = q /\ asked[q].pc \notin Spoken
    BY <1>2, <1>3 DEF Apart, TalkGrows, OwnMessages
  <2>2. talk' # talk /\ talk'[j].role # "mentor"
    BY <1>1, <1>2, <1>3
  <2> QED BY <1>3, <2>1, <2>2 DEF OwnPrompt
<1>4. CASE ~(j > Len(talk))
  <2>1. i \in 1..Len(talk) /\ j \in 1..Len(talk)
    BY <1>1, <1>4
  <2>2. talk'[i] = talk[i] /\ talk'[j] = talk[j]
    BY <2>1 DEF Apart, TalkGrows
  <2>3. \A k \in 1..Len(talk) : asked'[talk[k].of].session = asked[talk[k].of].session
    <3> SUFFICES ASSUME NEW k \in 1..Len(talk)
                 PROVE  asked'[talk[k].of].session = asked[talk[k].of].session
      OBVIOUS
    <3>1. asked[talk[k].of].pc \in Spoken /\ talk[k].of \in Questions
      BY <1>1 DEF TalkFits, Messages
    <3>2. CASE talk[k].of = q
      BY <3>1, <3>2 DEF Onward, Spoken
    <3>3. CASE talk[k].of # q
      BY <3>1, <3>3 DEF Apart
    <3> QED BY <3>2, <3>3
  <2>4. asked[talk[i].of].session = asked[r].session
    BY <1>2, <2>1, <2>2, <2>3
  <2>5. asked[talk[i].of].session = asked[r].session /\ asked[r].kind # "chart"
        /\ asked[r].pc # "answered" /\ Prompted(r) => talk[i] \in heard[r]
    BY <2>1, <2>2, <2>4 DEF PromptsFollow, HasHeard, KindOf
  <2>6. CASE r # q
    <3>1. asked'[r] = asked[r] /\ heard'[r] = heard[r]
      BY <2>6 DEF Apart
    <3>2. Said(r, "mentor")' = Said(r, "mentor")
      BY <2>6, SaidFollows DEF Apart
    <3>3. \A w \in Workers : Serves(w, r)' => Serves(w, r)
      BY <2>6 DEF Apart, Serves
    <3>4. Prompted(r)
      BY <3>1, <3>2, <3>3 DEF Prompted
    <3> QED BY <2>2, <2>4, <2>5, <3>1, <3>4
  <2>7. CASE r = q
    <3>1. CASE Prompted(q) /\ heard'[q] = heard[q] /\ asked[q].pc # "answered"
      BY <2>2, <2>4, <2>5, <2>7, <3>1 DEF Onward
    <3>2. CASE /\ talk' = talk /\ asked[q].session # 0
               /\ heard'[q] = History(q, asked[q].session)
      <4>1. talk[i].of # q
        BY <1>2, <2>1, <2>2, <2>7 DEF TalkFits
      <4>2. talk[i] \in History(q, asked[q].session)
        BY <2>1, <2>4, <2>7, <3>2, <4>1 DEF History
      <4> QED BY <2>2, <2>7, <3>2, <4>2
    <3>3. asked'[q].pc # "answered" /\ asked'[q].kind # "chart" /\ Prompted(q)'
      BY <2>7
    <3> QED BY <3>1, <3>2, <3>3 DEF OwnPrompt
  <2> QED BY <2>6, <2>7
<1> QED BY <1>3, <1>4

\* The memory, when no question is saved in it.
LEMMA FrameMemory ==
    ASSUME MentorTypeOK, MentorTypeOK', MemoryFits, NEW q \in Questions,
           Apart(q), Onward(q), OwnMemory(q)
    PROVE  MemoryFits'
<1>1. ASSUME NEW m \in Messages, KindOf(m.of)' = "ask",
             KindOf(m.of) = "ask" => asked[m.of].pc \in Settled
      PROVE  asked'[m.of].pc \in Settled
  BY <1>1 DEF Apart, Onward, KindOf, Messages
<1>2. \A r \in Questions : asked'[r].kind = asked[r].kind
  BY DEF Apart, Onward
<1>3. ASSUME NEW S \in SUBSET Messages, WasSaved(S)
      PROVE  \A m \in S : m.role = "user" =>
                 asked'[m.of].kind = "ask" /\ asked'[m.of].pc \in Settled
  BY <1>2, <1>3 DEF WasSaved, KindOf, Messages, Apart, Onward
<1>4. WasSaved(memory)'
  BY <1>3 DEF OwnMemory, MemoryFits, MentorTypeOK, WasSaved, KindOf
<1>5. ASSUME NEW r \in Questions, asked'[r].kind = "ask" PROVE WasSaved(heard[r])'
  <2>1. asked[r].kind = "ask" /\ WasSaved(heard[r]) /\ heard[r] \in SUBSET Messages
    BY <1>2, <1>5 DEF MemoryFits, KindOf, MentorTypeOK
  <2>2. heard'[r] = heard[r] \/ heard'[r] = memory
    BY <1>5 DEF Apart, OwnMemory
  <2> QED BY <1>3, <1>4, <2>1, <2>2 DEF WasSaved, KindOf, OwnMemory
<1>6. ASSUME NEW r \in Questions, asked'[r].kind = "ask", asked'[r].pc \in {"saved", "answered"},
             Message(r, "user") \notin memory'
      PROVE  \E t \in Questions : /\ Message(r, "user") \notin heard'[t]
                                   /\ Message(t, "user") \notin heard'[r]
                                   /\ t # r /\ Message(t, "user") \in memory'
  <2>1. /\ asked[r].kind = "ask" /\ asked[r].pc \in {"saved", "answered"}
        /\ Message(r, "user") \notin memory
    BY <1>2, <1>6 DEF OwnMemory, Apart
  <2>2. PICK t \in Questions : /\ Message(r, "user") \notin heard[t]
                               /\ Message(t, "user") \notin heard[r]
                               /\ t # r /\ Message(t, "user") \in memory
    BY <2>1 DEF MemoryFits, ForgottenOnlyByOverlap, KindOf
  <2>3. asked[t].kind = "ask" /\ asked[t].pc \in Settled
    BY <2>2 DEF MemoryFits, WasSaved, Message, KindOf
  <2>4. heard'[t] = heard[t] /\ heard'[r] = heard[r]
    BY <1>2, <2>1, <2>3 DEF Apart, OwnMemory, Settled
  <2> QED BY <2>2, <2>4 DEF OwnMemory
<1>7. ForgottenOnlyByOverlap'
  BY <1>6 DEF ForgottenOnlyByOverlap, KindOf, Message
<1> QED BY <1>4, <1>5, <1>7 DEF MemoryFits, KindOf

\* The sessions: a witness of another question stays one.
LEMMA FramePairs ==
    ASSUME MentorTypeOK, MentorTypeOK', PairsFollow, NEW q \in Questions,
           Apart(q), Onward(q), OwnPair(q)
    PROVE  PairsFollow'
<1> SUFFICES ASSUME NEW s \in 1..Len(sessions'), s \in 1..Len(sessions),
                    sessions'[s] = sessions[s], sessions[s].kind # "chat",
                    sessions[s].question # sessions[s].answer,
                    asked[q].session = s /\ Owing(q) => asked'[q].session = s /\ Owing(q)'
             PROVE  \E r \in Questions : asked'[r].session = s /\ Owing(r)'
  BY DEF PairsFollow, OwnPair
<1>1. PICK r \in Questions : asked[r].session = s /\ Owing(r)
  BY DEF PairsFollow
<1>2. CASE r = q
  BY <1>1, <1>2
<1>3. CASE r # q
  <2>1. /\ asked'[r] = asked[r] /\ queued'[r] = queued[r]
        /\ r \in abandoned => r \in abandoned'
    BY <1>3 DEF Apart
  <2>2. Said(r, "mentor")' = Said(r, "mentor")
    BY <1>3, SaidFollows DEF Apart
  <2>3. \A w \in Workers :
            /\ Serves(w, r) => Serves(w, r)' /\ worker'[w] = worker[w]
            /\ Serves(w, r)' => Serves(w, r)
    BY <1>3 DEF Apart, Serves
  <2>4. r \in abandoned \/ asked[r].pc = "entered" => Owing(r)'
    BY <2>1 DEF Owing
  <2>5. ASSUME ~(r \in abandoned \/ asked[r].pc = "entered") PROVE Owing(r)'
    <3>1. /\ ~Said(r, "mentor")
          /\ \A w \in Workers : Serves(w, r) => worker[w].pc = "calling"
          /\ queued[r] > 0 \/ \E w \in Workers : Serves(w, r)
      BY <1>1, <2>5 DEF Owing
    <3>2. ~Said(r, "mentor")'
      BY <2>2, <3>1
    <3>3. \A w \in Workers : Serves(w, r)' => worker'[w].pc = "calling"
      BY <2>3, <3>1 DEF Serves
    <3>4. queued'[r] > 0 \/ \E w \in Workers : Serves(w, r)'
      BY <2>1, <2>3, <3>1 DEF Serves
    <3> QED BY <3>2, <3>3, <3>4 DEF Owing
  <2>6. Owing(r)'
    BY <2>4, <2>5
  <2> QED BY <1>1, <2>1, <2>6
<1> QED BY <1>2, <1>3

\* Together: what is left to show of a step is about its own question.
LEMMA StepKeeps ==
    ASSUME MentorInv, MentorTypeOK', NEW q \in Questions, Apart(q), Onward(q),
           QuestionFits(q)', OwnWorkers(q), OwnMessages(q), OwnReply(q), OwnPrompt(q),
           OwnMemory(q), OwnPair(q)
    PROVE  MentorInv'
BY FrameQuestions, FrameWorkers, FrameTalk, FrameReplies, FramePrompts, FrameMemory, FramePairs
   DEF MentorInv

-----------------------------------------------------------------------------
\* A question that no task was made of has no worker and no reply yet, and nobody died over it.
LEMMA Unhanded ==
    ASSUME MentorInv, NEW q \in Questions, asked[q].pc \notin {"enqueued", "told", "failed"}
    PROVE  /\ delivered[q] = 0 /\ queued[q] = 0 /\ q \notin abandoned
           /\ \A w \in Workers : ~Serves(w, q)
           /\ asked[q].pc \notin {"streamed", "answered"} => ~Said(q, "mentor")
           /\ asked[q].pc \notin Spoken => \A i \in 1..Len(talk) : talk[i].of # q
<1>1. QuestionFits(q) /\ delivered[q] \in Nat /\ queued[q] \in Nat
  BY DEF MentorInv, QuestionsFit, MentorTypeOK
<1>2. delivered[q] = 0 /\ queued[q] = 0 /\ q \notin abandoned
  BY <1>1 DEF QuestionFits
<1>3. \A w \in Workers : ~Serves(w, q)
  BY <1>2 DEF Serves, MentorInv, WorkersFit
<1>4. asked[q].pc \notin {"streamed", "answered"} => ~Said(q, "mentor")
  <2> DEFINE m == Message(q, "mentor")
  <2>1. m.of = q /\ m.role = "mentor"
    BY DEF Message
  <2> HIDE DEF m
  <2>2. ASSUME asked[q].pc \notin {"streamed", "answered"}, NEW i \in 1..Len(talk), talk[i] = m
        PROVE  FALSE
    BY <1>2, <2>1, <2>2 DEF MentorInv, TalkFits
  <2> QED BY <2>2 DEF Said, m
<1>5. asked[q].pc \notin Spoken => \A i \in 1..Len(talk) : talk[i].of # q
  BY DEF MentorInv, TalkFits
<1> QED BY <1>2, <1>3, <1>4, <1>5

\* A question that gets a session.
LEMMA QuestionMoves ==
    ASSUME MentorTypeOK, NEW q \in Questions, NEW there \in AskedStates, NEW s \in Nat,
           asked' = [asked EXCEPT ![q] = [@ EXCEPT !.pc = there, !.session = s]]
    PROVE  /\ asked' \in AskedRows /\ asked'[q].pc = there /\ asked'[q].session = s
           /\ asked'[q].kind = asked[q].kind
           /\ \A r \in Questions \ {q} : asked'[r] = asked[r]
<1> DEFINE next == [asked[q] EXCEPT !.pc = there, !.session = s]
<1>1. asked \in AskedRows /\ asked' = [asked EXCEPT ![q] = next]
  BY DEF MentorTypeOK
<1>2. /\ next \in [pc : AskedStates, kind : QuestionKinds, session : Nat]
      /\ next.pc = there /\ next.session = s /\ next.kind = asked[q].kind
  BY <1>1 DEF AskedRows
<1> HIDE DEF next
<1> QED BY <1>1, <1>2 DEF AskedRows

\* A question that goes on.
LEMMA QuestionGoes ==
    ASSUME MentorTypeOK, NEW q \in Questions, NEW here, NEW there \in AskedStates,
           Goes(q, here, there)
    PROVE  /\ asked[q].pc = here /\ asked'[q].pc = there
           /\ asked' \in AskedRows /\ asked'[q].session = asked[q].session
           /\ asked'[q].kind = asked[q].kind /\ asked[q].session \in Nat
           /\ \A r \in Questions \ {q} : asked'[r] = asked[r]
BY DEF Goes, MentorTypeOK, AskedRows

\* The session that is found is one of this kind.
LEMMA SessionForIs ==
    ASSUME MentorTypeOK, NEW q \in Questions
    PROVE  /\ SessionFor(q) \in Nat
           /\ SessionFor(q) # 0 => /\ SessionFor(q) \in 1..Len(sessions)
                                   /\ sessions[SessionFor(q)].kind = KindOf(q)
<1> DEFINE same == {s \in 1..Len(sessions) : sessions[s].kind = KindOf(q)}
           last == CHOOSE s \in same : \A t \in same : t <= s
<1>1. CASE same = {} \/ KindOf(q) \in {"chart", "ask"}
  BY <1>1 DEF SessionFor
<1>2. CASE ~(same = {} \/ KindOf(q) \in {"chart", "ask"})
  <2>1. Len(sessions) \in Nat
    BY DEF MentorTypeOK
  <2>2. IsFiniteSet(1..Len(sessions))
    BY <2>1, FS_Interval
  <2>3. IsFiniteSet(same) /\ same \in SUBSET Nat
    BY <2>1, <2>2, FS_Subset
  <2>4. Max(same) \in same /\ \A n \in same : Max(same) >= n
    BY <1>2, <2>3, MaxIsLargest
  <2>5. \E s \in same : \A t \in same : t <= s
    BY <2>3, <2>4
  <2>6. last \in same
    BY <2>5
  <2>7. SessionFor(q) = last
    BY <1>2 DEF SessionFor
  <2> QED BY <2>1, <2>6, <2>7
<1> QED BY <1>1, <1>2

\* One more message.
LEMMA TalkAppends ==
    ASSUME MentorTypeOK, NEW q \in Questions, NEW role \in {"user", "mentor"},
           talk' = Append(talk, Message(q, role))
    PROVE  /\ talk' \in Seq(Messages) /\ Len(talk) \in Nat /\ Len(talk') = Len(talk) + 1
           /\ talk'[Len(talk) + 1] = Message(q, role)
           /\ \A i \in 1..Len(talk) : talk'[i] = talk[i]
           /\ TalkGrows(q)
<1> DEFINE m == Message(q, role)
<1>1. m \in Messages /\ m.of = q /\ talk \in Seq(Messages) /\ talk' = Append(talk, m)
  BY DEF Message, Messages, MentorTypeOK
<1> HIDE DEF m
<1>2. /\ talk' \in Seq(Messages) /\ Len(talk) \in Nat /\ Len(talk') = Len(talk) + 1
      /\ talk'[Len(talk) + 1] = m /\ \A i \in 1..Len(talk) : talk'[i] = talk[i]
  BY <1>1, AppendProperties, LenProperties
<1>3. \A i \in 1..Len(talk') : i > Len(talk) => i = Len(talk) + 1
  BY <1>2
<1> QED BY <1>1, <1>2, <1>3 DEF TalkGrows, m

\* A step that leaves the talk and the workers alone.
LEMMA WhenQuiet ==
    ASSUME MentorInv, NEW q \in Questions, UNCHANGED <<talk, worker, doubled>>,
           asked'[q].kind = asked[q].kind
    PROVE  /\ TalkGrows(q) /\ OwnWorkers(q) /\ OwnMessages(q) /\ OwnReply(q)
           /\ Said(q, "mentor")' = Said(q, "mentor")
           /\ \A w \in Workers : Serves(w, q)' = Serves(w, q)
<1>1. Len(talk) \in Nat
  BY DEF MentorInv, MentorTypeOK
<1>2. TalkGrows(q) /\ OwnMessages(q) /\ OwnWorkers(q)
  BY <1>1 DEF TalkGrows, OwnMessages, OwnWorkers
<1>3. Said(q, "mentor")' = Said(q, "mentor") /\ \A w \in Workers : Serves(w, q)' = Serves(w, q)
  BY DEF Said, Serves, Message
<1>4. RepliedOnce(q) => RepliedOnce(q)'
  BY DEF RepliedOnce, Said, Serves, Message
<1>5. OwnReply(q)
  BY <1>4 DEF OwnReply, MentorInv, RepliesFollow, KindOf
<1> QED BY <1>2, <1>3, <1>5

\* The sessions stay, and the question owes an answer as before.
LEMMA PairStays ==
    ASSUME MentorInv, NEW q \in Questions, UNCHANGED sessions,
           Owing(q) => asked'[q].session = asked[q].session /\ Owing(q)'
    PROVE  OwnPair(q)
BY DEF OwnPair

\* Looking for a session.
LEMMA LookForSessionMentorInv ==
    ASSUME MentorInv, NEW q \in Questions, NEW mode \in {"sync", "live", "async"},
           LookForSession(q, mode)
    PROVE  MentorInv'
<1> DEFINE s == SessionFor(q)
<1>1. MentorTypeOK
  BY DEF MentorInv
<1>2. s \in Nat /\ (s # 0 => s \in 1..Len(sessions) /\ sessions[s].kind = KindOf(q))
  BY <1>1, SessionForIs
<1>3. /\ asked[q].pc = "new" /\ (mode = "sync" => KindOf(q) # "chat")
      /\ (mode = "live" => KindOf(q) = "chat") /\ (mode = "async" => KindOf(q) # "ask")
      /\ asked' = [asked EXCEPT ![q] = [@ EXCEPT !.pc = mode, !.session = s]]
      /\ heard' = IF mode = "sync" THEN [heard EXCEPT ![q] = Context(q, s)] ELSE heard
      /\ UNCHANGED <<sessions, talk, memory, queued, delivered, worker, doubled, abandoned>>
  BY DEF LookForSession, viewVars
<1> HIDE DEF s
<1>4. /\ asked' \in AskedRows /\ asked'[q].pc = mode /\ asked'[q].session = s
      /\ asked'[q].kind = asked[q].kind /\ \A r \in Questions \ {q} : asked'[r] = asked[r]
  BY <1>1, <1>2, <1>3, QuestionMoves DEF AskedStates, Early
<1>5. /\ delivered[q] = 0 /\ queued[q] = 0 /\ q \notin abandoned /\ ~Said(q, "mentor")
      /\ \A w \in Workers : ~Serves(w, q)
  BY <1>3, Unhanded
<1>6. /\ TalkGrows(q) /\ OwnWorkers(q) /\ OwnMessages(q) /\ OwnReply(q)
      /\ Said(q, "mentor")' = Said(q, "mentor")
      /\ \A w \in Workers : Serves(w, q)' = Serves(w, q)
  BY <1>3, <1>4, WhenQuiet
<1>7. Context(q, s) \in SUBSET Messages /\ (KindOf(q) = "ask" => Context(q, s) = memory)
  BY <1>1 DEF Context, MentorTypeOK, History
<1>8. heard' \in [Questions -> SUBSET Messages] /\ \A r \in Questions \ {q} : heard'[r] = heard[r]
  BY <1>1, <1>3, <1>7 DEF MentorTypeOK
<1>9. MentorTypeOK'
  BY <1>1, <1>3, <1>4, <1>8 DEF MentorTypeOK
<1>10. Apart(q)
  BY <1>3, <1>4, <1>6, <1>8 DEF Apart
<1>11. Onward(q)
  BY <1>1, <1>3, <1>4 DEF Onward, Spoken, Settled, MentorTypeOK
<1>12. QuestionFits(q)'
  BY <1>2, <1>3, <1>4, <1>5 DEF QuestionFits, KindOf
<1>13. OwnPrompt(q)
  BY <1>3, <1>4, <1>5, <1>6 DEF OwnPrompt, Prompted
<1>14. OwnMemory(q)
  BY <1>1, <1>3, <1>4, <1>7 DEF OwnMemory, KindOf, MentorTypeOK
<1>15. OwnPair(q)
  BY <1>3, <1>5, PairStays DEF Owing
<1> QED BY <1>6, <1>9, <1>10, <1>11, <1>12, <1>13, <1>14, <1>15, StepKeeps

\* One session is made or saved, at place t.
SessionsBecome(new, t) ==
    /\ new \in Seq(Pairs) /\ Len(sessions) <= Len(new) /\ t \in 1..Len(new)
    /\ \A s \in 1..Len(sessions) : new[s].kind = sessions[s].kind
    /\ \A s \in 1..Len(new) : s = t \/ (s \in 1..Len(sessions) /\ new[s] = sessions[s])

\* A new session.
LEMMA SessionIsMade ==
    ASSUME MentorTypeOK, NEW p \in Pairs
    PROVE  /\ SessionsBecome(Append(sessions, p), Len(sessions) + 1)
           /\ Append(sessions, p)[Len(sessions) + 1] = p
<1>1. sessions \in Seq(Pairs) /\ Len(sessions) \in Nat
  BY LenProperties DEF MentorTypeOK
<1> DEFINE new == Append(sessions, p)
<1>2. /\ new \in Seq(Pairs) /\ Len(new) = Len(sessions) + 1
      /\ new[Len(sessions) + 1] = p /\ \A i \in 1..Len(sessions) : new[i] = sessions[i]
  BY <1>1, AppendProperties
<1> HIDE DEF new
<1>3. \A s \in 1..Len(new) : s = Len(sessions) + 1 \/ s \in 1..Len(sessions)
  BY <1>1, <1>2
<1>4. Len(sessions) + 1 \in 1..Len(new) /\ Len(sessions) <= Len(new)
  BY <1>1, <1>2
<1>5. SessionsBecome(new, Len(sessions) + 1)
  BY <1>2, <1>3, <1>4 DEF SessionsBecome
<1> QED BY <1>2, <1>5 DEF new

\* A session that is saved again.
LEMMA SessionIsSaved ==
    ASSUME MentorTypeOK, NEW p \in Pairs, NEW t \in 1..Len(sessions), p.kind = sessions[t].kind
    PROVE  /\ SessionsBecome([sessions EXCEPT ![t] = p], t)
           /\ [sessions EXCEPT ![t] = p][t] = p
<1>1. sessions \in Seq(Pairs) /\ Len(sessions) \in Nat
  BY LenProperties DEF MentorTypeOK
<1> DEFINE new == [sessions EXCEPT ![t] = p]
<1>2. /\ new \in Seq(Pairs) /\ Len(new) = Len(sessions)
      /\ \A i \in 1..Len(sessions) : new[i] = IF i = t THEN p ELSE sessions[i]
  BY <1>1, ExceptSeq
<1> HIDE DEF new
<1>3. \A i \in 1..Len(sessions) : new[i].kind = sessions[i].kind
  BY <1>2
<1>4. SessionsBecome(new, t) /\ new[t] = p
  BY <1>1, <1>2, <1>3 DEF SessionsBecome
<1> QED BY <1>4 DEF new

\* The session a question has, or the next.
Place(s) == IF s = 0 THEN Len(sessions) + 1 ELSE s
Its(q, s) == s # 0 => s \in 1..Len(sessions) /\ sessions[s].kind = KindOf(q)

\* The session that a question is put in.
LEMMA WithQuestionIs ==
    ASSUME MentorTypeOK, NEW q \in Questions, NEW s \in Nat, Its(q, s)
    PROVE  /\ SessionsBecome(WithQuestion(q, s), Place(s))
           /\ WithQuestion(q, s)[Place(s)].kind = KindOf(q)
<1>1. KindOf(q) \in QuestionKinds
  BY DEF MentorTypeOK, AskedRows, KindOf
<1>2. CASE s = 0
  <2> DEFINE p == [kind |-> KindOf(q), question |-> {q}, answer |-> {}]
  <2>1. p \in Pairs /\ p.kind = KindOf(q) /\ WithQuestion(q, s) = Append(sessions, p)
    BY <1>1, <1>2 DEF Pairs, WithQuestion
  <2> HIDE DEF p
  <2> QED BY <1>2, <2>1, SessionIsMade DEF Place
<1>3. CASE s # 0 /\ KindOf(q) = "entry"
  <2> DEFINE p == [sessions[s] EXCEPT !.question = {q}]
  <2>1. s \in 1..Len(sessions) /\ sessions[s] \in Pairs /\ sessions[s].kind = KindOf(q)
    BY <1>3 DEF Its, MentorTypeOK
  <2>2. p \in Pairs /\ p.kind = KindOf(q)
    BY <2>1 DEF Pairs
  <2>3. WithQuestion(q, s) = [sessions EXCEPT ![s] = p]
    BY <1>3 DEF WithQuestion
  <2> HIDE DEF p
  <2> QED BY <1>3, <2>1, <2>2, <2>3, SessionIsSaved DEF Place
<1>4. CASE s # 0 /\ KindOf(q) # "entry"
  <2>1. WithQuestion(q, s) = sessions /\ Place(s) = s /\ Len(sessions) \in Nat
    BY <1>4 DEF WithQuestion, Place, MentorTypeOK
  <2> QED BY <1>4, <2>1 DEF SessionsBecome, Its, MentorTypeOK
<1> QED BY <1>2, <1>3, <1>4

\* The session that gets question and answer in one save shows a pair.
LEMMA WithPairIs ==
    ASSUME MentorTypeOK, NEW q \in Questions, NEW s \in Nat, Its(q, s)
    PROVE  /\ SessionsBecome(WithPair(q, s), Place(s))
           /\ WithPair(q, s)[Place(s)].question = WithPair(q, s)[Place(s)].answer
<1> DEFINE p == [kind |-> KindOf(q), question |-> {q}, answer |-> {q}]
<1>1. p \in Pairs /\ p.kind = KindOf(q) /\ p.question = p.answer
  BY DEF MentorTypeOK, AskedRows, KindOf, Pairs
<1>2. WithPair(q, s) = IF s = 0 THEN Append(sessions, p) ELSE [sessions EXCEPT ![s] = p]
  BY DEF WithPair
<1> HIDE DEF p
<1>3. CASE s = 0
  BY <1>1, <1>2, <1>3, SessionIsMade DEF Place
<1>4. CASE s # 0
  <2>1. s \in 1..Len(sessions) /\ p.kind = sessions[s].kind /\ Place(s) = s
    BY <1>1, <1>4 DEF Place, Its
  <2> QED BY <1>1, <1>2, <1>4, <2>1, SessionIsSaved
<1> QED BY <1>3, <1>4

\* The session that a task saves shows a pair, unless it is of a chat.
LEMMA PairedIs ==
    ASSUME MentorTypeOK, NEW q \in Questions, NEW s \in 1..Len(sessions),
           sessions[s].kind = KindOf(q)
    PROVE  /\ SessionsBecome(Paired(s, q), s)
           /\ \/ Paired(s, q)[s].kind = "chat"
              \/ Paired(s, q)[s].question = Paired(s, q)[s].answer
<1>1. CASE KindOf(q) = "chat"
  <2>1. Paired(s, q) = sessions /\ Len(sessions) \in Nat
    BY <1>1 DEF Paired, MentorTypeOK
  <2> QED BY <1>1, <2>1 DEF SessionsBecome, MentorTypeOK
<1>2. CASE KindOf(q) # "chat"
  <2> DEFINE p == [sessions[s] EXCEPT !.question = {q}, !.answer = {q}]
  <2>1. sessions[s] \in Pairs
    BY DEF MentorTypeOK
  <2>2. p \in Pairs /\ p.kind = sessions[s].kind /\ p.question = p.answer
    BY <2>1 DEF Pairs
  <2>3. Paired(s, q) = [sessions EXCEPT ![s] = p]
    BY <1>2 DEF Paired
  <2> HIDE DEF p
  <2> QED BY <2>2, <2>3, SessionIsSaved
<1> QED BY <1>1, <1>2

\* A session gets its question, for a task or for a chat.
LEMMA EnterMentorInv ==
    ASSUME MentorInv, NEW q \in Questions, NEW here, NEW there,
           <<here, there>> \in {<<"async", "entered">>, <<"live", "opened">>},
           Enter(q, here, there)
    PROVE  MentorInv'
<1>1. MentorTypeOK /\ QuestionFits(q)
  BY DEF MentorInv, QuestionsFit
<1> DEFINE s == asked[q].session
           t == Place(s)
<1>2. /\ asked[q].pc = here /\ sessions' = WithQuestion(q, s)
      /\ asked' = [asked EXCEPT ![q] = [@ EXCEPT !.pc = there, !.session = t]]
      /\ UNCHANGED <<talk, heard, memory, queued, delivered, worker, doubled, abandoned>>
  BY DEF Enter, viewVars, Place
<1>3. s \in Nat /\ Its(q, s) /\ s = asked[q].session
  BY <1>1 DEF MentorTypeOK, AskedRows, QuestionFits, Its
<1>4. t \in Nat \ {0} /\ (s # 0 => t = s)
  BY <1>1, <1>3 DEF MentorTypeOK, Place
<1>5. SessionsBecome(sessions', t) /\ sessions'[t].kind = asked[q].kind
  BY <1>1, <1>2, <1>3, WithQuestionIs DEF KindOf
<1> HIDE DEF s, t
<1>6. (here = "async" /\ there = "entered") \/ (here = "live" /\ there = "opened")
  OBVIOUS
<1>7. /\ asked' \in AskedRows /\ asked'[q].pc = there /\ asked'[q].session = t
      /\ asked'[q].kind = asked[q].kind /\ \A r \in Questions \ {q} : asked'[r] = asked[r]
  BY <1>1, <1>2, <1>4, <1>6, QuestionMoves DEF AskedStates
<1>8. /\ delivered[q] = 0 /\ queued[q] = 0 /\ q \notin abandoned /\ ~Said(q, "mentor")
      /\ \A w \in Workers : ~Serves(w, q)
  BY <1>2, <1>6, Unhanded
<1>9. /\ TalkGrows(q) /\ OwnWorkers(q) /\ OwnMessages(q) /\ OwnReply(q)
      /\ Said(q, "mentor")' = Said(q, "mentor")
      /\ \A w \in Workers : Serves(w, q)' = Serves(w, q)
  BY <1>2, <1>7, WhenQuiet
<1>10. MentorTypeOK'
  BY <1>1, <1>2, <1>5, <1>7 DEF MentorTypeOK, SessionsBecome
<1>11. Apart(q)
  BY <1>2, <1>7, <1>9 DEF Apart
<1>12. Onward(q)
  BY <1>1, <1>2, <1>5, <1>6, <1>7 DEF Onward, Spoken, Settled, MentorTypeOK, SessionsBecome
<1>13. QuestionFits(q)'
  <2>1. there = "entered" => asked[q].kind # "ask"
    BY <1>1, <1>2 DEF QuestionFits, KindOf
  <2>2. there = "opened" => asked[q].kind = "chat"
    BY <1>1, <1>2 DEF QuestionFits, KindOf
  <2> QED BY <1>2, <1>4, <1>5, <1>6, <1>7, <1>8, <2>1, <2>2
          DEF QuestionFits, KindOf, SessionsBecome
<1>14. OwnPrompt(q)
  BY <1>6, <1>7, <1>8, <1>9 DEF OwnPrompt, Prompted
<1>15. OwnMemory(q)
  <2>1. memory' = memory /\ heard'[q] = heard[q] /\ asked'[q].pc \notin {"saved", "answered"}
    BY <1>2, <1>6, <1>7
  <2> QED BY <2>1 DEF OwnMemory
<1>16. OwnPair(q)
  <2>1. there = "opened" => sessions'[t].kind = "chat"
    BY <1>1, <1>2, <1>5 DEF QuestionFits, KindOf
  <2>2. there = "entered" => asked'[q].session = t /\ Owing(q)'
    BY <1>7 DEF Owing
  <2>3. ASSUME NEW u \in 1..Len(sessions'), u # t
        PROVE  u \in 1..Len(sessions) /\ sessions'[u] = sessions[u] /\ asked[q].session # u
    BY <1>3, <1>4, <1>5, <2>3 DEF SessionsBecome
  <2> QED BY <1>6, <2>1, <2>2, <2>3 DEF OwnPair
<1> QED BY <1>9, <1>10, <1>11, <1>12, <1>13, <1>14, <1>15, <1>16, StepKeeps

\* A question's own message, stored when there is no reply to it.
LEMMA UserSays ==
    ASSUME MentorTypeOK, NEW q \in Questions, talk' = Append(talk, Message(q, "user")),
           ~Said(q, "mentor")
    PROVE  ~Said(q, "mentor")'
<1>1. /\ Len(talk) \in Nat /\ Len(talk') = Len(talk) + 1
      /\ talk'[Len(talk) + 1] = Message(q, "user")
      /\ \A i \in 1..Len(talk) : talk'[i] = talk[i]
  BY TalkAppends
<1>2. Message(q, "user") # Message(q, "mentor")
  BY DEF Message
<1>3. ASSUME NEW i \in 1..Len(talk'), talk'[i] = Message(q, "mentor") PROVE FALSE
  <2>1. i # Len(talk) + 1
    BY <1>1, <1>2, <1>3
  <2>2. i \in 1..Len(talk)
    BY <1>1, <2>1
  <2> QED BY <1>1, <1>3, <2>2 DEF Said
<1> QED BY <1>3 DEF Said, Message

\* The first reply.
LEMMA MentorSays ==
    ASSUME MentorTypeOK, NEW q \in Questions, talk' = Append(talk, Message(q, "mentor")),
           ~Said(q, "mentor"), \A w \in Workers : ~Serves(w, q)'
    PROVE  RepliedOnce(q)'
<1>1. /\ Len(talk) \in Nat /\ Len(talk') = Len(talk) + 1
      /\ \A i \in 1..Len(talk) : talk'[i] = talk[i]
  BY TalkAppends
<1>2. ASSUME NEW i \in 1..Len(talk'), talk'[i] = Message(q, "mentor") PROVE i = Len(talk) + 1
  <2>1. i \notin 1..Len(talk)
    BY <1>1, <1>2 DEF Said
  <2> QED BY <1>1, <2>1
<1> QED BY <1>2 DEF RepliedOnce, Message

\* The task is handed to the broker.
LEMMA EnqueueMentorInv ==
    ASSUME MentorInv, NEW q \in Questions, Enqueue(q)
    PROVE  MentorInv'
<1>1. MentorTypeOK /\ QuestionFits(q)
  BY DEF MentorInv, QuestionsFit
<1>2. /\ Goes(q, "entered", "enqueued") /\ talk' = Append(talk, Message(q, "user"))
      /\ queued' = [queued EXCEPT ![q] = @ + 1] /\ delivered' = [delivered EXCEPT ![q] = @ + 1]
      /\ UNCHANGED <<sessions, heard, memory, worker, doubled, abandoned>>
  BY DEF Enqueue
<1>3. /\ asked[q].pc = "entered" /\ asked'[q].pc = "enqueued" /\ asked' \in AskedRows
      /\ asked'[q].session = asked[q].session /\ asked'[q].kind = asked[q].kind
      /\ \A r \in Questions \ {q} : asked'[r] = asked[r]
  BY <1>1, <1>2, QuestionGoes DEF AskedStates, Spoken
<1>4. /\ delivered[q] = 0 /\ queued[q] = 0 /\ q \notin abandoned /\ ~Said(q, "mentor")
      /\ \A w \in Workers : ~Serves(w, q)
  BY <1>3, Unhanded
<1>5. /\ queued' \in [Questions -> Nat] /\ queued'[q] = 1
      /\ delivered' \in [Questions -> Nat] /\ delivered'[q] = 1
      /\ \A r \in Questions \ {q} : queued'[r] = queued[r] /\ delivered'[r] = delivered[r]
  BY <1>1, <1>2, <1>4 DEF MentorTypeOK
<1>6. /\ talk' \in Seq(Messages) /\ Len(talk) \in Nat /\ Len(talk') = Len(talk) + 1
      /\ talk'[Len(talk) + 1] = Message(q, "user") /\ TalkGrows(q)
  BY <1>1, <1>2, TalkAppends
<1>7. ~Said(q, "mentor")' /\ \A w \in Workers : ~Serves(w, q)'
  BY <1>1, <1>2, <1>4, UserSays DEF Serves
<1>8. MentorTypeOK'
  BY <1>1, <1>2, <1>3, <1>5, <1>6 DEF MentorTypeOK
<1>9. Apart(q)
  BY <1>2, <1>3, <1>5, <1>6 DEF Apart
<1>10. Onward(q)
  BY <1>1, <1>2, <1>3, <1>4, <1>5 DEF Onward, Spoken, Settled, MentorTypeOK
<1>11. QuestionFits(q)'
  BY <1>1, <1>2, <1>3, <1>4, <1>5 DEF QuestionFits, KindOf
<1>12. OwnWorkers(q)
  BY <1>2 DEF OwnWorkers
<1>13. OwnMessages(q)
  <2>1. \A i \in 1..Len(talk') : i > Len(talk) => i = Len(talk) + 1
    BY <1>6
  <2>2. asked'[q].pc \in Spoken /\ asked[q].pc \notin Spoken /\ talk'[Len(talk) + 1].role = "user"
    BY <1>3, <1>6 DEF Spoken, Message
  <2> QED BY <2>1, <2>2 DEF OwnMessages
<1>14. OwnReply(q)
  <2>1. RepliedOnce(q)'
    BY <1>7 DEF RepliedOnce, Said
  <2> QED BY <2>1 DEF OwnReply
<1>15. OwnPrompt(q)
  BY <1>3, <1>7 DEF OwnPrompt, Prompted
<1>16. OwnMemory(q)
  BY <1>2, <1>3 DEF OwnMemory
<1>17. OwnPair(q)
  <2>1. Owing(q)'
    BY <1>5, <1>7 DEF Owing
  <2> QED BY <1>2, <1>3, <2>1, PairStays
<1> QED BY <1>6, <1>8, <1>9, <1>10, <1>11, <1>12, <1>13, <1>14, <1>15, <1>16, <1>17, StepKeeps

\* The client gets the id of the task.
LEMMA TellMentorInv ==
    ASSUME MentorInv, NEW q \in Questions, Tell(q)
    PROVE  MentorInv'
<1>1. MentorTypeOK /\ QuestionFits(q)
  BY DEF MentorInv, QuestionsFit
<1>2. /\ Goes(q, "enqueued", "told")
      /\ UNCHANGED <<sessions, talk, heard, memory, queued, delivered, worker, doubled, abandoned>>
  BY DEF Tell, viewVars
<1>3. /\ asked[q].pc = "enqueued" /\ asked'[q].pc = "told" /\ asked' \in AskedRows
      /\ asked'[q].session = asked[q].session /\ asked'[q].kind = asked[q].kind
      /\ \A r \in Questions \ {q} : asked'[r] = asked[r]
  BY <1>1, <1>2, QuestionGoes DEF AskedStates, Spoken
<1>4. /\ TalkGrows(q) /\ OwnWorkers(q) /\ OwnMessages(q) /\ OwnReply(q)
      /\ Said(q, "mentor")' = Said(q, "mentor")
      /\ \A w \in Workers : Serves(w, q)' = Serves(w, q)
  BY <1>2, <1>3, WhenQuiet
<1>5. MentorTypeOK'
  BY <1>1, <1>2, <1>3 DEF MentorTypeOK
<1>6. Apart(q)
  BY <1>2, <1>3, <1>4 DEF Apart
<1>7. Onward(q)
  BY <1>1, <1>2, <1>3 DEF Onward, Spoken, Settled, MentorTypeOK
<1>8. QuestionFits(q)'
  BY <1>1, <1>2, <1>3 DEF QuestionFits, KindOf
<1>9. OwnPrompt(q)
  BY <1>2, <1>3, <1>4 DEF OwnPrompt, Prompted
<1>10. OwnMemory(q)
  BY <1>2, <1>3 DEF OwnMemory
<1>11. OwnPair(q)
  <2>1. Owing(q) => Owing(q)'
    BY <1>2, <1>3, <1>4 DEF Owing
  <2> QED BY <1>2, <1>3, <2>1, PairStays
<1> QED BY <1>4, <1>5, <1>6, <1>7, <1>8, <1>9, <1>10, <1>11, StepKeeps

\* The broker delivers again.
LEMMA RedeliverMentorInv ==
    ASSUME MentorInv, NEW q \in Questions, Redeliver(q)
    PROVE  MentorInv'
<1>1. MentorTypeOK /\ QuestionFits(q) /\ queued[q] \in Nat /\ delivered[q] \in Nat
  BY DEF MentorInv, QuestionsFit, MentorTypeOK
<1>2. /\ queued' = [queued EXCEPT ![q] = @ + 1] /\ delivered' = [delivered EXCEPT ![q] = @ + 1]
      /\ queued[q] > 0
      /\ UNCHANGED <<sessions, asked, talk, heard, memory, worker, doubled, abandoned>>
  BY DEF Redeliver
<1>3. /\ queued' \in [Questions -> Nat] /\ queued'[q] > queued[q]
      /\ delivered' \in [Questions -> Nat] /\ delivered'[q] > delivered[q] /\ delivered[q] > 0
      /\ \A r \in Questions \ {q} : queued'[r] = queued[r] /\ delivered'[r] = delivered[r]
  BY <1>1, <1>2 DEF MentorTypeOK, QuestionFits
<1>4. /\ TalkGrows(q) /\ OwnWorkers(q) /\ OwnMessages(q) /\ OwnReply(q)
      /\ Said(q, "mentor")' = Said(q, "mentor")
      /\ \A w \in Workers : Serves(w, q)' = Serves(w, q)
  BY <1>2, WhenQuiet
<1>5. MentorTypeOK'
  BY <1>1, <1>2, <1>3 DEF MentorTypeOK
<1>6. Apart(q)
  BY <1>2, <1>3, <1>4 DEF Apart
<1>7. Onward(q)
  BY <1>1, <1>2, <1>3 DEF Onward, MentorTypeOK
<1>8. QuestionFits(q)'
  <2>1. delivered'[q] > 0
    BY <1>1, <1>3
  <2> QED BY <1>1, <1>2, <1>3, <2>1 DEF QuestionFits, KindOf
<1>9. OwnPrompt(q)
  BY <1>2, <1>4 DEF OwnPrompt, Prompted
<1>10. OwnMemory(q)
  BY <1>2 DEF OwnMemory
<1>11. OwnPair(q)
  <2>1. queued'[q] > 0
    BY <1>1, <1>2, <1>3
  <2>2. Owing(q) => Owing(q)'
    BY <1>2, <1>4, <2>1 DEF Owing
  <2> QED BY <1>2, <2>2, PairStays
<1> QED BY <1>4, <1>5, <1>6, <1>7, <1>8, <1>9, <1>10, <1>11, StepKeeps

\* Who saves the memory at the same time as another is the witness for what the other loses.
LEMMA SaveNowMemoryFits ==
    ASSUME MentorInv, MentorTypeOK', NEW q \in Questions, asked[q].pc = "sync",
           asked[q].kind = "ask", asked'[q].pc = "saved", UNCHANGED heard,
           memory' = Remembered(q), Onward(q), Apart(q)
    PROVE  MemoryFits'
<1> DEFINE m(r) == Message(r, "user")
<1>1. /\ \A r, t \in Questions : m(r) = m(t) => r = t
      /\ \A r \in Questions : m(r).of = r /\ m(r).role = "user"
      /\ \A r \in Questions : m(r) \in Messages
  BY DEF Message, Messages
<1>2. memory' = heard[q] \cup {m(q)} /\ heard' = heard
  BY DEF Remembered
<1>3. ForgottenOnlyByOverlap' <=>
      \A r \in Questions : asked'[r].kind = "ask" /\ asked'[r].pc \in {"saved", "answered"} =>
          \/ m(r) \in memory'
          \/ \E t \in Questions : /\ m(r) \notin heard'[t] /\ m(t) \notin heard'[r]
                                 /\ t # r /\ m(t) \in memory'
  BY DEF ForgottenOnlyByOverlap, KindOf, Message
<1> HIDE DEF m
<1>4. ASSUME NEW S \in SUBSET Messages, WasSaved(S), NEW n \in S, n.role = "user"
      PROVE  asked'[n.of].kind = "ask" /\ asked'[n.of].pc \in Settled
  BY <1>4 DEF WasSaved, KindOf, Messages, Apart, Onward
<1>5. WasSaved(heard[q]) /\ heard[q] \in SUBSET Messages
  BY DEF MentorInv, MemoryFits, MentorTypeOK, KindOf
<1>6. asked'[q].kind = "ask" /\ asked'[q].pc \in Settled
  BY DEF Onward, Settled
<1>7. WasSaved(memory)'
  BY <1>1, <1>2, <1>4, <1>5, <1>6 DEF WasSaved, KindOf
<1>8. ASSUME NEW r \in Questions, asked'[r].kind = "ask" PROVE WasSaved(heard[r])'
  <2>1. asked[r].kind = "ask"
    BY <1>8 DEF Apart, Onward
  <2>2. WasSaved(heard[r]) /\ heard[r] \in SUBSET Messages
    BY <2>1 DEF MentorInv, MemoryFits, MentorTypeOK, KindOf
  <2> QED BY <1>2, <1>4, <2>2 DEF WasSaved, KindOf
<1>9. ASSUME NEW r \in Questions, asked'[r].kind = "ask", m(r) \notin memory'
      PROVE  m(r) \notin heard[q] /\ m(q) \notin heard[r] /\ q # r /\ m(q) \in memory'
  <2>1. m(r) \notin heard[q] /\ m(q) \in memory' /\ q # r
    BY <1>2, <1>9
  <2>2. asked[r].kind = "ask"
    BY <1>9 DEF Apart, Onward
  <2>3. WasSaved(heard[r])
    BY <2>2 DEF MentorInv, MemoryFits, KindOf
  <2>4. m(q) \notin heard[r]
    BY <1>1, <2>3 DEF WasSaved, Settled
  <2> QED BY <2>1, <2>4
<1>10. ForgottenOnlyByOverlap'
  BY <1>2, <1>3, <1>9
<1> QED BY <1>7, <1>8, <1>10 DEF MemoryFits, KindOf

\* An answer at once is saved, in a session or in the memory.
LEMMA SaveNowMentorInv ==
    ASSUME MentorInv, NEW q \in Questions, SaveNow(q)
    PROVE  MentorInv'
<1>1. MentorTypeOK /\ QuestionFits(q)
  BY DEF MentorInv, QuestionsFit
<1> DEFINE s == asked[q].session
<1>2. /\ Goes(q, "sync", "saved")
      /\ sessions' = IF KindOf(q) = "entry" THEN WithPair(q, s) ELSE sessions
      /\ memory' = IF KindOf(q) = "ask" THEN Remembered(q) ELSE memory
      /\ UNCHANGED <<talk, heard, queued, delivered, worker, doubled, abandoned>>
  BY DEF SaveNow, viewVars
<1>3. /\ asked[q].pc = "sync" /\ asked'[q].pc = "saved" /\ asked' \in AskedRows
      /\ asked'[q].session = asked[q].session /\ asked'[q].kind = asked[q].kind
      /\ \A r \in Questions \ {q} : asked'[r] = asked[r]
  BY <1>1, <1>2, QuestionGoes DEF AskedStates, Spoken
<1>4. s \in Nat /\ Its(q, s) /\ s = asked[q].session
  BY <1>1 DEF MentorTypeOK, AskedRows, QuestionFits, Its
<1> HIDE DEF s
<1>5. KindOf(q) = "entry" => /\ SessionsBecome(sessions', Place(s))
                             /\ sessions'[Place(s)].question = sessions'[Place(s)].answer
  BY <1>1, <1>2, <1>4, WithPairIs
<1>6. /\ delivered[q] = 0 /\ queued[q] = 0 /\ q \notin abandoned /\ ~Said(q, "mentor")
      /\ \A w \in Workers : ~Serves(w, q)
  BY <1>3, Unhanded
<1>7. /\ TalkGrows(q) /\ OwnWorkers(q) /\ OwnMessages(q) /\ OwnReply(q)
      /\ Said(q, "mentor")' = Said(q, "mentor")
      /\ \A w \in Workers : Serves(w, q)' = Serves(w, q)
  BY <1>2, <1>3, WhenQuiet
<1>8. sessions' \in Seq(Pairs) /\ Len(sessions) <= Len(sessions')
      /\ \A u \in 1..Len(sessions) : sessions'[u].kind = sessions[u].kind
  BY <1>1, <1>2, <1>5 DEF SessionsBecome, MentorTypeOK
<1>9. MentorTypeOK'
  <2>1. Remembered(q) \in SUBSET Messages
    BY <1>1 DEF Remembered, MentorTypeOK, Message, Messages
  <2> QED BY <1>1, <1>2, <1>3, <1>8, <2>1 DEF MentorTypeOK
<1>10. Apart(q)
  BY <1>2, <1>3, <1>7 DEF Apart
<1>11. Onward(q)
  BY <1>1, <1>2, <1>3, <1>8 DEF Onward, Spoken, Settled, MentorTypeOK
<1>12. QuestionFits(q)'
  <2>1. \A u \in 1..Len(sessions) : u \in 1..Len(sessions')
    BY <1>1, <1>8, LenProperties DEF MentorTypeOK
  <2> QED BY <1>1, <1>2, <1>3, <1>6, <1>8, <2>1 DEF QuestionFits, KindOf
<1>13. OwnPrompt(q)
  BY <1>3, <1>6, <1>7 DEF OwnPrompt, Prompted
<1>14. OwnPair(q)
  <2>1. ~Owing(q)
    BY <1>3, <1>6 DEF Owing
  <2>2. CASE KindOf(q) = "entry"
    <3>1. \A u \in 1..Len(sessions') :
              u = Place(s) \/ (u \in 1..Len(sessions) /\ sessions'[u] = sessions[u])
      BY <1>5, <2>2 DEF SessionsBecome
    <3> QED BY <1>5, <2>1, <2>2, <3>1 DEF OwnPair
  <2>3. CASE KindOf(q) # "entry"
    BY <1>2, <2>1, <2>3, PairStays
  <2> QED BY <2>2, <2>3
<1>15. CASE KindOf(q) = "ask"
  <2>1. MemoryFits'
    BY <1>2, <1>3, <1>9, <1>10, <1>11, <1>15, SaveNowMemoryFits DEF KindOf
  <2> QED BY <1>7, <1>9, <1>10, <1>11, <1>12, <1>13, <1>14, <2>1, FrameQuestions, FrameWorkers,
             FrameTalk, FrameReplies, FramePrompts, FramePairs DEF MentorInv
<1>16. CASE KindOf(q) # "ask"
  <2>1. OwnMemory(q)
    BY <1>2, <1>3, <1>16 DEF OwnMemory, KindOf
  <2> QED BY <1>7, <1>9, <1>10, <1>11, <1>12, <1>13, <1>14, <2>1, StepKeeps
<1> QED BY <1>15, <1>16

\* A request dies half way.
LEMMA FailMentorInv ==
    ASSUME MentorInv, NEW q \in Questions, Fail(q)
    PROVE  MentorInv'
<1>1. MentorTypeOK /\ QuestionFits(q)
  BY DEF MentorInv, QuestionsFit
<1>2. /\ asked[q].pc \notin {"new", "told", "answered", "streamed", "failed"}
      /\ asked' = [asked EXCEPT ![q].pc = "failed"] /\ abandoned' = abandoned \cup {q}
      /\ UNCHANGED <<sessions, talk, heard, memory, queued, delivered, worker, doubled>>
  BY DEF Fail, viewVars
<1>3. /\ asked'[q].pc = "failed" /\ asked' \in AskedRows
      /\ asked'[q].session = asked[q].session /\ asked'[q].kind = asked[q].kind
      /\ \A r \in Questions \ {q} : asked'[r] = asked[r]
  BY <1>1, <1>2, QuestionGoes DEF AskedStates, Spoken, Goes
<1>4. /\ TalkGrows(q) /\ OwnWorkers(q) /\ OwnMessages(q) /\ OwnReply(q)
      /\ Said(q, "mentor")' = Said(q, "mentor")
      /\ \A w \in Workers : Serves(w, q)' = Serves(w, q)
  BY <1>2, <1>3, WhenQuiet
<1>5. MentorTypeOK'
  BY <1>1, <1>2, <1>3 DEF MentorTypeOK
<1>6. Apart(q)
  BY <1>2, <1>3, <1>4 DEF Apart
<1>7. Onward(q)
  BY <1>1, <1>2, <1>3 DEF Onward, Spoken, Settled, MentorTypeOK
<1>8. QuestionFits(q)'
  BY <1>1, <1>2, <1>3 DEF QuestionFits, KindOf
<1>9. OwnPrompt(q)
  BY <1>2, <1>3, <1>4 DEF OwnPrompt, Prompted
<1>10. OwnMemory(q)
  BY <1>2, <1>3 DEF OwnMemory
<1>11. OwnPair(q)
  <2>1. Owing(q)'
    BY <1>2 DEF Owing
  <2> QED BY <1>2, <1>3, <2>1, PairStays
<1> QED BY <1>4, <1>5, <1>6, <1>7, <1>8, <1>9, <1>10, <1>11, StepKeeps

\* Question and reply are stored together.
LEMMA StoreNowTalks ==
    ASSUME MentorTypeOK, NEW q \in Questions,
           talk' = talk \o <<Message(q, "user"), Message(q, "mentor")>>
    PROVE  /\ talk' \in Seq(Messages) /\ Len(talk) \in Nat /\ Len(talk') = Len(talk) + 2
           /\ talk'[Len(talk) + 1] = Message(q, "user")
           /\ talk'[Len(talk) + 2] = Message(q, "mentor")
           /\ \A i \in 1..Len(talk) : talk'[i] = talk[i]
           /\ TalkGrows(q)
<1> DEFINE two == <<Message(q, "user"), Message(q, "mentor")>>
<1>1. /\ two \in Seq(Messages) /\ Len(two) = 2 /\ two[1] = Message(q, "user")
      /\ two[2] = Message(q, "mentor") /\ talk \in Seq(Messages) /\ Len(talk) \in Nat
      /\ talk' = talk \o two
  BY DEF Message, Messages, MentorTypeOK
<1>2. /\ Message(q, "user").of = q /\ Message(q, "mentor").of = q
  BY DEF Message
<1> HIDE DEF two
<1>3. /\ talk' \in Seq(Messages) /\ Len(talk') = Len(talk) + 2
      /\ \A i \in 1..Len(talk) + 2 : talk'[i] = IF i <= Len(talk) THEN talk[i]
                                                ELSE two[i - Len(talk)]
  BY <1>1, ConcatProperties
<1>4. talk'[Len(talk) + 1] = two[1] /\ talk'[Len(talk) + 2] = two[2]
  BY <1>1, <1>3
<1>5. \A i \in 1..Len(talk) : talk'[i] = talk[i]
  BY <1>1, <1>3
<1>6. \A i \in 1..Len(talk') : i > Len(talk) => i = Len(talk) + 1 \/ i = Len(talk) + 2
  BY <1>1, <1>3
<1>7. TalkGrows(q)
  BY <1>1, <1>2, <1>3, <1>4, <1>5, <1>6 DEF TalkGrows
<1> QED BY <1>1, <1>3, <1>4, <1>5, <1>7

\* The messages of an answer at once.
LEMMA StoreNowMentorInv ==
    ASSUME MentorInv, NEW q \in Questions, StoreNow(q)
    PROVE  MentorInv'
<1>1. MentorTypeOK /\ QuestionFits(q)
  BY DEF MentorInv, QuestionsFit
<1>2. /\ Goes(q, "saved", "answered")
      /\ talk' = IF KindOf(q) = "entry"
                 THEN talk \o <<Message(q, "user"), Message(q, "mentor")>> ELSE talk
      /\ sessions' = IF KindOf(q) = "ask" THEN WithPair(q, 0) ELSE sessions
      /\ UNCHANGED <<heard, memory, queued, delivered, worker, doubled, abandoned>>
  BY DEF StoreNow, viewVars
<1>3. /\ asked[q].pc = "saved" /\ asked'[q].pc = "answered" /\ asked' \in AskedRows
      /\ asked'[q].session = asked[q].session /\ asked'[q].kind = asked[q].kind
      /\ \A r \in Questions \ {q} : asked'[r] = asked[r]
  BY <1>1, <1>2, QuestionGoes DEF AskedStates, Spoken
<1>4. KindOf(q) = "ask" => /\ SessionsBecome(sessions', Place(0))
                           /\ sessions'[Place(0)].question = sessions'[Place(0)].answer
  BY <1>1, <1>2, WithPairIs DEF Its
<1>5. /\ delivered[q] = 0 /\ queued[q] = 0 /\ q \notin abandoned /\ ~Said(q, "mentor")
      /\ \A w \in Workers : ~Serves(w, q)
  BY <1>3, Unhanded
<1>6. /\ Len(talk) \in Nat /\ talk' \in Seq(Messages) /\ TalkGrows(q)
      /\ \A i \in 1..Len(talk') : i > Len(talk) =>
            \/ i = Len(talk) + 1 /\ talk'[i] = Message(q, "user")
            \/ i = Len(talk) + 2 /\ talk'[i] = Message(q, "mentor")
  <2>1. CASE KindOf(q) = "entry"
    <3>1. /\ talk' \in Seq(Messages) /\ Len(talk) \in Nat /\ Len(talk') = Len(talk) + 2
          /\ talk'[Len(talk) + 1] = Message(q, "user")
          /\ talk'[Len(talk) + 2] = Message(q, "mentor") /\ TalkGrows(q)
      BY <1>1, <1>2, <2>1, StoreNowTalks
    <3>2. \A i \in 1..Len(talk') : i > Len(talk) => i = Len(talk) + 1 \/ i = Len(talk) + 2
      BY <3>1
    <3> QED BY <3>1, <3>2
  <2>2. CASE KindOf(q) # "entry"
    BY <1>1, <1>2, <2>2 DEF TalkGrows, MentorTypeOK
  <2> QED BY <2>1, <2>2
<1>7. \A w \in Workers : ~Serves(w, q)'
  BY <1>2, <1>5 DEF Serves
<1>8. sessions' \in Seq(Pairs) /\ Len(sessions) <= Len(sessions')
      /\ \A u \in 1..Len(sessions) : sessions'[u].kind = sessions[u].kind
  BY <1>1, <1>2, <1>4 DEF SessionsBecome, MentorTypeOK
<1>9. MentorTypeOK'
  BY <1>1, <1>2, <1>3, <1>6, <1>8 DEF MentorTypeOK
<1>10. Apart(q)
  BY <1>2, <1>3, <1>6 DEF Apart
<1>11. Onward(q)
  BY <1>1, <1>2, <1>3, <1>8 DEF Onward, Spoken, Settled, MentorTypeOK
<1>12. QuestionFits(q)'
  <2>1. \A u \in 1..Len(sessions) : u \in 1..Len(sessions')
    BY <1>1, <1>8, LenProperties DEF MentorTypeOK
  <2> QED BY <1>1, <1>2, <1>3, <1>5, <1>8, <2>1 DEF QuestionFits, KindOf
<1>13. OwnWorkers(q) /\ OwnPrompt(q)
  BY <1>2, <1>3 DEF OwnWorkers, OwnPrompt
<1>14. OwnMessages(q)
  <2>1. asked'[q].pc \in Spoken /\ asked[q].pc \notin Spoken
    BY <1>3 DEF Spoken
  <2> QED BY <1>3, <1>6, <2>1 DEF OwnMessages, Message
<1>15. OwnReply(q)
  <2>1. ASSUME NEW i \in 1..Len(talk'), talk'[i] = Message(q, "mentor") PROVE i = Len(talk) + 2
    <3>1. i \notin 1..Len(talk)
      BY <1>5, <1>6, <2>1 DEF Said, TalkGrows
    <3>2. Message(q, "mentor") # Message(q, "user")
      BY DEF Message
    <3> QED BY <1>6, <2>1, <3>1, <3>2
  <2>2. RepliedOnce(q)'
    BY <1>7, <2>1 DEF RepliedOnce, Message
  <2> QED BY <2>2 DEF OwnReply
<1>16. OwnMemory(q)
  BY <1>2, <1>3 DEF OwnMemory
<1>17. OwnPair(q)
  <2>1. ~Owing(q)
    BY <1>3, <1>5 DEF Owing
  <2>2. CASE KindOf(q) = "ask"
    <3>1. \A u \in 1..Len(sessions') :
              u = Place(0) \/ (u \in 1..Len(sessions) /\ sessions'[u] = sessions[u])
      BY <1>4, <2>2 DEF SessionsBecome
    <3> QED BY <1>4, <2>1, <2>2, <3>1 DEF OwnPair
  <2>3. CASE KindOf(q) # "ask"
    BY <1>2, <2>1, <2>3, PairStays
  <2> QED BY <2>2, <2>3
<1> QED BY <1>9, <1>10, <1>11, <1>12, <1>13, <1>14, <1>15, <1>16, <1>17, StepKeeps

\* The message of a chat.
LEMMA AskLiveMentorInv ==
    ASSUME MentorInv, NEW q \in Questions, AskLive(q)
    PROVE  MentorInv'
<1>1. MentorTypeOK /\ QuestionFits(q)
  BY DEF MentorInv, QuestionsFit
<1>2. /\ Goes(q, "opened", "said") /\ talk' = Append(talk, Message(q, "user"))
      /\ UNCHANGED <<sessions, heard, memory, queued, delivered, worker, doubled, abandoned>>
  BY DEF AskLive, viewVars
<1>3. /\ asked[q].pc = "opened" /\ asked'[q].pc = "said" /\ asked' \in AskedRows
      /\ asked'[q].session = asked[q].session /\ asked'[q].kind = asked[q].kind
      /\ \A r \in Questions \ {q} : asked'[r] = asked[r]
  BY <1>1, <1>2, QuestionGoes DEF AskedStates, Spoken
<1>4. /\ delivered[q] = 0 /\ queued[q] = 0 /\ q \notin abandoned /\ ~Said(q, "mentor")
      /\ \A w \in Workers : ~Serves(w, q)
  BY <1>3, Unhanded
<1>5. /\ talk' \in Seq(Messages) /\ Len(talk) \in Nat /\ Len(talk') = Len(talk) + 1
      /\ talk'[Len(talk) + 1] = Message(q, "user") /\ TalkGrows(q)
  BY <1>1, <1>2, TalkAppends
<1>6. ~Said(q, "mentor")' /\ \A w \in Workers : ~Serves(w, q)'
  BY <1>1, <1>2, <1>4, UserSays DEF Serves
<1>7. MentorTypeOK'
  BY <1>1, <1>2, <1>3, <1>5 DEF MentorTypeOK
<1>8. Apart(q)
  BY <1>2, <1>3, <1>5 DEF Apart
<1>9. Onward(q)
  BY <1>1, <1>2, <1>3 DEF Onward, Spoken, Settled, MentorTypeOK
<1>10. QuestionFits(q)'
  BY <1>1, <1>2, <1>3, <1>4 DEF QuestionFits, KindOf
<1>11. OwnWorkers(q)
  BY <1>2 DEF OwnWorkers
<1>12. OwnMessages(q)
  <2>1. \A i \in 1..Len(talk') : i > Len(talk) => i = Len(talk) + 1
    BY <1>5
  <2>2. asked'[q].pc \in Spoken /\ asked[q].pc \notin Spoken /\ talk'[Len(talk) + 1].role = "user"
    BY <1>3, <1>5 DEF Spoken, Message
  <2> QED BY <2>1, <2>2 DEF OwnMessages
<1>13. OwnReply(q)
  <2>1. RepliedOnce(q)'
    BY <1>6 DEF RepliedOnce, Said
  <2> QED BY <2>1 DEF OwnReply
<1>14. OwnPrompt(q)
  BY <1>3, <1>6 DEF OwnPrompt, Prompted
<1>15. OwnMemory(q)
  BY <1>2, <1>3 DEF OwnMemory
<1>16. OwnPair(q)
  <2>1. ~Owing(q)
    BY <1>3, <1>4 DEF Owing
  <2> QED BY <1>2, <1>3, <2>1, PairStays
<1> QED BY <1>7, <1>8, <1>9, <1>10, <1>11, <1>12, <1>13, <1>14, <1>15, <1>16, StepKeeps

\* The history of a chat is read.
LEMMA HearLiveMentorInv ==
    ASSUME MentorInv, NEW q \in Questions, HearLive(q)
    PROVE  MentorInv'
<1>1. MentorTypeOK /\ QuestionFits(q)
  BY DEF MentorInv, QuestionsFit
<1>2. /\ Goes(q, "said", "streaming")
      /\ heard' = [heard EXCEPT ![q] = Context(q, asked[q].session)]
      /\ UNCHANGED <<sessions, talk, memory, queued, delivered, worker, doubled, abandoned>>
  BY DEF HearLive, viewVars
<1>3. /\ asked[q].pc = "said" /\ asked'[q].pc = "streaming" /\ asked' \in AskedRows
      /\ asked'[q].session = asked[q].session /\ asked'[q].kind = asked[q].kind
      /\ \A r \in Questions \ {q} : asked'[r] = asked[r]
  BY <1>1, <1>2, QuestionGoes DEF AskedStates, Spoken
<1>4. asked[q].kind = "chat" /\ asked[q].session # 0
  BY <1>1, <1>3 DEF QuestionFits, KindOf
<1>5. /\ delivered[q] = 0 /\ queued[q] = 0 /\ q \notin abandoned /\ ~Said(q, "mentor")
      /\ \A w \in Workers : ~Serves(w, q)
  BY <1>3, Unhanded
<1>6. /\ TalkGrows(q) /\ OwnWorkers(q) /\ OwnMessages(q) /\ OwnReply(q)
  BY <1>2, <1>3, WhenQuiet
<1>7. Context(q, asked[q].session) = History(q, asked[q].session)
  BY <1>4 DEF Context, KindOf
<1>8. History(q, asked[q].session) \in SUBSET Messages
  BY <1>1 DEF History, MentorTypeOK
<1>9. /\ heard' \in [Questions -> SUBSET Messages]
      /\ heard'[q] = History(q, asked[q].session)
      /\ \A r \in Questions \ {q} : heard'[r] = heard[r]
  BY <1>1, <1>2, <1>7, <1>8 DEF MentorTypeOK
<1>10. MentorTypeOK'
  BY <1>1, <1>2, <1>3, <1>9 DEF MentorTypeOK
<1>11. Apart(q)
  BY <1>2, <1>3, <1>6, <1>9 DEF Apart
<1>12. Onward(q)
  BY <1>1, <1>2, <1>3 DEF Onward, Spoken, Settled, MentorTypeOK
<1>13. QuestionFits(q)'
  BY <1>1, <1>2, <1>3, <1>5 DEF QuestionFits, KindOf
<1>14. OwnPrompt(q)
  BY <1>2, <1>3, <1>4, <1>9 DEF OwnPrompt
<1>15. OwnMemory(q)
  BY <1>2, <1>3, <1>4 DEF OwnMemory
<1>16. OwnPair(q)
  <2>1. ~Owing(q)
    BY <1>3, <1>5 DEF Owing
  <2> QED BY <1>2, <1>3, <2>1, PairStays
<1> QED BY <1>6, <1>10, <1>11, <1>12, <1>13, <1>14, <1>15, <1>16, StepKeeps

\* The reply of a chat is stored.
LEMMA ReplyLiveMentorInv ==
    ASSUME MentorInv, NEW q \in Questions, ReplyLive(q)
    PROVE  MentorInv'
<1>1. MentorTypeOK /\ QuestionFits(q)
  BY DEF MentorInv, QuestionsFit
<1>2. /\ Goes(q, "streaming", "streamed") /\ talk' = Append(talk, Message(q, "mentor"))
      /\ UNCHANGED <<sessions, heard, memory, queued, delivered, worker, doubled, abandoned>>
  BY DEF ReplyLive, viewVars
<1>3. /\ asked[q].pc = "streaming" /\ asked'[q].pc = "streamed" /\ asked' \in AskedRows
      /\ asked'[q].session = asked[q].session /\ asked'[q].kind = asked[q].kind
      /\ \A r \in Questions \ {q} : asked'[r] = asked[r]
  BY <1>1, <1>2, QuestionGoes DEF AskedStates, Spoken
<1>4. /\ delivered[q] = 0 /\ queued[q] = 0 /\ q \notin abandoned /\ ~Said(q, "mentor")
      /\ \A w \in Workers : ~Serves(w, q)
  BY <1>3, Unhanded
<1>5. /\ talk' \in Seq(Messages) /\ Len(talk) \in Nat /\ Len(talk') = Len(talk) + 1
      /\ talk'[Len(talk) + 1] = Message(q, "mentor") /\ TalkGrows(q)
  BY <1>1, <1>2, TalkAppends
<1>6. \A i \in 1..Len(talk') : i > Len(talk) => talk'[i].role = "mentor"
  <2>1. talk'[Len(talk) + 1].role = "mentor"
    BY <1>5 DEF Message
  <2>2. \A i \in 1..Len(talk') : i > Len(talk) => i = Len(talk) + 1
    BY <1>5
  <2> QED BY <2>1, <2>2
<1>7. MentorTypeOK'
  BY <1>1, <1>2, <1>3, <1>5 DEF MentorTypeOK
<1>8. Apart(q)
  BY <1>2, <1>3, <1>5 DEF Apart
<1>9. Onward(q)
  BY <1>1, <1>2, <1>3 DEF Onward, Spoken, Settled, MentorTypeOK
<1>10. QuestionFits(q)'
  BY <1>1, <1>2, <1>3, <1>4 DEF QuestionFits, KindOf
<1>11. OwnWorkers(q)
  BY <1>2 DEF OwnWorkers
<1>12. OwnMessages(q)
  BY <1>3, <1>6 DEF OwnMessages, Spoken
<1>13. OwnReply(q)
  <2>1. \A w \in Workers : ~Serves(w, q)'
    BY <1>2, <1>4 DEF Serves
  <2>2. RepliedOnce(q)'
    BY <1>1, <1>2, <1>4, <2>1, MentorSays
  <2> QED BY <2>2 DEF OwnReply
<1>14. OwnPrompt(q)
  BY <1>2, <1>3, <1>6 DEF OwnPrompt, Prompted
<1>15. OwnMemory(q)
  BY <1>2, <1>3 DEF OwnMemory
<1>16. OwnPair(q)
  <2>1. ~Owing(q)
    BY <1>3, <1>4 DEF Owing
  <2> QED BY <1>2, <1>3, <2>1, PairStays
<1> QED BY <1>5, <1>7, <1>8, <1>9, <1>10, <1>11, <1>12, <1>13, <1>14, <1>15, <1>16, StepKeeps

\* A question that was handed to the broker has a session, and its message is stored.
LEMMA Handed ==
    ASSUME MentorInv, NEW q \in Questions, delivered[q] > 0
    PROVE  /\ asked[q].pc \in {"enqueued", "told", "failed"} /\ asked[q].pc \in Spoken
           /\ asked[q].kind \in {"chat", "entry", "chart"} /\ asked[q].session # 0
           /\ asked[q].session \in 1..Len(sessions)
           /\ sessions[asked[q].session].kind = KindOf(q)
<1>1. QuestionFits(q) /\ asked[q].kind \in QuestionKinds
  BY DEF MentorInv, QuestionsFit, MentorTypeOK, AskedRows
<1> QED BY <1>1 DEF QuestionFits, Spoken, KindOf, QuestionKinds

\* A worker that goes on is at work on a question that was handed to the broker.
LEMMA WorkerRuns ==
    ASSUME MentorInv, NEW w \in Workers, NEW here \in {"calling", "saved"},
           NEW there \in {"idle", "saved"}, worker[w].pc = here,
           worker' = [worker EXCEPT ![w].pc = there]
    PROVE  /\ worker[w].question \in Questions /\ delivered[worker[w].question] > 0
           /\ worker' \in WorkerRows /\ worker'[w].pc = there
           /\ worker'[w].question = worker[w].question
           /\ \A v \in Workers \ {w} : worker'[v] = worker[v]
<1>1. worker \in WorkerRows
  BY DEF MentorInv, MentorTypeOK
<1>2. worker[w].question \in Questions /\ delivered[worker[w].question] > 0
  BY DEF MentorInv, WorkersFit
<1> QED BY <1>1, <1>2 DEF WorkerRows

\* Steps of a worker leave the question as it is.
LEMMA WorkerSteps ==
    ASSUME MentorInv, NEW q \in Questions, delivered[q] > 0,
           UNCHANGED <<asked, memory, delivered>>,
           queued'[q] > 0 => queued[q] > 0,
           Len(sessions) <= Len(sessions'),
           \A s \in 1..Len(sessions) : sessions'[s].kind = sessions[s].kind
    PROVE  Onward(q) /\ QuestionFits(q)' /\ OwnWorkers(q) /\ OwnMemory(q)
<1>1. MentorTypeOK /\ QuestionFits(q) /\ Len(sessions) \in Nat /\ delivered[q] \in Nat
  BY LenProperties DEF MentorInv, QuestionsFit, MentorTypeOK
<1>2. /\ asked[q].pc \in {"enqueued", "told", "failed"} /\ asked[q].pc \in Spoken
      /\ asked[q].kind \in {"chat", "entry", "chart"}
  BY Handed
<1>3. Onward(q)
  BY <1>1 DEF Onward
<1>4. QuestionFits(q)'
  <2>1. \A s \in 1..Len(sessions) : s \in 1..Len(sessions') \/ Len(sessions') \notin Int
    BY <1>1
  <2>2. asked'[q].session # 0 =>
            /\ asked'[q].session \in 1..Len(sessions)
            /\ sessions'[asked'[q].session].kind = asked'[q].kind
    BY <1>1 DEF QuestionFits, KindOf
  <2> QED BY <1>1, <2>1, <2>2 DEF QuestionFits, KindOf
<1>5. OwnWorkers(q)
  BY DEF OwnWorkers
<1>6. OwnMemory(q)
  BY <1>2 DEF OwnMemory
<1> QED BY <1>3, <1>4, <1>5, <1>6

\* A worker takes a task, looks for a reply and reads what the prompt needs.
LEMMA TakeMentorInv ==
    ASSUME MentorInv, NEW q \in Questions, NEW w \in Workers, Take(w, q)
    PROVE  MentorInv'
<1>1. /\ MentorTypeOK /\ QuestionFits(q)
      /\ queued[q] \in Nat /\ delivered[q] \in Nat
  BY DEF MentorInv, QuestionsFit, MentorTypeOK
<1> DEFINE next == [pc |-> IF Answered(q) THEN "idle" ELSE "calling", question |-> q]
<1>2. /\ worker[w].pc = "idle" /\ queued[q] > 0 /\ queued' = [queued EXCEPT ![q] = @ - 1]
      /\ worker' = [worker EXCEPT ![w] = next]
      /\ heard' = IF Answered(q) THEN heard
                  ELSE [heard EXCEPT ![q] = Context(q, asked[q].session)]
      /\ doubled' = IF \E v \in Workers : worker[v].pc # "idle" /\ worker[v].question = q
                    THEN doubled \cup {q} ELSE doubled
      /\ UNCHANGED <<sessions, asked, talk, memory, delivered, abandoned>>
  BY DEF Take
<1>3. /\ next \in [pc : {"idle", "calling", "saved"}, question : Questions \cup {Somebody}]
      /\ next.question = q /\ (Answered(q) => next.pc = "idle")
      /\ (~Answered(q) => next.pc = "calling")
  OBVIOUS
<1> HIDE DEF next
<1>4. /\ worker' \in WorkerRows /\ worker'[w] = next
      /\ \A v \in Workers \ {w} : worker'[v] = worker[v]
  BY <1>1, <1>2, <1>3 DEF MentorTypeOK, WorkerRows
<1>5. /\ queued' \in [Questions -> Nat] /\ \A r \in Questions \ {q} : queued'[r] = queued[r]
  BY <1>1, <1>2 DEF MentorTypeOK
<1>6. delivered[q] > 0
  BY <1>1, <1>2 DEF QuestionFits
<1>7. /\ asked[q].pc \in {"enqueued", "told", "failed"}
      /\ asked[q].kind \in {"chat", "entry", "chart"} /\ asked[q].session # 0
  BY <1>6, Handed
<1>8. Onward(q) /\ QuestionFits(q)' /\ OwnWorkers(q) /\ OwnMemory(q)
  <2>1. Len(sessions) \in Nat
    BY <1>1 DEF MentorTypeOK
  <2> QED BY <1>2, <1>6, <2>1, WorkerSteps
<1>9. /\ heard' \in [Questions -> SUBSET Messages]
      /\ \A r \in Questions \ {q} : heard'[r] = heard[r]
      /\ (Answered(q) => heard'[q] = heard[q])
      /\ (~Answered(q) => heard'[q] = Context(q, asked[q].session))
  <2>1. Context(q, asked[q].session) \in SUBSET Messages
    BY <1>1, <1>7 DEF Context, History, MentorTypeOK, KindOf
  <2> QED BY <1>1, <1>2, <2>1 DEF MentorTypeOK
<1>10. doubled' \in {doubled, doubled \cup {q}} /\ doubled' \in SUBSET Questions
  BY <1>1, <1>2 DEF MentorTypeOK
<1>11. MentorTypeOK'
  BY <1>1, <1>2, <1>4, <1>5, <1>9, <1>10 DEF MentorTypeOK
<1>12. TalkGrows(q) /\ OwnMessages(q) /\ Said(q, "mentor")' = Said(q, "mentor")
  BY <1>1, <1>2 DEF TalkGrows, OwnMessages, Said, Message, MentorTypeOK
<1>13. Apart(q)
  <2>1. ASSUME NEW v \in Workers
        PROVE  \/ worker'[v] = worker[v]
               \/ worker'[v].question = q /\ (worker[v].pc = "idle" \/ worker[v].question = q)
    BY <1>2, <1>3, <1>4
  <2> QED BY <1>2, <1>5, <1>9, <1>10, <1>12, <2>1 DEF Apart
<1>14. OwnReply(q)
  <2> SUFFICES ASSUME q \notin doubled', asked'[q].kind # "chart" PROVE RepliedOnce(q)'
    BY DEF OwnReply
  <2>1. \A v \in Workers : ~Serves(v, q)
    BY <1>2 DEF Serves
  <2>2. RepliedOnce(q)
    BY <1>2 DEF MentorInv, RepliesFollow, KindOf
  <2>3. \A v \in Workers : Serves(v, q)' => v = w /\ ~Answered(q)
    BY <1>3, <1>4, <2>1 DEF Serves
  <2>4. ~Answered(q) => ~Said(q, "mentor")
    BY <1>2 DEF Answered, KindOf
  <2>5. \A u, v \in Workers : Serves(u, q)' /\ Serves(v, q)' => u = v
    BY <2>3
  <2>6. \A v \in Workers : Serves(v, q)' => ~Said(q, "mentor")'
    BY <1>12, <2>3, <2>4
  <2> QED BY <1>2, <2>2, <2>5, <2>6 DEF RepliedOnce, Message
<1>15. OwnPrompt(q)
  <2>1. CASE Answered(q)
    BY <1>1, <1>2, <1>7, <1>9, <2>1 DEF OwnPrompt, Prompted, Answered, MentorTypeOK
  <2>2. CASE ~Answered(q) /\ asked[q].kind # "chart"
    <3>1. Context(q, asked[q].session) = History(q, asked[q].session)
      BY <1>7, <2>2 DEF Context, KindOf
    <3> QED BY <1>2, <1>7, <1>9, <2>2, <3>1 DEF OwnPrompt
  <2>3. CASE asked[q].kind = "chart"
    BY <1>2, <2>3 DEF OwnPrompt
  <2> QED BY <2>1, <2>2, <2>3
<1>16. OwnPair(q)
  <2> SUFFICES ASSUME Owing(q) PROVE Owing(q)'
    BY <1>2, PairStays
  <2>1. CASE q \in abandoned \/ asked[q].pc = "entered"
    BY <1>2, <2>1 DEF Owing
  <2>2. CASE ~(q \in abandoned \/ asked[q].pc = "entered")
    <3>1. ~Said(q, "mentor") /\ \A v \in Workers : Serves(v, q) => worker[v].pc = "calling"
      BY <2>2 DEF Owing
    <3>2. next.pc = "calling"
      BY <1>3, <3>1 DEF Answered
    <3>3. Serves(w, q)'
      BY <1>3, <1>4, <3>2 DEF Serves
    <3>4. \A v \in Workers : Serves(v, q)' => worker'[v].pc = "calling"
      BY <1>4, <3>1, <3>2 DEF Serves
    <3> QED BY <1>12, <3>1, <3>3, <3>4 DEF Owing
  <2> QED BY <2>1, <2>2
<1> QED BY <1>8, <1>11, <1>12, <1>13, <1>14, <1>15, <1>16, StepKeeps

\* A worker saves the session.
LEMMA SaveSessionMentorInv ==
    ASSUME MentorInv, NEW w \in Workers, NEW q, q = worker[w].question, SaveSession(w)
    PROVE  MentorInv'
<1>1. /\ worker[w].pc = "calling" /\ worker' = [worker EXCEPT ![w].pc = "saved"]
      /\ sessions' = Paired(asked[q].session, q)
      /\ UNCHANGED <<asked, talk, heard, memory, queued, delivered, doubled, abandoned>>
  BY DEF SaveSession, Runs
<1>2. /\ q \in Questions /\ delivered[q] > 0 /\ worker' \in WorkerRows
      /\ worker'[w].pc = "saved" /\ worker'[w].question = q /\ worker[w].question = q
      /\ \A v \in Workers \ {w} : worker'[v] = worker[v]
  BY <1>1, WorkerRuns
<1>3. MentorTypeOK
  BY DEF MentorInv
<1> DEFINE s == asked[q].session
<1>4. /\ asked[q].pc \in {"enqueued", "told", "failed"} /\ s \in 1..Len(sessions)
      /\ sessions[s].kind = KindOf(q)
  BY <1>2, Handed
<1>5. /\ SessionsBecome(sessions', s)
      /\ \/ sessions'[s].kind = "chat"
         \/ sessions'[s].question = sessions'[s].answer
  BY <1>1, <1>2, <1>3, <1>4, PairedIs
<1>6. s = asked[q].session
  OBVIOUS
<1> HIDE DEF s
<1>7. Onward(q) /\ QuestionFits(q)' /\ OwnWorkers(q) /\ OwnMemory(q)
  BY <1>1, <1>2, <1>5, WorkerSteps DEF SessionsBecome
<1>8. MentorTypeOK'
  BY <1>1, <1>2, <1>3, <1>5 DEF MentorTypeOK, SessionsBecome
<1>9. TalkGrows(q) /\ OwnMessages(q) /\ Said(q, "mentor")' = Said(q, "mentor")
  BY <1>1, <1>3 DEF TalkGrows, OwnMessages, Said, Message, MentorTypeOK
<1>10. Apart(q)
  <2>1. ASSUME NEW v \in Workers
        PROVE  \/ worker'[v] = worker[v]
               \/ worker'[v].question = q /\ (worker[v].pc = "idle" \/ worker[v].question = q)
    BY <1>2
  <2> QED BY <1>1, <1>9, <2>1 DEF Apart
<1>11. Serves(w, q) /\ \A v \in Workers : Serves(v, q)' => Serves(v, q)
  BY <1>1, <1>2 DEF Serves
<1>12. OwnReply(q)
  <2>1. RepliedOnce(q) => RepliedOnce(q)'
    <3>1. RepliedOnce(q) => \A u, v \in Workers : Serves(u, q)' /\ Serves(v, q)' => u = v
      BY <1>11 DEF RepliedOnce
    <3>2. RepliedOnce(q) => \A v \in Workers : Serves(v, q)' => ~Said(q, "mentor")'
      BY <1>9, <1>11 DEF RepliedOnce
    <3> QED BY <1>1, <3>1, <3>2 DEF RepliedOnce, Message
  <2> QED BY <1>1, <1>2, <2>1 DEF OwnReply, MentorInv, RepliesFollow, KindOf
<1>13. OwnPrompt(q)
  <2>1. Prompted(q) /\ asked[q].pc # "answered"
    BY <1>4, <1>11 DEF Prompted
  <2> QED BY <1>1, <1>3, <2>1 DEF OwnPrompt, MentorTypeOK
<1>14. OwnPair(q)
  <2>1. ASSUME NEW u \in 1..Len(sessions'), u # s
        PROVE  u \in 1..Len(sessions) /\ sessions'[u] = sessions[u] /\ asked[q].session # u
    BY <1>5, <1>6, <2>1 DEF SessionsBecome
  <2> QED BY <1>5, <2>1 DEF OwnPair
<1> QED BY <1>2, <1>7, <1>8, <1>9, <1>10, <1>12, <1>13, <1>14, StepKeeps

\* A worker stores the reply.
LEMMA ReplyMentorInv ==
    ASSUME MentorInv, NEW w \in Workers, NEW q, q = worker[w].question, Reply(w)
    PROVE  MentorInv'
<1>1. /\ worker[w].pc = "saved" /\ worker' = [worker EXCEPT ![w].pc = "idle"]
      /\ talk' = Append(talk, Message(q, "mentor"))
      /\ UNCHANGED <<sessions, asked, heard, memory, queued, delivered, doubled, abandoned>>
  BY DEF Reply, Runs
<1>2. /\ q \in Questions /\ delivered[q] > 0 /\ worker' \in WorkerRows
      /\ worker'[w].pc = "idle" /\ worker'[w].question = q /\ worker[w].question = q
      /\ \A v \in Workers \ {w} : worker'[v] = worker[v]
  BY <1>1, WorkerRuns
<1>3. MentorTypeOK /\ Len(sessions) \in Nat
  BY DEF MentorInv, MentorTypeOK
<1>4. asked[q].pc \in {"enqueued", "told", "failed"} /\ asked[q].pc \in Spoken
  BY <1>2, Handed
<1>5. /\ talk' \in Seq(Messages) /\ Len(talk) \in Nat /\ Len(talk') = Len(talk) + 1
      /\ talk'[Len(talk) + 1] = Message(q, "mentor") /\ TalkGrows(q)
  BY <1>1, <1>2, <1>3, TalkAppends
<1>6. \A i \in 1..Len(talk') : i > Len(talk) => talk'[i].role = "mentor"
  <2>1. talk'[Len(talk) + 1].role = "mentor"
    BY <1>5 DEF Message
  <2>2. \A i \in 1..Len(talk') : i > Len(talk) => i = Len(talk) + 1
    BY <1>5
  <2> QED BY <2>1, <2>2
<1>7. Onward(q) /\ QuestionFits(q)' /\ OwnWorkers(q) /\ OwnMemory(q)
  BY <1>1, <1>2, <1>3, WorkerSteps
<1>8. MentorTypeOK'
  BY <1>1, <1>2, <1>3, <1>5 DEF MentorTypeOK
<1>9. OwnMessages(q)
  BY <1>1, <1>2, <1>4, <1>6 DEF OwnMessages
<1>10. Apart(q)
  <2>1. ASSUME NEW v \in Workers
        PROVE  \/ worker'[v] = worker[v]
               \/ worker'[v].question = q /\ (worker[v].pc = "idle" \/ worker[v].question = q)
    BY <1>2
  <2> QED BY <1>1, <1>5, <2>1 DEF Apart
<1>11. Serves(w, q) /\ \A v \in Workers : Serves(v, q)' => Serves(v, q) /\ v # w
  BY <1>1, <1>2 DEF Serves
<1>12. OwnReply(q)
  <2> SUFFICES ASSUME RepliedOnce(q) PROVE RepliedOnce(q)'
    BY <1>1, <1>2 DEF OwnReply, MentorInv, RepliesFollow, KindOf
  <2>1. ~Said(q, "mentor") /\ \A v \in Workers : ~Serves(v, q)'
    BY <1>11 DEF RepliedOnce
  <2> QED BY <1>1, <1>2, <1>3, <2>1, MentorSays
<1>13. OwnPrompt(q)
  <2>1. Prompted(q) /\ asked[q].pc # "answered"
    BY <1>4, <1>11 DEF Prompted
  <2> QED BY <1>1, <1>6, <2>1 DEF OwnPrompt
<1>14. OwnPair(q)
  <2>1. Owing(q) => q \in abandoned \/ asked[q].pc = "entered"
    BY <1>1, <1>11 DEF Owing
  <2>2. Owing(q) => Owing(q)'
    BY <1>1, <2>1 DEF Owing
  <2> QED BY <1>1, <1>2, <2>2, PairStays
<1> QED BY <1>2, <1>7, <1>8, <1>9, <1>10, <1>12, <1>13, <1>14, StepKeeps

\* A worker dies.
LEMMA DieMentorInv ==
    ASSUME MentorInv, NEW w \in Workers, NEW q, q = worker[w].question, Die(w)
    PROVE  MentorInv'
<1>1. /\ worker[w].pc # "idle" /\ worker' = [worker EXCEPT ![w].pc = "idle"]
      /\ abandoned' = abandoned \cup {q}
      /\ UNCHANGED <<sessions, asked, talk, heard, memory, queued, delivered, doubled>>
  BY DEF Die
<1>2. MentorTypeOK /\ Len(sessions) \in Nat /\ worker[w].pc \in {"calling", "saved"}
  BY <1>1 DEF MentorInv, MentorTypeOK, WorkerRows
<1>3. /\ q \in Questions /\ delivered[q] > 0 /\ worker' \in WorkerRows
      /\ worker'[w].pc = "idle" /\ worker'[w].question = q /\ worker[w].question = q
      /\ \A v \in Workers \ {w} : worker'[v] = worker[v]
  BY <1>1, <1>2, WorkerRuns
<1>4. asked[q].pc \in {"enqueued", "told", "failed"}
  BY <1>3, Handed
<1>5. Onward(q) /\ QuestionFits(q)' /\ OwnWorkers(q) /\ OwnMemory(q)
  BY <1>1, <1>2, <1>3, WorkerSteps
<1>6. MentorTypeOK'
  BY <1>1, <1>2, <1>3 DEF MentorTypeOK
<1>7. TalkGrows(q) /\ OwnMessages(q) /\ Said(q, "mentor")' = Said(q, "mentor")
  BY <1>1, <1>2 DEF TalkGrows, OwnMessages, Said, Message, MentorTypeOK
<1>8. Apart(q)
  <2>1. ASSUME NEW v \in Workers
        PROVE  \/ worker'[v] = worker[v]
               \/ worker'[v].question = q /\ (worker[v].pc = "idle" \/ worker[v].question = q)
    BY <1>3
  <2> QED BY <1>1, <1>7, <2>1 DEF Apart
<1>9. Serves(w, q) /\ \A v \in Workers : Serves(v, q)' => Serves(v, q)
  BY <1>1, <1>3 DEF Serves
<1>10. OwnReply(q)
  <2>1. RepliedOnce(q) => RepliedOnce(q)'
    <3>1. RepliedOnce(q) => \A u, v \in Workers : Serves(u, q)' /\ Serves(v, q)' => u = v
      BY <1>9 DEF RepliedOnce
    <3>2. RepliedOnce(q) => \A v \in Workers : Serves(v, q)' => ~Said(q, "mentor")'
      BY <1>7, <1>9 DEF RepliedOnce
    <3> QED BY <1>1, <3>1, <3>2 DEF RepliedOnce, Message
  <2> QED BY <1>1, <1>3, <2>1 DEF OwnReply, MentorInv, RepliesFollow, KindOf
<1>11. OwnPrompt(q)
  <2>1. Prompted(q) /\ asked[q].pc # "answered"
    BY <1>4, <1>9 DEF Prompted
  <2> QED BY <1>1, <1>2, <2>1 DEF OwnPrompt, MentorTypeOK
<1>12. OwnPair(q)
  <2>1. Owing(q)'
    BY <1>1 DEF Owing
  <2> QED BY <1>1, <1>3, <2>1, PairStays
<1> QED BY <1>3, <1>5, <1>6, <1>7, <1>8, <1>10, <1>11, <1>12, StepKeeps

\* Nothing has been asked at first.
LEMMA InitMentorInv == MentorInit => MentorInv
<1> SUFFICES ASSUME MentorInit PROVE MentorInv
  OBVIOUS
<1>1. PICK kinds \in Mixes :
          asked = [q \in Questions |-> [pc |-> "new", kind |-> kinds[q], session |-> 0]]
  BY DEF MentorInit
<1>2. kinds \in [Questions -> QuestionKinds]
  BY MentorAssumption
<1>3. /\ asked \in AskedRows
      /\ \A q \in Questions : asked[q].pc = "new" /\ asked[q].session = 0
  BY <1>1, <1>2 DEF AskedRows, AskedStates, Early
<1>4. /\ sessions = <<>> /\ talk = <<>> /\ heard = [q \in Questions |-> {}] /\ memory = {}
      /\ queued = [q \in Questions |-> 0] /\ delivered = [q \in Questions |-> 0]
      /\ worker = [w \in Workers |-> [pc |-> "idle", question |-> Somebody]]
      /\ doubled = {} /\ abandoned = {}
  BY DEF MentorInit, Somebody
<1>5. worker \in WorkerRows /\ \A w \in Workers : worker[w].pc = "idle"
  BY <1>4 DEF WorkerRows
<1>6. sessions \in Seq(Pairs) /\ talk \in Seq(Messages) /\ Len(sessions) = 0 /\ Len(talk) = 0
  BY <1>4
<1>7. MentorTypeOK
  BY <1>3, <1>4, <1>5, <1>6 DEF MentorTypeOK
<1>8. QuestionsFit /\ WorkersFit
  BY <1>3, <1>4, <1>5 DEF QuestionsFit, QuestionFits, WorkersFit
<1>9. TalkFits /\ PromptsFollow /\ PairsFollow
  BY <1>6 DEF TalkFits, PromptsFollow, PairsFollow
<1>10. RepliesFollow
  BY <1>5, <1>6 DEF RepliesFollow, RepliedOnce, Serves
<1>11. MemoryFits
  BY <1>3, <1>4 DEF MemoryFits, WasSaved, ForgottenOnlyByOverlap, KindOf
<1> QED BY <1>7, <1>8, <1>9, <1>10, <1>11 DEF MentorInv

\* Every step keeps what the replies rest on.
LEMMA NextMentorInv == MentorInv /\ [MentorNext]_mentorVars => MentorInv'
<1> SUFFICES ASSUME MentorInv, [MentorNext]_mentorVars PROVE MentorInv'
  OBVIOUS
<1>1. ASSUME NEW q \in Questions, NEW mode \in {"sync", "live", "async"}, LookForSession(q, mode)
      PROVE  MentorInv'
  BY <1>1, LookForSessionMentorInv
<1>2. ASSUME NEW q \in Questions,
             \/ Enter(q, "async", "entered") \/ Enqueue(q) \/ Tell(q) \/ Redeliver(q)
             \/ SaveNow(q) \/ StoreNow(q)
             \/ Enter(q, "live", "opened") \/ AskLive(q) \/ HearLive(q) \/ ReplyLive(q)
             \/ Fail(q)
      PROVE  MentorInv'
  <2>1. CASE Enter(q, "async", "entered") \/ Enter(q, "live", "opened")
    BY <2>1, EnterMentorInv
  <2>2. CASE Enqueue(q) \/ Tell(q) \/ Redeliver(q) \/ SaveNow(q) \/ StoreNow(q)
    BY <2>2, EnqueueMentorInv, TellMentorInv, RedeliverMentorInv, SaveNowMentorInv,
       StoreNowMentorInv
  <2>3. CASE AskLive(q) \/ HearLive(q) \/ ReplyLive(q) \/ Fail(q)
    BY <2>3, AskLiveMentorInv, HearLiveMentorInv, ReplyLiveMentorInv, FailMentorInv
  <2> QED BY <1>2, <2>1, <2>2, <2>3
<1>3. ASSUME NEW w \in Workers, Die(w) \/ SaveSession(w) \/ Reply(w)
      PROVE  MentorInv'
  <2>1. PICK q : q = worker[w].question
    OBVIOUS
  <2> QED BY <1>3, <2>1, DieMentorInv, SaveSessionMentorInv, ReplyMentorInv
<1>4. ASSUME NEW w \in Workers, NEW q \in Questions, Take(w, q)
      PROVE  MentorInv'
  BY <1>4, TakeMentorInv
<1>5. CASE UNCHANGED mentorVars
  <2>1. UNCHANGED <<sessions, asked, talk, heard, memory, queued, delivered, worker, doubled,
                    abandoned>>
    BY <1>5 DEF mentorVars
  <2>2. MentorTypeOK' /\ QuestionsFit'
    BY <2>1 DEF MentorInv, MentorTypeOK, QuestionsFit, QuestionFits, KindOf
  <2>3. WorkersFit' /\ TalkFits'
    BY <2>1 DEF MentorInv, WorkersFit, TalkFits
  <2>4. RepliesFollow'
    BY <2>1 DEF MentorInv, RepliesFollow, RepliedOnce, Serves, Said, Message, KindOf
  <2>5. PromptsFollow'
    BY <2>1 DEF MentorInv, PromptsFollow, HasHeard, Prompted, Serves, Said, Message, KindOf
  <2>6. MemoryFits'
    BY <2>1 DEF MentorInv, MemoryFits, WasSaved, ForgottenOnlyByOverlap, Message, KindOf
  <2>7. PairsFollow'
    BY <2>1 DEF MentorInv, PairsFollow, Owing, Serves, Said, Message
  <2> QED BY <2>2, <2>3, <2>4, <2>5, <2>6, <2>7 DEF MentorInv
<1> QED BY <1>1, <1>2, <1>3, <1>4, <1>5 DEF MentorNext, Work

\* From it follows what a user sees.
LEMMA MentorInvReplies ==
    ASSUME MentorInv
    PROVE  RepliesAreInPlace
<1>1. SessionShowsAPair
  <2> SUFFICES ASSUME NEW s \in 1..Len(sessions), Resting(s), sessions[s].kind # "chat",
                      sessions[s].question # sessions[s].answer
               PROVE  FALSE
    BY DEF SessionShowsAPair
  <2>1. PICK q \in Questions : asked[q].session = s /\ Owing(q)
    BY DEF MentorInv, PairsFollow
  <2>2. /\ q \notin abandoned /\ asked[q].pc \in {"told", "answered"} /\ queued[q] = 0
        /\ \A w \in Workers : ~Serves(w, q)
    BY <2>1 DEF Resting, Serves
  <2> QED BY <2>1, <2>2 DEF Owing
<1>2. OneReplyUnlessDoubled
  <2> SUFFICES ASSUME NEW q \in Questions, KindOf(q) # "chart", q \notin doubled
               PROVE  ~(Cardinality({i \in 1..Len(talk) : talk[i] = Message(q, "mentor")}) > 1)
    BY DEF OneReplyUnlessDoubled
  <2> DEFINE replies == {i \in 1..Len(talk) : talk[i] = Message(q, "mentor")}
  <2>1. \A i, j \in replies : i = j
    BY DEF MentorInv, RepliesFollow, RepliedOnce
  <2> HIDE DEF replies
  <2>2. CASE replies = {}
    <3>1. Cardinality(replies) = 0
      BY <2>2, FS_EmptySet
    <3> QED BY <3>1 DEF replies
  <2>3. CASE replies # {}
    <3>1. PICK i \in replies : TRUE
      BY <2>3
    <3>2. replies = {i}
      BY <2>1
    <3>3. Cardinality(replies) = 1
      BY <3>2, FS_Singleton
    <3> QED BY <3>3 DEF replies
  <2> QED BY <2>2, <2>3
<1>3. PromptHasTheTalk
  <2> SUFFICES ASSUME NEW i \in 1..Len(talk), NEW j \in 1..Len(talk), NEW q, q = talk[j].of,
                      i < j, talk[j].role = "user", Said(q, "mentor"), asked[q].pc # "answered",
                      asked[talk[i].of].session = asked[q].session, KindOf(q) # "chart"
               PROVE  talk[i] \in heard[q]
    BY DEF PromptHasTheTalk
  <2>1. q \in Questions /\ talk[j] = Message(q, "user")
    <3>1. talk[j] \in Messages
      BY DEF MentorInv, MentorTypeOK
    <3> QED BY <3>1 DEF Messages, Message
  <2>2. HasHeard(i, q)
    BY <2>1 DEF MentorInv, PromptsFollow
  <2> QED BY <2>2 DEF HasHeard, Prompted
<1> QED BY <1>1, <1>2, <1>3 DEF RepliesAreInPlace, MentorInv, MemoryFits

\* A session at rest shows an answer to the question it shows, a question that is looked up has
\* one reply unless two workers ran it at once, and prompts and the memory lack only what
\* overlapped (apps/mentor): for any number of questions of each kind, workers, deliveries and
\* deaths.
THEOREM RepliesStayInPlace == MentorSpec => []RepliesAreInPlace
<1>1. MentorInv => RepliesAreInPlace
  BY MentorInvReplies
<1> QED BY <1>1, InitMentorInv, NextMentorInv, PTL DEF MentorSpec

=============================================================================
