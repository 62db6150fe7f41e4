--------------------------- MODULE MessagingProofs ---------------------------
(***************************************************************************)
(* Proofs about Messaging, for any number of members, keys and requests.   *)
(*                                                                         *)
(* What a thread holds depends on what its requests still have in hand:    *)
(* InOrder says what a request at each step is, has taken and has listed,  *)
(* IdsAreApart that no two sends took one id, KeysAreHeld that a key which *)
(* is inserted and not decided belongs to one transaction and to no stored *)
(* message, and RowsHaveSends where the stored messages come from.         *)
(***************************************************************************)
EXTENDS Messaging, FiniteSetTheorems, TLAPS

\* The sends that took an id.
Holding == {r \in SendsBegun : id[r] # 0}

\* The ids given are those taken, and no more than the sends the bound admits.
IdsAreCounted ==
    /\ given = Cardinality(Holding)
    /\ Cardinality(SendsBegun) <= MaxMessages

\* Where a request stands tells what it is, and what it has in hand.
InOrder ==
    \A r \in Requests :
        /\ pc[r] = "new" => op[r] = NoOperation
        /\ pc[r] \in {"lookup", "insert", "touch", "commit"} => op[r] \in Sends
        /\ pc[r] \in {"load", "deliver"} => op[r] \in Acks
        /\ pc[r] \in {"target", "member", "advance", "list", "mark"} => op[r] \in Reads
        /\ pc[r] # "ended" => answer[r] = "none"
        /\ pc[r] \in {"new", "lookup", "load", "target"} => id[r] = 0
        /\ pc[r] \in {"insert", "touch", "commit"} => id[r] # 0 /\ id[r] \notin Committed
        /\ pc[r] = "deliver" => id[r] \in Committed
        /\ pc[r] = "mark" => \A m \in listed[r] : /\ m \in Committed
                                                  /\ m <= id[r]
                                                  /\ message[m].sender # op[r].user

\* An id belongs to one send, and was given.
IdsAreApart ==
    /\ \A r \in Holding : id[r] <= given
    /\ \A r, s \in Holding : id[r] = id[s] => r = s

\* A key that is inserted and not decided is one transaction's and not stored.
KeysAreHeld ==
    \A r \in Requests : Inserted(r) /\ HasUuid(r) =>
        /\ \A m \in Committed : message[m].uuid # op[r].uuid
        /\ \A s \in Requests : Inserted(s) /\ op[s].uuid = op[r].uuid => s = r

\* A stored message is what a send that was answered put there.
RowsHaveSends ==
    \A m \in Committed : \E r \in Holding : id[r] = m /\ answer[r] = "created"

MessagingInv ==
    /\ IdsAreCounted /\ InOrder /\ IdsAreApart /\ KeysAreHeld /\ RowsHaveSends
    /\ StoredOncePerUuid /\ SendAnswerIsTrue /\ ReadByARecipient /\ TimesMatchStatus

-----------------------------------------------------------------------------
\* A set of ids that is not empty has a largest: of the sets of ids above a
\* member, one has no smaller among them.
LEMMA MaxIsMember ==
    ASSUME NEW S \in SUBSET Ids, S # {}
    PROVE  Max(S) \in S
<1> DEFINE Over(m) == {n \in S : n > m}
           T == {Over(m) : m \in S}
<1>0. IsFiniteSet(S)
  <2>1. IsFiniteSet(Ids)
    BY FS_Interval, MessagingAssumption DEF Ids
  <2> QED BY <2>1, FS_Subset
<1>1. T \subseteq FiniteSubsetsOf(S) /\ T # {}
  <2>1. T \subseteq SUBSET S /\ T # {}
    OBVIOUS
  <2> QED BY <2>1, <1>0, FS_FiniteSubsetsOfFinite
<1>2. \E x \in T : \A y \in T : ~(<<y, x>> \in StrictSubsetOrdering(S))
  <2> HIDE DEF T
  <2> QED BY <1>1, FS_StrictSubsetOrderingWellFounded, WFMin
<1>3. PICK m \in S : \A y \in T : ~(<<y, Over(m)>> \in StrictSubsetOrdering(S))
  BY <1>2
<1>4. \A n \in S : m >= n
  <2> SUFFICES ASSUME NEW n \in S, n > m PROVE FALSE
    BY MessagingAssumption DEF Ids
  <2>0. m \in Int /\ n \in Int /\ \A k \in S : k \in Int
    BY MessagingAssumption DEF Ids
  <2>1. Over(n) \subseteq Over(m) /\ n \in Over(m) /\ n \notin Over(n)
    <3>1. \A k \in S : k > n => k > m
      BY <2>0
    <3>2. ~(n > n)
      BY <2>0
    <3> QED BY <3>1, <3>2
  <2>2. <<Over(n), Over(m)>> \in StrictSubsetOrdering(S)
    BY <2>1 DEF StrictSubsetOrdering
  <2> QED BY <1>3, <2>2
<1> QED BY <1>4 DEF Max

\* What is stored is a row, and a row is stored.
LEMMA StoredIsARow ==
    ASSUME TypeOK
    PROVE  /\ \A m \in Ids : m \in Committed <=> message[m] \in Row
           /\ \A m \in Committed : m \in Ids /\ message[m] \in Row
           /\ 0 \notin Committed
<1>1. Absent \notin Row
  BY DEF Row, Absent, Statuses
<1> QED
  BY <1>1, MessagingAssumption DEF TypeOK, Committed, Stored, Ids

\* The kinds of an operation.
LEMMA KindsOfOperations ==
    ASSUME TypeOK, NEW r \in Requests
    PROVE  /\ op[r].kind = "send" <=> op[r] \in Sends
           /\ op[r].kind = "ack" <=> op[r] \in Acks
           /\ op[r].kind = "read" <=> op[r] \in Reads
           /\ op[r].kind = "none" <=> op[r] = NoOperation
BY DEF TypeOK, Sends, Acks, Reads, NoOperation

\* The counted sets are finite.
LEMMA CountsAreFinite ==
    /\ IsFiniteSet(SendsBegun) /\ Cardinality(SendsBegun) \in Nat
    /\ IsFiniteSet(Holding) /\ Cardinality(Holding) \in Nat
    /\ Cardinality(Holding) <= Cardinality(SendsBegun)
<1>1. IsFiniteSet(SendsBegun)
  <2>1. SendsBegun \in SUBSET Requests
    BY DEF SendsBegun
  <2> QED BY <2>1, FS_Subset, MessagingAssumption
<1>2. Holding \in SUBSET SendsBegun
  BY DEF Holding
<1> QED BY <1>1, <1>2, FS_Subset, FS_CardinalityType

\* A send that takes an id is within the bound.
LEMMA OneMoreFits ==
    ASSUME IdsAreCounted, NEW r \in SendsBegun, id[r] = 0
    PROVE  given \in Nat /\ given + 1 \in Ids
<1>1. Holding \cup {r} \in SUBSET SendsBegun /\ r \notin Holding
  BY DEF Holding
<1>2. /\ Cardinality(Holding \cup {r}) = Cardinality(Holding) + 1
      /\ Cardinality(Holding \cup {r}) <= Cardinality(SendsBegun)
  BY <1>1, CountsAreFinite, FS_AddElement, FS_Subset
<1> QED
  BY <1>2, CountsAreFinite, MessagingAssumption DEF IdsAreCounted, Ids

LEMMA InitTypeOK == Init => TypeOK
BY MessagingAssumption DEF Init, TypeOK, Ids

LEMMA InitMessagingInv == Init => MessagingInv
<1> SUFFICES ASSUME Init PROVE MessagingInv
  OBVIOUS
<1>1. Committed = {}
  BY DEF Init, Committed, Stored, Absent
<1>2. SendsBegun = {} /\ Holding = {}
  BY DEF Init, SendsBegun, Holding, NoOperation
<1>3. IdsAreCounted
  BY <1>2, FS_EmptySet, MessagingAssumption DEF Init, IdsAreCounted
<1> QED
  BY <1>1, <1>2, <1>3 DEF Init, MessagingInv, InOrder, IdsAreApart, KeysAreHeld,
     RowsHaveSends, Inserted, StoredOncePerUuid, SendAnswerIsTrue, ReadByARecipient,
     TimesMatchStatus, NoOperation

\* Every step keeps the state well formed.
LEMMA NextTypeOK == TypeOK /\ IdsAreCounted /\ InOrder /\ [Next]_vars => TypeOK'
<1> SUFFICES ASSUME TypeOK, IdsAreCounted, InOrder, [Next]_vars PROVE TypeOK'
  OBVIOUS
<1> USE DEF TypeOK, Working, GoTo, End, store
<1>1. ASSUME NEW r \in Requests, Begin(r) PROVE TypeOK'
  <2>1. PICK o \in Sends \cup Acks \cup Reads : op' = [op EXCEPT ![r] = o]
    BY <1>1 DEF Begin
  <2>2. o.kind \in {"send", "ack", "read"}
    BY DEF Sends, Acks, Reads
  <2>3. pc' \in [Requests -> Working \cup {"new", "ended"}] /\ UNCHANGED answer
    BY <1>1, <2>1 DEF Begin, Sends, Acks, Reads
  <2> QED
    BY <1>1, <2>1, <2>3 DEF Begin
<1>2. ASSUME NEW r \in Requests, LookUp(r) PROVE TypeOK'
  <2>1. CASE pc'[r] = "ended"
    BY <1>2, <2>1 DEF LookUp
  <2>2. CASE given' = given + 1
    <3>1. r \in SendsBegun /\ id[r] = 0
      BY <1>2, KindsOfOperations DEF LookUp, InOrder, SendsBegun
    <3>2. given + 1 \in Ids
      BY <3>1, OneMoreFits
    <3>3. given' \in 0..MaxMessages /\ given' \in Ids
      BY <2>2, <3>2, MessagingAssumption DEF Ids
    <3>4. id' = [id EXCEPT ![r] = given']
      BY <1>2, <2>2, <3>1, OneMoreFits DEF LookUp
    <3>5. pc' \in [Requests -> Working \cup {"new", "ended"}]
      BY <1>2 DEF LookUp
    <3> QED
      BY <1>2, <3>3, <3>4, <3>5 DEF LookUp
  <2> QED BY <1>2, <2>1, <2>2 DEF LookUp
<1>3. ASSUME NEW r \in Requests, Insert(r) \/ Touch(r) PROVE TypeOK'
  BY <1>3 DEF Insert, Touch
<1>4. ASSUME NEW r \in Requests, Commit(r) PROVE TypeOK'
  <2>1. op[r] \in Sends
    BY <1>4 DEF Commit, InOrder
  <2>2. NewMessage(r) \in Row
    BY <2>1 DEF NewMessage, Row, Sends, Statuses
  <2> QED
    BY <1>4, <2>2 DEF Commit, Released
<1>5. ASSUME NEW r \in Requests, Load(r) PROVE TypeOK'
  <2>1. op[r].target \in Ids
    BY <1>5 DEF Load, InOrder, Acks
  <2> QED
    BY <1>5, <2>1 DEF Load
<1>6. ASSUME NEW r \in Requests, Deliver(r) PROVE TypeOK'
  <2>1. id[r] \in Ids /\ message[id[r]] \in Row
    BY <1>6, StoredIsARow DEF Deliver, InOrder
  <2>2. message' = [message EXCEPT ![id[r]] =
                       [@ EXCEPT !.status = "delivered", !.delivered_at = TRUE]]
    BY <1>6 DEF Deliver
  <2>3. [message[id[r]] EXCEPT !.status = "delivered", !.delivered_at = TRUE] \in Row
    BY <2>1 DEF Row, Statuses
  <2> QED
    BY <1>6, <2>1, <2>2, <2>3 DEF Deliver
<1>7. ASSUME NEW r \in Requests, Target(r) PROVE TypeOK'
  <2>1. Committed \in SUBSET Ids
    BY DEF Committed
  <2>2. Committed # {} => Max(Committed) \in Ids
    BY <2>1, MaxIsMember
  <2> QED
    BY <1>7, <2>1, <2>2 DEF Target
<1>8. ASSUME NEW r \in Requests, Member(r) \/ Advance(r) PROVE TypeOK'
  <2>1. op[r].user \in Members
    BY <1>8 DEF Member, Advance, InOrder, Reads
  <2> QED
    BY <1>8, <2>1 DEF Member, Advance
<1>9. ASSUME NEW r \in Requests, List(r) PROVE TypeOK'
  BY <1>9 DEF List, Unread, Committed
<1>10. ASSUME NEW r \in Requests, MarkRead(r) PROVE TypeOK'
  <2>1. CASE UNCHANGED message
    BY <1>10, <2>1 DEF MarkRead
  <2>2. ASSUME NEW m \in listed[r], message' = [message EXCEPT ![m] = Marked(@)]
        PROVE  message' \in [Ids -> Row \cup {Absent}]
    <3>1. m \in Ids /\ message[m] \in Row
      BY <1>10, StoredIsARow DEF MarkRead, InOrder
    <3>2. Marked(message[m]) \in Row
      BY <3>1 DEF Marked, Row, Statuses
    <3> QED BY <2>2, <3>1, <3>2
  <2> QED
    BY <1>10, <2>1, <2>2 DEF MarkRead
<1>11. ASSUME NEW r \in Requests, Crash(r) PROVE TypeOK'
  BY <1>11 DEF Crash, Released
<1>12. CASE UNCHANGED vars
  BY <1>12 DEF vars
<1> QED
  BY <1>1, <1>2, <1>3, <1>4, <1>5, <1>6, <1>7, <1>8, <1>9, <1>10, <1>11, <1>12
     DEF Next, Step

-----------------------------------------------------------------------------
\* No step takes a row away, or gives it another sender or key.
RowsStay ==
    \A m \in Committed : /\ m \in Committed'
                         /\ message'[m].sender = message[m].sender
                         /\ message'[m].uuid = message[m].uuid

\* A commit stores its own new message.
LEMMA CommitStoresOne ==
    ASSUME TypeOK, TypeOK', InOrder, NEW r \in Requests, Commit(r)
    PROVE  /\ op[r] \in Sends /\ id[r] \in Ids \ Committed
           /\ message'[id[r]] = NewMessage(r)
           /\ \A m \in Ids : m # id[r] => message'[m] = message[m]
           /\ Committed' = Committed \cup {id[r]}
           /\ RowsStay
<1>1. op[r] \in Sends /\ id[r] \in Ids \ Committed
  BY DEF TypeOK, InOrder, Commit
<1>2. /\ message'[id[r]] = NewMessage(r)
      /\ \A m \in Ids : m # id[r] => message'[m] = message[m]
  BY <1>1 DEF Commit, TypeOK
<1>3. NewMessage(r) \in Row
  BY <1>1 DEF NewMessage, Row, Sends, Statuses
<1>4. \A m \in Ids : m \in Committed <=> message[m] \in Row
  BY StoredIsARow
<1>5. \A m \in Ids : m \in Committed' <=> message'[m] \in Row
  BY StoredIsARow DEF TypeOK, Committed, Stored, Absent, Row, Statuses
<1>6. Committed \subseteq Ids /\ Committed' \subseteq Ids
  BY DEF Committed
<1>7. Committed' = Committed \cup {id[r]}
  BY <1>1, <1>2, <1>3, <1>4, <1>5, <1>6
<1> QED
  BY <1>1, <1>2, <1>6, <1>7 DEF RowsStay

\* No other step stores a message.
LEMMA OthersStoreNone ==
    ASSUME TypeOK, TypeOK', InOrder, NEW r \in Requests,
           Deliver(r) \/ MarkRead(r) \/ UNCHANGED message
    PROVE  Committed' = Committed /\ RowsStay
<1>1. \A m \in Ids : m \in Committed <=> message[m] \in Row
  BY StoredIsARow
<1>2. \A m \in Ids : m \in Committed' <=> message'[m] \in Row
  BY DEF TypeOK, Committed, Stored, Absent, Row, Statuses
<1>3. Committed \subseteq Ids /\ Committed' \subseteq Ids
  BY DEF Committed
<1>4. CASE UNCHANGED message
  BY <1>4 DEF Committed, Stored, RowsStay
<1>5. ASSUME NEW n \in Committed,
             \A m \in Ids : m # n => message'[m] = message[m],
             /\ message'[n] \in Row
             /\ message'[n].sender = message[n].sender
             /\ message'[n].uuid = message[n].uuid
      PROVE  Committed' = Committed /\ RowsStay
  BY <1>1, <1>2, <1>3, <1>5 DEF RowsStay
<1>6. CASE Deliver(r)
  <2>1. id[r] \in Committed /\ id[r] \in Ids /\ message[id[r]] \in Row
    BY <1>6, StoredIsARow DEF Deliver, InOrder
  <2>2. message' = [message EXCEPT ![id[r]] =
                       [@ EXCEPT !.status = "delivered", !.delivered_at = TRUE]]
    BY <1>6 DEF Deliver
  <2>3. message'[id[r]] =
            [message[id[r]] EXCEPT !.status = "delivered", !.delivered_at = TRUE]
    BY <2>1, <2>2 DEF TypeOK
  <2>4. /\ message'[id[r]] \in Row
        /\ message'[id[r]].sender = message[id[r]].sender
        /\ message'[id[r]].uuid = message[id[r]].uuid
    BY <2>1, <2>3 DEF Row, Statuses
  <2>5. \A m \in Ids : m # id[r] => message'[m] = message[m]
    BY <2>1, <2>2 DEF TypeOK
  <2> QED BY <1>5, <2>1, <2>4, <2>5
<1>7. ASSUME NEW n \in listed[r], MarkRead(r), message' = [message EXCEPT ![n] = Marked(@)]
      PROVE  Committed' = Committed /\ RowsStay
  <2>1. n \in Committed /\ n \in Ids /\ message[n] \in Row
    BY <1>7, StoredIsARow DEF MarkRead, InOrder
  <2>2. message'[n] = Marked(message[n])
    BY <1>7, <2>1 DEF TypeOK
  <2>3. /\ message'[n] \in Row
        /\ message'[n].sender = message[n].sender
        /\ message'[n].uuid = message[n].uuid
    BY <2>1, <2>2 DEF Marked, Row, Statuses
  <2>4. \A m \in Ids : m # n => message'[m] = message[m]
    BY <1>7, <2>1 DEF TypeOK
  <2> QED BY <1>5, <2>1, <2>3, <2>4
<1> QED
  BY <1>4, <1>6, <1>7 DEF MarkRead

\* What a step of one request leaves of the others.
LEMMA OthersAreLeft ==
    ASSUME TypeOK, NEW r \in Requests, Begin(r) \/ Step(r) \/ Crash(r)
    PROVE  \A s \in Requests : s # r => /\ pc'[s] = pc[s] /\ op'[s] = op[s]
                                        /\ id'[s] = id[s] /\ listed'[s] = listed[s]
                                        /\ answer'[s] = answer[s]
BY DEF TypeOK, Begin, Step, Crash, GoTo, End, LookUp, Insert, Touch, Commit, Load,
       Deliver, Target, Member, Advance, List, MarkRead

\* A send takes at most one id, and the one after all that were given.
LEMMA CountsStay == TypeOK /\ IdsAreCounted /\ IdsAreApart /\ InOrder /\ [Next]_vars
                        => IdsAreCounted' /\ IdsAreApart'
<1> SUFFICES ASSUME TypeOK, IdsAreCounted, IdsAreApart, InOrder, [Next]_vars
             PROVE  IdsAreCounted' /\ IdsAreApart'
  OBVIOUS
<1>0. \A r \in Holding : r \in Requests /\ id[r] \in Ids
  BY MessagingAssumption DEF Holding, SendsBegun, TypeOK
<1>1. ASSUME UNCHANGED given, SendsBegun' = SendsBegun,
             \A r \in SendsBegun : id'[r] = id[r]
      PROVE  IdsAreCounted' /\ IdsAreApart'
  <2>1. Holding' = Holding
    BY <1>1 DEF Holding
  <2>2. \A r \in Holding : id'[r] = id[r]
    BY <1>1 DEF Holding
  <2> QED BY <1>1, <2>1, <2>2 DEF IdsAreCounted, IdsAreApart
<1>2. ASSUME NEW r \in Requests, Begin(r) PROVE IdsAreCounted' /\ IdsAreApart'
  <2>1. PICK o \in Sends \cup Acks \cup Reads :
            /\ o.kind = "send" => Cardinality(SendsBegun) < MaxMessages
            /\ op' = [op EXCEPT ![r] = o]
    BY <1>2 DEF Begin
  <2>2. id[r] = 0 /\ op[r] = NoOperation /\ UNCHANGED <<given, id>> /\ r \notin SendsBegun
    BY <1>2 DEF Begin, InOrder, store, SendsBegun, NoOperation
  <2>3. CASE o.kind = "send"
    <3>1. SendsBegun' = SendsBegun \cup {r}
      BY <2>1, <2>2, <2>3 DEF SendsBegun, TypeOK
    <3>2. Holding' = Holding
      BY <2>2, <3>1 DEF Holding
    <3>3. Cardinality(SendsBegun') <= MaxMessages
      <4>1. Cardinality(SendsBegun \cup {r}) = Cardinality(SendsBegun) + 1
        BY <2>2, CountsAreFinite, FS_AddElement
      <4>2. Cardinality(SendsBegun) < MaxMessages
        BY <2>1, <2>3
      <4> QED
        BY <3>1, <4>1, <4>2, CountsAreFinite, MessagingAssumption
    <3>4. IdsAreCounted'
      BY <2>2, <3>2, <3>3 DEF IdsAreCounted
    <3>5. IdsAreApart'
      BY <2>2, <3>2 DEF IdsAreApart
    <3> QED BY <3>4, <3>5
  <2>4. CASE o.kind # "send"
    <3>1. SendsBegun' = SendsBegun
      BY <2>1, <2>2, <2>4 DEF SendsBegun, TypeOK
    <3> QED BY <1>1, <2>2, <3>1
  <2> QED BY <2>3, <2>4
<1>3. ASSUME NEW r \in Requests, LookUp(r) PROVE IdsAreCounted' /\ IdsAreApart'
  <2>0. SendsBegun' = SendsBegun
    BY <1>3 DEF LookUp, SendsBegun
  <2>1. CASE UNCHANGED <<given, id>>
    BY <1>1, <2>0, <2>1
  <2>2. CASE given' = given + 1 /\ id' = [id EXCEPT ![r] = given']
    <3>1. r \in SendsBegun /\ id[r] = 0
      BY <1>3, KindsOfOperations DEF LookUp, InOrder, SendsBegun
    <3>2. given \in Nat /\ given + 1 \in Ids
      BY <3>1, OneMoreFits
    <3>3. id'[r] = given + 1 /\ \A s \in Requests : s # r => id'[s] = id[s]
      BY <2>2 DEF TypeOK
    <3>4. Holding' = Holding \cup {r} /\ r \notin Holding
      BY <2>0, <3>1, <3>2, <3>3 DEF Holding, SendsBegun
    <3>5. Cardinality(Holding') = Cardinality(Holding) + 1
      BY <3>4, CountsAreFinite, FS_AddElement
    <3>6. IdsAreCounted'
      BY <2>0, <2>2, <3>5 DEF IdsAreCounted
    <3>7. \A s \in Holding : id'[s] = id[s] /\ id[s] <= given /\ id[s] \in Int
      BY <1>0, <3>3, <3>4, MessagingAssumption DEF IdsAreApart, Ids
    <3>8. IdsAreApart'
      BY <2>2, <3>2, <3>3, <3>4, <3>7 DEF IdsAreApart
    <3> QED BY <3>6, <3>8
  <2> QED BY <1>3, <2>1, <2>2 DEF LookUp
<1>4. ASSUME NEW r \in Requests, Load(r) \/ Target(r) \/ Member(r)
      PROVE  IdsAreCounted' /\ IdsAreApart'
  <2>1. r \notin SendsBegun
    BY <1>4, KindsOfOperations DEF Load, Target, Member, InOrder, SendsBegun, Sends, Acks, Reads
  <2>2. UNCHANGED <<given, op>>
    BY <1>4 DEF Load, Target, Member, store
  <2>3. \A s \in Requests : s # r => id'[s] = id[s]
    BY <1>4, OthersAreLeft DEF Step
  <2>4. SendsBegun' = SendsBegun
    BY <2>2 DEF SendsBegun
  <2> QED BY <1>1, <2>1, <2>2, <2>3, <2>4 DEF SendsBegun
<1>5. ASSUME NEW r \in Requests,
             \/ Insert(r) \/ Touch(r) \/ Commit(r) \/ Deliver(r)
             \/ Advance(r) \/ List(r) \/ MarkRead(r) \/ Crash(r)
      PROVE  IdsAreCounted' /\ IdsAreApart'
  <2>1. UNCHANGED <<given, op, id>>
    BY <1>5 DEF Insert, Touch, Commit, Deliver, Advance, List, MarkRead, Crash, store
  <2> QED BY <1>1, <2>1 DEF SendsBegun
<1>6. CASE UNCHANGED vars
  BY <1>1, <1>6 DEF vars, SendsBegun
<1> QED
  BY <1>2, <1>3, <1>4, <1>5, <1>6 DEF Next, Step

\* A request goes through its steps in order; what it has in hand stays so while the
\* others move.
LEMMA InOrderStays ==
    TypeOK /\ TypeOK' /\ IdsAreCounted /\ IdsAreApart /\ RowsHaveSends /\ InOrder
        /\ [Next]_vars => InOrder'
<1> SUFFICES ASSUME TypeOK, TypeOK', IdsAreCounted, IdsAreApart, RowsHaveSends, InOrder, [Next]_vars
             PROVE  InOrder'
  OBVIOUS
<1> DEFINE InOrderAt(r) ==
        /\ pc[r] = "new" => op[r] = NoOperation
        /\ pc[r] \in {"lookup", "insert", "touch", "commit"} => op[r] \in Sends
        /\ pc[r] \in {"load", "deliver"} => op[r] \in Acks
        /\ pc[r] \in {"target", "member", "advance", "list", "mark"} => op[r] \in Reads
        /\ pc[r] # "ended" => answer[r] = "none"
        /\ pc[r] \in {"new", "lookup", "load", "target"} => id[r] = 0
        /\ pc[r] \in {"insert", "touch", "commit"} => id[r] # 0 /\ id[r] \notin Committed
        /\ pc[r] = "deliver" => id[r] \in Committed
        /\ pc[r] = "mark" => \A m \in listed[r] : /\ m \in Committed
                                                  /\ m <= id[r]
                                                  /\ message[m].sender # op[r].user
<1>0. \A r \in Requests : InOrderAt(r)
  BY DEF InOrder
<1>1. ASSUME UNCHANGED vars PROVE InOrder'
  BY <1>0, <1>1 DEF vars, InOrder, Committed, Stored
<1>2. ASSUME NEW r \in Requests, Begin(r) \/ Step(r) \/ Crash(r), RowsStay,
             Committed' = Committed \/ Commit(r), InOrderAt(r)'
      PROVE  InOrder'
  <2>1. ASSUME NEW s \in Requests, s # r PROVE InOrderAt(s)'
    <3>1. /\ pc'[s] = pc[s] /\ op'[s] = op[s] /\ id'[s] = id[s]
          /\ listed'[s] = listed[s] /\ answer'[s] = answer[s]
      BY <1>2, <2>1, OthersAreLeft
    <3>2. InOrderAt(s)
      BY <1>0
    <3>3. pc[s] \in {"insert", "touch", "commit"} => id[s] \notin Committed'
      <4>1. CASE Committed' = Committed
        BY <3>2, <4>1
      <4>2. CASE Commit(r)
        <5>1. Committed' = Committed \cup {id[r]} /\ op[r] \in Sends
          BY <4>2, CommitStoresOne
        <5>2. id[r] # 0
          BY <1>0, <4>2 DEF Commit
        <5>3. pc[s] \in {"insert", "touch", "commit"} => s \in Holding /\ r \in Holding
          BY <3>2, <5>1, <5>2, KindsOfOperations DEF Holding, SendsBegun
        <5> QED BY <2>1, <3>2, <5>1, <5>3 DEF IdsAreApart
      <4> QED BY <1>2, <4>1, <4>2
    <3>4. \A m \in Committed : m \in Committed' /\ message'[m].sender = message[m].sender
      BY <1>2 DEF RowsStay
    <3> QED BY <3>1, <3>2, <3>3, <3>4
  <2> QED BY <1>2, <2>1 DEF InOrder
<1>3. ASSUME NEW r \in Requests, Begin(r) PROVE InOrder'
  <2>1. PICK o \in Sends \cup Acks \cup Reads :
            /\ op' = [op EXCEPT ![r] = o]
            /\ GoTo(r, CASE o.kind = "send" -> "lookup"
                         [] o.kind = "ack"  -> "load"
                         [] o.kind = "read" -> "target")
    BY <1>3 DEF Begin
  <2>2. op'[r] = o /\ id'[r] = 0 /\ answer'[r] = "none" /\ UNCHANGED message
    BY <1>0, <1>3, <2>1 DEF Begin, TypeOK, GoTo, store
  <2>3. \/ pc'[r] = "lookup" /\ o \in Sends
        \/ pc'[r] = "load" /\ o \in Acks
        \/ pc'[r] = "target" /\ o \in Reads
    BY <1>3, <2>1 DEF TypeOK, GoTo, Sends, Acks, Reads
  <2>4. InOrderAt(r)'
    BY <2>2, <2>3
  <2> QED BY <1>2, <1>3, <2>2, <2>4, OthersStoreNone
<1>4. ASSUME NEW r \in Requests, LookUp(r) PROVE InOrder'
  <2>0. UNCHANGED message
    BY <1>4 DEF LookUp
  <2>1. r \in SendsBegun /\ id[r] = 0
    BY <1>0, <1>4, KindsOfOperations DEF LookUp, SendsBegun
  <2>2. given + 1 \in Ids /\ given \in Nat
    BY <2>1, OneMoreFits
  <2>3. given + 1 \notin Committed
    BY <2>2 DEF RowsHaveSends, IdsAreApart
  <2>4. InOrderAt(r)'
    BY <1>0, <1>4, <2>0, <2>2, <2>3, MessagingAssumption
       DEF LookUp, TypeOK, GoTo, End, Committed, Stored, Ids
  <2> QED BY <1>2, <1>4, <2>0, <2>4, OthersStoreNone DEF Step
<1>5. ASSUME NEW r \in Requests, Insert(r) \/ Touch(r) PROVE InOrder'
  <2>0. UNCHANGED message
    BY <1>5 DEF Insert, Touch, store
  <2>1. InOrderAt(r)'
    BY <1>0, <1>5, <2>0 DEF Insert, Touch, TypeOK, GoTo, End, Committed, Stored, store
  <2> QED BY <1>2, <1>5, <2>0, <2>1, OthersStoreNone DEF Step
<1>6. ASSUME NEW r \in Requests, Commit(r) PROVE InOrder'
  <2>1. pc'[r] = "ended"
    BY <1>6 DEF Commit, End, TypeOK
  <2> QED BY <1>2, <1>6, <2>1, CommitStoresOne DEF Step
<1>7. ASSUME NEW r \in Requests, Load(r) PROVE InOrder'
  <2>0. UNCHANGED message
    BY <1>7 DEF Load, store
  <2>1. op[r].target \in Ids
    BY <1>0, <1>7 DEF Load, Acks
  <2>2. InOrderAt(r)'
    BY <1>0, <1>7, <2>0, <2>1 DEF Load, TypeOK, GoTo, End, Committed, Stored, store
  <2> QED BY <1>2, <1>7, <2>0, <2>2, OthersStoreNone DEF Step
<1>8. ASSUME NEW r \in Requests, Deliver(r) PROVE InOrder'
  <2>1. pc'[r] = "ended"
    BY <1>8 DEF Deliver, End, TypeOK
  <2> QED BY <1>2, <1>8, <2>1, OthersStoreNone DEF Step
<1>9. ASSUME NEW r \in Requests, Target(r) \/ Member(r) \/ Advance(r) PROVE InOrder'
  <2>0. UNCHANGED message
    BY <1>9 DEF Target, Member, Advance, store
  <2>1. pc'[r] \in {"ended", "member", "advance", "list"} /\ op'[r] = op[r] /\ op[r] \in Reads
        /\ (pc'[r] # "ended" => answer'[r] = "none")
    BY <1>0, <1>9 DEF Target, Member, Advance, TypeOK, GoTo, End, store
  <2>2. InOrderAt(r)'
    BY <2>1
  <2> QED BY <1>2, <1>9, <2>0, <2>2, OthersStoreNone DEF Step
<1>10. ASSUME NEW r \in Requests, List(r) PROVE InOrder'
  <2>0. UNCHANGED message
    BY <1>10 DEF List, store
  <2>1. pc'[r] = "mark" /\ op'[r] = op[r] /\ id'[r] = id[r] /\ op[r] \in Reads
        /\ answer'[r] = "none" /\ listed'[r] = Unread(r)
    BY <1>0, <1>10 DEF List, TypeOK, GoTo, store
  <2>2. InOrderAt(r)'
    BY <2>0, <2>1 DEF Unread, Committed, Stored
  <2> QED BY <1>2, <1>10, <2>0, <2>2, OthersStoreNone DEF Step
<1>11. ASSUME NEW r \in Requests, MarkRead(r) PROVE InOrder'
  <2>0. Committed' = Committed /\ RowsStay
    BY <1>11, OthersStoreNone
  <2>1. /\ pc'[r] \in {"ended", "mark"} /\ op'[r] = op[r] /\ id'[r] = id[r] /\ op[r] \in Reads
        /\ listed'[r] \subseteq listed[r] /\ (pc'[r] = "mark" => answer'[r] = "none")
    BY <1>0, <1>11 DEF MarkRead, TypeOK, GoTo, End
  <2>2. pc[r] = "mark"
    BY <1>11 DEF MarkRead
  <2>3. InOrderAt(r)'
    BY <1>0, <2>0, <2>1, <2>2 DEF RowsStay
  <2> QED BY <1>2, <1>11, <2>0, <2>3 DEF Step
<1>12. ASSUME NEW r \in Requests, Crash(r) PROVE InOrder'
  <2>1. pc'[r] = "ended" /\ UNCHANGED message
    BY <1>12 DEF Crash, End, TypeOK
  <2> QED BY <1>2, <1>12, <2>1, OthersStoreNone
<1> QED
  BY <1>1, <1>3, <1>4, <1>5, <1>6, <1>7, <1>8, <1>9, <1>10, <1>11, <1>12 DEF Next, Step

\* What each step does to the rows, seen from the invariants.
LEMMA RowsChange ==
    ASSUME TypeOK, TypeOK', InOrder, [Next]_vars
    PROVE  /\ RowsStay
           /\ \A m \in Committed' \ Committed :
                 \E r \in Requests : Commit(r) /\ m = id[r]
<1>1. CASE UNCHANGED vars
  BY <1>1 DEF vars, RowsStay, Committed, Stored
<1>2. ASSUME NEW r \in Requests, Begin(r) \/ Step(r) \/ Crash(r)
      PROVE  /\ RowsStay
             /\ \A m \in Committed' \ Committed : Commit(r) /\ m = id[r]
  <2>1. CASE Commit(r)
    BY <2>1, CommitStoresOne
  <2>2. CASE ~Commit(r)
    <3>1. Deliver(r) \/ MarkRead(r) \/ UNCHANGED message
      BY <1>2, <2>2 DEF Begin, Step, Crash, store, LookUp, Insert, Touch, Load, Target,
         Member, Advance, List
    <3> QED BY <3>1, OthersStoreNone
  <2> QED BY <2>1, <2>2
<1> QED
  BY <1>1, <1>2 DEF Next

\* A request that moves had not ended, and inserts its key only by Insert.
LEMMA OwnStep ==
    ASSUME TypeOK, NEW r \in Requests, Begin(r) \/ Step(r) \/ Crash(r)
    PROVE  /\ pc[r] # "ended"
           /\ pc'[r] \in {"touch", "commit"} =>
                 op'[r] = op[r] /\ (pc[r] \in {"touch", "commit"} \/ Insert(r))
<1> USE DEF TypeOK, GoTo, End, Working
<1>1. CASE Begin(r)
  <2>1. pc'[r] \in {"lookup", "load", "target"}
    BY <1>1 DEF Begin, Sends, Acks, Reads
  <2> QED BY <1>1, <2>1 DEF Begin
<1>2. CASE LookUp(r) \/ Touch(r) \/ Commit(r)
  BY <1>2 DEF LookUp, Touch, Commit
<1>3. CASE Insert(r)
  BY <1>3 DEF Insert
<1>4. CASE Load(r) \/ Deliver(r) \/ Target(r) \/ Member(r) \/ Advance(r) \/ List(r)
  BY <1>4 DEF Load, Deliver, Target, Member, Advance, List
<1>5. CASE MarkRead(r) \/ Crash(r)
  BY <1>5 DEF MarkRead, Crash
<1> QED
  BY <1>1, <1>2, <1>3, <1>4, <1>5 DEF Step

\* An answered send keeps its answer, its operation and its id.
LEMMA EndedStays ==
    ASSUME TypeOK, [Next]_vars
    PROVE  \A r \in Requests : pc[r] = "ended" =>
               pc'[r] = pc[r] /\ op'[r] = op[r] /\ id'[r] = id[r] /\ answer'[r] = answer[r]
<1>1. CASE UNCHANGED vars
  BY <1>1 DEF vars
<1>2. ASSUME NEW s \in Requests, Begin(s) \/ Step(s) \/ Crash(s)
      PROVE  \A r \in Requests : pc[r] = "ended" =>
               pc'[r] = pc[r] /\ op'[r] = op[r] /\ id'[r] = id[r] /\ answer'[r] = answer[r]
  BY <1>2, OwnStep, OthersAreLeft
<1> QED BY <1>1, <1>2 DEF Next

\* A key is inserted by Insert and by nothing else, and the operation is the same.
LEMMA OnlyInsertInserts ==
    ASSUME TypeOK, [Next]_vars, NEW r \in Requests, Inserted(r)'
    PROVE  op'[r] = op[r] /\ (Inserted(r) \/ Insert(r))
<1>1. CASE UNCHANGED vars
  BY <1>1 DEF vars, Inserted
<1>2. ASSUME NEW s \in Requests, Begin(s) \/ Step(s) \/ Crash(s)
      PROVE  op'[r] = op[r] /\ (Inserted(r) \/ Insert(r))
  <2>1. CASE s = r
    BY <1>2, <2>1, OwnStep DEF Inserted
  <2>2. CASE s # r
    BY <1>2, <2>2, OthersAreLeft DEF Inserted
  <2> QED BY <2>1, <2>2
<1> QED BY <1>1, <1>2 DEF Next

\* A row appears with the answer of its send, and both stay.
LEMMA RowsKeepSends ==
    TypeOK /\ TypeOK' /\ InOrder /\ RowsHaveSends /\ [Next]_vars => RowsHaveSends'
<1> SUFFICES ASSUME TypeOK, TypeOK', InOrder, RowsHaveSends, [Next]_vars,
                    NEW m \in Committed'
             PROVE  \E r \in Holding' : id'[r] = m /\ answer'[r] = "created"
  BY DEF RowsHaveSends
<1>1. CASE m \in Committed
  <2>1. PICK r \in Holding : id[r] = m /\ answer[r] = "created"
    BY <1>1 DEF RowsHaveSends
  <2>2. r \in Requests /\ pc[r] = "ended"
    BY <2>1 DEF Holding, SendsBegun, InOrder
  <2> QED BY <2>1, <2>2, EndedStays DEF Holding, SendsBegun
<1>2. CASE m \notin Committed
  <2>1. PICK r \in Requests : Commit(r) /\ m = id[r]
    BY <1>2, RowsChange
  <2>2. op[r] \in Sends /\ id[r] # 0
    BY <2>1 DEF Commit, InOrder
  <2>3. op[r].kind = "send"
    BY <2>2, KindsOfOperations
  <2>4. id'[r] = id[r] /\ op'[r] = op[r] /\ answer'[r] = "created"
    BY <2>1 DEF Commit, End, TypeOK
  <2> QED BY <2>1, <2>2, <2>3, <2>4 DEF Holding, SendsBegun
<1> QED BY <1>1, <1>2

\* A key that is inserted was free, and waits keep others from inserting it.
LEMMA KeysStayHeld ==
    TypeOK /\ TypeOK' /\ InOrder /\ KeysAreHeld /\ [Next]_vars => KeysAreHeld'
<1> SUFFICES ASSUME TypeOK, TypeOK', InOrder, KeysAreHeld, [Next]_vars
             PROVE  KeysAreHeld'
  OBVIOUS
<1>1. ASSUME NEW r \in Requests, Inserted(r)', HasUuid(r)', NEW m \in Committed'
      PROVE  message'[m].uuid # op'[r].uuid
  <2>1. CASE Insert(r)
    BY <1>1, <2>1 DEF Insert, UuidTaken, HasUuid, Inserted, End, GoTo, TypeOK, store, Committed,
       Stored
  <2>2. CASE ~Insert(r)
    <3>1. Inserted(r) /\ HasUuid(r) /\ op'[r] = op[r]
      BY <1>1, <2>2, OnlyInsertInserts DEF HasUuid
    <3>2. CASE m \in Committed
      BY <3>1, <3>2, RowsChange DEF RowsStay, KeysAreHeld
    <3>3. CASE m \notin Committed
      <4>1. PICK s \in Requests : Commit(s) /\ m = id[s]
        BY <3>3, RowsChange
      <4>2. message'[m].uuid = op[s].uuid /\ Inserted(s) /\ pc'[s] = "ended"
        BY <4>1, CommitStoresOne DEF NewMessage, Inserted, Commit, End, TypeOK
      <4>3. s # r
        BY <1>1, <4>2 DEF Inserted
      <4> QED BY <3>1, <4>2, <4>3 DEF KeysAreHeld
    <3> QED BY <3>2, <3>3
  <2> QED BY <2>1, <2>2
<1>2. ASSUME NEW r \in Requests, Inserted(r)', HasUuid(r)',
             NEW s \in Requests, Inserted(s)', op'[s].uuid = op'[r].uuid
      PROVE  s = r
  <2>0. ASSUME NEW t \in Requests, Inserted(t)'
        PROVE  op'[t] = op[t] /\ (Inserted(t) \/ Insert(t))
    BY <2>0, OnlyInsertInserts
  <2>1. ASSUME NEW t \in Requests, Insert(t), NEW u \in Requests, u # t
        PROVE  ~Insert(u)
    BY <2>1 DEF Insert, GoTo, End, TypeOK
  <2>2. HasUuid(r) /\ HasUuid(s) /\ op[s].uuid = op[r].uuid
    BY <1>2, <2>0 DEF HasUuid
  <2>3. CASE Inserted(r) /\ Inserted(s)
    BY <2>2, <2>3 DEF KeysAreHeld
  <2>4. CASE Insert(r) \/ Insert(s)
    BY <1>2, <2>0, <2>1, <2>2, <2>4 DEF Insert, UuidUndecided
  <2> QED BY <1>2, <2>0, <2>3, <2>4
<1> QED
  BY <1>1, <1>2 DEF KeysAreHeld

\* A committed key is its only one.
LEMMA OnceStays ==
    TypeOK /\ TypeOK' /\ InOrder /\ KeysAreHeld /\ StoredOncePerUuid
        /\ [Next]_vars => StoredOncePerUuid'
<1> SUFFICES ASSUME TypeOK, TypeOK', InOrder, KeysAreHeld, StoredOncePerUuid, [Next]_vars
             PROVE  StoredOncePerUuid'
  OBVIOUS
<1>1. CASE Committed' = Committed
  BY <1>1, RowsChange DEF RowsStay, StoredOncePerUuid
<1>2. CASE Committed' # Committed
  <2>1. PICK r \in Requests : Commit(r)
    BY <1>2, RowsChange DEF RowsStay
  <2>0. message'[id[r]] = NewMessage(r)
    BY <2>1, CommitStoresOne
  <2>2. /\ Committed' = Committed \cup {id[r]} /\ message'[id[r]].uuid = op[r].uuid
        /\ RowsStay
    <3>1. NewMessage(r).uuid = op[r].uuid
      BY DEF NewMessage
    <3> QED BY <2>0, <2>1, <3>1, CommitStoresOne
  <2>3. HasUuid(r) => \A m \in Committed : message[m].uuid # op[r].uuid
    BY <2>1 DEF KeysAreHeld, Inserted, Commit
  <2> QED BY <2>2, <2>3 DEF RowsStay, StoredOncePerUuid, HasUuid
<1> QED BY <1>1, <1>2

\* An answer is true when it is given, and no later commit makes it false.
LEMMA AnswersStayTrue ==
    TypeOK /\ TypeOK' /\ InOrder /\ IdsAreApart /\ SendAnswerIsTrue
        /\ [Next]_vars => SendAnswerIsTrue'
<1> SUFFICES ASSUME TypeOK, TypeOK', InOrder, IdsAreApart, SendAnswerIsTrue, [Next]_vars,
                    NEW r \in Requests, op'[r].kind = "send"
             PROVE  /\ answer'[r] = "created" =>
                          /\ id'[r] \in Committed'
                          /\ message'[id'[r]].sender = op'[r].user
                          /\ message'[id'[r]].uuid = op'[r].uuid
                    /\ answer'[r] = "deduped" =>
                          \E m \in Committed' : /\ message'[m].sender = op'[r].user
                                                /\ message'[m].uuid = op'[r].uuid
                    /\ answer'[r] \in {"error", "lost"} => id'[r] \notin Committed'
  BY DEF SendAnswerIsTrue
<1>0. RowsStay /\ \A m \in Committed' \ Committed : \E s \in Requests : Commit(s) /\ m = id[s]
  BY RowsChange
<1>1. CASE answer'[r] = "none"
  BY <1>1
<1>2. CASE pc[r] = "ended"
  <2>1. op'[r] = op[r] /\ id'[r] = id[r] /\ answer'[r] = answer[r]
    BY <1>2, EndedStays
  <2>2. ASSUME answer[r] \in {"error", "lost"}, id[r] \in Committed' PROVE FALSE
    <3>1. id[r] \notin Committed
      BY <2>1, <2>2 DEF SendAnswerIsTrue
    <3>2. PICK s \in Requests : Commit(s) /\ id[r] = id[s]
      BY <1>0, <2>2, <3>1
    <3>3. op[s] \in Sends /\ id[s] # 0 /\ s # r
      BY <1>2, <3>2 DEF Commit, InOrder
    <3> QED BY <2>1, <3>2, <3>3, KindsOfOperations DEF IdsAreApart, Holding, SendsBegun
  <2> QED BY <1>0, <2>1, <2>2 DEF SendAnswerIsTrue, RowsStay
<1>3. CASE pc[r] # "ended" /\ answer'[r] # "none"
  <2>0. answer[r] = "none"
    BY <1>3 DEF InOrder
  <2>1. Step(r) \/ Crash(r)
    BY <1>3, <2>0, OthersAreLeft DEF Next, vars, Begin, GoTo, TypeOK
  <2>2. op'[r] = op[r] /\ op[r] \in Sends
    BY <2>1, KindsOfOperations DEF Step, Crash, LookUp, Insert, Touch, Commit, Load, Deliver,
       Target, Member, Advance, List, MarkRead
  <2>3. CASE LookUp(r)
    <3>1. Repeated(r) # {} /\ answer'[r] = "deduped" /\ UNCHANGED message
      BY <1>3, <2>0, <2>3 DEF LookUp, End, GoTo, TypeOK
    <3> QED BY <2>2, <3>1 DEF Repeated, Committed, Stored
  <2>4. CASE Insert(r)
    <3>1. answer'[r] = "error" /\ UNCHANGED <<message, id>>
      BY <1>3, <2>0, <2>4 DEF Insert, End, GoTo, TypeOK, store
    <3> QED BY <2>4, <3>1 DEF Insert, InOrder, Committed, Stored
  <2>5. CASE Commit(r)
    <3>1. answer'[r] = "created" /\ UNCHANGED id
      BY <2>5 DEF Commit, End, TypeOK
    <3>2. message'[id[r]] = NewMessage(r) /\ id[r] \in Committed'
      BY <2>5, CommitStoresOne
    <3>3. NewMessage(r).uuid = op[r].uuid /\ NewMessage(r).sender = op[r].user
      BY DEF NewMessage
    <3> QED BY <2>2, <3>1, <3>2, <3>3
  <2>6. CASE Crash(r)
    <3>1. answer'[r] = "lost" /\ UNCHANGED <<message, id>>
      BY <2>6 DEF Crash, End, TypeOK
    <3>2. pc[r] \in {"lookup", "insert", "touch", "commit"}
      BY <2>2, <2>6 DEF Crash, Working, InOrder, Sends, Acks, Reads
    <3>3. id[r] \notin Committed
      BY <3>2, StoredIsARow DEF InOrder
    <3> QED BY <3>1, <3>3 DEF Committed, Stored
  <2>7. ~(\/ Load(r) \/ Deliver(r) \/ Target(r) \/ Member(r) \/ Advance(r) \/ List(r)
          \/ MarkRead(r) \/ Touch(r))
    BY <1>3, <2>0, <2>2 DEF Load, Deliver, Target, Member, Advance, List, MarkRead, Touch, InOrder,
       Sends, Acks, Reads, GoTo, TypeOK
  <2> QED BY <2>1, <2>3, <2>4, <2>5, <2>6, <2>7 DEF Step
<1> QED BY <1>1, <1>2, <1>3

\* A read mark keeps, once it has listed, who it is for and how far it goes.
LEMMA MarksStay ==
    ASSUME TypeOK, InOrder, [Next]_vars, NEW r \in Requests, op[r].kind = "read"
    PROVE  op'[r] = op[r] /\ (id[r] # 0 => id'[r] >= id[r])
<1>0. id[r] \in Int /\ op[r] # NoOperation /\ op[r] \in Reads
  BY MessagingAssumption, KindsOfOperations DEF TypeOK, Ids, NoOperation
<1>1. CASE UNCHANGED vars
  BY <1>0, <1>1 DEF vars
<1>2. ASSUME NEW s \in Requests, Begin(s) \/ Step(s) \/ Crash(s)
      PROVE  op'[r] = op[r] /\ (id[r] # 0 => id'[r] >= id[r])
  <2>1. CASE s # r
    BY <1>0, <1>2, <2>1, OthersAreLeft
  <2>2. CASE s = r
    <3>1. ~Begin(r) /\ ~LookUp(r) /\ ~Load(r)
      BY <1>0 DEF Begin, LookUp, Load, InOrder, Sends, Acks, Reads
    <3>2. CASE Target(r)
      BY <3>2 DEF Target, InOrder
    <3>3. CASE Member(r)
      <4>1. last_read[op[r].user] \in Int
        BY <1>0, MessagingAssumption DEF TypeOK, Reads, Ids
      <4> QED BY <1>0, <3>3, <4>1 DEF Member, GoTo, TypeOK
    <3>4. CASE \/ Insert(r) \/ Touch(r) \/ Commit(r) \/ Deliver(r) \/ Advance(r) \/ List(r)
               \/ MarkRead(r) \/ Crash(r)
      BY <1>0, <3>4 DEF Insert, Touch, Commit, Deliver, Advance, List, MarkRead, Crash
    <3> QED BY <1>2, <2>2, <3>1, <3>2, <3>3, <3>4 DEF Step
  <2> QED BY <2>1, <2>2
<1> QED BY <1>1, <1>2 DEF Next

\* How one row changes when the rows do not: an ack delivers it, a read mark that
\* listed it reads it.
LEMMA RowChanges ==
    ASSUME TypeOK, TypeOK', InOrder, [Next]_vars, NEW m \in Committed'
    PROVE  \/ m \in Committed /\ message'[m] = message[m]
           \/ \E r \in Requests : Commit(r) /\ m = id[r] /\ message'[m] = NewMessage(r)
           \/ /\ m \in Committed
              /\ message'[m] = [message[m] EXCEPT !.status = "delivered",
                                                  !.delivered_at = TRUE]
           \/ /\ m \in Committed
              /\ message'[m] = Marked(message[m])
              /\ \E r \in Requests :
                    /\ op[r] \in Reads /\ id[r] >= m /\ id'[r] = id[r] /\ op'[r] = op[r]
                    /\ op[r].user # message[m].sender
<1>0. m \in Ids
  BY DEF Committed
<1>1. CASE UNCHANGED message
  BY <1>1 DEF Committed, Stored
<1>2. ASSUME NEW r \in Requests, Commit(r)
      PROVE  \/ m \in Committed /\ message'[m] = message[m]
             \/ m = id[r] /\ message'[m] = NewMessage(r)
  BY <1>0, <1>2, CommitStoresOne
<1>3. ASSUME NEW r \in Requests, Deliver(r)
      PROVE  /\ m \in Committed
             /\ \/ message'[m] = message[m]
                \/ message'[m] = [message[m] EXCEPT !.status = "delivered",
                                                    !.delivered_at = TRUE]
  BY <1>0, <1>3, OthersStoreNone DEF Deliver, TypeOK
<1>4. ASSUME NEW r \in Requests, MarkRead(r),
             ~(m \in Committed /\ message'[m] = message[m])
      PROVE  /\ m \in Committed
             /\ message'[m] = Marked(message[m])
             /\ op[r] \in Reads /\ id[r] >= m /\ id'[r] = id[r] /\ op'[r] = op[r]
             /\ op[r].user # message[m].sender
  <2>1. m \in Committed
    BY <1>4, OthersStoreNone
  <2>2. PICK n \in listed[r] : message' = [message EXCEPT ![n] = Marked(@)]
    BY <1>4, <2>1 DEF MarkRead
  <2>3. n = m /\ message'[m] = Marked(message[m])
    BY <1>0, <1>4, <2>1, <2>2 DEF TypeOK
  <2>4. op[r] \in Reads /\ m <= id[r] /\ message[m].sender # op[r].user
    BY <1>4, <2>2, <2>3 DEF MarkRead, InOrder
  <2>5. id[r] \in Int /\ m \in Int
    BY <1>0, MessagingAssumption DEF TypeOK, Ids
  <2> QED BY <1>4, <2>1, <2>3, <2>4, <2>5 DEF MarkRead
<1> QED
  <2>1. (\E r \in Requests : Commit(r) \/ Deliver(r) \/ MarkRead(r)) \/ UNCHANGED message
    BY DEF Next, vars, Begin, Step, Crash, store, LookUp, Insert, Touch, Load, Target,
       Member, Advance, List
  <2> QED BY <1>1, <1>2, <1>3, <1>4, <2>1

\* Status and times are written together.
LEMMA TimesStay ==
    TypeOK /\ TypeOK' /\ InOrder /\ TimesMatchStatus /\ [Next]_vars => TimesMatchStatus'
<1> SUFFICES ASSUME TypeOK, TypeOK', InOrder, TimesMatchStatus, [Next]_vars,
                    NEW m \in Committed'
             PROVE  /\ message'[m].read_at => message'[m].delivered_at
                    /\ message'[m].status = "read" => message'[m].read_at
                    /\ message'[m].status = "sent" <=> ~message'[m].delivered_at
  BY DEF TimesMatchStatus
<1>0. m \in Committed => message[m] \in Row
  BY StoredIsARow
<1>1. CASE m \in Committed /\ message'[m] = message[m]
  BY <1>1 DEF TimesMatchStatus
<1>2. ASSUME NEW r \in Requests, message'[m] = NewMessage(r)
      PROVE  /\ message'[m].status = "sent"
             /\ ~message'[m].delivered_at /\ ~message'[m].read_at
  BY <1>2 DEF NewMessage
<1>3. CASE m \in Committed /\ message'[m] = [message[m] EXCEPT !.status = "delivered",
                                                               !.delivered_at = TRUE]
  BY <1>0, <1>3 DEF Row
<1>4. CASE m \in Committed /\ message'[m] = Marked(message[m])
  BY <1>0, <1>4 DEF Row, Marked
<1> QED BY <1>1, <1>2, <1>3, <1>4, RowChanges

\* A read time comes from a read mark of another member, and the mark stays on record.
LEMMA ReceiptsStay ==
    TypeOK /\ TypeOK' /\ InOrder /\ ReadByARecipient /\ [Next]_vars => ReadByARecipient'
<1> SUFFICES ASSUME TypeOK, TypeOK', InOrder, ReadByARecipient, [Next]_vars,
                    NEW m \in Committed', message'[m].read_at
             PROVE  \E r \in Requests : /\ op'[r].kind = "read"
                                        /\ op'[r].user # message'[m].sender
                                        /\ id'[r] >= m
  BY DEF ReadByARecipient
<1>0. /\ m \in Ids /\ m \in Int /\ m >= 1
      /\ \A r \in Requests : id[r] \in Int /\ id'[r] \in Int
      /\ m \in Committed => message[m] \in Row
  BY StoredIsARow, MessagingAssumption DEF Committed, Ids, TypeOK
<1>1. ASSUME m \in Committed, message[m].read_at, message'[m].sender = message[m].sender
      PROVE  \E r \in Requests : /\ op'[r].kind = "read"
                                 /\ op'[r].user # message'[m].sender
                                 /\ id'[r] >= m
  <2>1. PICK r \in Requests : /\ op[r].kind = "read"
                              /\ op[r].user # message[m].sender
                              /\ id[r] >= m
    BY <1>1 DEF ReadByARecipient
  <2>2. op'[r] = op[r] /\ id'[r] >= id[r]
    BY <1>0, <2>1, MarksStay
  <2> QED BY <1>0, <1>1, <2>1, <2>2
<1>2. CASE m \in Committed /\ message'[m] = message[m]
  BY <1>1, <1>2
<1>3. ASSUME NEW r \in Requests, message'[m] = NewMessage(r)
      PROVE  ~message'[m].read_at
  BY <1>3 DEF NewMessage
<1>4. CASE m \in Committed /\ message'[m] = [message[m] EXCEPT !.status = "delivered",
                                                               !.delivered_at = TRUE]
  <2>1. message'[m].read_at = message[m].read_at /\ message'[m].sender = message[m].sender
    BY <1>0, <1>4 DEF Row
  <2> QED BY <1>1, <1>4, <2>1
<1>5. ASSUME m \in Committed, message'[m] = Marked(message[m]),
             NEW r \in Requests, op[r] \in Reads, id[r] >= m, id'[r] = id[r], op'[r] = op[r],
             op[r].user # message[m].sender
      PROVE  /\ op'[r].kind = "read"
             /\ op'[r].user # message'[m].sender
             /\ id'[r] >= m
  <2>1. message'[m].sender = message[m].sender
    BY <1>0, <1>5 DEF Row, Marked
  <2> QED BY <1>5, <2>1, KindsOfOperations
<1> QED BY <1>2, <1>3, <1>4, <1>5, RowChanges

-----------------------------------------------------------------------------
\* The invariant holds from the start, and every step keeps it.
THEOREM MessagingInvariant == Spec => [](TypeOK /\ MessagingInv)
<1>1. Init => TypeOK /\ MessagingInv
  BY InitTypeOK, InitMessagingInv
<1>2. TypeOK /\ MessagingInv /\ [Next]_vars => TypeOK' /\ MessagingInv'
  <2> SUFFICES ASSUME TypeOK, MessagingInv, [Next]_vars PROVE TypeOK' /\ MessagingInv'
    OBVIOUS
  <2>1. TypeOK'
    BY NextTypeOK DEF MessagingInv
  <2> QED
    BY <2>1, CountsStay, InOrderStays, RowsKeepSends, KeysStayHeld, OnceStays,
       AnswersStayTrue, TimesStay, ReceiptsStay DEF MessagingInv
<1> QED
  BY <1>1, <1>2, PTL DEF Spec

\* However many clients repeat a send at once, its client_uuid is stored once: a key
\* that is inserted makes the others wait, and one that is stored makes them fail.
THEOREM RepeatedSendIsStoredOnce == Spec => []StoredOncePerUuid
<1>1. TypeOK /\ MessagingInv => StoredOncePerUuid
  BY DEF MessagingInv
<1> QED BY <1>1, MessagingInvariant, PTL

\* "created", "deduped" and a failure mean what they say, and go on doing so while
\* others send.
THEOREM SendersAreToldTheTruth == Spec => []SendAnswerIsTrue
<1>1. TypeOK /\ MessagingInv => SendAnswerIsTrue
  BY DEF MessagingInv
<1> QED BY <1>1, MessagingInvariant, PTL

\* Whatever stale copies acks and read marks are written from, times match the status,
\* and what is marked read was read by someone who did not send it.
THEOREM ReceiptsStayTrue == Spec => []ReceiptsAreTrue
<1>1. TypeOK /\ MessagingInv => ReceiptsAreTrue
  BY DEF MessagingInv, ReceiptsAreTrue
<1> QED BY <1>1, MessagingInvariant, PTL

=============================================================================
