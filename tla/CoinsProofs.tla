---------------------------- MODULE CoinsProofs ----------------------------
(***************************************************************************)
(* Proofs about GiftSpend, Purchase and RewardPool, in which coins and     *)
(* cents are spent, charged and shared out: for any number of requests,    *)
(* users, keys, orders, contributors and commands, and any prices and      *)
(* points.                                                                 *)
(*                                                                         *)
(* Charges and shares are sums over finite sets, of which the first lemmas *)
(* say what adding, multiplying and comparing do to them; each is proved   *)
(* on the parts of the set, of which a least one where it fails cannot be. *)
(***************************************************************************)
EXTENDS GiftSpend, Purchase, RewardPool, FiniteSetTheorems, WellFoundedInduction,
        TLAPS

-----------------------------------------------------------------------------
(***************************************************************************)
(* Sums                                                                    *)
(***************************************************************************)
\* What holds of a part of a finite set whenever it holds of the smaller parts holds of
\* all parts.
LEMMA PartsByPart ==
  ASSUME NEW S, IsFiniteSet(S), NEW P,
         \A T \in SUBSET S : (\A U \in SUBSET T : U # T => U \in P) => T \in P
  PROVE  SUBSET S \subseteq P
<1> SUFFICES ASSUME NEW Z \in SUBSET S, Z \notin P PROVE FALSE
  OBVIOUS
<1> DEFINE Bad == {T \in SUBSET S : T \notin P}
<1>1. Bad \subseteq FiniteSubsetsOf(S) /\ Bad # {}
  <2>1. Bad \subseteq SUBSET S /\ Bad # {}
    OBVIOUS
  <2> QED BY <2>1, FS_FiniteSubsetsOfFinite
<1>2. \E T \in Bad : \A U \in Bad : ~(<<U, T>> \in StrictSubsetOrdering(S))
  <2> HIDE DEF Bad
  <2> QED BY <1>1, FS_StrictSubsetOrderingWellFounded, WFMin
<1>3. PICK T \in Bad : \A U \in Bad : ~(<<U, T>> \in StrictSubsetOrdering(S))
  BY <1>2
<1>4. ASSUME NEW U \in SUBSET T, U # T PROVE U \in P
  <2>1. <<U, T>> \in StrictSubsetOrdering(S)
    BY <1>4 DEF StrictSubsetOrdering
  <2> QED BY <1>3, <2>1
<1> QED BY <1>3, <1>4

\* The sums of the parts of S, as the recursive function behind SumFunction has them.
Summed(it, f, S) ==
    it = [T \in SUBSET S |->
             IF T = {} THEN 0 ELSE f[CHOOSE x \in T : TRUE] + it[T \ {CHOOSE x \in T : TRUE}]]

\* SumFunctionOnSet is that recursive function.
LEMMA SumIsSummed ==
  ASSUME NEW f, NEW S, NEW it, Summed(it, f, S),
         \A jt : Summed(jt, f, S) => jt[S] = it[S]
  PROVE  SumFunctionOnSet(f, S) = it[S]
BY DEF SumFunctionOnSet, FoldFunctionOnSet, MapThenFoldSet, Summed

\* The element the sum takes first.
First(T) == CHOOSE x \in T : TRUE

\* The element that a sum takes first.
LEMMA FirstIsIn ==
  ASSUME NEW T, T # {}
  PROVE  First(T) \in T /\ T \ {First(T)} \in SUBSET T /\ T \ {First(T)} # T
<1>1. First(T) \in T
  BY DEF First
<1> QED BY <1>1

\* ... and what it says of a part.
LEMMA SummedBecomes ==
  ASSUME NEW f, NEW S, NEW it, Summed(it, f, S)
  PROVE  \A T \in SUBSET S :
            it[T] = IF T = {} THEN 0 ELSE f[First(T)] + it[T \ {First(T)}]
BY DEF Summed, First

\* Two such functions agree where both are defined.
LEMMA SummedAgree ==
  ASSUME NEW f, NEW S, IsFiniteSet(S), NEW it, NEW R, NEW jt, S \subseteq R,
         Summed(it, f, S), Summed(jt, f, R)
  PROVE  \A T \in SUBSET S : it[T] = jt[T]
<1> DEFINE P == {T \in SUBSET S : it[T] = jt[T]}
<1>1. ASSUME NEW T \in SUBSET S, \A U \in SUBSET T : U # T => U \in P
      PROVE  T \in P
  <2>1. T \in SUBSET R
    OBVIOUS
  <2>2. /\ it[T] = IF T = {} THEN 0 ELSE f[First(T)] + it[T \ {First(T)}]
        /\ jt[T] = IF T = {} THEN 0 ELSE f[First(T)] + jt[T \ {First(T)}]
    BY <2>1, SummedBecomes
  <2>3. T # {} => it[T \ {First(T)}] = jt[T \ {First(T)}]
    BY <1>1, FirstIsIn
  <2> QED BY <2>2, <2>3
<1>2. SUBSET S \subseteq P
  <2> HIDE DEF P
  <2> QED BY <1>1, PartsByPart
<1> QED BY <1>2

\* On a part, too, it is the same function.
LEMMA SummedAgreeOnPart ==
  ASSUME NEW f, NEW S, NEW T, IsFiniteSet(T), T \subseteq S,
         NEW it, NEW jt, Summed(it, f, T), Summed(jt, f, S)
  PROVE  it[T] = jt[T]
BY SummedAgree

\* There is one for every finite set.
LEMMA SummedExists ==
  ASSUME NEW f, NEW S, IsFiniteSet(S)
  PROVE  \E it : Summed(it, f, S)
<1> DEFINE P == {T \in SUBSET S : \E it : Summed(it, f, T)}
<1>1. ASSUME NEW T \in SUBSET S, \A U \in SUBSET T : U # T => U \in P
      PROVE  T \in P
  <2> DEFINE Of(U) == CHOOSE it : Summed(it, f, U)
             it == [U \in SUBSET T |->
                IF U = {} THEN 0
                ELSE f[First(U)] + Of(U \ {First(U)})[U \ {First(U)}]]
  <2>1. ASSUME NEW U \in SUBSET T, U # T PROVE Summed(Of(U), f, U) /\ IsFiniteSet(U)
    <3>1. \E jt : Summed(jt, f, U)
      BY <1>1, <2>1
    <3> QED BY <3>1, FS_Subset
  <2>2. ASSUME NEW U \in SUBSET T, U # T PROVE it[U] = Of(U)[U]
    <3>1. Summed(Of(U), f, U)
      BY <2>1, <2>2
    <3>2. Of(U)[U] = IF U = {} THEN 0 ELSE f[First(U)] + Of(U)[U \ {First(U)}]
      <4> HIDE DEF Of
      <4> QED BY <3>1, SummedBecomes
    <3>3. CASE U = {}
      BY <3>2, <3>3
    <3>4. CASE U # {}
      <4> DEFINE V == U \ {First(U)}
      <4>1. V \in SUBSET U /\ V \in SUBSET T /\ V # T
        BY <2>2, <3>4, FirstIsIn
      <4>2. Summed(Of(V), f, V) /\ IsFiniteSet(V)
        BY <2>1, <4>1
      <4>3. Of(V)[V] = Of(U)[V]
        <5> HIDE DEF Of, V
        <5>1. \A W \in SUBSET V : Of(V)[W] = Of(U)[W]
          BY <3>1, <4>1, <4>2, SummedAgree
        <5> QED BY <5>1
      <4>4. it[U] = f[First(U)] + Of(V)[V]
        BY <3>4
      <4> QED BY <3>2, <3>4, <4>3, <4>4
    <3> QED BY <3>3, <3>4
  <2>3. \A U \in SUBSET T : U # {} =>
           it[U] = f[First(U)] + it[U \ {First(U)}]
    <3> SUFFICES ASSUME NEW U \in SUBSET T, U # {}
                 PROVE  it[U] = f[First(U)] + it[U \ {First(U)}]
      OBVIOUS
    <3>1. U \ {First(U)} \in SUBSET T /\ U \ {First(U)} # T
      BY FirstIsIn
    <3>2. it[U \ {First(U)}] = Of(U \ {First(U)})[U \ {First(U)}]
      <4> HIDE DEF it
      <4> QED BY <2>2, <3>1
    <3>3. it[U] = f[First(U)] + Of(U \ {First(U)})[U \ {First(U)}]
      OBVIOUS
    <3> QED BY <3>2, <3>3
  <2>4. it = [U \in SUBSET T |-> it[U]] /\ it[{}] = 0
    OBVIOUS
  <2>5. Summed(it, f, T)
    <3> HIDE DEF it
    <3> QED BY <2>3, <2>4 DEF Summed, First
  <2> QED BY <2>5
<1>2. SUBSET S \subseteq P
  <2> HIDE DEF P
  <2> QED BY <1>1, PartsByPart
<1> QED BY <1>2

\* So a sum is made of the sums of the parts.
LEMMA SumByFirst ==
  ASSUME NEW f, NEW S, IsFiniteSet(S)
  PROVE  SumFunctionOnSet(f, S)
            = IF S = {} THEN 0
              ELSE f[First(S)] + SumFunctionOnSet(f, S \ {First(S)})
<1>1. PICK it : Summed(it, f, S)
  BY SummedExists
<1>2. ASSUME NEW T \in SUBSET S PROVE SumFunctionOnSet(f, T) = it[T]
  <2>1. IsFiniteSet(T)
    BY FS_Subset
  <2>2. PICK jt : Summed(jt, f, T)
    BY <2>1, SummedExists
  <2>3. \A kt : Summed(kt, f, T) => kt[T] = jt[T]
    <3> SUFFICES ASSUME NEW kt, Summed(kt, f, T) PROVE kt[T] = jt[T]
      OBVIOUS
    <3>1. \A U \in SUBSET T : kt[U] = jt[U]
      BY <2>1, <2>2, SummedAgree
    <3> QED BY <3>1
  <2>4. SumFunctionOnSet(f, T) = jt[T]
    BY <2>2, <2>3, SumIsSummed
  <2>5. jt[T] = it[T]
    <3>1. T \subseteq S
      OBVIOUS
    <3> QED BY <1>1, <2>1, <2>2, <3>1, SummedAgreeOnPart
  <2> QED BY <2>4, <2>5
<1>3. it[S] = IF S = {} THEN 0 ELSE f[First(S)] + it[S \ {First(S)}]
  BY <1>1, SummedBecomes
<1> QED BY <1>2, <1>3

(***************************************************************************)
(* What sums are                                                           *)
(***************************************************************************)
LEMMA SumIsInt ==
  ASSUME NEW f, NEW S, IsFiniteSet(S), \A x \in S : f[x] \in Int
  PROVE  SumFunctionOnSet(f, S) \in Int
<1> DEFINE P == {T \in SUBSET S : SumFunctionOnSet(f, T) \in Int}
<1>1. ASSUME NEW T \in SUBSET S, \A U \in SUBSET T : U # T => U \in P
      PROVE  T \in P
  <2>1. SumFunctionOnSet(f, T)
            = IF T = {} THEN 0 ELSE f[First(T)] + SumFunctionOnSet(f, T \ {First(T)})
    BY FS_Subset, SumByFirst
  <2> QED BY <1>1, <2>1, FirstIsIn
<1>2. SUBSET S \subseteq P
  <2> HIDE DEF P
  <2> QED BY <1>1, PartsByPart
<1> QED BY <1>2

\* The order does not matter: any element may be taken first.
LEMMA SumByAny ==
  ASSUME NEW f, NEW S, IsFiniteSet(S), \A x \in S : f[x] \in Int
  PROVE  \A x \in S : SumFunctionOnSet(f, S) = f[x] + SumFunctionOnSet(f, S \ {x})
<1> DEFINE P == {T \in SUBSET S : \A x \in T :
                   SumFunctionOnSet(f, T) = f[x] + SumFunctionOnSet(f, T \ {x})}
<1>1. ASSUME NEW T \in SUBSET S, \A U \in SUBSET T : U # T => U \in P, NEW x \in T
      PROVE  SumFunctionOnSet(f, T) = f[x] + SumFunctionOnSet(f, T \ {x})
  <2> DEFINE c == First(T)
             R == (T \ {c}) \ {x}
  <2>1. IsFiniteSet(T) /\ c \in T
    BY FS_Subset, FirstIsIn
  <2>2. SumFunctionOnSet(f, T) = f[c] + SumFunctionOnSet(f, T \ {c})
    BY <2>1, SumByFirst
  <2>3. CASE x = c
    BY <2>2, <2>3
  <2>4. CASE x # c
    <3> HIDE DEF c
    <3>1. x \in T \ {c} /\ c \in T \ {x} /\ (T \ {x}) \ {c} = R
      BY <2>1, <2>4
    <3>2. T \ {c} \in P /\ T \ {x} \in P
      BY <1>1, <2>1
    <3>3. SumFunctionOnSet(f, T \ {c}) = f[x] + SumFunctionOnSet(f, R)
      BY <3>1, <3>2
    <3>4. SumFunctionOnSet(f, T \ {x}) = f[c] + SumFunctionOnSet(f, R)
      BY <3>1, <3>2
    <3>5. SumFunctionOnSet(f, R) \in Int /\ f[c] \in Int /\ f[x] \in Int
      <4>1. R \in SUBSET S
        OBVIOUS
      <4> HIDE DEF R
      <4>2. IsFiniteSet(R) /\ \A y \in R : f[y] \in Int
        BY <4>1, FS_Subset
      <4> QED BY <2>1, <4>2, SumIsInt
    <3> QED BY <2>2, <3>3, <3>4, <3>5
  <2> QED BY <2>3, <2>4
<1>2. SUBSET S \subseteq P
  <2>1. \A T \in SUBSET S : (\A U \in SUBSET T : U # T => U \in P) => T \in P
    BY <1>1
  <2> HIDE DEF P
  <2> QED BY <2>1, PartsByPart
<1> QED BY <1>2

\* The sum of nothing.
LEMMA SumOfNone ==
  ASSUME NEW f
  PROVE  SumFunctionOnSet(f, {}) = 0
BY FS_EmptySet, SumByFirst

\* A sum depends on what is summed, and on nothing else.
LEMMA SumIsSame ==
  ASSUME NEW f, NEW g, NEW S, IsFiniteSet(S), \A x \in S : f[x] = g[x]
  PROVE  SumFunctionOnSet(f, S) = SumFunctionOnSet(g, S)
<1> DEFINE P == {T \in SUBSET S : SumFunctionOnSet(f, T) = SumFunctionOnSet(g, T)}
<1>1. ASSUME NEW T \in SUBSET S, \A U \in SUBSET T : U # T => U \in P
      PROVE  T \in P
  <2>1. /\ SumFunctionOnSet(f, T)
              = IF T = {} THEN 0 ELSE f[First(T)] + SumFunctionOnSet(f, T \ {First(T)})
        /\ SumFunctionOnSet(g, T)
              = IF T = {} THEN 0 ELSE g[First(T)] + SumFunctionOnSet(g, T \ {First(T)})
    BY FS_Subset, SumByFirst
  <2> QED BY <1>1, <2>1, FirstIsIn
<1>2. SUBSET S \subseteq P
  <2> HIDE DEF P
  <2> QED BY <1>1, PartsByPart
<1> QED BY <1>2

\* The sum of a function, when it is given one more argument.
With(S, x) == S \cup {x}
Extends(f, S, g, x) ==
    /\ f \in [S -> Int] /\ g \in [With(S, x) -> Int] /\ x \notin S
    /\ \A y \in S : g[y] = f[y]

\* One more argument adds its value.
LEMMA SumAdds ==
  ASSUME NEW S, IsFiniteSet(S), NEW x, NEW f, NEW g, Extends(f, S, g, x)
  PROVE  /\ SumFunction(f) \in Int /\ SumFunction(g) = g[x] + SumFunction(f)
         /\ IsFiniteSet(With(S, x))
<1>1. IsFiniteSet(S \cup {x}) /\ (S \cup {x}) \ {x} = S
  BY FS_AddElement DEF Extends
<1>2. SumFunction(f) = SumFunctionOnSet(f, S)
      /\ SumFunction(g) = SumFunctionOnSet(g, S \cup {x})
  BY DEF SumFunction, Extends, With
<1>3. SumFunctionOnSet(g, S \cup {x}) = g[x] + SumFunctionOnSet(g, (S \cup {x}) \ {x})
  <2>1. \A y \in S \cup {x} : g[y] \in Int
    BY DEF Extends, With
  <2> QED BY <1>1, <2>1, SumByAny
<1>4. SumFunctionOnSet(g, S) = SumFunctionOnSet(f, S)
  BY SumIsSame DEF Extends
<1>5. SumFunctionOnSet(f, S) \in Int
  BY SumIsInt DEF Extends
<1> QED BY <1>1, <1>2, <1>3, <1>4, <1>5 DEF With

\* A function of no argument sums to zero.
LEMMA SumOfNothing ==
  ASSUME NEW f, DOMAIN f = {}
  PROVE  SumFunction(f) = 0
BY SumOfNone DEF SumFunction

-----------------------------------------------------------------------------
(***************************************************************************)
(* GiftSpend: what a request is told at its end rests on what it has done  *)
(* so far: StepsInOrder says which stage comes before the spend, which     *)
(* after it and which after the reaction.                                  *)
(***************************************************************************)
\* Where a request stands tells what it was told, and what it has spent and stored.
StepsInOrder ==
    \A r \in Requests :
        /\ stage[r] # "new" => order[r] \in Orders
        /\ stage[r] # "ended" => answer[r] = "none"
        /\ stage[r] \in {"new", "lookup", "replay", "spend"} => r \notin spent
        /\ stage[r] = "replay" => \E s \in reactions : order[s] = order[r]
        /\ stage[r] = "record" => r \in spent \ reactions
        /\ stage[r] \in {"publish", "respond"} => r \in reactions

GiftInv == StepsInOrder /\ GiftsAreReal /\ AnswerMatchesGift

\* Two well-formed requests with one key and one payload are the same.
LEMMA SameOrder ==
    ASSUME NEW o \in Orders, NEW p \in Orders, o.key = p.key, o.payload = p.payload
    PROVE  o = p
BY DEF Orders

\* The price of a request is a number.
LEMMA CostIsInt ==
    ASSUME GiftTypeOK, NEW r \in Requests, order[r] \in Orders
    PROVE  cost(r) \in Int /\ sender(r) \in Users
BY GiftAssumption DEF cost, sender, Orders, Payload

LEMMA InitTypeOK == GiftInit => GiftTypeOK
BY GiftAssumption DEF GiftInit, GiftTypeOK, Working

\* Every step keeps the state well formed.
LEMMA NextTypeOK == GiftTypeOK /\ StepsInOrder /\ [GiftNext]_giftVars => GiftTypeOK'
<1> SUFFICES ASSUME GiftTypeOK, StepsInOrder, [GiftNext]_giftVars PROVE GiftTypeOK'
  OBVIOUS
<1> USE DEF GiftTypeOK, Working, Goes, End
<1>1. ASSUME NEW r \in Requests, Begin(r) PROVE GiftTypeOK'
  BY <1>1 DEF Begin
<1>2. ASSUME NEW r \in Requests, LookUpGift(r) PROVE GiftTypeOK'
  BY <1>2 DEF LookUpGift
<1>3. ASSUME NEW r \in Requests, Spend(r) PROVE GiftTypeOK'
  <2>1. order[r] \in Orders
    BY <1>3 DEF Spend, StepsInOrder
  <2>2. balance' \in [Users -> Int]
    BY <1>3, <2>1, CostIsInt DEF Spend
  <2> QED
    BY <1>3, <2>2 DEF Spend
<1>4. ASSUME NEW r \in Requests, Record(r) PROVE GiftTypeOK'
  BY <1>4 DEF Record
<1>5. ASSUME NEW r \in Requests, Publish(r) PROVE GiftTypeOK'
  BY <1>5 DEF Publish
<1>6. ASSUME NEW r \in Requests, Replay(r) \/ Respond(r) PROVE GiftTypeOK'
  BY <1>6 DEF Replay, Respond, AnswerFrom
<1>7. ASSUME NEW r \in Requests, Crash(r) PROVE GiftTypeOK'
  BY <1>7 DEF Crash
<1>8. ASSUME NEW u \in Users, ToggleAccount(u) PROVE GiftTypeOK'
  BY <1>8 DEF ToggleAccount
<1>9. CASE UNCHANGED giftVars
  BY <1>9 DEF giftVars
<1> QED
  BY <1>1, <1>2, <1>3, <1>4, <1>5, <1>6, <1>7, <1>8, <1>9 DEF GiftNext, Step

LEMMA InitGiftInv == GiftInit => GiftInv
BY DEF GiftInit, GiftInv, StepsInOrder, GiftsAreReal, ReactionsArePaidOnce,
       PublishedIsStored, AnswerMatchesGift

\* A request goes through its stages in order, and keeps what it has done.
LEMMA StepsStayInOrder ==
    GiftTypeOK /\ GiftInv /\ [GiftNext]_giftVars => StepsInOrder'
<1> SUFFICES ASSUME GiftTypeOK, StepsInOrder, reactions \subseteq spent,
                    [GiftNext]_giftVars
             PROVE  StepsInOrder'
  BY DEF GiftInv, GiftsAreReal, ReactionsArePaidOnce
<1> USE DEF GiftTypeOK, StepsInOrder, Working, Goes, End
<1>1. ASSUME NEW r \in Requests, Begin(r) PROVE StepsInOrder'
  <2>1. \A s \in reactions : order'[s] = order[s]
    BY <1>1 DEF Begin
  <2> QED
    BY <1>1, <2>1 DEF Begin
<1>2. ASSUME NEW r \in Requests, LookUpGift(r) PROVE StepsInOrder'
  <2>1. stage'[r] = "replay" => \E s \in reactions : order[s] = order[r]
    <3> SUFFICES ASSUME stage'[r] = "replay" PROVE \E s \in reactions : order[s] = order[r]
      OBVIOUS
    <3>1. PICK s \in Holders(r) : SamePayload(r, s)
      BY <1>2 DEF LookUpGift
    <3>2. s \in Requests /\ s \in reactions /\ order[s].key = order[r].key
      BY <3>1 DEF Holders
    <3>3. order[s] \in Orders /\ order[r] \in Orders
      BY <1>2, <3>2 DEF LookUpGift
    <3> QED
      BY <3>1, <3>2, <3>3, SameOrder DEF SamePayload
  <2> QED
    BY <1>2, <2>1 DEF LookUpGift
<1>3. ASSUME NEW r \in Requests, Spend(r) PROVE StepsInOrder'
  BY <1>3 DEF Spend
<1>4. ASSUME NEW r \in Requests, Record(r) PROVE StepsInOrder'
  BY <1>4 DEF Record
<1>5. ASSUME NEW r \in Requests, Publish(r) PROVE StepsInOrder'
  BY <1>5 DEF Publish
<1>6. ASSUME NEW r \in Requests, Replay(r) \/ Respond(r) PROVE StepsInOrder'
  BY <1>6 DEF Replay, Respond, AnswerFrom
<1>7. ASSUME NEW r \in Requests, Crash(r) PROVE StepsInOrder'
  BY <1>7 DEF Crash
<1>8. ASSUME NEW u \in Users, ToggleAccount(u) PROVE StepsInOrder'
  BY <1>8 DEF ToggleAccount
<1>9. CASE UNCHANGED giftVars
  BY <1>9 DEF giftVars
<1> QED
  BY <1>1, <1>2, <1>3, <1>4, <1>5, <1>6, <1>7, <1>8, <1>9 DEF GiftNext, Step

\* Reactions are stored after their spend and under a key that has none, and published
\* after that.
LEMMA GiftsStayReal == GiftTypeOK /\ GiftInv /\ [GiftNext]_giftVars => GiftsAreReal'
<1> SUFFICES ASSUME GiftTypeOK, StepsInOrder, GiftsAreReal, [GiftNext]_giftVars
             PROVE  GiftsAreReal'
  BY DEF GiftInv
<1> USE DEF GiftTypeOK, StepsInOrder, GiftsAreReal, ReactionsArePaidOnce,
            PublishedIsStored, Goes, End
<1>1. ASSUME NEW r \in Requests, Begin(r) PROVE GiftsAreReal'
  <2>1. \A s \in reactions : order'[s] = order[s]
    BY <1>1 DEF Begin
  <2> QED
    BY <1>1, <2>1 DEF Begin
<1>2. ASSUME NEW r \in Requests, LookUpGift(r) PROVE GiftsAreReal'
  BY <1>2 DEF LookUpGift
<1>3. ASSUME NEW r \in Requests, Spend(r) PROVE GiftsAreReal'
  BY <1>3 DEF Spend
<1>4. ASSUME NEW r \in Requests, Record(r) PROVE GiftsAreReal'
  BY <1>4 DEF Record, KeyTaken, Holders
<1>5. ASSUME NEW r \in Requests, Publish(r) PROVE GiftsAreReal'
  BY <1>5 DEF Publish
<1>6. ASSUME NEW r \in Requests, Replay(r) \/ Respond(r) PROVE GiftsAreReal'
  BY <1>6 DEF Replay, Respond, AnswerFrom
<1>7. ASSUME NEW r \in Requests, Crash(r) PROVE GiftsAreReal'
  BY <1>7 DEF Crash
<1>8. ASSUME NEW u \in Users, ToggleAccount(u) PROVE GiftsAreReal'
  BY <1>8 DEF ToggleAccount
<1>9. CASE UNCHANGED giftVars
  BY <1>9 DEF giftVars
<1> QED
  BY <1>1, <1>2, <1>3, <1>4, <1>5, <1>6, <1>7, <1>8, <1>9 DEF GiftNext, Step

\* An answer is true when it is given, and what it says stays so.
LEMMA AnswersStayTrue == GiftTypeOK /\ GiftInv /\ [GiftNext]_giftVars => AnswerMatchesGift'
<1> SUFFICES ASSUME GiftTypeOK, StepsInOrder, reactions \subseteq spent,
                    AnswerMatchesGift, [GiftNext]_giftVars
             PROVE  AnswerMatchesGift'
  BY DEF GiftInv, GiftsAreReal, ReactionsArePaidOnce
<1> USE DEF GiftTypeOK, StepsInOrder, AnswerMatchesGift, Working, Goes, End
<1>1. ASSUME NEW r \in Requests, Begin(r) PROVE AnswerMatchesGift'
  <2>1. \A s \in reactions : order'[s] = order[s]
    BY <1>1 DEF Begin
  <2>2. \A s \in Requests : answer[s] = "repeated" => order'[s] = order[s]
    BY <1>1 DEF Begin
  <2> QED
    BY <1>1, <2>1, <2>2 DEF Begin
<1>2. ASSUME NEW r \in Requests, LookUpGift(r) PROVE AnswerMatchesGift'
  BY <1>2 DEF LookUpGift
<1>3. ASSUME NEW r \in Requests, Spend(r) PROVE AnswerMatchesGift'
  BY <1>3 DEF Spend
<1>4. ASSUME NEW r \in Requests, Record(r) PROVE AnswerMatchesGift'
  BY <1>4 DEF Record
<1>5. ASSUME NEW r \in Requests, Publish(r) PROVE AnswerMatchesGift'
  BY <1>5 DEF Publish
<1>6. ASSUME NEW r \in Requests, Replay(r) \/ Respond(r) PROVE AnswerMatchesGift'
  BY <1>6 DEF Replay, Respond, AnswerFrom
<1>7. ASSUME NEW r \in Requests, Crash(r) PROVE AnswerMatchesGift'
  BY <1>7 DEF Crash
<1>8. ASSUME NEW u \in Users, ToggleAccount(u) PROVE AnswerMatchesGift'
  BY <1>8 DEF ToggleAccount
<1>9. CASE UNCHANGED giftVars
  BY <1>9 DEF giftVars
<1> QED
  BY <1>1, <1>2, <1>3, <1>4, <1>5, <1>6, <1>7, <1>8, <1>9 DEF GiftNext, Step

-----------------------------------------------------------------------------
\* The state is well formed and GiftInv holds in every reachable state.
THEOREM GiftInvariant == GiftSpec => [](GiftTypeOK /\ GiftInv)
<1>1. GiftInit => GiftTypeOK /\ GiftInv
  BY InitTypeOK, InitGiftInv
<1>2. GiftTypeOK /\ GiftInv /\ [GiftNext]_giftVars => (GiftTypeOK /\ GiftInv)'
  BY NextTypeOK, StepsStayInOrder, GiftsStayReal, AnswersStayTrue DEF GiftInv
<1> QED
  BY <1>1, <1>2, PTL DEF GiftSpec

\* Every reaction that anybody sees was paid for by its own spend, once for its key.
THEOREM GiftsRemainReal == GiftSpec => []GiftsAreReal
<1>1. GiftInv => GiftsAreReal
  BY DEF GiftInv
<1> QED
  BY <1>1, GiftInvariant, PTL

\* What the sender of a gift is told agrees with what was spent and stored.
THEOREM GiftAnswersAreTrue == GiftSpec => []AnswerMatchesGift
<1>1. GiftInv => AnswerMatchesGift
  BY DEF GiftInv
<1> QED
  BY <1>1, GiftInvariant, PTL

-----------------------------------------------------------------------------
(***************************************************************************)
(* Purchase: what was charged and what it gave                             *)
(***************************************************************************)
\* A request in its transaction holds the account, and has found enough on it.
HoldsAccount ==
    \A r \in Purchases : at[r] \in {"balance", "commit"} => lock = r
FoundEnough ==
    \A r \in Purchases : at[r] = "commit" => coins >= Total(wanted[r])

\* Who is under way has asked for something, and has no answer yet.
UnderWay ==
    \A r \in Purchases :
        /\ at[r] # "new" => wanted[r] \in PurchaseOrders
        /\ at[r] # "ended" => receipt[r] = "none"

PaidIsFinite == IsFiniteSet(Paid)

PurchaseInv ==
    /\ PurchaseTypeOK /\ HoldsAccount /\ FoundEnough /\ UnderWay /\ PaidIsFinite
    /\ ChargedOncePerKey /\ AnswerMatchesCharge /\ PaidDaysAreGranted /\ PlusIncludesPremium

\* Prices and days are numbers.
LEMMA NumbersOfOrders ==
  ASSUME NEW p \in Products, NEW q \in Quantities
  PROVE  /\ Price[p] * q \in Nat /\ Price[p] * q > 0
         /\ DurationDays[p] * q \in Nat /\ DurationDays[p] * q > 0
<1>1. Price[p] \in Nat \ {0} /\ DurationDays[p] \in Nat \ {0} /\ q \in Nat \ {0}
  BY PurchaseAssumption
<1>2. \A m, n \in Nat \ {0} : m * n \in Nat /\ m * n > 0
  OBVIOUS
<1> QED BY <1>1, <1>2

\* What a request costs and gives, by what it has asked for.
LEMMA OrdersAreNumbers ==
  ASSUME NEW o, o.product \in Products, o.quantity \in Quantities
  PROVE  Total(o) \in Nat /\ Total(o) > 0 /\ Days(o) \in Nat /\ Days(o) > 0
BY NumbersOfOrders DEF Total, Days

\* Who has paid has asked for something.
LEMMA PaidEvents ==
  ASSUME PurchaseTypeOK, NEW k \in Paid
  PROVE  /\ event[k].product \in Products /\ event[k].quantity \in Quantities
         /\ Total(event[k]) \in Nat /\ Days(event[k]) \in Nat
<1>1. event[k] \in Events
  BY DEF PurchaseTypeOK, Paid, Charged
<1> QED BY <1>1, OrdersAreNumbers DEF Events

\* The steps that charge nothing.
LEMMA NothingCharged ==
  ASSUME PurchaseInv, UNCHANGED <<event, coins, active_until>>
  PROVE  PaidIsFinite' /\ ChargedOncePerKey' /\ PaidDaysAreGranted' /\ PlusIncludesPremium'
<1>1. /\ Paid' = Paid
      /\ \A k \in PurchaseKeys : event'[k] = event[k]
  BY DEF Paid, Charged
<1>2. PaidIsFinite' /\ PlusIncludesPremium'
  BY <1>1 DEF PurchaseInv, PaidIsFinite, PlusIncludesPremium
<1>3. ChargedOncePerKey'
  BY DEF PurchaseInv, ChargedOncePerKey, Paid, Charged, Total
<1>4. PaidDaysAreGranted'
  BY DEF PurchaseInv, PaidDaysAreGranted, Paid, Charged, Days
<1> QED BY <1>2, <1>3, <1>4

\* A request that goes on without charging.
LEMMA GoesOn ==
  ASSUME PurchaseInv, NEW r \in Purchases,
         NEW there \in Buying \cup {"ended"},
         NEW said \in {"none", "ok", "conflict", "insufficient", "refused", "error", "lost"},
         at' = [at EXCEPT ![r] = there], receipt' = [receipt EXCEPT ![r] = said],
         there # "ended" => said = "none",
         there = "commit" => coins >= Total(wanted[r]),
         there \in {"balance", "commit"} => lock' = r,
         lock' \in Purchases \cup {NoRequest},
         lock' = lock \/ lock = r \/ (lock = NoRequest /\ lock' = r),
         said \in {"ok", "conflict"} => Charged(wanted[r].key),
         said = "conflict" => event[wanted[r].key].product # wanted[r].product,
         wanted[r] \in PurchaseOrders,
         UNCHANGED <<now, in_order, coins, event, active_until, wanted>>
  PROVE  PurchaseInv'
<1>1. /\ PurchaseTypeOK
      /\ \A q \in Purchases : q # r => at'[q] = at[q] /\ receipt'[q] = receipt[q]
      /\ at'[r] = there /\ receipt'[r] = said
  BY DEF PurchaseInv, PurchaseTypeOK
<1>2. PurchaseTypeOK'
  BY DEF PurchaseInv, PurchaseTypeOK
<1>3. HoldsAccount'
  <2>1. NoRequest \notin Purchases
        /\ \A q \in Purchases : at[q] \in {"balance", "commit"} => lock = q
    BY PurchaseAssumption DEF PurchaseInv, HoldsAccount
  <2>2. ASSUME NEW q \in Purchases, at'[q] \in {"balance", "commit"} PROVE lock' = q
    <3>1. CASE q = r
      <4>1. there \in {"balance", "commit"}
        BY <1>1, <2>2, <3>1
      <4> QED BY <3>1, <4>1
    <3>2. CASE q # r
      BY <1>1, <2>1, <2>2, <3>2
    <3> QED BY <3>1, <3>2
  <2> QED BY <2>2 DEF HoldsAccount
<1>4. FoundEnough'
  BY <1>1 DEF PurchaseInv, FoundEnough, Total
<1>5. UnderWay'
  <2>1. \A q \in Purchases : /\ at[q] # "new" => wanted[q] \in PurchaseOrders
                             /\ at[q] # "ended" => receipt[q] = "none"
    BY DEF PurchaseInv, UnderWay
  <2>2. ASSUME NEW q \in Purchases
        PROVE  /\ at'[q] # "new" => wanted'[q] \in PurchaseOrders
               /\ at'[q] # "ended" => receipt'[q] = "none"
    <3>1. CASE q = r
      BY <1>1, <3>1
    <3>2. CASE q # r
      BY <1>1, <2>1, <3>2
    <3> QED BY <3>1, <3>2
  <2> QED BY <2>2 DEF UnderWay, PurchaseOrders
<1>6. PaidIsFinite' /\ ChargedOncePerKey' /\ PaidDaysAreGranted' /\ PlusIncludesPremium'
  BY NothingCharged
<1>7. AnswerMatchesCharge'
  BY <1>1 DEF PurchaseInv, AnswerMatchesCharge, Charged
<1> QED BY <1>2, <1>3, <1>4, <1>5, <1>6, <1>7 DEF PurchaseInv

\* A request that begins asks for something and has done nothing.
LEMMA BeginPurchaseInv ==
  ASSUME PurchaseInv, NEW r \in Purchases, BeginPurchase(r)
  PROVE  PurchaseInv'
<1>1. PICK o \in PurchaseOrders : wanted' = [wanted EXCEPT ![r] = o]
  BY DEF BeginPurchase
<1>2. /\ PurchaseTypeOK /\ at[r] = "new" /\ receipt[r] = "none"
      /\ UNCHANGED <<now, in_order, coins, event, active_until, lock, receipt>>
      /\ at' = [at EXCEPT ![r] = "account"]
  BY DEF PurchaseInv, BeginPurchase, GoOn, UnderWay
<1>3. /\ at'[r] = "account" /\ wanted'[r] = o
      /\ \A q \in Purchases : q # r => at'[q] = at[q] /\ wanted'[q] = wanted[q]
  BY <1>1, <1>2 DEF PurchaseTypeOK
<1>4. PurchaseTypeOK'
  BY <1>1, <1>2 DEF PurchaseTypeOK, Buying
<1>5. HoldsAccount' /\ FoundEnough'
  <2>1. \A q \in Purchases : at'[q] \in {"balance", "commit"} => q # r
    BY <1>3
  <2>2. HoldsAccount'
    BY <1>2, <1>3, <2>1 DEF PurchaseInv, HoldsAccount
  <2>3. FoundEnough'
    BY <1>2, <1>3 DEF PurchaseInv, FoundEnough, Total
  <2> QED BY <2>2, <2>3
<1>6. UnderWay'
  BY <1>2, <1>3 DEF PurchaseInv, UnderWay
<1>7. PaidIsFinite' /\ ChargedOncePerKey' /\ PaidDaysAreGranted' /\ PlusIncludesPremium'
  BY <1>2, NothingCharged
<1>8. AnswerMatchesCharge'
  BY <1>2, <1>3 DEF PurchaseInv, AnswerMatchesCharge, Charged
<1> QED BY <1>4, <1>5, <1>6, <1>7, <1>8 DEF PurchaseInv

\* The steps before the charge, and the end without one.
LEMMA QuietPurchaseInv ==
  ASSUME PurchaseInv, NEW r \in Purchases,
         OpenAccount(r) \/ LookUpKey(r) \/ AcquireLock(r) \/ ReadBalance(r) \/ CrashPurchase(r)
  PROVE  PurchaseInv'
<1>1. /\ PurchaseTypeOK /\ UNCHANGED <<now, in_order, coins, event, active_until, wanted>>
      /\ at[r] \in Buying
  BY DEF PurchaseInv, OpenAccount, LookUpKey, AcquireLock, ReadBalance, CrashPurchase, Buying
<1>2. /\ wanted[r] \in PurchaseOrders /\ receipt[r] = "none"
      /\ receipt = [receipt EXCEPT ![r] = "none"]
  BY <1>1 DEF PurchaseInv, UnderWay, PurchaseTypeOK, Buying
<1>3. /\ lock \in Purchases \cup {NoRequest} /\ wanted[r].key \in PurchaseKeys
      /\ at[r] \in {"balance", "commit"} => lock = r
  BY <1>1, <1>2 DEF PurchaseInv, PurchaseTypeOK, HoldsAccount, PurchaseOrders
<1>4. CASE OpenAccount(r)
  <2>1. UNCHANGED lock /\ \/ GoOn(r, "lookup")
                          \/ EndPurchase(r, "error")
    BY <1>4 DEF OpenAccount
  <2>2. CASE GoOn(r, "lookup")
    BY <1>1, <1>2, <1>3, <2>1, <2>2, GoesOn DEF GoOn, Buying
  <2>3. CASE EndPurchase(r, "error")
    BY <1>1, <1>2, <1>3, <2>1, <2>3, GoesOn DEF EndPurchase
  <2> QED BY <2>1, <2>2, <2>3
<1>5. CASE LookUpKey(r)
  <2>1. UNCHANGED lock /\ \/ GoOn(r, "lock")
                          \/ Charged(wanted[r].key) /\ EndPurchase(r, "ok")
                          \/ /\ Charged(wanted[r].key)
                             /\ event[wanted[r].key].product # wanted[r].product
                             /\ EndPurchase(r, "conflict")
    BY <1>5 DEF LookUpKey, KeyUsed
  <2>2. CASE GoOn(r, "lock")
    BY <1>1, <1>2, <1>3, <2>1, <2>2, GoesOn DEF GoOn, Buying
  <2>3. CASE Charged(wanted[r].key) /\ EndPurchase(r, "ok")
    BY <1>1, <1>2, <1>3, <2>1, <2>3, GoesOn DEF EndPurchase
  <2>4. CASE /\ Charged(wanted[r].key)
             /\ event[wanted[r].key].product # wanted[r].product
             /\ EndPurchase(r, "conflict")
    BY <1>1, <1>2, <1>3, <2>1, <2>4, GoesOn DEF EndPurchase
  <2> QED BY <2>1, <2>2, <2>3, <2>4
<1>6. CASE AcquireLock(r)
  <2>1. lock = NoRequest /\ lock' = r /\ GoOn(r, "balance")
    BY <1>6 DEF AcquireLock
  <2> QED BY <1>1, <1>2, <1>3, <2>1, GoesOn DEF GoOn, Buying
<1>7. CASE ReadBalance(r)
  <2>1. lock = r /\ \/ coins >= Total(wanted[r]) /\ GoOn(r, "commit") /\ UNCHANGED lock
                    \/ EndPurchase(r, "insufficient") /\ lock' = NoRequest
    BY <1>3, <1>7 DEF ReadBalance, HasFunds
  <2>2. CASE coins >= Total(wanted[r]) /\ GoOn(r, "commit") /\ UNCHANGED lock
    BY <1>1, <1>2, <1>3, <2>1, <2>2, GoesOn DEF GoOn, Buying
  <2>3. CASE EndPurchase(r, "insufficient") /\ lock' = NoRequest
    BY <1>1, <1>2, <1>3, <2>1, <2>3, GoesOn DEF EndPurchase
  <2> QED BY <2>1, <2>2, <2>3
<1>8. CASE CrashPurchase(r)
  <2>1. EndPurchase(r, "lost") /\ lock' = IF lock = r THEN NoRequest ELSE lock
    BY <1>8 DEF CrashPurchase
  <2> QED BY <1>1, <1>2, <1>3, <2>1, GoesOn DEF EndPurchase
<1> QED BY <1>4, <1>5, <1>6, <1>7, <1>8

\* What is given is added to what is there, and Premium stays the longest.
LEMMA AppliedGrows ==
  ASSUME PurchaseInv, NEW o \in PurchaseOrders
  PROVE  /\ Applied(o) \in [Entitlements -> Nat]
         /\ \A e \in Entitlements : Applied(o)[e] >= active_until[e]
         /\ EntitlementOf[o.product] \in Entitlements
         /\ Applied(o)[EntitlementOf[o.product]]
               >= active_until[EntitlementOf[o.product]] + Days(o)
         /\ Applied(o)["premium"] >= Applied(o)["premium_plus"]
<1>1. Days(o) \in Nat
  BY OrdersAreNumbers DEF PurchaseOrders
<1>2. /\ now \in Nat /\ active_until \in [Entitlements -> Nat]
      /\ active_until["premium"] >= active_until["premium_plus"]
  BY PurchaseAssumption DEF PurchaseInv, PurchaseTypeOK, PlusIncludesPremium
<1>3. o.product \in Products /\ EntitlementOf[o.product] \in {"premium", "premium_plus"}
  <2>1. o.product \in Products
    BY DEF PurchaseOrders
  <2> QED BY <2>1, PurchaseAssumption DEF Entitlements
<1> DEFINE premium == Extended("premium", o)
           plus    == Extended("premium_plus", o)
<1>4. /\ premium \in Nat /\ premium >= active_until["premium"] + Days(o)
      /\ plus \in Nat /\ plus >= active_until["premium_plus"] + Days(o)
      /\ premium >= plus
  BY <1>1, <1>2 DEF Extended, Larger, Entitlements
<1>5. CASE EntitlementOf[o.product] = "premium_plus"
  <2>1. Applied(o) = [active_until EXCEPT !["premium_plus"] = plus,
                                          !["premium"] = Larger(premium, plus)]
    BY <1>5 DEF Applied
  <2> HIDE DEF premium, plus
  <2>2. Larger(premium, plus) = premium
    BY <1>4 DEF Larger
  <2>3. /\ Applied(o) \in [Entitlements -> Nat]
        /\ Applied(o)["premium_plus"] = plus /\ Applied(o)["premium"] = premium
    BY <1>2, <1>4, <2>1, <2>2 DEF Entitlements
  <2> QED BY <1>1, <1>2, <1>3, <1>4, <1>5, <2>3 DEF Entitlements
<1>6. CASE EntitlementOf[o.product] = "premium"
  <2>1. Applied(o) = [active_until EXCEPT !["premium"] = premium]
    BY <1>6 DEF Applied
  <2> HIDE DEF premium, plus
  <2>2. /\ Applied(o) \in [Entitlements -> Nat]
        /\ Applied(o)["premium_plus"] = active_until["premium_plus"]
        /\ Applied(o)["premium"] = premium
    BY <1>2, <1>4, <2>1 DEF Entitlements
  <2> QED BY <1>1, <1>2, <1>3, <1>4, <1>6, <2>2 DEF Entitlements
<1> QED BY <1>3, <1>5, <1>6

\* The sums before and after a charge.
LEMMA ChargeAdds ==
  ASSUME PurchaseInv, NEW o \in PurchaseOrders, ~Charged(o.key),
         event' = [event EXCEPT ![o.key] = [product |-> o.product, quantity |-> o.quantity]]
  PROVE  /\ event' \in [PurchaseKeys -> Events \cup {NoEvent}]
         /\ PaidIsFinite'
         /\ \A k \in PurchaseKeys : Charged(k)' <=> Charged(k) \/ k = o.key
         /\ \A k \in Paid : event'[k] = event[k]
         /\ SumFunction([k \in Paid |-> Total(event[k])])' =
               Total(o) + SumFunction([k \in Paid |-> Total(event[k])])
         /\ SumFunction([k \in Paid |-> Total(event[k])]) \in Int
         /\ \A e \in Entitlements :
              LET bought == {k \in Paid : EntitlementOf[event[k].product] = e}
              IN /\ SumFunction([k \in bought |-> Days(event[k])]) \in Int
                 /\ SumFunction([k \in bought |-> Days(event[k])])' =
                      SumFunction([k \in bought |-> Days(event[k])]) +
                      IF EntitlementOf[o.product] = e THEN Days(o) ELSE 0
<1> DEFINE row == [product |-> o.product, quantity |-> o.quantity]
<1>1. /\ PurchaseTypeOK /\ o.key \in PurchaseKeys /\ row \in Events /\ IsFiniteSet(Paid)
      /\ o.product \in Products /\ o.quantity \in Quantities
  BY DEF PurchaseInv, PaidIsFinite, PurchaseOrders, Events
<1>2. row # NoEvent /\ row.product = o.product /\ row.quantity = o.quantity
  <2>1. o.quantity # 0
    BY <1>1, PurchaseAssumption
  <2> QED BY <2>1 DEF NoEvent
<1>3. /\ event' \in [PurchaseKeys -> Events \cup {NoEvent}] /\ event'[o.key] = row
      /\ \A k \in PurchaseKeys : k # o.key => event'[k] = event[k]
  <2> HIDE DEF row
  <2>1. event' = [event EXCEPT ![o.key] = row]
    BY DEF row
  <2> QED BY <1>1, <2>1 DEF PurchaseTypeOK
<1> HIDE DEF row
<1>4. /\ \A k \in PurchaseKeys : Charged(k)' <=> Charged(k) \/ k = o.key
      /\ Paid' = Paid \cup {o.key} /\ o.key \notin Paid
  BY <1>1, <1>2, <1>3 DEF Charged, Paid
<1>5. \A k \in Paid : event'[k] = event[k] /\ k \in PurchaseKeys
  BY <1>3, <1>4 DEF Paid
<1>6. Total(row) = Total(o) /\ Days(row) = Days(o) /\ Total(o) \in Int /\ Days(o) \in Int
  BY <1>1, <1>2, OrdersAreNumbers DEF Total, Days
<1>7. \A k \in Paid : Total(event[k]) \in Int /\ Days(event[k]) \in Int
  BY <1>1, PaidEvents
<1> DEFINE f == [k \in Paid |-> Total(event[k])]
           g == [k \in Paid \cup {o.key} |-> Total(event'[k])]
<1>8. /\ f \in [Paid -> Int] /\ g \in [Paid \cup {o.key} -> Int]
      /\ g[o.key] = Total(o) /\ \A k \in Paid : g[k] = f[k]
  BY <1>3, <1>4, <1>5, <1>6, <1>7
<1>9. SumFunction(f) \in Int /\ SumFunction(g) = Total(o) + SumFunction(f)
      /\ IsFiniteSet(Paid \cup {o.key})
  <2>1. Extends(f, Paid, g, o.key)
    BY <1>4, <1>8 DEF Extends, With
  <2> HIDE DEF f, g
  <2> QED BY <1>1, <1>8, <2>1, SumAdds DEF With
<1>10. [k \in Paid |-> Total(event[k])]' = g
  BY <1>4 DEF Total
<1>11. SumFunction([k \in Paid |-> Total(event[k])])' = SumFunction(g)
  BY <1>10
<1>12. ASSUME NEW e \in Entitlements
       PROVE LET bought == {k \in Paid : EntitlementOf[event[k].product] = e}
             IN /\ SumFunction([k \in bought |-> Days(event[k])]) \in Int
                /\ SumFunction([k \in bought |-> Days(event[k])])' =
                     SumFunction([k \in bought |-> Days(event[k])]) +
                     IF EntitlementOf[o.product] = e THEN Days(o) ELSE 0
  <2> DEFINE bought == {k \in Paid : EntitlementOf[event[k].product] = e}
             d == [k \in bought |-> Days(event[k])]
             after == {k \in Paid \cup {o.key} : EntitlementOf[event'[k].product] = e}
             h == [k \in after |-> Days(event'[k])]
  <2>1. d \in [bought -> Int] /\ IsFiniteSet(bought) /\ o.key \notin bought
    <3>1. IsFiniteSet(bought)
      BY <1>1, FS_Subset
    <3> QED BY <1>4, <1>7, <3>1
  <2>2. SumFunction([k \in bought |-> Days(event[k])])' = SumFunction(h)
    BY <1>4 DEF Days
  <2>3. \A k \in bought : event'[k] = event[k] /\ k \in after
    BY <1>5
  <2>4. SumFunction(d) \in Int
    <3>2. SumFunction(d) = SumFunctionOnSet(d, bought)
      BY DEF SumFunction
    <3>3. \A k \in bought : d[k] \in Int
      BY <2>1
    <3> HIDE DEF d, bought
    <3> QED BY <2>1, <3>2, <3>3, SumIsInt
  <2>5. CASE EntitlementOf[o.product] = e
    <3>1. after = bought \cup {o.key}
      BY <1>2, <1>3, <1>5, <2>5
    <3>2. h \in [bought \cup {o.key} -> Int] /\ h[o.key] = Days(o)
          /\ \A k \in bought : h[k] = d[k]
      <4>1. h = [k \in bought \cup {o.key} |-> Days(event'[k])]
        BY <3>1
      <4>2. Days(event'[o.key]) = Days(o) /\ Days(o) \in Int
        BY <1>3, <1>6
      <4>3. \A k \in bought : Days(event'[k]) = d[k] /\ d[k] \in Int
        BY <2>1, <2>3
      <4> HIDE DEF h, d, bought, after
      <4> QED BY <4>1, <4>2, <4>3
    <3>3. SumFunction(h) = Days(o) + SumFunction(d)
      <4> HIDE DEF h, d, bought, after
      <4>1. Extends(d, bought, h, o.key)
        BY <2>1, <3>2 DEF Extends, With
      <4>2. SumFunction(h) = h[o.key] + SumFunction(d)
        BY <2>1, <4>1, SumAdds
      <4> QED BY <3>2, <4>2
    <3> HIDE DEF h, d
    <3>4. SumFunction(h) = SumFunction(d) + Days(o)
      BY <1>6, <2>4, <3>3
    <3> QED BY <2>2, <2>4, <2>5, <3>4 DEF d
  <2>6. CASE EntitlementOf[o.product] # e
    <3>1. after = bought
      BY <1>2, <1>3, <1>5, <2>6
    <3>2. h = d
      <4>1. h = [k \in bought |-> Days(event'[k])]
        BY <3>1
      <4>2. \A k \in bought : Days(event'[k]) = Days(event[k])
        BY <2>3
      <4> HIDE DEF after, bought, h
      <4> QED BY <4>1, <4>2
    <3>3. SumFunction(h) = SumFunction(d)
      BY <3>2
    <3>4. SumFunction(h) = SumFunction(d) + 0
      <4> HIDE DEF h, d
      <4> QED BY <2>4, <3>3
    <3> QED BY <2>2, <2>4, <2>6, <3>4
  <2> QED BY <2>5, <2>6
<1>13. PaidIsFinite'
  BY <1>4, <1>9 DEF PaidIsFinite
<1> QED BY <1>3, <1>4, <1>5, <1>9, <1>11, <1>12, <1>13

\* The events of requests that had an answer stay as they are.
LEMMA CommitPurchaseInv ==
  ASSUME PurchaseInv, NEW r \in Purchases, CommitPurchase(r)
  PROVE  PurchaseInv'
<1>1. /\ PurchaseTypeOK /\ at[r] = "commit" /\ at[r] \in Buying /\ lock = r
      /\ UNCHANGED <<now, in_order, wanted>> /\ lock' = NoRequest
  BY DEF PurchaseInv, CommitPurchase, Buying, HoldsAccount
<1> PICK o \in PurchaseOrders : o = wanted[r]
  BY <1>1 DEF PurchaseInv, UnderWay
<1>2. o.key \in PurchaseKeys /\ o.product \in Products /\ o.quantity \in Quantities
      /\ coins >= Total(o) /\ Total(o) \in Nat /\ Days(o) \in Nat /\ coins \in Int
  <2>1. o.key \in PurchaseKeys /\ o.product \in Products /\ o.quantity \in Quantities
    BY DEF PurchaseOrders
  <2>2. coins >= Total(o) /\ coins \in Int
    BY <1>1 DEF PurchaseInv, FoundEnough, PurchaseTypeOK
  <2> QED BY <2>1, <2>2, OrdersAreNumbers
<1>3. CASE ~in_order
  <2>1. EndPurchase(r, "refused") /\ UNCHANGED <<event, coins, active_until>>
    BY <1>3 DEF CommitPurchase
  <2> QED BY <1>1, <2>1, GoesOn DEF EndPurchase
<1>4. CASE in_order
  <2>1. Charge(o) /\ active_until' = Applied(o) /\ EndPurchase(r, "ok")
    BY <1>4 DEF CommitPurchase
  <2>2. /\ at'[r] = "ended" /\ receipt'[r] = "ok"
        /\ \A q \in Purchases : q # r => at'[q] = at[q] /\ receipt'[q] = receipt[q]
        /\ at' \in [Purchases -> Buying \cup {"new", "ended"}]
        /\ receipt' \in [Purchases -> {"none", "ok", "conflict", "insufficient",
                                       "refused", "error", "lost"}]
    BY <1>1, <2>1 DEF EndPurchase, PurchaseTypeOK
  <2>3. /\ active_until' \in [Entitlements -> Nat]
        /\ \A e \in Entitlements : active_until'[e] >= active_until[e]
        /\ EntitlementOf[o.product] \in Entitlements
        /\ active_until'[EntitlementOf[o.product]]
              >= active_until[EntitlementOf[o.product]] + Days(o)
        /\ active_until'["premium"] >= active_until'["premium_plus"]
    BY <2>1, AppliedGrows
  <2>4. HoldsAccount' /\ UnderWay' /\ PlusIncludesPremium'
    <3>1. \A q \in Purchases : at'[q] \in {"balance", "commit"} => q # r /\ at[q] = at'[q]
      BY <2>2
    <3>2. \A q \in Purchases : at'[q] \notin {"balance", "commit"}
      BY <1>1, <3>1 DEF PurchaseInv, HoldsAccount
    <3>3. HoldsAccount'
      BY <3>2 DEF HoldsAccount
    <3>4. UnderWay'
      <4>1. "ended" \notin Buying
        BY DEF Buying
      <4> QED BY <1>1, <2>2, <4>1 DEF PurchaseInv, UnderWay, PurchaseOrders
    <3> QED BY <2>3, <3>3, <3>4 DEF PlusIncludesPremium
  <2>5. FoundEnough'
    <3>1. \A q \in Purchases : at'[q] # "commit"
      BY <1>1, <2>2 DEF PurchaseInv, HoldsAccount
    <3> QED BY <3>1 DEF FoundEnough
  <2>6. CASE Charged(o.key)
    <3>1. UNCHANGED <<event, coins>>
      BY <2>1, <2>6 DEF Charge
    <3>2. PurchaseTypeOK'
      BY <1>1, <2>2, <2>3, <3>1 DEF PurchaseTypeOK
    <3>3. PaidIsFinite' /\ ChargedOncePerKey'
      <4>1. PaidIsFinite'
        BY <3>1 DEF PurchaseInv, PaidIsFinite, Paid, Charged
      <4>2. ChargedOncePerKey'
        BY <3>1 DEF PurchaseInv, ChargedOncePerKey, Paid, Charged, Total
      <4> QED BY <4>1, <4>2
    <3>4. AnswerMatchesCharge'
      BY <1>1, <2>2, <2>6, <3>1 DEF PurchaseInv, AnswerMatchesCharge, Charged
    <3>5. PaidDaysAreGranted'
      <4>1. ASSUME NEW e \in Entitlements
            PROVE  LET bought == {k \in Paid : EntitlementOf[event[k].product] = e}
                       days == SumFunction([k \in bought |-> Days(event[k])])
                   IN /\ days \in Int /\ days' = days /\ active_until[e] >= days
        <5> DEFINE bought == {k \in Paid : EntitlementOf[event[k].product] = e}
                   days == SumFunction([k \in bought |-> Days(event[k])])
        <5>1. active_until[e] >= days
          BY DEF PurchaseInv, PaidDaysAreGranted
        <5>2. days' = days
          BY <3>1 DEF Paid, Charged, Days
        <5>3. days \in Int
          <6>1. IsFiniteSet(bought)
            BY FS_Subset DEF PurchaseInv, PaidIsFinite
          <6>2. \A k \in bought : Days(event[k]) \in Int
            BY <1>1, PaidEvents
          <6> DEFINE d == [k \in bought |-> Days(event[k])]
          <6>3. SumFunction(d) = SumFunctionOnSet(d, bought) /\ \A k \in bought : d[k] \in Int
            BY <6>2 DEF SumFunction
          <6>4. SumFunction(d) \in Int
            <7> HIDE DEF d, bought
            <7> QED BY <6>1, <6>3, SumIsInt
          <6> QED BY <6>4
        <5> QED BY <5>1, <5>2, <5>3
      <4>2. \A e \in Entitlements : active_until[e] \in Nat /\ active_until'[e] \in Nat
        BY <1>1, <2>3 DEF PurchaseTypeOK
      <4>3. ASSUME NEW e \in Entitlements
            PROVE  LET bought == {k \in Paid : EntitlementOf[event[k].product] = e}
                       days == SumFunction([k \in bought |-> Days(event[k])])
                   IN  active_until'[e] >= days'
        <5> DEFINE bought == {k \in Paid : EntitlementOf[event[k].product] = e}
                   days == SumFunction([k \in bought |-> Days(event[k])])
        <5>1. days \in Int /\ days' = days /\ active_until[e] >= days
          BY <4>1
        <5>2. active_until'[e] >= days'
          <6> HIDE DEF days
          <6> QED BY <2>3, <4>2, <5>1
        <5> QED BY <5>2
      <4> QED BY <4>3 DEF PaidDaysAreGranted
    <3> QED BY <2>4, <2>5, <3>2, <3>3, <3>4, <3>5 DEF PurchaseInv
  <2>7. CASE ~Charged(o.key)
    <3>1. /\ event' = [event EXCEPT ![o.key] =
                          [product |-> o.product, quantity |-> o.quantity]]
          /\ coins' = coins - Total(o)
      BY <2>1, <2>7 DEF Charge
    <3>2. /\ event' \in [PurchaseKeys -> Events \cup {NoEvent}]
          /\ PaidIsFinite'
          /\ \A k \in PurchaseKeys : Charged(k)' <=> Charged(k) \/ k = o.key
          /\ \A k \in Paid : event'[k] = event[k]
          /\ SumFunction([k \in Paid |-> Total(event[k])])' =
                Total(o) + SumFunction([k \in Paid |-> Total(event[k])])
          /\ SumFunction([k \in Paid |-> Total(event[k])]) \in Int
      BY <2>7, <3>1, ChargeAdds
    <3>3. PurchaseTypeOK'
      <4>1. coins' \in Int
        BY <1>2, <3>1
      <4> QED BY <1>1, <2>2, <2>3, <3>2, <4>1 DEF PurchaseTypeOK
    <3>4. ChargedOncePerKey'
      <4> DEFINE costs == SumFunction([k \in Paid |-> Total(event[k])])
      <4>1. costs' = Total(o) + costs /\ costs \in Int /\ coins = Savings - costs
        BY <3>2 DEF PurchaseInv, ChargedOncePerKey
      <4> HIDE DEF costs
      <4>2. coins' = Savings - costs' /\ coins' >= 0
        BY <1>2, <3>1, <4>1, PurchaseAssumption
      <4> QED BY <4>2 DEF ChargedOncePerKey, costs
    <3>5. AnswerMatchesCharge'
      <4>1. ASSUME NEW q \in Purchases
            PROVE  /\ receipt'[q] \in {"ok", "conflict"} => Charged(wanted[q].key)'
                   /\ receipt'[q] = "conflict" =>
                         event'[wanted[q].key].product # wanted[q].product
        <5>1. CASE q = r
          BY <1>1, <1>2, <2>2, <3>2, <5>1
        <5>2. CASE q # r /\ receipt[q] \in {"ok", "conflict"}
          <6>1. Charged(wanted[q].key) /\ receipt'[q] = receipt[q]
            BY <2>2, <5>2 DEF PurchaseInv, AnswerMatchesCharge
          <6>2. wanted[q] \in PurchaseOrders
            BY <5>2 DEF PurchaseInv, UnderWay
          <6>3. wanted[q].key \in PurchaseKeys /\ wanted[q].key \in Paid
            BY <6>1, <6>2 DEF PurchaseOrders, Paid
          <6>4. Charged(wanted[q].key)' /\ event'[wanted[q].key] = event[wanted[q].key]
            BY <1>1, <3>2, <6>1, <6>3
          <6>5. receipt[q] = "conflict" => event[wanted[q].key].product # wanted[q].product
            BY DEF PurchaseInv, AnswerMatchesCharge
          <6> QED BY <6>1, <6>4, <6>5
        <5> QED BY <2>2, <5>1, <5>2
      <4> QED BY <1>1, <4>1 DEF AnswerMatchesCharge
    <3>6. PaidDaysAreGranted'
      <4>1. ASSUME NEW e \in Entitlements
            PROVE  LET bought == {k \in Paid : EntitlementOf[event[k].product] = e}
                       days == SumFunction([k \in bought |-> Days(event[k])])
                   IN  active_until'[e] >= days'
        <5> DEFINE bought == {k \in Paid : EntitlementOf[event[k].product] = e}
                   days == SumFunction([k \in bought |-> Days(event[k])])
        <5>1. /\ days \in Int
              /\ days' = days + IF EntitlementOf[o.product] = e THEN Days(o) ELSE 0
          BY <2>7, <3>1, ChargeAdds
        <5>2. active_until[e] >= days
          BY DEF PurchaseInv, PaidDaysAreGranted
        <5>3. active_until[e] \in Nat /\ active_until'[e] \in Nat
          BY <1>1, <2>3 DEF PurchaseTypeOK
        <5>4. active_until'[e] >= days'
          <6> HIDE DEF days
          <6> QED BY <1>2, <2>3, <5>1, <5>2, <5>3
        <5> QED BY <5>4
      <4> QED BY <4>1 DEF PaidDaysAreGranted
    <3> QED BY <2>4, <2>5, <3>2, <3>3, <3>4, <3>5, <3>6 DEF PurchaseInv
  <2> QED BY <2>6, <2>7
<1> QED BY <1>3, <1>4

\* Nothing was paid or given at first.
LEMMA InitPurchaseInv == PurchaseInit => PurchaseInv
<1> SUFFICES ASSUME PurchaseInit PROVE PurchaseInv
  OBVIOUS
<1>1. /\ \A r \in Purchases : at[r] = "new" /\ receipt[r] = "none"
      /\ \A k \in PurchaseKeys : ~Charged(k)
      /\ \A e \in Entitlements : active_until[e] = 0
  BY DEF PurchaseInit, Charged
<1>2. PurchaseTypeOK
  BY PurchaseAssumption DEF PurchaseInit, PurchaseTypeOK
<1>3. HoldsAccount /\ FoundEnough /\ UnderWay /\ AnswerMatchesCharge
  BY <1>1 DEF HoldsAccount, FoundEnough, UnderWay, AnswerMatchesCharge
<1>4. Paid = {} /\ PaidIsFinite
  <2>1. Paid = {}
    BY <1>1 DEF Paid
  <2> QED BY <2>1, FS_EmptySet DEF PaidIsFinite
<1>5. ChargedOncePerKey
  <2>1. DOMAIN [k \in Paid |-> Total(event[k])] = {}
    BY <1>4
  <2>2. SumFunction([k \in Paid |-> Total(event[k])]) = 0
    BY <2>1, SumOfNothing
  <2> QED BY <2>2, PurchaseAssumption DEF PurchaseInit, ChargedOncePerKey
<1>6. PaidDaysAreGranted
  <2>1. ASSUME NEW e \in Entitlements
        PROVE  LET bought == {k \in Paid : EntitlementOf[event[k].product] = e}
               IN  active_until[e] >= SumFunction([k \in bought |-> Days(event[k])])
    <3> DEFINE bought == {k \in Paid : EntitlementOf[event[k].product] = e}
               d == [k \in bought |-> Days(event[k])]
    <3>1. DOMAIN d = {}
      BY <1>4
    <3>2. SumFunction(d) = 0
      <4> HIDE DEF d
      <4> QED BY <3>1, SumOfNothing
    <3>3. active_until[e] >= SumFunction(d)
      <4> HIDE DEF d
      <4> QED BY <1>1, <3>2
    <3> QED BY <3>3
  <2> QED BY <2>1 DEF PaidDaysAreGranted
<1>7. PlusIncludesPremium
  BY <1>1 DEF PlusIncludesPremium, Entitlements
<1> QED BY <1>2, <1>3, <1>4, <1>5, <1>6, <1>7 DEF PurchaseInv

\* Every step keeps what charges and entitlements rest on.
LEMMA NextPurchaseInv == PurchaseInv /\ [PurchaseNext]_purchaseVars => PurchaseInv'
<1> SUFFICES ASSUME PurchaseInv, [PurchaseNext]_purchaseVars PROVE PurchaseInv'
  OBVIOUS
<1>1. CASE \E r \in Purchases : PurchaseStep(r)
  BY <1>1, BeginPurchaseInv, QuietPurchaseInv, CommitPurchaseInv DEF PurchaseStep
\* The clock, the operator, and a step of others.
<1>2. CASE Tick \/ ToggleBuyer \/ UNCHANGED purchaseVars
  <2>1. /\ UNCHANGED <<coins, event, active_until, lock, at, wanted, receipt>>
        /\ now' \in 0..MaxDay /\ in_order' \in BOOLEAN
    <3>1. now \in 0..MaxDay /\ MaxDay \in Nat /\ in_order \in BOOLEAN
      BY PurchaseAssumption DEF PurchaseInv, PurchaseTypeOK
    <3>2. CASE Tick
      <4>1. now' \in 0..MaxDay
        BY <3>1, <3>2 DEF Tick
      <4> QED BY <3>1, <3>2, <4>1 DEF Tick
    <3>3. CASE ToggleBuyer
      <4>1. in_order' \in BOOLEAN
        BY <3>3, Zenon DEF ToggleBuyer
      <4> QED BY <3>1, <3>3, <4>1 DEF ToggleBuyer
    <3>4. CASE UNCHANGED purchaseVars
      BY <3>1, <3>4 DEF purchaseVars
    <3> QED BY <1>2, <3>2, <3>3, <3>4
  <2>2. PurchaseTypeOK'
    BY <2>1 DEF PurchaseInv, PurchaseTypeOK
  <2>3. HoldsAccount' /\ FoundEnough' /\ UnderWay'
    BY <2>1 DEF PurchaseInv, HoldsAccount, FoundEnough, UnderWay, Total
  <2>4. AnswerMatchesCharge'
    BY <2>1 DEF PurchaseInv, AnswerMatchesCharge, Charged
  <2>5. PaidIsFinite' /\ ChargedOncePerKey' /\ PaidDaysAreGranted' /\ PlusIncludesPremium'
    BY <2>1, NothingCharged
  <2> QED BY <2>2, <2>3, <2>4, <2>5 DEF PurchaseInv
<1> QED BY <1>1, <1>2 DEF PurchaseNext

\* What is charged is what was asked for, once for each key and never more than there is, and
\* the answers say so (CoinPurchaseView): for any number of requests, keys and prices.
THEOREM ChargesStayTrue == PurchaseSpec => []ChargesAreTrue
<1>1. PurchaseInv => ChargesAreTrue
  BY DEF PurchaseInv, ChargesAreTrue
<1> QED BY <1>1, InitPurchaseInv, NextPurchaseInv, PTL DEF PurchaseSpec

\* Every charge has left its days, and those of Premium Plus count as Premium as well
\* (apply_entitlements): for any number of requests and any days they buy.
THEOREM DaysStayPaid == PurchaseSpec => []DaysFollowCharges
<1>1. PurchaseInv => DaysFollowCharges
  BY DEF PurchaseInv, DaysFollowCharges
<1> QED BY <1>1, InitPurchaseInv, NextPurchaseInv, PTL DEF PurchaseSpec

-----------------------------------------------------------------------------
(***************************************************************************)
(* RewardPool: events count once, and snapshots are final                  *)
(***************************************************************************)
Posters == Posts \cup Commands
States == {"new", "lookup", "insert", "commit", "check", "store", "ended"}

RowsAreThere ==
    /\ snapshot = [p \in Periods |-> snapshot[p]]
    /\ op = [a \in Posters |-> op[a]]
    /\ pc \in [Posters -> States]
    /\ events \in SUBSET Posts /\ repeated \in SUBSET Posts /\ IsFiniteSet(events)
    /\ stamp \in [Posts -> 0..MaxMonth] /\ found \in [Commands -> SUBSET Posts]
    /\ month \in Months

\* A posting that has begun has its event at hand; one that is stored has ended.
PostsFit ==
    \A r \in Posts :
        /\ op[r] \in Deliveries \cup ByHand \cup {NoOperation}
        /\ pc[r] # "new" => op[r] \in Deliveries \cup ByHand
        /\ r \in events => pc[r] = "ended"

\* A command knows what it is for until it ends, and has found events that are stored.
CommandsFit ==
    \A c \in Commands :
        /\ op[c] \in Snapshots \cup Reports \cup {NoOperation}
        /\ pc[c] \in {"check", "store"} => op[c] \in Snapshots \cup Reports
        /\ found[c] \subseteq events

\* A repeated delivery finds the event when it looks, and stores nothing.
RepeatedFind ==
    \A r \in repeated :
        \/ pc[r] = "ended" /\ r \notin events
        \/ pc[r] = "lookup" /\ Recorded(op[r])

\* A stored snapshot pays nothing, or what the events it counted give.
Follows(row) ==
    /\ row.counted \subseteq events /\ row.pool \in Nat
    /\ DOMAIN row.cents \subseteq Contributors
    /\ \A d \in DOMAIN row.cents : row.cents[d] \in Nat
    /\ \/ DOMAIN row.cents = {}
       \/ row.cents = Allocated(row.pool, Points(row.counted))
SnapshotsFollow == \A p \in Taken : Follows(snapshot[p])

RewardsInv == RowsAreThere /\ PostsFit /\ CommandsFit /\ RepeatedFind /\ SnapshotsFollow

(***************************************************************************)
(* What the steps leave alone                                              *)
(***************************************************************************)
\* What was posted stays as it is, and so do the events and what they give.
PostingsStay ==
    /\ events \subseteq events'
    /\ \A r \in Posts : pc[r] # "new" => op'[r] = op[r]

\* The stored events are finitely many, each of a contributor and of a number of points.
LEMMA EventsGive ==
  ASSUME RewardsInv, NEW posts \in SUBSET events
  PROVE  /\ IsFiniteSet(posts)
         /\ \A r \in posts : /\ r \in Posts /\ op[r] \in Deliveries \cup ByHand
                             /\ pc[r] = "ended" /\ ContributorOf(r) \in Contributors
                             /\ PointsOf(r) \in Int
         /\ Named(posts) \subseteq Contributors /\ IsFiniteSet(Named(posts))
<1>1. IsFiniteSet(posts)
  BY FS_Subset DEF RewardsInv, RowsAreThere
<1>2. ASSUME NEW r \in posts
      PROVE  /\ r \in Posts /\ op[r] \in Deliveries \cup ByHand
             /\ pc[r] = "ended" /\ ContributorOf(r) \in Contributors
             /\ PointsOf(r) \in Int
  <2>1. r \in Posts /\ op[r] \in Deliveries \cup ByHand /\ pc[r] = "ended"
    BY DEF RewardsInv, RowsAreThere, PostsFit
  <2>2. CASE op[r] \in Deliveries
    <3>1. op[r].kind = "pull request" /\ op[r].pr \in Prs
      BY <2>2 DEF Deliveries
    <3>2. Author[op[r].pr] \in Contributors /\ PrPoints \in Int
      <4>1. PrPoints \in Int /\ \A pr \in Prs : Author[pr] \in Contributors
        BY RewardAssumption
      <4> QED BY <3>1, <4>1
    <3> QED BY <2>1, <3>1, <3>2 DEF ContributorOf, PointsOf
  <2>3. CASE op[r] \in ByHand
    <3>1. op[r].kind = "by hand" /\ op[r].contributor \in Contributors
          /\ op[r].points \in Adjustments
      BY <2>3 DEF ByHand
    <3>2. op[r].points \in Int
      <4>1. \A a \in Adjustments : a \in Int
        BY RewardAssumption
      <4> QED BY <3>1, <4>1
    <3> QED BY <2>1, <3>1, <3>2 DEF ContributorOf, PointsOf
  <2> QED BY <2>1, <2>2, <2>3
<1>3. Named(posts) \subseteq Contributors
  BY <1>2 DEF Named
<1>4. IsFiniteSet(Named(posts))
  <2> DEFINE f == [r \in posts |-> ContributorOf(r)]
  <2>1. f \in Surjection(posts, Named(posts))
    BY DEF Named, Surjection
  <2> QED BY <1>1, <2>1, FS_Surjection
<1> QED BY <1>1, <1>2, <1>3, <1>4

\* So the points of given events do not change.
LEMMA PointsStay ==
  ASSUME RewardsInv, PostingsStay, NEW posts \in SUBSET events
  PROVE  Points(posts)' = Points(posts)
<1>1. \A r \in posts : op'[r] = op[r]
  BY EventsGive DEF PostingsStay
<1>2. \A r \in posts : ContributorOf(r)' = ContributorOf(r) /\ PointsOf(r)' = PointsOf(r)
  BY <1>1 DEF ContributorOf, PointsOf
<1>3. Named(posts)' = Named(posts)
  BY <1>2 DEF Named
<1>4. ASSUME NEW c \in Named(posts)
      PROVE  [r \in {q \in posts : ContributorOf(q) = c} |-> PointsOf(r)]' =
             [r \in {q \in posts : ContributorOf(q) = c} |-> PointsOf(r)]
  BY <1>2
<1>5. \A c \in Named(posts) :
        SumFunction([r \in {q \in posts : ContributorOf(q) = c} |-> PointsOf(r)])' =
        SumFunction([r \in {q \in posts : ContributorOf(q) = c} |-> PointsOf(r)])
  BY <1>4
<1> QED BY <1>3, <1>5 DEF Points

\* What was found once is found again.
LEMMA RecordedStays ==
  ASSUME RewardsInv, PostingsStay, NEW o, Recorded(o)
  PROVE  \E r \in events' : SameReference(op'[r], o)
<1>1. PICK r \in events : SameReference(op[r], o)
  BY DEF Recorded
<1>2. op'[r] = op[r] /\ r \in events'
  BY EventsGive DEF PostingsStay
<1> QED BY <1>1, <1>2

\* A stored row goes on following from the events it counted.
LEMMA FollowsStays ==
  ASSUME RewardsInv, PostingsStay, NEW row, Follows(row)
  PROVE  Follows(row)'
<1>1. Points(row.counted)' = Points(row.counted)
  BY PointsStay DEF Follows
<1> QED BY <1>1 DEF Follows, PostingsStay

\* A step that stores no snapshot keeps those there are.
LEMMA SnapshotsStay ==
  ASSUME RewardsInv, PostingsStay, UNCHANGED snapshot
  PROVE  SnapshotsFollow'
<1>1. ASSUME NEW p \in Taken' PROVE Follows(snapshot[p])'
  <2>1. PICK row : row = snapshot[p]
    OBVIOUS
  <2>2. Follows(row)
    BY <2>1 DEF Taken, RewardsInv, SnapshotsFollow
  <2>3. Follows(row)'
    BY <2>2, FollowsStays
  <2> QED BY <2>1, <2>3 DEF Follows
<1> QED BY <1>1 DEF SnapshotsFollow

\* A step of a posting.
LEMMA PostingSteps ==
  ASSUME RewardsInv, NEW r \in Posts, NEW there \in {"lookup", "insert", "commit", "ended"},
         GoTo(r, there), pc[r] # "ended", UNCHANGED <<month, snapshot, found>>,
         op' = [a \in Posters |-> op'[a]], op'[r] \in Deliveries \cup ByHand,
         \A a \in Posters : a # r => op'[a] = op[a], pc[r] # "new" => op'[r] = op[r],
         events' = events \/ (events' = events \cup {r} /\ there = "ended"),
         stamp' \in [Posts -> 0..MaxMonth],
         repeated' = repeated \/ repeated' = repeated \cup {r},
         r \in repeated' => \/ there = "ended" /\ r \notin events'
                            \/ there = "lookup" /\ Recorded(op'[r])
  PROVE  RewardsInv' /\ PostingsStay
<1>1. r \in Posters /\ r \notin Commands /\ Posts \cup Commands = Posters
  BY RewardAssumption DEF Posters
<1>2. /\ pc' \in [Posters -> States] /\ pc'[r] = there
      /\ \A a \in Posters : a # r => pc'[a] = pc[a]
  BY <1>1 DEF RewardsInv, RowsAreThere, GoTo, States
<1>3. PostingsStay
  BY <1>1 DEF PostingsStay
<1>4. RowsAreThere'
  <2>1. IsFiniteSet(events')
    BY FS_AddElement DEF RewardsInv, RowsAreThere
  <2> QED BY <1>2, <2>1 DEF RewardsInv, RowsAreThere
<1>5. PostsFit'
  <2>1. r \notin events
    BY DEF RewardsInv, PostsFit
  <2>2. ASSUME NEW q \in Posts
        PROVE  /\ op'[q] \in Deliveries \cup ByHand \cup {NoOperation}
               /\ pc'[q] # "new" => op'[q] \in Deliveries \cup ByHand
               /\ q \in events' => pc'[q] = "ended"
    <3>1. CASE q = r
      BY <1>2, <2>1, <3>1
    <3>2. CASE q # r
      BY <1>1, <1>2, <3>2 DEF RewardsInv, PostsFit
    <3> QED BY <3>1, <3>2
  <2> QED BY <2>2 DEF PostsFit, Deliveries, ByHand
<1>6. CommandsFit'
  <2>1. \A c \in Commands : pc'[c] = pc[c] /\ op'[c] = op[c]
    BY <1>1, <1>2
  <2>2. events \subseteq events'
    BY <1>3 DEF PostingsStay
  <2>3. \A c \in Commands :
        /\ op[c] \in Snapshots \cup Reports \cup {NoOperation}
        /\ pc[c] \in {"check", "store"} => op[c] \in Snapshots \cup Reports
        /\ found[c] \subseteq events
    BY DEF RewardsInv, CommandsFit
  <2> QED BY <2>1, <2>2, <2>3 DEF CommandsFit, Snapshots, Reports
<1>7. RepeatedFind'
  <2>1. ASSUME NEW q \in repeated'
        PROVE  \/ pc'[q] = "ended" /\ q \notin events'
               \/ pc'[q] = "lookup" /\ \E s \in events' : SameReference(op'[s], op'[q])
    <3>1. CASE q = r
      <4>1. Recorded(op'[r]) => \E s \in events' : SameReference(op'[s], op'[r])
        <5>1. PICK o : o = op'[r]
          OBVIOUS
        <5> QED BY <1>3, <5>1, RecordedStays
      <4> QED BY <1>2, <2>1, <3>1, <4>1
    <3>2. CASE q # r
      <4>1. q \in repeated /\ q \in Posts /\ q \in Posters
        BY <1>1, <2>1, <3>2 DEF RewardsInv, RowsAreThere
      <4>2. \/ pc[q] = "ended" /\ q \notin events
            \/ pc[q] = "lookup" /\ Recorded(op[q])
        BY <4>1 DEF RewardsInv, RepeatedFind
      <4>3. pc'[q] = pc[q] /\ op'[q] = op[q] /\ (q \notin events => q \notin events')
        BY <1>2, <3>2, <4>1
      <4>4. Recorded(op[q]) => \E s \in events' : SameReference(op'[s], op[q])
        <5>1. PICK o : o = op[q]
          OBVIOUS
        <5> QED BY <1>3, <5>1, RecordedStays
      <4> QED BY <4>2, <4>3, <4>4
    <3> QED BY <3>1, <3>2
  <2> QED BY <2>1 DEF RepeatedFind, Recorded
<1>8. SnapshotsFollow'
  BY <1>3, SnapshotsStay
<1> QED BY <1>3, <1>4, <1>5, <1>6, <1>7, <1>8 DEF RewardsInv

\* The steps of posting an event.
LEMMA PostRewardsInv ==
  ASSUME RewardsInv, NEW r \in Posts,
         Deliver(r) \/ LookUp(r) \/ Insert(r) \/ PostByHand(r) \/ Commit(r)
  PROVE  RewardsInv' /\ UNCHANGED snapshot
<1>1. /\ r \in Posters /\ op = [a \in Posters |-> op[a]] /\ stamp \in [Posts -> 0..MaxMonth]
      /\ month \in 0..MaxMonth /\ MaxMonth \in Nat
  BY RewardAssumption DEF Posters, RewardsInv, RowsAreThere, Months
<1>2. /\ pc[r] # "new" => op[r] \in Deliveries \cup ByHand
      /\ r \in events => pc[r] = "ended"
      /\ r \in repeated => \/ pc[r] = "ended" /\ r \notin events
                           \/ pc[r] = "lookup" /\ Recorded(op[r])
  BY DEF RewardsInv, PostsFit, RepeatedFind
<1>3. CASE Deliver(r)
  <2>1. PICK o \in Deliveries :
           /\ op' = [op EXCEPT ![r] = o]
           /\ repeated' = IF \E s \in events : op[s] = o THEN repeated \cup {r} ELSE repeated
    BY <1>3 DEF Deliver
  <2>2. /\ op' = [a \in Posters |-> op'[a]] /\ op'[r] = o
        /\ \A a \in Posters : a # r => op'[a] = op[a]
    BY <1>1, <2>1
  <2>3. /\ pc[r] = "new" /\ GoTo(r, "lookup")
        /\ UNCHANGED <<month, events, snapshot, stamp, found>>
    BY <1>3 DEF Deliver
  <2>4. (\E s \in events : op[s] = o) => Recorded(o)
    BY DEF Recorded, SameReference, Deliveries
  <2>5. r \in repeated' => Recorded(o)
    BY <1>2, <2>1, <2>3, <2>4
  <2> QED BY <1>1, <2>1, <2>2, <2>3, <2>5, PostingSteps
<1>4. CASE LookUp(r)
  <2>1. /\ pc[r] = "lookup" /\ UNCHANGED <<month, events, snapshot, op, repeated, stamp, found>>
        /\ \/ Recorded(op[r]) /\ GoTo(r, "ended")
           \/ ~Recorded(op[r]) /\ GoTo(r, "insert")
    BY <1>4 DEF LookUp
  <2>2. CASE Recorded(op[r]) /\ GoTo(r, "ended")
    BY <1>1, <1>2, <2>1, <2>2, PostingSteps
  <2>3. CASE ~Recorded(op[r]) /\ GoTo(r, "insert")
    BY <1>1, <1>2, <2>1, <2>3, PostingSteps
  <2> QED BY <2>1, <2>2, <2>3
<1>5. CASE Insert(r)
  <2>1. /\ pc[r] = "insert" /\ UNCHANGED <<month, events, snapshot, op, repeated, found>>
        /\ GoTo(r, "commit") /\ stamp' \in [Posts -> 0..MaxMonth]
    BY <1>1, <1>5 DEF Insert, Inserts
  <2> QED BY <1>1, <1>2, <2>1, PostingSteps
<1>6. CASE PostByHand(r)
  <2>1. PICK o \in ByHand : op' = [op EXCEPT ![r] = o]
    BY <1>6 DEF PostByHand
  <2>2. /\ op' = [a \in Posters |-> op'[a]] /\ op'[r] = o
        /\ \A a \in Posters : a # r => op'[a] = op[a]
    BY <1>1, <2>1
  <2>3. /\ pc[r] = "new" /\ UNCHANGED <<month, events, snapshot, repeated, found>>
        /\ GoTo(r, "commit") /\ stamp' \in [Posts -> 0..MaxMonth]
    BY <1>1, <1>6 DEF PostByHand, Inserts
  <2> QED BY <1>1, <1>2, <2>2, <2>3, PostingSteps
<1>7. CASE Commit(r)
  <2>1. /\ pc[r] = "commit" /\ UNCHANGED <<month, snapshot, op, repeated, stamp, found>>
        /\ GoTo(r, "ended") /\ events' = events \cup {r}
    BY <1>7 DEF Commit
  <2> QED BY <1>1, <1>2, <2>1, PostingSteps
<1> QED BY <1>3, <1>4, <1>5, <1>6, <1>7

(***************************************************************************)
(* The commands                                                            *)
(***************************************************************************)
LEMMA PointsAreInts ==
  ASSUME RewardsInv, NEW posts \in SUBSET events
  PROVE  Points(posts) \in [Named(posts) -> Int]
<1>1. ASSUME NEW c \in Named(posts)
      PROVE  SumFunction([r \in {q \in posts : ContributorOf(q) = c} |-> PointsOf(r)]) \in Int
  <2> DEFINE S == {q \in posts : ContributorOf(q) = c}
             f == [r \in S |-> PointsOf(r)]
  <2>1. IsFiniteSet(S)
    BY EventsGive, FS_Subset
  <2>2. SumFunction(f) = SumFunctionOnSet(f, S) /\ \A r \in S : f[r] \in Int
    BY EventsGive DEF SumFunction
  <2>3. SumFunctionOnSet(f, S) \in Int
    <3> HIDE DEF f, S
    <3> QED BY <2>1, <2>2, SumIsInt
  <2> QED BY <2>2, <2>3
<1> QED BY <1>1 DEF Points

\* A quotient is a number, and how near it comes.
LEMMA DivisionIsInt ==
  ASSUME NEW n \in Int, NEW d \in Int, d > 0
  PROVE  n \div d \in Int /\ (n \div d) * d <= n /\ n < (n \div d) * d + d
OBVIOUS

\* What is allocated are whole cents.
LEMMA AllocatedIsInts ==
  ASSUME NEW D, IsFiniteSet(D), NEW points \in [D -> Int], NEW pool \in Nat
  PROVE  Allocated(pool, points) \in [D -> Int]
<1> DEFINE total == SumFunction(points)
           whole == [c \in DOMAIN points |-> Truncated(pool * points[c], total)]
           remainder == [c \in DOMAIN points |->
              Rounded((pool * points[c] - whole[c] * total) * Million, total)]
<1>1. total \in Int
  <2>1. SumFunction(points) = SumFunctionOnSet(points, D) /\ \A c \in D : points[c] \in Int
    BY DEF SumFunction
  <2> QED BY <2>1, SumIsInt
<1> HIDE DEF total
<1>2. CASE pool = 0 \/ total <= 0
  BY <1>2 DEF Allocated, total
<1>3. CASE ~(pool = 0 \/ total <= 0)
  <2>1. \A c \in D : whole[c] \in Int
    <3>1. ASSUME NEW c \in D PROVE Truncated(pool * points[c], total) \in Int
      <4>1. PICK n \in Int : n = pool * points[c]
        OBVIOUS
      <4>2. Truncated(n, total) \in Int
        <5>1. -n \in Int /\ total > 0
          BY <1>1, <1>3
        <5>2. n \div total \in Int /\ (-n) \div total \in Int
          BY <1>1, <5>1, DivisionIsInt
        <5> QED BY <5>2 DEF Truncated
      <4> QED BY <4>1, <4>2
    <3> QED BY <3>1
  <2> HIDE DEF whole, remainder
  <2>2. Allocated(pool, points) = [c \in D |-> whole[c] +
               IF Cardinality(Before(remainder, c)) < Leftover(pool, whole) THEN 1 ELSE 0]
    BY <1>3 DEF Allocated, total, whole, remainder
  <2> QED BY <2>1, <2>2
<1> QED BY <1>2, <1>3

\* The row a command stores has the form of a row, unless a payout is negative.
LEMMA ComputedFollows ==
  ASSUME RewardsInv, NEW c \in Commands, pc[c] = "store", ~SomeNegative(c)
  PROVE  Follows(Computed(c))
<1>1. op[c] \in Snapshots \cup Reports /\ found[c] \in SUBSET events
  BY DEF RewardsInv, CommandsFit
<1>2. CASE op[c] \in Reports
  <2>1. op[c].kind = "report"
    BY <1>2 DEF Reports
  <2>2. Computed(c) = [pool |-> 0, counted |-> found[c], cents |-> [d \in {} |-> 0]]
    BY <2>1 DEF Computed
  <2> QED BY <1>1, <2>2 DEF Follows
<1>3. CASE op[c] \in Snapshots
  <2>1. op[c].kind # "report" /\ op[c].pool \in Nat
    <3>1. \A p \in Pools : p \in Nat
      BY RewardAssumption
    <3> QED BY <1>3, <3>1 DEF Snapshots
  <2> DEFINE cents == Allocated(op[c].pool, Points(found[c]))
  <2>2. Computed(c) = [pool |-> op[c].pool, counted |-> found[c], cents |-> cents]
    BY <2>1 DEF Computed
  <2>3. cents \in [Named(found[c]) -> Int] /\ Named(found[c]) \subseteq Contributors
    <3>1. PICK posts \in SUBSET events : posts = found[c]
      BY <1>1
    <3>2. /\ Points(posts) \in [Named(posts) -> Int] /\ IsFiniteSet(Named(posts))
          /\ Named(posts) \subseteq Contributors
      BY PointsAreInts, EventsGive
    <3>3. Allocated(op[c].pool, Points(posts)) \in [Named(posts) -> Int]
      BY <2>1, <3>2, AllocatedIsInts
    <3> QED BY <3>1, <3>2, <3>3
  <2> HIDE DEF cents
  <2>4. \A d \in DOMAIN cents : cents[d] \in Nat
    BY <2>2, <2>3 DEF SomeNegative
  <2> QED BY <1>1, <2>1, <2>2, <2>3, <2>4 DEF Follows, cents
<1> QED BY <1>1, <1>2, <1>3

\* A step of a command.
LEMMA CommandSteps ==
  ASSUME RewardsInv, NEW c \in Commands, NEW there \in {"check", "store", "ended"},
         GoTo(c, there), UNCHANGED <<month, events, repeated, stamp>>,
         op' = [a \in Posters |-> op'[a]],
         op'[c] \in Snapshots \cup Reports \cup {NoOperation},
         there \in {"check", "store"} => op'[c] \in Snapshots \cup Reports,
         \A a \in Posters : a # c => op'[a] = op[a],
         NEW seen \in SUBSET events, found' = [found EXCEPT ![c] = seen],
         snapshot' = [p \in Periods |-> snapshot'[p]], SnapshotsFollow'
  PROVE  RewardsInv'
<1>1. c \in Posters /\ c \notin Posts /\ Posts \cup Commands = Posters
  BY RewardAssumption DEF Posters
<1>2. /\ pc' \in [Posters -> States] /\ pc'[c] = there
      /\ \A a \in Posters : a # c => pc'[a] = pc[a]
  BY <1>1 DEF RewardsInv, RowsAreThere, GoTo, States
<1>3. \A r \in Posts : pc'[r] = pc[r] /\ op'[r] = op[r]
  BY <1>1, <1>2
<1>4. /\ found' \in [Commands -> SUBSET Posts] /\ found'[c] = seen
      /\ \A d \in Commands : d # c => found'[d] = found[d]
  BY DEF RewardsInv, RowsAreThere
<1>5. RowsAreThere'
  BY <1>2, <1>4 DEF RewardsInv, RowsAreThere
<1>6. PostsFit'
  BY <1>3 DEF RewardsInv, PostsFit, Deliveries, ByHand
<1>7. CommandsFit'
  <2>1. ASSUME NEW d \in Commands
        PROVE  /\ op'[d] \in Snapshots \cup Reports \cup {NoOperation}
               /\ pc'[d] \in {"check", "store"} => op'[d] \in Snapshots \cup Reports
               /\ found'[d] \subseteq events'
    <3>1. CASE d = c
      BY <1>2, <1>4, <3>1
    <3>2. CASE d # c
      BY <1>1, <1>2, <1>4, <3>2 DEF RewardsInv, CommandsFit
    <3> QED BY <3>1, <3>2
  <2> QED BY <2>1 DEF CommandsFit, Snapshots, Reports
<1>8. RepeatedFind'
  <2>1. \A r \in repeated : r \in Posts
    BY DEF RewardsInv, RowsAreThere
  <2>2. events \subseteq Posts
    BY DEF RewardsInv, RowsAreThere
  <2>3. \A o : Recorded(o) => \E s \in events : SameReference(op'[s], o)
    BY <1>3, <2>2 DEF Recorded
  <2> QED BY <1>3, <2>1, <2>3 DEF RewardsInv, RepeatedFind, Recorded
<1> QED BY <1>5, <1>6, <1>7, <1>8 DEF RewardsInv

\* The steps of the monthly commands.
LEMMA CommandRewardsInv ==
  ASSUME RewardsInv, NEW c \in Commands, Read(c) \/ Check(c) \/ Store(c)
  PROVE  RewardsInv' /\ \A p \in Taken : snapshot'[p] = snapshot[p]
<1>1. /\ c \in Posters /\ c \notin Posts /\ op = [a \in Posters |-> op[a]]
      /\ snapshot = [p \in Periods |-> snapshot[p]] /\ found \in [Commands -> SUBSET Posts]
      /\ Posts \subseteq Posters
  BY RewardAssumption DEF Posters, RewardsInv, RowsAreThere
<1>2. /\ op[c] \in Snapshots \cup Reports \cup {NoOperation}
      /\ pc[c] \in {"check", "store"} => op[c] \in Snapshots \cup Reports
      /\ found[c] \subseteq events
  BY DEF RewardsInv, CommandsFit
<1>3. UNCHANGED <<month, events, repeated, stamp>>
  BY DEF Read, Check, Store
<1>4. ASSUME \A a \in Posters : a # c => op'[a] = op[a]
      PROVE  PostingsStay
  BY <1>1, <1>3, <1>4 DEF PostingsStay
<1>5. CASE Read(c)
  <2>1. PICK o \in Snapshots \cup Reports :
           /\ op' = [op EXCEPT ![c] = o]
           /\ found' = [found EXCEPT ![c] = InPeriod(o.period)]
    BY <1>5 DEF Read
  <2>2. PICK seen \in SUBSET events : seen = InPeriod(o.period)
    BY DEF InPeriod
  <2>3. /\ op' = [a \in Posters |-> op'[a]] /\ op'[c] = o
        /\ \A a \in Posters : a # c => op'[a] = op[a]
    BY <1>1, <2>1
  <2>4. GoTo(c, "check") /\ UNCHANGED snapshot /\ found' = [found EXCEPT ![c] = seen]
    BY <1>5, <2>1, <2>2 DEF Read
  <2>5. SnapshotsFollow'
    BY <1>4, <2>3, <2>4, SnapshotsStay
  <2>6. RewardsInv'
    BY <1>1, <1>3, <2>3, <2>4, <2>5, CommandSteps
  <2> QED BY <2>4, <2>6
\* How a command ends, here and below.
<1>6. ASSUME EndCommand(c), snapshot' = [p \in Periods |-> snapshot'[p]], SnapshotsFollow'
      PROVE  RewardsInv'
  <2>1. /\ op' = [a \in Posters |-> op'[a]] /\ op'[c] = NoOperation
        /\ \A a \in Posters : a # c => op'[a] = op[a]
    BY <1>1, <1>6 DEF EndCommand
  <2>2. {} \in SUBSET events /\ found' = [found EXCEPT ![c] = {}] /\ GoTo(c, "ended")
    BY <1>6 DEF EndCommand
  <2> QED BY <1>3, <1>6, <2>1, <2>2, CommandSteps
<1>7. EndCommand(c) => PostingsStay
  <2>1. EndCommand(c) => \A a \in Posters : a # c => op'[a] = op[a]
    BY <1>1 DEF EndCommand
  <2> QED BY <1>4, <2>1
<1>8. CASE Check(c)
  <2>1. UNCHANGED snapshot /\ pc[c] = "check"
    BY <1>8 DEF Check
  <2>2. CASE op[c].period \in Taken
    <3>1. EndCommand(c)
      BY <1>8, <2>2 DEF Check
    <3>2. SnapshotsFollow'
      BY <1>7, <2>1, <3>1, SnapshotsStay
    <3> QED BY <1>1, <1>6, <2>1, <3>1, <3>2
  <2>3. CASE op[c].period \notin Taken
    <3>1. GoTo(c, "store") /\ UNCHANGED <<op, found>>
      BY <1>8, <2>3 DEF Check
    <3>2. SnapshotsFollow'
      BY <1>1, <1>4, <2>1, <3>1, SnapshotsStay
    <3>3. PICK seen \in SUBSET events : seen = found[c]
      BY <1>2
    <3>4. found' = [found EXCEPT ![c] = seen]
      BY <1>1, <3>1, <3>3
    <3>5. RewardsInv'
      BY <1>1, <1>2, <1>3, <2>1, <3>1, <3>2, <3>4, CommandSteps
    <3> QED BY <2>1, <3>5
  <2> QED BY <2>2, <2>3
<1>9. CASE Store(c)
  <2>1. EndCommand(c) /\ pc[c] = "store"
    BY <1>9 DEF Store
  <2>2. CASE PeriodTaken(c) \/ SomeNegative(c)
    <3>1. UNCHANGED snapshot
      BY <1>9, <2>2 DEF Store
    <3>2. SnapshotsFollow'
      BY <1>7, <2>1, <3>1, SnapshotsStay
    <3> QED BY <1>1, <1>6, <2>1, <3>1, <3>2
  <2>3. CASE ~(PeriodTaken(c) \/ SomeNegative(c))
    <3>1. PICK row : row = Computed(c)
      OBVIOUS
    <3>2. PICK here \in Periods : here = op[c].period
      BY <1>2, <2>1 DEF Snapshots, Reports
    <3>3. snapshot' = [snapshot EXCEPT ![here] = row] /\ here \notin Taken
      BY <1>9, <2>3, <3>1, <3>2 DEF Store, PeriodTaken
    <3>4. /\ snapshot' = [p \in Periods |-> snapshot'[p]] /\ snapshot'[here] = row
          /\ \A p \in Periods : p # here => snapshot'[p] = snapshot[p]
      BY <1>1, <3>3
    <3>5. \A p \in Taken : snapshot'[p] = snapshot[p]
      BY <3>3, <3>4 DEF Taken
    <3>6. SnapshotsFollow'
      <4>1. Follows(row)'
        BY <1>7, <2>1, <2>3, <3>1, ComputedFollows, FollowsStays
      <4>2. ASSUME NEW p \in Taken' PROVE Follows(snapshot[p])'
        <5>1. CASE p = here
          BY <3>4, <4>1, <5>1 DEF Follows
        <5>2. CASE p # here
          <6>1. PICK old : old = snapshot[p]
            OBVIOUS
          <6>2. snapshot'[p] = old /\ p \in Taken
            BY <3>4, <4>2, <5>2, <6>1 DEF Taken
          <6>3. Follows(old)
            BY <6>1, <6>2 DEF RewardsInv, SnapshotsFollow
          <6>4. Follows(old)'
            BY <1>7, <2>1, <6>3, FollowsStays
          <6> QED BY <6>2, <6>4 DEF Follows
        <5> QED BY <5>1, <5>2
      <4> QED BY <4>2 DEF SnapshotsFollow
    <3> QED BY <1>6, <2>1, <3>4, <3>5, <3>6
  <2> QED BY <2>2, <2>3
<1> QED BY <1>5, <1>8, <1>9

\* Nothing was posted or stored at first.
LEMMA InitRewardsInv == RewardsInit => RewardsInv
<1> SUFFICES ASSUME RewardsInit PROVE RewardsInv
  OBVIOUS
<1>1. RowsAreThere
  BY FS_EmptySet, RewardAssumption DEF RewardsInit, RowsAreThere, Posters, States, Months
<1>2. PostsFit /\ CommandsFit /\ RepeatedFind
  BY DEF RewardsInit, PostsFit, CommandsFit, RepeatedFind
<1>3. SnapshotsFollow
  BY DEF RewardsInit, SnapshotsFollow, Taken
<1> QED BY <1>1, <1>2, <1>3 DEF RewardsInv

\* Every step keeps what rewards rest on, and no step changes a stored snapshot.
LEMMA NextRewardsInv ==
  ASSUME RewardsInv, [RewardsNext]_rewardVars
  PROVE  RewardsInv' /\ \A p \in Taken : snapshot'[p] = snapshot[p]
<1>1. CASE \E r \in Posts : Deliver(r) \/ LookUp(r) \/ Insert(r) \/ PostByHand(r) \/ Commit(r)
  BY <1>1, PostRewardsInv
<1>2. CASE \E c \in Commands : Read(c) \/ Check(c) \/ Store(c)
  BY <1>2, CommandRewardsInv
<1>3. CASE NextMonth \/ UNCHANGED rewardVars
  <2>1. /\ UNCHANGED <<events, snapshot, pc, op, repeated, stamp, found>> /\ month' \in Months
    <3>1. month \in 1..MaxMonth /\ MaxMonth \in Nat
      BY RewardAssumption DEF RewardsInv, RowsAreThere, Months
    <3> QED BY <1>3, <3>1 DEF NextMonth, rewardVars, Months
  <2>2. RowsAreThere'
    BY <2>1 DEF RewardsInv, RowsAreThere
  <2>3. PostsFit' /\ CommandsFit'
    BY <2>1 DEF RewardsInv, PostsFit, CommandsFit, Deliveries, ByHand, Snapshots, Reports
  <2>4. RepeatedFind'
    BY <2>1 DEF RewardsInv, RepeatedFind, Recorded
  <2>5. PostingsStay
    BY <2>1 DEF PostingsStay
  <2>6. SnapshotsFollow'
    BY <2>1, <2>5, SnapshotsStay
  <2> QED BY <2>1, <2>2, <2>3, <2>4, <2>6 DEF RewardsInv
<1> QED BY <1>1, <1>2, <1>3 DEF RewardsNext

\* A pull request delivered again after its event was stored is not stored again, however
\* many deliveries, months and commands there are.
THEOREM RepeatedCountOnce == RewardsSpec => []RedeliveryCountsOnce
<1>1. RewardsInv => RedeliveryCountsOnce
  BY DEF RewardsInv, RowsAreThere, PostsFit, RepeatedFind, RedeliveryCountsOnce
<1>2. RewardsInv /\ [RewardsNext]_rewardVars => RewardsInv'
  BY NextRewardsInv
<1> QED BY <1>1, <1>2, InitRewardsInv, PTL DEF RewardsSpec

\* A stored snapshot never changes, whichever commands run at the same time.
THEOREM SnapshotsAreFinal == RewardsSpec => SnapshotIsFinal
<1>1. RewardsInv /\ [RewardsNext]_rewardVars =>
         [\A p \in Taken : snapshot'[p] = snapshot[p]]_rewardVars
  BY NextRewardsInv
<1>2. RewardsInv /\ [RewardsNext]_rewardVars => RewardsInv'
  BY NextRewardsInv
<1> QED BY <1>1, <1>2, InitRewardsInv, PTL DEF RewardsSpec, SnapshotIsFinal

-----------------------------------------------------------------------------
(***************************************************************************)
(* RewardPool: sharing out a pool                                          *)
(***************************************************************************)
\* What S sums of f, g and h = f + g.
Adds(h, f, g, S) == \A x \in S : f[x] \in Int /\ g[x] \in Int /\ h[x] = f[x] + g[x]

\* Sums add up.
LEMMA SumOfBoth ==
  ASSUME NEW S, IsFiniteSet(S), NEW f, NEW g, NEW h, Adds(h, f, g, S)
  PROVE  /\ SumFunctionOnSet(f, S) \in Int /\ SumFunctionOnSet(g, S) \in Int
         /\ SumFunctionOnSet(h, S) = SumFunctionOnSet(f, S) + SumFunctionOnSet(g, S)
<1> DEFINE P == {T \in SUBSET S :
             SumFunctionOnSet(h, T) = SumFunctionOnSet(f, T) + SumFunctionOnSet(g, T)}
<1>0. \A T \in SUBSET S : SumFunctionOnSet(f, T) \in Int /\ SumFunctionOnSet(g, T) \in Int
  BY FS_Subset, SumIsInt DEF Adds
<1>1. ASSUME NEW T \in SUBSET S, \A U \in SUBSET T : U # T => U \in P
      PROVE  T \in P
  <2>1. IsFiniteSet(T)
    BY FS_Subset
  <2>2. CASE T = {}
    <3>1. SumFunctionOnSet(h, T) = 0 /\ SumFunctionOnSet(f, T) = 0 /\ SumFunctionOnSet(g, T) = 0
      BY <2>2, SumOfNone
    <3> QED BY <3>1
  <2>3. CASE T # {}
    <3> DEFINE U == T \ {First(T)}
    <3>1. U \in SUBSET T /\ U # T /\ U \in SUBSET S /\ First(T) \in S
      BY <2>3, FirstIsIn
    <3>2. /\ SumFunctionOnSet(f, T) = f[First(T)] + SumFunctionOnSet(f, U)
          /\ SumFunctionOnSet(g, T) = g[First(T)] + SumFunctionOnSet(g, U)
          /\ SumFunctionOnSet(h, T) = h[First(T)] + SumFunctionOnSet(h, U)
      BY <2>1, <2>3, SumByFirst
    <3>3. SumFunctionOnSet(h, U) = SumFunctionOnSet(f, U) + SumFunctionOnSet(g, U)
      BY <1>1, <3>1
    <3>4. SumFunctionOnSet(f, U) \in Int /\ SumFunctionOnSet(g, U) \in Int
          /\ f[First(T)] \in Int /\ g[First(T)] \in Int
          /\ h[First(T)] = f[First(T)] + g[First(T)]
      BY <1>0, <3>1 DEF Adds
    <3> HIDE DEF U
    <3> QED BY <3>2, <3>3, <3>4
  <2> QED BY <2>2, <2>3
<1>2. SUBSET S \subseteq P
  <2> HIDE DEF P
  <2> QED BY <1>1, PartsByPart
<1> QED BY <1>0, <1>2

\* h = k * f
Scales(h, f, k, S) == k \in Int /\ \A x \in S : f[x] \in Int /\ h[x] = k * f[x]

\* A sum of multiples is a multiple of the sum.
LEMMA SumOfMultiples ==
  ASSUME NEW S, IsFiniteSet(S), NEW f, NEW h, NEW k, Scales(h, f, k, S)
  PROVE  /\ SumFunctionOnSet(f, S) \in Int
         /\ SumFunctionOnSet(h, S) = k * SumFunctionOnSet(f, S)
<1> DEFINE P == {T \in SUBSET S : SumFunctionOnSet(h, T) = k * SumFunctionOnSet(f, T)}
<1>0. k \in Int /\ \A T \in SUBSET S : SumFunctionOnSet(f, T) \in Int
  BY FS_Subset, SumIsInt DEF Scales
<1>1. ASSUME NEW T \in SUBSET S, \A U \in SUBSET T : U # T => U \in P
      PROVE  T \in P
  <2>1. IsFiniteSet(T)
    BY FS_Subset
  <2>2. CASE T = {}
    <3>1. SumFunctionOnSet(h, T) = 0 /\ SumFunctionOnSet(f, T) = 0
      BY <2>2, SumOfNone
    <3>2. k * 0 = 0
      BY <1>0
    <3> QED BY <3>1, <3>2
  <2>3. CASE T # {}
    <3> DEFINE U == T \ {First(T)}
    <3>1. U \in SUBSET T /\ U # T /\ U \in SUBSET S /\ First(T) \in S
      BY <2>3, FirstIsIn
    <3>2. /\ SumFunctionOnSet(f, T) = f[First(T)] + SumFunctionOnSet(f, U)
          /\ SumFunctionOnSet(h, T) = h[First(T)] + SumFunctionOnSet(h, U)
      BY <2>1, <2>3, SumByFirst
    <3>3. SumFunctionOnSet(h, U) = k * SumFunctionOnSet(f, U)
      BY <1>1, <3>1
    <3>4. SumFunctionOnSet(f, U) \in Int /\ f[First(T)] \in Int
          /\ h[First(T)] = k * f[First(T)]
      BY <1>0, <3>1 DEF Scales
    <3>5. \A a, b \in Int : k * a + k * b = k * (a + b)
      BY <1>0
    <3> HIDE DEF U
    <3> QED BY <3>2, <3>3, <3>4, <3>5
  <2> QED BY <2>2, <2>3
<1>2. SUBSET S \subseteq P
  <2> HIDE DEF P
  <2> QED BY <1>1, PartsByPart
<1> QED BY <1>0, <1>2

\* f is nowhere above g.
Below(f, g, S) == \A x \in S : f[x] \in Int /\ g[x] \in Int /\ f[x] <= g[x]

\* Sums keep the order.
LEMMA SumIsBelow ==
  ASSUME NEW S, IsFiniteSet(S), NEW f, NEW g, Below(f, g, S)
  PROVE  /\ SumFunctionOnSet(f, S) \in Int /\ SumFunctionOnSet(g, S) \in Int
         /\ SumFunctionOnSet(f, S) <= SumFunctionOnSet(g, S)
<1> DEFINE P == {T \in SUBSET S : SumFunctionOnSet(f, T) <= SumFunctionOnSet(g, T)}
<1>0. \A T \in SUBSET S : SumFunctionOnSet(f, T) \in Int /\ SumFunctionOnSet(g, T) \in Int
  BY FS_Subset, SumIsInt DEF Below
<1>1. ASSUME NEW T \in SUBSET S, \A U \in SUBSET T : U # T => U \in P
      PROVE  T \in P
  <2>1. IsFiniteSet(T)
    BY FS_Subset
  <2>2. CASE T = {}
    <3>1. SumFunctionOnSet(f, T) = 0 /\ SumFunctionOnSet(g, T) = 0
      BY <2>2, SumOfNone
    <3> QED BY <3>1
  <2>3. CASE T # {}
    <3> DEFINE U == T \ {First(T)}
    <3>1. U \in SUBSET T /\ U # T /\ U \in SUBSET S /\ First(T) \in S
      BY <2>3, FirstIsIn
    <3>2. /\ SumFunctionOnSet(f, T) = f[First(T)] + SumFunctionOnSet(f, U)
          /\ SumFunctionOnSet(g, T) = g[First(T)] + SumFunctionOnSet(g, U)
      BY <2>1, <2>3, SumByFirst
    <3>3. SumFunctionOnSet(f, U) <= SumFunctionOnSet(g, U)
      BY <1>1, <3>1
    <3>4. SumFunctionOnSet(f, U) \in Int /\ SumFunctionOnSet(g, U) \in Int
          /\ f[First(T)] \in Int /\ g[First(T)] \in Int
          /\ f[First(T)] <= g[First(T)]
      BY <1>0, <3>1 DEF Below
    <3> HIDE DEF U
    <3> QED BY <3>2, <3>3, <3>4
  <2> QED BY <2>2, <2>3
<1>2. SUBSET S \subseteq P
  <2> HIDE DEF P
  <2> QED BY <1>1, PartsByPart
<1> QED BY <1>0, <1>2

\* f is one on X and nothing elsewhere.
Marks(f, X, S) == X \subseteq S /\ \A x \in S : f[x] = IF x \in X THEN 1 ELSE 0

\* Counting is summing ones.
LEMMA SumOfMarks ==
  ASSUME NEW S, IsFiniteSet(S), NEW f, NEW X, Marks(f, X, S)
  PROVE  /\ IsFiniteSet(X) /\ Cardinality(X) \in Nat
         /\ SumFunctionOnSet(f, S) = Cardinality(X)
<1> DEFINE P == {T \in SUBSET S : SumFunctionOnSet(f, T) = Cardinality(X \cap T)}
<1>1. ASSUME NEW T \in SUBSET S, \A U \in SUBSET T : U # T => U \in P
      PROVE  T \in P
  <2>1. IsFiniteSet(T) /\ IsFiniteSet(X \cap T)
    <3>1. X \cap T \in SUBSET S
      OBVIOUS
    <3> QED BY <3>1, FS_Subset
  <2>2. CASE T = {}
    <3>1. SumFunctionOnSet(f, T) = 0 /\ X \cap T = {}
      BY <2>2, SumOfNone
    <3> QED BY <3>1, FS_EmptySet
  <2>3. CASE T # {}
    <3> DEFINE U == T \ {First(T)}
    <3>1. U \in SUBSET T /\ U # T /\ First(T) \in S /\ First(T) \in T
      BY <2>3, FirstIsIn
    <3>2. SumFunctionOnSet(f, T) = f[First(T)] + SumFunctionOnSet(f, U)
      BY <2>1, <2>3, SumByFirst
    <3>3. SumFunctionOnSet(f, U) = Cardinality(X \cap U)
      BY <1>1, <3>1
    <3>4. X \cap U = (X \cap T) \ {First(T)}
      OBVIOUS
    <3>5. Cardinality(X \cap U) =
             IF First(T) \in X THEN Cardinality(X \cap T) - 1 ELSE Cardinality(X \cap T)
      <4>1. PICK Y : Y = X \cap T
        OBVIOUS
      <4>2. Cardinality(Y \ {First(T)}) =
               IF First(T) \in Y THEN Cardinality(Y) - 1 ELSE Cardinality(Y)
        BY <2>1, <4>1, FS_RemoveElement
      <4>3. First(T) \in Y <=> First(T) \in X
        BY <3>1, <4>1
      <4>4. Y \ {First(T)} = X \cap U
        BY <3>4, <4>1
      <4> QED BY <4>1, <4>2, <4>3, <4>4
    <3>6. Cardinality(X \cap T) \in Nat
      BY <2>1, FS_CardinalityType
    <3>7. f[First(T)] = IF First(T) \in X THEN 1 ELSE 0
      BY <3>1 DEF Marks
    <3> HIDE DEF U
    <3> QED BY <3>1, <3>2, <3>3, <3>4, <3>5, <3>6, <3>7
  <2> QED BY <2>2, <2>3
<1>2. SUBSET S \subseteq P
  <2> HIDE DEF P
  <2> QED BY <1>1, PartsByPart
<1>3. X \cap S = X /\ X \in SUBSET S
  BY DEF Marks
<1> QED BY <1>2, <1>3, FS_Subset, FS_CardinalityType
-----------------------------------------------------------------------------
(***************************************************************************)
(* Who comes first when leftover cents are given out                       *)
(***************************************************************************)
RankOf(remainder) ==
    [c \in DOMAIN remainder |-> Cardinality(Before(remainder, c))]

\* The order is total: of two, the one who comes first has a smaller rank.
LEMMA FirstHasLowerRank ==
  ASSUME NEW D, IsFiniteSet(D), D \subseteq Int, NEW remainder \in [D -> Int],
         NEW c \in D, NEW d \in D, c \in Before(remainder, d)
  PROVE  RankOf(remainder)[c] < RankOf(remainder)[d]
<1>1. /\ Before(remainder, c) \in SUBSET D
      /\ Before(remainder, d) \in SUBSET D
  BY DEF Before
<1>2. \A e \in Before(remainder, c) : e \in Before(remainder, d)
  BY DEF Before
<1>3. c \notin Before(remainder, c)
  BY DEF Before
<1>4. PICK X \in SUBSET D, Y \in SUBSET D :
         X = Before(remainder, c) /\ Y = Before(remainder, d)
  BY <1>1
<1>5. IsFiniteSet(X) /\ IsFiniteSet(Y) /\ X \subseteq Y /\ X # Y
  BY <1>2, <1>3, <1>4, FS_Subset
<1>6. Cardinality(X) <= Cardinality(Y) /\ Cardinality(X) # Cardinality(Y)
  BY <1>5, FS_Subset
<1>7. Cardinality(X) \in Int /\ Cardinality(Y) \in Int
  BY <1>5, FS_CardinalityType
<1>8. RankOf(remainder)[c] = Cardinality(X) /\ RankOf(remainder)[d] = Cardinality(Y)
  BY <1>4 DEF RankOf
<1> QED BY <1>6, <1>7, <1>8

\* The ranks of n contributors are 0 to n - 1, each of one of them.
LEMMA RanksAreAllDifferent ==
  ASSUME NEW D, IsFiniteSet(D), D \subseteq Int, NEW remainder \in [D -> Int]
  PROVE  RankOf(remainder) \in Bijection(D, 0..Cardinality(D) - 1)
<1> DEFINE rank == RankOf(remainder)
           n == Cardinality(D)
<1>1. n \in Nat
  BY FS_CardinalityType
<1>2. ASSUME NEW c \in D PROVE rank[c] \in 0..n - 1
  <2>1. PICK X \in SUBSET D : X = Before(remainder, c)
    BY DEF Before
  <2>2. c \notin X
    BY <2>1 DEF Before
  <2>3. IsFiniteSet(X) /\ Cardinality(X) <= n /\ Cardinality(X) # n
    BY <2>2, FS_Subset
  <2>4. Cardinality(X) \in Nat
    BY <2>3, FS_CardinalityType
  <2>5. rank[c] = Cardinality(X)
    BY <2>1 DEF RankOf
  <2> QED BY <1>1, <2>3, <2>4, <2>5
<1>3. ASSUME NEW c \in D, NEW d \in D, c # d PROVE rank[c] # rank[d]
  <2>1. c \in Before(remainder, d) \/ d \in Before(remainder, c)
    BY <1>3 DEF Before
  <2>2. rank[c] < rank[d] \/ rank[d] < rank[c]
    BY <2>1, FirstHasLowerRank
  <2> QED BY <1>1, <1>2, <2>2
<1>4. rank \in [D -> 0..n - 1]
  <2>1. rank = [c \in D |-> rank[c]]
    BY DEF RankOf
  <2> HIDE DEF rank
  <2> QED BY <1>2, <2>1
<1> HIDE DEF rank, n
<1>5. rank \in Injection(D, 0..n - 1)
  BY <1>3, <1>4 DEF Injection, IsInjective
<1>6. IsFiniteSet(0..n - 1) /\ Cardinality(0..n - 1) = n
  <2>1. 0 \in Int /\ n - 1 \in Int
    BY <1>1
  <2>2. IsFiniteSet(0..n - 1)
        /\ Cardinality(0..n - 1) = IF 0 > n - 1 THEN 0 ELSE (n - 1) - 0 + 1
    BY <2>1, FS_Interval
  <2> QED BY <1>1, <2>2
<1>7. rank \in Surjection(D, 0..n - 1)
  BY <1>5, <1>6, FS_Injection DEF n
<1> QED BY <1>5, <1>7 DEF Bijection, rank, n

\* As many are among the first L as L says.
LEMMA FirstOnesAreCounted ==
  ASSUME NEW D, IsFiniteSet(D), D \subseteq Int, NEW remainder \in [D -> Int],
         NEW L \in 0..Cardinality(D)
  PROVE  Cardinality({c \in D : RankOf(remainder)[c] < L}) = L
<1> DEFINE n == Cardinality(D)
           X == {c \in D : RankOf(remainder)[c] < L}
           f == [c \in X |-> RankOf(remainder)[c]]
<1>1. n \in Nat /\ L \in Nat /\ L <= n
  BY FS_CardinalityType
<1>2. PICK rank : rank = RankOf(remainder)
  OBVIOUS
<1>3. rank \in Bijection(D, 0..n - 1)
  BY <1>2, RanksAreAllDifferent
<1>4. /\ \A c \in D : rank[c] \in 0..n - 1
      /\ \A c, d \in D : rank[c] = rank[d] => c = d
      /\ \A i \in 0..n - 1 : \E c \in D : rank[c] = i
  BY <1>3 DEF Bijection, Injection, Surjection, IsInjective
<1>5. f \in Bijection(X, 0..L - 1)
  <2>1. \A c \in X : c \in D /\ f[c] = rank[c] /\ f[c] \in 0..L - 1
    BY <1>1, <1>2, <1>4
  <2>2. \A i \in 0..L - 1 : \E c \in X : f[c] = i
    BY <1>1, <1>2, <1>4
  <2>3. \A c, d \in X : f[c] = f[d] => c = d
    BY <1>4, <2>1
  <2>4. f \in [X -> 0..L - 1]
    <3>1. f = [c \in X |-> f[c]]
      OBVIOUS
    <3> HIDE DEF f
    <3> QED BY <2>1, <3>1
  <2> HIDE DEF f, X
  <2> QED BY <2>2, <2>3, <2>4 DEF Bijection, Injection, Surjection, IsInjective
<1>6. IsFiniteSet(X)
  BY FS_Subset
<1>7. Cardinality(0..L - 1) = Cardinality(X)
  <2>1. ExistsBijection(X, 0..L - 1)
    BY <1>5 DEF ExistsBijection
  <2> HIDE DEF X
  <2> QED BY <1>6, <2>1, FS_Bijection
<1>8. Cardinality(0..L - 1) = L
  <2>1. 0 \in Int /\ L - 1 \in Int
    BY <1>1
  <2>2. Cardinality(0..L - 1) = IF 0 > L - 1 THEN 0 ELSE (L - 1) - 0 + 1
    BY <2>1, FS_Interval
  <2> QED BY <1>1, <2>2
<1> QED BY <1>7, <1>8
-----------------------------------------------------------------------------
(***************************************************************************)
(* Whole cents, what remains of every share, and the leftover cents        *)
(***************************************************************************)
WholeOf(pool, points) ==
    [c \in DOMAIN points |-> Truncated(pool * points[c], SumFunction(points))]

\* What the whole cents leave of each share, in parts of a cent: exact, ...
RestOf(pool, points) ==
    [c \in DOMAIN points |->
        pool * points[c] - WholeOf(pool, points)[c] * SumFunction(points)]

\* ... and as the code rounds it.
RoundedRestOf(pool, points) ==
    [c \in DOMAIN points |->
        Rounded(RestOf(pool, points)[c] * Million, SumFunction(points))]

\* A pool is shared among the points of a month.
Shareable(pool, points) ==
    /\ pool \in Nat \ {0}
    /\ IsFiniteSet(DOMAIN points) /\ DOMAIN points \subseteq Int
    /\ points \in [DOMAIN points -> Nat]
    /\ SumFunction(points) \in Nat \ {0}

\* What is allocated, in these terms.
LEMMA AllocatedInTwo ==
  ASSUME NEW pool, NEW points, Shareable(pool, points)
  PROVE  Allocated(pool, points) =
           [c \in DOMAIN points |-> WholeOf(pool, points)[c] +
               IF RankOf(RoundedRestOf(pool, points))[c]
                     < Leftover(pool, WholeOf(pool, points))
               THEN 1 ELSE 0]
<1> DEFINE total == SumFunction(points)
           whole == [c \in DOMAIN points |-> Truncated(pool * points[c], total)]
           remainder == [c \in DOMAIN points |->
              Rounded((pool * points[c] - whole[c] * total) * Million, total)]
<1>1. whole = WholeOf(pool, points)
  BY DEF WholeOf
<1>2. remainder = RoundedRestOf(pool, points)
  BY <1>1 DEF RoundedRestOf, RestOf
<1>3. ~(pool = 0 \/ total <= 0)
  BY DEF Shareable
<1>4. Allocated(pool, points) =
        [c \in DOMAIN points |-> whole[c] +
            IF Cardinality(Before(remainder, c)) < Leftover(pool, whole) THEN 1 ELSE 0]
  BY <1>3 DEF Allocated
<1>5. DOMAIN remainder = DOMAIN points
  OBVIOUS
<1> HIDE DEF whole, remainder
<1>6. \A c \in DOMAIN points :
         RankOf(remainder)[c] = Cardinality(Before(remainder, c))
  BY <1>5 DEF RankOf
<1> QED BY <1>1, <1>2, <1>4, <1>6

\* A share is its whole cents and less than a cent more.
LEMMA WholeAndRest ==
  ASSUME NEW pool, NEW points, Shareable(pool, points), NEW c \in DOMAIN points
  PROVE  /\ WholeOf(pool, points)[c] \in Nat
         /\ RestOf(pool, points)[c] \in 0..SumFunction(points) - 1
         /\ pool * points[c] =
               WholeOf(pool, points)[c] * SumFunction(points) + RestOf(pool, points)[c]
<1>1. PICK total \in Nat \ {0} : total = SumFunction(points)
  BY DEF Shareable
<1>2. PICK n \in Nat : n = pool * points[c]
  <2>1. pool \in Nat /\ points[c] \in Nat
    BY DEF Shareable
  <2>2. pool * points[c] \in Nat
    BY <2>1
  <2> QED BY <2>2
<1>3. n \div total \in Int /\ (n \div total) * total <= n /\ n < (n \div total) * total + total
  <2>1. n \in Int /\ total \in Int /\ total > 0
    BY <1>1, <1>2
  <2> QED BY <2>1, DivisionIsInt
<1>4. PICK q \in Int : q = n \div total
  BY <1>3
<1>5. q \in Nat
  <2>1. n < q * total + total
    BY <1>3, <1>4
  <2>2. CASE q < 0
    <3>1. q * total + total <= 0
      BY <2>2
    <3> QED BY <2>1, <3>1
  <2> QED BY <2>2
<1>6. WholeOf(pool, points)[c] = q
  BY <1>1, <1>2, <1>4 DEF WholeOf, Truncated
<1>7. RestOf(pool, points)[c] = n - q * total
  BY <1>1, <1>2, <1>6 DEF RestOf
<1>8. PICK m \in Int : m = q * total
  OBVIOUS
<1>9. n - m \in 0..total - 1 /\ n = m + (n - m)
  BY <1>3, <1>4, <1>8
<1> QED BY <1>1, <1>2, <1>5, <1>6, <1>7, <1>8, <1>9

\* The rounded remainders are numbers.
LEMMA RoundedRestsAreInts ==
  ASSUME NEW pool, NEW points, Shareable(pool, points)
  PROVE  RoundedRestOf(pool, points) \in [DOMAIN points -> Int]
<1>1. ASSUME NEW c \in DOMAIN points
      PROVE  Rounded(RestOf(pool, points)[c] * Million, SumFunction(points)) \in Int
  <2>1. PICK total \in Nat \ {0} : total = SumFunction(points)
    BY DEF Shareable
  <2>2. PICK r \in Nat : r = RestOf(pool, points)[c]
    BY WholeAndRest
  <2>3. PICK n \in Int, d \in Int : n = 2 * (r * Million) + total /\ d = 2 * total /\ d > 0
    BY DEF Million
  <2>4. n \div d \in Int
    BY <2>3, DivisionIsInt
  <2> QED BY <2>1, <2>2, <2>3, <2>4 DEF Rounded
<1> QED BY <1>1 DEF RoundedRestOf

\* What remains of the shares adds up to the leftover cents, of which there are no more
\* than contributors with something remaining.
LEMMA RestsAddUp ==
  ASSUME NEW pool, NEW points, Shareable(pool, points),
         NEW P, P = {c \in DOMAIN points : RestOf(pool, points)[c] > 0}
  PROVE  /\ SumFunctionOnSet(WholeOf(pool, points), DOMAIN points) \in Int
         /\ Leftover(pool, WholeOf(pool, points)) =
               pool - SumFunctionOnSet(WholeOf(pool, points), DOMAIN points)
         /\ Leftover(pool, WholeOf(pool, points)) \in 0..Cardinality(P)
         /\ IsFiniteSet(P)
<1>1. PICK D : D = DOMAIN points
  OBVIOUS
<1>2. PICK total \in Nat \ {0} : total = SumFunction(points)
  BY DEF Shareable
<1>3. PICK whole : whole = WholeOf(pool, points)
  OBVIOUS
<1>4. PICK rest : rest = RestOf(pool, points)
  OBVIOUS
<1>5. /\ IsFiniteSet(D) /\ pool \in Nat
      /\ total = SumFunctionOnSet(points, D)
      /\ \A c \in D : points[c] \in Nat
  BY <1>1, <1>2 DEF Shareable, SumFunction
<1>6. \A c \in D : /\ whole[c] \in Nat /\ rest[c] \in 0..total - 1
                   /\ pool * points[c] = whole[c] * total + rest[c]
  BY <1>1, <1>2, <1>3, <1>4, WholeAndRest
<1> DEFINE h == [c \in D |-> pool * points[c]]
           k == [c \in D |-> total * whole[c]]
           u == [c \in D |-> IF c \in P THEN 1 ELSE 0]
           v == [c \in D |-> (total - 1) * u[c]]
           z == [c \in D |-> 0 * rest[c]]
<1>7. Scales(h, points, pool, D)
  BY <1>5 DEF Scales
<1>8. Scales(k, whole, total, D)
  BY <1>6 DEF Scales
<1>9. Adds(h, k, rest, D)
  <2>1. ASSUME NEW c \in D
        PROVE  k[c] \in Int /\ rest[c] \in Int /\ h[c] = k[c] + rest[c]
    <3>1. PICK w \in Nat : w = whole[c]
      BY <1>6
    <3>2. total * w = w * total /\ total * w \in Int
      OBVIOUS
    <3> QED BY <1>6, <3>1, <3>2
  <2> QED BY <2>1 DEF Adds
<1>10. Marks(u, P, D)
  BY <1>1 DEF Marks
<1>11. Scales(v, u, total - 1, D)
  BY DEF Scales
<1>12. Below(rest, v, D)
  <2>1. ASSUME NEW c \in D PROVE rest[c] \in Int /\ v[c] \in Int /\ rest[c] <= v[c]
    <3>1. CASE c \in P
      BY <1>6, <3>1
    <3>2. CASE c \notin P
      <4>1. ~(rest[c] > 0)
        BY <1>1, <1>4, <3>2
      <4>2. rest[c] = 0
        BY <1>6, <4>1
      <4> QED BY <3>2, <4>2
    <3> QED BY <3>1, <3>2
  <2> QED BY <2>1 DEF Below
<1>13. Scales(z, rest, 0, D)
  BY <1>6 DEF Scales
<1>14. Below(z, rest, D)
  BY <1>6 DEF Below
<1> HIDE DEF h, k, u, v, z
<1>15. PICK a \in Int : a = SumFunctionOnSet(whole, D)
  BY <1>5, <1>8, SumOfMultiples
<1>16. PICK b \in Int : b = SumFunctionOnSet(rest, D)
  BY <1>5, <1>9, SumOfBoth
<1>17. pool * total = total * a + b
  <2>1. SumFunctionOnSet(h, D) = pool * total
    BY <1>5, <1>7, SumOfMultiples
  <2>2. SumFunctionOnSet(k, D) = total * a
    BY <1>5, <1>8, <1>15, SumOfMultiples
  <2>3. SumFunctionOnSet(h, D) = SumFunctionOnSet(k, D) + SumFunctionOnSet(rest, D)
    BY <1>5, <1>9, SumOfBoth
  <2> QED BY <2>1, <2>2, <2>3, <1>16
<1>18. IsFiniteSet(P) /\ Cardinality(P) \in Nat /\ SumFunctionOnSet(u, D) = Cardinality(P)
  BY <1>5, <1>10, SumOfMarks
<1>19. PICK p \in Nat : p = Cardinality(P)
  BY <1>18
<1>20. b <= (total - 1) * p
  <2>1. SumFunctionOnSet(v, D) = (total - 1) * SumFunctionOnSet(u, D)
    BY <1>5, <1>11, SumOfMultiples
  <2>2. SumFunctionOnSet(rest, D) <= SumFunctionOnSet(v, D)
    BY <1>5, <1>12, SumIsBelow
  <2> QED BY <2>1, <2>2, <1>16, <1>18, <1>19
<1>21. 0 <= b
  <2>1. SumFunctionOnSet(z, D) = 0 * b
    BY <1>5, <1>13, <1>16, SumOfMultiples
  <2>2. SumFunctionOnSet(z, D) <= SumFunctionOnSet(rest, D)
    BY <1>5, <1>14, SumIsBelow
  <2>3. 0 * b = 0
    OBVIOUS
  <2> QED BY <2>1, <2>2, <2>3, <1>16
<1>22. PICK L \in Int : L = pool - a
  BY <1>5
<1>23. total * L = b
  <2>1. total * L = total * pool - total * a
    BY <1>5, <1>22
  <2>2. total * pool = pool * total /\ pool * total \in Int /\ total * a \in Int
    BY <1>5
  <2> QED BY <1>17, <2>1, <2>2
<1>24. L >= 0
  <2>1. CASE L < 0
    <3>1. total * L < 0
      BY <2>1
    <3> QED BY <1>21, <1>23, <3>1
  <2> QED BY <2>1
<1>25. L <= p
  <2>1. CASE L > p
    <3>1. PICK e \in Nat : L = p + 1 + e
      <4>1. L - p - 1 \in Nat /\ L = p + 1 + (L - p - 1)
        BY <2>1
      <4> QED BY <4>1
    <3>2. total * L = total * p + total + total * e
      BY <3>1
    <3>3. total * e >= 0 /\ total * e \in Int /\ total * p \in Int
      OBVIOUS
    <3>4. (total - 1) * p = total * p - p
      OBVIOUS
    <3> QED BY <1>20, <1>23, <3>2, <3>3, <3>4
  <2> QED BY <2>1
<1>26. Leftover(pool, whole) = pool - SumFunctionOnSet(whole, D)
  <2>1. DOMAIN whole = D
    BY <1>1, <1>3 DEF WholeOf
  <2> QED BY <2>1 DEF Leftover, SumFunction
<1> QED BY <1>1, <1>3, <1>15, <1>18, <1>19, <1>22, <1>24, <1>25, <1>26
-----------------------------------------------------------------------------
(***************************************************************************)
(* What is allocated adds up, and is fair                                  *)
(***************************************************************************)
\* The rounding error and the ties it makes do not matter: who gets the leftover cents
\* does not change what everyone gets together.
LEMMA AllocatedAddsUp ==
  ASSUME NEW pool, NEW points, Shareable(pool, points)
  PROVE  SumFunctionOnSet(Allocated(pool, points), DOMAIN points) = pool
<1>1. PICK D : D = DOMAIN points
  OBVIOUS
<1>2. PICK whole : whole = WholeOf(pool, points)
  OBVIOUS
<1>3. PICK remainder : remainder = RoundedRestOf(pool, points)
  OBVIOUS
<1>4. PICK P \in SUBSET D : P = {c \in D : RestOf(pool, points)[c] > 0}
  OBVIOUS
<1>5. PICK L : L = Leftover(pool, whole)
  OBVIOUS
<1>6. IsFiniteSet(D) /\ D \subseteq Int /\ pool \in Int
  BY <1>1 DEF Shareable
<1>7. /\ SumFunctionOnSet(whole, D) \in Int
      /\ L = pool - SumFunctionOnSet(whole, D)
      /\ L \in 0..Cardinality(P)
  BY <1>1, <1>2, <1>4, <1>5, RestsAddUp
<1>8. L \in 0..Cardinality(D)
  <2>1. Cardinality(P) <= Cardinality(D) /\ IsFiniteSet(P)
    BY <1>6, FS_Subset
  <2>2. Cardinality(P) \in Nat /\ Cardinality(D) \in Nat
    BY <1>6, <2>1, FS_CardinalityType
  <2> QED BY <1>7, <2>1, <2>2
<1>9. remainder \in [D -> Int]
  BY <1>1, <1>3, RoundedRestsAreInts
<1> DEFINE X == {c \in D : RankOf(remainder)[c] < L}
           u == [c \in D |-> IF c \in X THEN 1 ELSE 0]
<1>10. Cardinality(X) = L
  BY <1>6, <1>8, <1>9, FirstOnesAreCounted
<1>11. PICK cents : cents = Allocated(pool, points)
  OBVIOUS
<1>12. Adds(cents, whole, u, D)
  <2>1. cents = [c \in D |-> whole[c] + IF RankOf(remainder)[c] < L THEN 1 ELSE 0]
    BY <1>1, <1>2, <1>3, <1>5, <1>11, AllocatedInTwo
  <2>2. ASSUME NEW c \in D PROVE whole[c] \in Int
    BY <1>1, <1>2, WholeAndRest
  <2> QED BY <2>1, <2>2 DEF Adds
<1>13. Marks(u, X, D)
  BY DEF Marks
<1> HIDE DEF u, X
<1>14. SumFunctionOnSet(cents, D) = SumFunctionOnSet(whole, D) + SumFunctionOnSet(u, D)
  BY <1>6, <1>12, SumOfBoth
<1>15. SumFunctionOnSet(u, D) = Cardinality(X)
  BY <1>6, <1>13, SumOfMarks
<1> QED BY <1>1, <1>6, <1>7, <1>10, <1>11, <1>14, <1>15

\* With no more than a million points in a month the rounding keeps the exact order of what
\* remains of the shares.
LEMMA RoundingKeepsOrder ==
  ASSUME NEW total \in Nat \ {0}, total <= Million, NEW r \in Nat, NEW s \in Nat, r < s
  PROVE  /\ Rounded(r * Million, total) \in Int /\ Rounded(s * Million, total) \in Int
         /\ Rounded(r * Million, total) < Rounded(s * Million, total)
<1>1. PICK d \in Nat : d = 2 * total
  OBVIOUS
<1>2. PICK m \in Nat : m = 2 * (r * Million) + total
  BY DEF Million
<1>3. PICK n \in Nat : n = 2 * (s * Million) + total
  BY DEF Million
<1>4. n >= m + d
  BY <1>1, <1>2, <1>3 DEF Million
<1>5. d > 0
  BY <1>1
<1>6. /\ m \div d \in Int /\ (m \div d) * d <= m
      /\ n \div d \in Int /\ n < (n \div d) * d + d
  BY <1>5, DivisionIsInt
<1>7. PICK a \in Int, b \in Int : a = m \div d /\ b = n \div d
  BY <1>6
<1>8. a < b
  <2>1. a * d + d < b * d + d
    <3>1. a * d <= m /\ n < b * d + d
      BY <1>6, <1>7
    <3>2. a * d \in Int /\ b * d \in Int
      OBVIOUS
    <3> QED BY <1>4, <3>1, <3>2
  <2>2. CASE b <= a
    <3>1. b * d <= a * d
      BY <2>2
    <3>2. a * d \in Int /\ b * d \in Int
      OBVIOUS
    <3> QED BY <2>1, <3>1, <3>2
  <2> QED BY <2>2
<1>9. Rounded(r * Million, total) = a /\ Rounded(s * Million, total) = b
  BY <1>1, <1>2, <1>3, <1>7 DEF Rounded
<1> QED BY <1>8, <1>9

\* Of two, the one with more remaining has the smaller rank, and nobody gets a leftover cent
\* whose share is in whole cents.
LEMMA LeftoverCentsAreFair ==
  ASSUME NEW pool, NEW points, Shareable(pool, points), SumFunction(points) <= Million,
         NEW L, L = Leftover(pool, WholeOf(pool, points)),
         NEW rank, rank = RankOf(RoundedRestOf(pool, points))
  PROVE  /\ \A c, d \in DOMAIN points :
               RestOf(pool, points)[d] < RestOf(pool, points)[c] => rank[c] < rank[d]
         /\ \A c \in DOMAIN points : RestOf(pool, points)[c] = 0 => L <= rank[c]
         /\ L \in Int /\ \A c \in DOMAIN points : rank[c] \in Int
<1>1. PICK D : D = DOMAIN points
  OBVIOUS
<1>2. PICK remainder : remainder = RoundedRestOf(pool, points)
  OBVIOUS
<1>3. PICK rest : rest = RestOf(pool, points)
  OBVIOUS
<1>4. PICK total \in Nat \ {0} : total = SumFunction(points) /\ total <= Million
  BY DEF Shareable
<1>5. IsFiniteSet(D) /\ D \subseteq Int /\ pool \in Int
  BY <1>1 DEF Shareable
<1>6. remainder \in [D -> Int]
  BY <1>1, <1>2, RoundedRestsAreInts
<1>7. \A c \in D : rest[c] \in Nat
  BY <1>1, <1>3, WholeAndRest
<1>8. ASSUME NEW c \in D, NEW d \in D, rest[d] < rest[c]
      PROVE  c \in Before(remainder, d)
  <2>1. remainder[d] = Rounded(rest[d] * Million, total)
        /\ remainder[c] = Rounded(rest[c] * Million, total)
    BY <1>1, <1>2, <1>3, <1>4 DEF RoundedRestOf
  <2>2. remainder[d] < remainder[c]
    BY <1>4, <1>7, <1>8, <2>1, RoundingKeepsOrder
  <2>3. DOMAIN remainder = D /\ remainder[c] \in Int /\ remainder[d] \in Int
    BY <1>6
  <2> QED BY <2>2, <2>3 DEF Before
<1>9. PICK P \in SUBSET D : P = {c \in D : rest[c] > 0}
  OBVIOUS
<1>10. L \in 0..Cardinality(P) /\ IsFiniteSet(P)
  BY <1>1, <1>3, <1>9, RestsAddUp
<1>11. ASSUME NEW c \in D PROVE rank[c] \in Int /\ rank[c] = Cardinality(Before(remainder, c))
                                /\ IsFiniteSet(Before(remainder, c))
  <2>1. PICK X \in SUBSET D : X = Before(remainder, c)
    BY <1>6 DEF Before
  <2>2. IsFiniteSet(X) /\ Cardinality(X) \in Nat
    BY <1>5, FS_Subset, FS_CardinalityType
  <2>3. rank[c] = Cardinality(X)
    BY <1>2, <1>6, <2>1 DEF RankOf
  <2> QED BY <2>1, <2>2, <2>3
<1>12. ASSUME NEW c \in D, rest[c] = 0 PROVE L <= rank[c]
  <2>1. \A d \in P : d \in Before(remainder, c)
    BY <1>8, <1>9, <1>12
  <2>2. PICK X : X = Before(remainder, c)
    OBVIOUS
  <2>3. P \in SUBSET X /\ IsFiniteSet(X)
    BY <1>11, <2>1, <2>2
  <2>4. Cardinality(P) <= Cardinality(X)
    BY <2>3, FS_Subset
  <2>5. Cardinality(P) \in Nat /\ rank[c] = Cardinality(X) /\ rank[c] \in Int
    BY <1>10, <1>11, <2>2, FS_CardinalityType
  <2> QED BY <1>10, <2>4, <2>5
<1>13. L \in Int
  BY <1>10, FS_CardinalityType
<1>14. ASSUME NEW c \in D, NEW d \in D, rest[d] < rest[c] PROVE rank[c] < rank[d]
  <2>1. c \in Before(remainder, d)
    BY <1>8, <1>14
  <2> QED BY <1>2, <1>5, <1>6, <2>1, FirstHasLowerRank
<1> QED BY <1>1, <1>3, <1>11, <1>12, <1>13, <1>14

\* A payout is the exact share to within a cent, and more points never pay less.
LEMMA AllocatedIsFair ==
  ASSUME NEW pool, NEW points, Shareable(pool, points), SumFunction(points) <= Million,
         NEW cents, cents = Allocated(pool, points),
         NEW c \in DOMAIN points, NEW d \in DOMAIN points
  PROVE  /\ cents[c] * SumFunction(points) - pool * points[c]
               \in 1 - SumFunction(points) .. SumFunction(points) - 1
         /\ points[c] > points[d] => cents[c] >= cents[d]
<1>1. PICK total \in Nat \ {0} : total = SumFunction(points) /\ total <= Million
  BY DEF Shareable
<1>2. PICK L : L = Leftover(pool, WholeOf(pool, points))
  OBVIOUS
<1>3. PICK rank : rank = RankOf(RoundedRestOf(pool, points))
  OBVIOUS
<1>4. PICK rest : rest = RestOf(pool, points)
  OBVIOUS
<1>5. PICK whole : whole = WholeOf(pool, points)
  OBVIOUS
<1>6. PICK D : D = DOMAIN points
  OBVIOUS
<1>7. \A e \in D : cents[e] = whole[e] + IF rank[e] < L THEN 1 ELSE 0
  BY <1>2, <1>3, <1>5, <1>6, AllocatedInTwo
<1>8. \A e \in D : /\ whole[e] \in Nat /\ rest[e] \in 0..total - 1
                   /\ pool * points[e] = whole[e] * total + rest[e]
  BY <1>1, <1>4, <1>5, <1>6, WholeAndRest
<1>9. /\ \A e, f \in D : rest[f] < rest[e] => rank[e] < rank[f]
      /\ \A e \in D : rest[e] = 0 => L <= rank[e]
      /\ L \in Int /\ \A e \in D : rank[e] \in Int
  BY <1>1, <1>2, <1>3, <1>4, <1>6, LeftoverCentsAreFair
<1>10. c \in D /\ d \in D
  BY <1>6
<1>11. cents[c] * total - pool * points[c] \in 1 - total .. total - 1
  <2>1. PICK w \in Nat, r \in Nat : w = whole[c] /\ r = rest[c] /\ r < total
    BY <1>8, <1>10
  <2>2. PICK m \in Int : m = w * total
    OBVIOUS
  <2>3. pool * points[c] = m + r
    BY <1>8, <1>10, <2>1, <2>2
  <2>4. CASE rank[c] < L
    <3>1. r # 0
      BY <1>9, <1>10, <2>1, <2>4
    <3>2. cents[c] * total = m + total
      <4>1. cents[c] = w + 1
        BY <1>7, <1>10, <2>1, <2>4
      <4>2. (w + 1) * total = w * total + total
        OBVIOUS
      <4> QED BY <2>2, <4>1, <4>2
    <3> QED BY <2>1, <2>3, <3>1, <3>2
  <2>5. CASE ~(rank[c] < L)
    <3>1. cents[c] * total = m
      BY <1>7, <1>10, <2>1, <2>2, <2>5
    <3> QED BY <2>1, <2>3, <3>1
  <2> QED BY <2>4, <2>5
<1>12. ASSUME points[c] > points[d] PROVE cents[c] >= cents[d]
  <2>1. PICK v \in Nat, q \in Nat : v = whole[c] /\ q = rest[c] /\ q < total
    BY <1>8, <1>10
  <2>2. PICK w \in Nat, r \in Nat : w = whole[d] /\ r = rest[d] /\ r < total
    BY <1>8, <1>10
  <2>3. v * total + q > w * total + r
    <3>1. pool \in Nat /\ pool > 0 /\ points[c] \in Nat /\ points[d] \in Nat
      BY <1>6, <1>10 DEF Shareable
    <3>2. \A x, y \in Nat : x > y => pool * x > pool * y
      <4>1. PICK p \in Nat : p = pool /\ p > 0
        BY <3>1
      <4>2. ASSUME NEW x \in Nat, NEW y \in Nat, x > y PROVE p * x > p * y
        <5>1. PICK e \in Nat : x = y + 1 + e
          <6>1. x - y - 1 \in Nat /\ x = y + 1 + (x - y - 1)
            BY <4>2
          <6> QED BY <6>1
        <5>2. p * x = p * y + p + p * e
          BY <5>1
        <5>3. p * e >= 0 /\ p * e \in Int /\ p * y \in Int
          OBVIOUS
        <5> QED BY <4>1, <5>2, <5>3
      <4> QED BY <4>1, <4>2
    <3>3. pool * points[c] > pool * points[d]
      BY <1>12, <3>1, <3>2
    <3> QED BY <1>8, <1>10, <2>1, <2>2, <3>3
  <2>4. v >= w
    <3>1. CASE v < w
      <4>1. PICK e \in Nat : w = v + 1 + e
        <5>1. w - v - 1 \in Nat /\ w = v + 1 + (w - v - 1)
          BY <3>1
        <5> QED BY <5>1
      <4>2. w * total = v * total + total + e * total
        BY <4>1
      <4>3. e * total >= 0 /\ e * total \in Int /\ v * total \in Int
        OBVIOUS
      <4> QED BY <2>1, <2>2, <2>3, <4>2, <4>3
    <3> QED BY <3>1
  <2>5. CASE v > w
    BY <1>7, <1>10, <2>1, <2>2, <2>5
  <2>6. CASE v = w
    <3>1. r < q
      <4>1. v * total \in Int
        OBVIOUS
      <4> QED BY <2>3, <2>6, <4>1
    <3>2. rank[c] < rank[d] /\ rank[c] \in Int /\ rank[d] \in Int /\ L \in Int
      BY <1>9, <1>10, <2>1, <2>2, <3>1
    <3>3. rank[d] < L => rank[c] < L
      BY <3>2
    <3>4. CASE rank[c] < L
      <4>1. cents[c] = v + 1
        BY <1>7, <1>10, <2>1, <3>4
      <4>2. cents[d] = v + 1 \/ cents[d] = v + 0
        BY <1>7, <1>10, <2>2, <2>6
      <4> QED BY <4>1, <4>2
    <3>5. CASE ~(rank[c] < L)
      <4>1. cents[c] = v + 0 /\ cents[d] = v + 0
        BY <1>7, <1>10, <2>1, <2>2, <2>6, <3>3, <3>5
      <4> QED BY <4>1
    <3> QED BY <3>4, <3>5
  <2> QED BY <2>4, <2>5, <2>6
<1> QED BY <1>1, <1>11, <1>12

-----------------------------------------------------------------------------
(***************************************************************************)
(* The stored snapshots                                                    *)
(***************************************************************************)
\* Natural numbers that are not all zero have a positive sum.
LEMMA SumIsPositive ==
  ASSUME NEW D, IsFiniteSet(D), NEW f, \A x \in D : f[x] \in Nat, NEW c \in D, f[c] > 0
  PROVE  SumFunctionOnSet(f, D) \in Nat \ {0}
<1> DEFINE T == D \ {c}
           z == [x \in D |-> 0 * f[x]]
<1>1. IsFiniteSet(T) /\ T \subseteq D
  <2>1. T \in SUBSET D
    OBVIOUS
  <2> QED BY <2>1, FS_Subset
<1>2. Below(z, f, T) /\ Scales(z, f, 0, T)
  BY DEF Below, Scales
<1>3. SumFunctionOnSet(f, D) = f[c] + SumFunctionOnSet(f, D \ {c})
  <2>1. \A x \in D : f[x] \in Int
    OBVIOUS
  <2> QED BY <2>1, SumByAny
<1>4. SumFunctionOnSet(f, D) = f[c] + SumFunctionOnSet(f, T)
  BY <1>3
<1> HIDE DEF T, z
<1>5. SumFunctionOnSet(f, T) \in Int
      /\ SumFunctionOnSet(z, T) <= SumFunctionOnSet(f, T)
  BY <1>1, <1>2, SumIsBelow
<1>6. SumFunctionOnSet(z, T) = 0
  <2>1. PICK s \in Int : s = SumFunctionOnSet(f, T)
    BY <1>5
  <2>2. SumFunctionOnSet(z, T) = 0 * s
    BY <1>1, <1>2, <2>1, SumOfMultiples
  <2>3. 0 * s = 0
    OBVIOUS
  <2> QED BY <2>2, <2>3
<1> QED BY <1>4, <1>5, <1>6

\* The points of a month with nobody below zero and somebody above can share a pool.
LEMMA AheadIsShareable ==
  ASSUME NEW D, IsFiniteSet(D), NEW points \in [D -> Int], AllAhead(points)
  PROVE  /\ points \in [D -> Nat] /\ SumFunction(points) \in Nat \ {0}
<1>1. \A c \in D : points[c] \in Nat
  <2>1. \A c \in D : points[c] >= 0
    BY DEF AllAhead
  <2> QED BY <2>1
<1>2. PICK c \in D : points[c] > 0
  BY DEF AllAhead
<1>3. SumFunctionOnSet(points, D) \in Nat \ {0}
  BY <1>1, <1>2, SumIsPositive
<1> QED BY <1>1, <1>3 DEF SumFunction

\* What is in the cents of a month that pays.
LEMMA PayingMonth ==
  ASSUME RewardsInv, NEW p \in Paying, AllAhead(Points(snapshot[p].counted))
  PROVE  \E points, pool, cents, D :
            /\ points = Points(snapshot[p].counted)
            /\ pool = snapshot[p].pool /\ cents = snapshot[p].cents
            /\ pool \in Nat /\ D = DOMAIN points
            /\ cents = Allocated(pool, points)
            /\ IsFiniteSet(D) /\ D \subseteq Int
            /\ points \in [D -> Nat] /\ SumFunction(points) \in Nat \ {0}
<1>1. PICK row : row = snapshot[p]
  OBVIOUS
<1>2. Follows(row) /\ DOMAIN row.cents # {}
  BY <1>1 DEF Paying, RewardsInv, SnapshotsFollow
<1>3. row.cents = Allocated(row.pool, Points(row.counted)) /\ row.pool \in Nat
      /\ row.counted \in SUBSET events
  BY <1>2 DEF Follows
<1>4. PICK posts \in SUBSET events : posts = row.counted
  BY <1>3
<1>5. PICK points : points = Points(posts)
  OBVIOUS
<1>6. PICK D : D = Named(posts)
  OBVIOUS
<1>7. points \in [D -> Int] /\ IsFiniteSet(D) /\ D \subseteq Contributors
  BY <1>5, <1>6, PointsAreInts, EventsGive
<1>8. D \subseteq Int
  BY <1>7, RewardAssumption
<1>9. AllAhead(points)
  BY <1>1, <1>4, <1>5
<1>10. points \in [D -> Nat] /\ SumFunction(points) \in Nat \ {0}
  BY <1>7, <1>9, AheadIsShareable
<1>11. D = DOMAIN points
  BY <1>7
<1> QED BY <1>1, <1>3, <1>4, <1>5, <1>7, <1>8, <1>10, <1>11

\* Every stored snapshot pays its pool.
LEMMA InvShares ==
  ASSUME RewardsInv
  PROVE  PoolIsShared
<1>1. ASSUME NEW p \in Paying, AllAhead(Points(snapshot[p].counted))
      PROVE  SumFunction(snapshot[p].cents) = snapshot[p].pool
  <2>1. PICK points, pool, cents, D :
            /\ points = Points(snapshot[p].counted)
            /\ pool = snapshot[p].pool /\ cents = snapshot[p].cents
            /\ pool \in Nat /\ D = DOMAIN points
            /\ cents = Allocated(pool, points)
            /\ IsFiniteSet(D) /\ D \subseteq Int
            /\ points \in [D -> Nat] /\ SumFunction(points) \in Nat \ {0}
    BY <1>1, PayingMonth
  <2>2. DOMAIN cents = D
    BY <2>1, AllocatedIsInts
  <2>3. CASE pool = 0
    <3>1. cents = [c \in D |-> 0]
      BY <2>1, <2>3 DEF Allocated
    <3>2. Scales(cents, cents, 0, D)
      BY <3>1 DEF Scales
    <3>3. PICK s \in Int : s = SumFunctionOnSet(cents, D)
      BY <2>1, <3>2, SumOfMultiples
    <3>4. SumFunctionOnSet(cents, D) = 0 * s
      BY <2>1, <3>2, <3>3, SumOfMultiples
    <3>5. 0 * s = 0
      OBVIOUS
    <3> QED BY <2>1, <2>2, <2>3, <3>4, <3>5 DEF SumFunction
  <2>4. CASE pool # 0
    <3>1. Shareable(pool, points)
      BY <2>1, <2>4 DEF Shareable
    <3> QED BY <2>1, <2>2, <3>1, AllocatedAddsUp DEF SumFunction
  <2> QED BY <2>3, <2>4
<1> QED BY <1>1 DEF PoolIsShared

\* No month has more than a million points: above, the rounded remainders may tie where the
\* exact ones do not, and the lower id gets the cent.
SmallMonths ==
    \A p \in Paying : SumFunction(Points(snapshot[p].counted)) <= Million

\* ... and pays it fairly.
LEMMA InvIsFair ==
  ASSUME RewardsInv, SmallMonths
  PROVE  SharesAreFair
<1>1. ASSUME NEW p \in Paying, AllAhead(Points(snapshot[p].counted))
      PROVE  \A c, d \in DOMAIN Points(snapshot[p].counted) :
        /\ snapshot[p].cents[c] * SumFunction(Points(snapshot[p].counted))
              - snapshot[p].pool * Points(snapshot[p].counted)[c]
              \in 1 - SumFunction(Points(snapshot[p].counted))
                  .. SumFunction(Points(snapshot[p].counted)) - 1
        /\ Points(snapshot[p].counted)[c] > Points(snapshot[p].counted)[d] =>
              snapshot[p].cents[c] >= snapshot[p].cents[d]
  <2>1. PICK points, pool, cents, D :
            /\ points = Points(snapshot[p].counted)
            /\ pool = snapshot[p].pool /\ cents = snapshot[p].cents
            /\ pool \in Nat /\ D = DOMAIN points
            /\ cents = Allocated(pool, points)
            /\ IsFiniteSet(D) /\ D \subseteq Int
            /\ points \in [D -> Nat] /\ SumFunction(points) \in Nat \ {0}
    BY <1>1, PayingMonth
  <2>2. SumFunction(points) <= Million
    BY <2>1 DEF SmallMonths
  <2>3. ASSUME NEW c \in DOMAIN points, NEW d \in DOMAIN points
        PROVE  /\ cents[c] * SumFunction(points) - pool * points[c]
                     \in 1 - SumFunction(points) .. SumFunction(points) - 1
               /\ points[c] > points[d] => cents[c] >= cents[d]
    <3>1. CASE pool = 0
      <4>1. cents[c] = 0 /\ cents[d] = 0
        BY <2>1, <3>1 DEF Allocated
      <4>2. PICK total \in Nat \ {0}, x \in Nat : total = SumFunction(points) /\ x = points[c]
        BY <2>1
      <4>3. 0 * total = 0 /\ 0 * x = 0
        OBVIOUS
      <4> QED BY <3>1, <4>1, <4>2, <4>3
    <3>2. CASE pool # 0
      <4>1. Shareable(pool, points)
        BY <2>1, <3>2 DEF Shareable
      <4> QED BY <2>1, <2>2, <4>1, AllocatedIsFair
    <3> QED BY <3>1, <3>2
  <2> QED BY <2>1, <2>3
<1> QED BY <1>1 DEF SharesAreFair

\* What is known of the rows says that they are well formed.
LEMMA InvRewardsTypeOK ==
  ASSUME RewardsInv
  PROVE  RewardsTypeOK
<1>1. \A p \in Taken :
          /\ snapshot[p].pool \in Nat
          /\ snapshot[p].counted \subseteq Posts
          /\ DOMAIN snapshot[p].cents \subseteq Contributors
          /\ \A c \in DOMAIN snapshot[p].cents : snapshot[p].cents[c] \in Nat
  BY DEF RewardsInv, RowsAreThere, SnapshotsFollow, Follows
<1>2. /\ month \in Months /\ events \subseteq Posts /\ repeated \subseteq Posts
      /\ pc \in [Posts \cup Commands ->
              {"new", "lookup", "insert", "commit", "check", "store", "ended"}]
      /\ stamp \in [Posts -> 0..MaxMonth] /\ found \in [Commands -> SUBSET Posts]
  BY DEF RewardsInv, RowsAreThere, Posters, States
<1>3. /\ \A r \in Posts : op[r] \in Deliveries \cup ByHand \cup {NoOperation}
      /\ \A c \in Commands : op[c] \in Snapshots \cup Reports \cup {NoOperation}
  BY DEF RewardsInv, PostsFit, CommandsFit
<1> QED BY <1>1, <1>2, <1>3 DEF RewardsTypeOK

\* The payouts of a month add up to its pool, to the cent, when clawbacks left nobody below
\* zero: for any points, pools and number of contributors, whatever the rounding errors, and
\* however postings and commands interleave (_allocate_pool).
THEOREM PoolStaysShared == RewardsSpec => [](RewardsTypeOK /\ PoolIsShared)
<1>1. RewardsInv => RewardsTypeOK /\ PoolIsShared
  BY InvShares, InvRewardsTypeOK
<1>2. RewardsInv /\ [RewardsNext]_rewardVars => RewardsInv'
  BY NextRewardsInv
<1> QED BY <1>1, <1>2, InitRewardsInv, PTL DEF RewardsSpec

\* ... and every payout is within a cent of the exact share, and more points never pay less,
\* in months of up to a million points.
THEOREM SharesStayFair == RewardsSpec => [](SmallMonths => PoolIsSharedFairly)
<1>1. RewardsInv => (SmallMonths => PoolIsSharedFairly)
  BY InvShares, InvIsFair, InvRewardsTypeOK DEF PoolIsSharedFairly
<1>2. RewardsInv /\ [RewardsNext]_rewardVars => RewardsInv'
  BY NextRewardsInv
<1> QED BY <1>1, <1>2, InitRewardsInv, PTL DEF RewardsSpec

=============================================================================
