-------------------------- MODULE WebhookMintProofs --------------------------
(***************************************************************************)
(* Proofs about WebhookMint, for any number of workers and crashes and for *)
(* both ways a provider reports the status of a payment.                   *)
(*                                                                         *)
(* MintInv is inductive together with TypeOK.  The heart of it: a link is  *)
(* never undone, so what a stale PaymentEvent object says about it stays   *)
(* true (LinksAreTrue), whatever it says about the status.                 *)
(***************************************************************************)
EXTENDS WebhookMint, TLAPS

\* The two rows the code writes as a whole.
LEMMA WholeRows ==
    /\ Absent \in PaymentEvent /\ Absent.linked = FALSE
    /\ Minted \in PaymentEvent /\ Minted.linked = TRUE
BY DEF Absent, Minted, PaymentEvent

LEMMA InitMintInv == Init => TypeOK /\ MintInv
<1> SUFFICES ASSUME Init PROVE TypeOK /\ MintInv
  OBVIOUS
<1> USE DEF Init
<1>1. TypeOK
  <2>1. acked \in BOOLEAN /\ active \in BOOLEAN
    BY Zenon
  <2>2. crashes \in 0..MaxCrashes
    BY WebhookAssumption
  <2>3. copy \in [Workers -> PaymentEvent]
    BY WholeRows
  <2> QED
    BY <2>1, <2>2, <2>3, WholeRows DEF TypeOK, Statuses
<1>2. ToldInOrder
  BY DEF ToldInOrder
<1>3. LinksAreTrue
  BY WholeRows DEF LinksAreTrue
<1>4. MintAndPaymentLinked
  BY WholeRows DEF MintAndPaymentLinked
<1> QED
  BY <1>1, <1>2, <1>3, <1>4
     DEF MintInv, MintAtMostOnce, MintWasPaid, PaidCheckoutHasCoins

\* The steps that write the shared rows, one by one; the others change only
\* where a worker stands or what the outside announces.
LEMMA NextTypeOK == TypeOK /\ [Next]_vars => TypeOK'
<1> SUFFICES ASSUME TypeOK, [Next]_vars PROVE TypeOK'
  OBVIOUS
<1> USE DEF TypeOK, GoTo, Answered2xx, Answered4xx, outside
<1>1. CASE Settle \/ Fail \/ SettleLate
  BY <1>1 DEF Settle, Fail, SettleLate, Announce, Statuses
<1>2. CASE ToggleAccount
  BY <1>2 DEF ToggleAccount
<1>3. ASSUME NEW w \in Workers, NEW s \in Statuses, Receive(w, s) PROVE TypeOK'
  BY <1>3 DEF Receive, Fetched, Carried
<1>4. ASSUME NEW w \in Workers, Record(w) PROVE TypeOK'
  <2>1. row' \in PaymentEvent
    BY <1>4 DEF Record, PaymentEvent
  <2> QED
    BY <1>4, <2>1 DEF Record
<1>5. ASSUME NEW w \in Workers, MarkFailed(w) PROVE TypeOK'
  BY <1>5 DEF MarkFailed, PaymentEvent
<1>6. ASSUME NEW w \in Workers, Route(w) PROVE TypeOK'
  BY <1>6 DEF Route, AlreadyMinted, IsPaid
<1>7. ASSUME NEW w \in Workers, LookUp(w) PROVE TypeOK'
  BY <1>7, WholeRows DEF LookUp
<1>8. ASSUME NEW w \in Workers, CheckAccount(w) \/ RecheckEvent(w) \/ Validate(w)
      PROVE  TypeOK'
  BY <1>8 DEF CheckAccount, RecheckEvent, Validate, CheckThat
<1>9. ASSUME NEW w \in Workers, Commit(w) \/ Save(w) PROVE TypeOK'
  BY <1>9, WholeRows DEF Commit, Save
<1>10. ASSUME NEW w \in Workers, Close(w) PROVE TypeOK'
  BY <1>10 DEF Close
<1>11. ASSUME NEW w \in Workers, Crash(w) PROVE TypeOK'
  BY <1>11, WebhookAssumption DEF Crash
<1>12. CASE UNCHANGED vars
  BY <1>12 DEF vars
<1> QED
  BY <1>1, <1>2, <1>3, <1>4, <1>5, <1>6, <1>7, <1>8, <1>9, <1>10, <1>11, <1>12
     DEF Next, Step

\* What the provider announces is never taken back.
LEMMA ToldKept == TypeOK /\ MintInv /\ [Next]_vars => ToldInOrder'
<1> SUFFICES ASSUME TypeOK, ToldInOrder, [Next]_vars PROVE ToldInOrder'
  BY DEF MintInv
<1> USE DEF TypeOK, ToldInOrder, GoTo, Answered2xx, Answered4xx, outside
<1>1. CASE Settle \/ Fail \/ SettleLate
  BY <1>1 DEF Settle, Fail, SettleLate, Announce
<1>2. CASE ToggleAccount
  BY <1>2 DEF ToggleAccount
<1>3. ASSUME NEW w \in Workers, NEW s \in Statuses, Receive(w, s)
      PROVE  ToldInOrder'
  BY <1>3 DEF Receive, Fetched, Carried
<1>4. ASSUME NEW w \in Workers, Record(w) \/ MarkFailed(w) PROVE ToldInOrder'
  BY <1>4 DEF Record, MarkFailed
<1>5. ASSUME NEW w \in Workers, Route(w) PROVE ToldInOrder'
  BY <1>5 DEF Route, AlreadyMinted, IsPaid
<1>6. ASSUME NEW w \in Workers, LookUp(w) PROVE ToldInOrder'
  BY <1>6 DEF LookUp
<1>7. ASSUME NEW w \in Workers, CheckAccount(w) \/ RecheckEvent(w) \/ Validate(w)
      PROVE  ToldInOrder'
  BY <1>7 DEF CheckAccount, RecheckEvent, Validate, CheckThat
<1>8. ASSUME NEW w \in Workers, Commit(w) \/ Save(w) \/ Close(w)
      PROVE  ToldInOrder'
  BY <1>8 DEF Commit, Save, Close
<1>9. ASSUME NEW w \in Workers, Crash(w) PROVE ToldInOrder'
  BY <1>9 DEF Crash
<1>10. CASE UNCHANGED vars
  BY <1>10 DEF vars
<1> QED
  BY <1>1, <1>2, <1>3, <1>4, <1>5, <1>6, <1>7, <1>8, <1>9, <1>10 DEF Next, Step

\* Coins and links appear together and stay; only then is a checkout paid.
LEMMA LinksKept ==
    TypeOK /\ MintInv /\ [Next]_vars =>
        /\ LinksAreTrue' /\ MintAtMostOnce' /\ MintAndPaymentLinked'
        /\ MintWasPaid' /\ PaidCheckoutHasCoins'
<1> DEFINE Goal == /\ LinksAreTrue /\ MintAtMostOnce /\ MintAndPaymentLinked
                   /\ MintWasPaid /\ PaidCheckoutHasCoins
<1> SUFFICES ASSUME TypeOK, ToldInOrder, Goal, [Next]_vars PROVE Goal'
  BY DEF MintInv
<1> USE DEF TypeOK, LinksAreTrue, MintAtMostOnce, MintAndPaymentLinked,
            MintWasPaid, PaidCheckoutHasCoins, GoTo, Answered2xx, Answered4xx,
            outside
<1>1. CASE Settle \/ Fail \/ SettleLate
  BY <1>1 DEF Settle, Fail, SettleLate, Announce
<1>2. CASE ToggleAccount
  BY <1>2 DEF ToggleAccount
<1>3. ASSUME NEW w \in Workers, NEW s \in Statuses, Receive(w, s) PROVE Goal'
  BY <1>3 DEF Receive, Fetched, Carried
<1>4. ASSUME NEW w \in Workers, Record(w) PROVE Goal'
  <2>1. row'.linked = row.linked
    BY <1>4, WholeRows DEF Record, PaymentEvent
  <2>2. \A v \in Workers : copy'[v].linked => row'.linked
    BY <1>4, <2>1 DEF Record
  <2> QED
    BY <1>4, <2>1, <2>2 DEF Record
<1>5. ASSUME NEW w \in Workers, MarkFailed(w) PROVE Goal'
  <2>1. row'.linked = row.linked
    BY <1>5 DEF MarkFailed, PaymentEvent
  <2>2. \A v \in Workers : copy'[v].linked = copy[v].linked
    BY <1>5 DEF MarkFailed, PaymentEvent
  <2> QED
    BY <1>5, <2>1, <2>2 DEF MarkFailed
<1>6. ASSUME NEW w \in Workers, Route(w) PROVE Goal'
  BY <1>6 DEF Route, AlreadyMinted, IsPaid
<1>7. ASSUME NEW w \in Workers, LookUp(w) PROVE Goal'
  BY <1>7 DEF LookUp, Minted
<1>8. ASSUME NEW w \in Workers, CheckAccount(w) \/ RecheckEvent(w) \/ Validate(w)
      PROVE  Goal'
  BY <1>8 DEF CheckAccount, RecheckEvent, Validate, CheckThat
<1>9. ASSUME NEW w \in Workers, Commit(w) PROVE Goal'
  <2>1. "paid" \in told
    BY <1>9 DEF Commit, ToldInOrder
  <2>2. coins' = 1 /\ row'.linked
    BY <1>9 DEF Commit, Minted
  <2> QED
    BY <1>9, <2>1, <2>2 DEF Commit
<1>10. ASSUME NEW w \in Workers, Save(w) \/ Close(w) PROVE Goal'
  BY <1>10 DEF Save, Close, Minted
<1>11. ASSUME NEW w \in Workers, Crash(w) PROVE Goal'
  BY <1>11 DEF Crash
<1>12. CASE UNCHANGED vars
  BY <1>12 DEF vars
<1> QED
  BY <1>1, <1>2, <1>3, <1>4, <1>5, <1>6, <1>7, <1>8, <1>9, <1>10, <1>11, <1>12
     DEF Next, Step

-----------------------------------------------------------------------------
\* Every reachable state of the webhooks' rows is well formed and satisfies the
\* inductive invariant.
THEOREM WebhookInvariant == Spec => [](TypeOK /\ MintInv)
<1>1. TypeOK /\ MintInv /\ [Next]_vars => (TypeOK /\ MintInv)'
  BY NextTypeOK, ToldKept, LinksKept DEF MintInv
<1> QED
  BY <1>1, InitMintInv, PTL DEF Spec

\* A payment is minted at most once, for any number of racing deliveries.
THEOREM OneMintPerPayment == Spec => []MintAtMostOnce
BY WebhookInvariant, PTL DEF MintInv

\* A mint and its payment are linked in every state a crash can leave behind.
THEOREM MintIsLinked == Spec => []MintAndPaymentLinked
BY WebhookInvariant, PTL DEF MintInv

\* No coins without a settled payment.
THEOREM OnlyPaidIsMinted == Spec => []MintWasPaid
BY WebhookInvariant, PTL DEF MintInv

\* Coins and payment agree, for any number of workers, deliveries and crashes.
THEOREM CoinsFollowPayment == Spec => []CoinsMatchPayment
BY WebhookInvariant, PTL DEF MintInv, CoinsMatchPayment

\* No checkout is shown as paid before its coins exist.
THEOREM PaidCheckoutIsMinted == Spec => []PaidCheckoutHasCoins
BY WebhookInvariant, PTL DEF MintInv

=============================================================================
