----------------------------- MODULE WebhookMint -----------------------------
(***************************************************************************)
(* One checkout, from the provider's webhooks to the minted coins          *)
(* (apps/payments/webhooks/*.py, apps/payments/webhook.py and              *)
(* mint_for_payment in apps/coin/services/ledger.py).                      *)
(*                                                                         *)
(* The provider announces every status of the payment, at least once and   *)
(* in any order, and repeats an announcement until it is answered 2xx (a   *)
(* merchant may also replay one by hand).  Several web workers handle      *)
(* deliveries of the same payment at the same time.  Each keeps the        *)
(* PaymentEvent object it loaded, and writes back single columns of it     *)
(* long after the row has changed.  There is one action per statement that *)
(* reads or writes a shared row.                                           *)
(***************************************************************************)
EXTENDS Integers

CONSTANTS
    Workers,          \* web workers that handle deliveries
    FreshStatus,      \* BTCPay: the status is fetched when the delivery is handled;
                      \* iPay: it is the one the delivery carries
    LateSettlement,   \* the provider may still settle a failed payment
    MaxCrashes        \* bound on worker crashes

ASSUME WebhookAssumption ==
    /\ FreshStatus \in BOOLEAN
    /\ LateSettlement \in BOOLEAN
    /\ MaxCrashes \in Nat

VARIABLES
    provider,   \* the status of the payment at the provider
    told,       \* the statuses the provider has announced
    acked,      \* a delivery of the paid status was answered 2xx
    row,        \* the PaymentEvent row: its status, and minted_coin_event
    checkout,   \* PaymentCheckout.status
    coins,      \* how many mint CoinEvents the payment's key has
    active,     \* the payer's CoinAccount is active
    pc,         \* where each worker stands
    seen,       \* the payment status each worker is acting on
    copy,       \* the PaymentEvent object each worker holds
    crashes

vars == <<provider, told, acked, row, checkout, coins, active,
          pc, seen, copy, crashes>>

\* What a step of a worker leaves to the others.
outside == <<provider, told, active, crashes>>

Statuses == {"pending", "paid", "failed"}

PaymentEvent == [status : {"absent", "received", "minted", "failed"},
                 linked : BOOLEAN]

Absent == [status |-> "absent", linked |-> FALSE]
Minted == [status |-> "minted", linked |-> TRUE]

TypeOK ==
    /\ provider \in Statuses
    /\ told \subseteq Statuses
    /\ acked \in BOOLEAN
    /\ row \in PaymentEvent
    /\ checkout \in {"created", "paid", "failed"}
    /\ coins \in Nat
    /\ active \in BOOLEAN
    /\ pc \in [Workers -> {"idle", "record", "markFailed", "route", "lookup",
                           "account", "recheck", "validate", "commit", "save",
                           "close"}]
    /\ seen \in [Workers -> Statuses]
    /\ copy \in [Workers -> PaymentEvent]
    /\ crashes \in 0..MaxCrashes

Init ==
    /\ provider = "pending"
    /\ told = {"pending"}
    /\ acked = FALSE
    /\ row = Absent
    /\ checkout = "created"
    /\ coins = 0
    /\ active = TRUE
    /\ pc = [w \in Workers |-> "idle"]
    /\ seen = [w \in Workers |-> "pending"]
    /\ copy = [w \in Workers |-> Absent]
    /\ crashes = 0

-----------------------------------------------------------------------------
(***************************************************************************)
(* The provider and the operator                                           *)
(***************************************************************************)
Announce(from, to) ==
    /\ provider = from
    /\ provider' = to
    /\ told' = told \cup {to}
    /\ UNCHANGED <<acked, row, checkout, coins, active, pc, seen, copy, crashes>>

Settle     == Announce("pending", "paid")
Fail       == Announce("pending", "failed")
SettleLate == LateSettlement /\ Announce("failed", "paid")

\* The payer's coin account is suspended or reinstated by hand.
ToggleAccount ==
    /\ active' = ~active
    /\ UNCHANGED <<provider, told, acked, row, checkout, coins,
                   pc, seen, copy, crashes>>

-----------------------------------------------------------------------------
(***************************************************************************)
(* A worker                                                                *)
(***************************************************************************)
GoTo(w, step) == pc' = [pc EXCEPT ![w] = step]

Answered2xx(w) ==
    /\ GoTo(w, "idle")
    /\ acked' = (acked \/ seen[w] = "paid")

\* Mistake: a delivery that could not be processed is acknowledged.
AnsweredAnyway(w) == Answered2xx(w)

Answered4xx(w) ==
    /\ GoTo(w, "idle")
    /\ UNCHANGED acked

\* BTCPay: the delivery names the invoice, whose status is fetched now.
Fetched(status) == FreshStatus /\ status = provider

\* iPay: the delivery carries a status, of now or of an earlier time.
Carried(status) == ~FreshStatus /\ status \in told

\* A delivery arrives; its signature, reference and amount are in order.
Receive(w, status) ==
    /\ pc[w] = "idle"
    /\ Fetched(status) \/ Carried(status)
    /\ seen' = [seen EXCEPT ![w] = status]
    /\ GoTo(w, "record")
    /\ UNCHANGED <<outside, acked, row, checkout, coins, copy>>

\* PaymentEvent.objects.get_or_create.
Record(w) ==
    /\ pc[w] = "record"
    /\ row' = IF row # Absent THEN row
              ELSE [status |-> IF seen[w] = "failed" THEN "failed" ELSE "received",
                    linked |-> FALSE]
    /\ copy' = [copy EXCEPT ![w] = row']
    /\ GoTo(w, IF seen[w] = "failed" /\ row'.status # "failed"
               THEN "markFailed" ELSE "route")
    /\ UNCHANGED <<outside, acked, checkout, coins, seen>>

\* An event already recorded learns that the payment failed.
MarkFailed(w) ==
    /\ pc[w] = "markFailed"
    /\ row' = [row EXCEPT !.status = "failed"]
    /\ copy' = [copy EXCEPT ![w].status = "failed"]
    /\ GoTo(w, "route")
    /\ UNCHANGED <<outside, acked, checkout, coins, seen>>

\* Mistake: a payment that is known counts as minted.
AlreadySeen(w) == row.status = "received"

AlreadyMinted(w) == copy[w].linked

IsPaid(w) == seen[w] = "paid"

\* Duplicates, failures and intermediate statuses end here; a paid one goes on.
Route(w) ==
    /\ pc[w] = "route"
    /\ \/ /\ AlreadyMinted(w)
          /\ checkout' = "paid"
          /\ Answered2xx(w)
       \/ /\ ~AlreadyMinted(w) /\ seen[w] = "failed"
          /\ checkout' = "failed"
          /\ Answered2xx(w)
       \/ /\ ~AlreadyMinted(w) /\ seen[w] # "failed" /\ ~IsPaid(w)
          /\ Answered2xx(w)
          /\ UNCHANGED checkout
       \/ /\ ~AlreadyMinted(w) /\ IsPaid(w)
          /\ UNCHANGED checkout
          /\ IF copy[w].status = "failed"
             THEN Answered4xx(w)
             ELSE GoTo(w, "lookup") /\ UNCHANGED acked
    /\ UNCHANGED <<outside, row, coins, seen, copy>>

\* mint_for_payment: an event with the key is linked and returned.
LookUp(w) ==
    /\ pc[w] = "lookup"
    /\ IF coins > 0
       THEN row' = Minted /\ GoTo(w, "save")
       ELSE UNCHANGED row /\ GoTo(w, "account")
    /\ UNCHANGED <<outside, acked, checkout, coins, seen, copy>>

\* A check that ends the delivery with a 400 unless it holds.
CheckThat(w, here, holds, next) ==
    /\ pc[w] = here
    /\ IF holds
       THEN GoTo(w, next) /\ UNCHANGED acked
       ELSE Answered4xx(w)
    /\ UNCHANGED <<outside, row, checkout, coins, seen, copy>>

\* get_or_create_user_account.
CheckAccount(w) == CheckThat(w, "account", active, "recheck")

\* post_event_and_entries reads the PaymentEvent row again.
RecheckEvent(w) == CheckThat(w, "recheck", row.status # "failed", "validate")

\* _validate_entries.
Validate(w) == CheckThat(w, "validate", active, "commit")

\* Mistake: the link is left to the view.
CommitUnlinked(w) ==
    /\ pc[w] = "commit"
    /\ coins' = IF coins = 0 THEN 1 ELSE coins
    /\ GoTo(w, "save")
    /\ UNCHANGED <<outside, acked, row, checkout, seen, copy>>

\* One transaction inserts the event and links the payment to it; if the
\* unique key is taken, the existing event is linked instead.
Commit(w) ==
    /\ pc[w] = "commit"
    /\ coins' = IF coins = 0 THEN 1 ELSE coins
    /\ row' = Minted
    /\ GoTo(w, "save")
    /\ UNCHANGED <<outside, acked, checkout, seen, copy>>

\* The view writes the link and the status once more from its own object.
Save(w) ==
    /\ pc[w] = "save"
    /\ row' = Minted
    /\ GoTo(w, "close")
    /\ UNCHANGED <<outside, acked, checkout, coins, seen, copy>>

Close(w) ==
    /\ pc[w] = "close"
    /\ checkout' = "paid"
    /\ Answered2xx(w)
    /\ UNCHANGED <<outside, row, coins, seen, copy>>

\* A worker dies between two statements; the provider gets no answer.
Crash(w) ==
    /\ pc[w] # "idle"
    /\ crashes < MaxCrashes
    /\ crashes' = crashes + 1
    /\ GoTo(w, "idle")
    /\ UNCHANGED <<provider, told, acked, row, checkout, coins, active, seen, copy>>

Step(w) ==
    \/ Record(w)
    \/ MarkFailed(w)
    \/ Route(w)
    \/ LookUp(w)
    \/ CheckAccount(w)
    \/ RecheckEvent(w)
    \/ Validate(w)
    \/ Commit(w)
    \/ Save(w)
    \/ Close(w)

Next ==
    \/ Settle \/ Fail \/ SettleLate \/ ToggleAccount
    \/ \E w \in Workers :
          Step(w) \/ Crash(w) \/ \E status \in Statuses : Receive(w, status)

\* Workers run; a paid status that was not answered 2xx is delivered again.
Redeliver == ~acked /\ \E w \in Workers : Receive(w, "paid")

Fairness ==
    /\ \A w \in Workers : WF_vars(Step(w))
    /\ SF_vars(Redeliver)

Spec == Init /\ [][Next]_vars /\ Fairness

-----------------------------------------------------------------------------
(***************************************************************************)
(* Properties                                                              *)
(***************************************************************************)
\* A payment is minted at most once, however its deliveries race.
MintAtMostOnce == coins <= 1

\* What coin_invariant_check looks for: a mint event and its payment are always
\* linked to each other, through every crash.
MintAndPaymentLinked == coins > 0 <=> row.linked

\* Coins exist only for a payment the provider has called paid.
MintWasPaid == coins > 0 => "paid" \in told

\* The coins of a payment: at most once, linked to it in every state a crash leaves
\* behind, and never before the provider has called it paid.
CoinsMatchPayment == MintAtMostOnce /\ MintAndPaymentLinked /\ MintWasPaid

\* A checkout shown as paid has its coins.
PaidCheckoutHasCoins == checkout = "paid" => coins > 0

\* A payment that is paid gets its coins and a closed checkout, whatever crashes
\* between the statements, provided the payer's account stays active from some
\* time on and the payment never failed before.
Delivered == coins = 1 /\ row = Minted /\ checkout = "paid"

PaidIsMinted ==
    <>[]active /\ []("failed" \notin told) => (provider = "paid" ~> Delivered)

\* coin_invariant_check: no minted payment has a status other than minted.
MintedPaymentIsMinted == coins > 0 => row.status = "minted"

-----------------------------------------------------------------------------
(***************************************************************************)
(* Why the safety properties hold: the invariant their proof is built on.  *)
(***************************************************************************)
\* A worker acts on what the provider announced, and asks for a mint only of
\* what it was told is paid.
ToldInOrder ==
    /\ provider \in told
    /\ \A w \in Workers :
          /\ seen[w] \in told \/ pc[w] = "idle"
          /\ pc[w] \in {"lookup", "account", "recheck", "validate", "commit",
                        "save", "close"} => seen[w] = "paid"

\* A link is never undone, so a stale copy that has it is right, and a worker
\* that writes the link or closes the checkout does so after the mint.
LinksAreTrue ==
    \A w \in Workers :
        /\ copy[w].linked => row.linked
        /\ pc[w] \in {"save", "close"} => coins > 0

MintInv ==
    /\ ToldInOrder
    /\ LinksAreTrue
    /\ MintAtMostOnce
    /\ MintAndPaymentLinked
    /\ MintWasPaid
    /\ PaidCheckoutHasCoins

=============================================================================
