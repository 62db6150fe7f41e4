------------------------------ MODULE Checkout ------------------------------
(***************************************************************************)
(* A checkout from its creation to its last webhook, for the three         *)
(* providers that mint coins (apps/payments: stripe_checkout, btcpay and   *)
(* ipay create the checkout, webhook.py and webhooks/*.py receive what the *)
(* provider says of its payments).                                         *)
(*                                                                         *)
(* WebhookMint follows one payment through every statement of a handler;   *)
(* here a handler is one step, and a checkout may have several payments:   *)
(* an iPay order can be paid, declined and paid again, a Stripe session    *)
(* can complete before its money arrives, and a BTCPay invoice can be      *)
(* settled before the request that opened it has stored its id.            *)
(***************************************************************************)
EXTENDS Integers

CONSTANTS
    Checkouts,     \* PaymentCheckout rows of one user, named by their reference
    ProviderOf,    \* the provider of each checkout
    MaxPayments    \* bound on the payments of one iPay order

ASSUME CheckoutAssumption ==
    /\ ProviderOf \in [Checkouts -> {"stripe", "btcpay", "ipay"}]
    /\ MaxPayments \in Nat \ {0}

\* A Stripe session and a BTCPay invoice are paid once; the provider's event id,
\* invoice id or payment id is the key of the PaymentEvent.
Payments ==
    {p \in Checkouts \X (1..MaxPayments) : p[2] = 1 \/ ProviderOf[p[1]] = "ipay"}

VARIABLES
    checkout,   \* PaymentCheckout.status
    invoice,    \* the checkouts whose provider_reference is stored
    opened,     \* the checkouts the provider knows
    payment,    \* each payment at the provider
    short,      \* the payments made over another amount than the checkout's
    told,       \* the statuses the provider has announced
    acked,      \* the payments whose paid status was answered 2xx
    event,      \* PaymentEvent.status; "minted" if linked to its coins
    coins,      \* how many mint CoinEvents each payment's key has
    enabled,    \* provider_enabled: FEATURE_FLAGS and the provider's switch
    active      \* the user's CoinAccount is active

checkoutVars == <<checkout, invoice, opened, payment, short, told, acked,
                  event, coins, enabled, active>>

CheckoutInit ==
    /\ checkout = [c \in Checkouts |-> "absent"]
    /\ invoice = {}
    /\ opened = {}
    /\ payment = [p \in Payments |-> "none"]
    /\ short = {}
    /\ told = {}
    /\ acked = {}
    /\ event = [p \in Payments |-> "absent"]
    /\ coins = [p \in Payments |-> 0]
    /\ enabled = TRUE
    /\ active = TRUE

-----------------------------------------------------------------------------
(***************************************************************************)
(* The request that creates a checkout                                     *)
(***************************************************************************)
\* The serializer stores the row, before the provider hears of it.
CreateCheckout(c) ==
    /\ enabled /\ checkout[c] = "absent"
    /\ checkout' = [checkout EXCEPT ![c] = "created"]
    /\ UNCHANGED <<invoice, opened, payment, short, told, acked, event, coins, enabled, active>>

Opens(c, provider) ==
    /\ ProviderOf[c] = provider
    /\ checkout[c] = "created" /\ c \notin opened
    /\ opened' = opened \cup {c}
    /\ UNCHANGED <<checkout, invoice, payment, short, told, acked, event, coins, enabled,
                   active>>

\* A Stripe session of the checkout's amount, with the reference in its metadata.
OpenSession(c) == Opens(c, "stripe")

\* BtcPayClient.create_invoice; an error leaves the checkout without an invoice.
OpenInvoice(c) == Opens(c, "btcpay")

\* The answer gives the reference, which the customer brings to iPay.
GiveReference(c) == Opens(c, "ipay")

\* The id of a BTCPay invoice is stored, unless the process died before.
SaveReference(c) ==
    /\ ProviderOf[c] = "btcpay" /\ c \in opened \ invoice
    /\ invoice' = invoice \cup {c}
    /\ UNCHANGED <<checkout, opened, payment, short, told, acked, event, coins, enabled,
                   active>>

-----------------------------------------------------------------------------
(***************************************************************************)
(* The provider                                                            *)
(***************************************************************************)
Announce(p, from, to, status) ==
    /\ p[1] \in opened /\ payment[p] = from
    /\ payment' = [payment EXCEPT ![p] = to]
    /\ told' = told \cup {<<p, status>>}
    /\ UNCHANGED <<checkout, invoice, opened, acked, event, coins, enabled, active>>

StartPayment(p) == Announce(p, "none", "pending", "pending") /\ UNCHANGED short

\* Only iPay's own page lets the customer pay another amount.
Settle(p, exact) ==
    /\ exact \/ ProviderOf[p[1]] = "ipay"
    /\ Announce(p, "pending", "paid", "paid")
    /\ short' = IF exact THEN short ELSE short \cup {p}

Decline(p) == Announce(p, "pending", "failed", "failed") /\ UNCHANGED short

\* A Stripe session completes with a bank debit whose money comes days later,
\* announced as checkout.session.async_payment_succeeded: no type the code handles.
CompleteUnpaid(p) ==
    /\ ProviderOf[p[1]] = "stripe"
    /\ Announce(p, "pending", "awaited", "unpaid") /\ UNCHANGED short

ArriveLate(p) == Announce(p, "awaited", "late", "unhandled") /\ UNCHANGED short

-----------------------------------------------------------------------------
(***************************************************************************)
(* The webhook                                                             *)
(***************************************************************************)
\* parse_event, construct_event: the status the payment had when it was announced.
Carried(p, status) == <<p, status>> \in told

\* get_invoice and normalize_invoice: a delivery about an invoice makes the handler
\* fetch it, so that it acts on the status of now.
Fetched(p, status) == Carried(p, status) /\ status = payment[p]

Says(p, status) ==
    IF ProviderOf[p[1]] = "btcpay" THEN Fetched(p, status) ELSE Carried(p, status)

\* BTCPay looks for the stored invoice id, then for the reference the invoice carries.
Found(c) == c \in invoice \/ checkout[c] # "absent"

\* The amount and the currency must be the checkout's.
Matches(p) == p \notin short

Refused(status) == status \in {"failed", "unpaid"}

\* Mistake: what was not refused is paid.
NotRefused(status) == ~Refused(status)

IsPaid(status) == status = "paid"

\* PaymentEvent.objects.get_or_create, and a known event that now failed.
Recorded(p, status) ==
    IF Refused(status) /\ event[p] # "minted" THEN "failed"
    ELSE IF event[p] = "absent" THEN "received" ELSE event[p]

\* The status is one the code does not act on, or the event cannot be used.
Skip(p, status) ==
    /\ event' = [event EXCEPT ![p] = Recorded(p, status)]
    /\ UNCHANGED <<checkout, coins>>

Refuse(p, status) ==
    /\ event' = [event EXCEPT ![p] = Recorded(p, status)]
    /\ checkout' = [checkout EXCEPT ![p[1]] = "failed"]
    /\ UNCHANGED coins

\* Mistake: one payment, made or declined, closes the checkout to all others.
MayMintFirst(p) == active /\ event[p] # "failed" /\ checkout[p[1]] = "created"

\* get_or_create_user_account does not mint for a suspended user, nor mint_for_payment
\* for a failed event.
MayMint(p) == active /\ event[p] # "failed"

\* The ValidationError is answered 400, and only the record of the event is left.
RefuseMint(p, status) == Skip(p, status) /\ UNCHANGED acked

Mint(p) ==
    /\ coins' = [coins EXCEPT ![p] = @ + 1]
    /\ event' = [event EXCEPT ![p] = "minted"]
    /\ checkout' = [checkout EXCEPT ![p[1]] = "paid"]

Repeat(p) ==
    /\ checkout' = [checkout EXCEPT ![p[1]] = "paid"]
    /\ UNCHANGED <<event, coins>>

Answer2xx(p, status) == acked' = IF status = "paid" THEN acked \cup {p} ELSE acked

\* A delivery over the checkout's amount, from its signature to its answer.
Deliver(p, status) ==
    /\ enabled /\ Says(p, status) /\ Found(p[1]) /\ Matches(p)
    /\ invoice' = IF ProviderOf[p[1]] = "btcpay" THEN invoice \cup {p[1]} ELSE invoice
    /\ \/ event[p] = "minted" /\ Repeat(p) /\ Answer2xx(p, status)
       \/ event[p] # "minted" /\ Refused(status)
          /\ Refuse(p, status) /\ Answer2xx(p, status)
       \/ event[p] # "minted" /\ IsPaid(status) /\ MayMint(p)
          /\ Mint(p) /\ Answer2xx(p, status)
       \/ event[p] # "minted" /\ IsPaid(status) /\ ~MayMint(p)
          /\ RefuseMint(p, status)
       \/ event[p] # "minted" /\ ~Refused(status) /\ ~IsPaid(status)
          /\ Skip(p, status) /\ Answer2xx(p, status)
    /\ UNCHANGED <<opened, payment, short, told, enabled, active>>

\* Payments are switched off and on again; a webhook meanwhile gets a 403.
Switch ==
    /\ enabled' = ~enabled
    /\ UNCHANGED <<checkout, invoice, opened, payment, short, told, acked, event, coins,
                   active>>

\* The user's coin account is suspended or reinstated by hand.
ToggleAccount ==
    /\ active' = ~active
    /\ UNCHANGED <<checkout, invoice, opened, payment, short, told, acked, event, coins,
                   enabled>>

CheckoutNext ==
    \/ Switch \/ ToggleAccount
    \/ \E c \in Checkouts : 
          \/ CreateCheckout(c) \/ OpenSession(c) \/ OpenInvoice(c) \/ GiveReference(c)
          \/ SaveReference(c)
    \/ \E p \in Payments :
          \/ StartPayment(p) \/ Decline(p) \/ CompleteUnpaid(p) \/ ArriveLate(p)
          \/ \E exact \in BOOLEAN : Settle(p, exact)
          \/ \E status \in {"pending", "paid", "failed", "unpaid"} : Deliver(p, status)

\* The provider repeats a paid status until it is answered 2xx.
DeliverPaid(p) == p \notin acked /\ Deliver(p, "paid")

-----------------------------------------------------------------------------
\* Coins stand for money: every mint is for a payment the provider has received
\* in full, at once, and each payment is minted once, however often and in
\* whatever order the statuses of all payments of a checkout are delivered.
CoinsMatchMoney ==
    \A p \in Payments :
        /\ coins[p] <= 1
        /\ coins[p] = 1 => payment[p] = "paid" /\ p \notin short

\* Money that came at once and in full is minted in the end, also when the request
\* that opened its invoice never stored the invoice's id, or payments were switched
\* off for a while; another payment of the checkout, made or declined, does not get in
\* its way.  It rests on an account that stays active from some time on: until then a
\* paid webhook may be answered 400, and the provider repeats it.
SettledIsMinted ==
    []<>enabled /\ <>[]active =>
        \A p \in Payments : (payment[p] = "paid" /\ p \notin short) ~> coins[p] = 1

=============================================================================
