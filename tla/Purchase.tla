------------------------------- MODULE Purchase -------------------------------
(***************************************************************************)
(* Buying a product with SLC (CoinPurchaseView in apps/coin/views.py), for *)
(* one user: the idempotency key, the charge and the entitlement.          *)
(*                                                                         *)
(* Each element of Requests is one POST /api/v1/coin/purchase/.  A client  *)
(* repeats a request it got no answer to, or sends it twice at once, with  *)
(* the same key.  Everything from the lock of the account row to the end   *)
(* of transaction.atomic() is seen by others at its commit only, and every *)
(* writer of the user's entitlements holds that lock, so the charge and    *)
(* the entitlement are one action.                                         *)
(***************************************************************************)
EXTENDS Integers, Functions

CONSTANTS
    Purchases,     \* the HTTP requests, each sent once
    NoRequest,     \* the holder of the free row lock
    PurchaseKeys,  \* the idempotency keys the user's client makes up
    Products, Price, DurationDays, EntitlementOf,
    Quantities,
    Savings,       \* the coins the user starts with
    MaxDay         \* bound on the clock

Entitlements == {"premium", "premium_plus"}

ASSUME PurchaseAssumption ==
    /\ NoRequest \notin Purchases
    /\ Price \in [Products -> Nat \ {0}]
    /\ DurationDays \in [Products -> Nat \ {0}]
    /\ EntitlementOf \in [Products -> Entitlements]
    /\ Quantities \subseteq 1..12
    /\ Savings \in Nat
    /\ MaxDay \in Nat

VARIABLES
    now,           \* the day
    in_order,      \* CoinAccount.status is active
    coins,         \* get_balance_cents of the account
    event,         \* the CoinEvent of each idempotency key
    active_until,  \* UserEntitlement.active_until of each key; 0: no row yet
    lock,          \* who holds the account row
    at, wanted, receipt

purchaseVars == <<now, in_order, coins, event, active_until, lock, at, wanted, receipt>>

PurchaseOrders == [key : PurchaseKeys, product : Products, quantity : Quantities]

NoEvent == [product |-> "none", quantity |-> 0]
NoPurchase == [key |-> "none", product |-> "none", quantity |-> 0]

Events == [product : Products, quantity : Quantities]

Buying == {"account", "lookup", "lock", "balance", "commit"}

PurchaseTypeOK ==
    /\ now \in 0..MaxDay
    /\ in_order \in BOOLEAN
    /\ coins \in Int
    /\ event \in [PurchaseKeys -> Events \cup {NoEvent}]
    /\ active_until \in [Entitlements -> Nat]
    /\ lock \in Purchases \cup {NoRequest}
    /\ at \in [Purchases -> Buying \cup {"new", "ended"}]
    /\ wanted \in [Purchases -> PurchaseOrders \cup {NoPurchase}]
    /\ receipt \in [Purchases -> {"none", "ok", "conflict", "insufficient",
                                 "refused", "error", "lost"}]

PurchaseInit ==
    /\ now = 0
    /\ in_order = TRUE
    /\ coins = Savings
    /\ event = [k \in PurchaseKeys |-> NoEvent]
    /\ active_until = [e \in Entitlements |-> 0]
    /\ lock = NoRequest
    /\ at = [r \in Purchases |-> "new"]
    /\ wanted = [r \in Purchases |-> NoPurchase]
    /\ receipt = [r \in Purchases |-> "none"]

-----------------------------------------------------------------------------
Total(o) == Price[o.product] * o.quantity
Days(o) == DurationDays[o.product] * o.quantity

Larger(m, n) == IF m > n THEN m ELSE n

\* Mistake: every purchase counts from today.
ExtendedFromNow(e, o) == now + Days(o)

\* _apply_entitlement counts from the end of what is still running.
Extended(e, o) == Larger(now, active_until[e]) + Days(o)

\* Premium Plus brings Premium along, at least as long as itself.
Applied(o) ==
    IF EntitlementOf[o.product] = "premium_plus"
    THEN [active_until EXCEPT
             !["premium_plus"] = Extended("premium_plus", o),
             !["premium"] = Larger(Extended("premium", o),
                                   Extended("premium_plus", o))]
    ELSE [active_until EXCEPT !["premium"] = Extended("premium", o)]

Charged(k) == event[k] # NoEvent

\* Mistake: a key counts as used once a request has locked the account for it.
KeyInUse(k) ==
    \E r \in Purchases : wanted[r].key = k /\ at[r] \in {"balance", "commit"}

KeyUsed(k) == Charged(k)

-----------------------------------------------------------------------------
GoOn(r, there) ==
    /\ at' = [at EXCEPT ![r] = there]
    /\ UNCHANGED receipt

EndPurchase(r, result) ==
    /\ at' = [at EXCEPT ![r] = "ended"]
    /\ receipt' = [receipt EXCEPT ![r] = result]

\* A well-formed request for an active product.
BeginPurchase(r) ==
    /\ at[r] = "new"
    /\ \E o \in PurchaseOrders : wanted' = [wanted EXCEPT ![r] = o]
    /\ GoOn(r, "account")
    /\ UNCHANGED <<now, in_order, coins, event, active_until, lock>>

\* get_or_create_user_account raises outside the try.
OpenAccount(r) ==
    /\ at[r] = "account"
    /\ IF in_order THEN GoOn(r, "lookup") ELSE EndPurchase(r, "error")
    /\ UNCHANGED <<now, in_order, coins, event, active_until, lock, wanted>>

\* A key that was used gets its receipt again, or a conflict.
LookUpKey(r) ==
    LET found == event[wanted[r].key]
    IN /\ at[r] = "lookup"
       /\ \/ /\ ~KeyUsed(wanted[r].key)
             /\ GoOn(r, "lock")
          \/ /\ KeyUsed(wanted[r].key)
             /\ EndPurchase(r, IF found.product = wanted[r].product
                       THEN "ok" ELSE "conflict")
       /\ UNCHANGED <<now, in_order, coins, event, active_until, lock, wanted>>

AcquireLock(r) ==
    /\ at[r] = "lock"
    /\ lock = NoRequest
    /\ lock' = r
    /\ GoOn(r, "balance")
    /\ UNCHANGED <<now, in_order, coins, event, active_until, wanted>>

HasFunds(o) == coins >= Total(o)

ReadBalance(r) ==
    /\ at[r] = "balance"
    /\ IF HasFunds(wanted[r])
       THEN GoOn(r, "commit") /\ UNCHANGED lock
       ELSE EndPurchase(r, "insufficient") /\ lock' = NoRequest
    /\ UNCHANGED <<now, in_order, coins, event, active_until, wanted>>

\* The event and its entries.  A taken key is an IntegrityError: the savepoint
\* is rolled back and the event of the other request used instead.
Charge(o) ==
    IF Charged(o.key)
    THEN UNCHANGED <<event, coins>>
    ELSE /\ event' = [event EXCEPT ![o.key] =
                         [product |-> o.product, quantity |-> o.quantity]]
         /\ coins' = coins - Total(o)

\* post_event_and_entries validates and charges, then the entitlement is
\* applied, then both commit.
CommitPurchase(r) ==
    /\ at[r] = "commit"
    /\ \/ /\ in_order
          /\ Charge(wanted[r])
          /\ active_until' = Applied(wanted[r])
          /\ EndPurchase(r, "ok")
       \/ /\ ~in_order
          /\ EndPurchase(r, "refused")
          /\ UNCHANGED <<event, coins, active_until>>
    /\ lock' = NoRequest
    /\ UNCHANGED <<now, in_order, wanted>>

\* The worker dies, or the answer is lost: the database rolls back.
CrashPurchase(r) ==
    /\ at[r] \in Buying
    /\ EndPurchase(r, "lost")
    /\ lock' = IF lock = r THEN NoRequest ELSE lock
    /\ UNCHANGED <<now, in_order, coins, event, active_until, wanted>>

-----------------------------------------------------------------------------
(***************************************************************************)
(* The clock, and the operator, whose UPDATE of the account waits for its  *)
(* row lock.                                                               *)
(***************************************************************************)
Tick ==
    /\ now < MaxDay
    /\ now' = now + 1
    /\ UNCHANGED <<in_order, coins, event, active_until, lock, at, wanted, receipt>>

ToggleBuyer ==
    /\ lock = NoRequest
    /\ in_order' = ~in_order
    /\ UNCHANGED <<now, coins, event, active_until, lock, at, wanted, receipt>>

PurchaseStep(r) ==
    \/ BeginPurchase(r)
    \/ OpenAccount(r)
    \/ LookUpKey(r)
    \/ AcquireLock(r)
    \/ ReadBalance(r)
    \/ CommitPurchase(r)
    \/ CrashPurchase(r)

PurchaseNext == Tick \/ ToggleBuyer \/ \E r \in Purchases : PurchaseStep(r)

PurchaseSpec == PurchaseInit /\ [][PurchaseNext]_purchaseVars

-----------------------------------------------------------------------------
(***************************************************************************)
(* Properties                                                              *)
(***************************************************************************)
Paid == {k \in PurchaseKeys : Charged(k)}

\* What left the account is the price of the events that committed, one for
\* each idempotency key, and there was enough for all of them.
ChargedOncePerKey ==
    /\ coins = Savings - SumFunction([k \in Paid |-> Total(event[k])])
    /\ coins >= 0

\* Whoever was charged has the days: no crash or race between the charge and
\* the entitlement, and no later purchase, takes any of them away.
PaidDaysAreGranted ==
    \A e \in Entitlements :
        LET bought == {k \in Paid : EntitlementOf[event[k].product] = e}
        IN active_until[e] >= SumFunction([k \in bought |-> Days(event[k])])

\* Whoever has Premium Plus has Premium, as long, in whatever order the two
\* were bought (apps/coin/tests/test_products_purchase.py asserts it once).
PlusIncludesPremium ==
    active_until["premium"] >= active_until["premium_plus"]

\* A request that was told of success or of a conflict has a charge behind its
\* key; one that was refused by the validation of the entries charged nothing.
AnswerMatchesCharge ==
    \A r \in Purchases :
        /\ receipt[r] \in {"ok", "conflict"} => Charged(wanted[r].key)
        /\ receipt[r] = "conflict" => event[wanted[r].key].product # wanted[r].product

\* Every row is well formed; what is charged is what was asked for, once for each key,
\* and the answers say so.
ChargesAreTrue == PurchaseTypeOK /\ ChargedOncePerKey /\ AnswerMatchesCharge

\* Every charge has left its days, and those of Premium Plus count as Premium as well.
DaysFollowCharges == PaidDaysAreGranted /\ PlusIncludesPremium

\* docs/coin/WALLET.md: "Idempotent by `idempotency_key`".  An entitlement is
\* extended by a charge only, never by a repeated request.
ExtendedOnlyByCharge ==
    [][active_until' # active_until => event' # event]_purchaseVars

=============================================================================
