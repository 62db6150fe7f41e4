---------------------------- MODULE Subscriptions ----------------------------
(***************************************************************************)
(* The subscriptions of one user and the events Stripe sends of them       *)
(* (apps/payments/services.py, the subscription branches of webhook.py).   *)
(*                                                                         *)
(* A checkout request works on the row it finds, so a second checkout      *)
(* resets the row of the first; only requests that overlap while there is  *)
(* no row make two.  Every statement commits by itself: a request may end  *)
(* with the row reset and no session at Stripe.  A session carries the     *)
(* row's id, the Stripe subscription it creates does not: until the        *)
(* session's own event has stored Stripe's id in the row, events of the    *)
(* subscription find nothing, and are acknowledged and dropped.            *)
(***************************************************************************)
EXTENDS Integers, Sequences, FiniteSets, SequencesExt

CONSTANTS
    Plans,         \* the active plans
    Priced,        \* those with a price id at Stripe
    MaxRequests,   \* bound on the checkouts the user asks for
    MaxChanges,    \* bound on the changes of a subscription at Stripe
    InOrder        \* events arrive in the order Stripe sent them

ASSUME SubscriptionAssumption ==
    /\ Priced \subseteq Plans /\ MaxRequests \in Nat /\ MaxChanges \in Nat
    /\ InOrder \in BOOLEAN

VARIABLES
    subs,      \* Subscription rows, each under the number of the request that made it
    orders,    \* the checkout requests: their plan, row and what they came to
    latest,    \* the session of each row that was completed last
    wiped,     \* the rows that a request has reset since an event last wrote them
    changes,   \* how often Stripe has changed a subscription
    events     \* the events on their way, in the order they were sent

subscriptionVars == <<subs, orders, latest, wiped, changes, events>>

Orders == 1..Len(orders)
NoRow == [plan |-> "none", status |-> "none", ext |-> 0]
Rows == {r \in DOMAIN subs : subs[r] # NoRow}

SubscriptionInit ==
    /\ subs = [r \in 1..MaxRequests |-> NoRow]
    /\ orders = << >> /\ latest = [r \in 1..MaxRequests |-> 0] /\ wiped = {}
    /\ changes = 0 /\ events = << >>

\* map_stripe_status.
Mapped(status) ==
    CASE status \in {"active", "trialing"}            -> "active"
      [] status \in {"canceled", "incomplete_expired"} -> "canceled"
      [] status \in {"past_due", "unpaid"}            -> "past_due"
      [] OTHER                                         -> "incomplete"

-----------------------------------------------------------------------------
(***************************************************************************)
(* The request for a checkout (create_checkout_session)                    *)
(***************************************************************************)
\* Of a request comes "found" or "missing" (a row), "asked" (of Stripe), "open" (a
\* session), its subscription's status at Stripe, or "ended".
BecomesOf(n, row, state) ==
    orders' = [orders EXCEPT ![n].row = row, ![n].state = state]

Becomes(n, state) == BecomesOf(n, orders[n].row, state)

\* get_or_create looks for the user's row; two rows raise MultipleObjectsReturned.
LookUp(plan) ==
    /\ Len(orders) < MaxRequests /\ Cardinality(Rows) <= 1
    /\ orders' = Append(orders, [plan |-> plan,
                               row |-> IF Rows = {} THEN 0 ELSE CHOOSE r \in Rows : TRUE,
                               state |-> IF Rows = {} THEN "missing" ELSE "found"])
    /\ UNCHANGED <<subs, latest, wiped, changes, events>>

\* unique_together: a row of the plan, other than the request's own.
PlanTaken(n) == \E r \in Rows \ {orders[n].row} : subs[r].plan = orders[n].plan

\* It creates the row it missed, or takes the one that came first with the same plan.
Insert(n) ==
    /\ orders[n].state = "missing"
    /\ IF PlanTaken(n)
       THEN /\ Cardinality(Rows) = 1
            /\ BecomesOf(n, CHOOSE r \in Rows : TRUE, "found") /\ UNCHANGED subs
       ELSE /\ subs' = [subs EXCEPT ![n] =
                          [plan |-> orders[n].plan, status |-> "incomplete", ext |-> 0]]
            /\ BecomesOf(n, n, "found")
    /\ UNCHANGED <<latest, wiped, changes, events>>

\* The row, of whatever plan and status, becomes an incomplete subscription of the plan
\* asked for; it keeps Stripe's earlier id.
Reset(n) ==
    LET r == orders[n].row
    IN  /\ orders[n].state = "found" /\ r \in Rows /\ ~PlanTaken(n)
        /\ subs' = [subs EXCEPT ![r].plan = orders[n].plan, ![r].status = "incomplete"]
        /\ wiped' = wiped \cup {r}
        /\ Becomes(n, "asked")
        /\ UNCHANGED <<latest, changes, events>>

\* StripeClient.create_checkout_session, whose metadata name the row.
OpenSubscriptionSession(n) ==
    /\ orders[n].state = "asked" /\ orders[n].plan \in Priced
    /\ Becomes(n, "open")
    /\ UNCHANGED <<subs, latest, wiped, changes, events>>

\* A plan without a price id, a call to Stripe or a statement that fails, a process that
\* dies: what was stored stays, and the customer gets no session.
EndWithout(n) ==
    /\ orders[n].state \in {"missing", "found", "asked"}
    /\ Becomes(n, "ended")
    /\ UNCHANGED <<subs, latest, wiped, changes, events>>

\* SubscriptionViewSet.destroy; Stripe is not told.
Destroy(r) ==
    /\ r \in Rows
    /\ subs' = [subs EXCEPT ![r] = NoRow]
    /\ UNCHANGED <<orders, latest, wiped, changes, events>>

-----------------------------------------------------------------------------
(***************************************************************************)
(* Stripe and its events                                                   *)
(***************************************************************************)
\* The customer completes a session.
Complete(n) ==
    /\ orders[n].state = "open"
    /\ Becomes(n, "active")
    /\ latest' = [latest EXCEPT ![orders[n].row] = n]
    /\ events' = events \o << [of |-> n, type |-> "created", status |-> "active"],
                              [of |-> n, type |-> "completed", status |-> "active"] >>
    /\ UNCHANGED <<subs, wiped, changes>>

\* A payment fails or succeeds again, or the subscription ends.
Change(n, status) ==
    /\ orders[n].state \in {"active", "past_due"} \ {status} /\ changes < MaxChanges
    /\ changes' = changes + 1
    /\ Becomes(n, status)
    /\ events' = Append(events, [of |-> n, type |-> "updated", status |-> status])
    /\ UNCHANGED <<subs, latest, wiped>>

\* A session's event names the row; others, or one whose row is gone, find it by the id
\* of the subscription.
RowOf(e) ==
    LET named == {r \in Rows : e.type = "completed" /\ orders[e.of].row = r}
    IN  IF named # {} THEN named ELSE {r \in Rows : subs[r].ext = e.of}

\* The subscription of a session is fetched; other events carry its status.
StatusOf(e) == IF e.type = "completed" THEN orders[e.of].state ELSE e.status

\* Mistake: the event of a session does not store the subscription's id.
StatusOnly(e, row) == [row EXCEPT !.status = Mapped(StatusOf(e))]

Updated(e, row) == [row EXCEPT !.status = Mapped(StatusOf(e)), !.ext = e.of]

Arrives(i) == i \in DOMAIN events /\ (InOrder => i = 1)

\* update_subscription_from_stripe; StripeWebhookView.post acknowledges every event.
Handle(i) ==
    /\ Arrives(i)
    /\ subs' = [r \in DOMAIN subs |-> IF r \in RowOf(events[i]) THEN Updated(events[i], subs[r])
                                      ELSE subs[r]]
    /\ wiped' = wiped \ RowOf(events[i])
    /\ events' = RemoveAt(events, i)
    /\ UNCHANGED <<orders, latest, changes>>

SubscriptionNext ==
    \/ \E plan \in Plans : LookUp(plan)
    \/ \E n \in Orders :
          \/ Insert(n) \/ Reset(n) \/ OpenSubscriptionSession(n) \/ EndWithout(n)
          \/ Complete(n) \/ \E status \in {"active", "past_due", "canceled"} : Change(n, status)
    \/ \E r \in DOMAIN subs : Destroy(r)
    \/ \E i \in DOMAIN events : Handle(i)

HandleSome == \E i \in DOMAIN events : Handle(i)

-----------------------------------------------------------------------------
\* The newest subscription of a row is followed: the row comes to hold the id of the
\* session of it that was completed last and to show the state Stripe has that one in,
\* whatever happens meanwhile to the older ones.  Only a later request can hide the
\* state: the row it has reset is incomplete until Stripe sends something again, and
\* for good if the request got no session.  It rests on events that arrive in the order
\* they were sent.
Follows ==
    \A r \in Rows :
        LET n == latest[r]
        IN  n # 0 => /\ subs[r].ext = n
                     /\ \/ subs[r].status = Mapped(orders[n].state)
                        \/ r \in wiped /\ subs[r].status = "incomplete"

SubscriptionFollows == <>[](Follows)

=============================================================================
