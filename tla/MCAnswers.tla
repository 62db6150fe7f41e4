------------------------------- MODULE MCAnswers -------------------------------
(***************************************************************************)
(* Small instances of the components that answer late: the checkouts and   *)
(* subscriptions that follow a provider's webhooks, the mentor's questions *)
(* and the recommended matches.  None shares state with another: a         *)
(* behaviour picks one and leaves the others as they are.                  *)
(***************************************************************************)
EXTENDS Checkout, Subscriptions, Mentor, Matches, TLC

CONSTANTS cs, cb, ci, day1, day2

VARIABLE part

vars == <<part, checkoutVars, subscriptionVars, mentorVars, matchVars>>

\* The checkouts share the switch and the account and nothing else: a behaviour has one.
CheckoutParts == {"stripe", "btcpay", "ipay"}
Parts == CheckoutParts \cup {"subscription", "mentor", "matches"}

\* One checkout with each provider.
Providers == (cs :> "stripe") @@ (cb :> "btcpay") @@ (ci :> "ipay")

\* Two questions of one day.
KindMixes == {(day1 :> "entry") @@ (day2 :> "entry")}

Init ==
    /\ part \in Parts
    /\ CheckoutInit /\ SubscriptionInit /\ MentorInit /\ MatchInit

Others(name) ==
    /\ part = name /\ UNCHANGED part
    /\ name \notin CheckoutParts => UNCHANGED checkoutVars
    /\ name # "subscription" => UNCHANGED subscriptionVars
    /\ name # "mentor" => UNCHANGED mentorVars
    /\ name # "matches" => UNCHANGED matchVars

\* The behaviour creates the checkout of the provider it has picked, and no other.
OneCheckout(provider) ==
    /\ Others(provider) /\ CheckoutNext
    /\ \A c \in Checkouts : ProviderOf[c] # provider => UNCHANGED checkout[c]

Next ==
    \/ \E provider \in CheckoutParts : OneCheckout(provider)
    \/ Others("subscription") /\ SubscriptionNext
    \/ Others("mentor")       /\ MentorNext
    \/ Others("matches")      /\ MatchNext

\* Steps that go on as long as they can: Stripe's events are handled when they arrive,
\* Celery's workers work.  (One part runs, so that one fairness does for all of them.)
GoesOn ==
    \/ Others("subscription") /\ HandleSome
    \/ Others("mentor")       /\ Work
    \/ Others("matches")      /\ Scoring

\* A web worker whose results are there goes on as well, and a provider repeats a
\* delivery until it is acknowledged, whatever comes in between.
Fairness ==
    /\ WF_vars(GoesOn)
    /\ WF_vars(Others("matches") /\ \E r \in Requests : Collect(r))
    /\ \A p \in Payments : SF_vars(Others(ProviderOf[p[1]]) /\ DeliverPaid(p))

Spec == Init /\ [][Next]_vars /\ Fairness

=============================================================================
