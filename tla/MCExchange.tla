------------------------------ MODULE MCExchange ------------------------------
(***************************************************************************)
(* Small instances of the components that pass something on: messages and  *)
(* events to sockets and devices, payments from providers, questions to    *)
(* the mentor.  None shares state with another: a behaviour picks one and  *)
(* leaves the others as they are.                                          *)
(***************************************************************************)
EXTENDS Delivery, Gateway, Threads, Push, Notify, Checkout, Mentor, TLC

CONSTANTS a1, a2, x1, x2, x3, cs, cb, ci, day1, day2

VARIABLE part

vars == <<part, deliveryVars, gatewayVars, threadVars, pushVars, notifyVars,
          checkoutVars, mentorVars>>

\* The checkouts share the switch and the account and nothing else: a behaviour has one.
CheckoutParts == {"stripe", "btcpay", "ipay"}
Parts == CheckoutParts \cup {"delivery", "gateway", "threads", "push", "notify", "mentor"}

\* Two sockets of one user.
OneUser == (a1 :> "ann") @@ (a2 :> "ann")

\* One checkout with each provider.
Providers == (cs :> "stripe") @@ (cb :> "btcpay") @@ (ci :> "ipay")

\* Two questions that share a session or the memory, and two that share nothing.
Both(kind) == (day1 :> kind) @@ (day2 :> kind)
KindMixes == {Both("entry"), Both("chat"), Both("ask"), (day1 :> "chart") @@ (day2 :> "ask")}

Init ==
    /\ part \in Parts
    /\ DeliveryInit /\ GatewayInit /\ ThreadsInit /\ PushInit /\ NotifyInit
    /\ CheckoutInit /\ MentorInit
    /\ part # "mentor" => \A q \in Questions : KindOf(q) = "entry"

Others(name) ==
    /\ part = name /\ UNCHANGED part
    /\ name # "delivery" => UNCHANGED deliveryVars
    /\ name # "gateway"  => UNCHANGED gatewayVars
    /\ name # "threads"  => UNCHANGED threadVars
    /\ name # "push"     => UNCHANGED pushVars
    /\ name # "notify"   => UNCHANGED notifyVars
    /\ name # "mentor"   => UNCHANGED mentorVars
    /\ name \notin CheckoutParts => UNCHANGED checkoutVars

\* The behaviour creates the checkout of the provider it has picked, and no other.
OneCheckout(provider) ==
    /\ Others(provider) /\ CheckoutNext
    /\ \A c \in Checkouts : ProviderOf[c] # provider => UNCHANGED checkout[c]

Next ==
    \/ Others("delivery") /\ DeliveryNext
    \/ Others("gateway")  /\ GatewayNext
    \/ Others("threads")  /\ ThreadsNext
    \/ Others("push")     /\ PushNext
    \/ Others("notify")   /\ NotifyNext
    \/ \E provider \in CheckoutParts : OneCheckout(provider)
    \/ Others("mentor")   /\ MentorNext

Spec == Init /\ [][Next]_vars

\* The values of x stand for tasks in one part, and for people, requests or events in
\* another.
Symmetry == Permutations({x1, x2, x3})

=============================================================================
