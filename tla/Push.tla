-------------------------------- MODULE Push --------------------------------
(***************************************************************************)
(* A gift event on its way to the clients (apps/realtime/publish.py and    *)
(* /internal/publish of services/realtime/app.py): Django posts it to the  *)
(* gateway, with a timeout, and publishes it to Redis itself when that     *)
(* fails; the gateway counts the requests of an address and publishes to   *)
(* Redis as well.                                                          *)
(*                                                                         *)
(* The two sides are two processes: the gateway goes on with a request     *)
(* whose client has given up, and the key that counts requests gets its    *)
(* expiry in a call of its own.                                            *)
(***************************************************************************)
EXTENDS Integers

CONSTANTS
    Gifts,    \* the events
    Limit     \* requests of an address in one window

ASSUME PushAssumption == Limit \in Nat \ {0}

VARIABLES
    sender,     \* where Django is with each event
    gate,       \* where the gateway is with each event
    counter,    \* the rate limiter's key: [count, expires]
    copies,     \* how often each event was published to Redis
    cut,        \* events whose answer did not reach Django in time
    unsent,     \* events Redis refused to take from Django
    stuck       \* a key was left without an expiry

pushVars == <<sender, gate, counter, copies, cut, unsent, stuck>>

NoKey == [count |-> 0, expires |-> FALSE]

PushInit ==
    /\ sender = [g \in Gifts |-> "new"]
    /\ gate = [g \in Gifts |-> "none"]
    /\ counter = NoKey
    /\ copies = [g \in Gifts |-> 0]
    /\ cut = {}
    /\ unsent = {}
    /\ stuck = FALSE

Sender(g, from, to) == sender[g] = from /\ sender' = [sender EXCEPT ![g] = to]
Gate(g, from, to) == gate[g] = from /\ gate' = [gate EXCEPT ![g] = to]

-----------------------------------------------------------------------------
(***************************************************************************)
(* Django: publish_realtime_event                                          *)
(***************************************************************************)
Post(g) ==
    /\ Sender(g, "new", "posted")
    /\ Gate(g, "none", "arrived")
    /\ UNCHANGED <<counter, copies, cut, unsent, stuck>>

\* No REALTIME_PUBLISH_URL, or nobody listens there.
Reject(g) ==
    /\ Sender(g, "new", "fallback")
    /\ UNCHANGED <<gate, counter, copies, cut, unsent, stuck>>

\* Mistake: the event is published by both ways.
EndsBoth(g) == Sender(g, "posted", "fallback")

\* The HTTP path is all there is to it.
EndsSent(g) == Sender(g, "posted", "done")

TakeOk(g) ==
    /\ gate[g] = "ok" /\ EndsSent(g)
    /\ UNCHANGED <<gate, counter, copies, cut, unsent, stuck>>

TakeError(g) ==
    /\ gate[g] = "error" /\ Sender(g, "posted", "fallback")
    /\ UNCHANGED <<gate, counter, copies, cut, unsent, stuck>>

\* The read timeout, or a connection that broke.
TimeOut(g) ==
    /\ Sender(g, "posted", "fallback")
    /\ cut' = cut \cup {g}
    /\ UNCHANGED <<gate, counter, copies, unsent, stuck>>

\* publish_event.
PublishSelf(g) ==
    /\ Sender(g, "fallback", "done")
    /\ \/ copies' = [copies EXCEPT ![g] = @ + 1] /\ UNCHANGED unsent
       \/ unsent' = unsent \cup {g} /\ UNCHANGED copies
    /\ UNCHANGED <<gate, counter, cut, stuck>>

-----------------------------------------------------------------------------
(***************************************************************************)
(* The gateway: _enforce_rate_limit and internal_publish                   *)
(***************************************************************************)
\* INCR.  Only the request that made the key sets its expiry.
Count(g) ==
    /\ counter' = [counter EXCEPT !.count = IF @ > Limit THEN @ ELSE @ + 1]
    /\ Gate(g, "arrived",
            IF counter.count = 0 THEN "expire"
            ELSE IF counter.count >= Limit THEN "error" ELSE "publish")
    /\ UNCHANGED <<sender, copies, cut, unsent, stuck>>

\* EXPIRE.
SetExpiry(g) ==
    /\ Gate(g, "expire", "publish")
    /\ counter' = [counter EXCEPT !.expires = TRUE]
    /\ UNCHANGED <<sender, copies, cut, unsent, stuck>>

\* Redis fails the limiter, which lets the request pass.
SkipLimit(g) ==
    /\ \/ Gate(g, "arrived", "publish") /\ UNCHANGED stuck
       \/ Gate(g, "expire", "publish") /\ stuck' = TRUE
    /\ UNCHANGED <<sender, counter, copies, cut, unsent>>

Expire ==
    /\ counter.expires
    /\ counter' = NoKey
    /\ UNCHANGED <<sender, gate, copies, cut, unsent, stuck>>

PublishThere(g) ==
    /\ \/ copies' = [copies EXCEPT ![g] = @ + 1] /\ Gate(g, "publish", "ok")
       \/ UNCHANGED copies /\ Gate(g, "publish", "error")
    /\ UNCHANGED <<sender, counter, cut, unsent, stuck>>

\* The gateway dies; Django sees its connections break or time out.
Crash ==
    /\ stuck' = (stuck \/ \E g \in Gifts : gate[g] = "expire")
    /\ \E g \in Gifts : gate[g] \in {"arrived", "expire", "publish", "ok", "error"}
    /\ gate' = [g \in Gifts |-> IF gate[g] = "none" THEN "none" ELSE "gone"]
    /\ UNCHANGED <<sender, counter, copies, cut, unsent>>

PushNext ==
    \/ \E g \in Gifts :
          \/ Post(g) \/ Reject(g) \/ TakeOk(g) \/ TakeError(g) \/ TimeOut(g) \/ PublishSelf(g)
          \/ Count(g) \/ SetExpiry(g) \/ SkipLimit(g) \/ PublishThere(g)
    \/ Expire
    \/ Crash

-----------------------------------------------------------------------------
\* When both sides are done with an event it was published once: never if Redis failed
\* Django, and twice only if the gateway published it and its answer came too late.
Over(g) == sender[g] = "done" /\ gate[g] \in {"none", "ok", "error", "gone"}

PublishedOnceUnlessCut ==
    \A g \in Gifts :
        Over(g) => /\ copies[g] = 0 => g \in unsent
                   /\ copies[g] > 1 => copies[g] = 2 /\ g \in cut

\* An address that has used up its requests is heard again: its key expires, unless the
\* gateway died, or Redis failed, between counting the first request and the expiry.
LimitEnds ==
    counter.count > 0 /\ ~counter.expires =>
        stuck \/ \E g \in Gifts : gate[g] = "expire"

\* Whatever the order of requests, timeouts, expiries and crashes: an event once, and a
\* limit that ends.
DeliveredAsPromised == PublishedOnceUnlessCut /\ LimitEnds

=============================================================================
