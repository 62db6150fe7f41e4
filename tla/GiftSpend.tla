------------------------------- MODULE GiftSpend -------------------------------
(***************************************************************************)
(* Gifts on posts and comments (PostViewSet.gifts and CommentViewSet.gifts *)
(* in apps/social/views.py): a paid reaction is a coin spend followed by a *)
(* PaidReaction row that carries the Idempotency-Key.                      *)
(*                                                                         *)
(* create_spend is one all-or-nothing action here: CoinLedger shows that   *)
(* it implements the payment of Bank.  It commits before the reaction is   *)
(* inserted, so other requests, crashes and retries come in between.       *)
(***************************************************************************)
EXTENDS Integers

CONSTANTS
    Requests,     \* the HTTP requests, each sent once
    Keys,         \* idempotency keys
    Users, Targets,
    Gifts, Cost,  \* a gift type with a quantity, and its price in cents
    Seed,         \* the coins each user starts with
    NoOrder       \* what a request not yet sent asks for

Payload == [sender : Users, target : Targets, gift : Gifts]
Orders  == [key : Keys, payload : Payload]

ASSUME GiftAssumption ==
    /\ NoOrder \notin Orders
    /\ Cost \in [Gifts -> Nat \ {0}]
    /\ Seed \in Nat

VARIABLES
    active,       \* CoinAccount.status of each user is active
    balance,
    spent,        \* the requests whose spend event is committed
    reactions,    \* the requests whose PaidReaction row is committed
    published,    \* the requests whose gift.received event went out
    stage, order, answer

giftVars == <<active, balance, spent, reactions, published, stage, order, answer>>

Working == {"lookup", "replay", "spend", "record", "publish", "respond"}

GiftTypeOK ==
    /\ active \in [Users -> BOOLEAN]
    /\ balance \in [Users -> Int]
    /\ spent \subseteq Requests
    /\ reactions \subseteq Requests
    /\ published \subseteq Requests
    /\ stage \in [Requests -> Working \cup {"new", "ended"}]
    /\ order \in [Requests -> Orders \cup {NoOrder}]
    /\ answer \in [Requests -> {"none", "created", "repeated", "conflict",
                                "refused", "error", "lost"}]

GiftInit ==
    /\ active = [u \in Users |-> TRUE]
    /\ balance = [u \in Users |-> Seed]
    /\ spent = {}
    /\ reactions = {}
    /\ published = {}
    /\ stage = [r \in Requests |-> "new"]
    /\ order = [r \in Requests |-> NoOrder]
    /\ answer = [r \in Requests |-> "none"]

-----------------------------------------------------------------------------
Goes(r, there) ==
    /\ stage' = [stage EXCEPT ![r] = there]
    /\ UNCHANGED answer

End(r, result) ==
    /\ stage' = [stage EXCEPT ![r] = "ended"]
    /\ answer' = [answer EXCEPT ![r] = result]

sender(r) == order[r].payload.sender
cost(r)   == Cost[order[r].payload.gift]

\* The reaction that holds the key of this request.
Holders(r) == {s \in reactions : order[s].key = order[r].key}

\* A well-formed request for an active gift type.
Begin(r) ==
    /\ stage[r] = "new"
    /\ \E o \in Orders : order' = [order EXCEPT ![r] = o]
    /\ Goes(r, "lookup")
    /\ UNCHANGED <<active, balance, spent, reactions, published>>

\* Mistake: the payload is not compared.
AnyPayload(r, s) == TRUE

SamePayload(r, s) == order[s].payload = order[r].payload

LookUpGift(r) ==
    /\ stage[r] = "lookup"
    /\ \/ /\ Holders(r) = {}
          /\ Goes(r, "spend")
       \/ \E s \in Holders(r) :
             IF SamePayload(r, s)
             THEN Goes(r, "replay")
             ELSE End(r, "conflict")
    /\ UNCHANGED <<active, balance, spent, reactions, published, order>>

\* create_spend, from the check of the account to its commit.
CanPay(r) == active[sender(r)] /\ balance[sender(r)] >= cost(r)

Spend(r) ==
    /\ stage[r] = "spend"
    /\ \/ /\ CanPay(r)
          /\ balance' = [balance EXCEPT ![sender(r)] = @ - cost(r)]
          /\ spent' = spent \cup {r}
          /\ Goes(r, "record")
       \/ /\ ~CanPay(r)
          /\ End(r, "refused")
          /\ UNCHANGED <<balance, spent>>
    /\ UNCHANGED <<active, reactions, published, order>>

\* Mistake: the idempotency_key column is not unique.
KeyFree(r) == FALSE

\* PaidReaction.objects.create; a taken key is an IntegrityError nobody catches.
KeyTaken(r) == Holders(r) # {}

Record(r) ==
    /\ stage[r] = "record"
    /\ IF KeyTaken(r)
       THEN End(r, "error") /\ UNCHANGED reactions
       ELSE Goes(r, "publish") /\ reactions' = reactions \cup {r}
    /\ UNCHANGED <<active, balance, spent, published, order>>

\* on_commit runs at once outside a transaction; publishing is best effort.
Publish(r) ==
    /\ stage[r] = "publish"
    /\ \/ published' = published \cup {r}
       \/ UNCHANGED published
    /\ Goes(r, "respond")
    /\ UNCHANGED <<active, balance, spent, reactions, order>>

\* Both answers open the account again to show the balance; if it was suspended
\* meanwhile, that raises.
AnswerFrom(r, here, result) ==
    /\ stage[r] = here
    /\ End(r, IF active[sender(r)] THEN result ELSE "error")
    /\ UNCHANGED <<active, balance, spent, reactions, published, order>>

Replay(r)  == AnswerFrom(r, "replay", "repeated")
Respond(r) == AnswerFrom(r, "respond", "created")

\* The worker dies, or the client never sees the answer.
Crash(r) ==
    /\ stage[r] \in Working
    /\ End(r, "lost")
    /\ UNCHANGED <<active, balance, spent, reactions, published, order>>

\* An operator suspends or reinstates an account by hand.
ToggleAccount(u) ==
    /\ active' = [active EXCEPT ![u] = ~@]
    /\ UNCHANGED <<balance, spent, reactions, published, stage, order, answer>>

Step(r) ==
    \/ Begin(r)
    \/ LookUpGift(r)
    \/ Spend(r)
    \/ Record(r)
    \/ Publish(r)
    \/ Replay(r)
    \/ Respond(r)
    \/ Crash(r)

GiftNext ==
    \/ \E u \in Users : ToggleAccount(u)
    \/ \E r \in Requests : Step(r)

GiftSpec == GiftInit /\ [][GiftNext]_giftVars

-----------------------------------------------------------------------------
(***************************************************************************)
(* Properties                                                              *)
(***************************************************************************)
\* A reaction was paid for by its own spend, and no key has two reactions,
\* however the requests that carry it overlap.
ReactionsArePaidOnce ==
    /\ reactions \subseteq spent
    /\ \A r, s \in reactions : order[r].key = order[s].key => r = s

\* What the client is told is so: a refused or conflicting request cost
\* nothing; a repeated one has a reaction with the same payload; and a request
\* that was charged and has no reaction to show ended in an error.
AnswerMatchesGift ==
    \A r \in Requests :
        /\ answer[r] \in {"refused", "conflict"} => r \notin spent
        /\ answer[r] = "repeated" =>
              r \notin spent /\ \E s \in reactions : order[s] = order[r]
        /\ answer[r] = "created" => r \in reactions
        /\ stage[r] = "ended" /\ r \in spent \ reactions =>
              answer[r] \in {"error", "lost"}

\* Viewers are told only of gifts that are stored and paid.
PublishedIsStored == published \subseteq reactions \cap spent

\* A reaction that anybody sees was paid for, by its own spend, once for its key.
GiftsAreReal == ReactionsArePaidOnce /\ PublishedIsStored

\* docs/FEED_GIFTS.md: "Same key + identical payload ... no double spend".
NoDoubleSpend ==
    \A r, s \in spent : order[r] = order[s] => r = s

=============================================================================
