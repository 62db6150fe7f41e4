# SelfLink backend: a verification project

TLA+ models of the SelfLink backend (Django/DRF, Celery, FastAPI, PostgreSQL, Redis),
the TLC runs that check them on small instances, and TLAPS proofs of the results that
matter most. Paths are relative to the repository root, `apps/`, `libs/` and
`services/` to `src/`. `PROJECT.json` lists components, runs, mutants, the map from
definitions to source lines, findings, hazards and theorems.

## 1. Inventory

| part | source | state | hard about it | what makes it correct |
|---|---|---|---|---|
| Coin ledger | `apps/coin/services/` | `CoinAccount`, `CoinEvent`, `CoinLedgerEntry`, monthly snapshots and their files | balances are sums, so a check and a debit must exclude others; a month is read outside the transaction that stores its hash | no overdraft, one mint per payment, balanced events, true answers, complete snapshots |
| Payments | `apps/payments/` | `PaymentEvent`, `PaymentCheckout`, `Subscription` | at-least-once, unordered deliveries, several workers, crashes between autocommitted statements | coins for money received, once; the newest subscription is followed |
| Paid products | `apps/coin/views.py` | `PaidProduct`, `UserEntitlement` | key, charge and entitlement together | one charge per key, no paid day lost |
| Social | `apps/social/` | `PaidReaction`, posts, likes, comments, counts | a gift's spend commits before its key is stored; counts are kept beside the rows | one paid reaction per key; counts agree with rows |
| Messaging | `apps/messaging/` | `Thread`, `ThreadMember`, `Message` | duplicate sends, stale objects saved back, ids not in commit order, check-then-create | one message per `client_uuid`, receipts agree, nothing missed between push and sync |
| Identifiers | `libs/idgen.py` | a generator per process | threads, sequence overflow, a clock set back | ids of a process increase |
| Contributor rewards | `apps/contrib_rewards/` | events, ledger, snapshots, payouts | check-then-create, rounding of shares | the pool is shared out exactly and once |
| Realtime gateway | `services/realtime/`, `apps/realtime/`, `apps/core/pubsub.py` | sockets, locks, presence, rate counters | await points, timeouts, expiry | one writer per socket, an event once |
| Notifications | `apps/notifications/` | rows and push tasks | blocks and mutes that change meanwhile, repeated sends | nobody is notified twice or against a block |
| Mentor | `apps/mentor/` | sessions, messages, tasks, memory | redelivered tasks and shared rows around a slow external call | one reply per question, answered in the end; prompts and memory lack nothing that came before |
| Matching, astrology | `apps/matching/`, `apps/astro/` | charts, results, scores, caches | keys of caches, groups of tasks that are waited for | the chart and score of these birth data |
| Feed | `apps/feed/`, `services/reco/` | timelines, cached pages, insight cards | stale caches, rebuilds beside fan-outs | a page lags behind only what overlapped it |
| Community | `apps/community/` | problems, agreements, work | check-then-create | no part without consent |
| Users, search, audit | `apps/users/`, `apps/search/`, `apps/audit/` | copies of a user's data, documents, the hash chain | signals outside transactions, tasks before commits, locks on a row that is no longer the newest | copies agree; the chain is one |
| Moderation, media, configuration, operations | the other apps, `infra/` | append-only rows, files, settings | little that a model checker adds | not modelled |

**How the parts interact.** A webhook turns a `PaymentEvent` into coins through
`mint_for_payment`; purchases and gifts take coins through `post_event_and_entries`
and `create_spend`; all append to one ledger. Gifts and messages publish realtime
events after their commit, best effort; the gateway forwards what Redis gives it to the
sockets. Messages notify members through rows and Celery tasks. Posts fan out to
timelines in their transaction and reach the search index by tasks. Every row takes its
primary key from `generate_id`. There is no `ATOMIC_REQUESTS`: outside an explicit
`transaction.atomic()` each statement commits by itself, and PostgreSQL runs at READ
COMMITTED. That is why the models have one action per statement that others may see.
Celery acknowledges a task when a worker takes it (`acks_late` is not set), so a worker
that dies loses its task.

## 2. Modules

| module | models | correspondence |
|---|---|---|
| `Bank` | what the wallet promises | abstract: mint a payment once, move coins all at once |
| `CoinLedger` | `create_transfer`, `create_spend`, `mint_for_payment` and their views | each of `Requests` is a call; an action per statement: `CheckPayer`/`CheckPayee`, `AcquireLock` (`select_for_update`), `ReadBalance`, `Validate`, `Commit`, `Respond` |
| `WebhookMint` | one payment through every statement of the BTCPay and iPay handlers | a worker keeps the object it loaded (`copy`) and the status it acts on (`seen`); `FreshStatus` tells BTCPay (fetched) from iPay (carried); single columns are written back at `MarkFailed` and `Save` |
| `Checkout` | checkouts with Stripe, BTCPay and iPay, each with several payments | a handler is one step; a checkout is created, opened at the provider and given its reference in steps; `Deliver` finds it by what that provider sends, and a suspended user's is answered 400 (`MayMint`, `RefuseMint`) |
| `Subscriptions` | Stripe subscriptions of one user | a checkout request statement by statement (`LookUp`, `Insert`, `Reset`, `OpenSubscriptionSession`), which may end after each without a session; `Destroy`; events in a queue (`InOrder`) or in any order |
| `Purchase` | `CoinPurchaseView` for one user | look-up of the key, lock, balance, charge with entitlement in one commit |
| `GiftSpend` | the two `gifts` actions | look-up, `create_spend` as one step (justified by `LedgerImplementsBank`), `PaidReaction`, event, answer |
| `Likes` | likes, comments and edits of a post | row and count as two statements, an edit that saves what it loaded |
| `Messaging` | sends, acks, read marks of a thread | look-up, INSERT on the unique key, the Thread row lock, commit; ack and mark_read as unlocked loads and saves |
| `Delivery` | a message's way to one member: id, commit, push, reconnect, sync | `cursor` is where the client's last sync ended |
| `Threads` | direct and group threads, joining and leaving | look-up and creation apart; `Remaining` as an open transaction sees it |
| `Notify` | rows and pushes of a message between blocks and mutes | a statement per read; a push task reads devices only |
| `Gateway` | `ConnectionManager` and the endpoint that fills it | an action per await; locks have an identity |
| `Push` | the internal publish, its timeout, its rate limit and the fallback | client and gateway as two processes |
| `IdGen` | `SnowflakeGenerator`, `generate_id` | lock, clock, wait, id, per process |
| `RewardPool` | the GitHub webhook, postings by hand, the monthly commands | stamped at `Insert`, seen at `Commit`; `Read`, `Check`, `Store`; `Allocated` is `_allocate_pool` |
| `Snapshot` | `coin_snapshot_month` | read, check, store, CSV, manifest, each on its own |
| `Mentor` | the endpoints, streams, tasks, sessions, messages, memory and polling | the language model's call is a step, and what the prompt had is kept; a task may be lost or delivered again |
| `Matches` | recommended matches | a task per candidate; the web worker waits for all |
| `Astrology` | birth data, charts, results, caches, scores of pairs | a chart is the birth data it is of |
| `Feed`, `Insights` | timelines, rebuilds, cached pages; insight cards and their places | rows carry when they were written; `WithCards` is `_insert_insights` |
| `Community` | agreements, acceptance, permission, participation | agreements numbered by primary key |
| `Accounts` | a user's row and what signals and the personal map keep beside it | saves from the copy that authentication loaded, or that an update of the map loads again; the map's look-up and its creation apart |
| `Audit` | the hash chain | a lock that waits for a row, not for the newest |
| `Search` | documents and index tasks | tasks read and write in two steps |

`*Proofs` modules extend these and hold the theorems. `MC*` modules give the constants
values; the cfg files name the instance. Operators introduced by `\* Mistake:` are
plausible bugs: the mutants of `PROJECT.json` put them in the place of the definition
they precede, and every property of every passing run is violated by one of them.

**Instances with several components.** `MCCoins`, `MCExchange`, `MCAnswers` and
`MCPeople` hold several components at once. These share no variable: the first state
picks one (`part`), whose actions then run while `Others(...)` leaves the rest as it
is. Such a run says of each component exactly what a run of its own would say, and costs the
sum of their states. Checkouts share the switch of payments and the user's account and
nothing else, so the first state also picks one checkout: that of Stripe, BTCPay or iPay. Fairness in `MCAnswers` is stated once for steps of different
components where only one of them can ever run. The values `x1`, `x2`, ... stand for requests in
one component and for people or tasks in another, so that one symmetry serves all.

### What is abstracted
- A ledger balance is the running sum of its committed entries; an event is named by
  the call that made it. Two entries per event, as in all callers.
- Amounts, prices and days are small numbers; formats, metadata, notes and logging are
  left out. Signatures and amounts of webhooks are assumed in order where a wrong one
  is refused before any state is touched; `Checkout` has short payments.
- `Subscriptions` assumes that payments stay switched on, and leaves out the wallet and
  the customer's id at Stripe, which exist before the row is touched. A
  handler is one step: the events of one user are handled one after the other.
- The status of an account changes by hand only: an operator action, which waits for
  row locks. A rolled-back transaction leaves nothing: a crash releases locks and keeps
  what had committed.
- `Purchase` assumes that products have a duration, as the shipped migrations do; one
  without sets `active_until` to null and takes away the days that were left.
- `apps/social/events.py` contains unresolved merge-conflict markers; `Publish` does
  what both sides of the conflict do.
- In `Messaging` the members stay and nobody is blocked; ids come from a counter (what
  can go wrong with them is in `IdGen` and `Delivery`). The client of `Delivery` is
  external: it syncs from its last cursor once it sees that it is online.
- Charts, scores, ranks and replies are data: what matters is what they were made from.
- In `RewardPool` shares are exact fractions where the code divides floats, which agree as
  long as the pool times the points of a contributor is below 2^53; `counted`
  stands for the hash of the events a snapshot names. Dry runs and deliveries of unknown
  authors leave no state that matters and are left out.
- `Feed` leaves out like counts, ranking and pages after the first; `Search` leaves out
  the query language; `Notify` leaves out devices and quiet hours.

## 3. Runs

| run | instance | shows |
|---|---|---|
| `ledger` | 3 calls, 2 users, 1 payment of 2 cents | safety and refinement of `Bank` |
| `webhook` | 2 workers, 2 crashes, late settlement | minted once, linked, only if paid; in the end |
| `webhook_stale` | 2 workers, status fetched | **violation**: a minted event marked failed |
| `coins` | purchases: 3 requests, 2 keys, 3 days; gifts: 3 requests, 2 users, 2 keys; rewards: 3 postings, 2 commands, 2 months | charges, days and gifts per key; the pool shared fairly, once, for good |
| `purchase_twice` | 2 requests | **violation**: one charge grants the days twice |
| `gifts_twice` | 2 requests | **violation**: one gift is charged twice |
| `messaging` | 3 requests, 2 members, 2 messages | one message per uuid, receipts agree, requests end |
| `idgen` | 3 threads, 2 processes, a set-back, a restart | ids of a process increase, calls return |
| `exchange` | 3 messages over 2 connections; 2 sockets, 3 tasks; 3 thread requests; 3 gift events; 2 letters sent twice; one checkout of one of three providers, iPay's with up to 3 payments; 2 questions, 2 workers | see `OnlyLateOrLostIsMissed`, `OneWriter`, `ThreadsAreKept`, `DeliveredAsPromised`, `NotifiedAsAllowed`, `CoinsMatchMoney`, `RepliesAreInPlace` |
| `answers` | one checkout of one of three providers, iPay's with a second or declined payment; 2 checkout requests for 3 plans, one without a price, and 2 changes at Stripe; 2 questions; 2 requests for matches, 2 candidates | liveness: `SettledIsMinted`, `SubscriptionFollows`, `ToldIsAnswered`, `RecommendationsCome` |
| `people` | 3 requests of each of nine components | see `DriftOnlyByOverlap`, `PartFollowsConsent`, `FeedFollows`, `CardsAreRight`, `SnapshotIsComplete`, `RememberedIsRight`, `LikesAreCounted`, `ChainForksOnlyByOverlap`, `SearchMatchesRows` |
| `community_consent` | 3 requests, 2 agreements | **violation**: who accepts what he is shown stays refused |

Many properties have the form *what is wrong comes only from overlap*: the code checks
and then acts without a lock, so that two requests at once can leave a duplicate, a
stale copy or a wrong count. A ghost variable records which requests overlapped (or
which died half way), and the property says that nothing else does it: one request
after the other, in any order and number, keeps the rows right. Each run also reaches
the states with the overlap.

**Bounds.** Each call is made once, so that the number of requests bounds a run. The races
are between two actors and one resource; a third request plays the later retry, the
funding or the third party. `Max...` constants are named in the modules that use them;
the two questions of `Mentor` are of one kind, since those share a session or the memory,
or of two that share nothing (`KindMixes`; in `answers` they are of one day). Symmetry is
used only in runs without liveness. Deadlock is checked in `ledger` and `webhook`; elsewhere the
system stops when all requests have ended or the bounds are reached.

**Fairness.** Steps of a live worker are weakly fair: processes and threads are
scheduled. Taking a row lock or a unique key is strongly fair, since PostgreSQL queues
the waiters. Nothing forces a request to arrive, a worker to crash, an operator to act or
a provider to settle. The redelivery of a paid status that was not answered 2xx is strongly fair in `WebhookMint` and `Checkout`: that is the
providers' retry policy, and the docs call replays safe. `PaidIsMinted` also assumes
that the payer's account stays active from some time on and that the payment never
failed before, `SettledIsMinted` that
payments are enabled again and again and that the account stays active from some time on
(a paid delivery to a suspended user is answered 400, and repeated).
Stripe's events and Celery's tasks are handled in the end by weak fairness; a task whose
worker died is not, and `ToldIsAnswered` and `RecommendationsCome` make an exception of
it. `SubscriptionFollows` is of events that
arrive in the order they were sent and are handled one after the other, and makes one
exception: a row that a later checkout request has reset stays incomplete until Stripe
sends something again. In
`IdGen` the clock ticks, and `CallsReturn` makes an exception of a thread that waits for the clock at its
bound, where time stops in the model.


## 4. Proofs

`tlapm` checks every theorem for all values of the constants that satisfy the named
assumption of the module (`LedgerAssumption`, `WebhookAssumption`, ...): any number of
users, calls, workers, messages and sockets, which are finite sets where a proof counts
them (`IsFiniteSet`). Each invariant follows from an inductive one:
`Init => IInv`, `IInv /\ [Next]_vars => IInv'`, `IInv => Inv`. What it adds is why
the code is right.

- **Ledger** (`CoinLedgerProofs`). `NoOverdraft` is not inductive: a debit at the
  commit relies on a balance read earlier. `LedgerInv` adds that a call between
  balance check and commit holds its payer's lock (`LockHeld`), that what the checks
  found is still true (`ChecksStillHold`: other debits and suspensions wait for the
  lock), and that calls go through their steps in order. `LedgerImplementsBank` is the
  refinement: `Commit` is `Pay` or `MintPayment` of `Bank`, every other step
  changes nothing there. `SuspendedNeverPays` is an action property.
- **Webhooks** (`WebhookMintProofs`). `MintInv` adds that workers ask for a mint only of
  what was announced as paid, and that a link seen in a stale copy is still there
  because links are never undone.
- **Identifiers** (`IdGenProofs`). One thread is inside at a time, all ids given are
  below the first id of the next millisecond, and below the id about to be given. Two
  lemmas about the arithmetic of `Id` carry the proof over every sequence size, clock
  and restart.
- **Messages** (`MessagingProofs`). Ids are counted and apart, an unfinished INSERT
  holds its unique key, and every row has the send that made it; so a second copy
  cannot be stored while the first is undecided. The receipts hold whatever stale row is
  saved back, because each save carries status and times of one moment.
- **Records** (`RecordsProofs`). *Accounts*: the only open request of a user knows its
  row. *Audit*: times are apart, and an event finds the newest one that it did
  not overlap. *Likes*: the stored count is the likes and what is still to be counted;
  that it is never zero when something is taken off needs an injection from the
  uncounted likes into all. *Community*: who was let in has accepted, and what is
  made twice was preceded by two requests that met.

`CoinsProofs` is about what is bought with coins or shared out.
- *Gifts*. `GiftInv` ties the rows of a sender to the step he is at: a spend before its
  reaction, a reaction before its event and its answer.
- *Purchases*. `ChargesAreTrue` and `DaysFollowCharges` rest on `PurchaseInv`: who is
  between the balance check and the commit holds the account's lock and found enough,
  the balance is what was funded less what was charged, and what a stale look-up may
  repeat has overlapped the request it repeats. Charges and days are sums over a set of
  requests; what one more request does to a sum is a lemma.
- *Rewards*. `RewardsInv` says what each event of the ledger was stamped with and what
  each command has read so far; from it follow `RedeliveryCountsOnce`, the action property
  `SnapshotIsFinal`, and the two halves of `PoolIsSharedFairly`. `PoolStaysShared` (no cent
  is lost or made) needs that the exact remainders of the shares add up to the total times
  the cents left over, so that fewer cents are left than there are contributors, and that
  ranks are a bijection onto 0..n-1, so that as many of them are below a number as it
  says. `SharesStayFair` (more points, no smaller share) needs `SmallMonths`: the
  remainders are compared after rounding to six places, as in the code, so that with more than a million
  points in a month two of them may tie where the exact ones differ, and then the
  lower id gets the cent.

`ExchangeProofs` is about what several sides send each other.
- *Checkouts*. What was announced as paid is paid and stays so, and an event is minted
  exactly when its coins exist once: that carries `CoinsMatchMoney`. `CoinsAreFinal` is
  an action property: no later status takes a mint back or repeats it.
- *Push*: how many copies are out is fixed by where both sides stand. *Gateway*: a sender
  at work holds the lock it took, and the table gives a socket no other lock. *Delivery*:
  what is stored below the cursor was synced or came late; that the cursor is the largest
  id synced needs that a finite set of numbers has a largest. *Notify*: what each member
  was given follows from the step of each task, and the history of blocks covers it.
- *Threads*. Two direct threads of one pair come only from two requests that met between
  look-up and creation, a thread without members only from two that left at once: the
  invariant keeps for each open transaction what it saw, and who has met whom since.
- *Mentor*. `RepliesAreInPlace` is far from inductive. `MentorInv` adds: a session that
  shows no pair has a question that is to be answered yet or that somebody died over; who
  works on a question that nobody else has run found no reply; whoever is about to reply
  has a prompt with all that was stored before the question; and what was read of the memory
  is of questions whose answer was saved, so that of two that overlap the later one to save is the
  witness for what the earlier one loses. Every step is of one question, and each part is
  shown once for the others and then for that one.

`DerivedProofs` is about what is kept beside the rows it was made from.
- *Snapshots*: what a command holds is what the month was when it read it, and a month
  that is over gets no event any more. *Search*: a task that writes an old row is still
  open or has a later task behind it. *Astrology*: a cache entry, a chart and a result
  name the birth data that was current within the request that wrote them.
- *Feed*: a page or timeline lacks or repeats something only if what made it overlapped
  the change. A rebuild inserts row after row, which the model writes as a recursive
  function; that such a function exists, and which value it has, are lemmas.
- *Insights*. That the cards stand in their places is a fact about two operators:
  `WithCards` inserts by index, as `_insert_insights` does, and `Show` lays the page out
  post by post. `WithCardsIs` and `ShowIs` show that both are the one page `Row`, for every
  number of posts and every set of cards. `InsightsInv` adds that, when a card that a
  request missed is computed now, it is on record that the task overlapped the request; so
  a light card never replaces a computed one otherwise.

Two kinds of facts are usually proved by induction: that a finite set of numbers has a
largest or smallest member, and that a sum changes by the one value that was added. The
library's induction theorems take operators as parameters, which the provers cannot
instantiate, so they are derived here from the well-foundedness of strict inclusion among
the parts of a finite set: a smallest counterexample leads to a smaller one.

**Only model-checked**: `Subscriptions` and `Matches`, whose properties are of liveness; all
liveness (`PaidIsMinted`, `SettledIsMinted`, `SubscriptionFollows`, `ToldIsAnswered`,
`RecommendationsCome`, `EveryRequestEnds`, `CallsReturn`), since fairness and ENABLED are out of the
prover's reach; and the violations.

## 5. Findings

Four runs end in a violation of what a doc, a test or a check of the repository says;
`PROJECT.json` quotes each line: a slow BTCPay delivery marks a minted payment failed;
a purchase repeated at once is granted twice; a gift repeated at once is charged
twice; who accepts the agreement he is shown stays refused when there are two.
Five more state a property that the model violates, with no run of their own: an ack
undoes a read (`StatusForwardOnly`, with `MCMessagingAck.cfg`); two processes hand out one
primary key (`TimeOrdered`); the chronological feed is not chronological after a rebuild
(`Chronological`); a chart may be that of other birth data (`ChartFollowsBirth`); a diary
entry's task asks the language model the same question twice (`AskedOnce`).

The models show further behaviour that a reader of the code may not expect. Where a
line of the repository says otherwise it is named.

*Coins and payments*
- A payee suspended after the status check is credited (`CheckPayee`, `Commit`);
  `docs/coin/WALLET.md:60` says postings to suspended accounts are blocked.
- A repetition overtaken by its own charge is told that the funds are insufficient
  (`LookUp`, `ReadBalance`); `docs/coin/WALLET.md:93` promises idempotency.
- A payment that failed first is never minted (`RecheckEvent`, `Route`);
  `docs/PAYMENTS_IPAY.md:24` says the webhook mints if the status is paid.
- A Stripe session that completes unpaid is marked failed and acknowledged; the later
  `async_payment_succeeded` is not handled (`apps/payments/webhook.py:197`).
- Each paid iPay payment of a checkout is minted, and a declined one after it
  sets the paid checkout to failed (`apps/payments/webhooks/ipay_webhook.py:137`).
- Out of order, a late update revives a deleted subscription.
- A later checkout request resets the row, of whatever status, before Stripe is called
  (`Reset`, `apps/payments/services.py:48`). When the plan has no price id, the call fails
  or the session is not completed, the older subscription goes on at Stripe while the row
  stays incomplete, for good if Stripe has nothing more to say of it; and the row then
  shows the plan that was asked for last, not the one that is paid.
- Two first checkout requests for different plans that overlap make two rows, since rows
  are unique by user and plan (`Insert`); every later checkout fails at the look-up.
- Destroying a row does not tell Stripe, and later events of its subscription are dropped.
- In-app purchases never mint: each receipt check raises.
- A snapshot that a month's end overtakes is not taken again; a dry run overwrites the
  files of the snapshot that is stored.

*Messages, realtime, notifications*
- Of two overlapping read marks the smaller can be written last (`Member`, `Advance`);
  `tests/test_messaging_reliability.py:223` names read marks forward only.
- A repeated send that overlaps the first fails (`Insert`);
  `tests/test_messaging_reliability.py:62` expects it to be answered with the message.
- A send that dies after its commit never notifies anybody: the retry finds the message
  stored. Push tasks do not look at blocks and mutes again.
- A socket that was dropped while a send waited leaves its lock in the table; a user with
  another socket open is announced offline; presence goes out twice.
- A gateway that dies between INCR and EXPIRE leaves an address locked out; an answer
  that comes after the timeout means the event goes out over Redis too.

*Social, feed, people*
- A like taken back before it is counted, or an edit that saves old counts, leaves the
  count wrong for good; `comment_count` is never decremented.
- A rebuild inserts the newest post first and leaves out the reader's own; fan-out does
  not look at visibility; overlapping rebuilds clash; a page composed before a change is
  cached after it.
- The audit chain forks when events overlap. An index task that runs before its commit
  finds the old row. A user whose worker dies between the row and the signal has
  neither settings nor wallet. Of two overlapping
  creations of a personal map the second gets a 500 (`CreateMap`).

*Mentor and matches*
- Of two questions asked at once (`mentor/sessions/ask`) the memory keeps one
  (`Remembered`). The prompt of a chat has questions that came after its own, when a task
  reads the history late (`Take`); that of an entry answered at once lacks what was
  stored while the model was asked. A stream that breaks stores no reply.
- Redelivered tasks can reply twice, and a task lost with its worker is pending for ever;
  `_trim_messages` is said to keep all system messages but cuts them with the rest
  once the text is long (`apps/mentor/services/llm_client.py`; not modelled).
- A web worker that waits for a lost scoring task waits for ever.

*Rewards*
- Once a clawback leaves a contributor below zero the shares of the others exceed the
  pool, and the negative payout is refused by `PositiveIntegerField`, so the month
  cannot be stored (`SomeNegative`, `Store`);
  `apps/contrib_rewards/services/__init__.py:94` calls the shares proportional with
  consistent totals.
- A snapshot of a month that is not over, or taken before a late commit, misses events for
  good, and `rewards_payout --write-snapshot` takes the period without a payout
  (`Computed`); `docs/CONTRIBUTOR_REWARDS.md:105` aggregates all events of the period.
- The reference of a pull request is its number alone, so one of a second repository
  with the same number and author is taken for a repetition (`SameReference`), while two
  overlapping deliveries are both counted (`LookUp`). Each is worth 10 points, where
  `docs/CONTRIBUTOR_REWARDS.md:73` scores by size.
- "2026-01" and "2026-1" are read as one month and stored as two periods
  (`apps/contrib_rewards/models.py:139`).

## 6. Not modelled

- **Moderation, media, configuration, core, AI clients**: append-only rows, files,
  settings and thin clients; a model would restate single assignments.
- **Scores, ephemeris, ranking** (`apps/matching`, `apps/astro`, `services/reco`, the
  For You feed): weighted sums and trigonometry of external data, without state. What is
  remembered of them is modelled in `Astrology`, `Matches` and `Feed`.
- **Receipts of in-app purchases**: no path of the code leads to a mint.
- **Tokens, devices, settings, listings, metrics, the mentor's daily tasks and profiles**: rows
  of one request or reads only.
- **Attachments, typing, reactions to messages**: two overlapping toggles of a reaction
  end in one row and one 500; typing is a Redis key that expires.
- **Read marks of notifications, quiet hours, moderation of reports**: single updates.
- **Deployment, scripts, migrations**: no behaviour at run time.

What could still be added: the unread counts of threads, and the abstract `Bank` as what
`GiftSpend` and `Purchase` use.
