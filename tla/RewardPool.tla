------------------------------ MODULE RewardPool ------------------------------
(***************************************************************************)
(* The contributors' rewards (apps/contrib_rewards): events that give or   *)
(* take points, posted by GitHub's webhook and by hand, and the monthly    *)
(* commands that share out a pool by the points of a month.                *)
(*                                                                         *)
(* An event and its ledger entries are stamped inside the transaction that *)
(* stores them and are seen when it commits.  The webhook looks a pull     *)
(* request up before that transaction, and a command reads the events long *)
(* before it stores the snapshot with its payouts.  A process that stops   *)
(* anywhere leaves nothing behind: it is one that takes no further step.   *)
(***************************************************************************)
EXTENDS Integers, FiniteSetsExt

CONSTANTS
    Contributors,   \* profile ids: numbers, which break ties
    Prs,            \* merged pull requests of known contributors
    Author,         \* the contributor of each
    Number,         \* its number, on its own in RewardEvent.reference
    PrPoints,       \* what a merged pull request is worth
    Adjustments,    \* the points such events give or take
    Posts,          \* deliveries of the webhook and postings by hand, each once
    Commands,       \* runs of the management commands
    Pools,          \* pools, in cents, as net revenue and percentage give them
    Periods,        \* the spellings of months a command may be given
    MonthOf,        \* the month each spells, as parse_period reads it
    NoSnapshot,
    MaxMonth        \* bound on the calendar

ASSUME RewardAssumption ==
    /\ Posts \cap Commands = {}
    /\ Contributors \subseteq Int
    /\ Author \in [Prs -> Contributors]
    /\ PrPoints \in Nat \ {0}
    /\ Adjustments \subseteq Int \ {0}
    /\ Pools \subseteq Nat
    /\ MaxMonth \in Nat \ {0}
    /\ MonthOf \in [Periods -> 1..MaxMonth]

Months == 1..MaxMonth

VARIABLES
    month,      \* the calendar
    events,     \* the posts whose RewardEvent and LedgerEntry rows are stored
    snapshot,   \* the MonthlyRewardSnapshot row of each period, with its payouts
    pc, op,
    repeated,   \* the deliveries whose event was stored when they arrived
    stamp,      \* the month of RewardEvent.occurred_at and LedgerEntry.created_at
    found       \* the events a command has read

rewardVars == <<month, events, snapshot, pc, op, repeated, stamp, found>>

Deliveries == [kind : {"pull request"}, pr : Prs]
ByHand     == [kind : {"by hand"}, contributor : Contributors, points : Adjustments]
Snapshots  == [kind : {"snapshot"}, period : Periods, pool : Pools]
Reports    == [kind : {"report"}, period : Periods]

NoOperation == [kind |-> "none"]

\* The periods that have a snapshot.
Taken == {p \in Periods : snapshot[p] # NoSnapshot}

RewardsTypeOK ==
    /\ month \in Months
    /\ events \subseteq Posts
    /\ \A p \in Taken :
          /\ snapshot[p].pool \in Nat
          /\ snapshot[p].counted \subseteq Posts
          /\ DOMAIN snapshot[p].cents \subseteq Contributors
          /\ \A c \in DOMAIN snapshot[p].cents : snapshot[p].cents[c] \in Nat
    /\ pc \in [Posts \cup Commands ->
              {"new", "lookup", "insert", "commit", "check", "store", "ended"}]
    /\ \A r \in Posts : op[r] \in Deliveries \cup ByHand \cup {NoOperation}
    /\ \A c \in Commands : op[c] \in Snapshots \cup Reports \cup {NoOperation}
    /\ repeated \subseteq Posts
    /\ stamp \in [Posts -> 0..MaxMonth]
    /\ found \in [Commands -> SUBSET Posts]

RewardsInit ==
    /\ month = 1
    /\ events = {}
    /\ snapshot = [p \in Periods |-> NoSnapshot]
    /\ pc = [a \in Posts \cup Commands |-> "new"]
    /\ op = [a \in Posts \cup Commands |-> NoOperation]
    /\ repeated = {}
    /\ stamp = [r \in Posts |-> 0]
    /\ found = [c \in Commands |-> {}]

-----------------------------------------------------------------------------
(***************************************************************************)
(* The arithmetic of a month                                               *)
(***************************************************************************)
ContributorOf(r) ==
    IF op[r].kind = "pull request" THEN Author[op[r].pr] ELSE op[r].contributor

PointsOf(r) == IF op[r].kind = "pull request" THEN PrPoints ELSE op[r].points

Named(posts) == {ContributorOf(r) : r \in posts}

\* contributor_points: what each contributor named in the events has.
Points(posts) ==
    [c \in Named(posts) |->
        SumFunction([r \in {q \in posts : ContributorOf(q) = c} |-> PointsOf(r)])]

\* int(n / d) drops the fraction of negative shares, too.
Truncated(n, d) == IF n >= 0 THEN n \div d ELSE -((-n) \div d)

Million == 1000000

\* round(n / d); no tie occurs with fewer than 128 points in a month.
Rounded(n, d) == (2 * n + d) \div (2 * d)

\* Mistake: the leftover cents go to the smallest remainders.
SmallestFirst(remainder, c) ==
    {d \in DOMAIN remainder : remainder[d] < remainder[c] \/
                              (remainder[d] = remainder[c] /\ d < c)}

\* Those who come before c when leftover cents are given out.
Before(remainder, c) ==
    {d \in DOMAIN remainder : remainder[d] > remainder[c] \/
                              (remainder[d] = remainder[c] /\ d < c)}

Leftover(pool, whole) == pool - SumFunction(whole)

\* _allocate_pool: everyone gets the whole cents of the share, and the leftover
\* cents go to the largest remainders, one each.
Allocated(pool, points) ==
    LET total == SumFunction(points)
        whole == [c \in DOMAIN points |-> Truncated(pool * points[c], total)]
        remainder == [c \in DOMAIN points |->
            Rounded((pool * points[c] - whole[c] * total) * Million, total)]
    IN IF pool = 0 \/ total <= 0
       THEN [c \in DOMAIN points |-> 0]
       ELSE [c \in DOMAIN points |-> whole[c] +
               IF Cardinality(Before(remainder, c)) < Leftover(pool, whole)
               THEN 1 ELSE 0]

-----------------------------------------------------------------------------
GoTo(a, there) == pc' = [pc EXCEPT ![a] = there]

NextMonth ==
    /\ month < MaxMonth
    /\ month' = month + 1
    /\ UNCHANGED <<events, snapshot, pc, op, repeated, stamp, found>>

-----------------------------------------------------------------------------
(***************************************************************************)
(* Posting an event                                                        *)
(***************************************************************************)
SameReference(o, p) ==
    /\ o.kind = "pull request"
    /\ p.kind = "pull request"
    /\ Author[o.pr] = Author[p.pr]
    /\ Number[o.pr] = Number[p.pr]

\* Mistake: only the events of the month are looked at.
RecordedThisMonth(o) ==
    \E r \in events : SameReference(op[r], o) /\ stamp[r] = month

\* An event of this contributor with this reference is stored, whatever the
\* repository: two pull requests may share it.
Recorded(o) == \E r \in events : SameReference(op[r], o)

\* A delivery whose signature is in order and whose author has a profile.
Deliver(r) ==
    /\ pc[r] = "new"
    /\ \E o \in Deliveries :
          /\ op' = [op EXCEPT ![r] = o]
          /\ repeated' = IF \E s \in events : op[s] = o
                         THEN repeated \cup {r} ELSE repeated
    /\ GoTo(r, "lookup")
    /\ UNCHANGED <<month, events, snapshot, stamp, found>>

LookUp(r) ==
    /\ pc[r] = "lookup"
    /\ GoTo(r, IF Recorded(op[r]) THEN "ended" ELSE "insert")
    /\ UNCHANGED <<month, events, snapshot, op, repeated, stamp, found>>

\* post_event_and_ledger_entries inserts the event and its entries ...
Inserts(r) ==
    /\ stamp' = [stamp EXCEPT ![r] = month]
    /\ GoTo(r, "commit")
    /\ UNCHANGED <<month, events, snapshot, repeated, found>>

Insert(r) ==
    /\ pc[r] = "insert"
    /\ Inserts(r)
    /\ UNCHANGED op

\* An adjustment, for which nothing is looked up.
PostByHand(r) ==
    /\ pc[r] = "new"
    /\ \E o \in ByHand : op' = [op EXCEPT ![r] = o]
    /\ Inserts(r)

\* ... in a transaction that may commit in a later month.
Commit(r) ==
    /\ pc[r] = "commit"
    /\ events' = events \cup {r}
    /\ GoTo(r, "ended")
    /\ UNCHANGED <<month, snapshot, op, repeated, stamp, found>>

-----------------------------------------------------------------------------
(***************************************************************************)
(* The monthly commands                                                    *)
(***************************************************************************)
InPeriod(period) == {r \in events : stamp[r] = MonthOf[period]}

\* rewards_snapshot, calc_monthly_rewards and contrib_rewards_snapshot_month,
\* or rewards_payout --write-snapshot, for any month that has begun: the events
\* of the period by occurred_at, or their entries by created_at.
Read(c) ==
    /\ pc[c] = "new"
    /\ \E o \in Snapshots \cup Reports :
          /\ MonthOf[o.period] <= month
          /\ op' = [op EXCEPT ![c] = o]
          /\ found' = [found EXCEPT ![c] = InPeriod(o.period)]
    /\ GoTo(c, "check")
    /\ UNCHANGED <<month, events, snapshot, repeated, stamp>>

\* A command that ends forgets what it was about.
EndCommand(c) ==
    /\ GoTo(c, "ended")
    /\ op' = [op EXCEPT ![c] = NoOperation]
    /\ found' = [found EXCEPT ![c] = {}]

\* Is there a snapshot of the period already?
Check(c) ==
    /\ pc[c] = "check"
    /\ IF op[c].period \in Taken
       THEN EndCommand(c) ELSE GoTo(c, "store") /\ UNCHANGED <<op, found>>
    /\ UNCHANGED <<month, events, snapshot, repeated, stamp>>

\* The row a command stores: a report has no pool and no payouts.
Computed(c) ==
    IF op[c].kind = "report"
    THEN [pool |-> 0, counted |-> found[c], cents |-> [d \in {} |-> 0]]
    ELSE [pool |-> op[c].pool, counted |-> found[c],
          cents |-> Allocated(op[c].pool, Points(found[c]))]

\* Mistake: no unique period.
AnyPeriod(c) == FALSE

\* The unique period of MonthlyRewardSnapshot.
PeriodTaken(c) == op[c].period \in Taken

\* PositiveIntegerField: PostgreSQL refuses a negative Payout.amount_cents.
SomeNegative(c) ==
    \E d \in DOMAIN Computed(c).cents : Computed(c).cents[d] < 0

\* Snapshot and payouts are stored in one transaction or not at all.
Store(c) ==
    /\ pc[c] = "store"
    /\ snapshot' = IF PeriodTaken(c) \/ SomeNegative(c) THEN snapshot
                   ELSE [snapshot EXCEPT ![op[c].period] = Computed(c)]
    /\ EndCommand(c)
    /\ UNCHANGED <<month, events, repeated, stamp>>

RewardsNext ==
    \/ NextMonth
    \/ \E r \in Posts :
          Deliver(r) \/ LookUp(r) \/ Insert(r) \/ PostByHand(r) \/ Commit(r)
    \/ \E c \in Commands : Read(c) \/ Check(c) \/ Store(c)

RewardsSpec == RewardsInit /\ [][RewardsNext]_rewardVars

-----------------------------------------------------------------------------
(***************************************************************************)
(* Properties                                                              *)
(***************************************************************************)
Paying == {p \in Taken : DOMAIN snapshot[p].cents # {}}

\* Clawbacks have left nobody below zero, and somebody above.
AllAhead(points) ==
    /\ \A c \in DOMAIN points : points[c] >= 0
    /\ \E c \in DOMAIN points : points[c] > 0

\* The payouts of a month add up to its pool, to the cent, when clawbacks left
\* nobody below zero: no cent is lost in rounding and none is made up.
PoolIsShared ==
    \A p \in Paying :
        AllAhead(Points(snapshot[p].counted)) =>
            SumFunction(snapshot[p].cents) = snapshot[p].pool

\* ... and every payout is the exact share to within a cent, and more points of the
\* same month never pay less.
SharesAreFair ==
    \A p \in Paying :
        LET points == Points(snapshot[p].counted)
            total  == SumFunction(points)
            cents  == snapshot[p].cents
        IN AllAhead(points) => \A c, d \in DOMAIN points :
            /\ cents[c] * total - snapshot[p].pool * points[c] \in 1 - total .. total - 1
            /\ points[c] > points[d] => cents[c] >= cents[d]

\* Every row is well formed; what a month pays is its pool, and to everyone the fair share of it: whatever the
\* points, the clawbacks, the remainders and the order of the commands (_allocate_pool).
PoolIsSharedFairly == RewardsTypeOK /\ PoolIsShared /\ SharesAreFair

\* A period's snapshot is stored once and stays as it is, whichever commands run
\* for it at the same time: what was announced is what is paid.  (A month given
\* under two spellings is two periods, each with its snapshot and payouts.)
SnapshotIsFinal == [][\A p \in Taken : snapshot'[p] = snapshot[p]]_rewardVars

\* A pull request delivered again after its event was stored counts once, in
\* whatever month the repetition comes.  (Deliveries that overlap are both
\* counted: nothing unique names the pull request.)
RedeliveryCountsOnce == events \cap repeated = {}

=============================================================================
