----------------------------- MODULE Astrology ------------------------------
(***************************************************************************)
(* Natal charts (apps/astro) and soulmatch scores (apps/matching): what is *)
(* computed from a user's birth data, and the rows and cache entries that  *)
(* keep a computation from being done again.                               *)
(*                                                                         *)
(* A chart row belongs to a user and is overwritten; the results and the   *)
(* chart cache are keyed by the birth data, and the cache holds the id of  *)
(* the row, not the chart.  A score is keyed by the pair of users, in no   *)
(* order, and is never written again.  Positions of planets, houses and    *)
(* the weights of a score are data: a chart is the birth data it is of, a  *)
(* score the charts it is of and the user it is about.  The profile, which *)
(* scores read as well, is left out.  The payload cache of get_cached_or_  *)
(* compute only repeats the rows that are read beside it.                  *)
(***************************************************************************)
EXTENDS Integers, FiniteSets

CONSTANTS
    Owners,    \* users, two for a score
    Births,    \* birth data: dates, times and places
    Jobs       \* requests and tasks

NoBirth == "none"
NoScore == {}

VARIABLES
    birth,      \* BirthData of each user
    chart,      \* NatalChart of each user: the birth data it was computed from
    results,    \* the birth data that AstrologyResult has
    cached,     \* the chart cache: per birth data the owner of the row, {} if none
    score,      \* SoulMatchResult of the pair: {} or one score
    job,        \* per job: [pc, owner, born, got]
    repeated,   \* users who gave birth data that somebody had given before
    mingled,    \* jobs on charts have overlapped
    failed      \* jobs have failed

astrologyVars == <<birth, chart, results, cached, score, job, repeated, mingled, failed>>
Charts == <<birth, chart, results, cached>>
History == <<repeated, mingled, failed>>

AstrologyInit ==
    /\ birth = [u \in Owners |-> NoBirth]
    /\ chart = [u \in Owners |-> NoBirth]
    /\ results = {}
    /\ cached = [b \in Births |-> {}]
    /\ score = NoScore
    /\ job = [j \in Jobs |-> [pc |-> "new"]]
    /\ repeated = {}
    /\ mingled = FALSE
    /\ failed = FALSE

Charting == {"queued", "looking", "calculating", "recording"}
OnChart(j) == job[j].pc \in Charting
JobAt(j, here) == job[j].pc = here
To(j, there) == job' = [job EXCEPT ![j].pc = there]
JobEnds(j, got) == job' = [job EXCEPT ![j] = [@ EXCEPT !.pc = "done", !.got = got]]

-----------------------------------------------------------------------------
(***************************************************************************)
(* NatalChartView.post and astrology_compute_birth_chart_task              *)
(***************************************************************************)
\* update_or_create: one row for a user, from the profile or from what was sent.
GiveBirth(u, b) == [birth EXCEPT ![u] = b]

\* The birth data are saved first.  A task loads them again.
Submit(j, u, b, pc) ==
    /\ JobAt(j, "new")
    /\ birth' = GiveBirth(u, b)
    /\ job' = [job EXCEPT ![j] = [pc |-> pc, owner |-> u, born |-> b, got |-> {}]]
    /\ repeated' = IF b \in results \/ \E k \in Jobs : job[k].pc # "new" /\ job[k].born = b
                   THEN repeated \cup {u} ELSE repeated
    /\ mingled' = (mingled \/ \E k \in Jobs : OnChart(k))
    /\ UNCHANGED <<chart, results, cached, score, failed>>

Take(j) ==
    /\ JobAt(j, "queued")
    /\ job' = [job EXCEPT ![j] =
                  [@ EXCEPT !.pc = "looking", !.born = birth[job[j].owner]]]
    /\ UNCHANGED <<Charts, score, History>>

\* get_cached_or_compute: a result for these birth data, and a chart of the user.
Known(j) == job[j].born \in results /\ chart[job[j].owner] # NoBirth

Look(j) ==
    /\ JobAt(j, "looking")
    /\ IF Known(j) THEN JobEnds(j, {chart[job[j].owner]}) ELSE To(j, "calculating")
    /\ UNCHANGED <<Charts, score, History>>

\* calculate_natal_chart, one transaction: the row whose id is cached, whatever it holds
\* and whoever has it, or the chart of these birth data in the user's own row.
Calculate(j) ==
    /\ JobAt(j, "calculating")
    /\ LET u == job[j].owner
           b == job[j].born
       IN IF cached[b] # {}
          THEN /\ \E v \in cached[b] :
                     job' = [job EXCEPT ![j] =
                                  [@ EXCEPT !.pc = "recording", !.got = {chart[v]}]]
               /\ UNCHANGED <<chart, results, cached>>
          ELSE /\ chart' = [chart EXCEPT ![u] = b]
               /\ results' = results \cup {b}
               /\ cached' = [cached EXCEPT ![b] = {u}]
               /\ job' = [job EXCEPT ![j] = [@ EXCEPT !.pc = "recording", !.got = {b}]]
    /\ UNCHANGED <<birth, score, History>>

\* AstrologyResult.create, or the one that is there already.
Record(j) ==
    /\ JobAt(j, "recording")
    /\ results' = results \cup {job[j].born}
    /\ To(j, "done")
    /\ UNCHANGED <<birth, chart, cached, score, History>>

\* The cache entry runs out.
ExpireChart(b) ==
    /\ cached[b] # {}
    /\ cached' = [cached EXCEPT ![b] = {}]
    /\ UNCHANGED <<birth, chart, results, score, job, History>>

\* A place that cannot be resolved, an error of the ephemeris, a worker that dies.
Fail(j) ==
    /\ OnChart(j)
    /\ To(j, "failed")
    /\ failed' = TRUE
    /\ UNCHANGED <<Charts, score, repeated, mingled>>

-----------------------------------------------------------------------------
(***************************************************************************)
(* soulmatch_compute_score_task and SoulmatchWithView                      *)
(***************************************************************************)
ScoreOf(target) == [about |-> target, of |-> chart]

\* A stored score of the pair, whichever of them asked for it; otherwise it is computed.
AskScore(j, target) ==
    /\ JobAt(j, "new")
    /\ job' = [job EXCEPT ![j] =
                 IF score # NoScore
                 THEN [pc |-> "scored", owner |-> target, born |-> NoBirth, got |-> score]
                 ELSE [pc |-> "storing", owner |-> target, born |-> NoBirth, got |-> {ScoreOf(target)}]]
    /\ UNCHANGED <<Charts, score, History>>

\* Mistake: the loser of the unique key answers with what it has computed.
StoreOrIgnore(j) ==
    /\ JobAt(j, "storing")
    /\ score' = IF score = NoScore THEN job[j].got ELSE score
    /\ To(j, "scored")
    /\ UNCHANGED <<Charts, History>>

\* The pair and the version of the rules are unique: the loser answers with the winner's.
StoreScore(j) ==
    /\ JobAt(j, "storing")
    /\ score' = IF score = NoScore THEN job[j].got ELSE score
    /\ job' = [job EXCEPT ![j] = [@ EXCEPT !.pc = "scored", !.got = score']]
    /\ UNCHANGED <<Charts, History>>

\* Without a task the score is computed and not stored.
ScoreNow(j, target) ==
    /\ JobAt(j, "new")
    /\ job' = [job EXCEPT ![j] = [pc |-> "shown", owner |-> target, born |-> NoBirth,
                                  got |-> {ScoreOf(target)}]]
    /\ UNCHANGED <<Charts, score, History>>

AstrologyNext ==
    \/ \E b \in Births : ExpireChart(b)
    \/ \E j \in Jobs :
          \/ \E u \in Owners, b \in Births, pc \in {"looking", "queued"} : Submit(j, u, b, pc)
          \/ Take(j) \/ Look(j) \/ Calculate(j) \/ Record(j) \/ Fail(j) \/ StoreScore(j)
          \/ \E u \in Owners : AskScore(j, u) \/ ScoreNow(j, u)

-----------------------------------------------------------------------------
Settled == ~mingled /\ ~failed /\ \A j \in Jobs : ~OnChart(j)
Current(u) == birth[u] # NoBirth => chart[u] = birth[u]

\* One request after the other, the chart of a user is that of his latest birth data,
\* as long as nobody has given the same birth data before.
NewBirthHasItsChart == Settled /\ repeated = {} => \A u \in Owners : Current(u)

\* All tasks that score a pair answer the same, in both directions and when they overlap.
ScoresAgree ==
    \A j, k \in Jobs : JobAt(j, "scored") /\ JobAt(k, "scored") => job[j].got = job[k].got

\* What is remembered is right: charts of new birth data, and one score for a pair.
RememberedIsRight == NewBirthHasItsChart /\ ScoresAgree

\* A chart is determined by the birth data: one request after the other, every user has
\* the chart of his latest birth data.
ChartFollowsBirth == Settled => \A u \in Owners : Current(u)

=============================================================================
