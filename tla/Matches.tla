------------------------------- MODULE Matches -------------------------------
(***************************************************************************)
(* The list of recommended matches (apps/matching): the web worker that    *)
(* answers the request sends one task for each candidate to the Celery     *)
(* workers and waits, with no limit of time, for all of their results.     *)
(*                                                                         *)
(* The broker acknowledges a task when a worker takes it, so one that dies *)
(* loses it.  The score is data: what counts is whether the pair has one.  *)
(* Ranks and lenses only choose among the candidates that have a score:    *)
(* any choice as large as the limit allows is taken.                       *)
(***************************************************************************)
EXTENDS Integers, FiniteSets

CONSTANTS
    Requests,       \* requests for recommendations, each of a user of its own
    Candidates,     \* the other users
    FullProfiles,       \* those whose profile has a gender and an orientation
    Scorers,        \* Celery workers
    Limit           \* how many candidates an answer shows

ASSUME MatchesAssumption == FullProfiles \subseteq Candidates /\ Limit \in Nat

NoTask == "none"

VARIABLES
    gone,       \* candidates who are inactive or deleted
    hidden,     \* <<request, candidate>>: blocked or muted by the user who asks
    asks,       \* per request: [pc, eligible, shown]
    task,       \* per request and candidate: the state of its task
    scorer,     \* per worker: idle, {}, or the task it runs, {<<request, candidate>>}
    scored      \* <<request, candidate>>: pairs with a SoulMatchResult row

matchVars == <<gone, hidden, asks, task, scorer, scored>>

MatchInit ==
    /\ gone = {}
    /\ hidden = {}
    /\ asks = [r \in Requests |-> [pc |-> "new", eligible |-> {}, shown |-> {}]]
    /\ task = [r \in Requests |-> [c \in Candidates |-> NoTask]]
    /\ scorer = [w \in Scorers |-> {}]
    /\ scored = {}

Leave(c) ==
    /\ c \notin gone
    /\ gone' = gone \cup {c}
    /\ UNCHANGED <<hidden, asks, task, scorer, scored>>

\* Once the candidates are listed, a block changes nothing of the request any more.
Hide(r, c) ==
    /\ asks[r].pc = "new" /\ <<r, c>> \notin hidden
    /\ hidden' = hidden \cup {<<r, c>>}
    /\ UNCHANGED <<gone, asks, task, scorer, scored>>

\* _build_candidate_queryset; for dating, the profiles that are not complete are left out.
Eligible(r, mode) ==
    {c \in Candidates : c \notin gone /\ <<r, c>> \notin hidden
                        /\ (mode = "dating" => c \in FullProfiles)}

\* Without a candidate no task is sent, and the answer is empty.
ListCandidates(r, mode) ==
    /\ asks[r].pc = "new"
    /\ asks' = [asks EXCEPT ![r] =
                  [pc |-> IF Eligible(r, mode) = {} THEN "answered" ELSE "sending",
                   eligible |-> Eligible(r, mode), shown |-> {}]]
    /\ UNCHANGED <<gone, hidden, task, scorer, scored>>

\* group.apply_async: the tasks are sent one after the other.
Unsent(r) == {c \in asks[r].eligible : task[r][c] = NoTask}

Send(r, c) ==
    /\ asks[r].pc = "sending" /\ c \in Unsent(r)
    /\ task' = [task EXCEPT ![r][c] = "queued"]
    /\ asks' = IF Unsent(r) = {c} THEN [asks EXCEPT ![r].pc = "waiting"] ELSE asks
    /\ UNCHANGED <<gone, hidden, scorer, scored>>

\* The broker cannot be reached: the request fails, and what was sent is run all the same.
FailToSend(r) ==
    /\ asks[r].pc = "sending"
    /\ asks' = [asks EXCEPT ![r].pc = "failed"]
    /\ UNCHANGED <<gone, hidden, task, scorer, scored>>

-----------------------------------------------------------------------------
(***************************************************************************)
(* soulmatch_compute_score_task                                            *)
(***************************************************************************)
\* A stored score is the result; a deleted candidate is an error.
Score(w, r, c) ==
    /\ scorer[w] = {} /\ task[r][c] = "queued"
    /\ \/ /\ <<r, c>> \in scored
          /\ task' = [task EXCEPT ![r][c] = "done"]
          /\ UNCHANGED scorer
       \/ /\ <<r, c>> \notin scored /\ c \in gone
          /\ task' = [task EXCEPT ![r][c] = "failed"]
          /\ UNCHANGED scorer
       \/ /\ <<r, c>> \notin scored
          /\ task' = [task EXCEPT ![r][c] = "running"]
          /\ scorer' = [scorer EXCEPT ![w] = {<<r, c>>}]
    /\ UNCHANGED <<gone, hidden, asks, scored>>

\* The row is created, or the one that another task has created is the result.
Keep(w) ==
    /\ \E r \in Requests, c \in Candidates :
          /\ scorer[w] = {<<r, c>>}
          /\ task' = [task EXCEPT ![r][c] = "done"]
          /\ scored' = scored \cup {<<r, c>>}
    /\ scorer' = [scorer EXCEPT ![w] = {}]
    /\ UNCHANGED <<gone, hidden, asks>>

\* The worker dies; the task was acknowledged when it was taken.
DieScoring(w) ==
    /\ \E r \in Requests, c \in Candidates :
          scorer[w] = {<<r, c>>} /\ task' = [task EXCEPT ![r][c] = "lost"]
    /\ scorer' = [scorer EXCEPT ![w] = {}]
    /\ UNCHANGED <<gone, hidden, asks, scored>>

-----------------------------------------------------------------------------
(***************************************************************************)
(* GroupResult.get and the answer                                          *)
(***************************************************************************)
\* Mistake: an error of one task is not seen while the others are waited for.
AllSucceeded(r) == \A c \in asks[r].eligible : task[r][c] = "done"

\* All results are there, or one of them is an error.
Collectable(r) ==
    \/ \A c \in asks[r].eligible : task[r][c] = "done"
    \/ \E c \in asks[r].eligible : task[r][c] = "failed"

\* diversify: the rank and the lens choose, but as many are shown as the limit allows.
Selections(r) ==
    {some \in SUBSET asks[r].eligible :
        /\ Cardinality(some) <= Limit
        /\ some # asks[r].eligible => Cardinality(some) = Limit}

\* An error of one task is the error of the request.
Collect(r) ==
    /\ asks[r].pc = "waiting" /\ Collectable(r)
    /\ \/ /\ \E c \in asks[r].eligible : task[r][c] = "failed"
          /\ asks' = [asks EXCEPT ![r].pc = "failed"]
       \/ /\ \A c \in asks[r].eligible : task[r][c] = "done"
          /\ \E some \in Selections(r) :
                asks' = [asks EXCEPT ![r] = [@ EXCEPT !.pc = "answered", !.shown = some]]
    /\ UNCHANGED <<gone, hidden, task, scorer, scored>>

Scoring == \E w \in Scorers : Keep(w) \/ \E r \in Requests, c \in Candidates : Score(w, r, c)
Answering(r) == Collect(r) \/ \E c \in Candidates : Send(r, c)

MatchNext ==
    \/ \E c \in Candidates : Leave(c)
    \/ \E r \in Requests :
          \/ \E c \in Candidates : Hide(r, c)
          \/ \E mode \in {"compat", "dating"} : ListCandidates(r, mode)
          \/ FailToSend(r) \/ Answering(r)
    \/ Scoring
    \/ \E w \in Scorers : DieScoring(w)

-----------------------------------------------------------------------------
\* A request that waits for its tasks is answered or fails in the end, unless a worker
\* died with one of them: deleted users, errors and requests that have given up do not
\* hold it.
RecommendationsCome ==
    \A r \in Requests :
        asks[r].pc = "waiting" ~>
            \/ asks[r].pc \in {"answered", "failed"}
            \/ \E c \in asks[r].eligible : task[r][c] = "lost"

=============================================================================
