------------------------------ MODULE Insights ------------------------------
(***************************************************************************)
(* The mentor, matrix and soulmatch cards of a user's feed on one day: the *)
(* cache they are kept in, written by the daily tasks (apps/feed/tasks.py) *)
(* and, with something light, by a request that finds nothing there        *)
(* (feed_insights.py of the three apps), and where apps/feed/composer.py   *)
(* puts them among the posts.                                              *)
(***************************************************************************)
EXTENDS Integers, Sequences, SequencesExt, FiniteSets

CONSTANTS
    Readers,    \* requests for the feed
    Tasks,      \* runs of the daily tasks
    MaxPage     \* bound on the posts of a page

ASSUME InsightsAssumption == MaxPage \in Nat

Cards == {"mentor", "matrix", "soulmatch"}

VARIABLES
    kept,      \* per card: "none", "light" or "computed"
    reader,    \* per request: [pc, posts, card, found, shown]
    task,      \* per task: [pc, card]
    raced,     \* cards a task has set while a request had just missed them
    lost       \* cards whose computed payload a light one has replaced

history == <<raced, lost>>
insightVars == <<kept, reader, task, history>>

InsightInit ==
    /\ kept = [c \in Cards |-> "none"]
    /\ reader = [r \in Readers |-> [pc |-> "new"]]
    /\ task = [t \in Tasks |-> [pc |-> "new"]]
    /\ raced = {}
    /\ lost = {}

\* The order in which _insert_insights asks for the cards.
NextCard == [none |-> "mentor", mentor |-> "matrix", matrix |-> "soulmatch", soulmatch |-> "all"]

Missing(card) == {r \in Readers : reader[r].pc = "missed" /\ reader[r].card = card}

-----------------------------------------------------------------------------
(***************************************************************************)
(* compute_daily_mentor_insight and its like                               *)
(***************************************************************************)
\* Computing is slow; the card is set when it is done.  One that fails sets nothing.
Compute(t, card) ==
    /\ task[t].pc = "new"
    /\ task' = [task EXCEPT ![t] = [pc |-> "computed", card |-> card]]
    /\ UNCHANGED <<kept, reader, history>>

SetComputed(t) ==
    /\ task[t].pc = "computed"
    /\ task' = [task EXCEPT ![t] = [pc |-> "done"]]
    /\ kept' = [kept EXCEPT ![task[t].card] = "computed"]
    /\ raced' = IF Missing(task[t].card) # {} THEN raced \cup {task[t].card} ELSE raced
    /\ UNCHANGED <<reader, lost>>

FailTask(t) ==
    /\ task[t].pc = "computed"
    /\ task' = [task EXCEPT ![t] = [pc |-> "done"]]
    /\ UNCHANGED <<kept, reader, history>>

-----------------------------------------------------------------------------
(***************************************************************************)
(* A page of the feed                                                      *)
(***************************************************************************)
Show(posts, found, at) ==
    LET here(card, n) == IF card \in found /\ at[card] = n THEN <<card>> ELSE <<>>
        After(n) == here("mentor", n) \o here("soulmatch", n) \o here("matrix", n)
        upTo[n \in 0..posts] ==
            IF n = 0 THEN After(0) ELSE Append(upTo[n - 1], "post") \o After(n)
    IN upTo[posts]

Lesser(m, n) == IF m < n THEN m ELSE n

\* Mistake: the insertions before it do not move the index.
WithCardsUnmoved(posts, found) ==
    LET plain == [n \in 1..posts |-> "post"]
        one == IF "mentor" \in found THEN InsertAt(plain, Lesser(2, posts) + 1, "mentor") ELSE plain
        two == IF posts >= 6 /\ "matrix" \in found THEN InsertAt(one, 7, "matrix") ELSE one
    IN IF "soulmatch" \in found THEN InsertAt(two, Lesser(4, Len(two)) + 1, "soulmatch") ELSE two

\* _insert_insights: list.insert at indices that count from 0.
WithCards(posts, found) ==
    LET plain == [n \in 1..posts |-> "post"]
        mentorAt == IF "mentor" \in found THEN Lesser(2, posts) ELSE -1
        one == IF mentorAt >= 0 THEN InsertAt(plain, mentorAt + 1, "mentor") ELSE plain
        matrixFits == posts >= 6 /\ "matrix" \in found
        matrixAt == IF ~matrixFits THEN -1
                    ELSE Lesser(IF mentorAt >= 0 THEN 7 ELSE 6, Len(one))
        two == IF matrixFits THEN InsertAt(one, matrixAt + 1, "matrix") ELSE one
        target == Lesser(4, Len(two))
        moved == IF mentorAt >= 0 /\ mentorAt <= target THEN target + 1 ELSE target
        again == IF matrixAt >= 0 /\ matrixAt <= moved THEN moved + 1 ELSE moved
    IN IF "soulmatch" \in found
       THEN InsertAt(two, Lesser(again, Len(two)) + 1, "soulmatch") ELSE two

\* A page without posts shows what is in the cache, or nothing.
Open(r, posts) ==
    /\ reader[r].pc = "new"
    /\ reader' = [reader EXCEPT ![r] =
         IF posts = 0
         THEN [pc |-> "done", posts |-> 0, card |-> "all", found |-> {c \in Cards : kept[c] # "none"},
               shown |-> WithCards(0, {c \in Cards : kept[c] # "none"})]
         ELSE [pc |-> "asking", posts |-> posts, card |-> "mentor", found |-> {}, shown |-> <<>>]]
    /\ UNCHANGED <<kept, task, history>>

\* The next card is asked for, or the page is put together.
Went(r, found) ==
    LET next == NextCard[reader[r].card]
    IN reader' = [reader EXCEPT ![r] =
                        [@ EXCEPT !.pc = IF next = "all" THEN "done" ELSE "asking",
                                  !.card = next, !.found = found,
                                  !.shown = IF next = "all" THEN WithCards(reader[r].posts, found)
                                            ELSE <<>>]]

\* get_daily_feed_insight: the cached card, or something light that is then cached.
Get(r) ==
    /\ reader[r].pc = "asking"
    /\ LET card == reader[r].card
       IN IF kept[card] # "none" THEN Went(r, reader[r].found \cup {card})
          ELSE reader' = [reader EXCEPT ![r].pc = "missed"]
    /\ UNCHANGED <<kept, task, history>>

SetLight(r) ==
    /\ reader[r].pc = "missed"
    /\ kept' = [kept EXCEPT ![reader[r].card] = "light"]
    /\ lost' = IF kept[reader[r].card] = "computed" THEN lost \cup {reader[r].card} ELSE lost
    /\ Went(r, reader[r].found \cup {reader[r].card})
    /\ UNCHANGED <<task, raced>>

\* An error while a card is made leaves it out.
FailCard(r) ==
    /\ reader[r].pc = "missed"
    /\ Went(r, reader[r].found)
    /\ UNCHANGED <<kept, task, history>>

InsightNext ==
    \/ \E t \in Tasks : SetComputed(t) \/ FailTask(t) \/ \E card \in Cards : Compute(t, card)
    \/ \E r \in Readers :
          Get(r) \/ SetLight(r) \/ FailCard(r) \/ \E posts \in 0..MaxPage : Open(r, posts)

-----------------------------------------------------------------------------
\* Each card is shown once, after as many posts as it should follow or at the end of a
\* shorter page; the matrix card only on a page of six posts, and the posts stay in order.
CardsAreInPlace ==
    \A r \in Readers :
        reader[r].pc = "done" =>
            reader[r].shown =
                Show(reader[r].posts,
                     IF reader[r].posts < 6 THEN reader[r].found \ {"matrix"} ELSE reader[r].found,
                     [mentor |-> Lesser(2, reader[r].posts),
                      soulmatch |-> Lesser(4, reader[r].posts),
                      matrix |-> 6])

\* A computed card is replaced by a light one only by a request that missed it before
\* the task had set it.
ComputedStays == lost \subseteq raced

\* What is shown is in its place, and a task's work is lost to overlapping requests only.
CardsAreRight == CardsAreInPlace /\ ComputedStays

=============================================================================
