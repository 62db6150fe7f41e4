-------------------------------- MODULE Feed --------------------------------
(***************************************************************************)
(* The following feed of one reader: the timeline rows that posts are      *)
(* fanned out to (apps/feed/services.py) and that a follow or an unfollow  *)
(* rebuilds (services/reco/engine.py), the page composed from them         *)
(* (apps/feed/composer.py) and the cached first page (apps/feed/cache.py). *)
(*                                                                         *)
(* A post and its fan-out are one transaction, in which the author's page  *)
(* is dropped for the first time; rebuilding deletes and inserts in two.   *)
(* The rows carry the time they were written, which orders the feed.       *)
(* Like counts, ranking weights and pages after the first are left out.    *)
(***************************************************************************)
EXTENDS Integers, Sequences, SequencesExt, FiniteSets

CONSTANTS
    Clicks,    \* requests: of the reader, of the author, and views of the feed
    MaxPosts   \* bound on the posts written

ASSUME FeedAssumption == MaxPosts \in Nat

VARIABLES
    posts,      \* sequence of [author, visible]: committed posts, oldest first
    follows,    \* the reader follows the author
    timeline,   \* posts in the reader's timeline, in the order of the rows
    page,       \* the cached first page: [posts, shows], or None
    click,      \* per request: [pc, op, ...]
    during,     \* pairs of requests that were in progress at the same time
    broken      \* requests that ended with an error, or died

feedVars == <<posts, follows, timeline, page, click, during, broken>>

None == [posts |-> <<>>, shows |-> {}, cached |-> FALSE]
Page(seq, shows) == [posts |-> seq, shows |-> shows, cached |-> TRUE]

FeedInit ==
    /\ posts = <<>>
    /\ follows = FALSE
    /\ timeline = <<>>
    /\ page = None
    /\ click = [c \in Clicks |-> [pc |-> "new", op |-> "none"]]
    /\ during = {}
    /\ broken = {}

Pending(c) == click[c].pc \notin {"new", "done"}
Start(c, op, pc, read) ==
    /\ click[c].pc = "new"
    /\ click' = [click EXCEPT ![c] = [pc |-> pc, op |-> op, read |-> read]]
    /\ during' = during \cup {{c, d} : d \in {e \in Clicks : Pending(e)}}
Step(c, here, there, read) ==
    /\ click[c].pc = here
    /\ click' = [click EXCEPT ![c] =
                    [@ EXCEPT !.pc = there, !.read = IF there = "done" THEN <<>> ELSE read]]
    /\ UNCHANGED during
Loaded(c) == click[c].read
\* What the reader has changed, and been answered.
OwnChanges == {c \in Clicks : click[c].pc = "done" /\ click[c].op \in {"post", "follow", "unfollow"}}

-----------------------------------------------------------------------------
(***************************************************************************)
(* A post: PostViewSet.perform_create, handle_post_created, fan_out_post   *)
(***************************************************************************)
\* The serializer's transaction: the row, the followers who are there now, the rows for
\* their timelines, and a first invalidation, for an author who reads before the commit.
Post(c, author, visible) ==
    /\ Start(c, IF author = "reader" THEN "post" ELSE "other", "posting",
             [author |-> author, visible |-> visible,
              fans |-> author = "reader" \/ follows])
    /\ page' = IF author = "reader" THEN None ELSE page
    /\ UNCHANGED <<posts, follows, timeline, broken>>

CommitPost(c) ==
    /\ Len(posts) < MaxPosts
    /\ Step(c, "posting", IF Loaded(c).author = "reader" THEN "written" ELSE "done", Loaded(c))
    /\ posts' = Append(posts, [author |-> Loaded(c).author, visible |-> Loaded(c).visible])
    /\ timeline' = IF Loaded(c).fans THEN Append(timeline, Len(posts) + 1) ELSE timeline
    /\ UNCHANGED <<follows, page, broken>>

-----------------------------------------------------------------------------
(***************************************************************************)
(* follow and unfollow, and rebuild_user_timeline                          *)
(***************************************************************************)
Follow(c, op) ==
    /\ Start(c, op, "rebuilding", <<>>)
    /\ follows' = (op = "follow")
    /\ UNCHANGED <<posts, timeline, page, broken>>

\* rebuild_user_timeline_task, for an account that changes nothing.
Rebuild(c) == Start(c, "rebuild", "rebuilding", <<>>) /\ UNCHANGED <<posts, follows, timeline, page, broken>>

\* select_candidate_posts, newest first: no private posts, and none of the reader's own.
Chosen(p) == follows /\ posts[p].author = "author" /\ posts[p].visible
NewestFirst[n \in 0..Len(posts)] ==
    IF n = 0 THEN <<>> ELSE (IF Chosen(n) THEN <<n>> ELSE <<>>) \o NewestFirst[n - 1]
Candidates == NewestFirst[Len(posts)]

Select(c) ==
    /\ Step(c, "rebuilding", "selected", Candidates)
    /\ UNCHANGED <<posts, follows, timeline, page, broken>>

DeleteRows(c) ==
    /\ Step(c, "selected", "emptied", Loaded(c))
    /\ timeline' = <<>>
    /\ UNCHANGED <<posts, follows, page, broken>>

\* bulk_create: a row that is there by now is an error, and none is inserted.
InsertRows(c) ==
    LET clash == \E p \in ToSet(Loaded(c)) : Contains(timeline, p)
        next == IF click[c].op = "rebuild" THEN "done" ELSE "written"
    IN /\ Step(c, "emptied", IF clash THEN "done" ELSE next, Loaded(c))
       /\ timeline' = IF clash THEN timeline ELSE timeline \o Loaded(c)
       /\ broken' = IF clash THEN broken \cup {c} ELSE broken
       /\ UNCHANGED <<posts, follows, page>>

\* Mistake: only what adds posts drops the page.
DropUnlessLess(c) ==
    /\ Step(c, "written", "done", Loaded(c))
    /\ page' = IF click[c].op = "unfollow" THEN page ELSE None
    /\ UNCHANGED <<posts, follows, timeline, broken>>

\* FeedCache.invalidate_first_page, after everything is committed.
Drop(c) ==
    /\ Step(c, "written", "done", Loaded(c))
    /\ page' = None
    /\ UNCHANGED <<posts, follows, timeline, broken>>

-----------------------------------------------------------------------------
(***************************************************************************)
(* FollowingFeedView.get                                                   *)
(***************************************************************************)
\* Newest row first.
Composed == Reverse(timeline)

View(c) ==
    /\ IF page.cached THEN Start(c, "view", "done", <<>>)
       ELSE Start(c, "view", "composing", <<>>)
    /\ UNCHANGED <<posts, follows, timeline, page, broken>>

Compose(c) ==
    /\ Step(c, "composing", "composed", Page(Composed, OwnChanges))
    /\ UNCHANGED <<posts, follows, timeline, page, broken>>

Keep(c) ==
    /\ Step(c, "composed", "done", Loaded(c))
    /\ page' = Loaded(c)
    /\ UNCHANGED <<posts, follows, timeline, broken>>

\* The page's time in the cache is over.
ExpirePage ==
    /\ page.cached
    /\ page' = None
    /\ UNCHANGED <<posts, follows, timeline, click, during, broken>>

\* A worker dies between two statements.
DieMidway(c) ==
    /\ Pending(c)
    /\ click' = [click EXCEPT ![c] = [@ EXCEPT !.pc = "done", !.read = <<>>]]
    /\ broken' = broken \cup {c}
    /\ UNCHANGED <<posts, follows, timeline, page, during>>

FeedNext ==
    \/ ExpirePage
    \/ \E c \in Clicks :
          \/ \E author \in {"reader", "author"}, visible \in BOOLEAN : Post(c, author, visible)
          \/ \E op \in {"follow", "unfollow"} : Follow(c, op)
          \/ Rebuild(c) \/ CommitPost(c) \/ Select(c) \/ DeleteRows(c) \/ InsertRows(c) \/ Drop(c)
          \/ View(c) \/ Compose(c) \/ Keep(c) \/ DieMidway(c)

-----------------------------------------------------------------------------
\* After requests that neither overlapped nor failed, the timeline has every open post
\* of the author if the reader follows him, and none of him if not.
TimelineFollows ==
    broken = {} /\ (\A c \in Clicks : ~Pending(c))
    /\ (\A pair \in during : \E c \in pair : click[c].op = "view")
        => \A p \in 1..Len(posts) :
               posts[p].author = "author" =>
                   /\ follows /\ posts[p].visible => Contains(timeline, p)
                   /\ ~follows => ~Contains(timeline, p)

\* A cached page lacks a change the reader was told of only if a view was composing
\* the page while the change was made.
StalePageOverlapped ==
    page.cached =>
        \A c \in OwnChanges \ (page.shows \cup broken) :
            \E v \in Clicks : click[v].op = "view" /\ {v, c} \in during

\* What the reader sees lags behind only where requests overlapped.
FeedFollows == TimelineFollows /\ StalePageOverlapped

\* The feed is chronological: newer posts come first.
Chronological ==
    broken = {} /\ (\A c \in Clicks : ~Pending(c)) =>
        \A i, j \in 1..Len(timeline) : i < j => Composed[i] > Composed[j]

=============================================================================
