-------------------------------- MODULE Likes --------------------------------
(***************************************************************************)
(* A post, its likes and its comments (apps/social): each is a row of its  *)
(* own and is counted in the post's row, where the feed reads it.          *)
(*                                                                         *)
(* A like and an unlike write the row and the count in two statements that *)
(* commit one by one; a comment does both in one transaction, and deleting *)
(* it leaves the count.  An edit of the post saves the whole row it loaded *)
(* before, counts included.  The likes of a comment are counted the same   *)
(* way, and no edit of a comment differs from one of a post.               *)
(***************************************************************************)
EXTENDS Integers, FiniteSets

CONSTANTS
    Likers,
    Taps,          \* requests about the post, each once
    MaxComments    \* bound on the comments

ASSUME LikesAssumption == MaxComments \in Nat /\ IsFiniteSet(Likers) /\ IsFiniteSet(Taps)

VARIABLES
    likes,       \* PostLike rows
    remarks,     \* Comment rows
    counts,      \* Post.like_count and comment_count
    tap,         \* per request: [pc, liker, copy]
    remarked,    \* comments made so far
    spoilt       \* an edit saved other counts than the stored ones
                 \* or a request died between a like and its count,
                 \* or a like was taken back before it was counted

likesVars == <<likes, remarks, counts, tap, remarked, spoilt>>

LikesInit ==
    /\ likes = {}
    /\ remarks = 0
    /\ counts = [likes |-> 0, comments |-> 0]
    /\ tap = [t \in Taps |-> [pc |-> "new"]]
    /\ remarked = 0
    /\ spoilt = FALSE

TapAt(t, pc) == tap[t].pc = pc
GoesOn(t, pc) == tap' = [tap EXCEPT ![t].pc = pc]

\* get_object.
LoadPost(t, liker, kind) ==
    /\ TapAt(t, "new")
    /\ tap' = [tap EXCEPT ![t] = [pc |-> kind, liker |-> liker, copy |-> counts]]
    /\ UNCHANGED <<likes, remarks, counts, remarked, spoilt>>

\* PostLike.objects.get_or_create: one row for a user, counted by whoever made it.
Like(t) ==
    /\ TapAt(t, "like")
    /\ likes' = likes \cup {tap[t].liker}
    /\ GoesOn(t, IF tap[t].liker \in likes THEN "done" ELSE "count")
    /\ UNCHANGED <<remarks, counts, remarked, spoilt>>

CountLike(t) ==
    /\ TapAt(t, "count")
    /\ counts' = [counts EXCEPT !.likes = @ + 1]
    /\ GoesOn(t, "done")
    /\ UNCHANGED <<likes, remarks, remarked, spoilt>>

\* Mistake: an unlike is counted whether or not there was a like.
CountedAnyway(t) == TRUE

\* filter(...).delete() tells how many rows there were.
HadLiked(t) == tap[t].liker \in likes

Unlike(t) ==
    /\ TapAt(t, "unlike")
    /\ likes' = likes \ {tap[t].liker}
    /\ GoesOn(t, IF HadLiked(t) THEN "discount" ELSE "done")
    /\ spoilt' = (spoilt \/ \E u \in Taps : TapAt(u, "count") /\ tap[u].liker = tap[t].liker)
    /\ UNCHANGED <<remarks, counts, remarked>>

\* A count of zero stays as it is.
DiscountLike(t) ==
    /\ TapAt(t, "discount")
    /\ counts' = IF counts.likes > 0 THEN [counts EXCEPT !.likes = @ - 1] ELSE counts
    /\ GoesOn(t, "done")
    /\ UNCHANGED <<likes, remarks, remarked, spoilt>>

\* CommentSerializer.create.
Comment(t) ==
    /\ TapAt(t, "comment") /\ remarked < MaxComments
    /\ remarks' = remarks + 1
    /\ counts' = [counts EXCEPT !.comments = @ + 1]
    /\ remarked' = remarked + 1
    /\ GoesOn(t, "done")
    /\ UNCHANGED <<likes, spoilt>>

\* Deleting a comment, with nothing that counts it out.
DeleteComment(t) ==
    /\ TapAt(t, "delete") /\ remarks > 0
    /\ remarks' = remarks - 1
    /\ GoesOn(t, "done")
    /\ UNCHANGED <<likes, counts, remarked, spoilt>>

\* ModelSerializer.update: every column of the post that was loaded.
SavePost(t) ==
    /\ TapAt(t, "edit")
    /\ counts' = tap[t].copy
    /\ spoilt' = (spoilt \/ counts # tap[t].copy)
    /\ GoesOn(t, "done")
    /\ UNCHANGED <<likes, remarks, remarked>>

DieTapping(t) ==
    /\ tap[t].pc \notin {"new", "done"}
    /\ spoilt' = (spoilt \/ tap[t].pc \in {"count", "discount"})
    /\ GoesOn(t, "done")
    /\ UNCHANGED <<likes, remarks, counts, remarked>>

LikesNext ==
    \E t \in Taps :
        \/ Like(t) \/ CountLike(t) \/ Unlike(t) \/ DiscountLike(t)
        \/ Comment(t) \/ DeleteComment(t) \/ SavePost(t) \/ DieTapping(t)
        \/ \E liker \in Likers, kind \in {"like", "unlike", "comment", "delete", "edit"} :
              LoadPost(t, liker, kind)

-----------------------------------------------------------------------------
Uncounted(pc) == Cardinality({t \in Taps : TapAt(t, pc)})

\* At rest the post shows as many likes as it has, in whatever order the requests of
\* several users ran, unless an edit saved old counts, a request died between a like
\* and its count, or a user took a like back before it was counted.
LikesAreCounted ==
    ~spoilt => counts.likes + Uncounted("count") - Uncounted("discount") = Cardinality(likes)

=============================================================================
