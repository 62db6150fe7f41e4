------------------------------- MODULE MCPeople -------------------------------
(***************************************************************************)
(* Small instances of the components about users, groups and what they     *)
(* see, none of which shares state with another: a behaviour picks one of  *)
(* them and leaves the others as they are.                                 *)
(***************************************************************************)
EXTENDS Accounts, Community, Feed, Insights, Snapshot, Astrology, Likes, Audit, Search, TLC

CONSTANTS x1, x2, x3, z1, z2

VARIABLE part

vars == <<part, accountVars, communityVars, feedVars, insightVars, snapshotVars,
          astrologyVars, likesVars, auditVars, searchVars>>

Parts == {"accounts", "community", "feed", "insights", "snapshot", "astrology",
          "likes", "audit", "search"}

Init ==
    /\ part \in Parts
    /\ AccountsInit /\ CommunityInit /\ FeedInit /\ InsightInit /\ SnapshotInit
    /\ AstrologyInit /\ LikesInit /\ AuditInit /\ SearchInit

Others(name) ==
    /\ part = name /\ UNCHANGED part
    /\ name # "accounts"  => UNCHANGED accountVars
    /\ name # "community" => UNCHANGED communityVars
    /\ name # "feed"      => UNCHANGED feedVars
    /\ name # "insights"  => UNCHANGED insightVars
    /\ name # "snapshot"  => UNCHANGED snapshotVars
    /\ name # "astrology" => UNCHANGED astrologyVars
    /\ name # "likes"     => UNCHANGED likesVars
    /\ name # "audit"     => UNCHANGED auditVars
    /\ name # "search"    => UNCHANGED searchVars

Next ==
    \/ Others("accounts")  /\ AccountsNext
    \/ Others("community") /\ CommunityNext
    \/ Others("feed")      /\ FeedNext
    \/ Others("insights")  /\ InsightNext
    \/ Others("snapshot")  /\ SnapshotNext
    \/ Others("astrology") /\ AstrologyNext
    \/ Others("likes")     /\ LikesNext
    \/ Others("audit")     /\ AuditNext
    \/ Others("search")    /\ SearchNext

Spec == Init /\ [][Next]_vars

Symmetry == Permutations({x1, x2, x3}) \cup Permutations({z1, z2})

=============================================================================
