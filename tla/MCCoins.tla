------------------------------- MODULE MCCoins -------------------------------
(***************************************************************************)
(* Small instances of what coins and points are given for: products, gifts *)
(* and the rewards of contributors.  A behaviour picks one, as none shares *)
(* state with another, and leaves the others as they are.                  *)
(*                                                                         *)
(* A day of Premium costs one coin and a day of Premium Plus two; so do a  *)
(* rose and a star.  Each contributor has a merged pull request, both of   *)
(* the same number in their repositories; points are given and taken by    *)
(* hand, in the month of the commands and in the next one.                 *)
(***************************************************************************)
EXTENDS Purchase, GiftSpend, RewardPool, TLC

CONSTANTS x1, x2, x3, k1, k2, day, plus, rose, star, pr1, pr2, jan

VARIABLE part

vars == <<part, purchaseVars, giftVars, rewardVars>>

ProductPrice == day :> 1 @@ plus :> 2
ProductDays == day :> 1 @@ plus :> 1
ProductEntitlement == day :> "premium" @@ plus :> "premium_plus"

GiftCost == rose :> 1 @@ star :> 2

PrAuthor == pr1 :> 1 @@ pr2 :> 2
PrNumber == pr1 :> 7 @@ pr2 :> 7
ByHandPoints == {-3, 1}
MonthOfPeriod == jan :> 1

Init ==
    /\ part \in {"purchase", "gifts", "rewards"}
    /\ PurchaseInit /\ GiftInit /\ RewardsInit

Others(name) ==
    /\ part = name /\ UNCHANGED part
    /\ name # "purchase" => UNCHANGED purchaseVars
    /\ name # "gifts"    => UNCHANGED giftVars
    /\ name # "rewards"  => UNCHANGED rewardVars

Next ==
    \/ Others("purchase") /\ PurchaseNext
    \/ Others("gifts")    /\ GiftNext
    \/ Others("rewards")  /\ RewardsNext

Spec == Init /\ [][Next]_vars

\* The values of x stand for requests in two parts and for postings in the third, those
\* of k for the keys of both kinds of requests, and for commands.
Symmetry == Permutations({x1, x2, x3}) \cup Permutations({k1, k2})

=============================================================================
