------------------------------ MODULE MCPurchase ------------------------------
(***************************************************************************)
(* A small instance of Purchase for TLC: a day of Premium for one coin, a  *)
(* day of Premium Plus for two.                                            *)
(***************************************************************************)
EXTENDS Purchase, TLC

CONSTANTS month, plus

MCProducts == {month, plus}
MCPrice == month :> 1 @@ plus :> 2
MCDurationDays == month :> 1 @@ plus :> 1
MCEntitlementOf == month :> "premium" @@ plus :> "premium_plus"

=============================================================================
