----------------------------- MODULE MCGiftSpend -----------------------------
(***************************************************************************)
(* A small instance of GiftSpend for TLC.                                  *)
(***************************************************************************)
EXTENDS GiftSpend, TLC

CONSTANTS rose, star

MCGifts == {rose, star}
MCCost == rose :> 1 @@ star :> 2

=============================================================================
