---------------------------- MODULE MCCoinLedger ----------------------------
(***************************************************************************)
(* Small instances of CoinLedger for TLC.                                  *)
(***************************************************************************)
EXTENDS CoinLedger, TLC

CONSTANTS alice, bob, p1

MCUsers == {alice, bob}
MCPayments == {p1}
MCPaymentUser == [p \in MCPayments |-> alice]
MCPaymentCents == [p \in MCPayments |-> 2]

\* Calls are interchangeable: no action or property tells one from another.
CallSymmetry == Permutations(Requests)

=============================================================================
