-------------------------------- MODULE Bank --------------------------------
(***************************************************************************)
(* What the SLC wallet promises its users, with none of its mechanism:     *)
(* coins enter once per captured payment, and then only change hands, each *)
(* time all at once and never beyond what the payer holds.                 *)
(* CoinLedger is shown to implement it.                                    *)
(***************************************************************************)
EXTENDS Integers

CONSTANTS Users,         \* owners of user:<id> accounts
          Payments,      \* captured payments
          PaymentUser,   \* PaymentUser[p]: who paid
          PaymentCents,  \* PaymentCents[p]: how much
          Amounts        \* amounts a request may name

VARIABLES balance,       \* balance[a]: what account a holds
          minted         \* the payments already turned into coins

bankVars == <<balance, minted>>

Revenue == "system:revenue"
Mint    == "system:mint"

BankAccounts == Users \cup {Revenue, Mint}

\* The balances after amount cents moved from account src to account dst.
Moved(src, dst, amount) ==
    [a \in BankAccounts |-> balance[a] + (IF a = dst THEN amount ELSE 0)
                                      - (IF a = src THEN amount ELSE 0)]

BankInit ==
    /\ balance = [a \in BankAccounts |-> 0]
    /\ minted = {}

MintPayment(p) ==
    /\ p \notin minted
    /\ minted' = minted \cup {p}
    /\ balance' = Moved(Mint, PaymentUser[p], PaymentCents[p])

Pay(payer, payee, amount) ==
    /\ payer # payee
    /\ balance[payer] >= amount
    /\ balance' = Moved(payer, payee, amount)
    /\ UNCHANGED minted

BankNext ==
    \/ \E p \in Payments : MintPayment(p)
    \/ \E payer \in Users, payee \in Users \cup {Revenue}, amount \in Amounts :
          Pay(payer, payee, amount)

BankSpec == BankInit /\ [][BankNext]_bankVars

=============================================================================
