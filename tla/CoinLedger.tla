----------------------------- MODULE CoinLedger -----------------------------
(***************************************************************************)
(* The SLC coin ledger (apps/coin/services/ledger.py) under concurrent     *)
(* HTTP and Celery workers on PostgreSQL at READ COMMITTED.                *)
(*                                                                         *)
(* Each element of Requests is one call of create_transfer, create_spend   *)
(* or mint_for_payment, from the view that made it to the answer it sends. *)
(* One action is one database statement (or the whole short transaction    *)
(* where nothing can come between), so every interleaving of the           *)
(* statements of different workers is a behaviour.  A statement reads what *)
(* other transactions have committed; a transaction's own rows appear when *)
(* it commits; SELECT ... FOR UPDATE holds the payer's CoinAccount row     *)
(* until the transaction ends.                                             *)
(***************************************************************************)
EXTENDS Integers, FiniteSets

CONSTANTS Users, Payments, PaymentUser, PaymentCents, Amounts,
          Requests,      \* the calls made, each made once
          NoRequest,     \* the holder of a free row lock
          NoPayment      \* the key of an event that is not a mint

Revenue == "system:revenue"
Mint    == "system:mint"

SystemAccounts == {Revenue, Mint}
Accounts == Users \cup SystemAccounts

ASSUME LedgerAssumption ==
    /\ SystemAccounts \cap Users = {}
    /\ Amounts \subseteq Nat \ {0}
    /\ PaymentUser \in [Payments -> Users]
    /\ PaymentCents \in [Payments -> Nat \ {0}]
    /\ NoRequest \notin Requests
    /\ NoPayment \notin Payments

VARIABLES
    status,    \* CoinAccount.status of every account; "absent": no row yet
    balance,   \* the sum of the committed CoinLedgerEntry rows of an account
    posted,    \* the committed CoinEvent rows, named by the call that made them
    lock,      \* who holds the FOR UPDATE lock on a user's CoinAccount row
    pc,        \* where each call stands
    op,        \* what each call was asked to do
    answer     \* what each call answered

vars == <<status, balance, posted, lock, pc, op, answer>>

(***************************************************************************)
(* Operations a caller can ask for                                         *)
(***************************************************************************)
Operation(kind, payer, payee, amount, key) ==
    [kind |-> kind, payer |-> payer, payee |-> payee,
     amount |-> amount, key |-> key]

\* POST /coin/transfer/: the serializer refuses amounts below 1 and oneself.
Transfers ==
    {Operation("transfer", u, v, a, NoPayment) :
        u \in Users, v \in Users, a \in Amounts}

\* POST /coin/spend/, a gift or a purchase: user to system:revenue.
Spends ==
    {Operation("spend", u, Revenue, a, NoPayment) : u \in Users, a \in Amounts}

\* A verified PaymentEvent: system:mint to the paying user.
Mints ==
    {Operation("mint", Mint, PaymentUser[p], PaymentCents[p], p) :
        p \in Payments}

Operations == Transfers \cup Spends \cup Mints

NoOperation == Operation("none", NoPayment, NoPayment, 0, NoPayment)

IsMint(r) == op[r].kind = "mint"

Working == {"lookup", "payer", "payee", "lock", "balance", "validate", "commit",
            "respond"}

\* Inside transaction.atomic() with the payer's row locked.
Locked == {"balance", "validate", "commit"}

TypeOK ==
    /\ status \in [Accounts -> {"absent", "active", "suspended"}]
    /\ balance \in [Accounts -> Int]
    /\ posted \subseteq Requests
    /\ lock \in [Users -> Requests \cup {NoRequest}]
    /\ pc \in [Requests -> Working \cup {"new", "ended"}]
    /\ op \in [Requests -> Operations \cup {NoOperation}]
    /\ answer \in [Requests -> {"none", "ok", "refused", "error", "lost"}]

Init ==
    /\ status \in [Accounts -> {"absent", "active"}]
    /\ \A a \in SystemAccounts : status[a] = "active"
    /\ balance = [a \in Accounts |-> 0]
    /\ posted = {}
    /\ lock = [u \in Users |-> NoRequest]
    /\ pc = [r \in Requests |-> "new"]
    /\ op = [r \in Requests |-> NoOperation]
    /\ answer = [r \in Requests |-> "none"]

-----------------------------------------------------------------------------
(***************************************************************************)
(* Steps of a call                                                         *)
(***************************************************************************)
\* The call goes on to its next statement.
GoTo(r, there) ==
    /\ pc' = [pc EXCEPT ![r] = there]
    /\ UNCHANGED answer

End(r, result) ==
    /\ pc' = [pc EXCEPT ![r] = "ended"]
    /\ answer' = [answer EXCEPT ![r] = result]

\* Mistake: the lock outlives the transaction of r.
NeverReleased(r) == lock

\* The row locks once the transaction of r is over, committed or rolled back.
Released(r) == [u \in Users |-> IF lock[u] = r THEN NoRequest ELSE lock[u]]

\* get_or_create_user_account: makes a missing row, raises unless it is active.
OpenedAccount(a) ==
    /\ status[a] # "suspended"
    /\ status' = [status EXCEPT ![a] = "active"]

\* A call arrives and its arguments are validated.
Begin(r) ==
    /\ pc[r] = "new"
    /\ \E o \in Operations :
          /\ o.payer # o.payee
          /\ op' = [op EXCEPT ![r] = o]
          /\ pc' = [pc EXCEPT ![r] =
                       IF o.kind = "mint" THEN "lookup" ELSE "payer"]
    /\ UNCHANGED <<status, balance, posted, lock, answer>>

\* Mistake: events of calls that have not committed count.
MintEventBegun(p) == \E s \in Requests : op[s].key = p

\* The mint event of this call's payment, if one is committed.
MintEventExists(p) == \E s \in posted : op[s].key = p

\* mint_for_payment looks the idempotency key up first.
LookUp(r) ==
    /\ pc[r] = "lookup"
    /\ IF MintEventExists(op[r].key)
       THEN End(r, "ok")
       ELSE GoTo(r, "payee")
    /\ UNCHANGED <<status, balance, posted, lock, op>>

CheckPayer(r) ==
    /\ pc[r] = "payer"
    /\ \/ /\ OpenedAccount(op[r].payer)
          /\ GoTo(r, IF op[r].kind = "transfer" THEN "payee" ELSE "lock")
       \/ /\ status[op[r].payer] = "suspended"
          /\ End(r, "refused")
          /\ UNCHANGED status
    /\ UNCHANGED <<balance, posted, lock, op>>

CheckPayee(r) ==
    /\ pc[r] = "payee"
    /\ \/ /\ OpenedAccount(op[r].payee)
          /\ GoTo(r, IF IsMint(r) THEN "validate" ELSE "lock")
       \/ /\ status[op[r].payee] = "suspended"
          /\ End(r, "refused")
          /\ UNCHANGED status
    /\ UNCHANGED <<balance, posted, lock, op>>

\* Mistake: the account row is read, not locked.
ReadAccount(r) ==
    /\ pc[r] = "lock"
    /\ GoTo(r, "balance")
    /\ UNCHANGED <<status, balance, posted, lock, op>>

\* select_for_update on the payer's account row; blocks while it is held.
AcquireLock(r) ==
    /\ pc[r] = "lock"
    /\ lock[op[r].payer] = NoRequest
    /\ GoTo(r, "balance")
    /\ lock' = [lock EXCEPT ![op[r].payer] = r]
    /\ UNCHANGED <<status, balance, posted, op>>

HasFunds(r) == balance[op[r].payer] >= op[r].amount

\* get_balance_cents, and insufficient_funds (which rolls back).
ReadBalance(r) ==
    /\ pc[r] = "balance"
    /\ IF HasFunds(r)
       THEN GoTo(r, "validate") /\ UNCHANGED lock
       ELSE End(r, "refused") /\ lock' = Released(r)
    /\ UNCHANGED <<status, balance, posted, op>>

\* Mistake: the status checked before the transaction is trusted.
ValidateAmounts(r) ==
    /\ pc[r] = "validate"
    /\ GoTo(r, "commit")
    /\ UNCHANGED <<status, balance, posted, lock, op>>

\* _validate_entries reads the status of both accounts again.
Validate(r) ==
    /\ pc[r] = "validate"
    /\ IF \A a \in {op[r].payer, op[r].payee} : status[a] = "active"
       THEN GoTo(r, "commit") /\ UNCHANGED lock
       ELSE End(r, "refused") /\ lock' = Released(r)
    /\ UNCHANGED <<status, balance, posted, op>>

\* Mistake: the debit entry is forgotten.
CreditOnly(o) == [balance EXCEPT ![o.payee] = @ + o.amount]

\* The debit and the credit entry of one event.
Entries(o) ==
    [a \in Accounts |-> balance[a] + (IF a = o.payee THEN o.amount ELSE 0)
                                  - (IF a = o.payer THEN o.amount ELSE 0)]

\* The CoinEvent and its two entries are inserted and committed, unless the
\* unique idempotency_key is taken: then the existing event is returned.
Commit(r) ==
    /\ pc[r] = "commit"
    /\ IF IsMint(r) /\ MintEventExists(op[r].key)
       THEN UNCHANGED <<posted, balance>>
       ELSE /\ posted' = posted \cup {r}
            /\ balance' = Entries(op[r])
    /\ IF IsMint(r)
       THEN End(r, "ok")
       ELSE GoTo(r, "respond")
    /\ lock' = Released(r)
    /\ UNCHANGED <<status, op>>

\* The view re-opens the account to show the new balance, outside the try.
Respond(r) ==
    /\ pc[r] = "respond"
    /\ End(r, IF status[op[r].payer] = "suspended" THEN "error" ELSE "ok")
    /\ UNCHANGED <<status, balance, posted, lock, op>>

\* The worker dies or loses its connection: the database rolls back.
Crash(r) ==
    /\ pc[r] \in Working
    /\ End(r, "lost")
    /\ lock' = Released(r)
    /\ UNCHANGED <<status, balance, posted, op>>

-----------------------------------------------------------------------------
(***************************************************************************)
(* Operators change the status of an account by hand (no code path of the  *)
(* application does).  The UPDATE waits for a row lock.                    *)
(***************************************************************************)
Unlocked(a) == a \in Users => lock[a] = NoRequest

SetStatus(a, from, to) ==
    /\ status[a] = from
    /\ Unlocked(a)
    /\ status' = [status EXCEPT ![a] = to]
    /\ UNCHANGED <<balance, posted, lock, pc, op, answer>>

Suspend(a)   == SetStatus(a, "active", "suspended")
Reinstate(a) == SetStatus(a, "suspended", "active")

Step(r) ==
    \/ LookUp(r)
    \/ CheckPayer(r)
    \/ CheckPayee(r)
    \/ AcquireLock(r)
    \/ ReadBalance(r)
    \/ Validate(r)
    \/ Commit(r)
    \/ Respond(r)

Next ==
    \/ \E r \in Requests : Begin(r) \/ Step(r) \/ Crash(r)
    \/ \E a \in Accounts : Suspend(a) \/ Reinstate(a)

Spec == Init /\ [][Next]_vars

-----------------------------------------------------------------------------
(***************************************************************************)
(* Properties                                                              *)
(***************************************************************************)
\* No user account is ever overdrawn, however many transfers and spends of one
\* payer overlap: the balance is read and the debit committed under one lock.
NoOverdraft == \A u \in Users : balance[u] >= 0

\* A payment is turned into coins at most once, however often and however
\* concurrently mint_for_payment runs for it.
MintOnce ==
    \A r, s \in posted : IsMint(r) /\ op[s].key = op[r].key => r = s

\* Coins come from payments, once from each, and nobody spends coins that are not there.
CoinsAreReal == NoOverdraft /\ MintOnce

\* What a caller is told agrees with the ledger: a refused call moved nothing,
\* a successful transfer or spend is posted, a successful mint has its event,
\* and a call that ended in an error after its commit did move the coins.
AnswerMatchesLedger ==
    \A r \in Requests :
        /\ answer[r] = "refused" => r \notin posted
        /\ answer[r] \in {"ok", "error"} /\ ~IsMint(r) => r \in posted
        /\ answer[r] = "ok" /\ IsMint(r) =>
              \E s \in posted : op[s].key = op[r].key

\* No coins leave a user account that is suspended at the moment of the commit:
\* the lock taken before the second status check keeps the operator out.
PayerActiveAtCommit ==
    [][\A r \in posted' \ posted :
          op[r].payer \in Users => status[op[r].payer] = "active"]_vars

\* The ledger implements the bank: every step is one all-or-nothing move of
\* coins or changes nothing a user can see.
MintedPayments == {op[r].key : r \in posted} \ {NoPayment}

TheBank == INSTANCE Bank WITH minted <- MintedPayments

ImplementsBank == TheBank!BankSpec

-----------------------------------------------------------------------------
(***************************************************************************)
(* Why the safety properties hold: the invariant their proof is built on.  *)
(***************************************************************************)
\* A call that moves a user's coins holds that user's row lock from the balance
\* check to the commit.
LockHeld ==
    \A r \in Requests :
        pc[r] \in Locked /\ ~IsMint(r) => lock[op[r].payer] = r

\* What the balance check and the second status check found stays true until
\* the commit: debits and suspensions of the payer wait for the lock.
ChecksStillHold ==
    \A r \in Requests : ~IsMint(r) =>
        /\ pc[r] \in {"validate", "commit"} => HasFunds(r)
        /\ pc[r] = "commit" => status[op[r].payer] = "active"

\* A call has its arguments once begun, posts last, and answers when it ends.
CallsInOrder ==
    \A r \in Requests :
        /\ pc[r] # "new" => op[r] \in Operations /\ op[r].payer # op[r].payee
        /\ r \in posted => pc[r] \in {"respond", "ended"}
        /\ pc[r] = "respond" => r \in posted /\ ~IsMint(r)
        /\ pc[r] \in {"payer", "lock", "balance"} => ~IsMint(r)
        /\ pc[r] = "lookup" => IsMint(r)
        /\ pc[r] # "ended" => answer[r] = "none"

LedgerInv ==
    /\ LockHeld
    /\ ChecksStillHold
    /\ CallsInOrder
    /\ NoOverdraft
    /\ MintOnce
    /\ AnswerMatchesLedger

=============================================================================
