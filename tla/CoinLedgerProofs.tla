-------------------------- MODULE CoinLedgerProofs --------------------------
(***************************************************************************)
(* Proofs about CoinLedger, for any set of users, payments, amounts and    *)
(* concurrent calls.                                                       *)
(*                                                                         *)
(* LedgerInv is inductive together with TypeOK.  The heart of it: a debit  *)
(* is committed only by the holder of the payer's row lock (LockHeld), so  *)
(* what the holder read stays true until its commit (ChecksStillHold).     *)
(***************************************************************************)
EXTENDS CoinLedger, TLAPS

\* What the fields of an operation can be, by its kind.
LEMMA OperationFields ==
    ASSUME NEW o \in Operations
    PROVE  /\ o.payer \in Accounts /\ o.payee \in Accounts
           /\ o.amount \in Nat \ {0}
           /\ o.kind = "mint" => /\ o.payer = Mint
                                 /\ o.key \in Payments
                                 /\ o.payee = PaymentUser[o.key]
                                 /\ o.amount = PaymentCents[o.key]
                                 /\ o.payee \in Users
           /\ o.kind # "mint" => /\ o.payer \in Users
                                 /\ o.payee \in Users \cup {Revenue}
                                 /\ o.amount \in Amounts
                                 /\ o.key = NoPayment
BY LedgerAssumption
   DEF Operations, Transfers, Spends, Mints, Operation, Accounts, SystemAccounts

\* The account of a system operation is not a user's.
LEMMA SystemAccountsApart ==
    /\ Mint \notin Users /\ Revenue \notin Users /\ Mint # Revenue
    /\ Mint \in Accounts /\ Revenue \in Accounts /\ Users \subseteq Accounts
BY LedgerAssumption DEF SystemAccounts, Accounts, Mint, Revenue

LEMMA InitTypeOK == Init => TypeOK
BY DEF Init, TypeOK, Accounts, SystemAccounts, Working

\* Every step keeps the state well formed.
LEMMA NextTypeOK == TypeOK /\ CallsInOrder /\ [Next]_vars => TypeOK'
<1> SUFFICES ASSUME TypeOK, CallsInOrder, [Next]_vars PROVE TypeOK'
  OBVIOUS
<1> USE DEF TypeOK, Working, GoTo, End, Released
<1>1. ASSUME NEW r \in Requests, Begin(r) PROVE TypeOK'
  BY <1>1 DEF Begin
<1>2. ASSUME NEW r \in Requests, LookUp(r) PROVE TypeOK'
  BY <1>2 DEF LookUp
<1>3. ASSUME NEW r \in Requests, CheckPayer(r) PROVE TypeOK'
  BY <1>3 DEF CheckPayer, OpenedAccount
<1>4. ASSUME NEW r \in Requests, CheckPayee(r) PROVE TypeOK'
  BY <1>4 DEF CheckPayee, OpenedAccount
<1>5. ASSUME NEW r \in Requests, AcquireLock(r) PROVE TypeOK'
  BY <1>5 DEF AcquireLock
<1>6. ASSUME NEW r \in Requests, ReadBalance(r) PROVE TypeOK'
  BY <1>6 DEF ReadBalance
<1>7. ASSUME NEW r \in Requests, Validate(r) PROVE TypeOK'
  BY <1>7 DEF Validate
<1>8. ASSUME NEW r \in Requests, Commit(r) PROVE TypeOK'
  <2>1. /\ op[r] \in Operations
        /\ op[r].amount \in Int
        /\ op[r].payer \in Accounts /\ op[r].payee \in Accounts
    BY <1>8, OperationFields DEF CallsInOrder, Commit
  <2>2. balance' \in [Accounts -> Int]
    BY <1>8, <2>1 DEF Commit, Entries
  <2> QED
    BY <1>8, <2>2 DEF Commit
<1>9. ASSUME NEW r \in Requests, Respond(r) PROVE TypeOK'
  BY <1>9 DEF Respond
<1>10. ASSUME NEW r \in Requests, Crash(r) PROVE TypeOK'
  BY <1>10 DEF Crash
<1>11. ASSUME NEW a \in Accounts, Suspend(a) \/ Reinstate(a) PROVE TypeOK'
  BY <1>11 DEF Suspend, Reinstate, SetStatus
<1>12. CASE UNCHANGED vars
  BY <1>12 DEF vars
<1> QED
  BY <1>1, <1>2, <1>3, <1>4, <1>5, <1>6, <1>7, <1>8, <1>9, <1>10, <1>11, <1>12
     DEF Next, Step

-----------------------------------------------------------------------------
LEMMA InitLedgerInv == Init => LedgerInv
BY SystemAccountsApart
   DEF Init, LedgerInv, LockHeld, ChecksStillHold, CallsInOrder, NoOverdraft,
       MintOnce, AnswerMatchesLedger, Locked, NoOperation, Operation, IsMint

\* A step of one call leaves the others' arguments, positions and answers alone.
LEMMA OrderKept == TypeOK /\ LedgerInv /\ [Next]_vars => CallsInOrder'
<1> SUFFICES ASSUME TypeOK, CallsInOrder, [Next]_vars PROVE CallsInOrder'
  BY DEF LedgerInv
<1> USE DEF TypeOK, CallsInOrder, Working, GoTo, End, IsMint
<1>1. ASSUME NEW r \in Requests, Begin(r) PROVE CallsInOrder'
  BY <1>1, OperationFields DEF Begin
<1>2. ASSUME NEW r \in Requests, LookUp(r) PROVE CallsInOrder'
  BY <1>2 DEF LookUp
<1>3. ASSUME NEW r \in Requests, CheckPayer(r) PROVE CallsInOrder'
  BY <1>3 DEF CheckPayer
<1>4. ASSUME NEW r \in Requests, CheckPayee(r) PROVE CallsInOrder'
  BY <1>4 DEF CheckPayee
<1>5. ASSUME NEW r \in Requests, AcquireLock(r) PROVE CallsInOrder'
  BY <1>5 DEF AcquireLock
<1>6. ASSUME NEW r \in Requests, ReadBalance(r) PROVE CallsInOrder'
  BY <1>6 DEF ReadBalance
<1>7. ASSUME NEW r \in Requests, Validate(r) PROVE CallsInOrder'
  BY <1>7 DEF Validate
<1>8. ASSUME NEW r \in Requests, Commit(r) PROVE CallsInOrder'
  BY <1>8 DEF Commit
<1>9. ASSUME NEW r \in Requests, Respond(r) PROVE CallsInOrder'
  BY <1>9 DEF Respond
<1>10. ASSUME NEW r \in Requests, Crash(r) PROVE CallsInOrder'
  BY <1>10 DEF Crash
<1>11. ASSUME NEW a \in Accounts, Suspend(a) \/ Reinstate(a) PROVE CallsInOrder'
  BY <1>11 DEF Suspend, Reinstate, SetStatus
<1>12. CASE UNCHANGED vars
  BY <1>12 DEF vars
<1> QED
  BY <1>1, <1>2, <1>3, <1>4, <1>5, <1>6, <1>7, <1>8, <1>9, <1>10, <1>11, <1>12
     DEF Next, Step

\* The lock is only taken when free and only released by its holder.
LEMMA LockKept == TypeOK /\ LedgerInv /\ [Next]_vars => LockHeld'
<1> SUFFICES ASSUME TypeOK, LockHeld, CallsInOrder, [Next]_vars PROVE LockHeld'
  BY DEF LedgerInv
<1> USE DEF TypeOK, LockHeld, Locked, GoTo, End, IsMint
<1>0. \A s \in Requests : pc[s] # "new" /\ ~IsMint(s) => op[s].payer \in Users
  BY OperationFields DEF CallsInOrder
<1>1. ASSUME NEW r \in Requests, Begin(r) PROVE LockHeld'
  BY <1>1 DEF Begin
<1>2. ASSUME NEW r \in Requests, LookUp(r) PROVE LockHeld'
  BY <1>2 DEF LookUp
<1>3. ASSUME NEW r \in Requests, CheckPayer(r) PROVE LockHeld'
  BY <1>3 DEF CheckPayer
<1>4. ASSUME NEW r \in Requests, CheckPayee(r) PROVE LockHeld'
  BY <1>4 DEF CheckPayee
<1>5. ASSUME NEW r \in Requests, AcquireLock(r) PROVE LockHeld'
  BY <1>0, <1>5, LedgerAssumption DEF AcquireLock
<1>6. ASSUME NEW r \in Requests, ReadBalance(r) PROVE LockHeld'
  BY <1>0, <1>6 DEF ReadBalance, Released
<1>7. ASSUME NEW r \in Requests, Validate(r) PROVE LockHeld'
  BY <1>0, <1>7 DEF Validate, Released
<1>8. ASSUME NEW r \in Requests, Commit(r) PROVE LockHeld'
  BY <1>0, <1>8 DEF Commit, Released
<1>9. ASSUME NEW r \in Requests, Respond(r) PROVE LockHeld'
  BY <1>9 DEF Respond
<1>10. ASSUME NEW r \in Requests, Crash(r) PROVE LockHeld'
  BY <1>0, <1>10 DEF Crash, Released
<1>11. ASSUME NEW a \in Accounts, Suspend(a) \/ Reinstate(a) PROVE LockHeld'
  BY <1>11 DEF Suspend, Reinstate, SetStatus
<1>12. CASE UNCHANGED vars
  BY <1>12 DEF vars
<1> QED
  BY <1>1, <1>2, <1>3, <1>4, <1>5, <1>6, <1>7, <1>8, <1>9, <1>10, <1>11, <1>12
     DEF Next, Step

\* Another call's commit cannot debit an account this call has locked, and an
\* operator cannot suspend it.
LEMMA ChecksKept == TypeOK /\ LedgerInv /\ [Next]_vars => ChecksStillHold'
<1> SUFFICES ASSUME TypeOK, LockHeld, ChecksStillHold, CallsInOrder, [Next]_vars PROVE ChecksStillHold'
  BY DEF LedgerInv
<1> USE DEF TypeOK, ChecksStillHold, HasFunds, GoTo, End, IsMint
<1>0. \A s \in Requests : pc[s] # "new" /\ ~IsMint(s) => op[s].payer \in Users
  BY OperationFields DEF CallsInOrder
<1>1. ASSUME NEW r \in Requests, Begin(r) PROVE ChecksStillHold'
  BY <1>0, <1>1 DEF Begin
<1>2. ASSUME NEW r \in Requests, LookUp(r) PROVE ChecksStillHold'
  BY <1>0, <1>2 DEF LookUp
<1>3. ASSUME NEW r \in Requests, CheckPayer(r) PROVE ChecksStillHold'
  BY <1>0, <1>3, SystemAccountsApart DEF CheckPayer, OpenedAccount
<1>4. ASSUME NEW r \in Requests, CheckPayee(r) PROVE ChecksStillHold'
  BY <1>0, <1>4, SystemAccountsApart DEF CheckPayee, OpenedAccount
<1>5. ASSUME NEW r \in Requests, AcquireLock(r) PROVE ChecksStillHold'
  BY <1>0, <1>5 DEF AcquireLock
<1>6. ASSUME NEW r \in Requests, ReadBalance(r) PROVE ChecksStillHold'
  BY <1>0, <1>6 DEF ReadBalance
<1>7. ASSUME NEW r \in Requests, Validate(r) PROVE ChecksStillHold'
  BY <1>0, <1>7 DEF Validate
<1>8. ASSUME NEW r \in Requests, Commit(r) PROVE ChecksStillHold'
  <2>1. op[r] \in Operations /\ op[r].payer # op[r].payee
    BY <1>8 DEF CallsInOrder, Commit
  <2>2. \A u \in Users \ {op[r].payer} : balance'[u] >= balance[u]
    BY <1>8, <2>1, OperationFields, SystemAccountsApart DEF Commit, Entries
  <2>3. ASSUME NEW s \in Requests, s # r, ~IsMint(s), pc[s] \in {"validate", "commit"}
        PROVE  balance'[op[s].payer] >= balance[op[s].payer]
    <3>1. op[s].payer \in Users /\ lock[op[s].payer] = s
      BY <1>0, <2>3 DEF LockHeld, Locked
    <3>2. op[s].payer # op[r].payer
      <4>1. CASE IsMint(r)
        BY <4>1, <3>1, <2>1, OperationFields, SystemAccountsApart
      <4>2. CASE ~IsMint(r)
        BY <4>2, <3>1, <2>3, <1>8 DEF LockHeld, Locked, Commit
      <4> QED
        BY <4>1, <4>2
    <3> QED
      BY <3>1, <3>2, <2>2
  <2>4. balance' \in [Accounts -> Int]
    BY <1>8, <2>1, OperationFields DEF Commit, Entries
  <2> QED
    BY <1>0, <1>8, <2>3, <2>4, OperationFields, SystemAccountsApart DEF Commit, CallsInOrder
<1>9. ASSUME NEW r \in Requests, Respond(r) PROVE ChecksStillHold'
  BY <1>0, <1>9 DEF Respond
<1>10. ASSUME NEW r \in Requests, Crash(r) PROVE ChecksStillHold'
  BY <1>0, <1>10 DEF Crash
<1>11. ASSUME NEW a \in Accounts, Suspend(a) \/ Reinstate(a) PROVE ChecksStillHold'
  BY <1>0, <1>11, LedgerAssumption, SystemAccountsApart
     DEF Suspend, Reinstate, SetStatus, Unlocked, LockHeld, Locked
<1>12. CASE UNCHANGED vars
  BY <1>12 DEF vars, MintEventExists
<1> QED
  BY <1>1, <1>2, <1>3, <1>4, <1>5, <1>6, <1>7, <1>8, <1>9, <1>10, <1>11, <1>12
     DEF Next, Step

\* A debit leaves at least zero: the funds read under the lock are still there.
LEMMA OverdraftKept == TypeOK /\ LedgerInv /\ [Next]_vars => NoOverdraft'
<1> SUFFICES ASSUME TypeOK, ChecksStillHold, CallsInOrder, NoOverdraft, [Next]_vars PROVE NoOverdraft'
  BY DEF LedgerInv
<1> USE DEF TypeOK, NoOverdraft, GoTo, End
<1>1. ASSUME NEW r \in Requests, Begin(r) PROVE NoOverdraft'
  BY <1>1 DEF Begin
<1>2. ASSUME NEW r \in Requests, LookUp(r) PROVE NoOverdraft'
  BY <1>2 DEF LookUp
<1>3. ASSUME NEW r \in Requests, CheckPayer(r) PROVE NoOverdraft'
  BY <1>3 DEF CheckPayer, OpenedAccount
<1>4. ASSUME NEW r \in Requests, CheckPayee(r) PROVE NoOverdraft'
  BY <1>4 DEF CheckPayee, OpenedAccount
<1>5. ASSUME NEW r \in Requests, AcquireLock(r) PROVE NoOverdraft'
  BY <1>5 DEF AcquireLock
<1>6. ASSUME NEW r \in Requests, ReadBalance(r) PROVE NoOverdraft'
  BY <1>6 DEF ReadBalance
<1>7. ASSUME NEW r \in Requests, Validate(r) PROVE NoOverdraft'
  BY <1>7 DEF Validate
<1>8. ASSUME NEW r \in Requests, Commit(r) PROVE NoOverdraft'
  <2>1. op[r] \in Operations /\ op[r].payer # op[r].payee
    BY <1>8 DEF CallsInOrder, Commit
  <2>2. \A u \in Users \ {op[r].payer} : balance'[u] >= balance[u]
    BY <1>8, <2>1, OperationFields, SystemAccountsApart DEF Commit, Entries
  <2>3. op[r].payer \in Users => balance[op[r].payer] >= op[r].amount
    BY <1>8, <2>1, OperationFields, SystemAccountsApart
       DEF ChecksStillHold, HasFunds, Commit, IsMint
  <2>4. op[r].payer \in Users => balance'[op[r].payer] >= 0
    BY <1>8, <2>1, <2>3, OperationFields, SystemAccountsApart DEF Commit, Entries
  <2>5. balance' \in [Accounts -> Int]
    BY <1>8, <2>1, OperationFields DEF Commit, Entries
  <2> QED
    BY <2>2, <2>4, <2>5, SystemAccountsApart
<1>9. ASSUME NEW r \in Requests, Respond(r) PROVE NoOverdraft'
  BY <1>9 DEF Respond
<1>10. ASSUME NEW r \in Requests, Crash(r) PROVE NoOverdraft'
  BY <1>10 DEF Crash
<1>11. ASSUME NEW a \in Accounts, Suspend(a) \/ Reinstate(a) PROVE NoOverdraft'
  BY <1>11 DEF Suspend, Reinstate, SetStatus
<1>12. CASE UNCHANGED vars
  BY <1>12 DEF vars, MintEventExists
<1> QED
  BY <1>1, <1>2, <1>3, <1>4, <1>5, <1>6, <1>7, <1>8, <1>9, <1>10, <1>11, <1>12
     DEF Next, Step

\* A mint posts only when no event has its key, and keys never change.
LEMMA MintOnceKept == TypeOK /\ LedgerInv /\ [Next]_vars => MintOnce'
<1> SUFFICES ASSUME TypeOK, CallsInOrder, MintOnce, [Next]_vars PROVE MintOnce'
  BY DEF LedgerInv
<1> USE DEF TypeOK, MintOnce, MintEventExists, GoTo, End, IsMint
<1>1. ASSUME NEW r \in Requests, Begin(r) PROVE MintOnce'
  BY <1>1 DEF Begin, CallsInOrder
<1>2. ASSUME NEW r \in Requests, LookUp(r) PROVE MintOnce'
  BY <1>2 DEF LookUp
<1>3. ASSUME NEW r \in Requests, CheckPayer(r) PROVE MintOnce'
  BY <1>3 DEF CheckPayer, OpenedAccount
<1>4. ASSUME NEW r \in Requests, CheckPayee(r) PROVE MintOnce'
  BY <1>4 DEF CheckPayee, OpenedAccount
<1>5. ASSUME NEW r \in Requests, AcquireLock(r) PROVE MintOnce'
  BY <1>5 DEF AcquireLock
<1>6. ASSUME NEW r \in Requests, ReadBalance(r) PROVE MintOnce'
  BY <1>6 DEF ReadBalance
<1>7. ASSUME NEW r \in Requests, Validate(r) PROVE MintOnce'
  BY <1>7 DEF Validate
<1>8. ASSUME NEW r \in Requests, Commit(r) PROVE MintOnce'
  <2>1. op[r] \in Operations
    BY <1>8 DEF CallsInOrder, Commit
  <2>2. \A s \in posted : op[s] \in Operations
    BY DEF CallsInOrder
  <2>3. CASE IsMint(r)
    BY <1>8, <2>3 DEF Commit
  <2>4. CASE ~IsMint(r)
    BY <1>8, <2>1, <2>2, <2>4, OperationFields, LedgerAssumption DEF Commit
  <2> QED
    BY <2>3, <2>4
<1>9. ASSUME NEW r \in Requests, Respond(r) PROVE MintOnce'
  BY <1>9 DEF Respond
<1>10. ASSUME NEW r \in Requests, Crash(r) PROVE MintOnce'
  BY <1>10 DEF Crash
<1>11. ASSUME NEW a \in Accounts, Suspend(a) \/ Reinstate(a) PROVE MintOnce'
  BY <1>11 DEF Suspend, Reinstate, SetStatus
<1>12. CASE UNCHANGED vars
  BY <1>12 DEF vars, MintEventExists
<1> QED
  BY <1>1, <1>2, <1>3, <1>4, <1>5, <1>6, <1>7, <1>8, <1>9, <1>10, <1>11, <1>12
     DEF Next, Step

\* A call answers from what it did itself, and events are never taken back.
LEMMA AnswersKept == TypeOK /\ LedgerInv /\ [Next]_vars => AnswerMatchesLedger'
<1> SUFFICES ASSUME TypeOK, CallsInOrder, AnswerMatchesLedger, [Next]_vars PROVE AnswerMatchesLedger'
  BY DEF LedgerInv
<1> USE DEF TypeOK, AnswerMatchesLedger, MintEventExists, GoTo, End, CallsInOrder, IsMint
<1>1. ASSUME NEW r \in Requests, Begin(r) PROVE AnswerMatchesLedger'
  BY <1>1 DEF Begin
<1>2. ASSUME NEW r \in Requests, LookUp(r) PROVE AnswerMatchesLedger'
  BY <1>2 DEF LookUp
<1>3. ASSUME NEW r \in Requests, CheckPayer(r) PROVE AnswerMatchesLedger'
  BY <1>3 DEF CheckPayer, OpenedAccount
<1>4. ASSUME NEW r \in Requests, CheckPayee(r) PROVE AnswerMatchesLedger'
  BY <1>4 DEF CheckPayee, OpenedAccount
<1>5. ASSUME NEW r \in Requests, AcquireLock(r) PROVE AnswerMatchesLedger'
  BY <1>5 DEF AcquireLock
<1>6. ASSUME NEW r \in Requests, ReadBalance(r) PROVE AnswerMatchesLedger'
  BY <1>6 DEF ReadBalance
<1>7. ASSUME NEW r \in Requests, Validate(r) PROVE AnswerMatchesLedger'
  BY <1>7 DEF Validate
<1>8. ASSUME NEW r \in Requests, Commit(r) PROVE AnswerMatchesLedger'
  <2>1. MintEventExists(op[r].key)' \/ ~IsMint(r)
    BY <1>8 DEF Commit
  <2> QED
    BY <1>8, <2>1 DEF Commit
<1>9. ASSUME NEW r \in Requests, Respond(r) PROVE AnswerMatchesLedger'
  BY <1>9 DEF Respond
<1>10. ASSUME NEW r \in Requests, Crash(r) PROVE AnswerMatchesLedger'
  BY <1>10 DEF Crash
<1>11. ASSUME NEW a \in Accounts, Suspend(a) \/ Reinstate(a) PROVE AnswerMatchesLedger'
  BY <1>11 DEF Suspend, Reinstate, SetStatus
<1>12. CASE UNCHANGED vars
  BY <1>12 DEF vars, MintEventExists
<1> QED
  BY <1>1, <1>2, <1>3, <1>4, <1>5, <1>6, <1>7, <1>8, <1>9, <1>10, <1>11, <1>12
     DEF Next, Step

-----------------------------------------------------------------------------
(***************************************************************************)
(* The theorems                                                            *)
(***************************************************************************)
\* The invariant the others follow from.
THEOREM LedgerInvariant == Spec => [](TypeOK /\ LedgerInv)
<1>1. Init => TypeOK /\ LedgerInv
  BY InitTypeOK, InitLedgerInv
<1>2. TypeOK /\ LedgerInv /\ [Next]_vars => (TypeOK /\ LedgerInv)'
  BY NextTypeOK, OrderKept, LockKept, ChecksKept, OverdraftKept, MintOnceKept,
     AnswersKept DEF LedgerInv
<1> QED
  BY <1>1, <1>2, PTL DEF Spec

\* No user account is ever overdrawn.
THEOREM OverdraftImpossible == Spec => []NoOverdraft
BY LedgerInvariant, PTL DEF LedgerInv

\* A payment becomes coins at most once.
THEOREM MintAtMostOnce == Spec => []MintOnce
BY LedgerInvariant, PTL DEF LedgerInv

\* Coins are made once for each payment and spent at most once.
THEOREM CoinsStayReal == Spec => []CoinsAreReal
BY LedgerInvariant, PTL DEF LedgerInv, CoinsAreReal

\* A caller's answer agrees with what the ledger holds.
THEOREM AnswersAreTrue == Spec => []AnswerMatchesLedger
BY LedgerInvariant, PTL DEF LedgerInv

\* No suspended user pays.
THEOREM SuspendedNeverPays == Spec => PayerActiveAtCommit
<1>1. TypeOK /\ LedgerInv /\ [Next]_vars =>
        [\A r \in posted' \ posted :
            op[r].payer \in Users => status[op[r].payer] = "active"]_vars
  <2> SUFFICES ASSUME TypeOK, LedgerInv, Next, NEW r \in posted', r \notin posted,
                      op[r].payer \in Users
               PROVE  status[op[r].payer] = "active"
    BY DEF vars
  <2>1. r \in Requests /\ Commit(r)
    BY DEF Next, Step, Begin, LookUp, CheckPayer, CheckPayee, AcquireLock,
           ReadBalance, Validate, Commit, Respond, Crash, Suspend, Reinstate,
           SetStatus, TypeOK
  <2>2. ~IsMint(r)
    BY <2>1, OperationFields, SystemAccountsApart
       DEF LedgerInv, CallsInOrder, Commit, IsMint
  <2> QED
    BY <2>1, <2>2 DEF LedgerInv, ChecksStillHold, Commit
<1> QED
  BY <1>1, LedgerInvariant, PTL DEF Spec, PayerActiveAtCommit

\* Every step of the ledger is a step of the bank or invisible to it.
THEOREM LedgerImplementsBank == Spec => ImplementsBank
<1> USE DEF TheBank!Revenue, TheBank!Mint, Revenue, Mint
<1>1. Init => TheBank!BankInit
  BY DEF Init, TheBank!BankInit, TheBank!BankAccounts, Accounts, SystemAccounts,
         MintedPayments
<1>2. ASSUME TypeOK, LedgerInv, [Next]_vars
      PROVE  [TheBank!BankNext]_(TheBank!bankVars)
  <2> USE <1>2
  <2>1. ASSUME NEW r \in Requests, Commit(r), r \notin posted, posted' = posted \cup {r},
               balance' = Entries(op[r]), ~(IsMint(r) /\ MintEventExists(op[r].key))
        PROVE  TheBank!BankNext
    <3>1. op[r] \in Operations /\ op[r].payer # op[r].payee /\ op' = op
      BY <2>1 DEF Commit, LedgerInv, CallsInOrder
    <3>2. MintedPayments' = (MintedPayments \cup {op[r].key}) \ {NoPayment}
      BY <2>1, <3>1 DEF MintedPayments
    <3>3. balance' = TheBank!Moved(op[r].payer, op[r].payee, op[r].amount)
      BY <2>1 DEF Entries, TheBank!Moved, TheBank!BankAccounts, TheBank!Revenue, TheBank!Mint,
                 Accounts, SystemAccounts, Revenue, Mint
    <3>4. CASE IsMint(r)
      <4>1. /\ op[r].key \in Payments
            /\ op[r].payer = Mint
            /\ op[r].payee = PaymentUser[op[r].key]
            /\ op[r].amount = PaymentCents[op[r].key]
        BY <3>1, <3>4, OperationFields DEF IsMint
      <4>2. op[r].key \notin MintedPayments
        BY <2>1, <3>4 DEF MintedPayments, MintEventExists
      <4>3. MintedPayments' = MintedPayments \cup {op[r].key}
        BY <3>2, <4>1, LedgerAssumption DEF MintedPayments
      <4> QED
        BY <3>3, <4>1, <4>2, <4>3 DEF TheBank!BankNext, TheBank!MintPayment
    <3>5. CASE ~IsMint(r)
      <4>1. /\ op[r].payer \in Users
            /\ op[r].payee \in Users \cup {Revenue}
            /\ op[r].amount \in Amounts
            /\ op[r].key = NoPayment
        BY <3>1, <3>5, OperationFields DEF IsMint
      <4>2. balance[op[r].payer] >= op[r].amount
        BY <2>1, <3>5 DEF LedgerInv, ChecksStillHold, HasFunds, Commit
      <4>3. MintedPayments' = MintedPayments
        BY <3>2, <4>1 DEF MintedPayments
      <4> QED
        BY <3>1, <3>3, <4>1, <4>2, <4>3 DEF TheBank!BankNext, TheBank!Pay
    <3> QED
      BY <3>4, <3>5
  <2>2. ASSUME NEW r \in Requests, Commit(r)
        PROVE  TheBank!BankNext \/ (posted' = posted /\ balance' = balance /\ op' = op)
    <3>1. r \notin posted
      BY <2>2 DEF LedgerInv, CallsInOrder, Commit
    <3> QED
      BY <2>1, <2>2, <3>1 DEF Commit
  <2>3. ASSUME NEW r \in Requests, Begin(r)
        PROVE  /\ posted' = posted /\ balance' = balance
               /\ \A s \in posted : op'[s] = op[s]
    BY <2>3 DEF Begin, LedgerInv, CallsInOrder, TypeOK
  <2>4. \/ TheBank!BankNext
        \/ posted' = posted /\ balance' = balance /\ \A s \in posted : op'[s] = op[s]
    BY <2>2, <2>3 DEF Next, Step, LookUp, CheckPayer, CheckPayee, AcquireLock,
       ReadBalance, Validate, Respond, Crash, Suspend, Reinstate, SetStatus, vars
  <2> QED
    BY <2>4 DEF TheBank!bankVars, MintedPayments
<1> QED
  BY <1>1, <1>2, LedgerInvariant, PTL DEF Spec, ImplementsBank, TheBank!BankSpec

=============================================================================
