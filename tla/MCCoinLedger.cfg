\* Three concurrent calls of two users, one payment of two cents.
SPECIFICATION Spec
CONSTANTS
    alice = alice
    bob = bob
    p1 = p1
    Users <- MCUsers
    Payments <- MCPayments
    PaymentUser <- MCPaymentUser
    PaymentCents <- MCPaymentCents
    Amounts = {1, 2}
    Requests = {r1, r2, r3}
    NoRequest = NoRequest
    NoPayment = NoPayment
SYMMETRY CallSymmetry
INVARIANTS
    CoinsAreReal
    AnswerMatchesLedger
PROPERTIES
    PayerActiveAtCommit
    ImplementsBank
