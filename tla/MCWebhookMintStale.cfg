\* BTCPay: the invoice settles while a worker holds the old status.
SPECIFICATION Spec
CONSTANTS
    Workers = {w1, w2}
    FreshStatus = TRUE
    LateSettlement = TRUE
    MaxCrashes = 0
INVARIANTS
    MintedPaymentIsMinted
