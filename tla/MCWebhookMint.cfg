\* Two workers, statuses carried by the deliveries (iPay), late settlement; no
\* symmetry, as liveness requires.
SPECIFICATION Spec
CONSTANTS
    Workers = {w1, w2}
    FreshStatus = FALSE
    LateSettlement = TRUE
    MaxCrashes = 2
INVARIANTS
    CoinsMatchPayment
    PaidCheckoutHasCoins
PROPERTIES
    PaidIsMinted
