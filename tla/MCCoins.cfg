\* Three purchases of one user under two keys, three gifts of two users under two keys;
\* three postings and two commands across the end of a month, a pool of three cents.
SPECIFICATION Spec
CONSTANTS
    x1 = x1
    x2 = x2
    x3 = x3
    k1 = k1
    k2 = k2
    day = day
    plus = plus
    rose = rose
    star = star
    pr1 = pr1
    pr2 = pr2
    jan = jan
    Purchases = {x1, x2, x3}
    NoRequest = NoRequest
    PurchaseKeys = {k1, k2}
    Products = {day, plus}
    Price <- ProductPrice
    DurationDays <- ProductDays
    EntitlementOf <- ProductEntitlement
    Quantities = {1, 2}
    Savings = 4
    MaxDay = 2
    Requests = {x1, x2, x3}
    Keys = {k1, k2}
    Users = {ann, ben}
    Targets = {post}
    Gifts = {rose, star}
    Cost <- GiftCost
    Seed = 3
    NoOrder = NoOrder
    Contributors = {1, 2}
    Prs = {pr1, pr2}
    Author <- PrAuthor
    Number <- PrNumber
    Periods = {jan}
    MonthOf <- MonthOfPeriod
    PrPoints = 2
    Adjustments <- ByHandPoints
    Posts = {x1, x2, x3}
    Commands = {k1, k2}
    Pools = {3}
    NoSnapshot = NoSnapshot
    MaxMonth = 2
SYMMETRY Symmetry
INVARIANTS
    ChargesAreTrue
    DaysFollowCharges
    GiftsAreReal
    AnswerMatchesGift
    PoolIsSharedFairly
    RedeliveryCountsOnce
PROPERTIES
    SnapshotIsFinal
CHECK_DEADLOCK FALSE
