SPECIFICATION Spec
CONSTANTS
    cs = cs
    cb = cb
    ci = ci
    day1 = day1
    day2 = day2
    Checkouts = {cs, cb, ci}
    ProviderOf <- Providers
    MaxPayments = 2
    Plans = {"basic", "plus", "free"}
    Priced = {"basic", "plus"}
    MaxRequests = 2
    MaxChanges = 2
    InOrder = TRUE
    Questions = {day1, day2}
    Mixes <- KindMixes
    Workers = {w1}
    MaxDeliveries = 1
    Requests = {q1, q2}
    Candidates = {c1, c2}
    FullProfiles = {c1}
    Scorers = {v}
    Limit = 1
PROPERTIES
    SettledIsMinted
    SubscriptionFollows
    ToldIsAnswered
    RecommendationsCome
CHECK_DEADLOCK FALSE
