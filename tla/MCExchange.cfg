SPECIFICATION Spec
CONSTANTS
    a1 = a1
    a2 = a2
    x1 = x1
    x2 = x2
    x3 = x3
    Sends = {m1, m2, m3}
    MaxConnections = 2
    Sockets = {a1, a2}
    UserOf <- OneUser
    Tasks = {x1, x2, x3}
    MaxSends = 3
    People = {x1, x2, x3}
    Calls = {x1, x2, x3}
    MaxThreads = 2
    Gifts = {x1, x2, x3}
    Limit = 2
    Letters = {m, d}
    DirectLetters = {d}
    Recipients = {u}
    MaxTries = 2
    cs = cs
    cb = cb
    ci = ci
    Checkouts = {cs, cb, ci}
    ProviderOf <- Providers
    MaxPayments = 3
    day1 = day1
    day2 = day2
    Questions = {day1, day2}
    Mixes <- KindMixes
    Workers = {w1, w2}
    MaxDeliveries = 2
SYMMETRY Symmetry
INVARIANTS
    OnlyLateOrLostIsMissed
    OneWriter
    ThreadsAreKept
    DeliveredAsPromised
    NotifiedAsAllowed
    CoinsMatchMoney
    RepliesAreInPlace
CHECK_DEADLOCK FALSE
