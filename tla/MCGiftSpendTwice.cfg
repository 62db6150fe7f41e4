\* One user's request and its repetition.
SPECIFICATION GiftSpec
CONSTANTS
    NoOrder = NoOrder
    rose = rose
    star = star
    Requests = {r1, r2}
    Keys = {k1}
    Users = {ann}
    Targets = {post}
    Gifts <- MCGifts
    Cost <- MCCost
    Seed = 4
INVARIANTS
    NoDoubleSpend
