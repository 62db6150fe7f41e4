SPECIFICATION Spec
CONSTANTS
    x1 = x1
    x2 = x2
    x3 = x3
    z1 = z1
    z2 = z2
    Emails = {"a"}
    Handles = {"h1"}
    Values = {1, 2}
    Requests = {x1, x2, x3}
    Members = {z1, z2}
    Asks = {x1, x2, x3}
    MaxAgreements = 2
    Clicks = {x1, x2, x3}
    MaxPosts = 2
    Readers = {z1, z2}
    Tasks = {t1}
    MaxPage = 7
    Postings = {z1, z2}
    Commands = {x1, x2, x3}
    Owners = {z1, z2}
    Births = {"b1", "b2"}
    Jobs = {x1, x2, x3}
    Likers = {z1, z2}
    Taps = {x1, x2, x3, x4}
    MaxComments = 2
    AuditEvents = {x1, x2, x3}
    Items = {u, p}
    PostItems = {p}
    Indexers = {z1, z2}
    MaxWrites = 4
SYMMETRY Symmetry
INVARIANTS
    DriftOnlyByOverlap
    PartFollowsConsent
    FeedFollows
    CardsAreRight
    SnapshotIsComplete
    RememberedIsRight
    LikesAreCounted
    ChainForksOnlyByOverlap
    SearchMatchesRows
CHECK_DEADLOCK FALSE
