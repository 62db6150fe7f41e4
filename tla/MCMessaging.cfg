\* Three requests of two members, two messages; no symmetry, as liveness requires.
SPECIFICATION Spec
CONSTANTS
    Members = {ann, ben}
    Uuids = {k1}
    NoUuid = NoUuid
    Requests = {r1, r2, r3}
    NoRequest = NoRequest
    MaxMessages = 2
INVARIANTS
    StoredOncePerUuid
    SendAnswerIsTrue
    ReceiptsAreTrue
PROPERTIES
    EveryRequestEnds
CHECK_DEADLOCK FALSE
