SPECIFICATION Spec
CONSTANTS
    Members = {m, n}
    Asks = {r1, r2, r3}
    MaxAgreements = 2
INVARIANT AcceptedMayTakePart
CHECK_DEADLOCK FALSE
