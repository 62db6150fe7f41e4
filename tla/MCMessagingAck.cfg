\* A message, an ack and a read mark.
SPECIFICATION Spec
CONSTANTS
    Members = {ann, ben}
    Uuids = {k1}
    NoUuid = NoUuid
    Requests = {r1, r2, r3}
    NoRequest = NoRequest
    MaxMessages = 1
PROPERTIES
    StatusForwardOnly
CHECK_DEADLOCK FALSE
