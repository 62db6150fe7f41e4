\* Three threads in two processes, two ids a millisecond, a clock set back once; no
\* symmetry, as liveness requires.
SPECIFICATION Spec
CONSTANTS
    t1 = t1
    t2 = t2
    t3 = t3
    api = api
    celery = celery
    Threads = {t1, t2, t3}
    Processes = {api, celery}
    ProcessOf <- TwoProcesses
    Node <- MCNode
    SeqSize = 2
    NodeSize = 2
    NoThread = NoThread
    MaxClock = 2
    MaxSetBacks = 1
    MaxIds = 3
    MaxRestarts = 1
INVARIANTS
    IdsIncrease
PROPERTIES
    CallsReturn
CHECK_DEADLOCK FALSE
