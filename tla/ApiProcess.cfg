SPECIFICATION Spec
CONSTANTS
    Requests = {r1, r2, r3}
CHECK_DEADLOCK FALSE
INVARIANTS
    LeavesNobodyBehind
PROPERTIES
    WorkerIsBlamedRightly
    ProcessEnds
