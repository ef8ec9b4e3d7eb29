SPECIFICATION Spec
CONSTANTS
    Requests <- AllRequests
    Places <- AllPlaces
    Statuses <- SomeStatuses
    MaxCancels = 2
CHECK_DEADLOCK FALSE
INVARIANTS
    TypeOK
    CertainIsHarmless
    RetryableIsHarmless
    OnlyManaged
PROPERTIES
    IsPveCall
    EveryCallEnds
