CONSTANTS
    older = older
    newer = newer
    Order <- TwoNotes
    NULL = NULL
    Answers <- OneSlow
    DRAFT_MAX_ATTEMPTS = 3
    LIMIT = 2
    BREAKER_FAILURES = 2
    BREAKER_MAX_TRIPS = 3
    HTTP_RETRIES = 1
    MAX_BODIES <- TwoBodies
    MAX_PATCHES = 1
    MAX_FAULTS = 1
SPECIFICATION Spec
INVARIANTS
    TypeOK
PROPERTIES
    HandsOff
    TickCopiesTheDraft
    QueueDrains
CHECK_DEADLOCK FALSE
