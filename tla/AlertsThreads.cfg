SPECIFICATION Spec
CONSTANTS
    gauge = gauge
    mac_probe = mac_probe
    mac_job = mac_job
    scheduler = scheduler
    ingest = ingest
    None = None
    SELF_JOB_ID = None
    Jobs <- One
    Order <- OneOrder
    Kind <- OneKind
    Machine <- OneMachine
    alert_after_s <- OneThreshold
    alert_never <- OneNever
    cadence_s <- OneCadence
    ISO_S = 2
    MAX_OK_DWELL_S = 2
    DWELL_DIVISOR = 3
    CADENCE_DWELL_SAMPLES = 2
    MAX_CADENCE_DWELL_S = 2
    COOLDOWN_FLOOR_S = 4
    BAD_WINDOW_MULTIPLE = 2
    BAD_SCAN_LIMIT = 9
    ALERT_RETRY_MIN_S = 1
    Threads = {scheduler, ingest}
    SCHEDULER = scheduler
    StepPlans <- Ticks
    Verdicts <- OneVerdicts
    Upgraded = {}
    NotifierEnabled = TRUE
    Faults = {"pass_fails", "restart"}
    TICK_GAP = 1
    READING_AGE = 0
    MaxClock = 8
    MaxLog = 3
INVARIANTS
    PagesCooldownApart
    OnePagePerRank
    OneSenderPerPage
