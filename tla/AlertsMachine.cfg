SPECIFICATION Spec
CONSTANTS
    gauge = gauge
    mac_probe = mac_probe
    mac_job = mac_job
    scheduler = scheduler
    ingest = ingest
    None = None
    SELF_JOB_ID = None
    Jobs <- Mac
    Order <- MacOrder
    Kind <- MacKind
    Machine <- MacMachine
    alert_after_s <- MacThreshold
    alert_never <- MacNever
    cadence_s <- MacCadence
    ISO_S = 1
    MAX_OK_DWELL_S = 1
    DWELL_DIVISOR = 3
    CADENCE_DWELL_SAMPLES = 2
    MAX_CADENCE_DWELL_S = 1
    COOLDOWN_FLOOR_S = 6
    BAD_WINDOW_MULTIPLE = 2
    BAD_SCAN_LIMIT = 9
    ALERT_RETRY_MIN_S = 1
    Threads = {scheduler}
    SCHEDULER = scheduler
    StepPlans <- Ticks
    Verdicts <- MacVerdicts
    Upgraded = {}
    NotifierEnabled = TRUE
    Faults = {}
    TICK_GAP = 1
    READING_AGE = 1
    MaxClock = 9
    MaxLog = 3
INVARIANTS
    NoSilentOutage
