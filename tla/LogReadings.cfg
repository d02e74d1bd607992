SPECIFICATION LogSpec
CONSTANTS
    None = None
    gauge = gauge
    SELF_JOB_ID = None
    Jobs <- OneJob
    Order <- ZeroOf
    Kind <- KindOf
    Machine <- KindOf
    alert_after_s <- ZeroOf
    alert_never <- NeverOf
    cadence_s <- ZeroOf
    ISO_S = 1
    MAX_OK_DWELL_S = 1
    DWELL_DIVISOR = 10
    CADENCE_DWELL_SAMPLES = 2
    MAX_CADENCE_DWELL_S = 3
    COOLDOWN_FLOOR_S = 72
    BAD_WINDOW_MULTIPLE = 2
    BAD_SCAN_LIMIT = 2000
    ALERT_RETRY_MIN_S = 1
    Observed = {"OK", "FAIL", "LATE"}
    MaxSeconds = 5
    MaxSteps = 2
INVARIANTS
    NotOkExact
    NotOkCeiling
    NotInvented
    LastNonOkMonotone
