CONSTANTS
    NULL = NULL
    Boards <- OneBackup
    DEADLINE = 1
    FRESH = 2
    MAX_AGE = 2
    DISK_METRIC_MAX_AGE = 2
    DISK_FIRST_READING_GRACE = 1
    PROBE_INTERVAL = 2
    RCLONE_TIMEOUT = 1
    PROBE_FAIL_THRESHOLD = 2
    PROBE_NO_SUCCESS = 2
    INBOX_MAX = 1
    PUSH_SLACK = 1
    EmptyAtFirst = TRUE
    MAX_CHANGES = 1
SPECIFICATION Spec
PROPERTIES
    SkippedPushIsSeen
CHECK_DEADLOCK FALSE
