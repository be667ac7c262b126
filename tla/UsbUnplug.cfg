CONSTANTS
    Reports <- TwoReports
    DETECT_LOOKS = 1
    POLL_LOOKS = 1
    WAIT_LIMIT = 2
    SAME_LIMIT = 2
    PROMPT = TRUE
    RETRIES = FALSE
SPECIFICATION FairSpec
PROPERTY KeyboardSetUp
PROPERTY ReportArrives
PROPERTY RemovalNoticed
INVARIANT ChipKeepsUp
PROPERTY HostImplemented
