CONSTANTS
    Reports <- TwoReports
    DETECT_LOOKS = 1
    POLL_LOOKS = 1
    WAIT_LIMIT = 2
    SAME_LIMIT = 2
    PROMPT = FALSE
    RETRIES = TRUE
SPECIFICATION Spec
INVARIANT TypeOK
INVARIANT AddressBeforeDescriptors
INVARIANT ChipKeepsUp
PROPERTY StepsEndCleanlyOrStuck
