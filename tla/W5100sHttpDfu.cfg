SPECIFICATION Spec
CONSTANTS
    Values = {v0, v1}
    Factory = v0
    Chunks = 2
    READ_TIMEOUT = 1
    REQUEST_DEADLINE = 2
    RESPONSE_DEADLINE = 2
    COMMAND_DEADLINE = 1
    TRANSITION_DELAY = 1
    REBOOT_FALLBACK_DELAY = 3
PROPERTY
    DfuAnswerKept
