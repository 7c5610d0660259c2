SPECIFICATION Spec
CONSTANTS
    Frames = {f1}
    NoFrame = NoFrame
    ValidConfigs = {c1}
    BadConfigs = {bad}
    DefaultConfig = c1
    PartialConfig = partial
    Boards = {"station", "v43", "t114"}
    PreambleTime = 1
    PayloadTime = 1
    PreambleBound = 1
    HeaderBound = 2
    CadOverruns = FALSE
    MaxFaults = 1
INVARIANTS
    TypeOK
    RadioPlacement
    PendingFrameVisible
    HandlerAccounting
    NoPartialConfigOnAir
    PersistedStateMatches
