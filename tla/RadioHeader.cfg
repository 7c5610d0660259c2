SPECIFICATION Spec
CONSTANTS
    Frames = {f1, f2}
    NoFrame = NoFrame
    ValidConfigs = {c1}
    BadConfigs = {bad}
    DefaultConfig = c1
    PartialConfig = partial
    Boards = {"station"}
    PreambleTime = 1
    PayloadTime = 1
    PreambleBound = 1
    HeaderBound = 2
    CadOverruns = FALSE
    MaxFaults = 0
INVARIANT HeaderedFrameNotTrampled
