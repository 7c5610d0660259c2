SPECIFICATION NetworkSpec
CONSTANTS
    \* ConfigStore
    Configs = {c1, c2}
    Empty = Empty
    NoRecord = NoRecord
    HalfRange = 2
    \* W5100sTcp
    FrameChunks = 2
    RequiredToken = TRUE
    \* WifiRecovery
    Ips = {a, b}
    NoIp = none
    Token = TRUE
    MaxCallbacks = 1
    MaxSessions = 1
    \* Esp32Config
    MaxNamed = 2
    \* Sensors
    CONVERSION = 1
    CONVERSION_TIMEOUT = 1
    SAMPLE_INTERVAL = 2
    MAX_SAMPLE_AGE = 4
    REPROBE_INTERVAL = 3
    MAX_CONSECUTIVE_FAILURES = 3
    Volts = {0, 1, 2}
    TEMPERATURE_AGE = 3
    SAMPLES = 3
    MIN_SAMPLES = 2
    ADC_COUNTS = 4
    MV_NUMERATOR = 7
    MV_DENOMINATOR = 1
    MIN_MV = 1
    MAX_MV = 4
    MILLIVOLTS_UNAVAILABLE = 9
    LINE_LENGTH = 2
    MAX_IN_VIEW = 5
    CONFIG_COMMANDS = 2
    \* Parsers
    Radix = 3
    PayloadCapacity = 3
    MAX_REQUEST_LINE_BYTES = 1
    MAX_HEADER_BYTES = 9
    MAX_HEADER_COUNT = 2
    MAX_BODY_BYTES = 2
    \* Ethernet
    EthernetLeases = 2
    \* Panel
    PRG_DEBOUNCE = 1
    OLED_WAKE_DURATION = 3
    SCREEN_AUTO_CYCLE = 2
    REDRAW = 1
    PanelWrap = 10
    \* AgcSchedule
    RECENT_PACKET_GUARD = 1
    STATION_POST_TX_QUIET = 2
    Intervals = {0, 2}
    AgcWrap = 6
    \* Decoders
    MAX_FORM_FIELDS = 2
    MAX_FORM_KEY_BYTES = 1
    MAX_FORM_VALUE_BYTES = 2
    MAX_ROUTE_BYTES = 6
    MAX_QUERY_BYTES = 2
    DecoderLength = 4
    \* RakSettings
    AddressBits = 4
    SampleAddresses = {{}, {0, 2}, {1, 2}, {0, 1, 2}, {0, 1, 2, 3}}
    SampleMasks = {{1, 3}, {2, 3}}
    ReservedAddresses = {{}, {0}, {1, 2, 3}, {0, 1, 2, 3}}
    TextLength = 4
    HostnameLength = 3
    RakChanges = 2
INVARIANTS
    NetworkTypeOK
    GenerationsAdjacent
    SessionStateIsItsOwn
    StaleSessionDropped
    WholeFramesOnWire
    RefusedClientCloses
    StaticAddressComplete
    KeepsAWorkingImage
    TelemetryHonest
    ParsersStayInBounds
    StoredConfigBoots
    FormsFaithful
PROPERTIES
    ImplementsRegister
    PressesAnswered
    AttemptsSpaced
    LoopGoesOn
