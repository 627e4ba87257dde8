SPECIFICATION FairSpec

CONSTANTS
    c1 = c1
    Connection = {c1}
    Rate = {2}
    RateMultiple = 2
    TubeSize = 2
    MaxCalls = 2
    MaxHotplugs = 0
    MIN_RESYNC_SAMPLES_FOR_UPDATE = 1
    MAX_RESYNC_SAMPLES_WITHOUT_PRESENT = 0
    HardwareWorks = FALSE
    Modes = {"OFF", "NORMAL"}
    MaxPowerChanges = 2
    MaxPresents = 0
    MaxComposers = 0

INVARIANT TypeOK
INVARIANT SleepsOnlyWhenIdle
INVARIANT WaitsForARealVsync
PROPERTY RequestAnswered
PROPERTY StopsWhenUnwanted
CHECK_DEADLOCK FALSE
