SPECIFICATION FairSpec

CONSTANTS
    Connection = {}
    Rate = {2}
    RateMultiple = 2
    TubeSize = 2
    MaxCalls = 0
    MaxHotplugs = 1
    MIN_RESYNC_SAMPLES_FOR_UPDATE = 1
    MAX_RESYNC_SAMPLES_WITHOUT_PRESENT = 0
    HardwareWorks = TRUE
    Modes = {"OFF", "DOZE", "DOZE_SUSPEND", "NORMAL"}
    MaxPowerChanges = 2
    MaxPresents = 1
    MaxComposers = 1

INVARIANT ScreenStateAgrees
INVARIANT EnabledOnlyWhenAvailable
PROPERTY InterruptEnds
CHECK_DEADLOCK FALSE
