SPECIFICATION Spec

CONSTANTS
    w1 = w1
    w2 = w2
    Window = {w1, w2}
    Key = {"A"}
    Fallbacks = {"F"}
    Injector = {}
    NoInjector = NoInjector
    PipeSize = 1
    App = {"a"}
    NoApp = NoApp
    NoWindow = NoWindow
    MaxKeys = 2
    MaxCalls = 2
    MaxDelays = 0

SYMMETRY Symmetry
INVARIANT NoKeyLeftDown
INVARIANT WaitQueueMatchesApp
INVARIANT BlockedIsReleased
INVARIANT IdleHasNoWork
CHECK_DEADLOCK FALSE
