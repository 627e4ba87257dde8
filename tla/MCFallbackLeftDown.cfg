SPECIFICATION Spec

CONSTANTS
    w1 = w1
    Window = {w1}
    Key = {"A"}
    Fallbacks = {"F"}
    Injector = {}
    NoInjector = NoInjector
    PipeSize = 1
    App = {"a"}
    NoApp = NoApp
    NoWindow = NoWindow
    MaxKeys = 1
    MaxCalls = 1
    MaxDelays = 0

INVARIANT FallbacksReleased
CHECK_DEADLOCK FALSE
