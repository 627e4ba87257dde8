SPECIFICATION FairSpec

CONSTANTS
    w1 = w1
    i1 = i1
    Window = {w1}
    Key = {"A"}
    Fallbacks = {"F"}
    Injector = {i1}
    NoInjector = NoInjector
    PipeSize = 1
    App = {"a"}
    NoApp = NoApp
    NoWindow = NoWindow
    MaxKeys = 0
    MaxCalls = 2
    MaxDelays = 1

INVARIANT TypeOK
INVARIANT DispatchesCounted
PROPERTY ResultKnown
PROPERTY InjectionReturns
CHECK_DEADLOCK FALSE
