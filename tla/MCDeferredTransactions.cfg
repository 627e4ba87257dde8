SPECIFICATION FairSpec

CONSTANTS
    t1 = t1
    Layers = {1, 2}
    BufferLayers = {2}
    MaxFrame = 2
    Thread = {t1}
    What = {"deferChange", "destroy"}
    Mode = {"async"}
    MaxCalls = 2

INVARIANT WorkWakesServer
INVARIANT PointsMatchStates
INVARIANT NotEarly
INVARIANT ShadowHoldsQueue
PROPERTY FramesLatched
PROPERTY ChangesDrawn
CHECK_DEADLOCK FALSE
