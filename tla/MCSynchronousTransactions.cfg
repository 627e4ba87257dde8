SPECIFICATION FairSpec

CONSTANTS
    t1 = t1
    t2 = t2
    Layers = {1}
    BufferLayers = {1}
    MaxFrame = 1
    Thread = {t1, t2}
    What = {"none", "hide", "defer"}
    Mode = {"async", "sync", "anim"}
    MaxCalls = 2

INVARIANT TypeOK
PROPERTY ReturnsCommitted
PROPERTY CallReturns
 
CHECK_DEADLOCK FALSE
