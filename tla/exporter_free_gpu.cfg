SPECIFICATION Spec
CONSTANTS
    p1 = p1
    p2 = p2
    p3 = p3
    NoPod = NoPod
    Pods <- TwoPods
    GPU_COUNT = 1
    MaxRestarts = 1
INVARIANT
    FreeGPUIsAssigned
