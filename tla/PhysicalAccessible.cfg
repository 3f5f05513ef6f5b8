SPECIFICATION Spec
CONSTANTS
    DmaPages = 4
    DefaultPages = 4
    HiMemPages = 2
    Gap1 = 0
    Gap2 = 0
    Slack = 2
    MaxRefs = 2
    Reserved <- KernelFrames
    Requests <- HeapRequests
INVARIANT KernelAccessible
