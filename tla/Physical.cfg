\* Requests that are safe and requests that are not: runs may wrap past a pool's end.
SPECIFICATION Spec
CONSTANTS
    DmaPages = 4
    DefaultPages = 2
    HiMemPages = 2
    Gap1 = 1
    Gap2 = 0
    Slack = 2
    MaxRefs = 2
    Reserved <- KernelAndHole
    Requests <- MixedRequests
INVARIANTS Exclusive BitmapExact AnswerIsRight
PROPERTIES StaysInPool ImplementsPageAllocator
