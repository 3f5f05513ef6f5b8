\* One group of chunks of several objects, one of single-object chunks; the
\* request sizes around every boundary.
SPECIFICATION HeapSpec
CONSTANTS
    g1 = g1
    g2 = g2
    c1 = c1
    c2 = c2
    c3 = c3
    c4 = c4
    None = None
    Group <- Groups
    Page <- Chunks
    object_count <- ListCounts
    Sizes <- Requests
INVARIANTS ListExact NoLiveInReleased NeverPanics HeaderMatches FreeFindsChunk
PROPERTY ImplementsKernelHeap
