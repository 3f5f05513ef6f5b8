\* Two tasks with several reports each; three that share a counter; three pointers.
SPECIFICATION AtomicsSpec
CONSTANTS
    A = A
    B = B
    C = C
    p1 = p1
    p2 = p2
    p3 = p3
    Task <- TwoTasks
    Iterations = 5
    Interval = 2
    Caller <- ThreeTasks
    WordSize = 4
    Start = 14
    Deltas <- UpAndDown
    Calls = 2
    Pointer <- Pointers
INVARIANTS MutualExclusion CounterExact OutlivesItsReferences NothingLeaks
PROPERTY TasksFinish
