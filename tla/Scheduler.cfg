\* Two tasks, four lines with all their simultaneous requests, one task yields.
SPECIFICATION FairSpec
CONSTANTS
    NumTasks = 2
    Irqs <- Lines
    Yielding <- SecondTask
    PcMod = 2
INVARIANTS OwnKernelStack ResumesWhereInterrupted
PROPERTIES EveryTaskRuns EveryRequestHandled
