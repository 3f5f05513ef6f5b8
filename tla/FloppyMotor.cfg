\* The driver as the kernel runs it.
SPECIFICATION FairSpec
CONSTANTS
    MaxCyl = 1
    SeekTries = 2
    TransferTries = 3
    MotorTicks = 100
    Timers = {FALSE}
PROPERTIES MotorStops
