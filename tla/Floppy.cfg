\* The driver with and without the timer thread; every failure of the
\* controller and all retries.
SPECIFICATION FairSpec
CONSTANTS
    MaxCyl = 1
    SeekTries = 3
    TransferTries = 4
    MotorTicks = 100
    Timers = {FALSE, TRUE}
INVARIANTS CopiesTheCylinder InterruptIsForCommand CommandsArePrepared
PROPERTIES EveryReadReturns TimerStopsMotor
