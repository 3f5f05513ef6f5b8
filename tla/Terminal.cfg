\* Cells of two columns and a window of two rows; three keys at any time.
SPECIFICATION TerminalSpec
CONSTANTS
    Width = 2
    Height = 5
    WindowRows = 2
    RegisterSize = 2
    Printfs <- Names
    Key <- KeysPressed
    QueueBound = 6
    EventBound = 3
INVARIANTS LossBounded ShiftFollowsKeys
PROPERTY ShownAfterPrinting
