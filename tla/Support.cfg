SPECIFICATION SupportSpec
CONSTANTS
    AddressLimit = 16
    LineSize = 4
    Byte = {0, 1}
    Filled = 6
    ScreenWidth = 1
    ScreenHeight = 2
    Blank = 1
    WordDigits = 3
    Widths = {0, 1, 3, 4}
    MaxItems = 2
    Arguments <- WordsPassed
    Bits = 4
    Numbers <- NumbersRead
    NoNumber = NoNumber
    ShortCapacity = 1
    FloatLength = 3
    Slack = 1
    StringAt = 3
    HalfSize = 16
    MaxNest = 3
    MaxObjects = 32
INVARIANTS LoopsDoTheirWork PrintsAsAsked EntriesAreTransparent StartsInOrder
