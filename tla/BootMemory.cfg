\* Ten machines; three pages under two directory entries.
SPECIFICATION Spec
CONSTANTS
    Entries = 8
    KernelPde = 5
    DirFrame = 1
    KernelTable = 2
    TestTable = 3
    TableFrames <- Tables
    PAGE_SIZE = 4
    DMA_MEMORY_LIMIT = 24
    KERNEL_VIRTUAL_SIZE_MAX = 64
    AddressLimit = 256
    AlignBit = 2
    IntSize = 1
    Boots <- Machines
    UserPages <- Pages
    TestPage = 26
    TestFrame = 6
    DevicePage = 7
INVARIANTS ReservedNeverLent KernelMapping PagesApart
