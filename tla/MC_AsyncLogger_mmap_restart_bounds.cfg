CONSTANTS
    Mode = "MMAP"
    Capacity = 2
    Producers = {p1}
    Worker = w
    BufferSize = 96
    Alignment = 32
    MmapInitialSize = 64
    NoItem = NoItem
    SizeWidth = 16
    Filler = Filler
    WriteFaults = FALSE
    MmapFaults = FALSE
    MaxLogs = 4
    MaxStarts = 2
SPECIFICATION Spec
INVARIANT MappedWritesInBounds
