SPECIFICATION Spec
CONSTANTS
    Streams = {s1, s2}
    Stalling = {s2}
    Ticks = {run, refresh}
    MaxClients = 1
    Buffer = 1
    MaxVersion = 2
INVARIANTS
    TypeOK
    NoSendOnClosed
    UpToDate
PROPERTIES
    ShowsLatest
    TicksNeverHeldUp
    SlotsFreed
