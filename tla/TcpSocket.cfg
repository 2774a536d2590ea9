SPECIFICATION Spec
CONSTANTS
    Threads = {t1, t2}
    Short = short
    Long = long
    Messages = {short, long}
    Size <- Sizes
    HeaderUnits = 2
    Capacity = 5
    MaxSends = 3
    Nobody = nobody
INVARIANTS
    TypeOK
    LostOnlyWhenCut
PROPERTIES
    SentIsReceived
    ChannelSpec
CHECK_DEADLOCK FALSE
