SPECIFICATION AtaSpec
CONSTANTS
    Byte <- MCByte
    Data = {"old", "new"}
    Junk = Junk
    NoData = NoData
    Drives = {"sound", "slow", "eager", "absent", "floating"}
    Image <- MCImage
INVARIANT
    AtaTypeOK
PROPERTIES
    IsTransfers
    CallEnds
