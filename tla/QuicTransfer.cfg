\* Two NAL units of two bytes and one byte, behind lengths of two bytes.
CONSTANTS
    Nals = 2
    Size <- InstanceSize
    LengthBytes = 2
    MaxLength = 3

SPECIFICATION FairSpec
INVARIANTS
    TypeOK
    OutputIsPrefix
    FinMeansComplete
PROPERTIES
    TransferEnds
    SignalEndsReceiver
CHECK_DEADLOCK FALSE
