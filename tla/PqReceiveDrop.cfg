\* One reader of a buffer of two bytes that it may be one byte behind in.
CONSTANTS
    Readers = {r1}
    DgramReaders = {d1}
    Closers = {t1}
    RecvSize = 2
    MaxChunk = 2
    MaxRead = 1
    MaxStream = 4
    MaxDgrams = 0

SPECIFICATION FairSpec
PROPERTY
    DropsOnlyWhenFull
CHECK_DEADLOCK FALSE
