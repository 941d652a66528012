\* One stream reader and one datagram reader, as every program of cmd/ has, one
\* thread that closes the connection, and the peer that closes it too.
CONSTANTS
    Readers = {r1}
    DgramReaders = {d1}
    Closers = {t1}
    RecvSize = 2
    MaxChunk = 2
    MaxRead = 2
    MaxStream = 4
    MaxDgrams = 2

SPECIFICATION FairSpec
INVARIANTS
    TypeOK
    ReadersGetTheStream
    NoWakeUpLost
    DgramsInOrder
PROPERTIES
    CloseFreesReaders
    ImplementsByteStream
CHECK_DEADLOCK FALSE
