\* A client whose main thread writes the stream and waits for it, a goroutine that
\* sends datagrams, and two threads that close the connection.
CONSTANTS
    Senders = {main, stats}
    Main = main
    Closers = {t1, t2}
    IsClient = TRUE
    MaxItems = 2
    Settle = 2
    Timeout = 3

SPECIFICATION FairSpec
INVARIANTS
    TypeOK
    SingleQuicClose
    QueueDelivers
    ZeroMeansTaken
PROPERTIES
    EveryItemIsHandedOver
    WaitReturns
CHECK_DEADLOCK FALSE
