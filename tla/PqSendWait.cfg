\* The instance of PqSend.cfg with one closing thread, against the comments on
\* pq_wait_stream_complete.
CONSTANTS
    Senders = {main, stats}
    Main = main
    Closers = {t1}
    IsClient = TRUE
    MaxItems = 2
    Settle = 2
    Timeout = 3

SPECIFICATION FairSpec
INVARIANT
    ZeroMeansAcknowledged
CHECK_DEADLOCK FALSE
