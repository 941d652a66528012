\* The instance of PqSend.cfg with one closing thread, as a server: cmd/quic-recv
\* closes the connection while its goroutine sends statistics.
CONSTANTS
    Senders = {main, stats}
    Main = main
    Closers = {t1}
    IsClient = FALSE
    MaxItems = 2
    Settle = 2
    Timeout = 3

SPECIFICATION FairSpec
INVARIANT
    ShutdownIsGraceful
CHECK_DEADLOCK FALSE
