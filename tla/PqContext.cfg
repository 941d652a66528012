\* Two clients, so that the pending slot is overwritten, one of them modelled itself,
\* and two threads in Accept.
CONSTANTS
    Conns = {c1, c2}
    Acceptors = {a1, a2}
    Patience = 1
    Ours = c1
    Handshaking = 1

SPECIFICATION FairConnectSpec
INVARIANTS
    ConnectTypeOK
    EventsReachOneWrapper
    SlotHandsOver
    NothingStaysOpen
PROPERTIES
    CallsReturn
CHECK_DEADLOCK FALSE
