\* Two writers, the default codepoint and another one with a bit above it, a stream bound twice.
SPECIFICATION Spec
CONSTANTS
    Writers = {w1, w2}
    TOSValues = {4}
    MaxPackets = 2
    SSRCs = {s1}
    MaxBinds = 2
SYMMETRY Symmetry
INVARIANTS
    TypeOK
    CodepointIsAsked
    MarksAreTold
CHECK_DEADLOCK FALSE
