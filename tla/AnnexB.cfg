\* Every input of up to eight bytes: a start code, a NAL unit, and another start code.
CONSTANTS
    Alphabet = {0, 1, 2}
    MaxInput = 8

SPECIFICATION Spec
INVARIANTS
    TypeOK
    ReadsAllNALs
    RoundTrip
    CutStreamYieldsWholeNALs
CHECK_DEADLOCK FALSE
