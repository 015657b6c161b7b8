SPECIFICATION Spec
CONSTANTS
    Clients = {c1, c2, c3}
    FDs = {f1, f2, f3}
    NoFd = NoFd
    Talk <- MCTalk
    Values <- MCValues
    MaxLines = 3
SYMMETRY Symmetry
INVARIANTS
    TypeOK
    OneOwner
    OwnPackets
    ConfigAsWritten
CHECK_DEADLOCK FALSE
