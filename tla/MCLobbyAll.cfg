SPECIFICATION Spec
CONSTANTS
    NumCells = 5
    NumCoins = 2
    Threads = {t1, t2, t3}
    NoThread = NoThread
    Faults = {"wait", "start", "play", "end"}
SYMMETRY Symmetry
INVARIANTS
    TypeOK
    SlotAccounting
    MatchFlags
    NoLostWakeup
    CoinsKept
