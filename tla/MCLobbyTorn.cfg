SPECIFICATION Spec
CONSTANTS
    NumCells = 5
    NumCoins = 2
    Threads = {t1, t2}
    NoThread = NoThread
    Faults = {}
INVARIANTS
    ShownBoardsWhole
