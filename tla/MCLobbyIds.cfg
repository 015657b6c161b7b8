SPECIFICATION Spec
CONSTANTS
    NumCells = 3
    NumCoins = 1
    Threads = {t1, t2, t3}
    NoThread = NoThread
    Faults = {"wait"}
INVARIANTS
    UniqueIds
