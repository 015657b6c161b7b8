SPECIFICATION FairSpec
CONSTANTS
    NumCells = 4
    NumCoins = 1
    Threads = {t1, t2, t3}
    NoThread = NoThread
    Faults = {"play", "end"}
INVARIANTS
    SlotTable
    TurnKept
    ShownBoardCurrent
    OneWinner
PROPERTIES
    WinnerKept
    MatchSpec
    MatchEnds
