SPECIFICATION FairSpec
CONSTANTS
    NumCells = 12
    NumCoins = 5
INVARIANTS
    TypeOK
    BoardPlayable
    ClientAgreesWithServer
    RuleIsSlideLeft
PROPERTIES
    MatchEnds
