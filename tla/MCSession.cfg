CONSTANTS TOTAL_SKIN_AMOUNT = 6
          NumCells = 4
          NumCoins = 1
          MaxPending = 2
SPECIFICATION FairSpec
INVARIANTS TypeOK MoverSeesBoard MoveNeverRefused NothingDropped NoStandoff
PROPERTIES ThreadEnds ClientSpec
