SPECIFICATION FairSpec
CONSTANTS
    NumCells = 3
    NumCoins = 1
    Volumes <- MCVolumes
    Hosts <- MCHosts
    Ports <- MCPorts
INVARIANTS
    TypeOK
    NoForgottenMatch
    MatchRequestJoins
    CancelSticks
    SelectionIsCoin
    OneTrack
    SavedSettingsReload
PROPERTIES
    LoadingEnds
