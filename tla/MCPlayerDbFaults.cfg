SPECIFICATION Spec
CONSTANTS
    TOTAL_SKIN_AMOUNT = 3
    XpPerLevel = 1000
    XpWin = 200
    XpLose = 50
    SoulsWin = 250
    SoulsLose = 100
    DefaultSouls = 100
    CoinPrices <- MCCoinPrices
    MaxLevel = 255
    MaxMoney = 65535
    Threads = {a, b, c}
    Users = {a, b, c}
    NoUser = NoUser
    NoFile = NoFile
    UserOf <- MCUserOf
    Established = {a}
    Faults = {"open", "flush"}
    MaxCalls = 3
    InitialProfiles <- MCInitialProfiles
SYMMETRY Symmetry
INVARIANTS
    TypeOK
    ProfilesWellFormed
    OneRecordPerPlayer
\* The server may well be left without clients, here when MaxCalls is reached.
CHECK_DEADLOCK FALSE
