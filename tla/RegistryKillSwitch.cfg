SPECIFICATION KillSpec
CONSTANTS
    deposit = deposit
    vaultA = vaultA
    vaultB = vaultB
    none = none
    fxrp = fxrp
    AdapterIds = {deposit}
    Implementations = {vaultA, vaultB}
    NoImplementation = none
    Assets = {fxrp}
    Requests <- AllRequests
    Delay = 2
    MaxTime = 6
    MaxVersions = 3
    MaxCode = 2
SYMMETRY Symmetry
INVARIANT KillSwitchHolds
