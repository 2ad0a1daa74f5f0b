SPECIFICATION RouterSpec
CONSTANTS
    deposit = deposit
    zero = zero
    vaultAdapter = vaultAdapter
    otherAdapter = otherAdapter
    none = none
    fxrp = fxrp
    usdc = usdc
    alice = alice
    bob = bob
    AdapterIds = {deposit}
    Implementations = {vaultAdapter, otherAdapter}
    NoImplementation = none
    Assets = {fxrp}
    Requests <- FlightRequests
    Delay = 2
    MaxTime = 5
    MaxVersions = 2
    MaxCode = 2
    Accounts = {alice}
    Intents <- FlightIntents
    Followed <- FlightIntents
    ProtectedAsset = fxrp
    ZeroId = zero
    Erc4626Adapters = {vaultAdapter}
    Amounts = {2}
    MaxOps = 1
    MaxDonations = 0
PROPERTY InFlightNotSwapped
