SPECIFICATION ScopedSpec
CONSTANTS
    deposit = deposit
    zero = zero
    vaultAdapter = vaultAdapter
    otherAdapter = otherAdapter
    none = none
    fxrp = fxrp
    usdc = usdc
    alice = alice
    bob = bob
    AdapterIds = {deposit}
    Implementations = {vaultAdapter, otherAdapter}
    NoImplementation = none
    Assets = {fxrp, usdc}
    Requests <- SettlementRequests
    Delay = 2
    MaxTime = 5
    MaxVersions = 3
    MaxCode = 2
    Accounts = {alice, bob}
    Intents <- SettlementIntents
    Followed <- FlightIntents
    ProtectedAsset = fxrp
    ZeroId = zero
    Erc4626Adapters = {vaultAdapter}
    Amounts = {0, 2}
    MaxOps = 2
    MaxDonations = 2
INVARIANTS
    RouterTypeOK
    RouterHoldsOnlyDonations
    NothingStaysLent
    MintIsNeverTakenBack
    IntentSucceedsOnce
PROPERTIES
    FallbackChangesNothingElse
    SuccessIsWorthIt
    KeepsRouterPromise
    NoticedSwapsOnly
    SwapWaitsForItsProposal
