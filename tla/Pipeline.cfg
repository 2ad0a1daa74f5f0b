SPECIFICATION LiveSpec
CONSTANTS
    exec1 = exec1
    exec2 = exec2
    worker1 = worker1
    Signers = {exec1}
    Workers = {worker1}
    MaxErrors = 2
    AllowFlareRevert = {FALSE, TRUE}
    MaxPayments = 2
    MaxFdcRequests = 1
    MaxMints = 2
    MaxDelays = 1
    MaxCrashes = 1
INVARIANTS
    TypeOK
    AtMostOnePayment
    PaymentIsRecorded
    SettledMatchesChain
    EveryBroadcastWasSimulated
    RetriesAreBounded
    RecoveryHasACause
    TimelineIsBacked
PROPERTIES
    SignedJobRests
    KeepsPromise
