SPECIFICATION LiveSpec
CONSTANTS
    operator1 = operator1
    operator2 = operator2
    Operators = {operator1}
    MaxPayments = 2
    MaxFdcRequests = 2
    MaxMints = 4
    MaxDelays = 1
    MaxFaults = 1
    MaxBips = 10
    MaxRaises = 3
    RecoveryNet = 7
    FeeSettings <- OneSetting
PROPERTY RetryIsConfirmed
