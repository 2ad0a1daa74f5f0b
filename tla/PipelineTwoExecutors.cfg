SPECIFICATION Spec
CONSTANTS
    exec1 = exec1
    exec2 = exec2
    worker1 = worker1
    Signers = {exec1, exec2}
    Workers = {}
    MaxErrors = 2
    AllowFlareRevert = {FALSE}
    MaxPayments = 2
    MaxFdcRequests = 1
    MaxMints = 1
    MaxDelays = 1
    MaxCrashes = 0
INVARIANT AtMostOnePayment
