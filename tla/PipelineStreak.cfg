SPECIFICATION LiveSpec
CONSTANTS
    exec1 = exec1
    exec2 = exec2
    worker1 = worker1
    Signers = {}
    Workers = {worker1}
    MaxErrors = 2
    AllowFlareRevert = {FALSE}
    MaxPayments = 2
    MaxFdcRequests = 2
    MaxMints = 2
    MaxDelays = 1
    MaxCrashes = 0
INVARIANT FailedOnlyWhenStuck
CHECK_DEADLOCK FALSE
