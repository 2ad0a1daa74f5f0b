SPECIFICATION LivePageSpec
CONSTANTS
    post1 = post1
    post2 = post2
    get1 = get1
    get2 = get2
    op1 = op1
    op2 = op2
    op3 = op3
    key1 = key1
    key2 = key2
    NoPreview = NoPreview
    Planned = Planned
    Posts = {post1, post2}
    Polls = {get1, get2}
    UserOps = {op1, op2}
    KeyOf <- OneNonce
    MaxPayloads = 2
INVARIANTS
    PageTypeOK
    ReturnedCommits
    RecordedPaymentCommits
    ReviewMatchesRequest
    EventsAreOfTheRequest
    VerifiedIsRecorded
PROPERTIES
    PaymentIsKept
    SignatureIsShown
    KeepsSigningPromise
