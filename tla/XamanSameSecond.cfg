SPECIFICATION PageSpec
CONSTANTS
    post1 = post1
    post2 = post2
    get1 = get1
    get2 = get2
    op1 = op1
    op2 = op2
    op3 = op3
    key1 = key1
    key2 = key2
    NoPreview = NoPreview
    Planned = Planned
    Posts = {post1, post2}
    Polls = {get1}
    UserOps = {op1, op2, op3}
    KeyOf <- TwoNonces
    MaxPayloads = 2
INVARIANT ReturnedIsBound
