CONSTANTS
    w1 = w1
    LowerCase <- CheckLowerCase
    UpperCase <- CheckUpperCase
    LocalReference <- CheckLocalReference
    Position <- CheckPosition
    Rejected = Rejected
    MaxDepth = 12
    MaxNodes = 80
    MaxMembers = 4
    MaxScalar = 12
    MaxReferences = 1
    MaxOperations = 2
    MaxComponents = 2
    MaxFacts = 40
    Docs = {d1}
    ParsedTypes = {d1}
    Workers = {w1}
    Messages = {m1}
    None = None
    Lease <- Leases
    Timeout = 1
    Visibility = 3
    Resend = 1
    MaxCrashes = 0
    MaxOutages = 1
SPECIFICATION FairSpec
PROPERTY
    ReaperRecordsExpiry
