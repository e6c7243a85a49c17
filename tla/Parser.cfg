CONSTANTS
    w1 = w1
    LowerCase <- CheckLowerCase
    UpperCase <- CheckUpperCase
    LocalReference <- CheckLocalReference
    Position <- CheckPosition
    Rejected = Rejected
    MaxDepth = 12
    MaxNodes = 80
    MaxMembers = 4
    MaxScalar = 12
    MaxReferences = 1
    MaxOperations = 2
    MaxComponents = 2
    MaxFacts = 40
    Docs = {d1, d2}
    ParsedTypes = {d1}
    Workers = {w1, w2}
    Messages = {m1, m2}
    None = None
    Lease <- Leases
    Timeout = 1
    Visibility = 3
    Resend = 1
    MaxCrashes = 1
    MaxOutages = 1
SPECIFICATION FairSpec
INVARIANTS
    EvidenceIffAccepted
    ExclusiveClaims
    LoggedOutcomesTrue
PROPERTIES
    ImplementsLeasedJobs
    QueuedJobsClaimed
    ClaimedJobsFinish
