CONSTANTS
    c1 = c1
    c2 = c2
    big = big
    Requests = {r1, r2}
    MaxKeys = 4
    Names = {n1}
    Contents = {c1, c2, big}
    Malformed = {}
    SizeOf <- Size
    MaxRaw = 2
    MaxFiles = 2
    MaxBytes = 3
    Nil = Nil
    MaxIntakeFaults = 1
    v1 = v1
    h1 = h1
    h2 = h2
    Versions = {v1, v2}
    Hashes = {h1, h2}
    HashesOf <- SharedTexts
    Workers = {w1, w2}
    None = None
    Lease = 2
    MaxFaults = 1
SPECIFICATION DocumentsSpec
INVARIANTS
    OvershootBounded
    VersionsDense
    DanglingBounded
    LeaksBounded
    AcceptedIsComplete
    AttachmentsBacked
    CostBoundedByJobs
PROPERTIES
    RetriesRepair
    ImplementsLeasedJobs
    JobsEnd
