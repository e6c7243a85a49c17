SPECIFICATION ReviewSpec
CONSTANTS
    r1 = r1
    r2 = r2
    r3 = r3
    Reviewers = {r1, r2, r3}
    Versions = {v1}
    Attesting <- MCAttesting
    Contents <- MCContents
    Material <- MCMaterial
    Clients = {c1, c2}
    MaxRevision <- MCMaxRevision
SYMMETRY Symmetric
INVARIANT UnresolvedNeverApproved
CHECK_DEADLOCK FALSE
