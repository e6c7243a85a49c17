CONSTANTS
    v1 = v1
    h1 = h1
    h2 = h2
    Versions = {v1, v2}
    Hashes = {h1, h2}
    HashesOf <- SharedTexts
    Workers = {w1}
    None = None
    Lease = 1
    MaxFaults = 0
SPECIFICATION Spec
PROPERTY
    ExpiredClaimsPublishNothing
