SPECIFICATION Spec
CONSTANTS
    None = None
    Rejected = Rejected
    NoValue = NoValue
    Redacted = Redacted
    SensitiveNames = {"token", "set-cookie"}
    B1Model = "gpt"
    C1Model = "claude"
    GatewayConfig <- MCGatewayConfig
    Wires <- MCWires
    AuthConfig <- MCAuthConfig
    Headers <- MCHeaders
    Projects = {"p", "q"}
    Chunk <- MCChunk
    RankOffset = 60
    MaxResults = 100
    Queries <- MCQueries
    Passage <- MCPassage
    Jobs = {j1, j2}
    JobProject = "p"
    Recorded <- MCRecorded
    Clients = {c1, c2}
    Generators = {c1}
    MaxRequests = 3
    MaxFaults = 1
SYMMETRY Symmetric
INVARIANT AnalysisRefusedOnlyByFaults
CHECK_DEADLOCK FALSE
