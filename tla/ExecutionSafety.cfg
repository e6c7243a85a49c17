CONSTANTS
    Plans = {p1, p2}
    ApprovalIds = {a1, a2}
    JobIds = {j1, j2}
    Workers = {w1, w2}
    Requests = {r1}
    None = None
    TTL = 2
    MaxClock = 3
    Lower <- CheckLower
    RelativePath <- CheckRelativePath
    HeaderPattern <- CheckHeaderPattern
    PointerPattern <- CheckPointerPattern
    Sensitive <- CheckSensitive
    PartOf <- CheckPartOf
    Tokens <- CheckTokens
    Sandbox <- CheckSandbox
    Null = Null
    Refused = Refused
    Missing = Missing
    Redactor = "[REDACTED]"
    MaxItems = 2
    MaxJsonItems = 2
    MaxJsonDepth = 1
    MaxAssertions = 2
    MaxCases = 2
    MaxTimeout = 10
    MaxRequestBody = 10
    MaxResponse = 10
    MaxPlanAssertions = 2
    MaxComment = 3
    MaxFaults = 2

SPECIFICATION Spec
SYMMETRY Symmetry
INVARIANTS
    TypeOK
    OneSendPerPlan
    SendsAuthorised
    WithdrawnNeverRuns
    EvidenceNeverUnderstates
    SpentApprovalsAccounted
PROPERTIES
    DecisionsFinal
    ImplementsOneShot
CHECK_DEADLOCK FALSE
