SPECIFICATION ToolsSpec
CONSTANTS
    Cases = {1, 2}
    Threads = {1, 2}
    Fixtures = {"f", "g"}
    Characters <- MCCharacters
    CharactersPerToken = 5000
    Tolerance = 15
    InRate = 1
    WorstInRate = 2
    OutRate = 1
    Million = 1
    OutputCap = 1
    Usages <- MCUsages
    MaxBill = 5
    MaxCall = 5
    MaxRun = 5
    LeastWorst = 3
    ExpectedCost = 1
    MaxSessions = 2
    MaxFaults = 1
    r1 = r1
    r2 = r2
    r3 = r3
    Reviewers = {r1, r2, r3}
    Versions = {v1}
    Attesting <- MCAttesting
    Contents <- MCContents
    Material <- MCMaterial
    MaxRevision <- MCMaxRevision
    Clients = {c1, c2}
    Hashes = {"a", "b", "c"}
    Viewers = {"v", "w"}
    MaxRules = 6
    MaxHistory = 4
    MaxCrashes = 1
    Runners = {"r", "s"}
    Processes = {"p"}
    Releases <- MCReleases
    Mutable = {"jobs", "plans"}
    ParserGrants <- MCParserGrants
    MaxPasswords = 3
    MaxRunnerFaults = 2
SYMMETRY Symmetric
INVARIANTS
    SpendBounded ReportAccounted FailureEndsLedger
    RevisionChains PartiesDistinct OneAdjudicatedFinal
    DeployedRecorded CredentialsAgree GrantsFollowContract
PROPERTY WithdrawnForGood
CHECK_DEADLOCK FALSE
