SPECIFICATION CasesSpec
CONSTANTS
    Clients = {"id0", "id1", "id2"}
    NoClient = "none"
    Contracts <- MCContracts
    Office = {"sync", "balance", "stored", "diagnose"}
    Invocations = {1, 2}
    MaxSwitches = 2
    MaxRetries = 1
    MaxCases = 4
    MaxBatches = 2
    MaxOffice = 1
    MaxThrows = 1
    Outgoing = {1, 2}
    MaxReports = 2
    Sends = {1, 2}
    Requests = {"q1", "q2"}
    MaxTemplates = 2
    MaxReviews = 2
    MaxRequests = 2
INVARIANTS CasesTypeOK ContractOfClient WaitsWithinLimits OnceAndOnlyIfOn OneAutomatedCase PromisedPersonIsThere    ReadMeansRead OneCopy 
CHECK_DEADLOCK FALSE
