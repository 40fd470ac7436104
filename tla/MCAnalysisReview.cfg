SPECIFICATION Spec
CONSTANTS
    Procs = {worker}
    NoProc = NoProc
    Findings = {1, 3}
    Keys = {"funder", "top10"}
    KeyOf <- FunderKey
    Categories = {"insider_links", "holder_concentration"}
    CategoryOf <- HolderCategory
    ClassOf <- OneClass
    Results <- DistinctResults
    MaxRuns = 2
    MaxFaults = 0
    AdminPoints = {"none", "queued", "metadata", "review", "delete", "lock", "replace", "holders",
                   "pools", "events", "refresh", "links", "record", "verdict", "done", "failed"}
PROPERTY
    ReviewStandsOnItsProof
CHECK_DEADLOCK FALSE
