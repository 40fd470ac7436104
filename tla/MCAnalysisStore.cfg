SPECIFICATION FairSpec
CONSTANTS
    Procs = {worker}
    NoProc = NoProc
    Findings = {1, 3}
    Keys = {"funder", "top10"}
    KeyOf <- FunderKey
    Categories = {"insider_links", "holder_concentration"}
    CategoryOf <- HolderCategory
    ClassOf <- OneClass
    Results <- DistinctResults
    MaxRuns = 3
    MaxFaults = 1
    AdminPoints = {"none", "queued", "metadata", "review", "holders", "pools", "events",
                   "links", "record", "verdict", "done", "failed"}
INVARIANTS
    TypeOK
    ReviewedRowsAreCurrent
    OneEventPerTitle
    ResolvedOnEvidence
    VerdictOverLandedChildren
PROPERTIES
    ReviewStandsOnItsProof
    MetadataKept
    QueueDrains
CHECK_DEADLOCK FALSE
