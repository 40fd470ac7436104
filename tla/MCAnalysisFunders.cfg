SPECIFICATION Spec
CONSTANTS
    Procs = {worker}
    NoProc = NoProc
    Findings = {1, 2}
    Keys = {"funder", "top10"}
    KeyOf <- FunderKey
    Categories = {"insider_links", "holder_concentration"}
    CategoryOf <- HolderCategory
    ClassOf <- OneClass
    Results <- SharedResults
    MaxRuns = 2
    MaxFaults = 0
    AdminPoints = {"none", "queued", "done"}
INVARIANT
    EveryFindingHasRow
CHECK_DEADLOCK FALSE
