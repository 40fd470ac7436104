SPECIFICATION Spec
CONSTANTS
    Procs = {api, worker}
    NoProc = NoProc
    Findings = {1}
    Keys = {"funder"}
    KeyOf <- FunderKey
    Categories = {"insider_links", "holder_concentration"}
    CategoryOf <- HolderCategory
    ClassOf <- OneClass
    Results <- OneFinding
    MaxRuns = 3
    MaxFaults = 1
    AdminPoints = {"none", "queued", "metadata", "review", "delete", "lock", "replace", "holders",
                   "pools", "events", "refresh", "links", "record", "verdict", "done", "failed"}
INVARIANT
    ScoredIsShown
PROPERTY
    DecisionsSurvive
SYMMETRY Symmetry
CHECK_DEADLOCK FALSE
