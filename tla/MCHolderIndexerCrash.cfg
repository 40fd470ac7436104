SPECIFICATION Spec
CONSTANTS
    Tokens = {t1}
    NoToken = NoToken
    Addrs = {1, 2, 3}
    Histories <- OneTokenHistories
    MaxBlock = 5
    LogRange = 1
    RunRange = 2
    BatchSize = 1
    VerifyTop = 1
    FallbackLimit = 2
    MaxFaults = 2
    FaultPoints = {"pick", "scan", "verify", "fallback", "commit", "cursor"}
INVARIANT
    PublishedCountIsTrue
