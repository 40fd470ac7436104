\* Both sources, a script that drives the EVM cursor too, new transactions,
\* answers that fail and runs cut short.
CONSTANTS
    Scripts = {s1}
    Old = 3
    MaxTip = 4
    Page = 2
    Recent = 1
    Memory = 1
    MaxFaults = 2
    Kinds <- SomeKinds
SPECIFICATION FairSpec
INVARIANTS
    TypeOK
    NoBurnRetired
PROPERTIES
    CursorPromise
    HistoryIndexed
\* An EVM source has no more steps once it is exhausted.
CHECK_DEADLOCK FALSE
