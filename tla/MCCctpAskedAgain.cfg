\* A first run, before Circle has indexed everything it lists.
CONSTANTS
    Scripts = {}
    Old = 4
    MaxTip = 4
    Page = 2
    Recent = 1
    Memory = 1
    MaxFaults = 0
    Kinds <- SomeKinds
SPECIFICATION Spec
INVARIANTS
    AskedAgain
\* An EVM source has no more steps once it is exhausted.
CHECK_DEADLOCK FALSE
