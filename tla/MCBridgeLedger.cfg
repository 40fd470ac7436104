\* The four writers of the ledger, a settlement run that may reject, and
\* restarts of either process.
CONSTANTS
    EvmBurns = {e1}
    SolanaBurns = {s1}
    MaxThrows = 0
SPECIFICATION Spec
INVARIANTS
    ConfirmedIsMinted
    ReadyIsComplete
    HealthyMeansSettled
PROPERTIES
    ConfirmedWhileRunsResolve
    UnavailableReplacesNothing
