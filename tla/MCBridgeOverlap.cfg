\* A settlement run rejects and leaves lanes behind, which write after the
\* next run.
CONSTANTS
    EvmBurns = {e1, e2}
    SolanaBurns = {}
    MaxThrows = 1
SPECIFICATION Spec
PROPERTIES
    ConfirmedForever
