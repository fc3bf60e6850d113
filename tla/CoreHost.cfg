SPECIFICATION Spec
CONSTANTS
    Cores = {c1, c2}
    c1 = c1
    c2 = c2
    Files <- MCFiles
    Environments <- MCEnvironments
    MaxInterrupts = 2
    NoInput = NoInput
INVARIANT
    AdaptersFindTheCore
PROPERTY
    InterruptedCoreExits
CHECK_DEADLOCK FALSE
