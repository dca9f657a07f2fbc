\* A reply error that an outer reply handler catches.
CONSTANTS
    u1 = u1
    Users = {u1}
    MaxInstances = 2
    GenesisContracts = 1
    GenesisBalance = 1
    MaxDispatchDepth = 2
    GasLimits = {4}
    GasCosts = {1}
    Funds <- NoFunds
    MaxMsgs = 1
    MaxCalls = 1
    NoSnap = NoSnap
SPECIFICATION Spec
PROPERTIES
    ReplyErrorAborts
