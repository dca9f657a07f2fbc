\* Several sub-messages in one response, longer chains of replies, gas costs
\* that differ, gas budgets that run dry, and every call ends.
CONSTANTS
    u1 = u1
    Users = {u1}
    MaxInstances = 1
    GenesisContracts = 1
    GenesisBalance = 1
    MaxDispatchDepth = 2
    GasLimits = {0, 3}
    GasCosts = {1, 2}
    Funds <- NoFunds
    MaxMsgs = 2
    MaxCalls = 1
    NoSnap = NoSnap
SPECIFICATION FairSpec
INVARIANTS
    GasWithinBudget
    RunsReported
PROPERTIES
    TxTerminates
