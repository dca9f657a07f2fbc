\* One signed or simulated transaction after another, two contracts, dispatch
\* three levels deep.
CONSTANTS
    u1 = u1
    Users = {u1}
    MaxInstances = 2
    GenesisContracts = 1
    GenesisBalance = 1
    MaxDispatchDepth = 2
    GasLimits = {3}
    GasCosts = {1}
    Funds <- FundsWithBadCoin
    MaxMsgs = 1
    MaxCalls = 2
    NoSnap = NoSnap
SPECIFICATION Spec
INVARIANTS
    TypeOK
    GasWithinBudget
    DepthBounded
    TouchedCoversChanges
    FreshInstances
    CallersRegistered
    SupplyConserved
    RunsReported
    BalancesExplained
    ContractsAnnounced
