\* Two requests at a time, two senders, calls that move tokens and create
\* contracts, with database errors and restarts at every step.
CONSTANTS
    t1 = t1
    t2 = t2
    u1 = u1
    u2 = u2
    c1 = c1
    Nil = Nil
    Threads = {t1, t2}
    Users = {u1, u2}
    Codes = {c1}
    MaxInstances = 1
    MaxNonce = 2
    MaxOps = 4
    Fees = {0, 1}
    Kinds = {"execute", "instantiate", "simulate"}
    Devnet = FALSE
    FaucetAmounts = {}
    GenesisBalance = 1
SPECIFICATION Spec
SYMMETRY Symmetry
INVARIANTS
    TypeOK
    MemDbAgree
    NoReplay
    DurableEffects
    OpsNumbered
    InstancesCounted
PROPERTIES
    ImplementsLedger
