\* The faucet of a development network among calls, stores, simulations and
\* restarts, and two requests that wait for each other.
CONSTANTS
    t1 = t1
    t2 = t2
    u1 = u1
    u2 = u2
    c1 = c1
    Nil = Nil
    Threads = {t1, t2}
    Users = {u1}
    Codes = {c1}
    MaxInstances = 0
    MaxNonce = 1
    MaxOps = 2
    Fees = {0, 1}
    Kinds = {"execute", "simulate", "store", "faucet"}
    Devnet = TRUE
    FaucetAmounts = {0, 2}
    GenesisBalance = 1
SPECIFICATION FairSpec
INVARIANTS
    DurableEffects
PROPERTIES
    RequestsAnswered
