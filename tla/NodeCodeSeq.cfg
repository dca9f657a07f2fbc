\* The sequence number of a code after a restart.
CONSTANTS
    t1 = t1
    t2 = t2
    u1 = u1
    u2 = u2
    c1 = c1
    c2 = c2
    Nil = Nil
    Threads = {t1}
    Users = {u1}
    Codes = {c1, c2}
    MaxInstances = 0
    MaxNonce = 3
    MaxOps = 4
    Fees = {0}
    Kinds = {"store"}
    Devnet = FALSE
    FaucetAmounts = {}
    GenesisBalance = 1
SPECIFICATION Spec
INVARIANTS
    CodeSeqStable
