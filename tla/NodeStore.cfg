\* Codes stored, stored again and restored, with an execute between them.
CONSTANTS
    t1 = t1
    t2 = t2
    u1 = u1
    u2 = u2
    c1 = c1
    c2 = c2
    Nil = Nil
    Threads = {t1}
    Users = {u1}
    Codes = {c1, c2}
    MaxInstances = 0
    MaxNonce = 3
    MaxOps = 4
    Fees = {0, 1}
    Kinds = {"store", "execute"}
    Devnet = FALSE
    FaucetAmounts = {}
    GenesisBalance = 1
SPECIFICATION Spec
INVARIANTS
    CodeSeqsDense
PROPERTIES
    ImplementsLedger
