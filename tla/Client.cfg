\* Two programs with one key, late answers, lost requests, restarts, an
\* account with rows under two spellings.
CONSTANTS
    p1 = p1
    p2 = p2
    k1 = k1
    hex = hex
    upper = upper
    chain = chain
    Nil = Nil
    Clients = {p1, p2}
    Commands = {"execute", "deploy", "faucet"}
    Codes = {k1}
    MaxNonce = 0
    GasPrices = {1}
    MinGasPrice = 1
    ChainId = chain
    Spellings = {hex, upper}
    Canonical = hex
    FaucetAmounts = {1}
    MaxRuns = 3
SPECIFICATION Spec
SYMMETRY Symmetry
INVARIANTS
    TypeOK
    OkMeansCommitted
    DeployInOrder
    RetryWithNonceSafe
    FetchedNonceNear
    
