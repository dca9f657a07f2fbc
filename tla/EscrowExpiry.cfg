\* An escrow instantiated some time after the last operation.
CONSTANTS
    u1 = u1
    u2 = u2
    None = None
    Users = {u1, u2}
    MaxEscrows = 1
    Supply = 1
    MaxUint128 = 2
    Amounts = {0, 1}
    Prices = {2}
    Sellers = {u1, 1}
    Arbiters = {u2}
    Seconds = {1}
    Second = 1
    MaxUint64 = 2
    MaxNow = 2
SPECIFICATION Spec
INVARIANTS
    ExpiryFromInstantiation
