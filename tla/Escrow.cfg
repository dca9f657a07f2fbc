\* Two escrows, the second possibly a clone; a seller that is an escrow;
\* expiries that pass and some that do not fit 64 bits; a clock that passes,
\* is set back and is read twice.
CONSTANTS
    u1 = u1
    u2 = u2
    None = None
    Users = {u1, u2}
    MaxEscrows = 2
    Supply = 1
    MaxUint128 = 2
    Amounts = {0, 1}
    Prices = {2}
    Sellers = {u1, 1}
    Arbiters = {u2}
    Seconds = {1}
    Second = 1
    MaxUint64 = 1
    MaxNow = 1
SPECIFICATION Spec
INVARIANTS
    TypeOK
    PaysOnce
    TokensConserved
    ExpiryHonoured
PROPERTIES
    BlockTimeMonotone
