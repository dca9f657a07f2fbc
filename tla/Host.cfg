\* A transaction and a query at the same time, two nested snapshots or
\* errors of the adapter, a query of another contract, gas at the maximum.
CONSTANTS
    c1 = c1
    v1 = v1
    m1 = m1
    m2 = m2
    m3 = m3
    Nothing = Nothing
    Contracts = {c1}
    MaxKey = 2
    Values = {v1}
    Maps = {m1, m2, m3}
    MaxSnaps = 2
    MaxQueries = 1
    Limits = {3}
    ReadCost = 2
    MaxUint64 = 3
SPECIFICATION Spec
SYMMETRY Symmetry
INVARIANTS
    TypeOK
    SnapshotsIntact
    IteratorsExact
    ErrorsFreeze
    GasExact
