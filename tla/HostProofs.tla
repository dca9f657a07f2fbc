----------------------------- MODULE HostProofs -----------------------------
(***************************************************************************)
(* Proofs about the storage adapters, the KV wrapper, the iterators, the   *)
(* querier and the gas meter, for any contracts, keys, values, gas limits  *)
(* and costs and any depth of snapshots and queries.                       *)
(***************************************************************************)
EXTENDS Host, FiniteSetTheorems, TLAPS

-----------------------------------------------------------------------------
(***************************************************************************)
(* Sorting: the number of smaller elements numbers a finite set.           *)
(***************************************************************************)
Below(S, k) == {j \in S : j < k}

LEMMA BelowFacts ==
    ASSUME NEW S \in SUBSET Keys
    PROVE  /\ IsFiniteSet(S) /\ Cardinality(S) \in Nat
           /\ \A k \in S : Cardinality(Below(S, k)) \in 0..Cardinality(S) - 1
           /\ \A j, k \in S : j < k => Cardinality(Below(S, j)) < Cardinality(Below(S, k))
<1>1. Keys \subseteq Nat /\ IsFiniteSet(Keys)
  BY HostAssumption, FS_Interval DEF Keys
<1>2. IsFiniteSet(S) /\ Cardinality(S) \in Nat
  BY <1>1, FS_Subset, FS_CardinalityType
<1>3. ASSUME NEW k \in S
      PROVE  /\ IsFiniteSet(Below(S, k)) /\ Cardinality(Below(S, k)) \in Nat
             /\ Cardinality(Below(S, k)) < Cardinality(S)
  <2>1. Below(S, k) \in SUBSET S /\ Below(S, k) # S
    BY <1>1 DEF Below
  <2>2. QED  BY <1>2, <2>1, FS_Subset, FS_CardinalityType
<1>4. ASSUME NEW j \in S, NEW k \in S, j < k
      PROVE  Cardinality(Below(S, j)) < Cardinality(Below(S, k))
  <2>1. Below(S, j) \in SUBSET Below(S, k)
    <3>1. ASSUME NEW x \in S, x < j PROVE x < k
      <4>1. x \in Nat /\ j \in Nat /\ k \in Nat
        BY <1>1
      <4>2. QED  BY <1>4, <3>1, <4>1
    <3>2. QED  BY <3>1 DEF Below
  <2>2. Below(S, j) # Below(S, k)
    BY <1>1, <1>4 DEF Below
  <2>3. QED  BY <1>3, <2>1, <2>2, FS_Subset
<1>5. QED  BY <1>2, <1>3, <1>4

\* sort.Strings: each element once, in order.
LEMMA SortedFacts ==
    ASSUME NEW S \in SUBSET Keys
    PROVE  /\ Cardinality(S) \in Nat
           /\ Sorted(S) \in Seq(S) /\ Len(Sorted(S)) = Cardinality(S)
           /\ \A i, j \in 1..Cardinality(S) : i < j => Sorted(S)[i] < Sorted(S)[j]
           /\ \A k \in S : \E i \in 1..Cardinality(S) : Sorted(S)[i] = k
<1> DEFINE n == Cardinality(S)
           rank(k) == Cardinality(Below(S, k))
           f == [k \in S |-> rank(k)]
<1>1. n \in Nat /\ IsFiniteSet(S) /\ S \subseteq Nat
  BY BelowFacts, HostAssumption DEF Keys
<1>2. \A k \in S : rank(k) \in 0..n - 1
  BY BelowFacts
<1>3. \A j, k \in S : j < k => rank(j) < rank(k)
  BY BelowFacts
<1>4. \A j, k \in S : rank(j) = rank(k) => j = k
  <2>1. \A j, k \in S : j < k \/ k < j \/ j = k
    BY <1>1
  <2>2. \A k \in S : rank(k) \in Int
    BY <1>1, <1>2
  <2> HIDE DEF rank
  <2>3. QED  BY <1>3, <2>1, <2>2
<1> HIDE DEF n, rank
<1>5. f \in Injection(S, 0..n - 1)
  BY <1>2, <1>4 DEF Injection, IsInjective
<1>6. f \in Surjection(S, 0..n - 1)
  <2>1. IsFiniteSet(0..n - 1) /\ Cardinality(0..n - 1) = n
    BY <1>1, FS_Interval
  <2> HIDE DEF f
  <2>2. QED  BY <1>5, <2>1, FS_Injection DEF n
<1>7. \A r \in 0..n - 1 : \E k \in S : rank(k) = r
  BY <1>6 DEF Surjection
<1>8. \A i \in 1..n : Sorted(S)[i] \in S /\ rank(Sorted(S)[i]) = i - 1
  <2> SUFFICES ASSUME NEW i \in 1..n
               PROVE  Sorted(S)[i] \in S /\ rank(Sorted(S)[i]) = i - 1
    OBVIOUS
  <2>1. Sorted(S)[i] = CHOOSE k \in S : rank(k) = i - 1
    BY DEF Sorted, rank, Below, n
  <2>2. i - 1 \in 0..n - 1
    BY <1>1
  <2>3. \E k \in S : rank(k) = i - 1
    BY <1>7, <2>2
  <2>4. QED  BY <2>1, <2>3
<1>9. Sorted(S) \in Seq(S) /\ Len(Sorted(S)) = n
  <2> DEFINE pick(i) == CHOOSE k \in S : rank(k) = i - 1
  <2>1. Sorted(S) = [i \in 1..n |-> pick(i)]
    BY DEF Sorted, rank, Below, n
  <2> HIDE DEF pick
  <2>2. \A i \in 1..n : pick(i) \in S
    BY <1>8, <2>1
  <2>3. QED  BY <1>1, <2>1, <2>2
<1>10. \A i, j \in 1..n : i < j => Sorted(S)[i] < Sorted(S)[j]
  <2> SUFFICES ASSUME NEW i \in 1..n, NEW j \in 1..n, i < j, ~(Sorted(S)[i] < Sorted(S)[j])
               PROVE  FALSE
    OBVIOUS
  <2> DEFINE a == Sorted(S)[i]
             b == Sorted(S)[j]
  <2>1. a \in S /\ b \in S /\ rank(a) = i - 1 /\ rank(b) = j - 1
    BY <1>8
  <2>2. ~(a < b)
    OBVIOUS
  <2> HIDE DEF a, b
  <2>3. a \in Nat /\ b \in Nat
    BY <1>1, <2>1
  <2>4. b < a \/ a = b
    BY <2>2, <2>3
  <2>5. rank(b) < rank(a) \/ rank(a) = rank(b)
    BY <1>3, <2>1, <2>4
  <2>6. QED  BY <2>1, <2>5
<1>11. ASSUME NEW k \in S PROVE \E i \in 1..n : Sorted(S)[i] = k
  <2>1. PICK i \in 1..n : i - 1 = rank(k)
    <3>1. rank(k) + 1 \in 1..n /\ (rank(k) + 1) - 1 = rank(k)
      BY <1>1, <1>2
    <3>2. QED  BY <3>1
  <2>2. Sorted(S)[i] = k
    BY <1>4, <1>8, <2>1
  <2>3. QED  BY <2>2
<1>12. QED  BY <1>1, <1>9, <1>10, <1>11 DEF n
LEMMA ReversedFacts ==
    ASSUME NEW S, NEW s \in Seq(S)
    PROVE  /\ Reversed(s) \in Seq(S) /\ Len(Reversed(s)) = Len(s)
           /\ \A i \in 1..Len(s) : Len(s) + 1 - i \in 1..Len(s)
           /\ \A i \in 1..Len(s) : Reversed(s)[i] = s[Len(s) + 1 - i]
<1>1. Len(s) \in Nat /\ \A i \in 1..Len(s) : Len(s) + 1 - i \in 1..Len(s)
  OBVIOUS
<1>2. \A i \in 1..Len(s) : s[Len(s) + 1 - i] \in S
  BY <1>1
<1>3. QED  BY <1>1, <1>2 DEF Reversed

\* Range lists exactly the pairs between the bounds, in the order asked for.
LEMMA RangeFacts ==
    ASSUME NEW m \in Map, NEW start \in Bound, NEW end \in Bound, NEW order \in Orders
    PROVE  LET r == RangeOf(m, start, end, order) IN
           /\ r \in Seq(Keys \X Values)
           /\ {r[i] : i \in 1..Len(r)} = Between(m, start, end)
           /\ \A i, j \in 1..Len(r) : i < j => Before(order, r[i][1], r[j][1])
<1> DEFINE S == {k \in Keys : m[k] # Nothing /\ InRange(k, start, end)}
           n == Cardinality(S)
           keys == Sorted(S)
           dir == IF order = "descending" THEN Reversed(keys) ELSE keys
           r == RangeOf(m, start, end, order)
<1>1. S \in SUBSET Keys
  OBVIOUS
<1>2. r = [i \in 1..Len(dir) |-> <<dir[i], m[dir[i]]>>]
  BY DEF RangeOf
<1>3. Between(m, start, end) = {<<k, m[k]>> : k \in S}
  <2>1. S = {j \in Keys : /\ m[j] # Nothing
                          /\ start = Nothing \/ start <= j
                          /\ end = Nothing \/ j < end}
    <3>1. \A j \in Keys : InRange(j, start, end)
            <=> (start = Nothing \/ start <= j) /\ (end = Nothing \/ j < end)
      BY HostAssumption DEF InRange, Keys, Bound
    <3>2. QED  BY <3>1
  <2>2. QED  BY <2>1 DEF Between
<1>4. /\ n \in Nat /\ keys \in Seq(S) /\ Len(keys) = n
      /\ \A i, j \in 1..n : i < j => keys[i] < keys[j]
      /\ \A k \in S : \E i \in 1..n : keys[i] = k
  BY <1>1, SortedFacts
<1>5. \A k \in S : k \in Keys /\ m[k] \in Values
  BY DEF Map
<1> HIDE DEF S, n, keys
<1>6. /\ dir \in Seq(S) /\ Len(dir) = n
      /\ \A k \in S : \E i \in 1..n : dir[i] = k
      /\ \A i, j \in 1..n : i < j => Before(order, dir[i], dir[j])
  <2>1. CASE order = "ascending"
    BY <1>4, <2>1 DEF Before
  <2>2. CASE order = "descending"
    <3>1. /\ dir = Reversed(keys) /\ dir \in Seq(S) /\ Len(dir) = n
          /\ \A i \in 1..n : n + 1 - i \in 1..n /\ dir[i] = keys[n + 1 - i]
      BY <1>4, <2>2, ReversedFacts
    <3> HIDE DEF dir
    <3>2. ASSUME NEW k \in S PROVE \E i \in 1..n : dir[i] = k
      <4>1. PICK j \in 1..n : keys[j] = k
        BY <1>4
      <4>2. n + 1 - j \in 1..n /\ n + 1 - (n + 1 - j) = j
        BY <1>4
      <4>3. dir[n + 1 - j] = k
        BY <3>1, <4>1, <4>2
      <4>4. QED  BY <4>2, <4>3
    <3>3. ASSUME NEW i \in 1..n, NEW j \in 1..n, i < j
          PROVE  Before(order, dir[i], dir[j])
      <4>1. /\ n + 1 - j \in 1..n /\ n + 1 - i \in 1..n /\ n + 1 - j < n + 1 - i
        BY <1>4, <3>3
      <4>2. dir[j] < dir[i]
        BY <1>4, <3>1, <4>1
      <4>3. S \subseteq Int /\ dir[i] \in S /\ dir[j] \in S
        <5>1. Keys \subseteq Int
          BY DEF Keys
        <5>2. dir[i] \in S /\ dir[j] \in S
          BY <3>1
        <5>3. QED  BY <1>5, <5>1, <5>2
      <4>4. dir[i] > dir[j]
        BY <4>2, <4>3
      <4>5. QED  BY <2>2, <4>4 DEF Before
    <3>4. QED  BY <3>1, <3>2, <3>3
  <2>3. QED  BY <2>1, <2>2 DEF Orders
<1> HIDE DEF dir, r
<1>7. \A i \in 1..n : dir[i] \in S /\ dir[i] \in Keys /\ m[dir[i]] \in Values
  BY <1>5, <1>6
<1>8. /\ r \in Seq(Keys \X Values) /\ Len(r) = n
      /\ \A i \in 1..n : r[i] = <<dir[i], m[dir[i]]>>
  <2>1. \A i \in 1..n : <<dir[i], m[dir[i]]>> \in Keys \X Values
    BY <1>7
  <2>2. QED  BY <1>2, <1>4, <1>6, <2>1
<1>9. {r[i] : i \in 1..Len(r)} = Between(m, start, end)
  <2>1. \A i \in 1..n : r[i] \in Between(m, start, end)
    BY <1>3, <1>7, <1>8
  <2>2. ASSUME NEW p \in Between(m, start, end) PROVE \E i \in 1..n : r[i] = p
    <3>1. PICK k \in S : p = <<k, m[k]>>
      BY <1>3
    <3>2. PICK i \in 1..n : dir[i] = k
      BY <1>6
    <3>3. QED  BY <1>8, <3>1, <3>2
  <2>3. QED  BY <1>8, <2>1, <2>2
<1>10. \A i, j \in 1..n : i < j => Before(order, r[i][1], r[j][1])
  <2>1. \A i \in 1..n : r[i][1] = dir[i]
    BY <1>8
  <2>2. QED  BY <1>6, <2>1 DEF Before
<1>11. QED  BY <1>8, <1>9, <1>10 DEF r
-----------------------------------------------------------------------------
(***************************************************************************)
(* Stacks: snapshots and meters.                                           *)
(***************************************************************************)
LEMMA FrontFacts ==
    ASSUME NEW S, NEW s \in Seq(S), s # <<>>
    PROVE  /\ Len(s) \in Nat /\ Len(s) >= 1 /\ Last(s) \in S /\ Last(s) = s[Len(s)]
           /\ Front(s) \in Seq(S) /\ Len(Front(s)) = Len(s) - 1
           /\ \A i \in 1..Len(s) - 1 : Front(s)[i] = s[i]
<1>1. Len(s) \in Nat /\ Len(s) >= 1
  OBVIOUS
<1>2. PICK m \in Nat : m = Len(s) - 1
  <2>1. Len(s) - 1 \in Nat
    BY <1>1
  <2>2. QED  BY <2>1
<1>3. Front(s) = SubSeq(s, 1, m) /\ m + 1 = Len(s)
  BY <1>1, <1>2 DEF Front
<1>4. Front(s) \in Seq(S) /\ Len(Front(s)) = m /\ \A i \in 1..m : Front(s)[i] = s[i]
  BY <1>1, <1>2, <1>3
<1>5. QED  BY <1>1, <1>2, <1>4 DEF Last

\* Replacing the top of a stack.
LEMMA ReplaceLast ==
    ASSUME NEW S, NEW s \in Seq(S), s # <<>>, NEW x \in S
    PROVE  /\ Append(Front(s), x) \in Seq(S)
           /\ Len(Append(Front(s), x)) = Len(s)
           /\ Append(Front(s), x)[Len(s)] = x
           /\ \A i \in 1..Len(s) - 1 : Append(Front(s), x)[i] = s[i]
<1> DEFINE f == Front(s)
<1>1. /\ Len(s) \in Nat /\ f \in Seq(S) /\ Len(f) + 1 = Len(s)
      /\ \A i \in 1..Len(f) : f[i] = s[i]
  BY FrontFacts
<1> HIDE DEF f
<1>2. /\ Append(f, x) \in Seq(S) /\ Len(Append(f, x)) = Len(f) + 1
      /\ Append(f, x)[Len(f) + 1] = x
      /\ \A i \in 1..Len(f) : Append(f, x)[i] = f[i]
  BY <1>1
<1>3. QED  BY <1>1, <1>2 DEF f

-----------------------------------------------------------------------------
(***************************************************************************)
(* The gas meters.                                                         *)
(***************************************************************************)
\* What GasExact says of one meter, and that its limit fits 64 bits.
MeterExact(m) ==
    /\ m.consumed = m.spent
    /\ m.out <=> m.spent > m.limit
    /\ m.limit <= MaxUint64

\* A chain of meters; only the innermost can be out of gas, since one that is
\* out starts no query.
ChainExact(s) ==
    /\ s \in Seq(Meter)
    /\ \A i \in 1..Len(s) : MeterExact(s[i])
    /\ \A i \in 1..Len(s) : i > 1 => s[i - 1].spent + s[i].limit <= s[i - 1].limit
    /\ \A i \in 1..Len(s) : i < Len(s) => ~s[i].out

\* One charge: the sum grows by what is taken and never leaves 64 bits.
LEMMA SpendType ==
    ASSUME NEW m \in Meter, NEW amount \in 0..MaxUint64
    PROVE  Spend(m, amount) \in Meter
<1> DEFINE next == (m.consumed + amount) % (MaxUint64 + 1)
           h == ConsumeGas(m, amount)
<1>1. MaxUint64 \in Nat /\ m.consumed \in 0..MaxUint64
  BY HostAssumption DEF Meter
<1>2. next \in 0..MaxUint64
  BY <1>1
<1>3. h \in Meter
  <2>1. CASE next < m.consumed
    BY <2>1 DEF ConsumeGas
  <2>2. CASE ~(next < m.consumed)
    <3> DEFINE o == next > m.limit
               g == [m EXCEPT !.consumed = next]
    <3>1. h = [g EXCEPT !.out = o]
      BY <2>2 DEF ConsumeGas
    <3> HIDE DEF next, h
    <3>2. g \in Meter /\ o \in BOOLEAN
      BY <1>2 DEF Meter
    <3> HIDE DEF g, o
    <3>3. QED  BY <3>1, <3>2 DEF Meter
  <2>3. QED  BY <2>1, <2>2
<1> DEFINE x == IF h.spent + amount > MaxUint64 THEN h.spent ELSE h.spent + amount
<1>4. Spend(m, amount) = [h EXCEPT !.spent = x]
  BY DEF Spend
<1> HIDE DEF h
<1>5. x \in Nat
  BY <1>1, <1>3 DEF Meter
<1> HIDE DEF x
<1>6. QED  BY <1>3, <1>4, <1>5 DEF Meter

LEMMA SpendFacts ==
    ASSUME NEW m \in Meter, NEW amount \in 0..MaxUint64, MeterExact(m), ~m.out
    PROVE  LET w == Spend(m, amount) IN
           w \in Meter /\ w.limit = m.limit /\ MeterExact(w)
<1> DEFINE c == m.consumed
           next == (c + amount) % (MaxUint64 + 1)
<1>1. /\ m.limit \in Nat /\ c \in 0..MaxUint64 /\ m.spent = c /\ c <= m.limit
      /\ MaxUint64 \in Nat /\ m.limit <= MaxUint64
  BY HostAssumption DEF Meter, MeterExact
<1> HIDE DEF c
<1>2. CASE c + amount <= MaxUint64
  <2>1. next = c + amount
    BY <1>1, <1>2
  <2> DEFINE w == Spend(m, amount)
  <2>2. w.consumed = c + amount /\ w.spent = c + amount /\ w.limit = m.limit
        /\ w.out = (c + amount > m.limit)
    BY <1>1, <1>2, <2>1 DEF Spend, ConsumeGas, Meter, c
  <2>3. w \in Meter
    BY SpendType
  <2>4. MeterExact(w)
    BY <1>1, <2>2 DEF MeterExact
  <2>5. QED  BY <2>2, <2>3, <2>4
<1>3. CASE c + amount > MaxUint64
  <2>1. next = c + amount - (MaxUint64 + 1) /\ next < c
    BY <1>1, <1>3
  <2> DEFINE w == Spend(m, amount)
  <2>2. ConsumeGas(m, amount) = m
    BY <2>1 DEF ConsumeGas, c
  <2>3. w.consumed = c /\ w.spent = c /\ w.limit = m.limit /\ w.out = m.out
    BY <1>1, <1>3, <2>2 DEF Spend, Meter, c
  <2>4. w \in Meter
    BY SpendType
  <2>5. MeterExact(w)
    BY <1>1, <2>3 DEF MeterExact
  <2>6. QED  BY <2>3, <2>4, <2>5
<1>4. QED  BY <1>1, <1>2, <1>3

\* The meter of a run or of a query that just started.
LEMMA NewMeterFacts ==
    ASSUME NEW limit \in 0..MaxUint64
    PROVE  /\ NewGasMeter(limit) \in Meter /\ MeterExact(NewGasMeter(limit))
           /\ NewGasMeter(limit).limit = limit
<1>1. MaxUint64 \in Nat /\ limit \in Nat /\ 0 \in 0..MaxUint64 /\ limit <= MaxUint64
  BY HostAssumption
<1>2. NewGasMeter(limit) \in Meter
  BY <1>1 DEF NewGasMeter, Meter
<1>3. QED  BY <1>1, <1>2 DEF NewGasMeter, MeterExact

LEMMA ChainFront ==
    ASSUME NEW s, ChainExact(s), s # <<>>
    PROVE  /\ ChainExact(Front(s))
           /\ \A i \in 1..Len(Front(s)) : ~Front(s)[i].out
<1> DEFINE f == Front(s)
<1>1. /\ s \in Seq(Meter) /\ f \in Seq(Meter) /\ Len(s) \in Nat /\ Len(f) \in Nat
      /\ Len(s) = Len(f) + 1 /\ \A i \in 1..Len(f) : f[i] = s[i]
  <2>1. s \in Seq(Meter)
    BY DEF ChainExact
  <2>2. /\ f \in Seq(Meter) /\ Len(f) = Len(s) - 1 /\ Len(s) \in Nat /\ Len(s) >= 1
        /\ \A i \in 1..Len(s) - 1 : f[i] = s[i]
    BY <2>1, FrontFacts
  <2> HIDE DEF f
  <2>3. QED  BY <2>1, <2>2
<1> HIDE DEF f
<1>2. \A i \in 1..Len(f) : /\ i \in 1..Len(s) /\ i < Len(s)
                            /\ i > 1 => i - 1 \in 1..Len(f)
  BY <1>1
<1>3. \A i \in 1..Len(f) : MeterExact(f[i]) /\ ~f[i].out
  BY <1>1, <1>2 DEF ChainExact
<1>4. ASSUME NEW i \in 1..Len(f), i > 1
      PROVE  f[i - 1].spent + f[i].limit <= f[i - 1].limit
  <2>1. f[i - 1] = s[i - 1] /\ f[i] = s[i] /\ i \in 1..Len(s)
    BY <1>1, <1>2, <1>4
  <2>2. s[i - 1].spent + s[i].limit <= s[i - 1].limit
    BY <1>4, <2>1 DEF ChainExact
  <2>3. QED  BY <2>1, <2>2
<1>5. QED  BY <1>1, <1>3, <1>4 DEF ChainExact, f

\* The innermost meter is charged.
LEMMA ChainCharged ==
    ASSUME NEW s, ChainExact(s), s # <<>>, ~Last(s).out, NEW amount \in 0..MaxUint64
    PROVE  ChainExact(Append(Front(s), Spend(Last(s), amount)))
<1> DEFINE n == Len(s)
           w == Spend(Last(s), amount)
           t == Append(Front(s), w)
<1>1. s \in Seq(Meter) /\ n \in Nat /\ n >= 1 /\ Last(s) \in Meter /\ Last(s) = s[n]
  BY FrontFacts DEF ChainExact
<1>2. MeterExact(Last(s))
  BY <1>1 DEF ChainExact
<1>3. w \in Meter /\ w.limit = s[n].limit /\ MeterExact(w)
  BY <1>1, <1>2, SpendFacts
<1> HIDE DEF w
<1>4. t \in Seq(Meter) /\ Len(t) = n /\ t[n] = w /\ \A i \in 1..n - 1 : t[i] = s[i]
  BY <1>1, <1>3, ReplaceLast
<1> HIDE DEF t
<1>5. \A i \in 1..n : i = n \/ i \in 1..n - 1
  BY <1>1
<1>6. \A i \in 1..Len(t) : MeterExact(t[i])
  BY <1>3, <1>4, <1>5 DEF ChainExact
<1>7. ASSUME NEW i \in 1..n, i > 1
      PROVE  t[i - 1].spent + t[i].limit <= t[i - 1].limit
  <2>1. i - 1 \in 1..n - 1 /\ t[i - 1] = s[i - 1]
    BY <1>1, <1>4, <1>7
  <2>2. t[i].limit = s[i].limit
    BY <1>3, <1>4, <1>5
  <2>3. s[i - 1].spent + s[i].limit <= s[i - 1].limit
    BY <1>7 DEF ChainExact
  <2>4. QED  BY <2>1, <2>2, <2>3
<1>8. \A i \in 1..n : i < n => ~t[i].out
  BY <1>1, <1>4, <1>5 DEF ChainExact
<1>9. QED  BY <1>4, <1>6, <1>7, <1>8 DEF ChainExact, t, w

\* A query is started under the innermost meter.
LEMMA ChainPushed ==
    ASSUME NEW s, ChainExact(s), s # <<>>, ~Last(s).out,
           NEW limit \in 0..GasRemaining(Last(s))
    PROVE  ChainExact(Append(s, NewGasMeter(limit)))
<1> DEFINE n == Len(s)
           m == s[n]
           w == NewGasMeter(limit)
           t == Append(s, w)
<1>1. s \in Seq(Meter) /\ n \in Nat /\ n >= 1 /\ m \in Meter /\ Last(s) = m
  BY FrontFacts DEF ChainExact
<1>2. MeterExact(m)
  BY <1>1 DEF ChainExact
<1>3. /\ m.limit \in Nat /\ m.spent \in Nat /\ m.consumed = m.spent
      /\ m.spent <= m.limit /\ m.limit <= MaxUint64 /\ MaxUint64 \in Nat
  BY <1>1, <1>2, HostAssumption DEF MeterExact, Meter
<1>4. GasRemaining(Last(s)) = m.limit - m.spent
  BY <1>1, <1>3 DEF GasRemaining
<1> HIDE DEF m
<1>5. limit \in 0..MaxUint64 /\ m.spent + limit <= m.limit
  BY <1>3, <1>4
<1>6. w \in Meter /\ w.limit = limit /\ MeterExact(w)
  BY <1>5, NewMeterFacts
<1> HIDE DEF w
<1>7. t \in Seq(Meter) /\ Len(t) = n + 1 /\ t[n + 1] = w /\ \A i \in 1..n : t[i] = s[i]
  BY <1>1, <1>6
<1> HIDE DEF t
<1>8. \A i \in 1..n + 1 : i = n + 1 \/ i \in 1..n
  BY <1>1
<1>9. \A i \in 1..n + 1 : MeterExact(t[i])
  BY <1>6, <1>7, <1>8 DEF ChainExact
<1>10. ASSUME NEW i \in 1..n + 1, i > 1
       PROVE  t[i - 1].spent + t[i].limit <= t[i - 1].limit
  <2>1. CASE i = n + 1
    <3>1. i - 1 = n /\ n \in 1..n
      BY <1>1, <2>1
    <3>2. t[i - 1] = m /\ t[i].limit = limit
      BY <1>6, <1>7, <2>1, <3>1 DEF m
    <3>3. QED  BY <1>5, <3>2
  <2>2. CASE i \in 1..n
    <3>1. i - 1 \in 1..n
      BY <1>1, <1>10, <2>2
    <3>2. t[i - 1] = s[i - 1] /\ t[i] = s[i]
      BY <1>7, <2>2, <3>1
    <3>3. s[i - 1].spent + s[i].limit <= s[i - 1].limit
      BY <1>10, <2>2 DEF ChainExact
    <3>4. QED  BY <3>2, <3>3
  <2>3. QED  BY <1>8, <2>1, <2>2
<1>11. \A i \in 1..n + 1 : i < n + 1 => ~t[i].out
  <2>1. \A i \in 1..n : ~s[i].out
    <3>1. ~s[n].out
      BY <1>1 DEF m
    <3>2. \A i \in 1..n : i = n \/ i < n
      BY <1>1
    <3>3. QED  BY <3>1, <3>2 DEF ChainExact
  <2>2. \A i \in 1..n + 1 : i < n + 1 => i \in 1..n
    BY <1>1
  <2>3. QED  BY <1>7, <2>1, <2>2
<1>12. QED  BY <1>7, <1>9, <1>10, <1>11 DEF ChainExact, t, w

LEMMA GasStep ==
    ASSUME ChainExact(meters), [Next]_vars
    PROVE  ChainExact(meters)'
<1>1. CASE UNCHANGED meters
  BY <1>1 DEF ChainExact, MeterExact
<1>2. ASSUME NEW limit \in Limits, meters' = <<NewGasMeter(limit)>>
      PROVE  ChainExact(meters')
  <2> DEFINE m == NewGasMeter(limit)
  <2>1. m \in Meter /\ MeterExact(m)
    BY NewMeterFacts, HostAssumption
  <2> HIDE DEF m
  <2>2. meters' = <<m>>
    BY <1>2 DEF m
  <2>3. QED  BY <2>1, <2>2 DEF ChainExact
<1>3. ASSUME meters' = <<>> PROVE ChainExact(meters')
  BY <1>3 DEF ChainExact
<1>4. CASE BankQuery
  BY <1>4, ChainCharged, HostAssumption DEF BankQuery
<1>5. CASE SmartQuery
  BY <1>5, ChainPushed DEF SmartQuery
<1>6. CASE SmartQueryReturns
  <2> DEFINE f == Front(meters)
  <2>1. meters # <<>> /\ meters \in Seq(Meter) /\ Len(meters) > 1
    BY <1>6 DEF SmartQueryReturns, ChainExact
  <2>2. /\ Last(meters) \in Meter /\ MeterExact(Last(meters))
        /\ f \in Seq(Meter) /\ Len(f) >= 1 /\ Len(f) \in Nat
    <3>1. /\ Last(meters) = meters[Len(meters)] /\ Len(meters) \in 1..Len(meters)
          /\ f \in Seq(Meter) /\ Len(f) = Len(meters) - 1 /\ Last(meters) \in Meter
      BY <2>1, FrontFacts
    <3>2. QED  BY <2>1, <3>1 DEF ChainExact
  <2>3. PICK used \in GasUsed(Last(meters)) :
            meters' = Append(Front(f), Spend(Last(f), used))
    BY <1>6 DEF SmartQueryReturns
  <2>4. used \in 0..MaxUint64
    BY <2>2, HostAssumption DEF GasUsed, MeterExact, Meter
  <2>5. ChainExact(f) /\ \A i \in 1..Len(f) : ~f[i].out
    BY <2>1, ChainFront
  <2> HIDE DEF f
  <2>6. f # <<>> /\ ~Last(f).out
    BY <2>2, <2>5 DEF Last
  <2>7. QED  BY <2>3, <2>4, <2>5, <2>6, ChainCharged
<1>7. ASSUME NEW g \in Goroutines, Enter(g) PROVE ChainExact(meters')
  BY <1>1, <1>2, <1>7 DEF Enter
<1>8. ASSUME NEW g \in Goroutines, Finish(g) PROVE ChainExact(meters')
  BY <1>1, <1>3, <1>8 DEF Finish
<1>9. ASSUME NEW g \in Goroutines,
             GetFails(g) \/ IterateFails(g) \/ NextPair(g) \/ CloseIter(g)
                \/ \E start, end \in Bound, order \in Orders : Iterate(g, start, end, order)
      PROVE  UNCHANGED meters
  BY <1>9 DEF GetFails, Capture, IterateFails, NextPair, CloseIter, Iterate
<1>10. ASSUME Snapshot \/ Restore \/ DropSnapshot
              \/ \E k \in Keys, v \in Values \cup {Nothing} : Put(k, v)
       PROVE  UNCHANGED meters
  BY <1>10 DEF Snapshot, Restore, DropSnapshot, Put, Capture
<1>11. QED  BY <1>1, <1>4, <1>5, <1>6, <1>7, <1>8, <1>9, <1>10 DEF Next, vars

\* A meter reports exactly the charges it took and is out of gas exactly
\* beyond its limit, also at the edge of 64 bits, and a chain of nested
\* queries is never charged more than the run that started it was given
\* (ConsumeGas, wasmQuery).
THEOREM GasIsExact == Spec => []GasExact
<1>1. Init => ChainExact(meters)
  BY DEF Init, ChainExact
<1>2. ChainExact(meters) /\ [Next]_vars => ChainExact(meters)'
  BY GasStep
<1>3. ChainExact(meters) => GasExact
  BY DEF ChainExact, MeterExact, GasExact
<1>4. QED  BY <1>1, <1>2, <1>3, PTL DEF Spec
-----------------------------------------------------------------------------
(***************************************************************************)
(* The adapters and the wrappers: types.                                   *)
(***************************************************************************)
StoreType ==
    /\ adapter \in {"memory", "sqlite"}
    /\ heap \in [Maps -> Data]
    /\ data \in Maps
    /\ snaps \in Seq([map : Maps, saved : Data])

WrapperType == kv \in [Goroutines -> Wrapper \cup {Nothing}]

\* What IteratorsExact says of one iterator.
IterExact(it) ==
    LET pairs == it.got \o it.rest IN
    /\ {pairs[i] : i \in 1..Len(pairs)} = it.all
    /\ \A i, j \in 1..Len(pairs) : i < j => Before(it.order, pairs[i][1], pairs[j][1])

WrapperExact(w) == w # Nothing /\ w.iter # Nothing => IterExact(w.iter)

WrapperInv == WrapperType /\ \A g \in Goroutines : WrapperExact(kv[g])

LEMMA ContentsType ==
    ASSUME StoreType, WrapperType, NEW g \in Goroutines, kv[g] # Nothing
    PROVE  kv[g] \in Wrapper /\ kv[g].addr \in Contracts /\ Contents(g) \in Map
<1>1. kv[g] \in Wrapper /\ kv[g].addr \in Contracts
  BY DEF WrapperType, Wrapper
<1>2. QED  BY <1>1 DEF Contents, StoreType, Data

\* One wrapper changes.
LEMMA WrapperChanged ==
    ASSUME WrapperInv, NEW g \in Goroutines, NEW w \in Wrapper \cup {Nothing},
           WrapperExact(w), kv' = [kv EXCEPT ![g] = w]
    PROVE  WrapperInv'
<1>1. kv'[g] = w /\ \A h \in Goroutines : h # g => kv'[h] = kv[h]
  BY DEF WrapperInv, WrapperType
<1>2. WrapperType'
  BY DEF WrapperInv, WrapperType
<1>3. \A h \in Goroutines : WrapperExact(kv'[h])
  BY <1>1 DEF WrapperInv
<1>4. QED  BY <1>2, <1>3 DEF WrapperInv, WrapperExact, IterExact

\* An error is captured: nothing but err and frozen changes.
LEMMA CaptureWrapper ==
    ASSUME StoreType, WrapperInv, NEW g \in Goroutines, kv[g] # Nothing, Capture(g)
    PROVE  WrapperInv'
<1> DEFINE fr == IF g = "tx" THEN Contents(g) ELSE Nothing
           v == [kv[g] EXCEPT !.err = TRUE]
           w == [v EXCEPT !.frozen = fr]
<1>1. kv[g] \in Wrapper /\ fr \in Map \cup {Nothing}
  BY ContentsType DEF WrapperInv
<1>2. kv' = [kv EXCEPT ![g] = w]
  BY <1>1 DEF Capture, WrapperInv, WrapperType
<1> HIDE DEF fr
<1>3. v \in Wrapper /\ v.iter = kv[g].iter
  BY <1>1 DEF Wrapper
<1> HIDE DEF v
<1>4. w \in Wrapper /\ w.iter = kv[g].iter
  BY <1>1, <1>3 DEF Wrapper
<1> HIDE DEF w
<1>5. WrapperExact(w)
  BY <1>4 DEF WrapperInv, WrapperExact
<1>6. QED  BY <1>2, <1>4, <1>5, WrapperChanged

\* An iterator is opened or closed.
LEMMA IterSet ==
    ASSUME WrapperInv, NEW g \in Goroutines, kv[g] # Nothing,
           NEW it \in Iter \cup {Nothing}, it # Nothing => IterExact(it),
           kv' = [kv EXCEPT ![g].iter = it]
    PROVE  WrapperInv'
<1> DEFINE w == [kv[g] EXCEPT !.iter = it]
<1>1. kv[g] \in Wrapper
  BY DEF WrapperInv, WrapperType
<1>2. kv' = [kv EXCEPT ![g] = w]
  OBVIOUS
<1>3. w \in Wrapper /\ w.iter = it
  BY <1>1 DEF Wrapper
<1> HIDE DEF w
<1>4. WrapperExact(w)
  BY <1>3 DEF WrapperExact
<1>5. QED  BY <1>2, <1>3, <1>4, WrapperChanged

LEMMA IterRecord ==
    ASSUME NEW rest \in Seq(Keys \X Values), NEW got \in Seq(Keys \X Values),
           NEW all \in SUBSET (Keys \X Values), NEW order \in Orders
    PROVE  [rest |-> rest, got |-> got, all |-> all, order |-> order] \in Iter
BY DEF Iter

\* What has not been read yet is all there is.
LEMMA FreshIterExact ==
    ASSUME NEW rest \in Seq(Keys \X Values), NEW all, NEW order,
           {rest[i] : i \in 1..Len(rest)} = all,
           \A i, j \in 1..Len(rest) : i < j => Before(order, rest[i][1], rest[j][1])
    PROVE  IterExact([rest |-> rest, got |-> <<>>, all |-> all, order |-> order])
<1>1. <<>> \o rest = rest
  OBVIOUS
<1>2. QED  BY <1>1 DEF IterExact

LEMMA IterateWrapper ==
    ASSUME StoreType, WrapperInv, NEW g \in Goroutines, NEW start \in Bound,
           NEW end \in Bound, NEW order \in Orders, Iterate(g, start, end, order)
    PROVE  WrapperInv'
<1> DEFINE rest == RangeOf(Contents(g), start, end, order)
           all == Between(Contents(g), start, end)
           it == [rest |-> rest, got |-> <<>>, all |-> all, order |-> order]
<1>1. kv[g] # Nothing /\ kv' = [kv EXCEPT ![g].iter = it]
  BY DEF Iterate, Running
<1>2. Contents(g) \in Map
  BY <1>1, ContentsType DEF WrapperInv
<1>3. /\ rest \in Seq(Keys \X Values) /\ {rest[i] : i \in 1..Len(rest)} = all
      /\ \A i, j \in 1..Len(rest) : i < j => Before(order, rest[i][1], rest[j][1])
  BY <1>2, RangeFacts
<1> HIDE DEF rest, all
<1>4. all \in SUBSET (Keys \X Values)
  BY <1>3
<1>5. it \in Iter
  <2>1. <<>> \in Seq(Keys \X Values)
    OBVIOUS
  <2>2. QED  BY <1>3, <1>4, <2>1, IterRecord
<1>6. IterExact(it)
  BY <1>3, FreshIterExact
<1> HIDE DEF it
<1>7. QED  BY <1>1, <1>5, <1>6, IterSet

LEMMA IterateFailsWrapper ==
    ASSUME WrapperInv, NEW g \in Goroutines, IterateFails(g)
    PROVE  WrapperInv'
<1>1. kv[g] # Nothing /\ kv' = [kv EXCEPT ![g].iter = emptyIterator]
  BY DEF IterateFails, Running
<1>2. /\ <<>> \in Seq(Keys \X Values) /\ {} \in SUBSET (Keys \X Values)
      /\ "ascending" \in Orders
  BY DEF Orders
<1>3. emptyIterator \in Iter
  BY <1>2, IterRecord DEF emptyIterator
<1>4. IterExact(emptyIterator)
  <2> DEFINE rest == <<>>
  <2>1. rest \in Seq(Keys \X Values) /\ 1..Len(rest) = {}
    BY <1>2
  <2>2. emptyIterator = [rest |-> rest, got |-> <<>>, all |-> {}, order |-> "ascending"]
    BY DEF emptyIterator
  <2> HIDE DEF rest
  <2>3. {rest[i] : i \in 1..Len(rest)} = {}
    BY <2>1
  <2>4. QED  BY <2>1, <2>2, <2>3, FreshIterExact
<1>5. QED  BY <1>1, <1>3, <1>4, IterSet
LEMMA ConcatFacts ==
    ASSUME NEW S, NEW a \in Seq(S), NEW b \in Seq(S)
    PROVE  /\ Len(a \o b) = Len(a) + Len(b)
           /\ \A i \in 1..Len(a) + Len(b) :
                (a \o b)[i] = IF i <= Len(a) THEN a[i] ELSE b[i - Len(a)]
OBVIOUS

\* A pair moves from what is left to what was read: the two together stay.
LEMMA PairMoves ==
    ASSUME NEW S, NEW got \in Seq(S), NEW rest \in Seq(S), rest # <<>>
    PROVE  LET a == Append(got, Head(rest)) \o Tail(rest)
               b == got \o rest
           IN  Len(a) = Len(b) /\ \A i \in 1..Len(b) : a[i] = b[i]
<1> DEFINE x == Head(rest)
           t == Tail(rest)
           ax == Append(got, x)
<1>1. /\ Len(got) \in Nat /\ Len(rest) \in Nat /\ Len(rest) >= 1
      /\ x \in S /\ x = rest[1] /\ t \in Seq(S) /\ Len(t) = Len(rest) - 1
      /\ \A i \in 1..Len(t) : t[i] = rest[i + 1]
  OBVIOUS
<1> HIDE DEF x, t
<1>2. /\ ax \in Seq(S) /\ Len(ax) = Len(got) + 1 /\ ax[Len(got) + 1] = x
      /\ \A i \in 1..Len(got) : ax[i] = got[i]
  BY <1>1
<1> HIDE DEF ax
<1>3. /\ Len(ax \o t) = Len(ax) + Len(t)
      /\ \A i \in 1..Len(ax) + Len(t) :
            (ax \o t)[i] = IF i <= Len(ax) THEN ax[i] ELSE t[i - Len(ax)]
  BY <1>1, <1>2, ConcatFacts
<1>4. /\ Len(got \o rest) = Len(got) + Len(rest)
      /\ \A i \in 1..Len(got) + Len(rest) :
            (got \o rest)[i] = IF i <= Len(got) THEN got[i] ELSE rest[i - Len(got)]
  BY <1>1
<1>5. Len(ax \o t) = Len(got \o rest)
  BY <1>1, <1>2, <1>3, <1>4
<1>6. ASSUME NEW i \in 1..Len(got) + Len(rest)
      PROVE  (ax \o t)[i] = (got \o rest)[i]
  <2>1. CASE i <= Len(got)
    BY <1>1, <1>2, <1>3, <1>4, <2>1
  <2>2. CASE i = Len(got) + 1
    BY <1>1, <1>2, <1>3, <1>4, <2>2
  <2>3. CASE i > Len(got) + 1
    <3>1. /\ i - Len(ax) \in 1..Len(t) /\ (i - Len(ax)) + 1 = i - Len(got)
          /\ ~(i <= Len(ax)) /\ ~(i <= Len(got)) /\ i \in 1..Len(ax) + Len(t)
      BY <1>1, <1>2, <2>3
    <3>2. (ax \o t)[i] = t[i - Len(ax)] /\ (got \o rest)[i] = rest[i - Len(got)]
      BY <1>3, <1>4, <3>1
    <3>3. t[i - Len(ax)] = rest[(i - Len(ax)) + 1]
      BY <1>1, <3>1
    <3>4. QED  BY <3>1, <3>2, <3>3
  <2>4. i <= Len(got) \/ i = Len(got) + 1 \/ i > Len(got) + 1
    <3>1. i \in Int /\ Len(got) \in Int
      BY <1>1
    <3>2. QED  BY <3>1
  <2>5. QED  BY <2>1, <2>2, <2>3, <2>4
<1>7. QED  BY <1>4, <1>5, <1>6 DEF ax, t, x

LEMMA NextPairWrapper ==
    ASSUME WrapperInv, NEW g \in Goroutines, NextPair(g)
    PROVE  WrapperInv'
<1> DEFINE o == kv[g].iter
           S == Keys \X Values
           r == o.rest
           q == o.got
           a == Append(q, Head(r))
           v == [o EXCEPT !.rest = Tail(r)]
           it == [v EXCEPT !.got = a]
<1>1. /\ kv[g] # Nothing /\ o # Nothing /\ r # <<>>
      /\ kv' = [kv EXCEPT ![g].iter.rest = Tail(@),
                          ![g].iter.got = Append(@, Head(r))]
  BY DEF NextPair, Running
<1>2. kv[g] \in Wrapper /\ o \in Iter
  BY <1>1 DEF WrapperInv, WrapperType, Wrapper
<1>3. r \in Seq(S) /\ q \in Seq(S)
  BY <1>2 DEF Iter
<1>4. kv' = [kv EXCEPT ![g].iter = it]
  BY <1>1, <1>2, <1>3 DEF WrapperInv, WrapperType, Wrapper, Iter
<1>5. Tail(r) \in Seq(S) /\ a \in Seq(S)
  <2> HIDE DEF r, q, S
  <2>1. Head(r) \in S /\ Tail(r) \in Seq(S)
    BY <1>1, <1>3
  <2>2. QED  BY <1>3, <2>1
<1>6. LET x == a \o Tail(r)
          y == q \o r
      IN  Len(x) = Len(y) /\ \A i \in 1..Len(y) : x[i] = y[i]
  <2> HIDE DEF r, q, S
  <2>1. QED  BY <1>1, <1>3, PairMoves
<1>7. /\ it \in Iter /\ it.rest = Tail(r) /\ it.got = a
      /\ it.all = o.all /\ it.order = o.order
  <2> DEFINE tl == Tail(r)
  <2>1. tl \in Seq(S) /\ a \in Seq(S)
    BY <1>5
  <2> HIDE DEF a, tl
  <2>2. v \in Iter /\ v.rest = tl /\ v.all = o.all /\ v.order = o.order
    BY <1>2, <2>1 DEF Iter, tl
  <2> HIDE DEF v
  <2>3. QED  BY <2>1, <2>2 DEF Iter, tl
<1>8. IterExact(it)
  <2> DEFINE x == a \o Tail(r)
             y == q \o r
  <2>1. Len(x) = Len(y) /\ \A i \in 1..Len(y) : x[i] = y[i]
    BY <1>6
  <2>2. IterExact(o)
    BY <1>1 DEF WrapperInv, WrapperExact
  <2>3. /\ {y[i] : i \in 1..Len(y)} = o.all
        /\ \A i, j \in 1..Len(y) : i < j => Before(o.order, y[i][1], y[j][1])
    BY <2>2 DEF IterExact
  <2>4. it.got \o it.rest = x /\ it.all = o.all /\ it.order = o.order
    BY <1>7
  <2> HIDE DEF x, y, it
  <2>5. /\ {x[i] : i \in 1..Len(x)} = o.all
        /\ \A i, j \in 1..Len(x) : i < j => Before(o.order, x[i][1], x[j][1])
    BY <2>1, <2>3
  <2>6. QED  BY <2>4, <2>5 DEF IterExact
<1> HIDE DEF it, o
<1>9. QED  BY <1>1, <1>4, <1>7, <1>8, IterSet
-----------------------------------------------------------------------------
(***************************************************************************)
(* The maps: no two of those in use are the same.                          *)
(***************************************************************************)
Snap == [map : Maps, saved : Data]

MapsDistinct ==
    /\ \A i \in 1..Len(snaps) : snaps[i].map # data
    /\ \A i, j \in 1..Len(snaps) : snaps[i].map = snaps[j].map => i = j

StoreInv == StoreType /\ SnapshotsIntact /\ MapsDistinct

LEMMA SnapsFacts ==
    ASSUME StoreType
    PROVE  /\ snaps \in Seq(Snap) /\ Len(snaps) \in Nat
           /\ \A i \in 1..Len(snaps) : snaps[i].map \in Maps /\ snaps[i].saved \in Data
<1>1. snaps \in Seq(Snap) /\ Len(snaps) \in Nat
  BY DEF StoreType, Snap
<1>2. \A x \in Snap : x.map \in Maps /\ x.saved \in Data
  BY DEF Snap
<1>3. QED  BY <1>1, <1>2

\* The innermost snapshot is taken off the stack.
LEMMA SnapsPopped ==
    ASSUME StoreType, snaps # <<>>, snaps' = Front(snaps)
    PROVE  /\ snaps' \in Seq(Snap) /\ Last(snaps) = snaps[Len(snaps)]
           /\ Len(snaps) \in Nat /\ Len(snaps) >= 1 /\ Len(snaps) \in 1..Len(snaps)
           /\ Len(snaps') = Len(snaps) - 1
           /\ \A i \in 1..Len(snaps') :
                snaps'[i] = snaps[i] /\ i \in 1..Len(snaps) /\ i # Len(snaps)
<1>1. snaps \in Seq(Snap)
  BY SnapsFacts
<1>2. /\ Front(snaps) \in Seq(Snap) /\ Last(snaps) = snaps[Len(snaps)]
      /\ Len(snaps) \in Nat /\ Len(snaps) >= 1 /\ Len(Front(snaps)) = Len(snaps) - 1
      /\ \A i \in 1..Len(snaps) - 1 : Front(snaps)[i] = snaps[i]
  BY <1>1, FrontFacts
<1>3. \A i \in 1..Len(snaps) - 1 : i \in 1..Len(snaps) /\ i # Len(snaps)
  BY <1>2
<1>4. QED  BY <1>2, <1>3

LEMMA EmptyType == Empty \in Data
BY DEF Empty, Data, Map

LEMMA SnapshotStore ==
    ASSUME StoreInv, Snapshot
    PROVE  StoreInv'
<1>1. PICK new \in Maps \ Live :
        /\ heap' = [heap EXCEPT ![new] = heap[data]]
        /\ snaps' = Append(snaps, [map |-> new, saved |-> heap[data]])
  BY DEF Snapshot
<1> DEFINE s == [map |-> new, saved |-> heap[data]]
           n == Len(snaps) + 1
<1>2. StoreType /\ data' = data /\ adapter' = adapter /\ heap[data] \in Data /\ new \in Maps
  BY DEF StoreInv, StoreType, Snapshot
<1>3. new # data /\ \A i \in 1..Len(snaps) : snaps[i].map # new
  BY DEF Live
<1>4. s \in Snap /\ s.map = new /\ s.saved = heap[data]
  BY <1>2 DEF Snap
<1> HIDE DEF s
<1>5. /\ snaps' \in Seq(Snap) /\ Len(snaps') = n /\ snaps'[n] = s
      /\ \A i \in 1..Len(snaps) : snaps'[i] = snaps[i]
      /\ \A i \in 1..n : i = n \/ i \in 1..Len(snaps)
  <2>1. snaps \in Seq(Snap) /\ snaps' = Append(snaps, s) /\ Len(snaps) \in Nat
    BY <1>1, <1>2, SnapsFacts DEF s
  <2>2. QED  BY <1>4, <2>1
<1> HIDE DEF n
<1>6. /\ heap' \in [Maps -> Data] /\ heap'[new] = heap[data]
      /\ \A m \in Maps : m # new => heap'[m] = heap[m]
  BY <1>1, <1>2 DEF StoreType
<1>7. StoreType'
  BY <1>2, <1>5, <1>6 DEF StoreType, Snap
<1>8. SnapshotsIntact'
  <2>1. ASSUME NEW i \in 1..Len(snaps) PROVE heap'[snaps'[i].map] = snaps'[i].saved
    BY <1>2, <1>3, <1>5, <1>6, SnapsFacts DEF StoreInv, SnapshotsIntact
  <2>2. heap'[snaps'[n].map] = snaps'[n].saved
    BY <1>4, <1>5, <1>6
  <2>3. QED  BY <1>5, <2>1, <2>2 DEF SnapshotsIntact
<1>9. MapsDistinct'
  BY <1>2, <1>3, <1>4, <1>5 DEF StoreInv, MapsDistinct
<1>10. QED  BY <1>7, <1>8, <1>9 DEF StoreInv

LEMMA RestoreStore ==
    ASSUME StoreInv, Restore
    PROVE  StoreInv'
<1> DEFINE n == Len(snaps)
<1>1. /\ StoreType /\ snaps # <<>> /\ snaps' = Front(snaps) /\ adapter' = adapter
      /\ data' = Last(snaps).map /\ heap' = [heap EXCEPT ![data] = Empty]
  BY DEF StoreInv, Restore
<1>2. /\ snaps' \in Seq(Snap) /\ Last(snaps) = snaps[n] /\ n \in 1..n
      /\ \A i \in 1..Len(snaps') : snaps'[i] = snaps[i] /\ i \in 1..n /\ i # n
  BY <1>1, SnapsPopped
<1>3. /\ heap' \in [Maps -> Data] /\ \A m \in Maps : m # data => heap'[m] = heap[m]
  BY <1>1, EmptyType DEF StoreType
<1>4. \A i \in 1..n : snaps[i].map \in Maps
  BY <1>1, SnapsFacts
<1> HIDE DEF n
<1>5. StoreType'
  BY <1>1, <1>2, <1>3, <1>4 DEF StoreType, Snap
<1>6. SnapshotsIntact'
  BY <1>2, <1>3, <1>4 DEF StoreInv, SnapshotsIntact, MapsDistinct, n
<1>7. MapsDistinct'
  BY <1>1, <1>2 DEF StoreInv, MapsDistinct, n
<1>8. QED  BY <1>5, <1>6, <1>7 DEF StoreInv

LEMMA DropSnapshotStore ==
    ASSUME StoreInv, DropSnapshot
    PROVE  StoreInv'
<1> DEFINE n == Len(snaps)
<1>1. /\ StoreType /\ snaps # <<>> /\ snaps' = Front(snaps) /\ adapter' = adapter
      /\ data' = data /\ heap' = [heap EXCEPT ![Last(snaps).map] = Empty]
  BY DEF StoreInv, DropSnapshot
<1>2. /\ snaps' \in Seq(Snap) /\ Last(snaps) = snaps[n] /\ n \in 1..n
      /\ \A i \in 1..Len(snaps') : snaps'[i] = snaps[i] /\ i \in 1..n /\ i # n
  BY <1>1, SnapsPopped
<1>3. \A i \in 1..n : snaps[i].map \in Maps
  BY <1>1, SnapsFacts
<1>4. /\ heap' \in [Maps -> Data]
      /\ \A m \in Maps : m # snaps[n].map => heap'[m] = heap[m]
  BY <1>1, <1>2, <1>3, EmptyType DEF StoreType
<1> HIDE DEF n
<1>5. StoreType'
  BY <1>1, <1>2, <1>4 DEF StoreType, Snap
<1>6. SnapshotsIntact'
  BY <1>2, <1>3, <1>4 DEF StoreInv, SnapshotsIntact, MapsDistinct, n
<1>7. MapsDistinct'
  BY <1>1, <1>2 DEF StoreInv, MapsDistinct, n
<1>8. QED  BY <1>5, <1>6, <1>7 DEF StoreInv

\* A write reaches the map in use and no snapshot.
LEMMA WriteStore ==
    ASSUME StoreInv, WrapperType, kv["tx"] # Nothing, NEW k \in Keys,
           NEW v \in Values \cup {Nothing},
           heap' = [heap EXCEPT ![data][kv["tx"].addr][k] = v],
           UNCHANGED <<adapter, data, snaps>>
    PROVE  StoreInv'
<1> DEFINE c == kv["tx"].addr
           m == [heap[data][c] EXCEPT ![k] = v]
           d == [heap[data] EXCEPT ![c] = m]
<1>1. /\ c \in Contracts /\ data \in Maps /\ heap \in [Maps -> Data] /\ StoreType
  BY ContentsType DEF StoreInv, StoreType, Goroutines
<1>2. heap[data] \in Data /\ heap[data][c] \in Map
  BY <1>1 DEF Data
<1>3. heap' = [heap EXCEPT ![data] = d]
  OBVIOUS
<1>4. m \in Map
  BY <1>2 DEF Map
<1> HIDE DEF m
<1>5. d \in Data
  BY <1>1, <1>2, <1>4 DEF Data
<1> HIDE DEF d
<1>6. heap' \in [Maps -> Data] /\ \A x \in Maps : x # data => heap'[x] = heap[x]
  BY <1>1, <1>3, <1>5
<1>7. SnapshotsIntact'
  BY <1>1, <1>6, SnapsFacts DEF StoreInv, SnapshotsIntact, MapsDistinct
<1>8. QED  BY <1>1, <1>6, <1>7 DEF StoreInv, StoreType, MapsDistinct

-----------------------------------------------------------------------------
(***************************************************************************)
(* One step.                                                               *)
(***************************************************************************)
HostInv == StoreInv /\ WrapperInv /\ ErrorsFreeze

\* A wrapper that is not the transaction's, or has no error, freezes nothing.
LEMMA FrozenKept ==
    ASSUME ErrorsFreeze, UNCHANGED <<heap, data>>,
           kv'["tx"] = kv["tx"] \/ kv'["tx"] = Nothing \/ ~kv'["tx"].err
             \/ (kv["tx"] # Nothing /\ kv'["tx"].err = kv["tx"].err
                   /\ kv'["tx"].frozen = kv["tx"].frozen
                   /\ kv'["tx"].addr = kv["tx"].addr)
    PROVE  ErrorsFreeze'
BY DEF ErrorsFreeze, Contents

LEMMA CaptureStep ==
    ASSUME HostInv, NEW g \in Goroutines, kv[g] # Nothing, Capture(g)
    PROVE  HostInv'
<1>1. UNCHANGED <<adapter, heap, data, snaps>>
  BY DEF Capture
<1>2. StoreInv'
  BY <1>1 DEF HostInv, StoreInv, StoreType, SnapshotsIntact, MapsDistinct
<1>3. WrapperInv'
  BY CaptureWrapper DEF HostInv, StoreInv
<1>4. kv[g] \in Wrapper
  BY DEF HostInv, WrapperInv, WrapperType
<1>5. ErrorsFreeze'
  <2>1. CASE g = "tx"
    <3>1. /\ kv'["tx"].frozen = Contents("tx") /\ kv'["tx"].addr = kv["tx"].addr
      BY <1>4, <2>1 DEF Capture, HostInv, WrapperInv, WrapperType, Wrapper
    <3>2. QED  BY <1>1, <3>1 DEF ErrorsFreeze, Contents
  <2>2. CASE g # "tx"
    <3>1. kv'["tx"] = kv["tx"]
      BY <2>2 DEF Capture, HostInv, WrapperInv, WrapperType, Goroutines
    <3>2. QED  BY <1>1, <3>1, FrozenKept DEF HostInv
  <2>3. QED  BY <2>1, <2>2
<1>6. QED  BY <1>2, <1>3, <1>5 DEF HostInv

\* A step on an iterator leaves the rest of the wrapper as it is.
LEMMA IterStep ==
    ASSUME HostInv, NEW g \in Goroutines,
           IterateFails(g) \/ NextPair(g) \/ CloseIter(g)
             \/ \E start, end \in Bound, order \in Orders : Iterate(g, start, end, order)
    PROVE  HostInv'
<1>1. UNCHANGED <<adapter, heap, data, snaps>> /\ kv[g] # Nothing
  BY DEF IterateFails, NextPair, CloseIter, Iterate, Running
<1>2. StoreInv'
  BY <1>1 DEF HostInv, StoreInv, StoreType, SnapshotsIntact, MapsDistinct
<1>3. WrapperInv'
  <2>1. CASE CloseIter(g)
    BY <1>1, <2>1, IterSet DEF CloseIter, HostInv
  <2>2. QED  BY <2>1, IterateFailsWrapper, NextPairWrapper, IterateWrapper
             DEF HostInv, StoreInv
<1>4. kv[g] \in Wrapper
  BY <1>1 DEF HostInv, WrapperInv, WrapperType
<1>5. /\ kv'[g].err = kv[g].err /\ kv'[g].frozen = kv[g].frozen
      /\ kv'[g].addr = kv[g].addr
      /\ \A h \in Goroutines : h # g => kv'[h] = kv[h]
  BY <1>4 DEF IterateFails, NextPair, CloseIter, Iterate, HostInv, WrapperInv, WrapperType,
              Wrapper
<1>6. ErrorsFreeze'
  BY <1>1, <1>5, FrozenKept DEF HostInv, Goroutines
<1>7. QED  BY <1>2, <1>3, <1>6 DEF HostInv

LEMMA EnterStep ==
    ASSUME HostInv, NEW g \in Goroutines, Enter(g) \/ Finish(g)
    PROVE  HostInv'
<1>1. UNCHANGED <<adapter, heap, data, snaps>>
  BY DEF Enter, Finish
<1>2. StoreInv'
  BY <1>1 DEF HostInv, StoreInv, StoreType, SnapshotsIntact, MapsDistinct
<1>3. PICK w \in Wrapper \cup {Nothing} :
        /\ kv' = [kv EXCEPT ![g] = w]
        /\ w = Nothing \/ (w.err = FALSE /\ w.iter = Nothing)
  <2>1. \A addr \in Contracts : /\ newContractKVStore(addr) \in Wrapper
                                /\ newContractKVStore(addr).err = FALSE
                                /\ newContractKVStore(addr).iter = Nothing
    BY DEF newContractKVStore, Wrapper
  <2>2. QED  BY <2>1 DEF Enter, Finish
<1>4. WrapperExact(w)
  BY <1>3 DEF WrapperExact
<1>5. WrapperInv'
  BY <1>3, <1>4, WrapperChanged DEF HostInv
<1>6. kv'["tx"] = kv["tx"] \/ kv'["tx"] = w
  BY <1>3 DEF HostInv, WrapperInv, WrapperType, Goroutines
<1>7. ErrorsFreeze'
  BY <1>1, <1>3, <1>6, FrozenKept DEF HostInv
<1>8. QED  BY <1>2, <1>5, <1>7 DEF HostInv

LEMMA HostStep ==
    ASSUME HostInv, [Next]_vars
    PROVE  HostInv'
<1>1. CASE UNCHANGED <<adapter, heap, data, snaps, kv>>
  BY <1>1 DEF HostInv, StoreInv, StoreType, SnapshotsIntact, MapsDistinct, WrapperInv,
              WrapperType, WrapperExact, IterExact, ErrorsFreeze, Contents
<1>2. CASE Snapshot \/ Restore \/ DropSnapshot
  <2>1. StoreInv'
    BY <1>2, SnapshotStore, RestoreStore, DropSnapshotStore DEF HostInv
  <2>2. kv' = kv /\ kv["tx"] = Nothing
    BY <1>2 DEF Snapshot, Restore, DropSnapshot
  <2>3. WrapperInv'
    BY <2>2 DEF HostInv, WrapperInv, WrapperType, WrapperExact, IterExact
  <2>4. ErrorsFreeze'
    BY <2>2 DEF ErrorsFreeze
  <2>5. QED  BY <2>1, <2>3, <2>4 DEF HostInv
<1>3. ASSUME NEW k \in Keys, NEW v \in Values \cup {Nothing}, Put(k, v)
      PROVE  HostInv'
  <2>1. kv["tx"] # Nothing /\ ~kv["tx"].err /\ "tx" \in Goroutines
    BY <1>3 DEF Put, Running, Goroutines
  <2>2. CASE Capture("tx")
    BY <2>1, <2>2, CaptureStep
  <2>3. CASE /\ heap' = [heap EXCEPT ![data][kv["tx"].addr][k] = v]
             /\ UNCHANGED <<adapter, data, snaps, kv, meters>>
    <3>1. StoreInv'
      BY <2>1, <2>3, WriteStore DEF HostInv, WrapperInv
    <3>2. WrapperInv'
      BY <2>3 DEF HostInv, WrapperInv, WrapperType, WrapperExact, IterExact
    <3>3. ErrorsFreeze'
      BY <2>1, <2>3 DEF ErrorsFreeze
    <3>4. QED  BY <3>1, <3>2, <3>3 DEF HostInv
  <2>4. QED  BY <1>3, <2>2, <2>3 DEF Put
<1>4. ASSUME NEW g \in Goroutines, GetFails(g) PROVE HostInv'
  BY <1>4, CaptureStep DEF GetFails, Running
<1>5. CASE BankQuery \/ SmartQuery \/ SmartQueryReturns
  BY <1>1, <1>5 DEF BankQuery, SmartQuery, SmartQueryReturns
<1>6. QED  BY <1>1, <1>2, <1>3, <1>4, <1>5, IterStep, EnterStep DEF Next, vars
LEMMA HostInductive ==
    /\ Init => HostInv
    /\ HostInv /\ [Next]_vars => HostInv'
<1>1. ASSUME Init PROVE HostInv
  <2>1. snaps = <<>> /\ <<>> \in Seq(Snap) /\ 1..Len(snaps) = {}
    BY <1>1 DEF Init
  <2>2. StoreType
    BY <1>1, <2>1, EmptyType DEF Init, StoreType, Snap
  <2>3. SnapshotsIntact /\ MapsDistinct
    BY <2>1 DEF SnapshotsIntact, MapsDistinct
  <2>4. WrapperInv /\ ErrorsFreeze
    BY <1>1 DEF Init, WrapperInv, WrapperType, WrapperExact, ErrorsFreeze, Goroutines
  <2>5. QED  BY <2>2, <2>3, <2>4 DEF HostInv, StoreInv
<1>2. QED  BY <1>1, HostStep

\* The adapters, the wrappers and the meters keep their types: what Range
\* lists is pairs of a key and a value, what a run writes is a value of the
\* contract's own storage, and no meter leaves 64 bits (storage/, host.go,
\* gas.go).
THEOREM TypeCorrect == Spec => []TypeOK
<1>1. Init => HostInv /\ ChainExact(meters)
  BY HostInductive DEF Init, ChainExact
<1>2. HostInv /\ ChainExact(meters) /\ [Next]_vars => HostInv' /\ ChainExact(meters)'
  BY HostInductive, GasStep
<1>3. HostInv /\ ChainExact(meters) => TypeOK
  BY DEF HostInv, StoreInv, StoreType, WrapperInv, WrapperType, ChainExact, TypeOK
<1>4. QED  BY <1>1, <1>2, <1>3, PTL DEF Spec

\* A snapshot that may still be restored has the contents it was taken with,
\* for any number of nested snapshots, restores and writes: deepCopy makes a
\* map of its own, and Restore takes that map out of the snapshots it puts
\* it to use from (memory.Store.Snapshot, Restore).
THEOREM SnapshotsStayIntact == Spec => []SnapshotsIntact
<1>1. HostInv => SnapshotsIntact
  BY DEF HostInv, StoreInv
<1>2. QED  BY <1>1, HostInductive, PTL DEF Spec

\* An iterator yields exactly the pairs that lay between its bounds when it
\* was opened, each once and in order, whatever is written, rolled back or
\* queried in the meantime, for any set of keys (Range, sliceIterator).
THEOREM IteratorsAreExact == Spec => []IteratorsExact
<1>1. HostInv => IteratorsExact
  BY DEF HostInv, WrapperInv, WrapperExact, IterExact, IteratorsExact
<1>2. QED  BY <1>1, HostInductive, PTL DEF Spec

\* A writing run that met a storage error changes nothing any more: the
\* wrapper looks at the captured error before every write, and nobody else
\* writes, snapshots or restores while the run lasts (contractKVStore).
THEOREM ErrorsAreFinal == Spec => []ErrorsFreeze
<1>1. HostInv => ErrorsFreeze
  BY DEF HostInv
<1>2. QED  BY <1>1, HostInductive, PTL DEF Spec
=============================================================================
