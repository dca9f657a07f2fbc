----------------------------- MODULE SumProofs -----------------------------
(***************************************************************************)
(* What is known of sums: their type, what changing one value does, what a *)
(* payment from one account to another does, and the sum of sequences.     *)
(***************************************************************************)
EXTENDS Sums, Sequences, FiniteSetTheorems, TLAPS

\* The units of one argument.
LEMMA UnitsAt ==
    ASSUME NEW x, NEW n \in Int
    PROVE  /\ IsFiniteSet({x} \X (1..n))
           /\ n >= 0 => Cardinality({x} \X (1..n)) = n
<1> DEFINE X == {x}
           N == 1..n
<1>1. IsFiniteSet(X) /\ Cardinality(X) = 1
  BY FS_Singleton
<1>2. IsFiniteSet(N) /\ (n >= 0 => Cardinality(N) = n)
  BY FS_Interval
<1> HIDE DEF X, N
<1>3. IsFiniteSet(X \X N) /\ Cardinality(X \X N) = Cardinality(X) * Cardinality(N)
  BY <1>1, <1>2, FS_Product
<1>4. IsFiniteSet(X \X N) /\ (n >= 0 => Cardinality(X \X N) = n)
  BY <1>1, <1>2, <1>3
<1>5. QED  BY <1>4 DEF X, N

\* Which pairs are units.
LEMMA UnitsMember ==
    ASSUME NEW D, NEW f \in [D -> Int]
    PROVE  /\ \A x \in D : \A i \in 1..f[x] : <<x, i>> \in Units(f)
           /\ \A u \in Units(f) : /\ u = <<u[1], u[2]>>
                                  /\ u[1] \in D
                                  /\ u[2] \in 1..f[u[1]]
<1>1. DOMAIN f = D
  OBVIOUS
<1>2. ASSUME NEW x \in D, NEW i \in 1..f[x]
      PROVE  <<x, i>> \in Units(f)
  <2>1. <<x, i>> \in {x} \X (1..f[x])
    OBVIOUS
  <2>2. QED  BY <1>1, <2>1 DEF Units
<1>3. ASSUME NEW u \in Units(f)
      PROVE  /\ u = <<u[1], u[2]>>
             /\ u[1] \in D
             /\ u[2] \in 1..f[u[1]]
  <2>1. PICK x \in D : u \in {x} \X (1..f[x])
    BY <1>1, <1>3 DEF Units
  <2>2. QED  BY <2>1
<1>4. QED  BY <1>2, <1>3

\* A finite balance sheet has finitely many units.
LEMMA TotalType ==
    ASSUME NEW D, IsFiniteSet(D), NEW f \in [D -> Int]
    PROVE  IsFiniteSet(Units(f)) /\ Total(f) \in Nat
<1> DEFINE F == [x \in D |-> {x} \X (1..f[x])]
           R == {{x} \X (1..f[x]) : x \in D}
<1>1. F \in Surjection(D, R)
  BY DEF Surjection
<1>2. \A x \in D : IsFiniteSet({x} \X (1..f[x]))
  BY UnitsAt
<1>3. \A T \in R : IsFiniteSet(T)
  BY <1>2
<1>4. Units(f) = UNION R
  BY DEF Units
<1> HIDE DEF F, R
<1>5. IsFiniteSet(R)
  BY <1>1, FS_Surjection
<1>6. IsFiniteSet(UNION R)
  BY <1>3, <1>5, FS_UNION
<1>7. QED  BY <1>4, <1>6, FS_CardinalityType DEF Total

\* A set in two parts that have nothing in common.
LEMMA DisjointUnion ==
    ASSUME NEW S, IsFiniteSet(S), NEW T, IsFiniteSet(T), S \cap T = {}
    PROVE  /\ IsFiniteSet(S \cup T)
           /\ Cardinality(S \cup T) = Cardinality(S) + Cardinality(T)
           /\ Cardinality(S) \in Nat /\ Cardinality(T) \in Nat
<1>1. Cardinality(S) \in Nat /\ Cardinality(T) \in Nat
  BY FS_CardinalityType
<1>2. Cardinality(S \cap T) = 0
  BY FS_EmptySet
<1>3. /\ IsFiniteSet(S \cup T)
      /\ Cardinality(S \cup T) = Cardinality(S) + Cardinality(T) - Cardinality(S \cap T)
  BY FS_Union
<1>4. QED  BY <1>1, <1>2, <1>3

\* The sum without the value at x.
LEMMA TotalWithout ==
    ASSUME NEW D, IsFiniteSet(D), NEW f \in [D -> Int], NEW x \in D, f[x] \in Nat
    PROVE  LET R == {u \in Units(f) : u[1] # x}
           IN  Cardinality(R) \in Nat /\ Total(f) = Cardinality(R) + f[x]
<1> DEFINE R == {u \in Units(f) : u[1] # x}
           X == {x} \X (1..f[x])
<1>1. Units(f) = R \cup X
  <2>1. ASSUME NEW u \in Units(f), u[1] = x
        PROVE  u \in X
    BY <2>1, UnitsMember
  <2>2. ASSUME NEW u \in X
        PROVE  u \in Units(f)
    <3>1. u = <<x, u[2]>> /\ u[2] \in 1..f[x]
      OBVIOUS
    <3>2. QED  BY <3>1, UnitsMember
  <2>3. QED  BY <2>1, <2>2
<1>2. R \cap X = {}
  OBVIOUS
<1>3. R \in SUBSET Units(f) /\ IsFiniteSet(Units(f))
  BY TotalType
<1>4. IsFiniteSet(X) /\ Cardinality(X) = f[x]
  <2>1. PICK n \in Nat : n = f[x]
    OBVIOUS
  <2>2. n \in Int /\ n >= 0
    OBVIOUS
  <2>3. IsFiniteSet({x} \X (1..n)) /\ Cardinality({x} \X (1..n)) = n
    BY <2>2, UnitsAt
  <2>4. QED  BY <2>1, <2>3
<1> HIDE DEF R, X
<1>5. IsFiniteSet(R)
  BY <1>3, FS_Subset
<1>6. Cardinality(R \cup X) = Cardinality(R) + Cardinality(X) /\ Cardinality(R) \in Nat
  BY <1>2, <1>4, <1>5, DisjointUnion
<1>7. Cardinality(R) \in Nat /\ Total(f) = Cardinality(R) + f[x]
  BY <1>1, <1>4, <1>6 DEF Total
<1>8. QED  BY <1>7 DEF R

\* Changing one value changes the sum by as much.
LEMMA TotalUpdate ==
    ASSUME NEW D, IsFiniteSet(D), NEW f \in [D -> Int], NEW x \in D, f[x] \in Nat,
           NEW g \in [D -> Int], g[x] \in Nat, \A y \in D : y # x => g[y] = f[y]
    PROVE  Total(g) = Total(f) - f[x] + g[x]
<1> DEFINE R == {u \in Units(f) : u[1] # x}
           Q == {u \in Units(g) : u[1] # x}
<1>1. R = Q
  <2>1. ASSUME NEW u \in R
        PROVE  u \in Q
    <3>1. u = <<u[1], u[2]>> /\ u[1] \in D /\ u[2] \in 1..f[u[1]] /\ u[1] # x
      BY UnitsMember
    <3>2. u[2] \in 1..g[u[1]]
      BY <3>1
    <3>3. u \in Units(g)
      BY <3>1, <3>2, UnitsMember
    <3>4. QED  BY <3>1, <3>3
  <2>2. ASSUME NEW u \in Q
        PROVE  u \in R
    <3>1. u = <<u[1], u[2]>> /\ u[1] \in D /\ u[2] \in 1..g[u[1]] /\ u[1] # x
      BY UnitsMember
    <3>2. u[2] \in 1..f[u[1]]
      BY <3>1
    <3>3. u \in Units(f)
      BY <3>1, <3>2, UnitsMember
    <3>4. QED  BY <3>1, <3>3
  <2>3. QED  BY <2>1, <2>2
<1>2. Cardinality(R) \in Nat /\ Total(f) = Cardinality(R) + f[x]
  BY TotalWithout
<1>3. Total(g) = Cardinality(Q) + g[x]
  BY TotalWithout
<1> HIDE DEF R, Q
<1>4. QED  BY <1>1, <1>2, <1>3

\* What a payment does to the balances of the accounts D.
Payment(D, b, d, from, to, amt) ==
    /\ b \in [D -> Nat] /\ d \in [D -> Nat]
    /\ from \in D /\ to \in D /\ amt \in Nat /\ amt <= b[from]
    /\ \A y \in D : d[y] = b[y] - (IF y = from THEN amt ELSE 0)
                                + (IF y = to THEN amt ELSE 0)

\* A payment keeps the sum, also one from an account to itself.
LEMMA TotalPayment ==
    ASSUME NEW D, IsFiniteSet(D), NEW b, NEW d, NEW from, NEW to, NEW amt,
           Payment(D, b, d, from, to, amt)
    PROVE  Total(d) = Total(b)
<1> USE DEF Payment
<1> DEFINE c == [b EXCEPT ![from] = b[from] - amt]
<1>1. /\ c \in [D -> Nat]
      /\ c[from] = b[from] - amt /\ \A y \in D : y # from => c[y] = b[y]
  OBVIOUS
<1> HIDE DEF c
<1>2. d[to] = c[to] + amt /\ \A y \in D : y # to => d[y] = c[y]
  BY <1>1
<1>3. b \in [D -> Int] /\ c \in [D -> Int] /\ d \in [D -> Int]
  BY <1>1
<1>4. b[from] \in Nat /\ c[from] \in Nat /\ c[to] \in Nat /\ d[to] \in Nat
  BY <1>1
<1>5. Total(c) = Total(b) - b[from] + c[from]
  BY <1>1, <1>3, <1>4, TotalUpdate
<1>6. Total(d) = Total(c) - c[to] + d[to]
  BY <1>2, <1>3, <1>4, TotalUpdate
<1>7. Total(b) \in Nat /\ Total(c) \in Nat
  BY <1>3, TotalType
<1>8. QED  BY <1>1, <1>2, <1>4, <1>5, <1>6, <1>7

\* The sum of a function that is n on S and zero elsewhere.
LEMMA TotalConstant ==
    ASSUME NEW D, NEW S \in SUBSET D, IsFiniteSet(S), NEW n \in Nat
    PROVE  Total([x \in D |-> IF x \in S THEN n ELSE 0]) = n * Cardinality(S)
<1> DEFINE f == [x \in D |-> IF x \in S THEN n ELSE 0]
           N == 1..n
<1>1. f \in [D -> Int] /\ \A x \in D : f[x] = IF x \in S THEN n ELSE 0
  OBVIOUS
<1>2. Units(f) = S \X N
  <2>1. ASSUME NEW u \in Units(f)
        PROVE  u \in S \X N
    <3>1. u = <<u[1], u[2]>> /\ u[1] \in D /\ u[2] \in 1..f[u[1]]
      BY <1>1, UnitsMember
    <3>2. u[1] \in S /\ u[2] \in N
      BY <1>1, <3>1
    <3>3. QED  BY <3>1, <3>2
  <2>2. ASSUME NEW u \in S \X N
        PROVE  u \in Units(f)
    <3>1. u = <<u[1], u[2]>> /\ u[1] \in S /\ u[2] \in N
      OBVIOUS
    <3>2. u[1] \in D /\ u[2] \in 1..f[u[1]]
      BY <1>1, <3>1
    <3>3. QED  BY <1>1, <3>1, <3>2, UnitsMember
  <2>3. QED  BY <2>1, <2>2
<1>3. IsFiniteSet(N) /\ Cardinality(N) = n
  BY FS_Interval
<1>4. Cardinality(S) \in Nat
  BY FS_CardinalityType
<1> HIDE DEF f, N
<1>5. Cardinality(S \X N) = Cardinality(S) * Cardinality(N)
  BY <1>3, FS_Product
<1>6. Total(f) = n * Cardinality(S)
  BY <1>2, <1>3, <1>4, <1>5 DEF Total
<1>7. QED  BY <1>6 DEF f

\* The empty sequence and sequences of one value.
LEMMA TotalShort ==
    /\ Total(<<>>) = 0
    /\ \A n \in Nat : Total(<<n>>) = n
<1>1. Units(<<>>) = {}
  BY DEF Units
<1>2. ASSUME NEW n \in Nat
      PROVE  Total(<<n>>) = n
  <2>1. Units(<<n>>) = {1} \X (1..n)
    BY DEF Units
  <2>2. n \in Int /\ n >= 0
    OBVIOUS
  <2>3. Cardinality({1} \X (1..n)) = n
    BY <2>2, UnitsAt
  <2>4. QED  BY <2>1, <2>3 DEF Total
<1>3. QED  BY <1>1, <1>2, FS_EmptySet DEF Total

\* The sum of a concatenation: the units of the second part are those of the
\* sequence itself, moved on.
LEMMA TotalConcat ==
    ASSUME NEW s \in Seq(Int), NEW t \in Seq(Int)
    PROVE  /\ Total(s \o t) = Total(s) + Total(t)
           /\ Total(s) \in Nat /\ Total(t) \in Nat
<1> DEFINE c == s \o t
           m == Len(s)
           n == Len(t)
           T == {u \in Units(c) : u[1] > m}
           F == [u \in Units(t) |-> <<u[1] + m, u[2]>>]
<1>1. /\ m \in Nat /\ n \in Nat
      /\ s \in [1..m -> Int] /\ t \in [1..n -> Int]
  OBVIOUS
<1>2. /\ c \in [1..(m + n) -> Int]
      /\ \A i \in 1..m : c[i] = s[i]
      /\ \A i \in 1..n : c[i + m] = t[i]
  <2>1. c \in Seq(Int) /\ Len(c) = m + n
    OBVIOUS
  <2>2. \A i \in 1..m : c[i] = s[i]
    OBVIOUS
  <2>3. \A i \in 1..n : c[i + m] = t[i]
    OBVIOUS
  <2> HIDE DEF c
  <2>4. c \in [1..Len(c) -> Int]
    BY <2>1
  <2>5. QED  BY <2>1, <2>2, <2>3, <2>4
<1> HIDE DEF c, m, n
<1>3. /\ \A x \in 1..m : \A i \in 1..s[x] : <<x, i>> \in Units(s)
      /\ \A x \in 1..(m + n) : \A i \in 1..c[x] : <<x, i>> \in Units(c)
  BY <1>1, <1>2, UnitsMember
<1>4. Units(c) = Units(s) \cup T
  <2>1. ASSUME NEW u \in Units(c), ~(u[1] > m)
        PROVE  u \in Units(s)
    <3>1. u = <<u[1], u[2]>> /\ u[1] \in 1..(m + n) /\ u[2] \in 1..c[u[1]]
      BY <1>2, UnitsMember
    <3>2. u[1] \in 1..m
      BY <1>1, <2>1, <3>1
    <3>3. u[2] \in 1..s[u[1]]
      BY <1>2, <3>1, <3>2
    <3>4. QED  BY <1>3, <3>1, <3>2, <3>3
  <2>2. ASSUME NEW u \in Units(s)
        PROVE  u \in Units(c)
    <3>1. u = <<u[1], u[2]>> /\ u[1] \in 1..m /\ u[2] \in 1..s[u[1]]
      BY <1>1, UnitsMember
    <3>2. u[1] \in 1..(m + n) /\ u[2] \in 1..c[u[1]]
      BY <1>1, <1>2, <3>1
    <3>3. QED  BY <1>3, <3>1, <3>2
  <2>3. QED  BY <2>1, <2>2
<1>5. Units(s) \cap T = {}
  <2>1. \A u \in Units(s) : u[1] \in 1..m
    BY <1>1, UnitsMember
  <2>2. QED  BY <1>1, <2>1
<1>6. F \in Bijection(Units(t), T)
  <2>1. ASSUME NEW u \in Units(t)
        PROVE  F[u] \in T
    <3>1. u = <<u[1], u[2]>> /\ u[1] \in 1..n /\ u[2] \in 1..t[u[1]]
      BY <1>1, UnitsMember
    <3>2. u[1] + m \in 1..(m + n) /\ u[2] \in 1..c[u[1] + m] /\ u[1] + m > m
      BY <1>1, <1>2, <3>1
    <3>3. <<u[1] + m, u[2]>> \in Units(c)
      BY <1>2, <3>2, UnitsMember
    <3>4. <<u[1] + m, u[2]>> \in T
      BY <3>2, <3>3
    <3>5. QED  BY <3>4
  <2>2. ASSUME NEW u \in Units(t), NEW w \in Units(t), F[u] = F[w]
        PROVE  u = w
    <3>1. /\ u = <<u[1], u[2]>> /\ u[1] \in 1..n
          /\ w = <<w[1], w[2]>> /\ w[1] \in 1..n
      BY <1>1, UnitsMember
    <3>2. u[1] + m = w[1] + m /\ u[2] = w[2]
      BY <2>2
    <3>3. u[1] = w[1]
      BY <1>1, <3>1, <3>2
    <3>4. QED  BY <3>1, <3>2, <3>3
  <2>3. ASSUME NEW w \in T
        PROVE  \E u \in Units(t) : F[u] = w
    <3>1. w = <<w[1], w[2]>> /\ w[1] \in 1..(m + n) /\ w[2] \in 1..c[w[1]] /\ w[1] > m
      BY <1>2, UnitsMember
    <3>2. PICK i \in 1..n : w[1] = i + m
      <4>1. w[1] - m \in 1..n /\ w[1] = (w[1] - m) + m
        BY <1>1, <3>1
      <4>2. QED  BY <4>1
    <3>3. w[2] \in 1..t[i]
      BY <1>2, <3>1, <3>2
    <3>4. <<i, w[2]>> \in Units(t)
      BY <1>1, <3>3, UnitsMember
    <3>5. F[<<i, w[2]>>] = w
      BY <3>1, <3>2, <3>4
    <3>6. QED  BY <3>4, <3>5
  <2> HIDE DEF T
  <2>4. F \in [Units(t) -> T]
    BY <2>1
  <2> HIDE DEF F
  <2>5. QED
    BY <2>2, <2>3, <2>4 DEF Bijection, Injection, Surjection, IsInjective
<1>7. /\ IsFiniteSet(Units(s)) /\ IsFiniteSet(Units(t))
      /\ Total(s) \in Nat /\ Total(t) \in Nat
  <2>1. IsFiniteSet(1..m) /\ IsFiniteSet(1..n)
    BY <1>1, FS_Interval
  <2>2. QED  BY <1>1, <2>1, TotalType
<1> HIDE DEF F, T
<1>8. IsFiniteSet(T) /\ Cardinality(T) = Cardinality(Units(t))
  BY <1>6, <1>7, FS_Bijection DEF ExistsBijection
<1>9. Cardinality(Units(s) \cup T) = Cardinality(Units(s)) + Cardinality(T)
  BY <1>5, <1>7, <1>8, DisjointUnion
<1>10. Total(c) = Total(s) + Total(t)
  BY <1>4, <1>8, <1>9 DEF Total
<1>11. QED  BY <1>7, <1>10 DEF c
=============================================================================
