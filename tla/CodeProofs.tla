----------------------------- MODULE CodeProofs -----------------------------
(***************************************************************************)
(* The numbers of stored codes have no gaps and no repetitions, with or    *)
(* without a faucet, for any finite set of codes and any mix of stores,    *)
(* repeated stores, failed commits and restarts.                           *)
(*                                                                         *)
(* The VM counts codes as it meets them; restore() counts the rows of a    *)
(* table whose order changes when a code is stored again, and takes the    *)
(* counter from another table.  That the two counts meet needs to know     *)
(* what both tables hold, also while a transaction is open.                *)
(***************************************************************************)
EXTENDS NodeProofs

-----------------------------------------------------------------------------
(***************************************************************************)
(* The invariant.                                                          *)
(***************************************************************************)
\* The stored codes of a memory have the numbers 1 to codeSeq.
Dense(v) ==
    /\ {v.seqByCode[c] : c \in StoredCodes(v)} = 1..v.codeSeq
    /\ Cardinality(StoredCodes(v)) = v.codeSeq

\* The codes on record have rows of their own, none after the last one, and
\* the largest number on record is how many they are.
RowsCounted(d) ==
    /\ \A c, e \in Rows(d) : d.codes[c] = d.codes[e] => c = e
    /\ \A c \in Rows(d) : d.codes[c] <= d.lastRow
    /\ d.maxSeq = Cardinality(Rows(d))

\* What the holder of writeMu knows of codes: its snapshot is dense, a code
\* that is not on record has the last number, and the SQL transaction will
\* leave rows that are counted.
HolderCodes(t) ==
    /\ pc[t] \in {"call", "failed"} \cup Committing => Dense(loc[t].snap)
    /\ pc[t] \in Committing /\ ~Call(t) /\ req[t].code \notin Rows(db) =>
        mem.seqByCode[req[t].code] = mem.codeSeq
    /\ pc[t] \in {"tick", "commit"} => RowsCounted(dbtx)

CodesInv ==
    /\ Dense(mem)
    /\ RowsCounted(db)
    /\ \A t \in Threads : writeMu = t => HolderCodes(t)

CInv == RegistryInv /\ CodesInv

-----------------------------------------------------------------------------
(***************************************************************************)
(* Codes in memory and in the tables.                                      *)
(***************************************************************************)
SameCodes(v, w) == w.seqByCode = v.seqByCode /\ w.codeSeq = v.codeSeq
SameRows(d, e) == e.codes = d.codes /\ e.lastRow = d.lastRow /\ e.maxSeq = d.maxSeq

\* Dense and RowsCounted look at nothing else.
LEMMA SameDense ==
    ASSUME NEW v, NEW w, SameCodes(v, w), Dense(v)
    PROVE  Dense(w)
BY DEF SameCodes, Dense, StoredCodes

LEMMA SameRowsCounted ==
    ASSUME NEW d, NEW e, SameRows(d, e), RowsCounted(d)
    PROVE  RowsCounted(e)
BY DEF SameRows, RowsCounted, Rows

\* The codes on record, and those in memory, are finitely many.
LEMMA CodesFinite ==
    /\ \A d : IsFiniteSet(Rows(d)) /\ Cardinality(Rows(d)) \in Nat
    /\ \A v : IsFiniteSet(StoredCodes(v)) /\ Cardinality(StoredCodes(v)) \in Nat
<1>1. ASSUME NEW S \in SUBSET Codes
      PROVE  IsFiniteSet(S) /\ Cardinality(S) \in Nat
  BY NodeAssumption, FS_Subset, FS_CardinalityType
<1>2. (\A d : Rows(d) \in SUBSET Codes) /\ (\A v : StoredCodes(v) \in SUBSET Codes)
  BY DEF Rows, StoredCodes
<1>3. QED  BY <1>1, <1>2

\* StoreCode gives a new code the next number.
LEMMA StoreCodeDense ==
    ASSUME NEW v \in VMState, NEW code \in Codes, Dense(v)
    PROVE  LET w == StoreCode(v, code)
           IN  /\ Dense(w)
               /\ code \notin StoredCodes(v) => w.seqByCode[code] = w.codeSeq
<1>1. CASE v.seqByCode[code] # 0
  BY <1>1 DEF StoreCode, StoredCodes
<1>2. CASE v.seqByCode[code] = 0
  <2> DEFINE w == StoreCode(v, code)
             k == v.codeSeq + 1
             m == [v.seqByCode EXCEPT ![code] = k]
  <2>1. v.codeSeq \in Nat /\ v.seqByCode \in [Codes -> Nat] /\ k \in Nat
    BY DEF VMState
  <2>2. w = [v EXCEPT !.codeSeq = k, !.seqByCode = m]
    BY <1>2 DEF StoreCode, VMState
  <2>3. /\ m[code] = k
        /\ \A c \in Codes : c # code => m[c] = v.seqByCode[c]
    BY <2>1
  <2> HIDE DEF m
  <2>4. w.codeSeq = k /\ w.seqByCode = m
    BY <2>2 DEF VMState
  <2>5. StoredCodes(w) = StoredCodes(v) \cup {code} /\ code \notin StoredCodes(v)
    BY <1>2, StoreCodeFacts DEF StoredCodes
  <2> HIDE DEF w
  <2>6. Cardinality(StoredCodes(w)) = w.codeSeq
    BY <2>1, <2>4, <2>5, CodesFinite, FS_AddElement DEF Dense
  <2>7. {w.seqByCode[c] : c \in StoredCodes(w)} = 1..w.codeSeq
    <3>1. {m[c] : c \in StoredCodes(w)} = {v.seqByCode[c] : c \in StoredCodes(v)} \cup {k}
      <4>1. \A c \in StoredCodes(v) : m[c] = v.seqByCode[c]
        BY <2>3, <2>5 DEF StoredCodes
      <4> HIDE DEF k
      <4>2. QED  BY <2>3, <2>5, <4>1
    <3>2. 1..k = (1..v.codeSeq) \cup {k}
      BY <2>1
    <3>3. QED  BY <2>4, <3>1, <3>2 DEF Dense
  <2>8. QED  BY <2>3, <2>4, <2>6, <2>7 DEF Dense, w
<1>3. QED  BY <1>1, <1>2

\* restore() numbers the codes by their rows: one less row, one less number.
LEMMA RestoredDense ==
    ASSUME NEW d \in Tables, RowsCounted(d)
    PROVE  Dense(Restored(d))
<1> DEFINE S == Rows(d)
           n == Cardinality(Rows(d))
           rank(c) == Cardinality(RowsUpTo(d, c))
           f == [c \in S |-> rank(c)]
<1>1. IsFiniteSet(S) /\ n \in Nat
  BY CodesFinite
<1>2. \A c \in S : d.codes[c] \in Nat
  BY DEF Rows, Tables
<1>3. ASSUME NEW c \in S
      PROVE  /\ RowsUpTo(d, c) \in SUBSET S /\ c \in RowsUpTo(d, c)
             /\ IsFiniteSet(RowsUpTo(d, c)) /\ rank(c) \in 1..n
  <2>1. RowsUpTo(d, c) \in SUBSET S /\ c \in RowsUpTo(d, c)
    BY <1>2 DEF RowsUpTo
  <2>2. IsFiniteSet(RowsUpTo(d, c)) /\ rank(c) <= n
    BY <1>1, <2>1, FS_Subset
  <2>3. rank(c) \in Nat /\ rank(c) # 0
    BY <2>1, <2>2, FS_CardinalityType, FS_EmptySet
  <2>4. QED  BY <1>1, <2>1, <2>2, <2>3
<1>4. ASSUME NEW c \in S, NEW e \in S, d.codes[c] < d.codes[e]
      PROVE  rank(c) # rank(e)
  <2>1. RowsUpTo(d, c) \in SUBSET RowsUpTo(d, e) /\ e \notin RowsUpTo(d, c)
    BY <1>2, <1>4 DEF RowsUpTo
  <2>2. e \in RowsUpTo(d, e) /\ IsFiniteSet(RowsUpTo(d, e))
    BY <1>3
  <2>3. QED  BY <2>1, <2>2, FS_Subset
<1>5. \A c, e \in S : rank(c) = rank(e) => c = e
  <2> SUFFICES ASSUME NEW c \in S, NEW e \in S, rank(c) = rank(e), c # e
               PROVE  FALSE
    OBVIOUS
  <2>1. d.codes[c] # d.codes[e]
    BY DEF RowsCounted
  <2>2. d.codes[c] < d.codes[e] \/ d.codes[e] < d.codes[c]
    BY <1>2, <2>1
  <2> HIDE DEF rank
  <2>3. QED  BY <1>4, <2>2
<1>6. \A c \in S : rank(c) \in 1..n
  BY <1>3
<1> HIDE DEF n, rank, S
<1>7. f \in Injection(S, 1..n)
  BY <1>5, <1>6 DEF Injection, IsInjective
<1>8. f \in Surjection(S, 1..n)
  <2>1. IsFiniteSet(1..n) /\ Cardinality(1..n) = n
    BY <1>1, FS_Interval
  <2>2. Cardinality(S) = n
    BY DEF S, n
  <2> HIDE DEF f
  <2>3. QED  BY <1>7, <2>1, <2>2, FS_Injection
<1>9. {rank(c) : c \in S} = 1..n
  <2>1. \A r \in 1..n : \E c \in S : rank(c) = r
    BY <1>8 DEF Surjection
  <2>2. QED  BY <1>6, <2>1
<1> DEFINE v == Restored(d)
<1>10. StoredCodes(v) = S
  BY RestoredFacts DEF Agree, RegistryAgrees, S
<1>11. \A c \in S : v.seqByCode[c] = rank(c)
  BY DEF Restored, S, rank, Rows
<1>12. v.codeSeq = n
  <2>1. d.maxSeq = n
    BY DEF RowsCounted, n
  <2>2. v.codeSeq = IF d.maxSeq > 0 THEN d.maxSeq ELSE n
    BY DEF Restored, n
  <2>3. QED  BY <2>1, <2>2
<1> HIDE DEF v
<1>13. {v.seqByCode[c] : c \in S} = {rank(c) : c \in S}
  BY <1>11
<1>14. QED  BY <1>9, <1>10, <1>12, <1>13 DEF Dense, v, S, n

\* A code that is stored gets a row after all others, and its number is on
\* record.
LEMMA PersistCodeRows ==
    ASSUME NEW d \in Tables, RowsCounted(d), NEW v \in VMState, Dense(v),
           NEW code \in Codes, StoredCodes(v) = Rows(d) \cup {code},
           code \notin Rows(d) => v.seqByCode[code] = v.codeSeq
    PROVE  RowsCounted(PersistCode(d, v, code))
<1> DEFINE e == PersistCode(d, v, code)
           m == [d.codes EXCEPT ![code] = d.lastRow + 1]
           k == d.lastRow + 1
           x == IF v.seqByCode[code] > d.maxSeq THEN v.seqByCode[code] ELSE d.maxSeq
<1>1. /\ d.lastRow \in Nat /\ d.maxSeq \in Nat /\ d.codes \in [Codes -> Nat]
      /\ v.codeSeq \in Nat /\ v.seqByCode \in [Codes -> Nat]
  BY DEF Tables, VMState
<1>2. m[code] = k /\ \A c \in Codes : c # code => m[c] = d.codes[c]
  BY <1>1
<1>3. e = [d EXCEPT !.codes = m, !.lastRow = k, !.maxSeq = x]
  BY DEF PersistCode
<1>4. Rows(e) = Rows(d) \cup {code}
  BY PersistCodeFacts
<1>5. x = v.codeSeq
  <2>1. v.codeSeq = Cardinality(Rows(d) \cup {code})
    BY DEF Dense
  <2>2. v.codeSeq = IF code \in Rows(d) THEN d.maxSeq ELSE d.maxSeq + 1
    <3> DEFINE S == Rows(d)
    <3>1. IsFiniteSet(S) /\ d.maxSeq = Cardinality(S)
      BY CodesFinite DEF RowsCounted
    <3>2. v.codeSeq = Cardinality(S \cup {code})
      BY <2>1
    <3> HIDE DEF S
    <3>3. v.codeSeq = IF code \in S THEN Cardinality(S) ELSE Cardinality(S) + 1
      BY <3>1, <3>2, FS_AddElement
    <3>4. QED  BY <3>1, <3>3 DEF S
  <2>3. v.seqByCode[code] \in 1..v.codeSeq
    <3>1. code \in StoredCodes(v)
      OBVIOUS
    <3>2. v.seqByCode[code] \in {v.seqByCode[c] : c \in StoredCodes(v)}
      BY <3>1
    <3>3. QED  BY <3>2 DEF Dense
  <2>4. QED  BY <1>1, <2>2, <2>3
<1> HIDE DEF m, x
<1>6. e.codes = m /\ e.lastRow = k /\ e.maxSeq = x
  BY <1>3 DEF Tables
<1> HIDE DEF e
<1>7. e.maxSeq = Cardinality(Rows(e))
  BY <1>4, <1>5, <1>6 DEF Dense
<1>8. \A c \in Rows(d) : c \in Codes /\ d.codes[c] <= d.lastRow /\ d.codes[c] \in Nat
  BY <1>1 DEF Rows, RowsCounted
<1>9. \A c \in Rows(e) : e.codes[c] <= e.lastRow
  BY <1>1, <1>2, <1>4, <1>6, <1>8
<1>10. \A c, g \in Rows(e) : e.codes[c] = e.codes[g] => c = g
  <2>1. \A c \in Rows(d) : c # code => m[c] = d.codes[c] /\ m[c] # k
    BY <1>1, <1>2, <1>8
  <2>2. \A c, g \in Rows(d) : d.codes[c] = d.codes[g] => c = g
    BY DEF RowsCounted
  <2> HIDE DEF k
  <2>3. QED  BY <1>2, <1>4, <1>6, <2>1, <2>2
<1>11. QED  BY <1>7, <1>9, <1>10 DEF RowsCounted, e

-----------------------------------------------------------------------------
(***************************************************************************)
(* The invariant is preserved.  NodeProofs gives the rest of CInv.         *)
(***************************************************************************)
\* A step of the holder to another label of its handler.
LEMMA HolderStep ==
    ASSUME CInv, NEW t \in Threads, pc[t] \in Holding, NEW label \in Holding,
           pc' = [pc EXCEPT ![t] = label], UNCHANGED writeMu,
           Dense(mem)', RowsCounted(db)',
           pc'[t] = label => HolderCodes(t)'
    PROVE  CodesInv'
<1>1. writeMu = t
  BY HolderKnows DEF CInv
<1>2. pc'[t] = label
  BY DEF CInv, RegistryInv, TypeOK
<1>3. QED  BY <1>1, <1>2 DEF CodesInv

\* What the invariant gives for the holder.
LEMMA HolderFacts ==
    ASSUME CInv, NEW t \in Threads, pc[t] \in Holding
    PROVE  HolderCodes(t) /\ Dense(mem) /\ RowsCounted(db)
BY HolderKnows DEF CInv, CodesInv

\* Most steps of a handler leave the codes alone, in memory and on record.
LEMMA KeepsCodes ==
    ASSUME CInv, NEW t \in Threads, pc[t] \in Holding, NEW label \in Holding,
           pc' = [pc EXCEPT ![t] = label], UNCHANGED <<writeMu, req>>,
           SameCodes(mem, mem'), SameRows(db, db'), loc'[t].snap = loc[t].snap,
           label \in {"call", "failed"} \cup Committing =>
                pc[t] \in {"call", "failed"} \cup Committing,
           label \in Committing => pc[t] \in Committing \/ Call(t),
           label \in {"tick", "commit"} => RowsCounted(dbtx')
    PROVE  CodesInv'
<1>1. HolderCodes(t) /\ Dense(mem) /\ RowsCounted(db)
  BY HolderFacts
<1>2. Dense(mem') /\ RowsCounted(db')
  BY <1>1, SameDense, SameRowsCounted
<1>3. Dense(mem)' /\ RowsCounted(db)'
  BY <1>2 DEF Dense, RowsCounted
<1>4. ASSUME pc'[t] = label
      PROVE  HolderCodes(t)'
  <2>1. label \in {"call", "failed"} \cup Committing => Dense(loc'[t].snap)
    BY <1>1 DEF HolderCodes
  <2>2. ASSUME label \in Committing, ~Call(t), req[t].code \notin Rows(db)
        PROVE  mem'.seqByCode[req[t].code] = mem'.codeSeq
    BY <1>1, <2>2 DEF HolderCodes, SameCodes
  <2>3. (Call(t)' <=> Call(t)) /\ req' = req /\ Rows(db)' = Rows(db)
    BY DEF Call, Rows, SameRows
  <2>4. QED  BY <1>4, <2>1, <2>2, <2>3 DEF HolderCodes, Dense, RowsCounted
<1>5. QED  BY <1>3, <1>4, HolderStep

\* The snapshot is the memory.
LEMMA LockCodes ==
    ASSUME CInv, NEW t \in Threads, Lock(t)
    PROVE  CodesInv'
<1>1. /\ writeMu' = t /\ pc'[t] = "call" /\ loc'[t].snap = mem
      /\ UNCHANGED <<mem, db>>
  BY DEF Lock, Goto, CInv, RegistryInv, TypeOK
<1>2. Dense(mem) /\ RowsCounted(db)
  BY DEF CInv, CodesInv
<1>3. HolderCodes(t)'
  BY <1>1, <1>2 DEF HolderCodes, Committing, Dense
<1>4. QED  BY <1>1, <1>2, <1>3 DEF CodesInv, Dense, RowsCounted

\* A contract call does not touch the code registry.
LEMMA CallCodes ==
    ASSUME CInv, NEW t \in Threads,
           CallFails(t) \/ CallRefused(t) \/ CallSimulated(t) \/ CallSucceeds(t)
    PROVE  CodesInv'
<1>1. PICK label \in {"failed", "begin"} :
        /\ pc[t] = "call" /\ pc' = [pc EXCEPT ![t] = label]
        /\ label = "begin" => Call(t)
        /\ \/ \E fee \in Fees : loc' = [loc EXCEPT ![t].fee = fee]
           \/ UNCHANGED loc
        /\ UNCHANGED <<db, writeMu, req>>
  BY DEF CallFails, CallRefused, CallSimulated, CallSucceeds, Goto
<1>2. RegistryInv /\ loc \in [Threads -> Locals]
  BY DEF CInv, RegistryInv, TypeOK, Locals
<1>3. /\ mem \in VMState /\ req[t].sender \in Users
      /\ mem.contracts = 1..mem.instanceCount
      /\ TxId(t) \in TxIds /\ <<req[t].sender, NoNonce>> \in TxIds
  BY <1>1, <1>2, CallKnows, HolderKnows DEF Holding, Request
<1>4. ASSUME NEW n \in 0..1, mem.instanceCount + n <= MaxInstances,
             NEW stamp \in TxIds, NEW v \in CallEffects(mem, n, stamp)
      PROVE  v \in VMState /\ SameCodes(mem, v)
  BY <1>3, <1>4, CallEffectsFacts DEF SameCodes
<1>5. SameCodes(mem, mem')
  <2>1. CASE CallSucceeds(t)
    <3>1. PICK n \in 0..1 : /\ mem.instanceCount + n <= MaxInstances
                            /\ \E v \in CallEffects(mem, n, TxId(t)) :
                                 mem' = IncrementNonce(v, req[t].sender)
      BY <2>1 DEF CallSucceeds
    <3>2. PICK v \in CallEffects(mem, n, TxId(t)) : mem' = IncrementNonce(v, req[t].sender)
      BY <3>1
    <3>3. v \in VMState /\ SameCodes(mem, v)
      BY <1>3, <1>4, <3>1
    <3>4. QED  BY <1>3, <3>2, <3>3, IncrementNonceFacts DEF SameCodes
  <2>2. CASE CallFails(t) \/ CallSimulated(t)
    <3>1. PICK n \in 0..1, stamp \in TxIds :
              /\ mem.instanceCount + n <= MaxInstances
              /\ mem' \in CallEffects(mem, n, stamp)
      BY <1>3, <2>2 DEF CallFails, CallSimulated
    <3>2. QED  BY <1>4, <3>1
  <2>3. CASE CallRefused(t)
    BY <2>3 DEF CallRefused, SameCodes
  <2>4. QED  BY <2>1, <2>2, <2>3
<1>6. loc'[t].snap = loc[t].snap
  BY <1>1, <1>2 DEF Locals
<1>7. SameRows(db, db')
  BY <1>1 DEF SameRows
<1>8. QED
  BY <1>1, <1>5, <1>6, <1>7, KeepsCodes DEF Holding, Committing

\* A code is stored in memory.
LEMMA StoreSucceedsCodes ==
    ASSUME CInv, NEW t \in Threads, StoreSucceeds(t)
    PROVE  CodesInv'
<1>1. /\ pc[t] = "call" /\ pc' = [pc EXCEPT ![t] = "begin"] /\ req[t].kind = "store"
      /\ mem' = IncrementNonce(StoreCode(mem, req[t].code), req[t].sender)
      /\ \E fee \in Fees : loc' = [loc EXCEPT ![t].fee = fee]
      /\ UNCHANGED <<db, writeMu, req>>
  BY DEF StoreSucceeds, Goto
<1>2. RegistryInv /\ TypeOK
  BY DEF CInv, RegistryInv
<1>3. /\ mem \in VMState /\ req[t] \in Request /\ StoredCodes(mem) = Rows(db)
      /\ req[t].kind = "store" <=> req[t].code # Nil
  BY <1>1, <1>2, CallKnows, HolderKnows DEF Holding, RegistryAgrees, Served
<1>4. req[t].sender \in Users /\ req[t].code \in Codes
  BY <1>1, <1>3 DEF Request
<1>5. HolderCodes(t) /\ Dense(mem) /\ RowsCounted(db)
  BY <1>1, HolderFacts DEF Holding
<1> DEFINE w == StoreCode(mem, req[t].code)
<1>6. /\ w \in VMState /\ Dense(w)
      /\ req[t].code \notin Rows(db) => w.seqByCode[req[t].code] = w.codeSeq
  BY <1>3, <1>4, <1>5, StoreCodeFacts, StoreCodeDense
<1>7. mem' = IncrementNonce(w, req[t].sender)
  BY <1>1
<1> HIDE DEF w
<1>8. SameCodes(w, mem')
  BY <1>4, <1>6, <1>7, IncrementNonceFacts DEF SameCodes
<1>9. Dense(mem')
  BY <1>6, <1>8, SameDense
<1>10. loc'[t].snap = loc[t].snap
  BY <1>1, <1>2 DEF TypeOK
<1>11. Dense(loc[t].snap)
  BY <1>1, <1>5 DEF HolderCodes
<1>12. req[t].code \notin Rows(db) => mem'.seqByCode[req[t].code] = mem'.codeSeq
  BY <1>6, <1>8 DEF SameCodes
<1>13. ASSUME pc'[t] = "begin" PROVE HolderCodes(t)'
  BY <1>1, <1>10, <1>11, <1>12, <1>13 DEF HolderCodes, Dense, Rows
<1>14. Dense(mem)' /\ RowsCounted(db)'
  BY <1>1, <1>5, <1>9 DEF Dense, RowsCounted
<1>15. QED
  BY <1>1, <1>13, <1>14, HolderStep DEF Holding, Committing

\* The snapshot is put back.
LEMMA RestoredCodes ==
    ASSUME CInv, NEW t \in Threads, RestoreFailed(t) \/ Abort(t)
    PROVE  CodesInv'
<1>1. PICK label \in {"charge", "reply"} :
        /\ pc[t] \in {"failed"} \cup Committing
        /\ pc' = [pc EXCEPT ![t] = label] /\ mem' = loc[t].snap
        /\ UNCHANGED <<db, writeMu>>
  BY DEF RestoreFailed, Abort, Goto, Committing
<1>2. HolderCodes(t) /\ RowsCounted(db)
  BY <1>1, HolderFacts DEF Holding
<1>3. Dense(mem)' /\ RowsCounted(db)'
  BY <1>1, <1>2 DEF HolderCodes, Dense, RowsCounted
<1>4. pc'[t] = label => HolderCodes(t)'
  BY DEF HolderCodes, Committing
<1>5. QED  BY <1>1, <1>3, <1>4, HolderStep DEF Holding

\* Fees are no business of the code registry.
LEMMA FeesKeepCodes ==
    ASSUME CInv, NEW t \in Threads,
           ChargeFailed(t) \/ PersistFailed(t) \/ Begin(t) \/ Fee(t)
    PROVE  CodesInv'
<1>1. PICK label \in {"persist", "reply", "fee", "write"} :
        /\ pc[t] \in {"charge", "persist", "begin", "fee"}
        /\ label \in {"fee", "write"} => pc[t] \in Committing
        /\ pc' = [pc EXCEPT ![t] = label]
        /\ UNCHANGED <<writeMu, req>>
        /\ \/ UNCHANGED loc
           \/ loc' = [loc EXCEPT ![t].touched = mem.touched]
        /\ \/ UNCHANGED mem
           \/ mem' = [mem EXCEPT !.touched = {}]
           \/ /\ CanPay(mem, req[t].sender, loc[t].fee)
              /\ mem' = DeductGasFee(mem, req[t].sender, loc[t].fee)
        /\ \/ UNCHANGED db
           \/ db' = PersistAccounts(db, mem, {req[t].sender})
  BY DEF ChargeFailed, PersistFailed, Begin, Fee, Goto, Committing
<1>2. /\ mem \in VMState /\ db \in Tables /\ loc \in [Threads -> Locals]
      /\ req[t].sender \in Users /\ loc[t].fee \in Nat
  BY <1>1, HolderKnows DEF CInv, RegistryInv, TypeOK, Locals, Holding, Committing, Request
<1>3. SameCodes(mem, mem')
  BY <1>1, <1>2, DeductGasFeeFacts DEF SameCodes, VMState
<1>4. SameRows(db, db')
  <2>1. {req[t].sender} \in SUBSET Addr
    BY <1>2 DEF Addr
  <2>2. QED  BY <1>1, <1>2, <2>1, PersistAccountsFacts DEF SameRows
<1>5. loc'[t].snap = loc[t].snap
  BY <1>1, <1>2 DEF Locals
<1>6. QED
  BY <1>1, <1>3, <1>4, <1>5, KeepsCodes DEF Holding, Committing

\* The rows of a call leave the code tables alone; those of a store count.
LEMMA WriteTablesCodes ==
    ASSUME CInv, NEW t \in Threads, WriteTables(t)
    PROVE  CodesInv'
<1>1. /\ pc[t] = "write" /\ pc' = [pc EXCEPT ![t] = "tick"]
      /\ UNCHANGED <<mem, db, writeMu, req, loc>>
  BY DEF WriteTables, Goto
<1>2. /\ mem \in VMState /\ db \in Tables
      /\ RegistryAhead(t)
      /\ dbtx = Nil \/ (dbtx \in Tables /\ SameRegistry(db, dbtx))
      /\ req[t].sender \in Addr /\ loc[t].touched \in SUBSET Addr
      /\ ~Call(t) => req[t].code \in Codes
      /\ Call(t) => TxId(t) \in TxIds
  BY <1>1, CommittingKnows DEF CInv, Committing
<1>3. HolderCodes(t) /\ Dense(mem) /\ RowsCounted(db)
  BY <1>1, HolderFacts DEF Holding, Committing
<1> DEFINE w == View
<1>4. {req[t].sender} \in SUBSET Addr
  BY <1>2
<1>5. w \in Tables /\ SameRows(db, w)
  BY <1>2 DEF View, SameRows, SameRegistry
<1> HIDE DEF w
<1>6. RowsCounted(w) /\ Rows(w) = Rows(db)
  BY <1>3, <1>5, SameRowsCounted DEF SameRows, Rows
<1>7. RowsCounted(dbtx')
  <2>1. CASE Call(t)
    <3> DEFINE x == PersistAccounts(w, mem, loc[t].touched)
    <3>1. dbtx' = PersistCall(x, mem, TxId(t))
      BY <2>1 DEF WriteTables, w
    <3>2. x \in Tables /\ SameRows(w, x)
      BY <1>2, <1>5, PersistAccountsFacts DEF SameRows
    <3> HIDE DEF x
    <3>3. SameRows(x, dbtx')
      BY <1>2, <2>1, <3>1, <3>2, PersistCallFacts DEF SameRows
    <3>4. RowsCounted(x)
      BY <1>6, <3>2, SameRowsCounted
    <3>5. QED  BY <3>3, <3>4, SameRowsCounted
  <2>2. CASE ~Call(t)
    <3> DEFINE y == PersistCode(w, mem, req[t].code)
    <3>1. dbtx' = PersistAccounts(y, mem, {req[t].sender})
      BY <2>2 DEF WriteTables, w
    <3>2. y \in Tables
      BY <1>2, <1>5, <2>2, PersistCodeFacts
    <3>3. RowsCounted(y)
      <4>1. StoredCodes(mem) = Rows(w) \cup {req[t].code}
        BY <1>2, <1>6, <2>2 DEF RegistryAhead
      <4>2. req[t].code \notin Rows(w) => mem.seqByCode[req[t].code] = mem.codeSeq
        BY <1>1, <1>3, <1>6, <2>2 DEF HolderCodes, Committing
      <4>3. QED
        BY <1>2, <1>3, <1>5, <1>6, <2>2, <4>1, <4>2, PersistCodeRows
    <3> HIDE DEF y
    <3>4. SameRows(y, dbtx')
      BY <1>2, <1>4, <3>1, <3>2, PersistAccountsFacts DEF SameRows
    <3>5. QED  BY <3>3, <3>4, SameRowsCounted
  <2>3. QED  BY <2>1, <2>2
<1>8. SameCodes(mem, mem') /\ SameRows(db, db') /\ loc'[t].snap = loc[t].snap
  BY <1>1 DEF SameCodes, SameRows
<1>9. QED
  BY <1>1, <1>7, <1>8, KeepsCodes DEF Holding, Committing

\* The operation number is no code number.
LEMMA TickCodes ==
    ASSUME CInv, NEW t \in Threads, Tick(t)
    PROVE  CodesInv'
<1>1. /\ pc[t] = "tick" /\ pc' = [pc EXCEPT ![t] = "commit"]
      /\ mem' = TickOp(mem) /\ dbtx' = [dbtx EXCEPT !.opSeq = mem'.opSeq]
      /\ UNCHANGED <<db, writeMu, req, loc>>
  BY DEF Tick, Goto
<1>2. mem \in VMState /\ dbtx \in Tables
  BY <1>1, CommittingKnows DEF CInv, Committing, RegistryWritten
<1>3. SameCodes(mem, mem') /\ SameRows(dbtx, dbtx')
  BY <1>1, <1>2 DEF VMState, Tables, TickOp, SameCodes, SameRows
<1>4. RowsCounted(dbtx)
  BY <1>1, HolderFacts DEF Holding, Committing, HolderCodes
<1>5. RowsCounted(dbtx')
  BY <1>3, <1>4, SameRowsCounted
<1>6. SameRows(db, db') /\ loc'[t].snap = loc[t].snap
  BY <1>1 DEF SameRows
<1>7. QED
  BY <1>1, <1>3, <1>5, <1>6, KeepsCodes DEF Holding, Committing

\* The counted rows go on record.
LEMMA CommitCodes ==
    ASSUME CInv, NEW t \in Threads, Commit(t)
    PROVE  CodesInv'
<1>1. /\ pc[t] = "commit" /\ pc' = [pc EXCEPT ![t] = "reply"]
      /\ db' = dbtx /\ UNCHANGED <<mem, writeMu>>
  BY DEF Commit, Goto
<1>2. HolderCodes(t) /\ Dense(mem)
  BY <1>1, HolderFacts DEF Holding, Committing
<1>3. Dense(mem)' /\ RowsCounted(db)'
  BY <1>1, <1>2 DEF HolderCodes, Dense, RowsCounted
<1>4. pc'[t] = "reply" => HolderCodes(t)'
  BY DEF HolderCodes, Committing
<1>5. QED  BY <1>1, <1>3, <1>4, HolderStep DEF Holding, Committing

\* Outside the lock codes are left alone: a request is received, the holder
\* releases the lock, the faucet runs, or nothing changes.
LEMMA OutsideCodes ==
    ASSUME CInv,
           \/ UNCHANGED vars
           \/ \E t \in Threads : \/ Receive(t) \/ Reply(t)
                                 \/ FaucetSet(t) \/ FaucetRead(t) \/ FaucetWrite(t)
    PROVE  CodesInv'
<1>1. mem \in VMState /\ db \in Tables /\ LockHeld
  BY DEF CInv, RegistryInv, TypeOK
<1>2. SameCodes(mem, mem') /\ SameRows(db, db') /\ dbtx' = dbtx
  <2>1. CASE \E t \in Threads : FaucetSet(t)
    BY <1>1, <2>1 DEF FaucetSet, SetBalance, VMState, SameCodes, SameRows
  <2>2. CASE \E t \in Threads : FaucetWrite(t)
    BY <1>1, <2>2 DEF FaucetWrite, Tables, SameCodes, SameRows
  <2>3. CASE \/ UNCHANGED vars
             \/ \E t \in Threads : Receive(t) \/ Reply(t) \/ FaucetRead(t)
    BY <2>3 DEF vars, Receive, Reply, FaucetRead, SameCodes, SameRows
  <2>4. QED  BY <2>1, <2>2, <2>3
<1>3. Dense(mem') /\ RowsCounted(db') /\ Rows(db') = Rows(db)
  BY <1>2, SameDense, SameRowsCounted DEF CInv, CodesInv, Rows, SameRows
<1>4. ASSUME NEW s \in Threads, writeMu' = s
      PROVE  HolderCodes(s)'
  <2>1. writeMu = s /\ pc'[s] = pc[s] /\ req'[s] = req[s] /\ loc'[s] = loc[s]
    <3>1. CASE UNCHANGED vars
      BY <1>4, <3>1 DEF vars
    <3>2. ASSUME NEW t \in Threads,
                 Receive(t) \/ FaucetSet(t) \/ FaucetRead(t) \/ FaucetWrite(t)
          PROVE  writeMu = s /\ pc'[s] = pc[s] /\ req'[s] = req[s] /\ loc'[s] = loc[s]
      <4>1. writeMu = s /\ pc[t] \in {"idle", "faucetRead", "faucetWrite"}
        BY <1>4, <3>2 DEF Receive, FaucetSet, FaucetRead, FaucetWrite
      <4>2. s # t
        BY <1>1, <4>1 DEF LockHeld, Holding, Committing
      <4>3. /\ req \in [Threads -> Request \cup {Nil}] /\ pc \in [Threads -> Labels]
            /\ loc \in [Threads -> Locals]
        BY DEF CInv, RegistryInv, TypeOK, Locals
      <4>4. CASE Receive(t) \/ FaucetSet(t)
        BY <4>1, <4>2, <4>3, <4>4 DEF Receive, FaucetSet, Goto
      <4>5. CASE FaucetRead(t) \/ FaucetWrite(t)
        BY <4>1, <4>2, <4>3, <4>5 DEF FaucetRead, FaucetWrite, Forget, Goto
      <4>6. QED  BY <3>2, <4>4, <4>5
    <3>3. ASSUME NEW t \in Threads, Reply(t)
          PROVE  FALSE
      BY <1>4, <3>3, NodeAssumption DEF Reply
    <3>4. QED  BY <3>1, <3>2, <3>3
  <2>2. HolderCodes(s) /\ (Call(s)' <=> Call(s))
    BY <2>1 DEF CInv, CodesInv, Call
  <2>3. QED
    BY <1>2, <1>3, <2>1, <2>2 DEF HolderCodes, SameCodes, Dense, RowsCounted
<1>5. QED  BY <1>3, <1>4 DEF CodesInv, Dense, RowsCounted

\* The next process counts the rows.
LEMMA RestartCodes ==
    ASSUME CInv, Restart
    PROVE  CodesInv'
<1>1. mem' = Restored(db) /\ UNCHANGED db /\ writeMu' = Nil
  BY DEF Restart
<1>2. db \in Tables /\ RowsCounted(db)
  BY DEF CInv, RegistryInv, TypeOK, CodesInv
<1>3. Dense(mem')
  BY <1>1, <1>2, RestoredDense
<1>4. QED
  BY <1>1, <1>2, <1>3, NodeAssumption DEF CodesInv, Dense, RowsCounted

\* No code is stored in the first database.
LEMMA InitCInv == Init => CInv
<1> SUFFICES ASSUME Init PROVE CInv
  OBVIOUS
<1>1. RegistryInv
  BY InitRegistry
<1>2. Rows(db) = {} /\ db.maxSeq = 0
  BY DEF Init, GenesisTables, Rows
<1>3. RowsCounted(db) /\ db \in Tables
  BY <1>1, <1>2, FS_EmptySet DEF RowsCounted, RegistryInv, TypeOK
<1>4. Dense(mem)
  BY <1>3, RestoredDense DEF Init
<1>5. QED
  BY <1>1, <1>3, <1>4, NodeAssumption DEF CInv, CodesInv, Init

\* Every step of a node preserves the invariant.
LEMMA NextCInv ==
    ASSUME CInv, [Next]_vars
    PROVE  CInv'
<1>1. RegistryInv'
  BY NextRegistry DEF CInv
<1>2. ASSUME NEW t \in Threads, Receive(t) \/ FaucetSet(t) \/ Serve(t)
      PROVE  CodesInv'
  BY <1>2, LockCodes, CallCodes, StoreSucceedsCodes, RestoredCodes, FeesKeepCodes,
     WriteTablesCodes, TickCodes, CommitCodes, OutsideCodes DEF Serve
<1>3. CodesInv'
  BY <1>2, RestartCodes, OutsideCodes DEF Next
<1>4. QED  BY <1>1, <1>3 DEF CInv

\* Whenever writeMu is free, the stored codes have the numbers 1 to codeSeq,
\* each its own, after any mix of stores, repeated stores, failed commits and
\* restarts (StoreCode, handleStore, restore), faucet or not.
THEOREM CodesNumbered == Spec => []CodeSeqsDense
<1>1. CInv /\ [Next]_vars => CInv'
  BY NextCInv
<1>2. CInv => CodeSeqsDense
  BY DEF CInv, CodesInv, Dense, CodeSeqsDense
<1>3. QED  BY <1>1, <1>2, InitCInv, PTL DEF Spec
=============================================================================
