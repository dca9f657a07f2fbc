----------------------------- MODULE NodeProofs -----------------------------
(***************************************************************************)
(* Proofs about the node, for any number of concurrent requests, senders,  *)
(* codes, nonces and fees.  What concerns accounts holds on a network that *)
(* serves no faucet; the rest holds on every network.                      *)
(***************************************************************************)
EXTENDS Node, FiniteSetTheorems, TLAPS

-----------------------------------------------------------------------------
(***************************************************************************)
(* What the operators on the VM's memory do.                               *)
(***************************************************************************)

\* One unit moved between two accounts changes no other.
LEMMA MoveFacts ==
    ASSUME NEW b \in [Addr -> Nat], NEW from \in Addr, NEW to \in Addr,
           b[from] >= 1
    PROVE  /\ Move(b, from, to, 1) \in [Addr -> Nat]
           /\ \A a \in Addr : Move(b, from, to, 1)[a] # b[a] => a \in {from, to}
BY DEF Move

\* A contract call moves tokens between accounts it marks, creates n
\* contracts, writes its stamp, and leaves nonces, codes and op_seq alone.
LEMMA CallEffectsFacts ==
    ASSUME NEW v \in VMState, NEW n \in 0..1, NEW stamp \in TxIds,
           v.instanceCount + n <= MaxInstances,
           v.contracts = 1..v.instanceCount,
           NEW w \in CallEffects(v, n, stamp)
    PROVE  /\ w \in VMState
           /\ w.nonce = v.nonce
           /\ w.opSeq = v.opSeq
           /\ w.codeSeq = v.codeSeq
           /\ w.seqByCode = v.seqByCode
           /\ w.store = v.store \cup {stamp}
           /\ w.instanceCount = v.instanceCount + n
           /\ w.contracts = 1..w.instanceCount
           /\ v.touched \subseteq w.touched
           /\ \A a \in Addr : w.bal[a] # v.bal[a] => a \in w.touched
<1>1. ASSUME NEW u \in VMState, u.instanceCount = v.instanceCount,
             u.contracts = v.contracts
      PROVE  LET x == Write(Create(u, n), stamp)
             IN  /\ x \in VMState
                 /\ x.nonce = u.nonce /\ x.opSeq = u.opSeq
                 /\ x.codeSeq = u.codeSeq
                 /\ x.seqByCode = u.seqByCode
                 /\ x.store = u.store \cup {stamp}
                 /\ x.instanceCount = u.instanceCount + n
                 /\ x.contracts = 1..x.instanceCount
                 /\ x.touched = u.touched /\ x.bal = u.bal
  <2> DEFINE new == {c \in Contract : c > u.instanceCount /\ c <= u.instanceCount + n}
             y == Create(u, n)
  <2>1. u.contracts \cup new \in SUBSET Contract /\ u.instanceCount + n \in Nat
    BY DEF VMState
  <2>2. y = [u EXCEPT !.contracts = u.contracts \cup new,
                      !.instanceCount = u.instanceCount + n]
    BY DEF Create
  <2>3. u.contracts \cup new = 1..(u.instanceCount + n)
    BY <1>1, NodeAssumption DEF VMState, Contract
  <2> HIDE DEF new
  <2>4. /\ y \in VMState
        /\ y.nonce = u.nonce /\ y.opSeq = u.opSeq
        /\ y.codeSeq = u.codeSeq
        /\ y.seqByCode = u.seqByCode /\ y.store = u.store
        /\ y.instanceCount = u.instanceCount + n
        /\ y.contracts = 1..y.instanceCount
        /\ y.touched = u.touched /\ y.bal = u.bal
    BY <2>1, <2>2, <2>3 DEF VMState
  <2> HIDE DEF y
  <2>5. Write(y, stamp) = [y EXCEPT !.store = y.store \cup {stamp}]
    BY DEF Write
  <2>6. y.store \cup {stamp} \in SUBSET TxIds
    BY <2>4 DEF VMState
  <2>7. QED  BY <2>4, <2>5, <2>6 DEF VMState, y
<1>2. ASSUME NEW from \in {a \in Addr : v.bal[a] >= 1}, NEW to \in Addr
      PROVE  LET u == Transfer(v, from, to, 1)
             IN  /\ u \in VMState
                 /\ u.nonce = v.nonce /\ u.opSeq = v.opSeq
                 /\ u.codeSeq = v.codeSeq
                 /\ u.seqByCode = v.seqByCode /\ u.store = v.store
                 /\ u.instanceCount = v.instanceCount
                 /\ u.contracts = v.contracts
                 /\ v.touched \subseteq u.touched
                 /\ \A a \in Addr : u.bal[a] # v.bal[a] => a \in u.touched
  <2> DEFINE b == Move(v.bal, from, to, 1)
             x == v.touched \cup {from, to}
  <2>1. b \in [Addr -> Nat]
    BY <1>2, MoveFacts DEF VMState
  <2>2. \A a \in Addr : b[a] # v.bal[a] => a \in x
    BY <1>2, MoveFacts DEF VMState
  <2>3. Transfer(v, from, to, 1) = [v EXCEPT !.bal = b, !.touched = x]
    BY DEF Transfer
  <2>4. x \in SUBSET Addr
    BY <1>2 DEF VMState
  <2>5. v.touched \subseteq x
    OBVIOUS
  <2> HIDE DEF b, x
  <2>6. QED  BY <2>1, <2>2, <2>3, <2>4, <2>5 DEF VMState
<1>3. CASE w = Write(Create(v, n), stamp)
  BY <1>1, <1>3
<1>4. CASE \E from \in {a \in Addr : v.bal[a] >= 1}, to \in Addr :
                w = Write(Create(Transfer(v, from, to, 1), n), stamp)
  <2>1. PICK from \in {a \in Addr : v.bal[a] >= 1}, to \in Addr :
                w = Write(Create(Transfer(v, from, to, 1), n), stamp)
    BY <1>4
  <2> DEFINE u == Transfer(v, from, to, 1)
  <2>2. /\ u \in VMState
        /\ u.nonce = v.nonce /\ u.opSeq = v.opSeq
        /\ u.codeSeq = v.codeSeq
        /\ u.seqByCode = v.seqByCode /\ u.store = v.store
        /\ u.instanceCount = v.instanceCount
        /\ u.contracts = v.contracts
        /\ v.touched \subseteq u.touched
        /\ \A a \in Addr : u.bal[a] # v.bal[a] => a \in u.touched
    BY <1>2
  <2>3. w = Write(Create(u, n), stamp)
    BY <2>1
  <2> HIDE DEF u
  <2>4. QED  BY <1>1, <2>2, <2>3
<1>5. QED  BY <1>3, <1>4 DEF CallEffects

\* A successful call moves the sender's nonce and marks the sender.
LEMMA IncrementNonceFacts ==
    ASSUME NEW v \in VMState, NEW u \in Users
    PROVE  LET w == IncrementNonce(v, u)
           IN  /\ w \in VMState
               /\ w.nonce = [v.nonce EXCEPT ![u] = @ + 1]
               /\ w.touched = v.touched \cup {u}
               /\ w.bal = v.bal /\ w.contracts = v.contracts
               /\ w.instanceCount = v.instanceCount /\ w.store = v.store
               /\ w.seqByCode = v.seqByCode /\ w.codeSeq = v.codeSeq
               /\ w.opSeq = v.opSeq
<1> DEFINE x == v.touched \cup {u}
           m == [v.nonce EXCEPT ![u] = @ + 1]
<1>1. x \in SUBSET Addr /\ m \in [Users -> Nat]
  BY DEF VMState, Addr
<1>2. IncrementNonce(v, u) = [v EXCEPT !.nonce = m, !.touched = x]
  BY DEF IncrementNonce, VMState
<1> HIDE DEF x, m
<1>3. QED  BY <1>1, <1>2 DEF VMState, x, m

\* A gas fee changes one balance and marks its account.
LEMMA DeductGasFeeFacts ==
    ASSUME NEW v \in VMState, NEW u \in Users, NEW fee \in Nat, CanPay(v, u, fee)
    PROVE  LET w == DeductGasFee(v, u, fee)
           IN  /\ w \in VMState
               /\ \A a \in Addr : a # u => w.bal[a] = v.bal[a]
               /\ w.touched = v.touched \cup {u}
               /\ w.nonce = v.nonce /\ w.contracts = v.contracts
               /\ w.instanceCount = v.instanceCount /\ w.store = v.store
               /\ w.seqByCode = v.seqByCode /\ w.codeSeq = v.codeSeq
               /\ w.opSeq = v.opSeq
<1> DEFINE x == v.touched \cup {u}
           b == [v.bal EXCEPT ![u] = @ - fee]
<1>1. x \in SUBSET Addr
  BY DEF VMState, Addr
<1>2. v.bal \in [Addr -> Nat] /\ u \in Addr /\ fee <= v.bal[u]
  BY DEF VMState, Addr, CanPay
<1>3. b \in [Addr -> Nat] /\ \A a \in Addr : a # u => b[a] = v.bal[a]
  BY <1>2
<1>4. DeductGasFee(v, u, fee) = [v EXCEPT !.bal = b, !.touched = x]
  BY DEF DeductGasFee, VMState
<1> HIDE DEF x, b
<1>5. QED  BY <1>1, <1>3, <1>4 DEF VMState, x

\* StoreCode adds the code to the stored ones and changes nothing else.
LEMMA StoreCodeFacts ==
    ASSUME NEW v \in VMState, NEW code \in Codes
    PROVE  LET w == StoreCode(v, code)
           IN  /\ w \in VMState
               /\ StoredCodes(w) = StoredCodes(v) \cup {code}
               /\ w.bal = v.bal /\ w.nonce = v.nonce /\ w.contracts = v.contracts
               /\ w.instanceCount = v.instanceCount /\ w.store = v.store
               /\ w.touched = v.touched /\ w.opSeq = v.opSeq
<1>1. CASE v.seqByCode[code] # 0
  BY <1>1 DEF StoreCode, StoredCodes
<1>2. CASE v.seqByCode[code] = 0
  <2> DEFINE m == [v.seqByCode EXCEPT ![code] = v.codeSeq + 1]
             k == v.codeSeq + 1
  <2>1. v.codeSeq \in Nat /\ v.seqByCode \in [Codes -> Nat]
    BY DEF VMState
  <2>2. m \in [Codes -> Nat] /\ k \in Nat /\ m[code] # 0
        /\ \A c \in Codes : c # code => m[c] = v.seqByCode[c]
    BY <2>1
  <2>3. StoreCode(v, code) = [v EXCEPT !.codeSeq = k, !.seqByCode = m]
    BY <1>2 DEF StoreCode, VMState
  <2> HIDE DEF m, k
  <2>4. /\ StoreCode(v, code) \in VMState
        /\ StoreCode(v, code).seqByCode = m
    BY <2>2, <2>3 DEF VMState
  <2>5. StoredCodes(StoreCode(v, code)) = StoredCodes(v) \cup {code}
    BY <2>2, <2>4 DEF StoredCodes
  <2>6. QED  BY <2>3, <2>4, <2>5 DEF VMState
<1>3. QED  BY <1>1, <1>2

-----------------------------------------------------------------------------
(***************************************************************************)
(* What the operators on the tables do.                                    *)
(***************************************************************************)

\* persistBalance writes the rows it is asked to, and no other.
LEMMA PersistAccountsFacts ==
    ASSUME NEW d \in Tables, NEW v \in VMState, NEW A \in SUBSET Addr
    PROVE  LET e == PersistAccounts(d, v, A)
           IN  /\ e \in Tables
               /\ \A a \in Addr : e.bal[a] = IF a \in A THEN v.bal[a] ELSE d.bal[a]
               /\ \A u \in Users :
                    e.nonce[u] = IF u \in A THEN v.nonce[u] ELSE d.nonce[u]
               /\ e.contracts = d.contracts /\ e.instanceCount = d.instanceCount
               /\ e.store = d.store /\ e.codes = d.codes
               /\ e.opSeq = d.opSeq /\ e.events = d.events
               /\ e.lastRow = d.lastRow /\ e.maxSeq = d.maxSeq
<1> DEFINE b == [a \in Addr |-> IF a \in A THEN v.bal[a] ELSE d.bal[a]]
           m == [u \in Users |-> IF u \in A THEN v.nonce[u] ELSE d.nonce[u]]
<1>1. b \in [Addr -> Nat] /\ m \in [Users -> Nat]
  BY DEF VMState, Tables
<1>2. /\ \A a \in Addr : b[a] = IF a \in A THEN v.bal[a] ELSE d.bal[a]
      /\ \A u \in Users : m[u] = IF u \in A THEN v.nonce[u] ELSE d.nonce[u]
  OBVIOUS
<1>3. PersistAccounts(d, v, A) = [d EXCEPT !.bal = b, !.nonce = m]
  BY DEF PersistAccounts
<1> HIDE DEF b, m
<1>4. QED  BY <1>1, <1>2, <1>3 DEF Tables

\* The rows of a call: registry, counter, events and storage.
LEMMA PersistCallFacts ==
    ASSUME NEW d \in Tables, NEW v \in VMState, NEW stamp \in TxIds
    PROVE  LET e == PersistCall(d, v, stamp)
           IN  /\ e \in Tables
               /\ e.contracts = d.contracts \cup v.contracts
               /\ e.instanceCount = v.instanceCount
               /\ e.events = d.events \cup {<<v.opSeq, stamp>>}
               /\ e.store = v.store
               /\ e.bal = d.bal /\ e.nonce = d.nonce /\ e.codes = d.codes
               /\ e.opSeq = d.opSeq
               /\ e.lastRow = d.lastRow /\ e.maxSeq = d.maxSeq
<1> DEFINE x == d.contracts \cup v.contracts
           y == d.events \cup {<<v.opSeq, stamp>>}
<1>1. x \in SUBSET Contract /\ v.instanceCount \in Nat /\ v.store \in SUBSET TxIds
  BY DEF VMState, Tables
<1>2. y \in SUBSET (Nat \X TxIds)
  BY DEF VMState, Tables
<1>3. PersistCall(d, v, stamp) =
        [d EXCEPT !.contracts = x, !.instanceCount = v.instanceCount,
                  !.events = y, !.store = v.store]
  BY DEF PersistCall
<1> HIDE DEF x, y
<1>4. QED  BY <1>1, <1>2, <1>3 DEF Tables, x, y

\* The rows of a stored code.
LEMMA PersistCodeFacts ==
    ASSUME NEW d \in Tables, NEW v \in VMState, NEW code \in Codes
    PROVE  LET e == PersistCode(d, v, code)
           IN  /\ e \in Tables
               /\ Rows(e) = Rows(d) \cup {code}
               /\ e.bal = d.bal /\ e.nonce = d.nonce
               /\ e.contracts = d.contracts /\ e.instanceCount = d.instanceCount
               /\ e.store = d.store /\ e.opSeq = d.opSeq /\ e.events = d.events
<1> DEFINE c == [d.codes EXCEPT ![code] = d.lastRow + 1]
           k == d.lastRow + 1
           m == IF v.seqByCode[code] > d.maxSeq THEN v.seqByCode[code] ELSE d.maxSeq
<1>1. d.lastRow \in Nat /\ d.codes \in [Codes -> Nat]
  BY DEF Tables
<1>2. c \in [Codes -> Nat] /\ k \in Nat /\ c[code] # 0
      /\ \A e \in Codes : e # code => c[e] = d.codes[e]
  BY <1>1
<1>3. m \in Nat
  BY DEF Tables, VMState
<1>4. PersistCode(d, v, code) = [d EXCEPT !.codes = c, !.lastRow = k, !.maxSeq = m]
  BY DEF PersistCode
<1> HIDE DEF c, k, m
<1>5. PersistCode(d, v, code) \in Tables /\ PersistCode(d, v, code).codes = c
  BY <1>2, <1>3, <1>4 DEF Tables
<1>6. Rows(PersistCode(d, v, code)) = Rows(d) \cup {code}
  BY <1>2, <1>5 DEF Rows
<1>7. QED  BY <1>4, <1>5, <1>6 DEF Tables

\* restore() rebuilds a memory that agrees with the tables.
LEMMA RestoredFacts ==
    ASSUME NEW d \in Tables
    PROVE  Restored(d) \in VMState /\ Agree(Restored(d), d)
<1> DEFINE m == [c \in Codes |-> IF c \in Rows(d) THEN Cardinality(RowsUpTo(d, c))
                                 ELSE 0]
           k == IF d.maxSeq > 0 THEN d.maxSeq ELSE Cardinality(Rows(d))
<1>1. IsFiniteSet(Rows(d)) /\ Cardinality(Rows(d)) \in Nat
  <2>1. Rows(d) \subseteq Codes
    BY DEF Rows
  <2>2. QED  BY <2>1, NodeAssumption, FS_Subset, FS_CardinalityType
<1>2. ASSUME NEW c \in Rows(d)
      PROVE  Cardinality(RowsUpTo(d, c)) \in Nat \ {0}
  <2>1. RowsUpTo(d, c) \subseteq Rows(d) /\ c \in RowsUpTo(d, c)
    BY DEF RowsUpTo, Rows, Tables
  <2>2. IsFiniteSet(RowsUpTo(d, c))
    BY <1>1, <2>1, FS_Subset
  <2>3. QED  BY <2>1, <2>2, FS_CardinalityType, FS_EmptySet
<1>3. m \in [Codes -> Nat] /\ \A c \in Codes : m[c] # 0 <=> c \in Rows(d)
  BY <1>2
<1>4. k \in Nat
  BY <1>1 DEF Tables
<1>5. Restored(d) =
        [bal |-> d.bal, nonce |-> d.nonce, contracts |-> d.contracts,
         instanceCount |-> d.instanceCount, touched |-> {}, store |-> d.store,
         seqByCode |-> m, codeSeq |-> k, opSeq |-> d.opSeq]
  BY DEF Restored
<1> HIDE DEF m, k
<1>6. Restored(d) \in VMState
  BY <1>3, <1>4, <1>5 DEF VMState, Tables
<1>7. StoredCodes(Restored(d)) = Rows(d)
  BY <1>3, <1>5 DEF StoredCodes, Rows
<1>8. QED  BY <1>5, <1>6, <1>7 DEF Agree, RegistryAgrees

-----------------------------------------------------------------------------
(***************************************************************************)
(* Without a faucet IInv is inductive.  HistoryInv is its part about what is       *)
(* committed, which only Commit and PersistFailed can disturb.             *)
(***************************************************************************)
HistoryInv ==
    NoncesUsed /\ NoReplay /\ DurableEffects /\ OpsNumbered /\ InstancesCounted

Locals == [snap : VMState \cup {Nil}, touched : SUBSET Addr, fee : Nat, nonce : Nat]

\* What is committed stays true while nothing is committed.
LEMMA HistoryUnchanged ==
    ASSUME HistoryInv, UNCHANGED <<db, committed>>
    PROVE  HistoryInv'
BY DEF HistoryInv, NoncesUsed, NoReplay, DurableEffects, OpsNumbered,
       InstancesCounted, CommittedCalls

\* While one thread is inside a handler the others are outside.
LEMMA OthersWait ==
    ASSUME LockInv, NEW t \in Threads, pc[t] \in Holding
    PROVE  writeMu = t /\ \A s \in Threads : s # t => pc[s] \in {"idle", "lock"}
BY DEF LockInv

\* A node started on an empty database satisfies the invariant.
LEMMA InitInv == Init => IInv
<1> SUFFICES ASSUME Init PROVE IInv
  OBVIOUS
<1> USE DEF Init
<1>1. GenesisTables \in Tables
  BY NodeAssumption DEF GenesisTables, Tables
<1>2. mem \in VMState /\ Agree(mem, db)
  BY <1>1, RestoredFacts
<1>3. TypeOK
  BY <1>1, <1>2 DEF TypeOK, NoLocals, Labels
<1>4. LockInv /\ RequestInv /\ SnapInv /\ CommitInv
  BY NodeAssumption DEF LockInv, RequestInv, SnapInv, CommitInv, Holding, Committing
<1>5. MemDbAgree
  BY <1>2 DEF MemDbAgree
<1>6. NoncesUsed /\ NoReplay /\ DurableEffects /\ OpsNumbered /\ InstancesCounted
  BY DEF NoncesUsed, NoReplay, DurableEffects, OpsNumbered, InstancesCounted,
         CommittedCalls, GenesisTables
<1>7. QED  BY <1>3, <1>4, <1>5, <1>6 DEF IInv

\* A request arrives.
LEMMA ReceiveInv ==
    ASSUME IInv, NEW t \in Threads, Receive(t)
    PROVE  IInv'
<1> USE DEF IInv
<1>1. PICK kind \in Kinds \ {"faucet"}, u \in Users, n \in 0..MaxNonce - 1,
           code \in Codes \cup {Nil} :
        /\ kind = "store" <=> code # Nil
        /\ req' = [req EXCEPT ![t] = [kind |-> kind, sender |-> u, nonce |-> n,
                                      code |-> code, amount |-> 0]]
  BY DEF Receive
<1>2. /\ pc[t] = "idle" /\ pc' = [pc EXCEPT ![t] = "lock"]
      /\ UNCHANGED <<mem, db, dbtx, writeMu, loc, committed>>
  BY DEF Receive, Goto
<1>3. req'[t] \in Request /\ (req'[t].kind = "store" <=> req'[t].code # Nil)
  BY <1>1, NodeAssumption DEF TypeOK, Request
<1>4. TypeOK'
  BY <1>1, <1>2, <1>3 DEF TypeOK, Labels
<1>5. LockInv'
  BY <1>2 DEF LockInv, TypeOK, Holding, Committing
<1>6. RequestInv'
  BY <1>1, <1>2, <1>3 DEF RequestInv, TypeOK, Signed, Call, Committing
<1>7. \A s \in Threads : pc'[s] \in Holding => s # t /\ pc'[s] = pc[s] /\ req'[s] = req[s]
  BY <1>1, <1>2 DEF TypeOK, Holding, Committing
<1>8. SnapInv'
  BY <1>2, <1>7 DEF SnapInv, Holding, Agree, RegistryAgrees
<1>9. CommitInv'
  <2>1. ASSUME NEW s \in Threads, pc'[s] \in Committing
        PROVE  /\ Advanced(s)'
               /\ pc'[s] = "write" => FeeWritten(s)'
               /\ pc'[s] \in {"tick", "commit"} => TablesWritten(s)'
    <3>1. pc'[s] = pc[s] /\ req'[s] = req[s] /\ pc[s] \in Committing
      BY <1>7, <2>1 DEF Holding
    <3>2. /\ Advanced(s)
          /\ pc[s] = "write" => FeeWritten(s)
          /\ pc[s] \in {"tick", "commit"} => TablesWritten(s)
      BY <3>1 DEF CommitInv
    <3>3. (Call(s)' <=> Call(s)) /\ TxId(s)' = TxId(s) /\ Unwritten(s)' = Unwritten(s)
      BY <1>2, <3>1 DEF Call, TxId, Unwritten
    <3>4. Advanced(s)'
      BY <1>2, <3>1, <3>2, <3>3 DEF Advanced, RegistryAhead
    <3>5. pc'[s] = "write" => FeeWritten(s)'
      BY <1>2, <3>1, <3>2 DEF FeeWritten
    <3>6. pc'[s] \in {"tick", "commit"} => TablesWritten(s)'
      BY <1>2, <3>1, <3>2, <3>3 DEF TablesWritten, RegistryWritten
    <3>7. QED  BY <3>4, <3>5, <3>6
  <2>2. (\A s \in Threads : pc'[s] \notin {"write", "tick", "commit"}) => dbtx' = Nil
    BY <1>2 DEF CommitInv, TypeOK
  <2>3. QED  BY <2>1, <2>2 DEF CommitInv, Committing
<1>10. MemDbAgree'
  BY <1>2 DEF MemDbAgree, Agree, RegistryAgrees
<1>11. HistoryInv'
  BY <1>2, HistoryUnchanged DEF HistoryInv
<1>12. QED
  BY <1>4, <1>5, <1>6, <1>8, <1>9, <1>10, <1>11 DEF HistoryInv

-----------------------------------------------------------------------------
(***************************************************************************)
(* Every other action belongs to the thread that holds writeMu or takes    *)
(* it.  What the invariant says of that thread is ServedInv; the others    *)
(* are outside their handlers, where the invariant asks nothing of them.   *)
(***************************************************************************)
ServedInv(t) ==
    /\ pc[t] # "idle" =>
        /\ req[t] \in Request
        /\ req[t].kind = "store" <=> req[t].code # Nil
    /\ pc[t] \in Committing => Signed(t)
    /\ pc[t] \in {"charge", "persist"} => Call(t)
    /\ pc[t] \in {"call", "failed"} \cup Committing =>
        /\ loc[t].snap \in VMState
        /\ Agree(loc[t].snap, db)
    /\ pc[t] = "call" => mem = loc[t].snap
    /\ pc[t] \in {"charge", "persist", "reply"} => Agree(mem, db)
    /\ pc[t] \in Committing => Advanced(t)
    /\ pc[t] = "write" => FeeWritten(t)
    /\ pc[t] \in {"tick", "commit"} => TablesWritten(t)
    /\ pc[t] \notin {"write", "tick", "commit"} => dbtx = Nil

\* What the invariant gives for the thread that holds writeMu.
LEMMA ServedFacts ==
    ASSUME IInv, NEW t \in Threads, pc[t] \in Holding
    PROVE  /\ writeMu = t
           /\ ServedInv(t)
           /\ HistoryInv
           /\ mem \in VMState /\ db \in Tables
           /\ req[t] \in Request /\ loc[t] \in Locals
<1>1. TypeOK /\ LockInv /\ RequestInv /\ SnapInv /\ CommitInv /\ HistoryInv
  BY DEF IInv, HistoryInv
<1>2. writeMu = t /\ \A s \in Threads : s # t => pc[s] \in {"idle", "lock"}
  BY <1>1, OthersWait
<1>3. pc[t] \notin {"write", "tick", "commit"} => dbtx = Nil
  BY <1>1, <1>2 DEF CommitInv
<1>4. req[t] \in Request /\ loc[t] \in Locals /\ mem \in VMState /\ db \in Tables
  BY <1>1 DEF TypeOK, RequestInv, Locals, Holding, Committing
<1>5. ServedInv(t)
  BY <1>1, <1>3 DEF ServedInv, RequestInv, SnapInv, CommitInv
<1>6. QED  BY <1>1, <1>2, <1>4, <1>5

\* A step of one thread that leaves ServedInv of that thread intact leaves
\* the whole invariant intact.
LEMMA ThreadStep ==
    ASSUME IInv, NEW t \in Threads, NEW label \in {"idle"} \cup Holding,
           writeMu \in {t, Nil},
           pc' = [pc EXCEPT ![t] = label],
           writeMu' = IF label = "idle" THEN Nil ELSE t,
           \A s \in Threads : s # t => req'[s] = req[s],
           TypeOK', ServedInv(t)', HistoryInv',
           label = "idle" => Agree(mem, db)'
    PROVE  IInv'
<1>1. TypeOK /\ LockInv /\ RequestInv
  BY DEF IInv
<1>2. \A s \in Threads : s # t => pc[s] \in {"idle", "lock"}
  BY <1>1, NodeAssumption DEF LockInv
<1>3. pc'[t] = label /\ \A s \in Threads : s # t => pc'[s] = pc[s]
  BY <1>1 DEF TypeOK
<1>4. LockInv'
  BY <1>2, <1>3, NodeAssumption DEF LockInv, Holding, Committing
<1>5. RequestInv'
  <2>1. ASSUME NEW s \in Threads, s # t
        PROVE  /\ pc'[s] # "idle" =>
                    /\ req'[s] \in Request
                    /\ req'[s].kind = "store" <=> req'[s].code # Nil
               /\ pc'[s] \notin Committing /\ pc'[s] \notin {"charge", "persist"}
    BY <1>1, <1>2, <1>3, <2>1 DEF RequestInv, Committing
  <2>2. QED  BY <2>1 DEF RequestInv, ServedInv
<1>6. SnapInv'
  BY <1>2, <1>3 DEF SnapInv, ServedInv, Committing
<1>7. CommitInv'
  BY <1>2, <1>3 DEF CommitInv, ServedInv, Committing
<1>8. MemDbAgree'
  BY NodeAssumption DEF MemDbAgree
<1>9. QED
  BY <1>4, <1>5, <1>6, <1>7, <1>8 DEF IInv, HistoryInv

\* The lock is taken and the snapshot made.
LEMMA LockStep ==
    ASSUME IInv, NEW t \in Threads, Lock(t)
    PROVE  IInv'
<1>1. TypeOK /\ LockInv /\ RequestInv /\ CommitInv /\ MemDbAgree /\ HistoryInv
  BY DEF IInv, HistoryInv
<1>2. /\ pc[t] = "lock" /\ writeMu = Nil /\ writeMu' = t
      /\ loc' = [loc EXCEPT ![t].snap = mem]
      /\ pc' = [pc EXCEPT ![t] = "call"]
      /\ UNCHANGED <<mem, db, dbtx, req, committed>>
  BY DEF Lock, Goto
<1>3. Agree(mem, db) /\ mem \in VMState
  BY <1>1, <1>2 DEF MemDbAgree, TypeOK
<1>4. dbtx = Nil
  BY <1>1, <1>2, NodeAssumption DEF CommitInv, LockInv, Holding, Committing
<1>5. pc'[t] = "call" /\ loc'[t].snap = mem
  BY <1>1, <1>2 DEF TypeOK
<1>6. TypeOK'
  BY <1>1, <1>2, <1>3 DEF TypeOK, Labels
<1>7. ServedInv(t)'
  BY <1>1, <1>2, <1>3, <1>4, <1>5
     DEF ServedInv, RequestInv, Committing, Agree, RegistryAgrees
<1>8. HistoryInv'
  BY <1>1, <1>2, HistoryUnchanged
<1>9. QED
  BY <1>2, <1>6, <1>7, <1>8, ThreadStep DEF Holding

\* The response is written: the memory agrees with the tables, and no SQL
\* transaction is open.
LEMMA ReplyStep ==
    ASSUME IInv, NEW t \in Threads, Reply(t)
    PROVE  IInv'
<1>1. TypeOK
  BY DEF IInv
<1>2. /\ pc[t] = "reply" /\ writeMu' = Nil
      /\ loc' = [loc EXCEPT ![t] = NoLocals]
      /\ req' = [req EXCEPT ![t] = Nil]
      /\ pc' = [pc EXCEPT ![t] = "idle"]
      /\ UNCHANGED <<mem, db, dbtx, committed>>
  BY DEF Reply, Forget, Goto
<1>3. writeMu = t /\ ServedInv(t) /\ HistoryInv
  BY <1>2, ServedFacts DEF Holding
<1>4. Agree(mem, db) /\ dbtx = Nil
  BY <1>2, <1>3 DEF ServedInv
<1>5. TypeOK'
  BY <1>1, <1>2 DEF TypeOK, Labels, NoLocals
<1>6. pc'[t] = "idle" /\ \A s \in Threads : s # t => req'[s] = req[s]
  BY <1>1, <1>2 DEF TypeOK
<1>7. ServedInv(t)'
  BY <1>2, <1>4, <1>6 DEF ServedInv, Committing
<1>8. HistoryInv' /\ Agree(mem, db)'
  BY <1>2, <1>3, <1>4, HistoryUnchanged DEF Agree, RegistryAgrees
<1>9. QED
  BY <1>2, <1>3, <1>5, <1>6, <1>7, <1>8, ThreadStep

\* The memory a call starts from, and the identity it leaves in storage.
LEMMA CallStart ==
    ASSUME IInv, NEW t \in Threads, pc[t] = "call"
    PROVE  /\ mem = loc[t].snap /\ Agree(mem, db) /\ dbtx = Nil
           /\ mem.contracts = 1..mem.instanceCount
           /\ TxId(t) \in TxIds /\ <<req[t].sender, NoNonce>> \in TxIds
<1>1. ServedInv(t) /\ HistoryInv /\ req[t] \in Request
  BY ServedFacts DEF Holding
<1>2. mem = loc[t].snap /\ Agree(mem, db) /\ dbtx = Nil
  BY <1>1 DEF ServedInv
<1>3. mem.contracts = 1..mem.instanceCount
  BY <1>1, <1>2 DEF HistoryInv, InstancesCounted, Agree, RegistryAgrees
<1>4. QED
  BY <1>1, <1>2, <1>3 DEF TxId, TxIds, Request, NoNonce

\* A step that only changes the memory, the fee and the label of a thread
\* whose snapshot may still be restored.
LEMMA UndoableStep ==
    ASSUME IInv, NEW t \in Threads, pc[t] = "call",
           NEW fee \in Nat,
           loc' = [loc EXCEPT ![t].fee = fee] \/ UNCHANGED loc,
           pc' = [pc EXCEPT ![t] = "failed"],
           mem' \in VMState,
           UNCHANGED <<db, dbtx, writeMu, req, committed>>
    PROVE  IInv'
<1>1. TypeOK
  BY DEF IInv
<1>2. writeMu = t /\ ServedInv(t) /\ HistoryInv /\ loc[t] \in Locals
  BY ServedFacts DEF Holding
<1>3. /\ loc[t].snap \in VMState /\ Agree(loc[t].snap, db) /\ dbtx = Nil
      /\ req[t] \in Request /\ (req[t].kind = "store" <=> req[t].code # Nil)
  BY <1>2 DEF ServedInv
<1>4. pc'[t] = "failed" /\ loc'[t].snap = loc[t].snap
  BY <1>1 DEF TypeOK
<1>5. TypeOK'
  BY <1>1 DEF TypeOK, Labels
<1>6. ServedInv(t)'
  BY <1>3, <1>4 DEF ServedInv, Committing, Agree, RegistryAgrees
<1>7. HistoryInv'
  BY <1>2, HistoryUnchanged
<1>8. QED
  BY <1>2, <1>5, <1>6, <1>7, ThreadStep, NodeAssumption DEF Holding

\* A failed call may leave anything in the memory.
LEMMA CallFailsStep ==
    ASSUME IInv, NEW t \in Threads, CallFails(t)
    PROVE  IInv'
<1>1. PICK n \in 0..1, fee \in Fees :
        /\ mem.instanceCount + n <= MaxInstances
        /\ mem' \in CallEffects(mem, n, TxId(t))
        /\ loc' = [loc EXCEPT ![t].fee = fee]
  BY DEF CallFails
<1>2. /\ pc[t] = "call" /\ pc' = [pc EXCEPT ![t] = "failed"]
      /\ UNCHANGED <<db, dbtx, writeMu, req, committed>>
  BY DEF CallFails, Goto
<1>3. mem \in VMState
  BY DEF IInv, TypeOK
<1>4. mem' \in VMState
  BY <1>1, <1>2, <1>3, CallStart, CallEffectsFacts
<1>5. fee \in Nat
  BY NodeAssumption
<1>6. QED  BY <1>1, <1>2, <1>4, <1>5, UndoableStep

\* A simulated call runs in the live memory.
LEMMA CallSimulatedStep ==
    ASSUME IInv, NEW t \in Threads, CallSimulated(t)
    PROVE  IInv'
<1>1. PICK n \in 0..1 :
        /\ mem.instanceCount + n <= MaxInstances
        /\ mem' \in CallEffects(mem, n, <<req[t].sender, NoNonce>>)
  BY DEF CallSimulated
<1>2. /\ pc[t] = "call" /\ pc' = [pc EXCEPT ![t] = "failed"]
      /\ UNCHANGED <<db, dbtx, writeMu, req, loc, committed>>
  BY DEF CallSimulated, Goto
<1>3. mem \in VMState
  BY DEF IInv, TypeOK
<1>4. mem' \in VMState
  BY <1>1, <1>2, <1>3, CallStart, CallEffectsFacts
<1>5. QED  BY <1>2, <1>4, UndoableStep

\* A refused call changes nothing.
LEMMA CallRefusedStep ==
    ASSUME IInv, NEW t \in Threads, CallRefused(t)
    PROVE  IInv'
<1>1. /\ pc[t] = "call" /\ pc' = [pc EXCEPT ![t] = "failed"]
      /\ UNCHANGED <<mem, db, dbtx, writeMu, req, loc, committed>>
  BY DEF CallRefused, Goto
<1>2. mem' \in VMState
  BY <1>1 DEF IInv, TypeOK
<1>3. QED  BY <1>1, <1>2, UndoableStep

\* A call that succeeded and is about to be committed.
LEMMA AdvancedStep ==
    ASSUME IInv, NEW t \in Threads, pc[t] = "call", Signed(t),
           NEW fee \in Nat,
           loc' = [loc EXCEPT ![t].fee = fee],
           pc' = [pc EXCEPT ![t] = "begin"],
           mem' \in VMState,
           Advanced(t)',
           UNCHANGED <<db, dbtx, writeMu, req, committed>>
    PROVE  IInv'
<1>1. TypeOK
  BY DEF IInv
<1>2. writeMu = t /\ ServedInv(t) /\ HistoryInv /\ loc[t] \in Locals
  BY ServedFacts DEF Holding
<1>3. /\ loc[t].snap \in VMState /\ Agree(loc[t].snap, db) /\ dbtx = Nil
      /\ req[t] \in Request /\ (req[t].kind = "store" <=> req[t].code # Nil)
  BY <1>2 DEF ServedInv
<1>4. pc'[t] = "begin" /\ loc'[t].snap = loc[t].snap
  BY <1>1 DEF TypeOK
<1>5. TypeOK'
  BY <1>1 DEF TypeOK, Labels
<1>6. ServedInv(t)'
  BY <1>3, <1>4 DEF ServedInv, Committing, Agree, RegistryAgrees, Signed
<1>7. HistoryInv'
  BY <1>2, HistoryUnchanged
<1>8. QED
  BY <1>2, <1>5, <1>6, <1>7, ThreadStep, NodeAssumption DEF Holding, Committing

\* A call succeeded: memory is ahead of the tables by its effects, and every
\* account it changed is marked.
LEMMA CallSucceedsStep ==
    ASSUME IInv, NEW t \in Threads, CallSucceeds(t)
    PROVE  IInv'
<1>1. PICK n \in 0..1, fee \in Fees :
        /\ mem.instanceCount + n <= MaxInstances
        /\ \E v \in CallEffects(mem, n, TxId(t)) :
                mem' = IncrementNonce(v, req[t].sender)
        /\ loc' = [loc EXCEPT ![t].fee = fee]
  BY DEF CallSucceeds
<1>2. PICK v \in CallEffects(mem, n, TxId(t)) :
        mem' = IncrementNonce(v, req[t].sender)
  BY <1>1
<1>3. /\ pc[t] = "call" /\ pc' = [pc EXCEPT ![t] = "begin"]
      /\ Call(t) /\ req[t].nonce = mem.nonce[req[t].sender]
      /\ UNCHANGED <<db, dbtx, writeMu, req, committed>>
  BY DEF CallSucceeds, Goto, ValidateNonce
<1>4. /\ mem \in VMState /\ db \in Tables /\ req[t] \in Request
      /\ req[t].sender \in Users
  BY <1>3, ServedFacts DEF Holding, Request
<1>5. /\ Agree(mem, db) /\ TxId(t) \in TxIds
      /\ mem.contracts = 1..mem.instanceCount
  BY <1>3, CallStart
<1>6. /\ v \in VMState
      /\ v.nonce = mem.nonce /\ v.opSeq = mem.opSeq
      /\ v.seqByCode = mem.seqByCode
      /\ v.store = mem.store \cup {TxId(t)}
      /\ v.instanceCount = mem.instanceCount + n
      /\ v.contracts = 1..v.instanceCount
      /\ mem.touched \subseteq v.touched
      /\ \A a \in Addr : v.bal[a] # mem.bal[a] => a \in v.touched
  BY <1>1, <1>2, <1>4, <1>5, CallEffectsFacts
<1>7. /\ mem' \in VMState
      /\ mem'.nonce = [v.nonce EXCEPT ![req[t].sender] = @ + 1]
      /\ mem'.touched = v.touched \cup {req[t].sender}
      /\ mem'.bal = v.bal /\ mem'.contracts = v.contracts
      /\ mem'.instanceCount = v.instanceCount /\ mem'.store = v.store
      /\ mem'.seqByCode = v.seqByCode /\ mem'.opSeq = v.opSeq
  BY <1>2, <1>4, <1>6, IncrementNonceFacts
<1>8. pc'[t] = "begin"
  BY <1>3 DEF IInv, TypeOK
<1>9. Advanced(t)'
  <2>1. Call(t)' /\ TxId(t)' = TxId(t) /\ Unwritten(t)' = mem'.touched
    BY <1>3, <1>8 DEF Call, TxId, Unwritten
  <2>2. /\ req'[t].nonce = db'.nonce[req'[t].sender]
        /\ mem'.nonce = [db'.nonce EXCEPT ![req'[t].sender] = @ + 1]
    BY <1>3, <1>5, <1>6, <1>7 DEF Agree, RegistryAgrees
  <2>3. mem'.opSeq = db'.opSeq /\ mem'.store = db'.store \cup {TxId(t)}
    BY <1>3, <1>5, <1>6, <1>7 DEF Agree, RegistryAgrees
  <2>4. StoredCodes(mem') = Rows(db')
    BY <1>3, <1>5, <1>6, <1>7 DEF Agree, RegistryAgrees, StoredCodes
  <2>5. mem'.contracts = 1..mem'.instanceCount /\ db'.instanceCount <= mem'.instanceCount
    BY <1>3, <1>4, <1>5, <1>6, <1>7 DEF Agree, RegistryAgrees, VMState
  <2>6. \A a \in Addr : mem'.bal[a] # db'.bal[a] => a \in mem'.touched
    BY <1>3, <1>5, <1>6, <1>7 DEF Agree, RegistryAgrees
  <2>7. req'[t].sender \in mem'.touched
    BY <1>3, <1>7
  <2>8. QED
    BY <1>8, <2>1, <2>2, <2>3, <2>4, <2>5, <2>6, <2>7 DEF Advanced, RegistryAhead
<1>10. fee \in Nat
  BY NodeAssumption
<1>11. Signed(t)
  BY <1>3 DEF Signed, Call
<1>12. QED  BY <1>1, <1>3, <1>7, <1>9, <1>10, <1>11, AdvancedStep

\* A code was stored: memory is ahead by the code and the sender's nonce.
LEMMA StoreSucceedsStep ==
    ASSUME IInv, NEW t \in Threads, StoreSucceeds(t)
    PROVE  IInv'
<1> DEFINE v == StoreCode(mem, req[t].code)
<1>1. PICK fee \in Fees : loc' = [loc EXCEPT ![t].fee = fee]
  BY DEF StoreSucceeds
<1>2. /\ pc[t] = "call" /\ pc' = [pc EXCEPT ![t] = "begin"]
      /\ req[t].kind = "store" /\ req[t].nonce = mem.nonce[req[t].sender]
      /\ mem' = IncrementNonce(v, req[t].sender)
      /\ UNCHANGED <<db, dbtx, writeMu, req, committed>>
  BY DEF StoreSucceeds, Goto, ValidateNonce
<1>3. /\ mem \in VMState /\ db \in Tables /\ req[t] \in Request /\ ServedInv(t)
      /\ req[t].sender \in Users
  BY <1>2, ServedFacts DEF Holding, Request
<1>4. req[t].code \in Codes
  BY <1>2, <1>3 DEF ServedInv, Request
<1>5. Agree(mem, db) /\ mem.contracts = 1..mem.instanceCount
  BY <1>2, CallStart
<1>6. /\ v \in VMState
      /\ StoredCodes(v) = StoredCodes(mem) \cup {req[t].code}
      /\ v.bal = mem.bal /\ v.nonce = mem.nonce /\ v.contracts = mem.contracts
      /\ v.instanceCount = mem.instanceCount /\ v.store = mem.store
      /\ v.touched = mem.touched /\ v.opSeq = mem.opSeq
  BY <1>3, <1>4, StoreCodeFacts
<1> HIDE DEF v
<1>7. /\ mem' \in VMState
      /\ mem'.nonce = [v.nonce EXCEPT ![req[t].sender] = @ + 1]
      /\ mem'.touched = v.touched \cup {req[t].sender}
      /\ mem'.bal = v.bal /\ mem'.contracts = v.contracts
      /\ mem'.instanceCount = v.instanceCount /\ mem'.store = v.store
      /\ mem'.seqByCode = v.seqByCode /\ mem'.opSeq = v.opSeq
  BY <1>2, <1>3, <1>6, IncrementNonceFacts
<1>8. pc'[t] = "begin"
  BY <1>2 DEF IInv, TypeOK
<1>9. Advanced(t)'
  <2>1. ~Call(t)' /\ Unwritten(t)' = mem'.touched
    BY <1>2, <1>8 DEF Call, Unwritten
  <2>2. /\ req'[t].nonce = db'.nonce[req'[t].sender]
        /\ mem'.nonce = [db'.nonce EXCEPT ![req'[t].sender] = @ + 1]
    BY <1>2, <1>5, <1>6, <1>7 DEF Agree, RegistryAgrees
  <2>3. mem'.opSeq = db'.opSeq /\ mem'.store = db'.store
    BY <1>2, <1>5, <1>6, <1>7 DEF Agree, RegistryAgrees
  <2>4. StoredCodes(mem') = Rows(db') \cup {req'[t].code}
    BY <1>2, <1>5, <1>6, <1>7 DEF Agree, RegistryAgrees, StoredCodes
  <2>5. mem'.contracts = 1..mem'.instanceCount /\ db'.instanceCount = mem'.instanceCount
    BY <1>2, <1>5, <1>6, <1>7 DEF Agree, RegistryAgrees
  <2>6. \A a \in Addr : mem'.bal[a] # db'.bal[a] => a \in mem'.touched
    BY <1>2, <1>5, <1>6, <1>7 DEF Agree, RegistryAgrees
  <2>7. req'[t].sender \in mem'.touched /\ db'.instanceCount \in Nat
    BY <1>2, <1>3, <1>7 DEF Tables
  <2>8. QED
    BY <1>8, <2>1, <2>2, <2>3, <2>4, <2>5, <2>6, <2>7 DEF Advanced, RegistryAhead
<1>10. fee \in Nat
  BY NodeAssumption
<1>11. Signed(t)
  BY <1>2 DEF Signed
<1>12. QED  BY <1>1, <1>2, <1>7, <1>9, <1>10, <1>11, AdvancedStep

\* A step to "charge", "persist" or "reply" that ends with a memory in
\* agreement with the tables and with no SQL transaction.
LEMMA AgreeingStep ==
    ASSUME IInv, NEW t \in Threads, pc[t] \in Holding,
           NEW label \in {"charge", "persist", "reply"},
           label # "reply" => Call(t),
           pc' = [pc EXCEPT ![t] = label],
           mem' \in VMState, db' \in Tables, dbtx' = Nil,
           Agree(mem, db)',
           HistoryInv',
           committed' \in Seq([kind : Kinds, id : TxIds, code : Codes \cup {Nil},
                               seq : Nat]),
           UNCHANGED <<writeMu, req, loc>>
    PROVE  IInv'
<1>1. TypeOK
  BY DEF IInv
<1>2. writeMu = t /\ ServedInv(t)
  BY ServedFacts
<1>3. req[t] \in Request /\ (req[t].kind = "store" <=> req[t].code # Nil)
  BY <1>2 DEF ServedInv, Holding, Committing
<1>4. pc'[t] = label
  BY <1>1 DEF TypeOK
<1>5. TypeOK'
  BY <1>1 DEF TypeOK, Labels
<1>6. ServedInv(t)'
  BY <1>3, <1>4 DEF ServedInv, Committing, Call
<1>7. QED
  BY <1>2, <1>5, <1>6, ThreadStep, NodeAssumption DEF Holding

\* A failed or simulated call is undone by the snapshot.
LEMMA RestoreFailedStep ==
    ASSUME IInv, NEW t \in Threads, RestoreFailed(t)
    PROVE  IInv'
<1> DEFINE label == IF Call(t) /\ loc[t].fee > 0 THEN "charge" ELSE "reply"
<1>1. /\ pc[t] = "failed" /\ mem' = loc[t].snap
      /\ pc' = [pc EXCEPT ![t] = label]
      /\ UNCHANGED <<db, dbtx, writeMu, req, loc, committed>>
  BY DEF RestoreFailed, Goto
<1>2. ServedInv(t) /\ HistoryInv /\ db \in Tables
  BY <1>1, ServedFacts DEF Holding
<1>3. mem' \in VMState /\ Agree(mem, db)' /\ dbtx' = Nil
  BY <1>1, <1>2 DEF ServedInv, Agree, RegistryAgrees
<1>4. HistoryInv'
  BY <1>1, <1>2, HistoryUnchanged
<1>5. label \in {"charge", "persist", "reply"} /\ (label # "reply" => Call(t))
  OBVIOUS
<1> HIDE DEF label
<1>6. committed' \in Seq([kind : Kinds, id : TxIds, code : Codes \cup {Nil}, seq : Nat])
  BY <1>1 DEF IInv, TypeOK
<1>7. QED
  BY <1>1, <1>2, <1>3, <1>4, <1>5, <1>6, AgreeingStep DEF Holding

\* The same of a commit that is given up.
LEMMA AbortStep ==
    ASSUME IInv, NEW t \in Threads, Abort(t)
    PROVE  IInv'
<1>1. /\ pc[t] \in Committing /\ mem' = loc[t].snap /\ dbtx' = Nil
      /\ pc' = [pc EXCEPT ![t] = "reply"]
      /\ UNCHANGED <<db, writeMu, req, loc, committed>>
  BY DEF Abort, Goto, Committing
<1>2. ServedInv(t) /\ HistoryInv /\ db \in Tables
  BY <1>1, ServedFacts DEF Holding
<1>3. mem' \in VMState /\ Agree(mem, db)'
  BY <1>1, <1>2 DEF ServedInv, Agree, RegistryAgrees
<1>4. HistoryInv'
  BY <1>1, <1>2, HistoryUnchanged
<1>5. committed' \in Seq([kind : Kinds, id : TxIds, code : Codes \cup {Nil}, seq : Nat])
  BY <1>1 DEF IInv, TypeOK
<1>6. QED
  BY <1>1, <1>2, <1>3, <1>4, <1>5, AgreeingStep DEF Holding

\* The fee of a failed call is taken from an account that gets marked.
LEMMA ChargeFailedStep ==
    ASSUME IInv, NEW t \in Threads, ChargeFailed(t)
    PROVE  IInv'
<1>1. pc[t] = "charge" /\ UNCHANGED <<db, dbtx, writeMu, req, loc, committed>>
  BY DEF ChargeFailed
<1>2. /\ ServedInv(t) /\ HistoryInv /\ mem \in VMState /\ db \in Tables
      /\ loc[t].fee \in Nat /\ req[t].sender \in Users
  BY <1>1, ServedFacts DEF Holding, Locals, Request
<1>3. Agree(mem, db) /\ Call(t) /\ dbtx' = Nil
  BY <1>1, <1>2 DEF ServedInv
<1>4. HistoryInv'
  BY <1>1, <1>2, HistoryUnchanged
<1>5. committed' \in Seq([kind : Kinds, id : TxIds, code : Codes \cup {Nil}, seq : Nat])
  BY <1>1 DEF IInv, TypeOK
<1>6. CASE CanPay(mem, req[t].sender, loc[t].fee)
  <2>1. /\ mem' = DeductGasFee(mem, req[t].sender, loc[t].fee)
        /\ pc' = [pc EXCEPT ![t] = "persist"]
    BY <1>6 DEF ChargeFailed, Goto
  <2>2. /\ mem' \in VMState
        /\ \A a \in Addr : a # req[t].sender => mem'.bal[a] = mem.bal[a]
        /\ mem'.touched = mem.touched \cup {req[t].sender}
        /\ mem'.nonce = mem.nonce /\ mem'.contracts = mem.contracts
        /\ mem'.instanceCount = mem.instanceCount /\ mem'.store = mem.store
        /\ mem'.seqByCode = mem.seqByCode /\ mem'.opSeq = mem.opSeq
    BY <1>2, <1>6, <2>1, DeductGasFeeFacts
  <2>3. Agree(mem, db)'
    BY <1>1, <1>3, <2>2 DEF Agree, RegistryAgrees, StoredCodes
  <2>4. QED
    BY <1>1, <1>2, <1>3, <1>4, <1>5, <2>1, <2>2, <2>3, AgreeingStep DEF Holding
<1>7. CASE ~CanPay(mem, req[t].sender, loc[t].fee)
  <2>1. mem' = mem /\ pc' = [pc EXCEPT ![t] = "reply"]
    BY <1>7 DEF ChargeFailed, Goto
  <2>2. Agree(mem, db)'
    BY <1>1, <1>3, <2>1
  <2>3. QED
    BY <1>1, <1>2, <1>3, <1>4, <1>5, <2>1, <2>2, AgreeingStep DEF Holding
<1>8. QED  BY <1>6, <1>7

\* HistoryInv does not depend on the balances.
LEMMA HistoryKept ==
    ASSUME HistoryInv, committed' = committed,
           db'.nonce = db.nonce, db'.store = db.store, db'.opSeq = db.opSeq,
           db'.events = db.events, db'.contracts = db.contracts,
           db'.instanceCount = db.instanceCount
    PROVE  HistoryInv'
BY DEF HistoryInv, NoncesUsed, NoReplay, DurableEffects, OpsNumbered,
       InstancesCounted, CommittedCalls

\* Its row is written, or is not: the mark is kept.
LEMMA PersistFailedStep ==
    ASSUME IInv, NEW t \in Threads, PersistFailed(t)
    PROVE  IInv'
<1>1. /\ pc[t] = "persist" /\ pc' = [pc EXCEPT ![t] = "reply"]
      /\ UNCHANGED <<mem, dbtx, writeMu, req, loc, committed>>
  BY DEF PersistFailed, Goto
<1>2. /\ ServedInv(t) /\ HistoryInv /\ mem \in VMState /\ db \in Tables
      /\ req[t].sender \in Users
  BY <1>1, ServedFacts DEF Holding, Request
<1>3. Agree(mem, db) /\ dbtx' = Nil
  BY <1>1, <1>2 DEF ServedInv
<1>4. committed' \in Seq([kind : Kinds, id : TxIds, code : Codes \cup {Nil}, seq : Nat])
  BY <1>1 DEF IInv, TypeOK
<1>5. CASE UNCHANGED db
  <2>1. HistoryInv' /\ Agree(mem, db)'
    BY <1>1, <1>2, <1>3, <1>5, HistoryUnchanged
  <2>2. QED
    BY <1>1, <1>2, <1>3, <1>4, <1>5, <2>1, AgreeingStep DEF Holding
<1>6. CASE db' = PersistAccounts(db, mem, {req[t].sender})
  <2>1. {req[t].sender} \in SUBSET Addr
    BY <1>2 DEF Addr
  <2>2. /\ db' \in Tables
        /\ \A a \in Addr : db'.bal[a] =
                IF a \in {req[t].sender} THEN mem.bal[a] ELSE db.bal[a]
        /\ \A u \in Users : db'.nonce[u] =
                IF u \in {req[t].sender} THEN mem.nonce[u] ELSE db.nonce[u]
        /\ db'.contracts = db.contracts /\ db'.instanceCount = db.instanceCount
        /\ db'.store = db.store /\ db'.codes = db.codes
        /\ db'.opSeq = db.opSeq /\ db'.events = db.events
    BY <1>2, <1>6, <2>1, PersistAccountsFacts
  <2>3. db'.nonce = db.nonce
    BY <1>2, <1>3, <2>2 DEF Agree, RegistryAgrees, Tables
  <2>4. HistoryInv'
    BY <1>1, <1>2, <2>2, <2>3, HistoryKept
  <2>5. Agree(mem, db)'
    BY <1>1, <1>3, <2>2, <2>3 DEF Agree, RegistryAgrees, Rows
  <2>6. QED
    BY <1>1, <1>2, <1>3, <1>4, <2>2, <2>4, <2>5, AgreeingStep DEF Holding
<1>7. QED  BY <1>5, <1>6 DEF PersistFailed

\* A step of the SQL transaction short of its commit.
LEMMA CommittingStep ==
    ASSUME IInv, NEW t \in Threads, pc[t] \in Committing,
           NEW label \in {"fee", "write", "tick", "commit"},
           pc' = [pc EXCEPT ![t] = label],
           mem' \in VMState, dbtx' \in Tables \cup {Nil},
           loc' \in [Threads -> Locals], loc'[t].snap = loc[t].snap,
           Advanced(t)',
           label = "fee" => dbtx' = Nil,
           label = "write" => FeeWritten(t)',
           label \in {"tick", "commit"} => TablesWritten(t)',
           UNCHANGED <<db, writeMu, req, committed>>
    PROVE  IInv'
<1>1. TypeOK
  BY DEF IInv
<1>2. writeMu = t /\ ServedInv(t) /\ HistoryInv
  BY ServedFacts DEF Holding
<1>3. /\ req[t] \in Request /\ (req[t].kind = "store" <=> req[t].code # Nil)
      /\ Signed(t) /\ loc[t].snap \in VMState /\ Agree(loc[t].snap, db)
  BY <1>2 DEF ServedInv, Committing
<1>4. pc'[t] = label
  BY <1>1 DEF TypeOK
<1>5. TypeOK'
  BY <1>1 DEF TypeOK, Labels, Locals
<1>6. ServedInv(t)'
  BY <1>3, <1>4 DEF ServedInv, Committing, Signed, Agree, RegistryAgrees
<1>7. HistoryInv'
  BY <1>2, HistoryUnchanged
<1>8. QED
  BY <1>2, <1>5, <1>6, <1>7, ThreadStep, NodeAssumption DEF Holding, Committing

\* The facts a step of the SQL transaction starts from.
LEMMA CommittingFacts ==
    ASSUME IInv, NEW t \in Threads, pc[t] \in Committing
    PROVE  /\ mem \in VMState /\ db \in Tables
           /\ loc \in [Threads -> Locals]
           /\ req[t] \in Request /\ req[t].sender \in Users
           /\ req[t].sender \in Addr /\ loc[t].fee \in Nat
           /\ loc[t].touched \in SUBSET Addr
           /\ ~Call(t) => req[t].code \in Codes
           /\ Call(t) => TxId(t) \in TxIds
           /\ Advanced(t)
           /\ pc[t] \in {"begin", "fee"} => dbtx = Nil
           /\ pc[t] = "write" => FeeWritten(t)
           /\ pc[t] \in {"tick", "commit"} => TablesWritten(t)
           /\ db.contracts = 1..db.instanceCount
<1>1. ServedInv(t) /\ HistoryInv /\ req[t] \in Request
  BY ServedFacts DEF Holding
<1>2. mem \in VMState /\ db \in Tables /\ loc \in [Threads -> Locals]
  BY DEF IInv, TypeOK, Locals
<1>3. /\ req[t].sender \in Users /\ req[t].sender \in Addr /\ loc[t].fee \in Nat
      /\ loc[t].touched \in SUBSET Addr
  BY <1>1, <1>2 DEF Request, Addr, Locals
<1>4. ~Call(t) => req[t].code \in Codes
  BY <1>1 DEF ServedInv, Signed, Call, Request, Committing
<1>5. TxId(t) \in TxIds
  BY <1>1 DEF TxId, TxIds, Request
<1>6. db.contracts = 1..db.instanceCount
  BY <1>1 DEF HistoryInv, InstancesCounted
<1>7. QED
  BY <1>1, <1>2, <1>3, <1>4, <1>5, <1>6 DEF ServedInv

\* The touched accounts move from the VM to the handler.
LEMMA BeginStep ==
    ASSUME IInv, NEW t \in Threads, Begin(t)
    PROVE  IInv'
<1>1. /\ pc[t] = "begin" /\ pc' = [pc EXCEPT ![t] = "fee"]
      /\ UNCHANGED <<db, dbtx, writeMu, req, committed>>
  BY DEF Begin, Goto
<1>2. /\ mem \in VMState /\ loc \in [Threads -> Locals] /\ dbtx = Nil
      /\ Advanced(t)
  BY <1>1, CommittingFacts DEF Committing
<1>3. pc'[t] = "fee"
  BY <1>1 DEF IInv, TypeOK
<1>4. (Call(t)' <=> Call(t)) /\ TxId(t)' = TxId(t) /\ req'[t] = req[t]
  BY <1>1 DEF Call, TxId
<1>5. CASE Call(t)
  <2>1. /\ loc' = [loc EXCEPT ![t].touched = mem.touched]
        /\ mem' = [mem EXCEPT !.touched = {}]
    BY <1>5 DEF Begin
  <2>2. /\ mem' \in VMState
        /\ mem'.bal = mem.bal /\ mem'.nonce = mem.nonce
        /\ mem'.contracts = mem.contracts /\ mem'.store = mem.store
        /\ mem'.instanceCount = mem.instanceCount
        /\ mem'.seqByCode = mem.seqByCode /\ mem'.opSeq = mem.opSeq
    BY <1>2, <2>1 DEF VMState
  <2>3. mem.touched \in SUBSET Addr
    BY <1>2 DEF VMState
  <2>4. /\ loc' \in [Threads -> Locals] /\ loc'[t].snap = loc[t].snap
        /\ loc'[t].touched = mem.touched
    BY <1>2, <2>1, <2>3 DEF Locals
  <2>5. Unwritten(t)' = Unwritten(t)
    BY <1>1, <1>3, <1>4, <1>5, <2>4 DEF Unwritten
  <2>6. StoredCodes(mem') = StoredCodes(mem)
    BY <2>2 DEF StoredCodes
  <2>7. Advanced(t)'
    BY <1>1, <1>2, <1>3, <1>4, <2>2, <2>5, <2>6 DEF Advanced, RegistryAhead
  <2>8. QED
    BY <1>1, <1>2, <2>2, <2>4, <2>7, CommittingStep DEF Committing
<1>6. CASE ~Call(t)
  <2>1. UNCHANGED <<mem, loc>>
    BY <1>6 DEF Begin
  <2>2. Unwritten(t)' = Unwritten(t)
    BY <1>4, <1>6, <2>1 DEF Unwritten
  <2>3. Advanced(t)'
    BY <1>1, <1>2, <1>3, <1>4, <2>1, <2>2 DEF Advanced, RegistryAhead
  <2>4. QED
    BY <1>1, <1>2, <2>1, <2>3, CommittingStep DEF Committing
<1>7. QED  BY <1>5, <1>6

\* The fee is taken and the sender's row written in the transaction.
LEMMA FeeStep ==
    ASSUME IInv, NEW t \in Threads, Fee(t)
    PROVE  IInv'
<1>1. /\ pc[t] = "fee" /\ pc' = [pc EXCEPT ![t] = "write"]
      /\ CanPay(mem, req[t].sender, loc[t].fee)
      /\ UNCHANGED <<db, writeMu, req, loc, committed>>
  BY DEF Fee, Goto
<1>2. /\ mem \in VMState /\ db \in Tables /\ loc \in [Threads -> Locals] /\ dbtx = Nil
      /\ Advanced(t) /\ req[t].sender \in Users /\ req[t].sender \in Addr
      /\ loc[t].fee \in Nat
  BY <1>1, CommittingFacts DEF Committing
<1>3. pc'[t] = "write"
  BY <1>1 DEF IInv, TypeOK
<1>4. (Call(t)' <=> Call(t)) /\ TxId(t)' = TxId(t) /\ req'[t] = req[t]
  BY <1>1 DEF Call, TxId
<1>5. CASE loc[t].fee > 0
  <2>1. /\ mem' = DeductGasFee(mem, req[t].sender, loc[t].fee)
        /\ dbtx' = PersistAccounts(db, mem', {req[t].sender})
    BY <1>2, <1>5 DEF Fee, View
  <2>2. /\ mem' \in VMState
        /\ \A a \in Addr : a # req[t].sender => mem'.bal[a] = mem.bal[a]
        /\ mem'.touched = mem.touched \cup {req[t].sender}
        /\ mem'.nonce = mem.nonce /\ mem'.contracts = mem.contracts
        /\ mem'.instanceCount = mem.instanceCount /\ mem'.store = mem.store
        /\ mem'.seqByCode = mem.seqByCode /\ mem'.opSeq = mem.opSeq
    BY <1>1, <1>2, <2>1, DeductGasFeeFacts
  <2>3. Unwritten(t) \subseteq Unwritten(t)'
    BY <1>1, <1>3, <1>4, <2>2 DEF Unwritten
  <2>4. StoredCodes(mem') = StoredCodes(mem)
    BY <2>2 DEF StoredCodes
  <2>5. Advanced(t)'
    BY <1>1, <1>2, <1>3, <1>4, <2>2, <2>3, <2>4 DEF Advanced, RegistryAhead
  <2>6. {req[t].sender} \in SUBSET Addr
    BY <1>2
  <2>7. dbtx' \in Tables /\ FeeWritten(t)'
    BY <1>1, <1>2, <2>1, <2>2, <2>6, PersistAccountsFacts DEF FeeWritten
  <2>8. QED
    BY <1>1, <1>2, <2>2, <2>5, <2>7, CommittingStep DEF Committing
<1>6. CASE ~(loc[t].fee > 0)
  <2>1. UNCHANGED <<mem, dbtx>>
    BY <1>6 DEF Fee
  <2>2. Unwritten(t)' = Unwritten(t)
    BY <1>1, <1>3, <1>4, <2>1 DEF Unwritten
  <2>3. Advanced(t)' /\ FeeWritten(t)'
    BY <1>1, <1>2, <1>3, <1>4, <2>1, <2>2 DEF Advanced, RegistryAhead, FeeWritten
  <2>4. QED
    BY <1>1, <1>2, <2>1, <2>3, CommittingStep DEF Committing
<1>7. QED  BY <1>5, <1>6

\* The rows of the operation: after them the transaction holds what the
\* memory holds.
LEMMA WriteTablesStep ==
    ASSUME IInv, NEW t \in Threads, WriteTables(t)
    PROVE  IInv'
<1>1. /\ pc[t] = "write" /\ pc' = [pc EXCEPT ![t] = "tick"]
      /\ UNCHANGED <<mem, db, writeMu, req, loc, committed>>
  BY DEF WriteTables, Goto
<1>2. /\ mem \in VMState /\ db \in Tables /\ loc \in [Threads -> Locals]
      /\ Advanced(t) /\ FeeWritten(t)
      /\ req[t].sender \in Users /\ req[t].sender \in Addr
      /\ loc[t].touched \in SUBSET Addr
      /\ ~Call(t) => req[t].code \in Codes
      /\ Call(t) => TxId(t) \in TxIds
      /\ db.contracts = 1..db.instanceCount
  BY <1>1, CommittingFacts DEF Committing
<1>3. pc'[t] = "tick"
  BY <1>1 DEF IInv, TypeOK
<1>4. (Call(t)' <=> Call(t)) /\ TxId(t)' = TxId(t) /\ req'[t] = req[t]
  BY <1>1 DEF Call, TxId
<1>5. Advanced(t)'
  <2>1. Unwritten(t)' = Unwritten(t)
    BY <1>1, <1>3, <1>4 DEF Unwritten
  <2>2. QED  BY <1>1, <1>2, <1>3, <1>4, <2>1 DEF Advanced, RegistryAhead
<1> DEFINE w == View
<1>6. {req[t].sender} \in SUBSET Addr
  BY <1>2
<1>7. /\ w \in Tables
      /\ \A a \in Addr : w.bal[a] = db.bal[a] \/ w.bal[a] = mem.bal[a]
      /\ \A u \in Users : w.nonce[u] = db.nonce[u] \/ w.nonce[u] = mem.nonce[u]
      /\ w.contracts = db.contracts /\ w.instanceCount = db.instanceCount
      /\ w.store = db.store /\ w.codes = db.codes
      /\ w.opSeq = db.opSeq /\ w.events = db.events
  <2>1. CASE dbtx = Nil
    BY <1>2, <2>1 DEF View
  <2>2. CASE dbtx # Nil
    <3>1. w = PersistAccounts(db, mem, {req[t].sender})
      BY <1>2, <2>2 DEF View, FeeWritten
    <3> HIDE DEF w
    <3>2. QED  BY <1>2, <1>6, <3>1, PersistAccountsFacts
  <2>3. QED  BY <2>1, <2>2
<1> HIDE DEF w
<1>8. \A u \in Users : u # req[t].sender => mem.nonce[u] = db.nonce[u]
  BY <1>2 DEF Advanced, RegistryAhead, Tables
<1>9. mem.nonce \in [Users -> Nat] /\ mem.opSeq = db.opSeq
  BY <1>1, <1>2 DEF VMState, Advanced, RegistryAhead
<1>10. Rows(w) = Rows(db)
  BY <1>7 DEF Rows
<1>11. dbtx' \in Tables /\ TablesWritten(t)'
  <2>1. CASE Call(t)
    <3> DEFINE x == PersistAccounts(w, mem, loc[t].touched)
    <3>1. dbtx' = PersistCall(x, mem, TxId(t))
      BY <2>1 DEF WriteTables, w
    <3>2. /\ x \in Tables
          /\ \A a \in Addr : x.bal[a] =
                IF a \in loc[t].touched THEN mem.bal[a] ELSE w.bal[a]
          /\ \A u \in Users : x.nonce[u] =
                IF u \in loc[t].touched THEN mem.nonce[u] ELSE w.nonce[u]
          /\ x.contracts = w.contracts /\ x.codes = w.codes /\ x.events = w.events
      BY <1>2, <1>7, PersistAccountsFacts
    <3> HIDE DEF x
    <3>3. /\ dbtx' \in Tables
          /\ dbtx'.contracts = x.contracts \cup mem.contracts
          /\ dbtx'.instanceCount = mem.instanceCount
          /\ dbtx'.events = x.events \cup {<<mem.opSeq, TxId(t)>>}
          /\ dbtx'.store = mem.store
          /\ dbtx'.bal = x.bal /\ dbtx'.nonce = x.nonce /\ dbtx'.codes = x.codes
      BY <1>2, <2>1, <3>1, <3>2, PersistCallFacts
    <3>4. Unwritten(t) = loc[t].touched
      BY <1>1, <2>1 DEF Unwritten
    <3>5. \A a \in Addr : dbtx'.bal[a] = mem.bal[a]
      BY <1>2, <1>7, <3>2, <3>3, <3>4 DEF Advanced, RegistryAhead
    <3>6. req[t].sender \in loc[t].touched
      BY <1>2, <3>4 DEF Advanced, RegistryAhead
    <3>7. \A u \in Users : dbtx'.nonce[u] = mem.nonce[u]
      BY <1>7, <1>8, <3>2, <3>3, <3>6
    <3>8. dbtx'.nonce = mem.nonce
      BY <1>9, <3>3, <3>7 DEF Tables
    <3>9. dbtx'.contracts = mem.contracts
      <4>1. /\ mem.contracts = 1..mem.instanceCount
            /\ db.instanceCount <= mem.instanceCount
            /\ db.instanceCount \in Nat /\ mem.instanceCount \in Nat
        BY <1>2 DEF Advanced, RegistryAhead, VMState, Tables
      <4>2. db.contracts \subseteq mem.contracts
        BY <1>2, <4>1
      <4>3. QED  BY <1>7, <3>2, <3>3, <4>2
    <3>10. Rows(dbtx') = StoredCodes(mem)
      <4>1. Rows(dbtx') = Rows(db)
        BY <1>7, <3>2, <3>3 DEF Rows
      <4>2. QED  BY <1>2, <2>1, <4>1 DEF Advanced, RegistryAhead
    <3>11. dbtx'.events = db.events \cup {<<db.opSeq, TxId(t)>>}
      BY <1>7, <1>9, <3>2, <3>3
    <3>12. QED
      BY <1>1, <1>3, <1>4, <2>1, <3>3, <3>5, <3>8, <3>9, <3>10, <3>11
         DEF TablesWritten, RegistryWritten
  <2>2. CASE ~Call(t)
    <3> DEFINE y == PersistCode(w, mem, req[t].code)
    <3>1. dbtx' = PersistAccounts(y, mem, {req[t].sender})
      BY <2>2 DEF WriteTables, w
    <3>2. /\ y \in Tables
          /\ Rows(y) = Rows(w) \cup {req[t].code}
          /\ y.bal = w.bal /\ y.nonce = w.nonce
          /\ y.contracts = w.contracts /\ y.instanceCount = w.instanceCount
          /\ y.store = w.store /\ y.events = w.events
      BY <1>2, <1>7, <2>2, PersistCodeFacts
    <3> HIDE DEF y
    <3>3. /\ dbtx' \in Tables
          /\ \A a \in Addr : dbtx'.bal[a] =
                IF a \in {req[t].sender} THEN mem.bal[a] ELSE y.bal[a]
          /\ \A u \in Users : dbtx'.nonce[u] =
                IF u \in {req[t].sender} THEN mem.nonce[u] ELSE y.nonce[u]
          /\ dbtx'.contracts = y.contracts /\ dbtx'.instanceCount = y.instanceCount
          /\ dbtx'.store = y.store /\ dbtx'.codes = y.codes
          /\ dbtx'.events = y.events
      BY <1>2, <1>6, <3>1, <3>2, PersistAccountsFacts
    <3>4. Unwritten(t) = mem.touched
      BY <2>2 DEF Unwritten
    <3>5. \A a \in Addr : mem.bal[a] # dbtx'.bal[a] => a \in mem.touched
      BY <1>2, <1>7, <3>2, <3>3, <3>4 DEF Advanced, RegistryAhead
    <3>6. \A u \in Users : dbtx'.nonce[u] = mem.nonce[u]
      BY <1>7, <1>8, <3>2, <3>3
    <3>7. dbtx'.nonce = mem.nonce
      BY <1>9, <3>3, <3>6 DEF Tables
    <3>8. dbtx'.contracts = mem.contracts /\ dbtx'.instanceCount = mem.instanceCount
      BY <1>2, <1>7, <2>2, <3>2, <3>3 DEF Advanced, RegistryAhead
    <3>9. dbtx'.store = mem.store
      BY <1>2, <1>7, <2>2, <3>2, <3>3 DEF Advanced, RegistryAhead
    <3>10. Rows(dbtx') = StoredCodes(mem)
      <4>1. Rows(dbtx') = Rows(db) \cup {req[t].code}
        BY <1>10, <3>2, <3>3 DEF Rows
      <4>2. QED  BY <1>2, <2>2, <4>1 DEF Advanced, RegistryAhead
    <3>11. dbtx'.events = db.events
      BY <1>7, <3>2, <3>3
    <3>12. QED
      BY <1>1, <1>3, <1>4, <2>2, <3>3, <3>5, <3>7, <3>8, <3>9, <3>10, <3>11
         DEF TablesWritten, RegistryWritten
  <2>3. QED  BY <2>1, <2>2
<1>12. QED
  BY <1>1, <1>2, <1>5, <1>11, CommittingStep DEF Committing

\* The operation gets its number.
LEMMA TickStep ==
    ASSUME IInv, NEW t \in Threads, Tick(t)
    PROVE  IInv'
<1>1. /\ pc[t] = "tick" /\ pc' = [pc EXCEPT ![t] = "commit"]
      /\ mem' = TickOp(mem) /\ dbtx' = [dbtx EXCEPT !.opSeq = mem'.opSeq]
      /\ UNCHANGED <<db, writeMu, req, loc, committed>>
  BY DEF Tick, Goto
<1>2. /\ mem \in VMState /\ loc \in [Threads -> Locals]
      /\ Advanced(t) /\ TablesWritten(t)
  BY <1>1, CommittingFacts DEF Committing
<1>3. pc'[t] = "commit"
  BY <1>1 DEF IInv, TypeOK
<1>4. (Call(t)' <=> Call(t)) /\ TxId(t)' = TxId(t) /\ req'[t] = req[t]
  BY <1>1 DEF Call, TxId
<1>5. mem.opSeq + 1 \in Nat
  BY <1>2 DEF VMState
<1>6. mem' = [mem EXCEPT !.opSeq = mem.opSeq + 1]
  BY <1>1 DEF TickOp
<1>7. /\ mem' \in VMState
      /\ mem'.bal = mem.bal /\ mem'.nonce = mem.nonce /\ mem'.touched = mem.touched
      /\ mem'.contracts = mem.contracts /\ mem'.store = mem.store
      /\ mem'.instanceCount = mem.instanceCount
      /\ mem'.seqByCode = mem.seqByCode /\ mem'.opSeq = mem.opSeq + 1
  BY <1>2, <1>5, <1>6 DEF VMState
<1>8. /\ dbtx' \in Tables
      /\ dbtx'.bal = dbtx.bal /\ dbtx'.nonce = dbtx.nonce
      /\ dbtx'.contracts = dbtx.contracts /\ dbtx'.store = dbtx.store
      /\ dbtx'.instanceCount = dbtx.instanceCount
      /\ dbtx'.codes = dbtx.codes /\ dbtx'.events = dbtx.events
      /\ dbtx'.opSeq = mem'.opSeq
  <2>1. dbtx \in Tables
    BY <1>2 DEF TablesWritten, RegistryWritten
  <2>2. mem'.opSeq \in Nat
    BY <1>5, <1>7
  <2>3. QED  BY <1>1, <2>1, <2>2 DEF Tables
<1>9. Unwritten(t)' = Unwritten(t)
  BY <1>1, <1>3, <1>4, <1>7 DEF Unwritten
<1>10. StoredCodes(mem') = StoredCodes(mem) /\ Rows(dbtx') = Rows(dbtx)
  BY <1>7, <1>8 DEF StoredCodes, Rows
<1>11. Advanced(t)'
  BY <1>1, <1>2, <1>3, <1>4, <1>7, <1>9, <1>10 DEF Advanced, RegistryAhead
<1>12. TablesWritten(t)'
  BY <1>1, <1>2, <1>3, <1>4, <1>7, <1>8, <1>10 DEF TablesWritten, RegistryWritten
<1>13. QED
  BY <1>1, <1>2, <1>7, <1>8, <1>11, <1>12, CommittingStep DEF Committing

\* The commit: the tables become what the memory is, and the transaction
\* joins the history as one whose nonce was still free.
LEMMA CommitStep ==
    ASSUME IInv, NEW t \in Threads, Commit(t)
    PROVE  IInv'
<1> DEFINE n == Len(committed)
           r == Record(t)
           Rec == [kind : Kinds, id : TxIds, code : Codes \cup {Nil}, seq : Nat]
<1>1. /\ pc[t] = "commit" /\ pc' = [pc EXCEPT ![t] = "reply"]
      /\ db' = dbtx /\ dbtx' = Nil /\ committed' = Append(committed, r)
      /\ UNCHANGED <<mem, writeMu, req, loc>>
  BY DEF Commit, Goto
<1>2. /\ mem \in VMState /\ db \in Tables
      /\ req[t] \in Request /\ req[t].sender \in Users
      /\ ~Call(t) => req[t].code \in Codes
      /\ Advanced(t) /\ TablesWritten(t)
  BY <1>1, CommittingFacts DEF Committing
<1>3. HistoryInv /\ ServedInv(t)
  BY <1>1, ServedFacts DEF Holding, Committing
<1>4. r.id = TxId(t) /\ (r.kind # "store" <=> Call(t))
  BY <1>1, <1>3 DEF Record, ServedInv, Signed, Call, Committing
<1>5. r \in Rec
  <2>1. TxId(t) \in TxIds
    BY <1>2 DEF TxId, TxIds, Request
  <2>2. (IF req[t].code = Nil THEN 0 ELSE mem.seqByCode[req[t].code]) \in Nat
    BY <1>2 DEF Request, VMState
  <2>3. QED  BY <1>2, <2>1, <2>2 DEF Record, Request
<1>6. committed \in Seq(Rec)
  BY DEF IInv, TypeOK
<1> HIDE DEF r
<1>7. /\ committed' \in Seq(Rec)
      /\ n \in Nat /\ Len(committed') = n + 1
      /\ \A i \in 1..n : committed'[i] = committed[i]
      /\ committed'[n + 1] = r
  BY <1>1, <1>5, <1>6
<1> HIDE DEF n, Rec
<1>8. 1..Len(committed') = (1..n) \cup {n + 1}
  BY <1>7
<1>9. /\ db' \in Tables
      /\ req[t].nonce = db.nonce[req[t].sender]
      /\ db'.nonce = [db.nonce EXCEPT ![req[t].sender] = @ + 1]
      /\ db'.opSeq = db.opSeq + 1
      /\ db'.store = db.store \cup (IF Call(t) THEN {TxId(t)} ELSE {})
      /\ db'.events = db.events \cup (IF Call(t) THEN {<<db.opSeq, TxId(t)>>} ELSE {})
      /\ db'.contracts = 1..db'.instanceCount
  BY <1>1, <1>2 DEF Advanced, RegistryAhead, TablesWritten, RegistryWritten
<1>10. Agree(mem, db)'
  BY <1>1, <1>2 DEF TablesWritten, RegistryWritten, Agree, RegistryAgrees
<1>11. CommittedCalls' = CommittedCalls \cup (IF Call(t) THEN {n + 1} ELSE {})
  BY <1>4, <1>7, <1>8 DEF CommittedCalls, n
<1>12. NoncesUsed'
  <2>1. ASSUME NEW i \in 1..n
        PROVE  committed'[i].id[2] < db'.nonce[committed'[i].id[1]]
    <3>1. committed[i].id[2] < db.nonce[committed[i].id[1]]
      BY <1>3 DEF HistoryInv, NoncesUsed, n
    <3>2. committed[i] \in Rec
      BY <1>6, <1>7 DEF n
    <3>3. committed[i].id[1] \in Users /\ committed[i].id[2] \in Int
      BY <3>2 DEF Rec, TxIds
    <3>4. \A u \in Users : /\ db.nonce[u] \in Nat /\ db'.nonce[u] \in Nat
                           /\ db.nonce[u] <= db'.nonce[u]
      <4>1. db.nonce \in [Users -> Nat] /\ req[t].sender \in Users
        BY <1>2 DEF Tables
      <4>2. db'.nonce = [db.nonce EXCEPT ![req[t].sender] = db.nonce[req[t].sender] + 1]
        BY <1>9
      <4>3. QED  BY <4>1, <4>2
    <3>5. committed[i].id[2] < db'.nonce[committed[i].id[1]]
      BY <3>1, <3>3, <3>4
    <3>6. committed'[i] = committed[i]
      BY <1>7
    <3>7. QED  BY <3>5, <3>6
  <2>2. committed'[n + 1].id[2] < db'.nonce[committed'[n + 1].id[1]]
    <3>1. committed'[n + 1].id = <<req[t].sender, req[t].nonce>>
      BY <1>4, <1>7 DEF TxId
    <3>2. db'.nonce[req[t].sender] = req[t].nonce + 1 /\ req[t].nonce \in Nat
      BY <1>2, <1>9 DEF Tables, Request
    <3>3. QED  BY <3>1, <3>2
  <2>3. QED  BY <1>8, <2>1, <2>2 DEF NoncesUsed
<1>13. NoReplay'
  <2>1. ASSUME NEW i \in 1..n
        PROVE  committed[i].id # r.id
    <3>1. committed[i].id[2] < db.nonce[committed[i].id[1]]
      BY <1>3 DEF HistoryInv, NoncesUsed, n
    <3>2. req[t].nonce \in Nat
      BY <1>2 DEF Request
    <3>3. r.id = <<req[t].sender, req[t].nonce>>
      BY <1>4 DEF TxId
    <3>4. QED  BY <1>9, <3>1, <3>2, <3>3
  <2>2. \A i, j \in 1..n : committed[i].id = committed[j].id => i = j
    BY <1>3 DEF HistoryInv, NoReplay, n
  <2>3. ASSUME NEW i \in 1..Len(committed'), NEW j \in 1..Len(committed'),
               committed'[i].id = committed'[j].id
        PROVE  i = j
    BY <1>7, <1>8, <2>1, <2>2, <2>3
  <2>4. QED  BY <2>3 DEF NoReplay
<1>14. DurableEffects'
  <2>1. {committed'[i].id : i \in CommittedCalls'}
          = {committed[i].id : i \in CommittedCalls}
            \cup (IF Call(t) THEN {TxId(t)} ELSE {})
    <3>1. CommittedCalls \subseteq 1..n
      BY DEF CommittedCalls, n
    <3>2. QED  BY <1>4, <1>7, <1>11, <3>1
  <2>2. QED
    BY <1>3, <1>9, <2>1 DEF HistoryInv, DurableEffects
<1>15. OpsNumbered'
  <2>1. db.opSeq = n + 1
    BY <1>3 DEF HistoryInv, OpsNumbered, n
  <2>2. {<<i, committed'[i].id>> : i \in CommittedCalls'}
          = {<<i, committed[i].id>> : i \in CommittedCalls}
            \cup (IF Call(t) THEN {<<n + 1, TxId(t)>>} ELSE {})
    <3>1. CommittedCalls \subseteq 1..n
      BY DEF CommittedCalls, n
    <3>2. QED  BY <1>4, <1>7, <1>11, <3>1
  <2>3. db'.opSeq = Len(committed') + 1
    BY <1>7, <1>9, <2>1
  <2>4. QED
    BY <1>3, <1>9, <2>1, <2>2, <2>3 DEF HistoryInv, OpsNumbered
<1>16. HistoryInv'
  BY <1>9, <1>12, <1>13, <1>14, <1>15 DEF HistoryInv, InstancesCounted
<1>17. QED
  BY <1>1, <1>2, <1>7, <1>9, <1>10, <1>16, AgreeingStep DEF Holding, Committing, Rec

\* The process stops and the next one restores its memory.
LEMMA RestartStep ==
    ASSUME IInv, Restart
    PROVE  IInv'
<1>1. /\ mem' = Restored(db) /\ dbtx' = Nil /\ writeMu' = Nil
      /\ pc' = [t \in Threads |-> "idle"]
      /\ req' = [t \in Threads |-> Nil]
      /\ loc' = [t \in Threads |-> NoLocals]
      /\ UNCHANGED <<db, committed>>
  BY DEF Restart
<1>2. TypeOK /\ HistoryInv
  BY DEF IInv, HistoryInv
<1>3. mem' \in VMState /\ Agree(mem, db)'
  <2>1. mem' \in VMState /\ Agree(mem', db)
    BY <1>1, <1>2, RestoredFacts DEF TypeOK
  <2>2. QED  BY <1>1, <2>1
<1>4. TypeOK'
  BY <1>1, <1>2, <1>3 DEF TypeOK, Labels, NoLocals
<1>5. LockInv' /\ RequestInv' /\ SnapInv' /\ CommitInv'
  BY <1>1, NodeAssumption DEF LockInv, RequestInv, SnapInv, CommitInv, Holding, Committing
<1>6. MemDbAgree'
  BY <1>3 DEF MemDbAgree
<1>7. HistoryInv'
  BY <1>1, <1>2, HistoryUnchanged
<1>8. QED  BY <1>4, <1>5, <1>6, <1>7 DEF IInv, HistoryInv

\* Nothing changes.
LEMMA StutterStep ==
    ASSUME IInv, UNCHANGED vars
    PROVE  IInv'
<1>1. UNCHANGED <<mem, db, dbtx, writeMu, pc, req, loc, committed>>
  BY DEF vars
<1>2. TypeOK' /\ LockInv' /\ MemDbAgree'
  BY <1>1 DEF IInv, TypeOK, LockInv, MemDbAgree, Agree, RegistryAgrees
<1>3. RequestInv' /\ SnapInv'
  BY <1>1 DEF IInv, RequestInv, SnapInv, Signed, Call, Agree, RegistryAgrees
<1>4. CommitInv'
  <2>1. ASSUME NEW t \in Threads
        PROVE  /\ Advanced(t) => Advanced(t)'
               /\ FeeWritten(t) => FeeWritten(t)'
               /\ TablesWritten(t) => TablesWritten(t)'
    <3>1. (Call(t)' <=> Call(t)) /\ TxId(t)' = TxId(t) /\ Unwritten(t)' = Unwritten(t)
      BY <1>1 DEF Call, TxId, Unwritten
    <3>2. Advanced(t) => Advanced(t)'
      BY <1>1, <3>1 DEF Advanced, RegistryAhead
    <3>3. FeeWritten(t) => FeeWritten(t)'
      BY <1>1 DEF FeeWritten
    <3>4. TablesWritten(t) => TablesWritten(t)'
      BY <1>1, <3>1 DEF TablesWritten, RegistryWritten
    <3>5. QED  BY <3>2, <3>3, <3>4
  <2>2. CommitInv
    BY DEF IInv
  <2>3. QED  BY <1>1, <2>1, <2>2 DEF CommitInv
<1>5. HistoryInv'
  BY <1>1, HistoryUnchanged DEF IInv, HistoryInv
<1>6. QED  BY <1>2, <1>3, <1>4, <1>5 DEF IInv, HistoryInv

-----------------------------------------------------------------------------
(***************************************************************************)
(* With or without a faucet.  RegistryInv is about everything that is not  *)
(* an account, and handleFaucet changes accounts only; but it runs beside  *)
(* the holder of writeMu, so nothing here may rest on what the holder      *)
(* knows of balances and nonces.                                           *)
(***************************************************************************)
RecordInv == DurableEffects /\ OpsNumbered /\ InstancesCounted

Records == [kind : Kinds, id : TxIds, code : Codes \cup {Nil}, seq : Nat]

\* Two states of the memory that differ in accounts only.
SameMemory(v, w) ==
    /\ w.contracts = v.contracts
    /\ w.instanceCount = v.instanceCount
    /\ w.store = v.store
    /\ w.seqByCode = v.seqByCode
    /\ w.codeSeq = v.codeSeq
    /\ w.opSeq = v.opSeq

\* RequestInv, of one thread.
Served(t) ==
    /\ pc[t] # "idle" =>
        /\ req[t] \in Request
        /\ req[t].kind = "store" <=> req[t].code # Nil
    /\ pc[t] \in Committing => Signed(t)
    /\ pc[t] \in {"charge", "persist"} => Call(t)

\* What the invariant gives for the thread that holds writeMu.
LEMMA HolderKnows ==
    ASSUME RegistryInv, NEW t \in Threads, pc[t] \in Holding
    PROVE  /\ writeMu = t /\ RegistryHeld(t) /\ Served(t) /\ RecordInv
           /\ mem \in VMState /\ db \in Tables /\ loc \in [Threads -> Locals]
           /\ committed \in Seq(Records)
           /\ req[t] \in Request /\ req[t].sender \in Users
           /\ {req[t].sender} \in SUBSET Addr
           /\ req[t].kind = "store" => req[t].code \in Codes
           /\ TxId(t) \in TxIds /\ <<req[t].sender, NoNonce>> \in TxIds
           /\ loc[t] \in Locals
<1>1. writeMu = t /\ RegistryHeld(t) /\ RecordInv
  BY DEF RegistryInv, LockHeld, RecordInv
<1>2. Served(t) /\ req[t] \in Request
  BY DEF RegistryInv, RequestInv, Served, Holding, Committing
<1>3. /\ mem \in VMState /\ db \in Tables /\ loc \in [Threads -> Locals]
      /\ committed \in Seq(Records)
  BY DEF RegistryInv, TypeOK, Locals, Records
<1>4. req[t].sender \in Users /\ {req[t].sender} \in SUBSET Addr
  BY <1>2 DEF Request, Addr
<1>5. req[t].kind = "store" => req[t].code \in Codes
  BY <1>2 DEF Served, Request, Holding, Committing
<1>6. TxId(t) \in TxIds /\ <<req[t].sender, NoNonce>> \in TxIds
  BY <1>2, <1>4 DEF TxId, TxIds, Request, NoNonce
<1>7. QED  BY <1>1, <1>2, <1>3, <1>4, <1>5, <1>6

\* The history does not depend on accounts.
LEMMA RecordKept ==
    ASSUME RecordInv, committed' = committed, SameRegistry(db, db')
    PROVE  RecordInv'
BY DEF RecordInv, DurableEffects, OpsNumbered, InstancesCounted, CommittedCalls,
       SameRegistry

\* A step of the thread that holds writeMu, takes it or releases it.
LEMMA HolderMoves ==
    ASSUME RegistryInv, NEW t \in Threads, NEW label \in {"idle"} \cup Holding,
           writeMu \in {t, Nil},
           pc' = [pc EXCEPT ![t] = label],
           writeMu' = IF label = "idle" THEN Nil ELSE t,
           \A s \in Threads : s # t => req'[s] = req[s],
           TypeOK', Served(t)', RecordInv',
           label # "idle" => RegistryHeld(t)',
           label = "idle" => RegistryAgrees(mem, db)' /\ dbtx' = Nil
    PROVE  RegistryInv'
<1>1. TypeOK /\ LockHeld /\ RequestInv
  BY DEF RegistryInv
<1>2. pc'[t] = label /\ \A s \in Threads : s # t => pc'[s] = pc[s]
  BY <1>1 DEF TypeOK
<1>3. LockHeld'
  BY <1>1, <1>2, NodeAssumption DEF LockHeld, Holding, Committing
<1>4. RequestInv'
  <2>1. \A s \in Threads : s # t => Served(s)'
    BY <1>1, <1>2 DEF RequestInv, Served, Signed, Call
  <2>2. QED  BY <2>1 DEF RequestInv, Served
<1>5. QED
  BY <1>3, <1>4, NodeAssumption DEF RegistryInv, RecordInv, Holding

\* A step of the holder within its handler.
LEMMA HolderStays ==
    ASSUME RegistryInv, NEW t \in Threads, pc[t] \in Holding, NEW label \in Holding,
           label \in Committing => Signed(t),
           label \in {"charge", "persist"} => Call(t),
           pc' = [pc EXCEPT ![t] = label],
           UNCHANGED <<writeMu, req>>,
           mem' \in VMState, db' \in Tables, dbtx' \in Tables \cup {Nil},
           loc' \in [Threads -> Locals], committed' \in Seq(Records),
           RecordInv',
           pc'[t] = label => RegistryHeld(t)'
    PROVE  RegistryInv'
<1>1. TypeOK
  BY DEF RegistryInv
<1>2. pc'[t] = label
  BY <1>1 DEF TypeOK
<1>3. writeMu = t /\ Served(t)
  BY HolderKnows
<1>4. TypeOK'
  BY <1>1 DEF TypeOK, Labels, Locals, Records, Holding, Committing
<1>5. Served(t)'
  BY <1>2, <1>3 DEF Served, Signed, Call, Holding, Committing
<1>6. label # "idle"
  BY DEF Holding, Committing
<1>7. QED
  BY <1>2, <1>3, <1>4, <1>5, <1>6, HolderMoves

\* A step of a thread outside the lock that changes accounts at most.  The
\* holder, if there is one, does not notice.
LEMMA OutsideStep ==
    ASSUME RegistryInv, NEW t \in Threads, pc[t] \notin Holding,
           NEW label \in Labels \ Holding,
           pc' = [pc EXCEPT ![t] = label],
           \A s \in Threads : s # t => req'[s] = req[s] /\ loc'[s] = loc[s],
           UNCHANGED <<dbtx, writeMu, committed>>,
           TypeOK', Served(t)',
           SameMemory(mem, mem'), SameRegistry(db, db')
    PROVE  RegistryInv'
<1>1. TypeOK /\ LockHeld /\ RequestInv /\ RecordInv
  BY DEF RegistryInv, RecordInv
<1>2. pc'[t] = label /\ \A s \in Threads : s # t => pc'[s] = pc[s]
  BY <1>1 DEF TypeOK
<1>3. LockHeld'
  BY <1>1, <1>2 DEF LockHeld
<1>4. RequestInv'
  <2>1. \A s \in Threads : s # t => Served(s)'
    BY <1>1, <1>2 DEF RequestInv, Served, Signed, Call
  <2>2. QED  BY <2>1 DEF RequestInv, Served
<1>5. RecordInv'
  BY <1>1, RecordKept
<1>6. Rows(db') = Rows(db) /\ StoredCodes(mem') = StoredCodes(mem)
  BY DEF Rows, StoredCodes, SameRegistry, SameMemory
<1>7. ASSUME NEW v, RegistryAgrees(v, db)
      PROVE  RegistryAgrees(v, db')
  BY <1>6, <1>7 DEF RegistryAgrees, SameRegistry
<1>8. RegistryAgrees(mem, db) => RegistryAgrees(mem, db)'
  BY <1>6 DEF RegistryAgrees, SameRegistry, SameMemory
<1>9. ASSUME NEW s \in Threads, writeMu' = s
      PROVE  RegistryHeld(s)'
  <2>1. writeMu = s /\ s # t
    BY <1>1, <1>9 DEF LockHeld
  <2>2. pc'[s] = pc[s] /\ req'[s] = req[s] /\ loc'[s] = loc[s] /\ RegistryHeld(s)
    BY <1>2, <2>1 DEF RegistryInv
  <2>3. (Call(s)' <=> Call(s)) /\ TxId(s)' = TxId(s)
    BY <2>2 DEF Call, TxId
  <2>4. RegistryAhead(s) => RegistryAhead(s)'
    BY <1>6, <2>2, <2>3 DEF RegistryAhead, SameRegistry, SameMemory
  <2>5. RegistryWritten(s) => RegistryWritten(s)'
    BY <1>6, <2>2, <2>3 DEF RegistryWritten, SameRegistry, SameMemory
  <2>6. pc[s] = "write" => dbtx' = Nil \/ (dbtx' \in Tables /\ SameRegistry(db', dbtx'))
    BY <2>2 DEF RegistryHeld, SameRegistry
  <2>7. pc[s] \in {"call", "failed"} \cup Committing =>
            loc[s].snap \in VMState /\ RegistryAgrees(loc[s].snap, db')
    BY <1>7, <2>2 DEF RegistryHeld
  <2>8. QED
    BY <1>8, <2>2, <2>4, <2>5, <2>6, <2>7
       DEF RegistryHeld, RegistryAgrees, SameRegistry
<1>10. QED
  BY <1>3, <1>4, <1>5, <1>8, <1>9 DEF RegistryInv, RecordInv

\* A request arrives, the lock is taken, the answer is written.
LEMMA ReceiveRegistry ==
    ASSUME RegistryInv, NEW t \in Threads, Receive(t)
    PROVE  RegistryInv'
<1>1. PICK kind \in Kinds \ {"faucet"}, u \in Users, n \in 0..MaxNonce - 1,
           code \in Codes \cup {Nil} :
        /\ kind = "store" <=> code # Nil
        /\ req' = [req EXCEPT ![t] = [kind |-> kind, sender |-> u, nonce |-> n,
                                      code |-> code, amount |-> 0]]
  BY DEF Receive
<1>2. /\ pc[t] = "idle" /\ pc' = [pc EXCEPT ![t] = "lock"]
      /\ UNCHANGED <<mem, db, dbtx, writeMu, loc, committed>>
  BY DEF Receive, Goto
<1>3. TypeOK
  BY DEF RegistryInv
<1>4. /\ req'[t] \in Request /\ (req'[t].kind = "store" <=> req'[t].code # Nil)
      /\ \A s \in Threads : s # t => req'[s] = req[s]
  BY <1>1, <1>3, NodeAssumption DEF TypeOK, Request
<1>5. TypeOK'
  BY <1>1, <1>2, <1>3, <1>4 DEF TypeOK, Labels
<1>6. Served(t)'
  BY <1>2, <1>3, <1>4 DEF Served, TypeOK, Committing
<1>7. SameMemory(mem, mem') /\ SameRegistry(db, db')
  BY <1>2 DEF SameMemory, SameRegistry
<1>8. QED
  BY <1>2, <1>4, <1>5, <1>6, <1>7, OutsideStep DEF Labels, Holding, Committing

LEMMA LockRegistry ==
    ASSUME RegistryInv, NEW t \in Threads, Lock(t)
    PROVE  RegistryInv'
<1>1. /\ pc[t] = "lock" /\ writeMu = Nil /\ writeMu' = t
      /\ loc' = [loc EXCEPT ![t].snap = mem]
      /\ pc' = [pc EXCEPT ![t] = "call"]
      /\ UNCHANGED <<mem, db, dbtx, req, committed>>
  BY DEF Lock, Goto
<1>2. /\ TypeOK /\ RequestInv /\ RecordInv
      /\ mem \in VMState /\ RegistryAgrees(mem, db) /\ dbtx = Nil
  BY <1>1 DEF RegistryInv, RecordInv, TypeOK
<1>3. pc'[t] = "call" /\ loc'[t].snap = mem
  BY <1>1, <1>2 DEF TypeOK
<1>4. TypeOK'
  BY <1>1, <1>2 DEF TypeOK, Labels
<1>5. Served(t)'
  BY <1>1, <1>2, <1>3 DEF Served, RequestInv, Committing
<1>6. RegistryHeld(t)'
  BY <1>1, <1>2, <1>3 DEF RegistryHeld, RegistryAgrees, Committing
<1>7. RecordInv'
  BY <1>1, <1>2, RecordKept DEF SameRegistry
<1>8. QED
  BY <1>1, <1>4, <1>5, <1>6, <1>7, HolderMoves DEF Holding

LEMMA ReplyRegistry ==
    ASSUME RegistryInv, NEW t \in Threads, Reply(t)
    PROVE  RegistryInv'
<1>1. /\ pc[t] = "reply" /\ writeMu' = Nil
      /\ loc' = [loc EXCEPT ![t] = NoLocals]
      /\ req' = [req EXCEPT ![t] = Nil]
      /\ pc' = [pc EXCEPT ![t] = "idle"]
      /\ UNCHANGED <<mem, db, dbtx, committed>>
  BY DEF Reply, Forget, Goto
<1>2. TypeOK
  BY DEF RegistryInv
<1>3. writeMu = t /\ RegistryAgrees(mem, db) /\ dbtx = Nil /\ RecordInv
  BY <1>1, HolderKnows DEF Holding, RegistryHeld
<1>4. TypeOK'
  BY <1>1, <1>2 DEF TypeOK, Labels, NoLocals
<1>5. pc'[t] = "idle" /\ \A s \in Threads : s # t => req'[s] = req[s]
  BY <1>1, <1>2 DEF TypeOK
<1>6. Served(t)'
  BY <1>5 DEF Served, Committing
<1>7. RecordInv' /\ RegistryAgrees(mem, db)'
  BY <1>1, <1>3, RecordKept DEF SameRegistry, RegistryAgrees
<1>8. QED
  BY <1>1, <1>3, <1>4, <1>5, <1>6, <1>7, HolderMoves

\* What a call starts from.
LEMMA CallKnows ==
    ASSUME RegistryInv, NEW t \in Threads, pc[t] = "call"
    PROVE  /\ RegistryAgrees(mem, db) /\ dbtx = Nil
           /\ loc[t].snap \in VMState /\ RegistryAgrees(loc[t].snap, db)
           /\ mem.contracts = 1..mem.instanceCount
<1>1. RegistryHeld(t) /\ RecordInv
  BY HolderKnows DEF Holding
<1>2. RegistryAgrees(mem, db)
  BY <1>1 DEF RegistryHeld
<1>3. QED
  BY <1>1, <1>2 DEF RegistryHeld, Committing, RecordInv, InstancesCounted, RegistryAgrees

\* A handler notes the fee and keeps its snapshot.
LEMMA FeeNoted ==
    ASSUME loc \in [Threads -> Locals], NEW t \in Threads, NEW fee \in Nat,
           loc' = [loc EXCEPT ![t].fee = fee]
    PROVE  loc' \in [Threads -> Locals] /\ loc'[t].snap = loc[t].snap
<1> DEFINE l == [loc[t] EXCEPT !.fee = fee]
<1>1. l \in Locals /\ l.snap = loc[t].snap
  BY DEF Locals
<1>2. loc' = [loc EXCEPT ![t] = l]
  OBVIOUS
<1> HIDE DEF l
<1>3. QED  BY <1>1, <1>2

\* A call that failed or was simulated leaves what it likes in the memory.
LEMMA FailedRegistry ==
    ASSUME RegistryInv, NEW t \in Threads,
           CallFails(t) \/ CallRefused(t) \/ CallSimulated(t)
    PROVE  RegistryInv'
<1>1. /\ pc[t] = "call" /\ pc' = [pc EXCEPT ![t] = "failed"]
      /\ \/ \E fee \in Fees : loc' = [loc EXCEPT ![t].fee = fee]
         \/ UNCHANGED loc
      /\ UNCHANGED <<db, dbtx, writeMu, req, committed>>
  BY DEF CallFails, CallRefused, CallSimulated, Goto
<1>2. /\ mem \in VMState /\ db \in Tables /\ loc \in [Threads -> Locals]
      /\ committed \in Seq(Records) /\ RecordInv
      /\ TxId(t) \in TxIds /\ <<req[t].sender, NoNonce>> \in TxIds
  BY <1>1, HolderKnows DEF Holding
<1>3. /\ dbtx = Nil /\ mem.contracts = 1..mem.instanceCount
      /\ loc[t].snap \in VMState /\ RegistryAgrees(loc[t].snap, db)
  BY <1>1, CallKnows
<1>4. mem' \in VMState
  <2>1. CASE CallRefused(t)
    BY <1>2, <2>1 DEF CallRefused
  <2>2. CASE CallFails(t) \/ CallSimulated(t)
    <3>1. PICK n \in 0..1, stamp \in TxIds :
              /\ mem.instanceCount + n <= MaxInstances
              /\ mem' \in CallEffects(mem, n, stamp)
      BY <1>2, <2>2 DEF CallFails, CallSimulated
    <3>2. QED  BY <1>2, <1>3, <3>1, CallEffectsFacts
  <2>3. QED  BY <2>1, <2>2
<1>5. loc' \in [Threads -> Locals] /\ loc'[t].snap = loc[t].snap
  <2>1. CASE UNCHANGED loc
    BY <1>2, <2>1
  <2>2. ASSUME NEW fee \in Fees, loc' = [loc EXCEPT ![t].fee = fee]
        PROVE  loc' \in [Threads -> Locals] /\ loc'[t].snap = loc[t].snap
    <3>1. fee \in Nat
      BY NodeAssumption
    <3>2. QED  BY <1>2, <2>2, <3>1, FeeNoted
  <2>3. QED  BY <1>1, <2>1, <2>2
<1>6. pc'[t] = "failed" => RegistryHeld(t)'
  BY <1>1, <1>3, <1>5 DEF RegistryHeld, RegistryAgrees, Committing
<1>7. RecordInv'
  BY <1>1, <1>2, RecordKept DEF SameRegistry
<1>8. QED
  BY <1>1, <1>2, <1>3, <1>4, <1>5, <1>6, <1>7, HolderStays DEF Holding, Committing

\* A call or a store that succeeded is ahead of the tables.
LEMMA SucceededRegistry ==
    ASSUME RegistryInv, NEW t \in Threads, pc[t] = "call", Signed(t),
           pc' = [pc EXCEPT ![t] = "begin"],
           \E fee \in Fees : loc' = [loc EXCEPT ![t].fee = fee],
           mem' \in VMState,
           pc'[t] = "begin" => RegistryAhead(t)',
           UNCHANGED <<db, dbtx, writeMu, req, committed>>
    PROVE  RegistryInv'
<1>1. /\ db \in Tables /\ loc \in [Threads -> Locals]
      /\ committed \in Seq(Records) /\ RecordInv
  BY HolderKnows DEF Holding
<1>2. dbtx = Nil /\ loc[t].snap \in VMState /\ RegistryAgrees(loc[t].snap, db)
  BY CallKnows
<1>3. loc' \in [Threads -> Locals] /\ loc'[t].snap = loc[t].snap
  <2>1. PICK fee \in Nat : loc' = [loc EXCEPT ![t].fee = fee]
    BY NodeAssumption
  <2>2. QED  BY <1>1, <2>1, FeeNoted
<1>4. pc'[t] = "begin" => RegistryHeld(t)'
  BY <1>2, <1>3 DEF RegistryHeld, RegistryAgrees, Committing
<1>5. RecordInv'
  BY <1>1, RecordKept DEF SameRegistry
<1>6. QED
  BY <1>1, <1>2, <1>3, <1>4, <1>5, HolderStays DEF Holding, Committing

LEMMA CallSucceedsRegistry ==
    ASSUME RegistryInv, NEW t \in Threads, CallSucceeds(t)
    PROVE  RegistryInv'
<1>1. PICK n \in 0..1, fee \in Fees :
        /\ mem.instanceCount + n <= MaxInstances
        /\ \E v \in CallEffects(mem, n, TxId(t)) :
                mem' = IncrementNonce(v, req[t].sender)
        /\ loc' = [loc EXCEPT ![t].fee = fee]
  BY DEF CallSucceeds
<1>2. PICK v \in CallEffects(mem, n, TxId(t)) :
        mem' = IncrementNonce(v, req[t].sender)
  BY <1>1
<1>3. /\ pc[t] = "call" /\ pc' = [pc EXCEPT ![t] = "begin"] /\ Call(t)
      /\ UNCHANGED <<db, dbtx, writeMu, req, committed>>
  BY DEF CallSucceeds, Goto
<1>4. mem \in VMState /\ db \in Tables /\ req[t].sender \in Users /\ TxId(t) \in TxIds
  BY <1>3, HolderKnows DEF Holding
<1>5. RegistryAgrees(mem, db) /\ mem.contracts = 1..mem.instanceCount
  BY <1>3, CallKnows
<1>6. /\ v \in VMState /\ v.opSeq = mem.opSeq /\ v.seqByCode = mem.seqByCode
      /\ v.store = mem.store \cup {TxId(t)}
      /\ v.instanceCount = mem.instanceCount + n
      /\ v.contracts = 1..v.instanceCount
  BY <1>1, <1>4, <1>5, CallEffectsFacts
<1>7. /\ mem' \in VMState /\ mem'.contracts = v.contracts
      /\ mem'.instanceCount = v.instanceCount /\ mem'.store = v.store
      /\ mem'.seqByCode = v.seqByCode /\ mem'.opSeq = v.opSeq
  BY <1>2, <1>4, <1>6, IncrementNonceFacts
<1>8. ASSUME pc'[t] = "begin" PROVE RegistryAhead(t)'
  <2>1. Call(t)' /\ TxId(t)' = TxId(t)
    BY <1>3 DEF Call, TxId
  <2>2. mem'.opSeq = db'.opSeq /\ mem'.store = db'.store \cup {TxId(t)}
    BY <1>3, <1>5, <1>6, <1>7 DEF RegistryAgrees
  <2>3. StoredCodes(mem') = Rows(db')
    BY <1>3, <1>5, <1>6, <1>7 DEF RegistryAgrees, StoredCodes
  <2>4. mem'.contracts = 1..mem'.instanceCount /\ db'.instanceCount <= mem'.instanceCount
    BY <1>3, <1>4, <1>5, <1>6, <1>7 DEF RegistryAgrees, VMState
  <2>5. QED  BY <1>8, <2>1, <2>2, <2>3, <2>4 DEF RegistryAhead
<1>9. Signed(t)
  BY <1>3 DEF Signed, Call
<1>10. QED  BY <1>1, <1>3, <1>7, <1>8, <1>9, SucceededRegistry

LEMMA StoreSucceedsRegistry ==
    ASSUME RegistryInv, NEW t \in Threads, StoreSucceeds(t)
    PROVE  RegistryInv'
<1> DEFINE v == StoreCode(mem, req[t].code)
<1>1. /\ pc[t] = "call" /\ pc' = [pc EXCEPT ![t] = "begin"] /\ req[t].kind = "store"
      /\ mem' = IncrementNonce(v, req[t].sender)
      /\ \E fee \in Fees : loc' = [loc EXCEPT ![t].fee = fee]
      /\ UNCHANGED <<db, dbtx, writeMu, req, committed>>
  BY DEF StoreSucceeds, Goto
<1>2. mem \in VMState /\ db \in Tables /\ req[t].sender \in Users /\ req[t].code \in Codes
  BY <1>1, HolderKnows DEF Holding
<1>3. RegistryAgrees(mem, db) /\ mem.contracts = 1..mem.instanceCount
  BY <1>1, CallKnows
<1>4. /\ v \in VMState /\ StoredCodes(v) = StoredCodes(mem) \cup {req[t].code}
      /\ v.contracts = mem.contracts /\ v.instanceCount = mem.instanceCount
      /\ v.store = mem.store /\ v.opSeq = mem.opSeq
  BY <1>2, StoreCodeFacts
<1> HIDE DEF v
<1>5. /\ mem' \in VMState /\ mem'.contracts = v.contracts
      /\ mem'.instanceCount = v.instanceCount /\ mem'.store = v.store
      /\ mem'.seqByCode = v.seqByCode /\ mem'.opSeq = v.opSeq
  BY <1>1, <1>2, <1>4, IncrementNonceFacts
<1>6. ASSUME pc'[t] = "begin" PROVE RegistryAhead(t)'
  <2>1. ~Call(t)'
    BY <1>1 DEF Call
  <2>2. mem'.opSeq = db'.opSeq /\ mem'.store = db'.store
    BY <1>1, <1>3, <1>4, <1>5 DEF RegistryAgrees
  <2>3. StoredCodes(mem') = Rows(db') \cup {req'[t].code}
    BY <1>1, <1>3, <1>4, <1>5 DEF RegistryAgrees, StoredCodes
  <2>4. mem'.contracts = 1..mem'.instanceCount /\ db'.instanceCount = mem'.instanceCount
    BY <1>1, <1>3, <1>4, <1>5 DEF RegistryAgrees
  <2>5. db'.instanceCount \in Nat
    BY <1>1, <1>2 DEF Tables
  <2>6. QED  BY <1>6, <2>1, <2>2, <2>3, <2>4, <2>5 DEF RegistryAhead
<1>7. Signed(t)
  BY <1>1 DEF Signed
<1>8. QED  BY <1>1, <1>5, <1>6, <1>7, SucceededRegistry

\* The snapshot is put back: its accounts may be older than the tables' now,
\* the rest is what the tables hold.
LEMMA RestoredRegistry ==
    ASSUME RegistryInv, NEW t \in Threads, RestoreFailed(t) \/ Abort(t)
    PROVE  RegistryInv'
<1>1. PICK label \in {"charge", "reply"} :
        /\ pc[t] \in {"failed"} \cup Committing
        /\ label = "charge" => Call(t)
        /\ pc' = [pc EXCEPT ![t] = label] /\ mem' = loc[t].snap
        /\ dbtx' = Nil \/ (UNCHANGED dbtx /\ pc[t] = "failed")
        /\ UNCHANGED <<db, writeMu, req, loc, committed>>
  BY DEF RestoreFailed, Abort, Goto, Committing
<1>2. /\ db \in Tables /\ loc \in [Threads -> Locals]
      /\ committed \in Seq(Records) /\ RecordInv /\ RegistryHeld(t)
  BY <1>1, HolderKnows DEF Holding
<1>3. mem' \in VMState /\ RegistryAgrees(mem', db) /\ dbtx' = Nil
  BY <1>1, <1>2 DEF RegistryHeld
<1>4. pc'[t] = label => RegistryHeld(t)'
  BY <1>1, <1>3 DEF RegistryHeld, RegistryAgrees, Committing
<1>5. RecordInv'
  BY <1>1, <1>2, RecordKept DEF SameRegistry
<1>6. QED
  BY <1>1, <1>2, <1>3, <1>4, <1>5, HolderStays DEF Holding, Committing

\* A failed call's fee changes an account, and so does writing its row.
LEMMA ChargedRegistry ==
    ASSUME RegistryInv, NEW t \in Threads, ChargeFailed(t) \/ PersistFailed(t)
    PROVE  RegistryInv'
<1>1. PICK label \in {"persist", "reply"} :
        /\ pc[t] \in {"charge", "persist"} /\ pc' = [pc EXCEPT ![t] = label]
        /\ \/ UNCHANGED mem
           \/ /\ CanPay(mem, req[t].sender, loc[t].fee)
              /\ mem' = DeductGasFee(mem, req[t].sender, loc[t].fee)
        /\ \/ UNCHANGED db
           \/ db' = PersistAccounts(db, mem, {req[t].sender})
        /\ UNCHANGED <<dbtx, writeMu, req, loc, committed>>
  BY DEF ChargeFailed, PersistFailed, Goto
<1>2. /\ mem \in VMState /\ db \in Tables /\ loc \in [Threads -> Locals]
      /\ committed \in Seq(Records) /\ RecordInv /\ RegistryHeld(t) /\ Served(t)
      /\ req[t].sender \in Users /\ {req[t].sender} \in SUBSET Addr
      /\ loc[t].fee \in Nat
  BY <1>1, HolderKnows DEF Holding, Locals
<1>3. Call(t) /\ RegistryAgrees(mem, db) /\ dbtx = Nil
  BY <1>1, <1>2 DEF Served, RegistryHeld
<1>4. mem' \in VMState /\ SameMemory(mem, mem')
  BY <1>1, <1>2, DeductGasFeeFacts DEF SameMemory
<1>5. db' \in Tables /\ SameRegistry(db, db')
  BY <1>1, <1>2, PersistAccountsFacts DEF SameRegistry
<1>6. RegistryAgrees(mem, db)'
  BY <1>3, <1>4, <1>5 DEF RegistryAgrees, SameMemory, SameRegistry, StoredCodes, Rows
<1>7. pc'[t] = label => RegistryHeld(t)'
  BY <1>1, <1>3, <1>6 DEF RegistryHeld, Committing
<1>8. RecordInv'
  BY <1>1, <1>2, <1>5, RecordKept
<1>9. QED
  BY <1>1, <1>2, <1>3, <1>4, <1>5, <1>7, <1>8, HolderStays DEF Holding, Committing

\* A step of the SQL transaction short of its commit.
LEMMA CommittingRegistry ==
    ASSUME RegistryInv, NEW t \in Threads, pc[t] \in Committing,
           NEW label \in {"fee", "write", "tick", "commit"},
           pc' = [pc EXCEPT ![t] = label],
           mem' \in VMState, dbtx' \in Tables \cup {Nil},
           loc' \in [Threads -> Locals], loc'[t].snap = loc[t].snap,
           pc'[t] = label => RegistryAhead(t)',
           label = "fee" => dbtx' = Nil,
           label = "write" =>
                dbtx' = Nil \/ (dbtx' \in Tables /\ SameRegistry(db, dbtx')),
           pc'[t] = label /\ label \in {"tick", "commit"} => RegistryWritten(t)',
           UNCHANGED <<db, writeMu, req, committed>>
    PROVE  RegistryInv'
<1>1. /\ db \in Tables /\ committed \in Seq(Records) /\ RecordInv
      /\ RegistryHeld(t) /\ Served(t)
  BY HolderKnows DEF Holding
<1>2. Signed(t) /\ loc[t].snap \in VMState /\ RegistryAgrees(loc[t].snap, db)
  BY <1>1 DEF RegistryHeld, Served
<1>3. pc'[t] = label => RegistryHeld(t)'
  BY <1>2 DEF RegistryHeld, RegistryAgrees, SameRegistry, Committing
<1>4. RecordInv'
  BY <1>1, RecordKept DEF SameRegistry
<1>5. QED
  BY <1>1, <1>2, <1>3, <1>4, HolderStays DEF Holding, Committing

\* What such a step starts from.
LEMMA CommittingKnows ==
    ASSUME RegistryInv, NEW t \in Threads, pc[t] \in Committing
    PROVE  /\ mem \in VMState /\ db \in Tables /\ loc \in [Threads -> Locals]
           /\ req[t].sender \in Users /\ {req[t].sender} \in SUBSET Addr
           /\ loc[t].fee \in Nat /\ loc[t].touched \in SUBSET Addr
           /\ ~Call(t) => req[t].code \in Codes
           /\ TxId(t) \in TxIds
           /\ RegistryAhead(t)
           /\ pc[t] \in {"begin", "fee"} => dbtx = Nil
           /\ pc[t] = "write" => dbtx = Nil \/ (dbtx \in Tables /\ SameRegistry(db, dbtx))
           /\ pc[t] \in {"tick", "commit"} => RegistryWritten(t)
           /\ db.contracts = 1..db.instanceCount
<1>1. /\ RegistryHeld(t) /\ Served(t) /\ RecordInv
      /\ mem \in VMState /\ db \in Tables /\ loc \in [Threads -> Locals]
      /\ req[t].sender \in Users /\ {req[t].sender} \in SUBSET Addr
      /\ req[t].kind = "store" => req[t].code \in Codes
      /\ TxId(t) \in TxIds /\ loc[t] \in Locals
  BY HolderKnows DEF Holding
<1>2. loc[t].fee \in Nat /\ loc[t].touched \in SUBSET Addr
  BY <1>1 DEF Locals
<1>3. ~Call(t) => req[t].code \in Codes
  BY <1>1 DEF Served, Signed, Call
<1>4. db.contracts = 1..db.instanceCount
  BY <1>1 DEF RecordInv, InstancesCounted
<1>5. QED
  BY <1>1, <1>2, <1>3, <1>4 DEF RegistryHeld

\* RegistryAhead does not depend on accounts.
LEMMA AheadKept ==
    ASSUME NEW t \in Threads, NEW label \in {"fee", "write", "tick"},
           pc[t] \in {"begin", "fee", "write"}, pc'[t] = label,
           RegistryAhead(t), SameMemory(mem, mem'), UNCHANGED <<db, req>>
    PROVE  RegistryAhead(t)'
<1>1. (Call(t)' <=> Call(t)) /\ TxId(t)' = TxId(t)
  BY DEF Call, TxId
<1>2. StoredCodes(mem') = StoredCodes(mem)
  BY DEF SameMemory, StoredCodes
<1>3. QED  BY <1>1, <1>2 DEF RegistryAhead, SameMemory

LEMMA BeginRegistry ==
    ASSUME RegistryInv, NEW t \in Threads, Begin(t)
    PROVE  RegistryInv'
<1>1. /\ pc[t] = "begin" /\ pc' = [pc EXCEPT ![t] = "fee"]
      /\ \/ UNCHANGED <<mem, loc>>
         \/ /\ loc' = [loc EXCEPT ![t].touched = mem.touched]
            /\ mem' = [mem EXCEPT !.touched = {}]
      /\ UNCHANGED <<db, dbtx, writeMu, req, committed>>
  BY DEF Begin, Goto
<1>2. /\ mem \in VMState /\ loc \in [Threads -> Locals] /\ dbtx = Nil
      /\ RegistryAhead(t)
  BY <1>1, CommittingKnows DEF Committing
<1>3. mem' \in VMState /\ SameMemory(mem, mem')
  BY <1>1, <1>2 DEF VMState, SameMemory
<1>4. mem.touched \in SUBSET Addr
  BY <1>2 DEF VMState
<1>5. loc' \in [Threads -> Locals] /\ loc'[t].snap = loc[t].snap
  BY <1>1, <1>2, <1>4 DEF Locals
<1>6. pc'[t] = "fee" => RegistryAhead(t)'
  BY <1>1, <1>2, <1>3, AheadKept
<1>7. QED
  BY <1>1, <1>2, <1>3, <1>5, <1>6, CommittingRegistry DEF Committing

LEMMA FeeRegistry ==
    ASSUME RegistryInv, NEW t \in Threads, Fee(t)
    PROVE  RegistryInv'
<1>1. /\ pc[t] = "fee" /\ pc' = [pc EXCEPT ![t] = "write"]
      /\ CanPay(mem, req[t].sender, loc[t].fee)
      /\ UNCHANGED <<db, writeMu, req, loc, committed>>
  BY DEF Fee, Goto
<1>2. /\ mem \in VMState /\ db \in Tables /\ loc \in [Threads -> Locals] /\ dbtx = Nil
      /\ RegistryAhead(t) /\ loc[t].fee \in Nat
      /\ req[t].sender \in Users /\ {req[t].sender} \in SUBSET Addr
  BY <1>1, CommittingKnows DEF Committing
<1>3. \/ UNCHANGED <<mem, dbtx>>
      \/ /\ mem' = DeductGasFee(mem, req[t].sender, loc[t].fee)
         /\ dbtx' = PersistAccounts(db, mem', {req[t].sender})
  BY <1>2 DEF Fee, View
<1>4. mem' \in VMState /\ SameMemory(mem, mem')
  BY <1>1, <1>2, <1>3, DeductGasFeeFacts DEF SameMemory
<1>5. dbtx' = Nil \/ (dbtx' \in Tables /\ SameRegistry(db, dbtx'))
  BY <1>2, <1>3, <1>4, PersistAccountsFacts DEF SameRegistry
<1>6. pc'[t] = "write" => RegistryAhead(t)'
  BY <1>1, <1>2, <1>4, AheadKept
<1>7. QED
  BY <1>1, <1>2, <1>4, <1>5, <1>6, CommittingRegistry DEF Committing

\* The rows of the operation bring the transaction level with the memory,
\* whatever the faucet has done to accounts since the call.
LEMMA WriteTablesRegistry ==
    ASSUME RegistryInv, NEW t \in Threads, WriteTables(t)
    PROVE  RegistryInv'
<1>1. /\ pc[t] = "write" /\ pc' = [pc EXCEPT ![t] = "tick"]
      /\ UNCHANGED <<mem, db, writeMu, req, loc, committed>>
  BY DEF WriteTables, Goto
<1>2. /\ mem \in VMState /\ db \in Tables /\ loc \in [Threads -> Locals]
      /\ RegistryAhead(t)
      /\ dbtx = Nil \/ (dbtx \in Tables /\ SameRegistry(db, dbtx))
      /\ {req[t].sender} \in SUBSET Addr /\ loc[t].touched \in SUBSET Addr
      /\ ~Call(t) => req[t].code \in Codes
      /\ TxId(t) \in TxIds
      /\ db.contracts = 1..db.instanceCount
  BY <1>1, CommittingKnows DEF Committing
<1> DEFINE w == View
<1>3. w \in Tables /\ SameRegistry(db, w)
  BY <1>2 DEF View, SameRegistry
<1> HIDE DEF w
<1>4. Rows(w) = Rows(db)
  BY <1>3 DEF Rows, SameRegistry
<1>5. mem.opSeq = db.opSeq
  BY <1>1, <1>2 DEF RegistryAhead
<1>6. (Call(t)' <=> Call(t)) /\ TxId(t)' = TxId(t)
  BY <1>1 DEF Call, TxId
<1>7. CASE Call(t)
  <2> DEFINE x == PersistAccounts(w, mem, loc[t].touched)
  <2>1. dbtx' = PersistCall(x, mem, TxId(t))
    BY <1>7 DEF WriteTables, w
  <2>2. x \in Tables /\ SameRegistry(w, x)
    BY <1>2, <1>3, PersistAccountsFacts DEF SameRegistry
  <2> HIDE DEF x
  <2>3. /\ dbtx' \in Tables
        /\ dbtx'.contracts = x.contracts \cup mem.contracts
        /\ dbtx'.instanceCount = mem.instanceCount
        /\ dbtx'.events = x.events \cup {<<mem.opSeq, TxId(t)>>}
        /\ dbtx'.store = mem.store /\ dbtx'.codes = x.codes
    BY <1>2, <2>1, <2>2, PersistCallFacts
  <2>4. dbtx'.contracts = mem.contracts
    <3>1. /\ mem.contracts = 1..mem.instanceCount
          /\ db.instanceCount <= mem.instanceCount
          /\ db.instanceCount \in Nat /\ mem.instanceCount \in Nat
      BY <1>2 DEF RegistryAhead, VMState, Tables
    <3>2. db.contracts \subseteq mem.contracts
      BY <1>2, <3>1
    <3>3. QED  BY <1>3, <2>2, <2>3, <3>2 DEF SameRegistry
  <2>5. Rows(dbtx') = StoredCodes(mem)
    <3>1. Rows(dbtx') = Rows(db)
      BY <1>3, <2>2, <2>3 DEF Rows, SameRegistry
    <3>2. QED  BY <1>2, <1>7, <3>1 DEF RegistryAhead
  <2>6. dbtx'.events = db.events \cup {<<db.opSeq, TxId(t)>>}
    BY <1>3, <1>5, <2>2, <2>3 DEF SameRegistry
  <2>7. pc'[t] = "tick" => RegistryWritten(t)'
    BY <1>1, <1>6, <1>7, <2>3, <2>4, <2>5, <2>6 DEF RegistryWritten
  <2>8. pc'[t] = "tick" => RegistryAhead(t)'
    BY <1>1, <1>2, AheadKept DEF SameMemory
  <2>9. QED
    BY <1>1, <1>2, <2>3, <2>7, <2>8, CommittingRegistry DEF Committing
<1>8. CASE ~Call(t)
  <2> DEFINE y == PersistCode(w, mem, req[t].code)
  <2>1. dbtx' = PersistAccounts(y, mem, {req[t].sender})
    BY <1>8 DEF WriteTables, w
  <2>2. /\ y \in Tables /\ Rows(y) = Rows(w) \cup {req[t].code}
        /\ y.contracts = w.contracts /\ y.instanceCount = w.instanceCount
        /\ y.store = w.store /\ y.events = w.events
    BY <1>2, <1>3, <1>8, PersistCodeFacts
  <2> HIDE DEF y
  <2>3. /\ dbtx' \in Tables
        /\ dbtx'.contracts = y.contracts /\ dbtx'.instanceCount = y.instanceCount
        /\ dbtx'.store = y.store /\ dbtx'.codes = y.codes
        /\ dbtx'.events = y.events
    BY <1>2, <2>1, <2>2, PersistAccountsFacts
  <2>4. Rows(dbtx') = StoredCodes(mem)
    <3>1. Rows(dbtx') = Rows(db) \cup {req[t].code}
      BY <1>4, <2>2, <2>3 DEF Rows
    <3>2. QED  BY <1>2, <1>8, <3>1 DEF RegistryAhead
  <2>5. dbtx'.instanceCount = mem.instanceCount /\ dbtx'.store = mem.store
    BY <1>2, <1>3, <1>8, <2>2, <2>3 DEF RegistryAhead, SameRegistry
  <2>6. dbtx'.contracts = mem.contracts /\ dbtx'.events = db.events
    BY <1>2, <1>3, <1>8, <2>2, <2>3 DEF RegistryAhead, SameRegistry
  <2>7. pc'[t] = "tick" => RegistryWritten(t)'
    BY <1>1, <1>6, <1>8, <2>3, <2>4, <2>5, <2>6 DEF RegistryWritten
  <2>8. pc'[t] = "tick" => RegistryAhead(t)'
    BY <1>1, <1>2, AheadKept DEF SameMemory
  <2>9. QED
    BY <1>1, <1>2, <2>3, <2>7, <2>8, CommittingRegistry DEF Committing
<1>9. QED  BY <1>7, <1>8

LEMMA TickRegistry ==
    ASSUME RegistryInv, NEW t \in Threads, Tick(t)
    PROVE  RegistryInv'
<1>1. /\ pc[t] = "tick" /\ pc' = [pc EXCEPT ![t] = "commit"]
      /\ mem' = TickOp(mem) /\ dbtx' = [dbtx EXCEPT !.opSeq = mem'.opSeq]
      /\ UNCHANGED <<db, writeMu, req, loc, committed>>
  BY DEF Tick, Goto
<1>2. /\ mem \in VMState /\ loc \in [Threads -> Locals]
      /\ RegistryAhead(t) /\ RegistryWritten(t)
  BY <1>1, CommittingKnows DEF Committing
<1>3. mem.opSeq + 1 \in Nat /\ mem' = [mem EXCEPT !.opSeq = mem.opSeq + 1]
  BY <1>1, <1>2 DEF VMState, TickOp
<1>4. /\ mem' \in VMState
      /\ mem'.contracts = mem.contracts /\ mem'.store = mem.store
      /\ mem'.instanceCount = mem.instanceCount
      /\ mem'.seqByCode = mem.seqByCode /\ mem'.opSeq = mem.opSeq + 1
  BY <1>2, <1>3 DEF VMState
<1>5. /\ dbtx' \in Tables
      /\ dbtx'.contracts = dbtx.contracts /\ dbtx'.store = dbtx.store
      /\ dbtx'.instanceCount = dbtx.instanceCount
      /\ dbtx'.codes = dbtx.codes /\ dbtx'.events = dbtx.events
      /\ dbtx'.opSeq = mem'.opSeq
  <2>1. dbtx \in Tables /\ mem'.opSeq \in Nat
    BY <1>2, <1>3, <1>4 DEF RegistryWritten
  <2>2. QED  BY <1>1, <2>1 DEF Tables
<1>6. StoredCodes(mem') = StoredCodes(mem) /\ Rows(dbtx') = Rows(dbtx)
  BY <1>4, <1>5 DEF StoredCodes, Rows
<1>7. (Call(t)' <=> Call(t)) /\ TxId(t)' = TxId(t) /\ req'[t] = req[t]
  BY <1>1 DEF Call, TxId
<1>8. pc'[t] = "commit" => RegistryAhead(t)'
  BY <1>1, <1>2, <1>4, <1>6, <1>7 DEF RegistryAhead
<1>9. pc'[t] = "commit" => RegistryWritten(t)'
  BY <1>1, <1>2, <1>4, <1>5, <1>6, <1>7 DEF RegistryWritten
<1>10. QED
  BY <1>1, <1>2, <1>4, <1>5, <1>8, <1>9, CommittingRegistry DEF Committing

\* The commit: the operation joins the history under its number, with its
\* stamp, its contracts and its events.
LEMMA CommitRegistry ==
    ASSUME RegistryInv, NEW t \in Threads, Commit(t)
    PROVE  RegistryInv'
<1> DEFINE n == Len(committed)
           r == Record(t)
<1>1. /\ pc[t] = "commit" /\ pc' = [pc EXCEPT ![t] = "reply"]
      /\ db' = dbtx /\ dbtx' = Nil /\ committed' = Append(committed, r)
      /\ UNCHANGED <<mem, writeMu, req, loc>>
  BY DEF Commit, Goto
<1>2. /\ mem \in VMState /\ db \in Tables /\ loc \in [Threads -> Locals]
      /\ req[t] \in Request /\ TxId(t) \in TxIds
      /\ committed \in Seq(Records) /\ RecordInv /\ Served(t)
  BY <1>1, HolderKnows DEF Holding, Committing
<1>3. RegistryAhead(t) /\ RegistryWritten(t) /\ (~Call(t) => req[t].code \in Codes)
  BY <1>1, CommittingKnows DEF Committing
<1>4. r.id = TxId(t) /\ (r.kind # "store" <=> Call(t))
  BY <1>1, <1>2 DEF Record, Served, Signed, Call, Committing
<1>5. r \in Records
  <2>1. (IF req[t].code = Nil THEN 0 ELSE mem.seqByCode[req[t].code]) \in Nat
    BY <1>2 DEF Request, VMState
  <2>2. QED  BY <1>2, <2>1 DEF Record, Request, Records
<1> HIDE DEF r
<1>6. /\ committed' \in Seq(Records)
      /\ n \in Nat /\ Len(committed') = n + 1
      /\ \A i \in 1..n : committed'[i] = committed[i]
      /\ committed'[n + 1] = r
  BY <1>1, <1>2, <1>5
<1> HIDE DEF n
<1>7. 1..Len(committed') = (1..n) \cup {n + 1}
  BY <1>6
<1>8. /\ db' \in Tables
      /\ db'.opSeq = db.opSeq + 1
      /\ db'.store = db.store \cup (IF Call(t) THEN {TxId(t)} ELSE {})
      /\ db'.events = db.events \cup (IF Call(t) THEN {<<db.opSeq, TxId(t)>>} ELSE {})
      /\ db'.contracts = 1..db'.instanceCount
  BY <1>1, <1>3 DEF RegistryAhead, RegistryWritten
<1>9. RegistryAgrees(mem, db)'
  BY <1>1, <1>3 DEF RegistryWritten, RegistryAgrees
<1>10. CommittedCalls' = CommittedCalls \cup (IF Call(t) THEN {n + 1} ELSE {})
  BY <1>4, <1>6, <1>7 DEF CommittedCalls, n
<1>11. CommittedCalls \subseteq 1..n
  BY DEF CommittedCalls, n
<1>12. DurableEffects'
  <2>1. {committed'[i].id : i \in CommittedCalls'}
          = {committed[i].id : i \in CommittedCalls}
            \cup (IF Call(t) THEN {TxId(t)} ELSE {})
    BY <1>4, <1>6, <1>10, <1>11
  <2>2. QED  BY <1>2, <1>8, <2>1 DEF RecordInv, DurableEffects
<1>13. OpsNumbered'
  <2>1. db.opSeq = n + 1
    BY <1>2 DEF RecordInv, OpsNumbered, n
  <2>2. {<<i, committed'[i].id>> : i \in CommittedCalls'}
          = {<<i, committed[i].id>> : i \in CommittedCalls}
            \cup (IF Call(t) THEN {<<n + 1, TxId(t)>>} ELSE {})
    BY <1>4, <1>6, <1>10, <1>11
  <2>3. db'.opSeq = Len(committed') + 1
    BY <1>6, <1>8, <2>1
  <2>4. QED  BY <1>2, <1>8, <2>1, <2>2, <2>3 DEF RecordInv, OpsNumbered
<1>14. RecordInv'
  BY <1>8, <1>12, <1>13 DEF RecordInv, InstancesCounted
<1>15. pc'[t] = "reply" => RegistryHeld(t)'
  BY <1>1, <1>9 DEF RegistryHeld, Committing
<1>16. QED
  BY <1>1, <1>2, <1>6, <1>8, <1>14, <1>15, HolderStays DEF Holding, Committing

\* The faucet sets a balance in the live memory, whoever holds writeMu.
LEMMA FaucetSetRegistry ==
    ASSUME RegistryInv, NEW t \in Threads, FaucetSet(t)
    PROVE  RegistryInv'
<1>1. PICK u \in Users, amount \in FaucetAmounts :
        /\ req' = [req EXCEPT ![t] = [kind |-> "faucet", sender |-> u, nonce |-> 0,
                                      code |-> Nil, amount |-> amount]]
        /\ mem' = SetBalance(mem, u, amount)
  BY DEF FaucetSet
<1>2. /\ pc[t] = "idle" /\ "faucet" \in Kinds
      /\ pc' = [pc EXCEPT ![t] = "faucetRead"]
      /\ UNCHANGED <<db, dbtx, writeMu, loc, committed>>
  BY DEF FaucetSet, Goto
<1>3. TypeOK /\ mem \in VMState /\ amount \in Nat /\ u \in Addr
  BY NodeAssumption DEF RegistryInv, TypeOK, Addr
<1>4. /\ req'[t] \in Request /\ req'[t].kind # "store" /\ req'[t].code = Nil
      /\ \A s \in Threads : s # t => req'[s] = req[s]
  BY <1>1, <1>2, <1>3 DEF TypeOK, Request
<1>5. mem' \in VMState /\ SameMemory(mem, mem')
  <2> DEFINE b == [mem.bal EXCEPT ![u] = amount]
             x == mem.touched \cup {u}
  <2>1. b \in [Addr -> Nat] /\ x \in SUBSET Addr
    BY <1>3 DEF VMState
  <2>2. mem' = [mem EXCEPT !.bal = b, !.touched = x]
    BY <1>1, <1>3 DEF SetBalance, VMState
  <2> HIDE DEF b, x
  <2>3. QED  BY <1>3, <2>1, <2>2 DEF VMState, SameMemory
<1>6. TypeOK'
  BY <1>1, <1>2, <1>3, <1>4, <1>5 DEF TypeOK, Labels
<1>7. Served(t)'
  BY <1>2, <1>3, <1>4 DEF Served, TypeOK, Committing
<1>8. SameRegistry(db, db')
  BY <1>2 DEF SameRegistry
<1>9. QED
  BY <1>2, <1>4, <1>5, <1>6, <1>7, <1>8, OutsideStep DEF Labels, Holding, Committing

\* It reads the nonce, perhaps of a transaction that will be undone.
LEMMA FaucetReadRegistry ==
    ASSUME RegistryInv, NEW t \in Threads, FaucetRead(t)
    PROVE  RegistryInv'
<1>1. /\ pc[t] = "faucetRead" /\ pc' = [pc EXCEPT ![t] = "faucetWrite"]
      /\ loc' = [loc EXCEPT ![t].nonce = mem.nonce[req[t].sender]]
      /\ UNCHANGED <<mem, db, dbtx, writeMu, req, committed>>
  BY DEF FaucetRead, Goto
<1>2. TypeOK /\ RequestInv
  BY DEF RegistryInv
<1>3. req[t] \in Request /\ (req[t].kind = "store" <=> req[t].code # Nil)
  BY <1>1, <1>2 DEF RequestInv
<1>4. mem.nonce[req[t].sender] \in Nat
  BY <1>2, <1>3 DEF TypeOK, VMState, Request
<1>5. loc' \in [Threads -> Locals] /\ \A s \in Threads : s # t => loc'[s] = loc[s]
  BY <1>1, <1>2, <1>4 DEF TypeOK, Locals
<1>6. TypeOK'
  BY <1>1, <1>2, <1>5 DEF TypeOK, Labels, Locals
<1>7. Served(t)'
  BY <1>1, <1>2, <1>3 DEF Served, TypeOK, Committing
<1>8. SameMemory(mem, mem') /\ SameRegistry(db, db')
  BY <1>1 DEF SameMemory, SameRegistry
<1>9. QED
  BY <1>1, <1>5, <1>6, <1>7, <1>8, OutsideStep DEF Labels, Holding, Committing

\* It writes a row between two statements of somebody's transaction, or is
\* kept out and gives up.
LEMMA FaucetWriteRegistry ==
    ASSUME RegistryInv, NEW t \in Threads, FaucetWrite(t)
    PROVE  RegistryInv'
<1>1. /\ pc[t] = "faucetWrite" /\ pc' = [pc EXCEPT ![t] = "idle"]
      /\ loc' = [loc EXCEPT ![t] = NoLocals]
      /\ req' = [req EXCEPT ![t] = Nil]
      /\ \/ db' = [db EXCEPT !.bal[req[t].sender] = req[t].amount,
                             !.nonce[req[t].sender] = loc[t].nonce]
         \/ UNCHANGED db
      /\ UNCHANGED <<mem, dbtx, writeMu, committed>>
  BY DEF FaucetWrite, Forget, Goto
<1>2. TypeOK /\ RequestInv /\ db \in Tables
  BY DEF RegistryInv, TypeOK
<1>3. req[t] \in Request /\ loc[t].nonce \in Nat
  BY <1>1, <1>2 DEF RequestInv, TypeOK
<1>4. req[t].sender \in Users /\ req[t].sender \in Addr /\ req[t].amount \in Nat
  BY <1>3 DEF Request, Addr
<1>5. db' \in Tables /\ SameRegistry(db, db')
  <2>1. CASE UNCHANGED db
    BY <1>2, <2>1 DEF SameRegistry
  <2>2. CASE db' = [db EXCEPT !.bal[req[t].sender] = req[t].amount,
                              !.nonce[req[t].sender] = loc[t].nonce]
    <3> DEFINE b == [db.bal EXCEPT ![req[t].sender] = req[t].amount]
               m == [db.nonce EXCEPT ![req[t].sender] = loc[t].nonce]
    <3>1. b \in [Addr -> Nat] /\ m \in [Users -> Nat]
      BY <1>2, <1>3, <1>4 DEF Tables
    <3>2. db' = [db EXCEPT !.bal = b, !.nonce = m]
      BY <1>2, <2>2 DEF Tables
    <3> HIDE DEF b, m
    <3>3. QED  BY <1>2, <3>1, <3>2 DEF Tables, SameRegistry
  <2>3. QED  BY <1>1, <2>1, <2>2
<1>6. TypeOK'
  BY <1>1, <1>2, <1>5 DEF TypeOK, Labels, NoLocals
<1>7. pc'[t] = "idle" /\ \A s \in Threads : s # t => req'[s] = req[s] /\ loc'[s] = loc[s]
  BY <1>1, <1>2 DEF TypeOK
<1>8. Served(t)' /\ SameMemory(mem, mem')
  BY <1>1, <1>7 DEF Served, Committing, SameMemory
<1>9. QED
  BY <1>1, <1>5, <1>6, <1>7, <1>8, OutsideStep DEF Labels, Holding, Committing

LEMMA RestartRegistry ==
    ASSUME RegistryInv, Restart
    PROVE  RegistryInv'
<1>1. /\ mem' = Restored(db) /\ dbtx' = Nil /\ writeMu' = Nil
      /\ pc' = [t \in Threads |-> "idle"]
      /\ req' = [t \in Threads |-> Nil]
      /\ loc' = [t \in Threads |-> NoLocals]
      /\ UNCHANGED <<db, committed>>
  BY DEF Restart
<1>2. TypeOK /\ RecordInv /\ db \in Tables
  BY DEF RegistryInv, RecordInv, TypeOK
<1>3. mem' \in VMState /\ RegistryAgrees(mem', db)
  BY <1>1, <1>2, RestoredFacts DEF Agree
<1>4. TypeOK'
  BY <1>1, <1>2, <1>3 DEF TypeOK, Labels, NoLocals
<1>5. RequestInv' /\ LockHeld'
  BY <1>1, NodeAssumption DEF RequestInv, LockHeld, Holding, Committing
<1>6. RecordInv'
  BY <1>1, <1>2, RecordKept DEF SameRegistry
<1>7. QED
  BY <1>1, <1>3, <1>4, <1>5, <1>6, NodeAssumption
     DEF RegistryInv, RecordInv, RegistryAgrees

LEMMA StutterRegistry ==
    ASSUME RegistryInv, UNCHANGED vars
    PROVE  RegistryInv'
<1>1. UNCHANGED <<mem, db, dbtx, writeMu, pc, req, loc, committed>>
  BY DEF vars
<1>2. TypeOK' /\ LockHeld' /\ RequestInv'
  BY <1>1 DEF RegistryInv, TypeOK, LockHeld, RequestInv, Signed, Call
<1>3. RecordInv'
  BY <1>1, RecordKept DEF RegistryInv, RecordInv, SameRegistry
<1>4. ASSUME NEW t \in Threads, RegistryHeld(t)
      PROVE  RegistryHeld(t)'
  <2>1. (Call(t)' <=> Call(t)) /\ TxId(t)' = TxId(t)
    BY <1>1 DEF Call, TxId
  <2>2. /\ RegistryAhead(t)' <=> RegistryAhead(t)
        /\ RegistryWritten(t)' <=> RegistryWritten(t)
    BY <1>1, <2>1 DEF RegistryAhead, RegistryWritten
  <2>3. QED
    BY <1>1, <1>4, <2>2 DEF RegistryHeld, RegistryAgrees, SameRegistry
<1>5. QED
  BY <1>1, <1>2, <1>3, <1>4 DEF RegistryInv, RecordInv, RegistryAgrees

\* A node started on an empty database satisfies the invariant.
LEMMA InitRegistry == Init => RegistryInv
<1> SUFFICES ASSUME Init PROVE RegistryInv
  OBVIOUS
<1>1. IInv /\ writeMu = Nil /\ dbtx = Nil
  BY InitInv DEF Init
<1>2. LockHeld
  BY <1>1 DEF IInv, LockInv, LockHeld
<1>3. RegistryAgrees(mem, db)
  BY <1>1 DEF IInv, MemDbAgree, Agree
<1>4. QED
  BY <1>1, <1>2, <1>3, NodeAssumption DEF IInv, RegistryInv

\* Every step of a node preserves it, those of the faucet among them.
LEMMA NextRegistry ==
    ASSUME RegistryInv, [Next]_vars
    PROVE  RegistryInv'
<1>1. ASSUME NEW t \in Threads, Receive(t) \/ FaucetSet(t) \/ Serve(t)
      PROVE  RegistryInv'
  BY <1>1, ReceiveRegistry, LockRegistry, ReplyRegistry, FailedRegistry,
     CallSucceedsRegistry, StoreSucceedsRegistry, RestoredRegistry, ChargedRegistry,
     BeginRegistry, FeeRegistry, WriteTablesRegistry, TickRegistry, CommitRegistry,
     FaucetSetRegistry, FaucetReadRegistry, FaucetWriteRegistry DEF Serve
<1>2. QED  BY <1>1, RestartRegistry, StutterRegistry DEF Next

-----------------------------------------------------------------------------
(***************************************************************************)
(* The theorems, first those that hold without a faucet.                   *)
(***************************************************************************)
\* Every step of a node without a faucet preserves the invariant.
LEMMA NextInv ==
    ASSUME Devnet = FALSE, IInv, [Next]_vars
    PROVE  IInv'
<1>1. ASSUME NEW t \in Threads, Receive(t) \/ FaucetSet(t) \/ Serve(t)
      PROVE  IInv'
  <2>1. ~FaucetSet(t)
    BY NodeAssumption DEF FaucetSet
  <2>2. ~FaucetRead(t) /\ ~FaucetWrite(t)
    BY DEF FaucetRead, FaucetWrite, IInv, LockInv, Holding, Committing
  <2>3. CASE Serve(t)
    BY <2>2, <2>3, LockStep, CallSucceedsStep, CallFailsStep, StoreSucceedsStep,
       CallRefusedStep, CallSimulatedStep, RestoreFailedStep, ChargeFailedStep,
       PersistFailedStep, BeginStep, FeeStep, WriteTablesStep, TickStep,
       CommitStep, AbortStep, ReplyStep DEF Serve
  <2>4. QED  BY <1>1, <2>1, <2>3, ReceiveInv
<1>2. QED  BY <1>1, RestartStep, StutterStep DEF Next

\* The inductive invariant holds in every reachable state of a node without
\* a faucet.
THEOREM Inductive ==
    ASSUME Devnet = FALSE
    PROVE  Spec => []IInv
<1>1. IInv /\ [Next]_vars => IInv'
  BY NextInv
<1>2. QED  BY <1>1, InitInv, PTL DEF Spec

\* Whenever writeMu is free the VM's memory is what restore() would rebuild,
\* whatever calls, SQL statements and commits failed and however the node
\* was restarted before.
THEOREM MemoryAgreesWithDatabase ==
    ASSUME Devnet = FALSE
    PROVE  Spec => []MemDbAgree
<1>1. IInv => MemDbAgree
  BY DEF IInv
<1>2. QED  BY <1>1, Inductive, PTL

\* No signed transaction is committed twice, for any number of senders,
\* copies of requests, concurrent handlers and restarts.
THEOREM TransactionsNotReplayed ==
    ASSUME Devnet = FALSE
    PROVE  Spec => []NoReplay
<1>1. IInv => NoReplay
  BY DEF IInv
<1>2. QED  BY <1>1, Inductive, PTL

-----------------------------------------------------------------------------
(***************************************************************************)
(* What holds with a faucet too, although handleFaucet takes no lock.      *)
(***************************************************************************)
\* The invariant about everything but accounts holds on every network.
THEOREM RegistryInductive == Spec => []RegistryInv
<1>1. RegistryInv /\ [Next]_vars => RegistryInv'
  BY NextRegistry
<1>2. QED  BY <1>1, InitRegistry, PTL DEF Spec

\* The variables of the handlers, the VM and the database keep their types:
\* in particular no balance is ever driven below zero by a fee or a transfer,
\* also when the faucet lowers it in between.
THEOREM TypeCorrect == Spec => []TypeOK
<1>1. RegistryInv => TypeOK
  BY DEF RegistryInv
<1>2. QED  BY <1>1, RegistryInductive, PTL

\* Whenever writeMu is free, contracts, storage, codes and the operation
\* counter in memory are those a restart would restore.
THEOREM RegistryNeverDiverges ==
    Spec => [](writeMu = Nil => RegistryAgrees(mem, db))
<1>1. RegistryInv => (writeMu = Nil => RegistryAgrees(mem, db))
  BY DEF RegistryInv
<1>2. QED  BY <1>1, RegistryInductive, PTL

\* The durable storage holds the writes of the committed calls and no others:
\* nothing of what a failed, aborted or simulated call wrote into the live
\* memory, whatever a faucet does beside it.
THEOREM EffectsAreDurable == Spec => []DurableEffects
<1>1. RegistryInv => DurableEffects
  BY DEF RegistryInv
<1>2. QED  BY <1>1, RegistryInductive, PTL

\* Committed operations and their events are numbered without gaps.
THEOREM OperationsNumbered == Spec => []OpsNumbered
<1>1. RegistryInv => OpsNumbered
  BY DEF RegistryInv
<1>2. QED  BY <1>1, RegistryInductive, PTL

\* The durable registry holds exactly the instances that were counted.
THEOREM RegistryCounted == Spec => []InstancesCounted
<1>1. RegistryInv => InstancesCounted
  BY DEF RegistryInv
<1>2. QED  BY <1>1, RegistryInductive, PTL
=============================================================================
