---------------------------- MODULE LedgerProofs ----------------------------
(***************************************************************************)
(* The node implements the ledger, on a network that serves no faucet, for *)
(* any number of concurrent requests, senders, codes, nonces and fees.     *)
(*                                                                         *)
(* The invariant of NodeProofs says which accounts of the memory differ    *)
(* from their rows; the ledger also wants to know by how much.             *)
(***************************************************************************)
EXTENDS NodeProofs

-----------------------------------------------------------------------------
(***************************************************************************)
(* The invariant.                                                          *)
(***************************************************************************)
Below(b, c) == \A a \in Addr : b[a] <= c[a]

\* The balances a transaction leaves: those on record, at most one token
\* moved by a call, less what is burned as gas.
Owed(t, b) ==
    \E c \in IF Call(t) THEN L!Transfers(db.bal) ELSE {db.bal} : Below(b, c)

\* What the thread that holds writeMu knows of balances.  A fee whose row
\* could not be written leaves the memory below the tables, and so does every
\* snapshot taken after it.
HolderInv(t) ==
    /\ pc[t] \in {"call", "failed"} \cup Committing => Below(loc[t].snap.bal, db.bal)
    /\ pc[t] \in {"charge", "persist", "reply"} => Below(mem.bal, db.bal)
    /\ pc[t] \in Committing =>
        /\ Owed(t, mem.bal)
        /\ mem.instanceCount <= db.instanceCount + 1
    /\ pc[t] \in {"tick", "commit"} => Owed(t, dbtx.bal) /\ Below(mem.bal, dbtx.bal)

BalanceInv ==
    /\ writeMu = Nil => Below(mem.bal, db.bal)
    /\ \A t \in Threads : writeMu = t => HolderInv(t)

RInv == IInv /\ BalanceInv

-----------------------------------------------------------------------------
(***************************************************************************)
(* Balances.                                                               *)
(***************************************************************************)
\* The types of the balances and counters in a state of the invariant.
LEMMA BalanceTypes ==
    ASSUME IInv
    PROVE  /\ mem.bal \in [Addr -> Nat] /\ db.bal \in [Addr -> Nat]
           /\ mem.instanceCount \in Nat /\ db.instanceCount \in Nat
BY DEF IInv, TypeOK, VMState, Tables

\* A call moves at most one token.
LEMMA CallEffectsBalances ==
    ASSUME NEW v \in VMState, NEW n \in 0..1, NEW stamp \in TxIds,
           NEW w \in CallEffects(v, n, stamp)
    PROVE  /\ w.instanceCount = v.instanceCount + n
           /\ \/ w.bal = v.bal
              \/ \E from \in {a \in Addr : v.bal[a] >= 1}, to \in Addr :
                    w.bal = Move(v.bal, from, to, 1)
<1>1. ASSUME NEW u \in VMState
      PROVE  /\ Write(Create(u, n), stamp).bal = u.bal
             /\ Write(Create(u, n), stamp).instanceCount = u.instanceCount + n
  <2> DEFINE x == Create(u, n)
  <2>1. x.bal = u.bal /\ x.instanceCount = u.instanceCount + n
    BY DEF Create, VMState
  <2>2. x \in [bal : {x.bal}, nonce : {x.nonce}, contracts : {x.contracts},
               instanceCount : {x.instanceCount}, touched : {x.touched},
               store : {x.store}, seqByCode : {x.seqByCode},
               codeSeq : {x.codeSeq}, opSeq : {x.opSeq}]
    BY DEF Create, VMState
  <2> HIDE DEF x
  <2>3. Write(x, stamp).bal = x.bal /\ Write(x, stamp).instanceCount = x.instanceCount
    BY <2>2 DEF Write
  <2>4. QED  BY <2>1, <2>3 DEF x
<1>2. CASE w = Write(Create(v, n), stamp)
  BY <1>1, <1>2
<1>3. ASSUME NEW from \in {a \in Addr : v.bal[a] >= 1}, NEW to \in Addr,
             w = Write(Create(Transfer(v, from, to, 1), n), stamp)
      PROVE  /\ w.instanceCount = v.instanceCount + n
             /\ w.bal = Move(v.bal, from, to, 1)
  <2> DEFINE u == Transfer(v, from, to, 1)
             b == Move(v.bal, from, to, 1)
             m == v.touched \cup {from, to}
  <2>1. b \in [Addr -> Nat] /\ m \in SUBSET Addr
    BY MoveFacts DEF VMState
  <2> HIDE DEF b, m
  <2>2. u = [v EXCEPT !.bal = b, !.touched = m]
    BY DEF Transfer, b, m
  <2>3. u \in VMState /\ u.bal = b /\ u.instanceCount = v.instanceCount
    BY <2>1, <2>2 DEF VMState
  <2> HIDE DEF u
  <2>4. QED  BY <1>1, <1>3, <2>3 DEF u, b
<1>4. QED
  BY <1>2, <1>3 DEF CallEffects

\* A call that starts from balances no higher than those on record leaves
\* balances no higher than a ledger's call may.
LEMMA CallOwes ==
    ASSUME NEW b \in [Addr -> Nat], NEW d \in [Addr -> Nat], Below(b, d),
           NEW w \in [Addr -> Nat],
           \/ w = b
           \/ \E from \in {a \in Addr : b[a] >= 1}, to \in Addr :
                w = Move(b, from, to, 1)
    PROVE  \E c \in L!Transfers(d) : Below(w, c)
<1>1. CASE w = b
  BY <1>1 DEF L!Transfers, Below
<1>2. ASSUME NEW from \in {a \in Addr : b[a] >= 1}, NEW to \in Addr,
             w = Move(b, from, to, 1)
      PROVE  \E c \in L!Transfers(d) : Below(w, c)
  <2>1. d[from] >= 1 /\ from \in L!Addr /\ to \in L!Addr
    BY DEF Below, L!Addr, Addr
  <2>2. L!Move(d, from, to, 1) \in L!Transfers(d)
    BY <2>1 DEF L!Transfers
  <2>3. Below(w, L!Move(d, from, to, 1))
    BY <1>2 DEF Below, Move, L!Move
  <2>4. QED  BY <2>2, <2>3
<1>3. QED  BY <1>1, <1>2

\* Less is owed after a fee.
LEMMA OwedLess ==
    ASSUME NEW t, NEW b \in [Addr -> Nat], NEW c \in [Addr -> Nat],
           db.bal \in [Addr -> Nat], Owed(t, b), Below(c, b)
    PROVE  Owed(t, c)
<1>1. PICK d \in IF Call(t) THEN L!Transfers(db.bal) ELSE {db.bal} : Below(b, d)
  BY DEF Owed
<1>2. d \in [Addr -> Int]
  BY <1>1 DEF L!Transfers, L!Move, L!Addr, Addr
<1>3. Below(c, d)
  BY <1>1, <1>2 DEF Below
<1>4. QED  BY <1>3 DEF Owed

-----------------------------------------------------------------------------
(***************************************************************************)
(* The invariant is preserved.  NodeProofs gives IInv after each step.     *)
(***************************************************************************)
\* The holder of writeMu is the thread inside a handler.
LEMMA HolderFacts ==
    ASSUME RInv, NEW t \in Threads, pc[t] \in Holding
    PROVE  writeMu = t /\ HolderInv(t)
BY ServedFacts DEF RInv, BalanceInv

\* Only the holder's part is left to show while the lock is held.
LEMMA HolderStep ==
    ASSUME NEW t \in Threads, writeMu' = t, HolderInv(t)'
    PROVE  BalanceInv'
BY NodeAssumption DEF BalanceInv

\* A step of the holder to another label of its handler.
LEMMA LabelStep ==
    ASSUME RInv, NEW t \in Threads, pc[t] \in Holding, NEW label \in Holding,
           pc' = [pc EXCEPT ![t] = label], UNCHANGED writeMu
    PROVE  /\ HolderInv(t) /\ writeMu' = t /\ pc'[t] = label
           /\ HolderInv(t)' => BalanceInv'
<1>1. writeMu = t /\ HolderInv(t)
  BY HolderFacts
<1>2. pc'[t] = label
  BY DEF RInv, IInv, TypeOK
<1>3. QED  BY <1>1, <1>2, HolderStep

\* The snapshot is the memory.
LEMMA LockBalances ==
    ASSUME RInv, NEW t \in Threads, Lock(t)
    PROVE  BalanceInv'
<1>1. /\ writeMu = Nil /\ writeMu' = t /\ pc'[t] = "call" /\ loc'[t].snap = mem
      /\ UNCHANGED <<mem, db>>
  BY DEF Lock, Goto, RInv, IInv, TypeOK
<1>2. Below(mem.bal, db.bal)
  BY <1>1 DEF RInv, BalanceInv
<1>3. HolderInv(t)'
  BY <1>1, <1>2 DEF HolderInv, Committing, Below
<1>4. QED  BY <1>1, <1>3, HolderStep

\* A call that failed or was simulated can still be undone.
LEMMA UndoableBalances ==
    ASSUME RInv, NEW t \in Threads,
           CallFails(t) \/ CallRefused(t) \/ CallSimulated(t)
    PROVE  BalanceInv'
<1>1. /\ pc[t] = "call" /\ pc' = [pc EXCEPT ![t] = "failed"]
      /\ UNCHANGED <<db, writeMu>>
  BY DEF CallFails, CallRefused, CallSimulated, Goto
<1>2. loc'[t].snap = loc[t].snap
  <2>1. \/ \E fee \in Fees : loc' = [loc EXCEPT ![t].fee = fee]
        \/ UNCHANGED loc
    BY DEF CallFails, CallRefused, CallSimulated
  <2>2. loc \in [Threads -> Locals]
    BY DEF RInv, IInv, TypeOK, Locals
  <2>3. QED  BY <2>1, <2>2 DEF Locals
<1>3. HolderInv(t) /\ pc'[t] = "failed" /\ (HolderInv(t)' => BalanceInv')
  BY <1>1, LabelStep DEF Holding
<1>4. HolderInv(t)'
  BY <1>1, <1>2, <1>3 DEF HolderInv, Committing, Below
<1>5. QED  BY <1>3, <1>4

\* A call moved at most one token and made at most one contract.
LEMMA CallSucceedsBalances ==
    ASSUME RInv, IInv', NEW t \in Threads, CallSucceeds(t)
    PROVE  BalanceInv'
<1>1. /\ pc[t] = "call" /\ pc' = [pc EXCEPT ![t] = "begin"] /\ Call(t)
      /\ UNCHANGED <<db, writeMu, req>>
  BY DEF CallSucceeds, Goto
<1>2. PICK n \in 0..1, fee \in Fees :
        /\ loc' = [loc EXCEPT ![t].fee = fee]
        /\ \E v \in CallEffects(mem, n, TxId(t)) : mem' = IncrementNonce(v, req[t].sender)
        /\ mem.instanceCount + n <= MaxInstances
  BY DEF CallSucceeds
<1>3. PICK v \in CallEffects(mem, n, TxId(t)) : mem' = IncrementNonce(v, req[t].sender)
  BY <1>2
<1>4. IInv
  BY DEF RInv
<1>5. /\ mem \in VMState /\ req[t].sender \in Users /\ mem = loc[t].snap
      /\ mem.contracts = 1..mem.instanceCount /\ TxId(t) \in TxIds
      /\ mem.instanceCount = db.instanceCount
  BY <1>1, <1>4, CallStart, ServedFacts DEF Holding, Request, Agree, RegistryAgrees
<1>6. /\ v \in VMState /\ v.instanceCount = mem.instanceCount + n
      /\ \/ v.bal = mem.bal
         \/ \E from \in {a \in Addr : mem.bal[a] >= 1}, to \in Addr :
              v.bal = Move(mem.bal, from, to, 1)
  BY <1>2, <1>5, CallEffectsFacts, CallEffectsBalances
<1>7. mem'.bal = v.bal /\ mem'.instanceCount = v.instanceCount
  BY <1>3, <1>5, <1>6, IncrementNonceFacts
<1>8. loc'[t].snap = loc[t].snap
  <2>1. loc \in [Threads -> Locals]
    BY <1>4 DEF IInv, TypeOK, Locals
  <2>2. QED  BY <1>2, <2>1 DEF Locals
<1>9. HolderInv(t) /\ pc'[t] = "begin" /\ (HolderInv(t)' => BalanceInv')
  BY <1>1, LabelStep DEF Holding, Committing
<1>10. Below(mem.bal, db.bal)
  BY <1>1, <1>5, <1>9 DEF HolderInv
<1>11. Owed(t, mem.bal)'
  <2>1. \E c \in L!Transfers(db.bal) : Below(mem'.bal, c)
    BY <1>4, <1>6, <1>7, <1>10, CallOwes, BalanceTypes DEF VMState
  <2>2. Call(t)' /\ db' = db
    BY <1>1 DEF Call
  <2>3. Owed(t, mem.bal)' <=> \E c \in L!Transfers(db.bal) : Below(mem'.bal, c)
    BY <2>2 DEF Owed, L!Transfers, Below
  <2>4. QED  BY <2>1, <2>3
<1>12. mem'.instanceCount <= db'.instanceCount + 1
  BY <1>1, <1>4, <1>5, <1>6, <1>7, BalanceTypes
<1>13. Below(loc[t].snap.bal, db.bal)'
  BY <1>1, <1>5, <1>8, <1>10 DEF Below
<1>14. HolderInv(t)'
  BY <1>9, <1>11, <1>12, <1>13 DEF HolderInv
<1>15. QED  BY <1>9, <1>14

\* Storing a code moves nothing.
LEMMA StoreSucceedsBalances ==
    ASSUME RInv, NEW t \in Threads, StoreSucceeds(t)
    PROVE  BalanceInv'
<1>1. /\ pc[t] = "call" /\ pc' = [pc EXCEPT ![t] = "begin"] /\ req[t].kind = "store"
      /\ mem' = IncrementNonce(StoreCode(mem, req[t].code), req[t].sender)
      /\ \E fee \in Fees : loc' = [loc EXCEPT ![t].fee = fee]
      /\ UNCHANGED <<db, writeMu, req>>
  BY DEF StoreSucceeds, Goto
<1>2. IInv /\ TypeOK
  BY DEF RInv, IInv
<1>3. /\ mem \in VMState /\ req[t] \in Request /\ mem = loc[t].snap
      /\ mem.instanceCount = db.instanceCount
      /\ req[t].kind = "store" <=> req[t].code # Nil
  BY <1>1, <1>2, CallStart, ServedFacts DEF Holding, Agree, RegistryAgrees, ServedInv
<1>4. req[t].sender \in Users /\ req[t].code \in Codes
  BY <1>1, <1>3 DEF Request
<1>5. mem'.bal = mem.bal /\ mem'.instanceCount = mem.instanceCount
  <2> DEFINE w == StoreCode(mem, req[t].code)
  <2>1. w \in VMState /\ w.bal = mem.bal /\ w.instanceCount = mem.instanceCount
    BY <1>3, <1>4, StoreCodeFacts
  <2> HIDE DEF w
  <2>2. mem' = IncrementNonce(w, req[t].sender)
    BY <1>1 DEF w
  <2>3. QED  BY <1>4, <2>1, <2>2, IncrementNonceFacts
<1>6. loc'[t].snap = loc[t].snap
  BY <1>1, <1>2 DEF TypeOK
<1>7. HolderInv(t) /\ pc'[t] = "begin" /\ (HolderInv(t)' => BalanceInv')
  BY <1>1, LabelStep DEF Holding, Committing
<1>8. Below(mem.bal, db.bal)
  BY <1>1, <1>3, <1>7 DEF HolderInv
<1>9. Owed(t, mem.bal)'
  BY <1>1, <1>5, <1>8 DEF Owed, Below, Call
<1>10. mem'.instanceCount <= db'.instanceCount + 1
  BY <1>1, <1>2, <1>3, <1>5, BalanceTypes
<1>11. Below(loc[t].snap.bal, db.bal)'
  BY <1>1, <1>3, <1>6, <1>8 DEF Below
<1>12. HolderInv(t)'
  BY <1>7, <1>9, <1>10, <1>11 DEF HolderInv
<1>13. QED  BY <1>7, <1>12

\* The snapshot is put back.
LEMMA RestoredBalances ==
    ASSUME RInv, NEW t \in Threads, RestoreFailed(t) \/ Abort(t)
    PROVE  BalanceInv'
<1>1. PICK label \in {"charge", "reply"} :
        /\ pc[t] \in {"failed"} \cup Committing
        /\ pc' = [pc EXCEPT ![t] = label] /\ mem' = loc[t].snap
        /\ UNCHANGED <<db, writeMu>>
  BY DEF RestoreFailed, Abort, Goto, Committing
<1>2. HolderInv(t) /\ pc'[t] = label /\ (HolderInv(t)' => BalanceInv')
  BY <1>1, LabelStep DEF Holding
<1>3. Below(mem.bal, db.bal)'
  BY <1>1, <1>2 DEF HolderInv, Below
<1>4. HolderInv(t)'
  BY <1>2, <1>3 DEF HolderInv, Committing
<1>5. QED  BY <1>2, <1>4

\* A fee lowers the balance of one account.
LEMMA FeeLowers ==
    ASSUME NEW v \in VMState, NEW u \in Users, NEW fee \in Nat, CanPay(v, u, fee)
    PROVE  Below(DeductGasFee(v, u, fee).bal, v.bal)
<1>1. v.bal \in [Addr -> Nat] /\ u \in Addr
  BY DEF VMState, Addr
<1>2. DeductGasFee(v, u, fee).bal = [v.bal EXCEPT ![u] = v.bal[u] - fee]
  BY DEF DeductGasFee, VMState
<1>3. QED  BY <1>1, <1>2 DEF Below

\* The fee of a failed call.
LEMMA ChargeFailedBalances ==
    ASSUME RInv, IInv', NEW t \in Threads, ChargeFailed(t)
    PROVE  BalanceInv'
<1>1. PICK label \in {"persist", "reply"} :
        /\ pc[t] = "charge" /\ pc' = [pc EXCEPT ![t] = label]
        /\ UNCHANGED <<db, writeMu>>
        /\ \/ UNCHANGED mem
           \/ /\ CanPay(mem, req[t].sender, loc[t].fee)
              /\ mem' = DeductGasFee(mem, req[t].sender, loc[t].fee)
  BY DEF ChargeFailed, Goto
<1>2. mem \in VMState /\ req[t].sender \in Users /\ loc[t].fee \in Nat
  BY <1>1, ServedFacts DEF RInv, Holding, Request, Locals
<1>3. HolderInv(t) /\ pc'[t] = label /\ (HolderInv(t)' => BalanceInv')
  BY <1>1, LabelStep DEF Holding
<1>4. Below(mem'.bal, mem.bal) /\ Below(mem.bal, db.bal)
  <2>1. Below(mem.bal, mem.bal) /\ Below(mem.bal, db.bal)
    BY <1>1, <1>2, <1>3 DEF HolderInv, Below, VMState
  <2>2. QED  BY <1>1, <1>2, <2>1, FeeLowers
<1>5. Below(mem.bal, db.bal)'
  <2>1. /\ mem.bal \in [Addr -> Nat] /\ db.bal \in [Addr -> Nat]
        /\ mem'.bal \in [Addr -> Nat] /\ db' = db
    BY <1>1, BalanceTypes DEF RInv, IInv, TypeOK, VMState
  <2>2. QED  BY <1>4, <2>1 DEF Below
<1>6. HolderInv(t)'
  BY <1>3, <1>5 DEF HolderInv, Committing
<1>7. QED  BY <1>3, <1>6

\* What the row of a failed call's sender does to the tables.
LEMMA PersistFailedRow ==
    ASSUME RInv, NEW t \in Threads, PersistFailed(t)
    PROVE  /\ pc[t] = "persist" /\ pc' = [pc EXCEPT ![t] = "reply"]
           /\ UNCHANGED <<mem, writeMu, committed>>
           /\ req[t].sender \in Users
           /\ Below(mem.bal, db.bal)
           /\ db.bal \in [Addr -> Nat] /\ db'.bal \in [Addr -> Nat]
           /\ \A a \in Addr : db'.bal[a] \in {mem.bal[a], db.bal[a]}
           /\ \A a \in Addr \ {req[t].sender} : db'.bal[a] = db.bal[a]
           /\ db'.nonce = db.nonce /\ db'.contracts = db.contracts
           /\ db'.codes = db.codes /\ db'.store = db.store
           /\ db'.opSeq = db.opSeq /\ db'.events = db.events
<1>1. /\ pc[t] = "persist" /\ pc' = [pc EXCEPT ![t] = "reply"]
      /\ UNCHANGED <<mem, writeMu, committed>>
      /\ db' = PersistAccounts(db, mem, {req[t].sender}) \/ UNCHANGED db
  BY DEF PersistFailed, Goto
<1>2. /\ mem \in VMState /\ db \in Tables
      /\ req[t].sender \in Users /\ Agree(mem, db)
  BY <1>1, ServedFacts DEF RInv, Holding, Request, ServedInv
<1>3. Below(mem.bal, db.bal)
  BY <1>1, HolderFacts DEF Holding, HolderInv
<1>4. CASE UNCHANGED db
  BY <1>1, <1>2, <1>3, <1>4 DEF Tables
<1>5. CASE db' = PersistAccounts(db, mem, {req[t].sender})
  <2>1. {req[t].sender} \in SUBSET Addr
    BY <1>2 DEF Addr
  <2>2. /\ db' \in Tables
        /\ \A a \in Addr : db'.bal[a] =
              IF a \in {req[t].sender} THEN mem.bal[a] ELSE db.bal[a]
        /\ \A u \in Users : db'.nonce[u] =
              IF u \in {req[t].sender} THEN mem.nonce[u] ELSE db.nonce[u]
        /\ db'.contracts = db.contracts /\ db'.codes = db.codes
        /\ db'.store = db.store /\ db'.opSeq = db.opSeq /\ db'.events = db.events
    BY <1>2, <1>5, <2>1, PersistAccountsFacts
  <2>3. db'.nonce = db.nonce
    BY <1>2, <2>2 DEF Agree, RegistryAgrees, Tables
  <2>4. db.bal \in [Addr -> Nat] /\ db'.bal \in [Addr -> Nat]
    BY <1>2, <2>2 DEF Tables
  <2>5. QED  BY <1>1, <1>2, <1>3, <2>2, <2>3, <2>4
<1>6. QED  BY <1>1, <1>4, <1>5

\* The row of a failed call's sender is written or not.
LEMMA PersistFailedBalances ==
    ASSUME RInv, NEW t \in Threads, PersistFailed(t)
    PROVE  BalanceInv'
<1>1. HolderInv(t) /\ pc'[t] = "reply" /\ (HolderInv(t)' => BalanceInv')
  BY PersistFailedRow, LabelStep DEF Holding
<1>2. mem.bal \in [Addr -> Nat]
  BY BalanceTypes DEF RInv
<1>3. Below(mem.bal, db.bal)'
  BY <1>2, PersistFailedRow DEF Below
<1>4. HolderInv(t)'
  BY <1>1, <1>3 DEF HolderInv, Committing
<1>5. QED  BY <1>1, <1>4

\* Collecting the touched accounts changes no balance.
LEMMA BeginBalances ==
    ASSUME RInv, NEW t \in Threads, Begin(t)
    PROVE  BalanceInv'
<1>1. /\ pc[t] = "begin" /\ pc' = [pc EXCEPT ![t] = "fee"]
      /\ UNCHANGED <<db, writeMu, req>>
      /\ \/ UNCHANGED <<mem, loc>>
         \/ /\ loc' = [loc EXCEPT ![t].touched = mem.touched]
            /\ mem' = [mem EXCEPT !.touched = {}]
  BY DEF Begin, Goto
<1>2. mem \in VMState /\ loc \in [Threads -> Locals]
  BY DEF RInv, IInv, TypeOK, Locals
<1>3. mem'.bal = mem.bal /\ mem'.instanceCount = mem.instanceCount
  BY <1>1, <1>2 DEF VMState
<1>4. loc'[t].snap = loc[t].snap
  BY <1>1, <1>2 DEF Locals
<1>5. HolderInv(t) /\ pc'[t] = "fee" /\ (HolderInv(t)' => BalanceInv')
  BY <1>1, LabelStep DEF Holding, Committing
<1>6. /\ Below(loc[t].snap.bal, db.bal) /\ Owed(t, mem.bal)
      /\ mem.instanceCount <= db.instanceCount + 1
  BY <1>1, <1>5 DEF HolderInv, Committing
<1>7. Owed(t, mem.bal)'
  BY <1>1, <1>3, <1>6 DEF Owed, Call, Below, L!Transfers
<1>8. HolderInv(t)'
  BY <1>1, <1>3, <1>4, <1>5, <1>6, <1>7 DEF HolderInv, Below
<1>9. QED  BY <1>5, <1>8

\* The fee of a transaction lowers a balance.
LEMMA FeeBalances ==
    ASSUME RInv, IInv', NEW t \in Threads, Fee(t)
    PROVE  BalanceInv'
<1>1. /\ pc[t] = "fee" /\ pc' = [pc EXCEPT ![t] = "write"]
      /\ UNCHANGED <<db, writeMu, req, loc>>
      /\ CanPay(mem, req[t].sender, loc[t].fee)
      /\ \/ UNCHANGED mem
         \/ mem' = DeductGasFee(mem, req[t].sender, loc[t].fee)
  BY DEF Fee, Goto
<1>2. mem \in VMState /\ req[t].sender \in Users /\ loc[t].fee \in Nat
  BY <1>1, ServedFacts DEF RInv, Holding, Committing, Request, Locals
<1>3. mem.bal \in [Addr -> Nat] /\ mem'.bal \in [Addr -> Nat] /\ db.bal \in [Addr -> Nat]
  BY BalanceTypes DEF RInv, IInv, TypeOK, VMState
<1>4. Below(mem'.bal, mem.bal)
  <2>1. Below(mem.bal, mem.bal)
    BY <1>3 DEF Below
  <2>2. QED  BY <1>1, <1>2, <2>1, FeeLowers
<1>5. mem'.instanceCount = mem.instanceCount
  BY <1>1, <1>2, DeductGasFeeFacts
<1>6. HolderInv(t) /\ pc'[t] = "write" /\ (HolderInv(t)' => BalanceInv')
  BY <1>1, LabelStep DEF Holding, Committing
<1>7. /\ Below(loc[t].snap.bal, db.bal) /\ Owed(t, mem.bal)
      /\ mem.instanceCount <= db.instanceCount + 1
  BY <1>1, <1>6 DEF HolderInv, Committing
<1>8. Owed(t, mem'.bal)
  BY <1>3, <1>4, <1>7, OwedLess
<1>9. Owed(t, mem.bal)'
  BY <1>1, <1>8 DEF Owed, Call, Below, L!Transfers
<1>10. HolderInv(t)'
  BY <1>1, <1>5, <1>6, <1>7, <1>9 DEF HolderInv, Below
<1>11. QED  BY <1>6, <1>10

\* The balances the SQL transaction holds: a call's are those of the memory,
\* a store's those of the memory or of the tables.
LEMMA WriteTablesBalances ==
    ASSUME RInv, IInv', NEW t \in Threads, WriteTables(t)
    PROVE  BalanceInv'
<1>1. /\ pc[t] = "write" /\ pc' = [pc EXCEPT ![t] = "tick"]
      /\ UNCHANGED <<mem, db, writeMu, req, loc>>
  BY DEF WriteTables, Goto
<1>2. /\ mem \in VMState /\ db \in Tables
      /\ Advanced(t) /\ FeeWritten(t)
      /\ req[t].sender \in Addr /\ loc[t].touched \in SUBSET Addr
      /\ ~Call(t) => req[t].code \in Codes
      /\ Call(t) => TxId(t) \in TxIds
  BY <1>1, CommittingFacts DEF RInv, Committing
<1>3. mem.bal \in [Addr -> Nat] /\ db.bal \in [Addr -> Nat]
  BY BalanceTypes DEF RInv
<1>4. HolderInv(t) /\ pc'[t] = "tick" /\ (HolderInv(t)' => BalanceInv')
  BY <1>1, LabelStep DEF Holding, Committing
<1>5. /\ Below(loc[t].snap.bal, db.bal) /\ Owed(t, mem.bal)
      /\ mem.instanceCount <= db.instanceCount + 1
  BY <1>1, <1>4 DEF HolderInv, Committing
<1> DEFINE w == View
<1>6. {req[t].sender} \in SUBSET Addr
  BY <1>2
<1>7. w \in Tables /\ \A a \in Addr : w.bal[a] \in {db.bal[a], mem.bal[a]}
  <2>1. CASE dbtx = Nil
    BY <1>2, <2>1 DEF View
  <2>2. CASE dbtx # Nil
    <3>1. w = PersistAccounts(db, mem, {req[t].sender})
      BY <1>2, <2>2 DEF View, FeeWritten
    <3> HIDE DEF w
    <3>2. QED  BY <1>2, <1>6, <3>1, PersistAccountsFacts
  <2>3. QED  BY <2>1, <2>2
<1> HIDE DEF w
<1>8. /\ dbtx'.bal \in [Addr -> Nat]
      /\ \A a \in Addr : dbtx'.bal[a] \in {db.bal[a], mem.bal[a]}
      /\ Call(t) => \A a \in Addr : dbtx'.bal[a] = mem.bal[a]
  <2>1. CASE Call(t)
    <3> DEFINE x == PersistAccounts(w, mem, loc[t].touched)
    <3>1. dbtx' = PersistCall(x, mem, TxId(t))
      BY <2>1 DEF WriteTables, w
    <3>2. /\ x \in Tables
          /\ \A a \in Addr : x.bal[a] =
                IF a \in loc[t].touched THEN mem.bal[a] ELSE w.bal[a]
      BY <1>2, <1>7, PersistAccountsFacts
    <3> HIDE DEF x
    <3>3. dbtx' \in Tables /\ dbtx'.bal = x.bal
      BY <1>2, <2>1, <3>1, <3>2, PersistCallFacts
    <3>4. \A a \in Addr : mem.bal[a] # db.bal[a] => a \in loc[t].touched
      BY <1>1, <1>2, <2>1 DEF Advanced, RegistryAhead, Unwritten
    <3>5. dbtx'.bal \in [Addr -> Nat]
      BY <3>3 DEF Tables
    <3>6. QED  BY <1>7, <3>2, <3>3, <3>4, <3>5
  <2>2. CASE ~Call(t)
    <3> DEFINE y == PersistCode(w, mem, req[t].code)
    <3>1. dbtx' = PersistAccounts(y, mem, {req[t].sender})
      BY <2>2 DEF WriteTables, w
    <3>2. y \in Tables /\ y.bal = w.bal
      BY <1>2, <1>7, <2>2, PersistCodeFacts
    <3> HIDE DEF y
    <3>3. /\ dbtx' \in Tables
          /\ \A a \in Addr : dbtx'.bal[a] =
                IF a \in {req[t].sender} THEN mem.bal[a] ELSE y.bal[a]
      BY <1>2, <1>6, <3>1, <3>2, PersistAccountsFacts
    <3>4. dbtx'.bal \in [Addr -> Nat]
      BY <3>3 DEF Tables
    <3>5. QED  BY <1>7, <2>2, <3>2, <3>3, <3>4
  <2>3. QED  BY <2>1, <2>2
<1>9. Owed(t, dbtx'.bal) /\ Below(mem.bal, dbtx'.bal)
  <2>1. CASE Call(t)
    <3>1. Below(dbtx'.bal, mem.bal) /\ Below(mem.bal, dbtx'.bal)
      BY <1>3, <1>8, <2>1 DEF Below
    <3>2. QED  BY <1>3, <1>5, <1>8, <3>1, OwedLess
  <2>2. CASE ~Call(t)
    <3>1. Below(mem.bal, db.bal)
      BY <1>5, <2>2 DEF Owed
    <3>2. Below(mem.bal, dbtx'.bal) /\ Below(dbtx'.bal, db.bal)
      BY <1>3, <1>8, <3>1 DEF Below
    <3>3. QED  BY <2>2, <3>2 DEF Owed
  <2>3. QED  BY <2>1, <2>2
<1>10. Owed(t, mem.bal)' /\ Owed(t, dbtx.bal)'
  BY <1>1, <1>5, <1>9 DEF Owed, Call, Below, L!Transfers
<1>11. HolderInv(t)'
  BY <1>1, <1>4, <1>5, <1>9, <1>10 DEF HolderInv, Below
<1>12. QED  BY <1>4, <1>11

\* The operation number changes, no balance does.
LEMMA TickBalances ==
    ASSUME RInv, NEW t \in Threads, Tick(t)
    PROVE  BalanceInv'
<1>1. /\ pc[t] = "tick" /\ pc' = [pc EXCEPT ![t] = "commit"]
      /\ mem' = TickOp(mem) /\ dbtx' = [dbtx EXCEPT !.opSeq = mem'.opSeq]
      /\ UNCHANGED <<db, writeMu, req, loc>>
  BY DEF Tick, Goto
<1>2. mem \in VMState /\ dbtx \in Tables
  BY <1>1, CommittingFacts DEF RInv, Committing, TablesWritten, RegistryWritten
<1>3. /\ mem'.bal = mem.bal /\ mem'.instanceCount = mem.instanceCount
      /\ dbtx'.bal = dbtx.bal
  BY <1>1, <1>2 DEF VMState, Tables, TickOp
<1>4. HolderInv(t) /\ pc'[t] = "commit" /\ (HolderInv(t)' => BalanceInv')
  BY <1>1, LabelStep DEF Holding, Committing
<1>5. /\ Below(loc[t].snap.bal, db.bal) /\ Owed(t, mem.bal)
      /\ mem.instanceCount <= db.instanceCount + 1
      /\ Owed(t, dbtx.bal) /\ Below(mem.bal, dbtx.bal)
  BY <1>1, <1>4 DEF HolderInv, Committing
<1>6. Owed(t, mem.bal)' /\ Owed(t, dbtx.bal)'
  BY <1>1, <1>3, <1>5 DEF Owed, Call, Below, L!Transfers
<1>7. HolderInv(t)'
  BY <1>1, <1>3, <1>4, <1>5, <1>6 DEF HolderInv, Below
<1>8. QED  BY <1>4, <1>7

\* The tables become what the SQL transaction holds.
LEMMA CommitBalances ==
    ASSUME RInv, NEW t \in Threads, Commit(t)
    PROVE  BalanceInv'
<1>1. /\ pc[t] = "commit" /\ pc' = [pc EXCEPT ![t] = "reply"]
      /\ db' = dbtx /\ UNCHANGED <<mem, writeMu>>
  BY DEF Commit, Goto
<1>2. HolderInv(t) /\ pc'[t] = "reply" /\ (HolderInv(t)' => BalanceInv')
  BY <1>1, LabelStep DEF Holding, Committing
<1>3. Below(mem.bal, db.bal)'
  BY <1>1, <1>2 DEF HolderInv, Below
<1>4. HolderInv(t)'
  BY <1>2, <1>3 DEF HolderInv, Committing
<1>5. QED  BY <1>2, <1>4

\* The lock is released.
LEMMA ReplyBalances ==
    ASSUME RInv, NEW t \in Threads, Reply(t)
    PROVE  BalanceInv'
<1>1. pc[t] = "reply" /\ writeMu' = Nil /\ UNCHANGED <<mem, db>>
  BY DEF Reply
<1>2. Below(mem.bal, db.bal)
  BY <1>1, HolderFacts DEF Holding, HolderInv
<1>3. QED  BY <1>1, <1>2, NodeAssumption DEF BalanceInv, Below

\* A thread that does not hold the lock receives a request.
LEMMA ReceiveBalances ==
    ASSUME RInv, NEW t \in Threads, Receive(t)
    PROVE  BalanceInv'
<1>1. /\ pc[t] = "idle" /\ pc' = [pc EXCEPT ![t] = "lock"]
      /\ \A s \in Threads : s # t => req'[s] = req[s]
      /\ UNCHANGED <<mem, db, dbtx, writeMu, loc>>
  <2>1. req \in [Threads -> Request \cup {Nil}]
    BY DEF RInv, IInv, TypeOK
  <2>2. QED  BY <2>1 DEF Receive, Goto
<1>2. ASSUME NEW s \in Threads, writeMu' = s
      PROVE  HolderInv(s)'
  <2>1. s # t /\ HolderInv(s)
    BY <1>1, <1>2 DEF RInv, IInv, LockInv, BalanceInv, Holding, Committing
  <2>2. pc'[s] = pc[s] /\ req'[s] = req[s]
    BY <1>1, <2>1 DEF RInv, IInv, TypeOK
  <2>3. (Owed(s, mem.bal) => Owed(s, mem.bal)') /\ (Owed(s, dbtx.bal) => Owed(s, dbtx.bal)')
    BY <1>1, <2>2 DEF Owed, Call, Below, L!Transfers
  <2>4. QED  BY <1>1, <2>1, <2>2, <2>3 DEF HolderInv, Below
<1>3. QED  BY <1>1, <1>2 DEF RInv, BalanceInv, Below

\* The next process reads the balances on record.
LEMMA RestartBalances ==
    ASSUME RInv, Restart
    PROVE  BalanceInv'
<1>1. mem'.bal = db.bal /\ db' = db /\ writeMu' = Nil
  BY DEF Restart, Restored
<1>2. db.bal \in [Addr -> Nat]
  BY BalanceTypes DEF RInv
<1>3. QED  BY <1>1, <1>2, NodeAssumption DEF BalanceInv, Below

\* Nothing changes.
LEMMA StutterBalances ==
    ASSUME RInv, UNCHANGED vars
    PROVE  BalanceInv'
<1>1. UNCHANGED <<mem, db, dbtx, writeMu, pc, req, loc, committed>>
  BY DEF vars
<1>2. ASSUME NEW s \in Threads, HolderInv(s)
      PROVE  HolderInv(s)'
  <2>1. (Owed(s, mem.bal) => Owed(s, mem.bal)') /\ (Owed(s, dbtx.bal) => Owed(s, dbtx.bal)')
    BY <1>1 DEF Owed, Call, Below, L!Transfers
  <2>2. QED  BY <1>1, <1>2, <2>1 DEF HolderInv, Below
<1>3. QED  BY <1>1, <1>2 DEF RInv, BalanceInv, Below

-----------------------------------------------------------------------------
(***************************************************************************)
(* The refinement.                                                         *)
(***************************************************************************)
\* The log of the ledger: the transactions committed.
LogOf(c) == [i \in 1..Len(c) |-> c[i].id]

\* A commit appends to the log.
LEMMA LogAppend ==
    ASSUME NEW S, NEW c \in Seq(S), NEW r \in S
    PROVE  LogOf(Append(c, r)) = Append(LogOf(c), r.id)
<1> DEFINE n == Len(c)
           p == LogOf(c)
           q == LogOf(Append(c, r))
<1>1. n \in Nat /\ Len(Append(c, r)) = n + 1 /\ 1..n + 1 = (1..n) \cup {n + 1}
  OBVIOUS
<1>2. \A i \in 1..n : Append(c, r)[i] = c[i]
  OBVIOUS
<1>3. Append(c, r)[n + 1] = r
  OBVIOUS
<1> HIDE DEF n
<1>4. p = [i \in 1..n |-> c[i].id] /\ q = [i \in 1..n + 1 |-> Append(c, r)[i].id]
  BY <1>1 DEF LogOf, n
<1> DEFINE T == {c[i].id : i \in 1..n} \cup {r.id}
<1>5. p \in Seq(T) /\ Len(p) = n
  BY <1>1, <1>4
<1>6. q \in Seq(T) /\ Len(q) = n + 1
  <2>1. \A i \in 1..n + 1 : Append(c, r)[i].id \in T
    BY <1>1, <1>2, <1>3
  <2> HIDE DEF T
  <2>2. QED  BY <1>1, <1>4, <2>1
<1>7. r.id \in T
  OBVIOUS
<1>8. /\ \A i \in 1..n : q[i] = p[i]
      /\ q[n + 1] = r.id
  BY <1>1, <1>2, <1>3, <1>4
<1> HIDE DEF T, p, q
<1>9. q = Append(p, r.id)
  BY <1>1, <1>5, <1>6, <1>7, <1>8
<1>10. QED  BY <1>9 DEF p, q

\* Without a change of the tables and the history the ledger stutters.
LEMMA LedgerStutters ==
    ASSUME UNCHANGED <<db, committed>>
    PROVE  UNCHANGED L!vars
<1>1. Rows(db)' = Rows(db)
  BY DEF Rows
<1>2. QED  BY <1>1 DEF L!vars

\* The ledger starts empty.
LEMMA LedgerInit == Init => L!Init
<1> SUFFICES ASSUME Init PROVE L!Init
  OBVIOUS
<1>1. db = GenesisTables /\ committed = <<>>
  BY DEF Init
<1>2. Rows(db) = {}
  BY <1>1 DEF Rows, GenesisTables
<1>3. [i \in 1..Len(committed) |-> committed[i].id] = <<>>
  BY <1>1
<1>4. QED  BY <1>1, <1>2, <1>3 DEF L!Init, GenesisTables

\* Balances no higher than b, none below zero, are b with some tokens burned.
LEMMA BelowBurns ==
    ASSUME NEW b \in [Addr -> Int], NEW c \in [Addr -> Nat], Below(c, b)
    PROVE  L!Burns(b, c)
BY DEF Below, L!Burns, L!Addr, Addr

\* The row of a failed call is a fee of the ledger.
LEMMA PersistFailedCharges ==
    ASSUME RInv, NEW t \in Threads, PersistFailed(t)
    PROVE  L!Next
<1>1. /\ UNCHANGED committed /\ req[t].sender \in Users
      /\ Below(mem.bal, db.bal)
      /\ db.bal \in [Addr -> Nat] /\ db'.bal \in [Addr -> Nat]
      /\ \A a \in Addr : db'.bal[a] \in {mem.bal[a], db.bal[a]}
      /\ \A a \in Addr \ {req[t].sender} : db'.bal[a] = db.bal[a]
      /\ db'.nonce = db.nonce /\ db'.contracts = db.contracts
      /\ db'.codes = db.codes /\ db'.store = db.store
      /\ db'.opSeq = db.opSeq /\ db'.events = db.events
  BY PersistFailedRow
<1>2. Below(db'.bal, db.bal)
  BY <1>1 DEF Below
<1>3. L!Burns(db.bal, db'.bal)
  BY <1>1, <1>2, BelowBurns
<1>4. Rows(db)' = Rows(db)
  BY <1>1 DEF Rows
<1>5. L!Charge(req[t].sender)
  BY <1>1, <1>3, <1>4 DEF L!Charge, L!Addr, Addr
<1>6. QED  BY <1>1, <1>5 DEF L!Next

\* A commit is a transaction of the ledger, with all its effects.
LEMMA CommitTransacts ==
    ASSUME RInv, IInv', NEW t \in Threads, Commit(t)
    PROVE  L!Next
<1>0. PICK u \in Users : u = req[t].sender
  BY ServedFacts DEF Commit, RInv, Holding, Committing, Request
<1> DEFINE id == <<u, db.nonce[u]>>
<1>1. /\ pc[t] = "commit" /\ db' = dbtx
      /\ committed' = Append(committed, Record(t))
  BY DEF Commit
<1>2. /\ mem \in VMState /\ db \in Tables
      /\ ~Call(t) => req[t].code \in Codes
      /\ Advanced(t) /\ TablesWritten(t) /\ db.contracts = 1..db.instanceCount
  BY <1>1, CommittingFacts DEF RInv, Committing
<1>3. HolderInv(t)
  BY <1>1, HolderFacts DEF Holding, Committing
<1>4. TxId(t) = id
  BY <1>0, <1>2 DEF Advanced, RegistryAhead, TxId
<1>5. L!Accept(u)
  <2>1. db'.nonce = [db.nonce EXCEPT ![u] = @ + 1] /\ db'.opSeq = db.opSeq + 1
    BY <1>0, <1>1, <1>2 DEF Advanced, RegistryAhead, TablesWritten, RegistryWritten
  <2>2. LogOf(committed') = Append(LogOf(committed), id)
    <3> DEFINE S == [kind : Kinds, id : TxIds, code : Codes \cup {Nil}, seq : Nat]
    <3>1. committed \in Seq(S) /\ committed' \in Seq(S)
      BY DEF RInv, IInv, TypeOK
    <3> HIDE DEF S
    <3>2. Record(t) \in S
      <4>1. Len(committed) + 1 \in 1..Len(committed') /\ committed'[Len(committed) + 1] = Record(t)
        BY <1>1, <3>1
      <4>2. QED  BY <3>1, <4>1
    <3>3. Record(t).id = id
      BY <1>4 DEF Record
    <3>4. QED  BY <1>1, <3>1, <3>2, <3>3, LogAppend
  <2>3. QED  BY <2>1, <2>2 DEF L!Accept, LogOf
<1>6. db.bal \in [Addr -> Nat] /\ db'.bal \in [Addr -> Nat] /\ Owed(t, db'.bal)
  BY <1>1, <1>3, BalanceTypes DEF RInv, IInv, TypeOK, Tables, HolderInv
<1>7. CASE Call(t)
  <2>1. db'.store = db.store \cup {id} /\ db'.events = db.events \cup {<<db.opSeq, id>>}
    BY <1>1, <1>2, <1>4, <1>7 DEF Advanced, RegistryAhead, TablesWritten, RegistryWritten
  <2>2. Rows(db') = Rows(db)
    BY <1>1, <1>2, <1>7 DEF Advanced, RegistryAhead, TablesWritten, RegistryWritten
  <2>3. \E b \in L!Transfers(db.bal) : L!Burns(b, db'.bal)
    <3>1. PICK b \in L!Transfers(db.bal) : Below(db'.bal, b)
      BY <1>6, <1>7 DEF Owed
    <3>2. b \in [Addr -> Int]
      BY <1>6, <3>1 DEF L!Transfers, L!Move, L!Addr, Addr
    <3>3. QED  BY <1>6, <3>1, <3>2, BelowBurns
  <2>4. \/ db'.contracts = db.contracts
        \/ \E c \in Contract : db.contracts = 1..c - 1 /\ db'.contracts = 1..c
    <3>1. /\ db'.contracts = 1..mem.instanceCount
          /\ db.contracts = 1..db.instanceCount
          /\ db.instanceCount <= mem.instanceCount
          /\ mem.instanceCount <= db.instanceCount + 1
          /\ mem.instanceCount \in Nat /\ db.instanceCount \in Nat
      BY <1>1, <1>2, <1>3
         DEF Advanced, RegistryAhead, TablesWritten, RegistryWritten, HolderInv,
             Committing, VMState, Tables
    <3>2. CASE mem.instanceCount = db.instanceCount
      BY <3>1, <3>2
    <3>3. CASE mem.instanceCount = db.instanceCount + 1
      <4>1. mem.instanceCount \in db'.contracts
        BY <3>1, <3>3
      <4>2. db'.contracts \subseteq Contract
        BY DEF IInv, TypeOK, Tables
      <4>3. db.instanceCount = mem.instanceCount - 1
        BY <3>1, <3>3
      <4>4. QED  BY <3>1, <4>1, <4>2, <4>3
    <3>4. QED  BY <3>1, <3>2, <3>3
  <2>5. L!CallTransaction(u)
    BY <1>5, <2>1, <2>2, <2>3, <2>4 DEF L!CallTransaction
  <2>6. QED  BY <2>5 DEF L!Next
<1>8. CASE ~Call(t)
  <2>1. /\ db'.store = db.store /\ db'.events = db.events
        /\ db'.contracts = db.contracts
    BY <1>1, <1>2, <1>8 DEF Advanced, RegistryAhead, TablesWritten, RegistryWritten
  <2>2. Rows(db') = Rows(db) \cup {req[t].code}
    BY <1>1, <1>2, <1>8 DEF Advanced, RegistryAhead, TablesWritten, RegistryWritten
  <2>3. L!Burns(db.bal, db'.bal)
    BY <1>6, <1>8, BelowBurns DEF Owed
  <2>4. L!StoreTransaction(u)
    BY <1>2, <1>5, <1>8, <2>1, <2>2, <2>3 DEF L!StoreTransaction
  <2>5. QED  BY <2>4 DEF L!Next
<1>9. QED  BY <1>7, <1>8

\* Every step of a node without a faucet keeps the invariant, and is a step
\* of the ledger or changes nothing of it.
LEMMA StepRefines ==
    ASSUME Devnet = FALSE, RInv, [Next]_vars
    PROVE  RInv' /\ [L!Next]_(L!vars)
<1>1. IInv /\ IInv'
  BY NextInv DEF RInv
<1>2. ASSUME NEW t \in Threads, Receive(t) \/ FaucetSet(t) \/ Serve(t)
      PROVE  BalanceInv' /\ [L!Next]_(L!vars)
  <2>1. ~FaucetSet(t)
    BY NodeAssumption DEF FaucetSet
  <2>2. ~FaucetRead(t) /\ ~FaucetWrite(t)
    BY <1>1 DEF FaucetRead, FaucetWrite, IInv, LockInv, Holding, Committing
  <2>3. BalanceInv'
    BY <1>1, <1>2, <2>1, <2>2, ReceiveBalances, LockBalances, UndoableBalances,
       CallSucceedsBalances, StoreSucceedsBalances, RestoredBalances,
       ChargeFailedBalances, PersistFailedBalances, BeginBalances, FeeBalances,
       WriteTablesBalances, TickBalances, CommitBalances, ReplyBalances DEF Serve
  <2>4. PersistFailed(t) \/ Commit(t) \/ UNCHANGED <<db, committed>>
    BY <1>2, <2>1, <2>2
       DEF Serve, Receive, Lock, CallSucceeds, CallFails, StoreSucceeds,
           CallRefused, CallSimulated, RestoreFailed, ChargeFailed, Begin, Fee,
           WriteTables, Tick, Abort, Reply
  <2>5. QED
    BY <1>1, <2>3, <2>4, LedgerStutters, PersistFailedCharges, CommitTransacts
<1>3. CASE Restart
  BY <1>1, <1>3, RestartBalances, LedgerStutters DEF Restart, RInv
<1>4. CASE UNCHANGED vars
  BY <1>1, <1>4, StutterBalances, LedgerStutters DEF vars, RInv
<1>5. QED
  BY <1>1, <1>2, <1>3, <1>4 DEF Next, RInv

\* The memory starts as restored from the first database.
LEMMA InitRInv == Init => RInv
<1> SUFFICES ASSUME Init PROVE RInv
  OBVIOUS
<1>1. IInv /\ db.bal \in [Addr -> Nat]
  BY InitInv, BalanceTypes
<1>2. mem.bal = db.bal /\ writeMu = Nil
  BY DEF Init, Restored
<1>3. BalanceInv
  BY <1>1, <1>2, NodeAssumption DEF BalanceInv, Below
<1>4. QED  BY <1>1, <1>3 DEF RInv

\* The memory is never above the tables by more than a transaction in flight
\* has moved: whenever writeMu is free every balance in memory is at most the
\* balance on record.
THEOREM BalancesNeverAhead ==
    ASSUME Devnet = FALSE
    PROVE  Spec => []BalanceInv
<1>1. RInv /\ [Next]_vars => RInv'
  BY StepRefines
<1>2. RInv => BalanceInv
  BY DEF RInv
<1>3. QED  BY <1>1, <1>2, InitRInv, PTL DEF Spec

\* To its clients the node is the ledger: however handlers interleave, SQL
\* statements and commits fail and processes restart, what is on record
\* changes by whole transactions, each at its sender's next nonce and under
\* the next operation number, and by fees (handleStore, handleInstantiate,
\* handleExecute).
THEOREM NodeImplementsLedger ==
    ASSUME Devnet = FALSE
    PROVE  Spec => ImplementsLedger
<1>1. RInv /\ [Next]_vars => RInv' /\ [L!Next]_(L!vars)
  BY StepRefines
<1>2. QED
  BY <1>1, InitRInv, LedgerInit, PTL DEF Spec, ImplementsLedger, L!Spec
=============================================================================
